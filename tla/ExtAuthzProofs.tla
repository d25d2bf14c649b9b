--------------------------- MODULE ExtAuthzProofs ---------------------------
(***************************************************************************)
(* The composition, for any requests, configurations, clocks, number of    *)
(* requests in flight and number of restarts: every step is a step of each *)
(* component or leaves it alone, so what the components guarantee holds    *)
(* here; what links the two is an invariant of its own.                    *)
(***************************************************************************)
EXTENDS ExtAuthz, VerifierProofs, MiddlewareProofs, CrhProofs

-----------------------------------------------------------------------------
(* A call that was sent is one its peer may make. *)
LEMMA SentIsWire ==
    ASSUME MiddlewareTypeOK, NEW s \in Slots, Asked(s)
    PROVE  /\ wire[s] \in WireRequests
           /\ egress[s] \in EgressRequests
           /\ wire[s] = AuthorizeRequest(cfg, egress[s])
           /\ s \in Calls
<1>1. /\ egress[s] \in EgressRequests
      /\ LocalRefusal(cfg, egress[s]) = "OK"
      /\ wire[s] = AuthorizeRequest(cfg, egress[s])
  BY DEF MiddlewareTypeOK
<1>2. PICK raw \in RawConfigs : cfg = Normalized(raw)
  BY DEF MiddlewareTypeOK
<1> QED
  BY <1>1, <1>2, PeersAreMiddlewares, OneCallPerRequest

LEMMA VerifierStep ==
    ASSUME MiddlewareTypeOK, [Next]_vars
    PROVE  [VerifierNext]_vvars
<1>1. ASSUME NEW s \in Slots, Deliver(s)
      PROVE  VerifierNext
  BY <1>1, SentIsWire DEF Deliver, VerifierNext, Asked
<1>2. ASSUME NEW s \in Slots, Process(s)
      PROVE  VerifierNext
  BY <1>2, OneCallPerRequest DEF Process, VerifierNext
<1>3. ASSUME NEW s \in Slots, Submit(s) \/ Answer(s) \/ Break(s)
      PROVE  UNCHANGED vvars
  BY <1>3 DEF Submit, SubmitRequest, Answer, Break, BreakWith
<1>4. CASE Operate
  BY <1>4 DEF Operate, VerifierNext
<1>5. CASE UNCHANGED vars
  BY <1>5 DEF vars
<1> QED
  BY <1>1, <1>2, <1>3, <1>4, <1>5 DEF Next

LEMMA MiddlewareStep ==
    ASSUME VerifierTypeOK, [Next]_vars
    PROVE  [MiddlewareNext]_mvars
<1>1. ASSUME NEW s \in Slots, Submit(s)
      PROVE  MiddlewareNext
  BY <1>1 DEF Submit, SubmitRequest, MiddlewareNext
<1>2. ASSUME NEW s \in Slots, Answer(s)
      PROVE  MiddlewareNext
  <2>1. reply[s] \in Verdicts
    BY OneCallPerRequest, RepliesAreVerdicts DEF VerifierTypeOK
  <2> QED
    BY <1>2, <2>1 DEF Answer, MiddlewareNext
<1>3. ASSUME NEW s \in Slots, Break(s)
      PROVE  MiddlewareNext
  BY <1>3 DEF Break, BreakWith, MiddlewareNext
<1>4. ASSUME NEW s \in Slots, Deliver(s) \/ Process(s)
      PROVE  UNCHANGED mvars
  BY <1>4 DEF Deliver, Process
<1>5. CASE Operate \/ UNCHANGED vars
  BY <1>5 DEF Operate, vars
<1> QED
  BY <1>1, <1>2, <1>3, <1>4, <1>5 DEF Next

(* What both components keep, kept together. *)
LEMMA BothCorrect == Safety => []HandlerInv /\ []MiddlewareInv
<1>1. Init => HandlerInv /\ MiddlewareInv
  BY HandlerInit, InvInit DEF Init
<1>2. HandlerInv /\ MiddlewareInv /\ [Next]_vars => HandlerInv' /\ MiddlewareInv'
  BY VerifierStep, MiddlewareStep, HandlerStep, InvStep DEF HandlerInv, MiddlewareInv
<1> QED
  BY <1>1, <1>2, PTL DEF Safety

(***************************************************************************)
(* Inside the composition each side behaves as it does alone: whatever is  *)
(* proved of the verifier against any peer, and of the middleware against  *)
(* any verifier, holds for the two together.                               *)
(***************************************************************************)
THEOREM ComponentsInside == Safety => VerifierSafety /\ MiddlewareSafety
<1>1. Init => VerifierInit /\ MiddlewareInit
  BY DEF Init
<1>2. HandlerInv /\ MiddlewareInv /\ [Next]_vars => [VerifierNext]_vvars /\ [MiddlewareNext]_mvars
  BY VerifierStep, MiddlewareStep DEF HandlerInv, MiddlewareInv
<1> QED
  BY <1>1, <1>2, BothCorrect, PTL DEF Safety, VerifierSafety, MiddlewareSafety

-----------------------------------------------------------------------------
(***************************************************************************)
(* The link between the two: the verifier handles what the slot sent, and  *)
(* the middleware decides on what the verifier replied.                    *)
(***************************************************************************)
Linked ==
    \A s \in Slots :
        /\ stage[s] # "idle" => Asked(s) /\ request[s] = wire[s]
        /\ Done(s) /\ outcome[s].kind = "Verdict" =>
              stage[s] = "answered" /\ outcome[s].response = reply[s]

\* The revoked set a request found at the hook only grows while the process lives.
Remembered ==
    \A s \in Slots :
        /\ submitted[s].epoch \in Nat
        /\ Asked(s) => submitted[s].epoch <= epoch
        /\ Asked(s) /\ up /\ stage[s] = "idle" /\ submitted[s].epoch = epoch =>
              submitted[s].revoked \subseteq revoked_agents
        /\ stage[s] # "idle" /\ arrival[s].epoch = submitted[s].epoch =>
              submitted[s].revoked \subseteq arrival[s].revoked

LinkInv ==
    /\ HandlerInv
    /\ MiddlewareInv
    /\ DOMAIN submitted = Slots
    /\ Linked
    /\ Remembered
LEMMA LinkInit == Init => LinkInv
<1> SUFFICES ASSUME Init PROVE LinkInv
  OBVIOUS
<1>1. HandlerInv /\ MiddlewareInv
  BY HandlerInit, InvInit DEF Init
<1>2. Linked /\ Remembered /\ DOMAIN submitted = Slots
  BY OneCallPerRequest
     DEF Init, VerifierInit, MiddlewareInit, Linked, Remembered, Asked, Done
<1> QED
  BY <1>1, <1>2 DEF LinkInv

(* A step of one side leaves the other side's half of the link alone. *)
LEMMA LinkStep == LinkInv /\ [Next]_vars => LinkInv'
<1> SUFFICES ASSUME LinkInv, [Next]_vars
             PROVE  LinkInv'
  OBVIOUS
<1> USE OneCallPerRequest DEF LinkInv
<1>1. HandlerInv' /\ MiddlewareInv'
  BY VerifierStep, MiddlewareStep, HandlerStep, InvStep DEF HandlerInv, MiddlewareInv
<1>2. /\ VerifierTypeOK /\ HandlersAreCurrent /\ AnswersAreLast
      /\ MiddlewareTypeOK /\ Shapes /\ InFlight
  BY DEF HandlerInv, MiddlewareInv
<1>3. ASSUME NEW s \in Slots, Submit(s)
      PROVE  DOMAIN submitted' = Slots /\ Linked' /\ Remembered'
  <2>1. phase[s] = "idle" /\ ~Asked(s) /\ stage[s] = "idle"
    BY <1>2, <1>3 DEF Submit, SubmitRequest, Evaluate, InFlight, Asked, Linked
  <2>2. phase'[s] # "idle"
    BY <1>2, <1>3 DEF Submit, SubmitRequest, Evaluate, Finish, MiddlewareTypeOK
  <2>3. \A t \in Slots \ {s} : /\ phase'[t] = phase[t] /\ wire'[t] = wire[t]
                               /\ outcome'[t] = outcome[t] /\ submitted'[t] = submitted[t]
    BY <1>2, <1>3 DEF Submit, SubmitRequest, Evaluate, Finish, MiddlewareTypeOK, Shapes
  <2>4. submitted'[s] = [epoch |-> epoch, revoked |-> revoked_agents]
    BY <1>3 DEF Submit, SubmitRequest
  <2>5. UNCHANGED vvars
    BY <1>3 DEF Submit, SubmitRequest
  <2>6. Done(s)' => outcome'[s].kind # "Verdict"
    BY <1>1, <1>2, <1>3, <2>1
       DEF Submit, SubmitRequest, Evaluate, Finish, MiddlewareTypeOK, Shapes, Done, Asked, Local, Failure,
           LocalRefusal
  <2>7. epoch \in Nat
    BY <1>2 DEF VerifierTypeOK
  <2>8. Linked'
    BY <2>1, <2>3, <2>5, <2>6 DEF Linked, Done, Asked, vvars
  <2>9. Remembered'
    BY <2>1, <2>3, <2>4, <2>5, <2>7 DEF Remembered, Asked, vvars
  <2> QED
    BY <1>3, <2>8, <2>9 DEF Submit, SubmitRequest
<1>4. ASSUME NEW s \in Slots, Deliver(s)
      PROVE  DOMAIN submitted' = Slots /\ Linked' /\ Remembered'
  <2>1. /\ Asked(s) /\ up /\ stage[s] = "idle"
        /\ stage'[s] \in {"answered", "token"} /\ request'[s] = wire[s]
        /\ arrival'[s].epoch = epoch /\ arrival'[s].revoked = revoked_agents
    BY <1>2, <1>4 DEF Deliver, Asked, Receive, Respond, VerifierTypeOK
  <2>2. \A t \in Slots \ {s} : /\ stage'[t] = stage[t] /\ request'[t] = request[t]
                               /\ arrival'[t] = arrival[t] /\ reply'[t] = reply[t]
    BY <1>2, <1>4 DEF Deliver, Receive, Respond, VerifierTypeOK
  <2>3. UNCHANGED <<mvars, submitted, epoch, up, revoked_agents>>
    BY <1>4 DEF Deliver, Receive
  <2>4. Linked'
    BY <2>1, <2>2, <2>3 DEF Linked, Done, Asked, mvars
  <2>5. Remembered'
    BY <2>1, <2>2, <2>3 DEF Remembered, Asked, mvars
  <2> QED
    BY <2>3, <2>4, <2>5
<1>5. ASSUME NEW s \in Slots, Process(s)
      PROVE  DOMAIN submitted' = Slots /\ Linked' /\ Remembered'
  <2>1. /\ stage[s] \in Running /\ stage'[s] # "idle"
        /\ UNCHANGED <<mvars, submitted, epoch, up, revoked_agents, request, arrival>>
    BY <1>2, <1>5
       DEF Process, Handle, CheckToken, CheckPrincipal, Consume, Respond, Running, VerifierTypeOK
  <2>2. \A t \in Slots \ {s} : stage'[t] = stage[t] /\ reply'[t] = reply[t]
    BY <1>2, <1>5
       DEF Process, Handle, CheckToken, CheckPrincipal, Consume, Respond, VerifierTypeOK
  <2>3. stage[s] \notin {"idle", "answered"}
    BY <2>1 DEF Running
  <2>4. Linked'
    BY <2>1, <2>2, <2>3 DEF Linked, Done, Asked, mvars
  <2>5. Remembered'
    BY <2>1, <2>2, <2>3 DEF Remembered, Asked, mvars
  <2> QED
    BY <2>1, <2>4, <2>5
<1>6. ASSUME NEW s \in Slots, Answer(s) \/ Break(s)
      PROVE  DOMAIN submitted' = Slots /\ Linked' /\ Remembered'
  <2>1. /\ UNCHANGED <<vvars, submitted, wire>>
        /\ \A t \in Slots \ {s} : phase'[t] = phase[t] /\ outcome'[t] = outcome[t]
    BY <1>2, <1>6 DEF Answer, Break, BreakWith, Conclude, Finish, MiddlewareTypeOK, Shapes
  <2>2. outcome'[s].kind = "Verdict" => stage[s] = "answered" /\ outcome'[s].response = reply[s]
    BY <1>2, <1>6 DEF Answer, Break, BreakWith, Conclude, Shapes, OutcomeOf, Failures, Failure
  <2>3. Linked'
    BY <2>1, <2>2 DEF Linked, Done, Asked, vvars
  <2>4. Remembered'
    BY <2>1 DEF Remembered, Asked, vvars
  <2> QED
    BY <2>1, <2>3, <2>4
<1>7. ASSUME Operate
      PROVE  DOMAIN submitted' = Slots /\ Linked' /\ Remembered'
  <2>1. UNCHANGED <<mvars, submitted>>
    BY <1>7 DEF Operate
  <2>2. ASSUME NEW a \in Agents, Revoke(a)
        PROVE  Linked' /\ Remembered'
    BY <2>1, <2>2 DEF Revoke, Linked, Remembered, Done, Asked, mvars
  <2>3. ASSUME NEW t \in Clocks, ClockStep(t)
        PROVE  Linked' /\ Remembered'
    <3>1. \A s \in Slots : /\ arrival'[s].epoch = arrival[s].epoch
                           /\ arrival'[s].revoked = arrival[s].revoked
      BY <1>2, <2>3 DEF ClockStep, VerifierTypeOK
    <3> QED
      BY <2>1, <2>3, <3>1 DEF ClockStep, Linked, Remembered, Done, Asked, mvars
  <2>4. ASSUME Crash
        PROVE  Linked' /\ Remembered'
    <3>1. \A s \in Slots : /\ (stage'[s] = "idle") <=> (stage[s] = "idle")
                           /\ (stage'[s] = "answered") <=> (stage[s] = "answered")
      BY <1>2, <2>4 DEF Crash, Running, VerifierTypeOK
    <3> QED
      BY <2>1, <2>4, <3>1 DEF Crash, Linked, Remembered, Done, Asked, mvars
  <2>5. ASSUME Restart
        PROVE  Linked' /\ Remembered'
    <3>1. epoch \in Nat
      BY <1>2 DEF VerifierTypeOK
    <3>2. Linked'
      BY <2>1, <2>5 DEF Restart, Linked, Done, Asked, mvars
    <3>3. Remembered'
      BY <2>1, <2>5, <3>1 DEF Restart, Remembered, Asked, mvars
    <3> QED
      BY <3>2, <3>3
  <2> QED
    BY <1>7, <2>1, <2>2, <2>3, <2>4, <2>5 DEF Operate
<1>8. ASSUME UNCHANGED vars
      PROVE  DOMAIN submitted' = Slots /\ Linked' /\ Remembered'
  BY <1>8 DEF vars, vvars, mvars, Linked, Remembered, Done, Asked
<1> QED
  BY <1>1, <1>3, <1>4, <1>5, <1>6, <1>7, <1>8 DEF Next

(* The composition's own invariant: both sides', and the link. *)
THEOREM LinkCorrect == Safety => []LinkInv
  BY LinkInit, LinkStep, PTL DEF Safety
-----------------------------------------------------------------------------
(* A clean allow is the verifier's: its call was granted, and the audit    *)
(* line carries the nonce it spent.                                        *)
LEMMA CleanAllowIsGranted ==
    ASSUME LinkInv, GrantsAreWarranted, NEW s \in Slots, CleanAllow(s)
    PROVE  /\ s \in Calls /\ Granted(s) /\ Asked(s) /\ stage[s] = "answered"
           /\ request[s] = wire[s] /\ wire[s] = AuthorizeRequest(cfg, egress[s])
           /\ egress[s] \in EgressRequests
           /\ audit[s].receipt_id = Jti(s)
<1> USE DEF LinkInv
<1>1. Truthful(audit[s], decision[s], outcome[s], wire[s])
  BY DEF MiddlewareInv, AuditTellsTheTruth, CleanAllow
<1>2. VerifierAllowed(outcome[s])
  BY <1>1 DEF Truthful, CleanAllow
<1>3. stage[s] = "answered" /\ outcome[s].response = reply[s] /\ request[s] = wire[s] /\ Asked(s)
  BY <1>2 DEF Linked, VerifierAllowed, CleanAllow
<1>4. Granted(s)
  BY <1>2, <1>3 DEF VerifierAllowed, Granted
<1>5. audit[s].receipt_id = reply[s].receipt_id
  BY <1>2, <1>3 DEF MiddlewareInv, AuditReports, Reported, VerifierAllowed, CleanAllow
<1>6. s \in Calls /\ reply[s].receipt_id = Jti(s)
  BY <1>4, OneCallPerRequest DEF GrantsAreWarranted
<1>7. egress[s] \in EgressRequests /\ wire[s] = AuthorizeRequest(cfg, egress[s])
  BY <1>3, SentIsWire DEF MiddlewareInv
<1> QED
  BY <1>3, <1>4, <1>5, <1>6, <1>7

(***************************************************************************)
(* verifier.rs:229-236 through lib.rs:301-315: while the verifier lives, a *)
(* token lets at most one enforced request out.                            *)
(***************************************************************************)
THEOREM AtMostOnceEgressHolds == Safety => []AtMostOnceEgress
<1>1. LinkInv /\ GrantsAreWarranted /\ SingleUse => AtMostOnceEgress
  BY CleanAllowIsGranted DEF AtMostOnceEgress, SingleUse
<1> QED
  BY <1>1, LinkCorrect, ComponentsInside, GrantsAreWarrantedHolds, SingleUseHolds, PTL

(***************************************************************************)
(* README.md:106: a request that reaches the hook after its agent was      *)
(* revoked is not let out, unless the verifier was restarted since.        *)
(***************************************************************************)
THEOREM RevokedStaysInHolds == Safety => []RevokedStaysIn
<1>1. LinkInv /\ GrantsAreWarranted /\ RevocationIsHonoured => RevokedStaysIn
  <2> SUFFICES ASSUME LinkInv, GrantsAreWarranted, RevocationIsHonoured,
                      NEW s \in Slots, CleanAllow(s), arrival[s].epoch = submitted[s].epoch
               PROVE  egress[s].context.agent_id \notin submitted[s].revoked
    BY DEF RevokedStaysIn
  <2>1. submitted[s].revoked \subseteq arrival[s].revoked
    BY CleanAllowIsGranted DEF LinkInv, Remembered
  <2>2. egress[s].context.agent_id = ClaimsOf(request[s]).agent_id
    <3>1. request[s].context = egress[s].context
      <4>1. request[s] = AuthorizeRequest(cfg, egress[s])
        BY CleanAllowIsGranted
      <4> QED
        BY <4>1 DEF AuthorizeRequest
    <3>2. s \in Calls /\ Granted(s)
      BY CleanAllowIsGranted
    <3> QED
      BY <3>1, <3>2 DEF GrantsAreWarranted
  <2>3. ClaimsOf(request[s]).agent_id \notin arrival[s].revoked
    BY CleanAllowIsGranted DEF RevocationIsHonoured
  <2> QED
    BY <2>1, <2>2, <2>3
<1> QED
  BY <1>1, LinkCorrect, ComponentsInside, GrantsAreWarrantedHolds, RevocationIsHonouredHolds, PTL

(***************************************************************************)
(* lib.rs:306-333: a granted request is blocked only by a lost response,   *)
(* and a replay that is reported points at another granted request.        *)
(***************************************************************************)
THEOREM SpentNonceExplainedHolds == Safety => []SpentNonceExplained
<1>1. LinkInv /\ ReplayHasWinner => SpentNonceExplained
  <2> SUFFICES ASSUME LinkInv, ReplayHasWinner,
                      NEW s \in Slots, Done(s), decision[s].kind = "Deny"
               PROVE  /\ Granted(s) => audit[s].degraded /\ decision[s].http_status = 503
                      /\ decision[s].reason_code = "TOKEN_REPLAYED" =>
                            \E t \in Slots \ {s} : /\ Granted(t) /\ Jti(t) = Jti(s)
                                                   /\ arrival[t].epoch = arrival[s].epoch
    BY DEF SpentNonceExplained
  <2> USE OneCallPerRequest DEF LinkInv
  <2>1. /\ Truthful(audit[s], decision[s], outcome[s], wire[s])
        /\ Reported(audit[s], outcome[s], wire[s])
    BY DEF MiddlewareInv, AuditTellsTheTruth, AuditReports
  <2>2. outcome[s].kind = "Verdict" => outcome[s].response = reply[s]
    BY DEF Linked
  <2>3. ~VerifierAllowed(outcome[s])
    BY <2>1 DEF Truthful
  <2>4. ASSUME Granted(s)
        PROVE  audit[s].degraded /\ decision[s].http_status = 503
    <3>1. wire[s] # NoRequest
      BY <2>4, FinalIsAnswered DEF Final, Linked, Asked
    <3>2. outcome[s] \in Failures
      BY <2>1, <2>2, <2>3, <2>4, <3>1 DEF Reported, Outcomes, VerifierAllowed, Granted
    <3>3. audit[s].degraded
      BY <2>1, <3>2 DEF Truthful, Failed
    <3> QED
      BY <2>1, <3>3 DEF Truthful
  <2>5. ASSUME decision[s].reason_code = "TOKEN_REPLAYED"
        PROVE  \E t \in Slots \ {s} : /\ Granted(t) /\ Jti(t) = Jti(s)
                                      /\ arrival[t].epoch = arrival[s].epoch
    <3>1. audit[s].reason_code = "TOKEN_REPLAYED"
      BY <2>1, <2>5 DEF Truthful
    <3>2. outcome[s].kind = "Verdict"
      BY <2>1, <3>1 DEF Reported, Outcomes, Failures, Failure, Local, LocalCodes
    <3>3. reply[s].reason_code = "TOKEN_REPLAYED"
      BY <2>1, <2>2, <3>1, <3>2 DEF Reported
    <3> QED
      BY <3>3 DEF ReplayHasWinner, GrantedIn
  <2> QED
    BY <2>4, <2>5
<1> QED
  BY <1>1, LinkCorrect, ComponentsInside, ReplayHasWinnerHolds, PTL
-----------------------------------------------------------------------------
(***************************************************************************)
(* The descriptor.  What the middleware writes for a request means to the  *)
(* verifier what the request means to the middleware.                      *)
(***************************************************************************)
LEMMA DescriptorHash ==
    ASSUME NEW r \in EgressRequests
    PROVE  CanonicalRequestHash(Descriptor(r)) = CanonicalRequestHash(Parts(r))
<1> DEFINE p == Parts(r)
           q == Descriptor(r)
<1>1. p.method \in Seq(Nat) /\ p.scheme \in Seq(Nat)
  BY RequestAssumption DEF Parts
<1>2. /\ q.method = ToAsciiUppercase(p.method) /\ q.scheme = ToAsciiLowercase(p.scheme)
      /\ q.authority = p.authority /\ q.path = p.path /\ q.query = p.query
      /\ q.body_sha256 = p.body_sha256
  BY DEF Parts, Descriptor
<1> HIDE DEF p, q
<1>3. CanonicalRequestHash(q) = CanonicalRequestHash(p)
  BY <1>1, <1>2, HashIgnoresCase
<1> QED
  BY <1>3 DEF p, q

LEMMA DescriptorScope ==
    ASSUME NEW r \in EgressRequests, NEW scope, InScope(scope, Descriptor(r))
    PROVE  InScope(scope, r)
<1>1. r.method \in Seq(Nat) /\ r.scheme \in Seq(Nat)
  BY RequestAssumption
<1>2. /\ Descriptor(r).method = ToAsciiUppercase(r.method)
      /\ Descriptor(r).scheme = ToAsciiLowercase(r.scheme)
      /\ Descriptor(r).authority = r.authority
      /\ Descriptor(r).path = r.path
  BY DEF Descriptor
<1>3. EqIgnoreAsciiCase(scope.method, r.method)
  BY <1>1, <1>2, FoldTwice DEF InScope, EqIgnoreAsciiCase
<1>4. AuthorityInScope(r.scheme, r.authority, scope.authority)
  BY <1>1, <1>2, FoldTwice DEF InScope, AuthorityInScope
<1>5. PathInScope(r.path, scope.path_prefix)
  BY <1>2 DEF InScope
<1> QED
  BY <1>3, <1>4, <1>5 DEF InScope

(***************************************************************************)
(* lib.rs:250-274 and verifier.rs:159-252: what goes out with a clean      *)
(* allow is what the token in its own header authorizes.                   *)
(***************************************************************************)
THEOREM EgressIsAuthorizedHolds == Safety => []EgressIsAuthorized
<1>1. LinkInv /\ GrantsAreWarranted => EgressIsAuthorized
  <2> SUFFICES ASSUME LinkInv, GrantsAreWarranted, NEW s \in Slots, CleanAllow(s),
                      cfg.token_header = DEFAULT_TOKEN_HEADER
               PROVE  LET claims == FindHeader(egress[s].headers, cfg.token_header).body
                      IN /\ claims.agent_id = egress[s].context.agent_id
                         /\ InScope(claims.scope, egress[s])
                         /\ claims.crh \in {None, CanonicalRequestHash(Parts(egress[s]))}
                         /\ audit[s].receipt_id = claims.jti
    BY DEF EgressIsAuthorized
  <2> DEFINE claims == FindHeader(egress[s].headers, cfg.token_header).body
  <2>1. /\ s \in Calls /\ Granted(s) /\ egress[s] \in EgressRequests
        /\ request[s] = AuthorizeRequest(cfg, egress[s])
        /\ audit[s].receipt_id = Jti(s)
    BY CleanAllowIsGranted
  <2>2. /\ request[s].context = egress[s].context
        /\ request[s].request = Descriptor(egress[s])
        /\ request[s].credentials = Credentials(cfg, egress[s])
    BY <2>1 DEF AuthorizeRequest
  <2>3. ClaimsOf(request[s]) = claims
    BY <2>2 DEF ClaimsOf, TokenOf, Credentials
  <2> HIDE DEF claims
  <2>4. /\ claims.agent_id = egress[s].context.agent_id
        /\ InScope(claims.scope, Descriptor(egress[s]))
        /\ claims.crh \in {None, CanonicalRequestHash(Descriptor(egress[s]))}
    BY <2>1, <2>2, <2>3 DEF GrantsAreWarranted
  <2>5. audit[s].receipt_id = claims.jti
    BY <2>1, <2>3 DEF Jti
  <2>6. /\ InScope(claims.scope, egress[s])
        /\ claims.crh \in {None, CanonicalRequestHash(Parts(egress[s]))}
    BY <2>1, <2>4, DescriptorHash, DescriptorScope
  <2> QED
    BY <2>4, <2>5, <2>6 DEF claims
<1> QED
  BY <1>1, LinkCorrect, ComponentsInside, GrantsAreWarrantedHolds, PTL
Disagreements == {"CRH_MISMATCH", "DESCRIPTOR_MALFORMED", "UNSUPPORTED_VERSION"}

(* The verifier recomputes the hash that the middleware wrote.             *)
LEMMA OwnHashAgrees ==
    ASSUME NEW r \in EgressRequests
    PROVE  /\ RecomputeCrh(Descriptor(r)) = Descriptor(r).canonical_request_hash
           /\ RecomputeCrh(Descriptor(r)) # None
<1> DEFINE d == Descriptor(r)
<1>1. d.body_sha256 = Sha256(r.body) /\ d.canonical_request_hash = CanonicalRequestHash(Parts(r))
  BY DEF Descriptor
<1>2. /\ NotHex \notin {Sha256(r.body), CanonicalRequestHash(Parts(r))}
      /\ CanonicalRequestHash(Parts(r)) # None
  BY DigestsAreHex
<1>3. CanonicalRequestHash(d) = d.canonical_request_hash
  BY <1>1, DescriptorHash
<1> HIDE DEF d
<1>4. RecomputeCrh(d) = d.canonical_request_hash /\ RecomputeCrh(d) # None
  BY <1>1, <1>2, <1>3 DEF RecomputeCrh
<1> QED
  BY <1>4 DEF d

(* The token step finds nothing wrong with a descriptor the middleware wrote. *)
LEMMA OwnDescriptorPasses ==
    ASSUME NEW config, NEW r \in EgressRequests, NEW now
    PROVE  TokenRefusal(AuthorizeRequest(config, r), now) \notin Disagreements
<1> DEFINE q == AuthorizeRequest(config, r)
<1>1. q.version = WIRE_VERSION /\ q.request = Descriptor(r)
  BY DEF AuthorizeRequest
<1> HIDE DEF q
<1>2. RecomputeCrh(q.request) = q.request.canonical_request_hash /\ RecomputeCrh(q.request) # None
  BY <1>1, OwnHashAgrees
<1>3. TokenRefusal(q, now) \notin Disagreements
  BY <1>1, <1>2 DEF TokenRefusal, Disagreements
<1> QED
  BY <1>3 DEF q

(***************************************************************************)
(* lib.rs:252-274 against verifier.rs:163-177: no request of the           *)
(* middleware's own is denied for its descriptor or its version.           *)
(***************************************************************************)
THEOREM DescriptorsAgreeHolds == Safety => []DescriptorsAgree
<1>1. Init => DescriptorsAgree
  BY NoneAssumption, OneCallPerRequest
     DEF Init, VerifierInit, DescriptorsAgree, NoReply, NoVerdict, VerifierReasons, RefusalCodes
<1>2. ASSUME LinkInv, DescriptorsAgree, [Next]_vars
      PROVE  DescriptorsAgree'
  <2> USE OneCallPerRequest DEF LinkInv
  <2>1. VerifierTypeOK
    BY <1>2 DEF HandlerInv
  <2>2. \A v, s : s \in Slots /\ Respond(s, v) /\ v.reason_code \notin Disagreements
                  => DescriptorsAgree'
    BY <1>2, <2>1 DEF Respond, VerifierTypeOK, DescriptorsAgree, Disagreements
  <2>3. UNCHANGED reply => DescriptorsAgree'
    BY <1>2 DEF DescriptorsAgree
  <2>4. ASSUME NEW s \in Slots, Deliver(s)
        PROVE  DescriptorsAgree'
    <3>1. PayloadTooLarge.reason_code \notin Disagreements
      BY NoneAssumption DEF PayloadTooLarge, NoVerdict, Disagreements, VerifierReasons, RefusalCodes
    <3> QED
      BY <2>2, <2>3, <2>4, <3>1 DEF Deliver, Receive
  <2>5. ASSUME NEW s \in Slots, CheckToken(s)
        PROVE  DescriptorsAgree'
    <3>1. Asked(s) /\ request[s] = wire[s]
      BY <1>2, <2>5 DEF CheckToken, Linked
    <3>2. egress[s] \in EgressRequests /\ request[s] = AuthorizeRequest(cfg, egress[s])
      BY <1>2, <3>1, SentIsWire DEF MiddlewareInv
    <3>3. TokenRefusal(request[s], NowMs(clock)) \notin Disagreements
      BY <3>2, OwnDescriptorPasses
    <3>4. Deny(TokenRefusal(request[s], NowMs(clock))).reason_code \notin Disagreements
      BY <3>3 DEF Deny, Response
    <3> QED
      BY <2>2, <2>3, <2>5, <3>4 DEF CheckToken
  <2>6. ASSUME NEW s \in Slots, CheckPrincipal(s)
        PROVE  DescriptorsAgree'
    <3>1. Deny(PrincipalRefusal(request[s], revoked_agents)).reason_code \notin Disagreements
      BY DEF Deny, Response, PrincipalRefusal, Disagreements
    <3> QED
      BY <2>2, <2>3, <2>6, <3>1 DEF CheckPrincipal
  <2>7. ASSUME NEW s \in Slots, Consume(s)
        PROVE  DescriptorsAgree'
    <3>1. \A claims : /\ Deny("TOKEN_REPLAYED").reason_code \notin Disagreements
                      /\ Allow(claims).reason_code \notin Disagreements
      BY DEF Deny, Allow, Response, Disagreements
    <3> QED
      BY <2>2, <2>7, <3>1 DEF Consume
  <2>8. CASE UNCHANGED reply
    BY <2>3, <2>8
  <2> QED
    BY <1>2, <2>4, <2>5, <2>6, <2>7, <2>8
       DEF Next, Submit, SubmitRequest, Process, Handle, Answer, Break, BreakWith, Operate, Revoke, ClockStep, Crash, Restart,
           vars, vvars
<1> QED
  BY <1>1, <1>2, LinkCorrect, PTL DEF Safety
=============================================================================
