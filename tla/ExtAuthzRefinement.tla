------------------------- MODULE ExtAuthzRefinement -------------------------
(***************************************************************************)
(* Middleware and verifier together implement the egress gate, for every   *)
(* value of the constants: each of their steps is one of EgressGate's, or  *)
(* invisible there.                                                        *)
(***************************************************************************)
EXTENDS ExtAuthzProofs

\* A process that is down has forgotten who was revoked.
DownForgets == ~up => revoked_agents = {}

GateInv == LinkInv /\ DownForgets

LEMMA GateCorrect == Safety => []GateInv
<1>1. Init => DownForgets
  BY DEF Init, VerifierInit, DownForgets
<1>2. ASSUME LinkInv, DownForgets, [Next]_vars
      PROVE  DownForgets'
  <2>1. [VerifierNext]_vvars
    BY <1>2, VerifierStep DEF LinkInv, MiddlewareInv
  <2> QED
    BY <1>2, <2>1
       DEF DownForgets, VerifierNext, Receive, Handle, CheckToken, CheckPrincipal, Consume,
           Revoke, ClockStep, Crash, Restart, vvars
<1> QED
  BY <1>1, <1>2, LinkCorrect, PTL DEF Safety, GateInv

LEMMA GateInitMaps == Init => Gate!Init
<1> SUFFICES ASSUME Init PROVE Gate!Init
  OBVIOUS
<1>1. GateStrict \in BOOLEAN
  BY DEF GateStrict
<1>2. GateStatus = [s \in Slots |-> "new"]
  BY DEF GateStatus, Init, MiddlewareInit
<1>3. GateAsked = [s \in Slots |-> {}]
  BY DEF GateAsked, Asked, Init, MiddlewareInit
<1>4. GatePermits = {}
  BY OneCallPerRequest, NoneAssumption
     DEF GatePermits, Granted, Init, VerifierInit, NoReply, NoVerdict, VerifierReasons
<1> QED
  BY <1>1, <1>2, <1>3, <1>4 DEF Gate!Init, Init, VerifierInit

-----------------------------------------------------------------------------
(* The middleware's steps.  The verifier's half of the picture stands.     *)
LEMMA VerifierHalfStands ==
    ASSUME UNCHANGED <<vvars, cfg>>
    PROVE  /\ GateStrict' = GateStrict /\ GatePermits' = GatePermits
           /\ UNCHANGED <<seen_jti, revoked_agents, up, epoch>>
<1>1. GateStrict' = GateStrict
  BY DEF GateStrict
<1>2. GatePermits' = GatePermits
  BY DEF GatePermits, Granted, vvars
<1> QED
  BY <1>1, <1>2 DEF vvars

(* A request that goes out of a strict gate does so by a clean allow.      *)
LEMMA OnlyCleanAllowPasses ==
    ASSUME NEW a, NEW d, NEW o, NEW w, Truthful(a, d, o, w),
           a.enforced = (cfg.mode = "enforce"), d.kind # "Deny", d.kind \in {"Continue", "Deny"},
           GateStrict
    PROVE  a.decision = "allow" /\ a.enforced /\ ~a.degraded
  BY DEF Truthful, GateStrict

(* Only slot s has moved.                                                  *)
LEMMA OthersStand ==
    ASSUME NEW s \in Slots,
           \A t \in Slots \ {s} : /\ phase'[t] = phase[t] /\ decision'[t] = decision[t]
                                 /\ audit'[t] = audit[t]
    PROVE  GateStatus' = [GateStatus EXCEPT ![s] = GateStatus'[s]]
<1>1. \A t \in Slots \ {s} : CleanAllow(t)' <=> CleanAllow(t)
  BY Zenon DEF CleanAllow, Done
<1>2. \A t \in Slots \ {s} : GateStatus'[t] = GateStatus[t]
  BY <1>1 DEF GateStatus
<1>3. /\ GateStatus = [t \in Slots |-> GateStatus[t]]
      /\ GateStatus' = [t \in Slots |-> GateStatus'[t]]
  BY DEF GateStatus
<1> QED
  BY <1>2, <1>3

LEMMA ConcludeMaps ==
    ASSUME GateInv, LinkInv', NEW s \in Slots, NEW o, Conclude(s, o), UNCHANGED <<vvars, submitted>>
    PROVE  Gate!Release(s) \/ Gate!Stop(s) \/ Gate!Waive(s)
<1> USE DEF GateInv, LinkInv
<1>1. /\ GateStrict' = GateStrict /\ GatePermits' = GatePermits
      /\ UNCHANGED <<seen_jti, revoked_agents, up, epoch, wire, cfg>>
  BY VerifierHalfStands DEF Conclude
<1>2. GateAsked' = GateAsked
  BY <1>1 DEF GateAsked, Asked
<1>3. phase[s] = "calling" /\ phase' = [phase EXCEPT ![s] = "done"]
  BY DEF Conclude, Finish
<1>4. phase'[s] = "done" /\ Done(s)'
  BY <1>3 DEF MiddlewareInv, MiddlewareTypeOK, Done
<1>5. \A t \in Slots \ {s} : /\ phase'[t] = phase[t] /\ decision'[t] = decision[t]
                             /\ audit'[t] = audit[t]
  BY DEF Conclude, Finish, MiddlewareInv, MiddlewareTypeOK, Shapes
<1>6. GateStatus[s] = "held"
  BY <1>3 DEF GateStatus
<1>7. GateStatus' = [GateStatus EXCEPT ![s] = GateStatus'[s]]
  BY <1>5, OthersStand
<1>8. GateStatus'[s] = IF decision'[s].kind = "Deny" THEN "stopped"
                       ELSE IF CleanAllow(s)' THEN "released" ELSE "waived"
  BY <1>4 DEF GateStatus
<1>9. decision'[s].kind \in {"Continue", "Deny"} /\ Truthful(audit'[s], decision'[s], outcome'[s], wire'[s])
  <2>1. decision'[s].kind \in {"Continue", "Deny"}
    BY <1>4 DEF MiddlewareInv, MiddlewareTypeOK
  <2>2. Truthful(audit[s], decision[s], outcome[s], wire[s])'
    BY <1>4 DEF MiddlewareInv, AuditTellsTheTruth
  <2> QED
    BY <2>1, <2>2, <1>1 DEF Truthful
<1>10. CASE decision'[s].kind = "Deny"
  BY <1>1, <1>2, <1>6, <1>7, <1>8, <1>10 DEF Gate!Stop
<1>11. CASE decision'[s].kind # "Deny" /\ CleanAllow(s)'
  <2>1. VerifierAllowed(outcome'[s])
    BY <1>9, <1>11 DEF Truthful, CleanAllow
  <2>2. outcome'[s].response = reply'[s]
    BY <1>4, <2>1 DEF Linked, VerifierAllowed
  <2>3. s \in GatePermits
    BY <2>1, <2>2 DEF GatePermits, Granted, VerifierAllowed, vvars
  <2> QED
    BY <1>1, <1>2, <1>6, <1>7, <1>8, <1>11, <2>3 DEF Gate!Release
<1>12. CASE decision'[s].kind # "Deny" /\ ~CleanAllow(s)'
  <2>1. audit[s] = Started(wire[s])
    BY <1>3 DEF MiddlewareInv, InFlight
  <2>2. audit'[s].enforced = (cfg.mode = "enforce")
    BY <2>1, ConcludeKeepsMode DEF Conclude, Finish, MiddlewareInv, Shapes
  <2>3. ~GateStrict
    BY <1>4, <1>9, <1>12, <2>2, OnlyCleanAllowPasses DEF CleanAllow
  <2> QED
    BY <1>1, <1>2, <1>6, <1>7, <1>8, <1>12, <2>3 DEF Gate!Waive
<1> QED
  BY <1>10, <1>11, <1>12

LEMMA SubmitMaps ==
    ASSUME GateInv, NEW s \in Slots, NEW r \in EgressRequests, SubmitRequest(s, r)
    PROVE  Gate!Ask(s) \/ Gate!Stop(s) \/ Gate!Waive(s)
<1> USE DEF GateInv, LinkInv
<1>1. /\ GateStrict' = GateStrict /\ GatePermits' = GatePermits
      /\ UNCHANGED <<seen_jti, revoked_agents, up, epoch, cfg>>
  BY VerifierHalfStands DEF SubmitRequest, Evaluate
<1>2. phase[s] = "idle" /\ ~Asked(s) /\ GateStatus[s] = "new"
  BY DEF SubmitRequest, Evaluate, MiddlewareInv, InFlight, Asked, GateStatus
<1>3. \A t \in Slots \ {s} : /\ phase'[t] = phase[t] /\ decision'[t] = decision[t]
                             /\ audit'[t] = audit[t] /\ wire'[t] = wire[t]
                             /\ submitted'[t] = submitted[t]
  BY DEF SubmitRequest, Evaluate, Finish, MiddlewareInv, MiddlewareTypeOK, Shapes
<1>4. GateStatus' = [GateStatus EXCEPT ![s] = GateStatus'[s]]
  BY <1>3, OthersStand
<1>5. CASE LocalRefusal(cfg, r) # "OK"
  <2> DEFINE resolved == ResolveLocalDeny(NewAudit, LocalRefusal(cfg, r))
  <2>1. /\ wire' = wire /\ phase'[s] = "done"
        /\ decision'[s] = resolved.decision /\ audit'[s] = resolved.audit
    BY <1>5 DEF SubmitRequest, Evaluate, Finish, MiddlewareInv, MiddlewareTypeOK, Shapes
  <2>2. GateAsked' = GateAsked
    BY <1>1, <1>2, <1>3, <2>1 DEF GateAsked, Asked
  <2>3. CASE cfg.mode = "enforce"
    <3>1. GateStatus'[s] = "stopped"
      BY <2>1, <2>3 DEF GateStatus, ResolveLocalDeny, Blocked, DenyDecision
    <3> QED
      BY <1>1, <1>2, <1>4, <2>2, <3>1 DEF Gate!Stop
  <2>4. CASE cfg.mode # "enforce"
    <3>1. decision'[s].kind = "Continue" /\ audit'[s].enforced = (cfg.mode = "enforce")
      <4> DEFINE noted == [NewAudit EXCEPT !.reason_code = LocalRefusal(cfg, r)]
      <4>1. resolved = Passed(noted, TRUE)
        BY <2>4 DEF ResolveLocalDeny
      <4>2. noted.enforced = (cfg.mode = "enforce")
        BY DEF NewAudit
      <4>3. Passed(noted, TRUE).audit.enforced = noted.enforced
        BY DEF Passed, NewAudit
      <4>4. Passed(noted, TRUE).decision.kind = "Continue"
        BY DEF Passed, ContinueDecision
      <4> QED
        BY <2>1, <4>1, <4>2, <4>3, <4>4
    <3>2. GateStatus'[s] = "waived"
      BY <2>1, <2>4, <3>1 DEF GateStatus, CleanAllow
    <3>3. ~GateStrict
      BY <2>4 DEF GateStrict
    <3> QED
      BY <1>1, <1>2, <1>4, <2>2, <3>2, <3>3 DEF Gate!Waive
  <2> QED
    BY <2>3, <2>4
<1>6. CASE LocalRefusal(cfg, r) = "OK"
  <2> DEFINE q == AuthorizeRequest(cfg, r)
  <2>1. wire' = [wire EXCEPT ![s] = q] /\ phase'[s] = "calling"
    BY <1>6 DEF SubmitRequest, Evaluate, MiddlewareInv, MiddlewareTypeOK
  <2>2. wire'[s] = q /\ q # NoRequest
    BY <2>1, RequestsAreSent DEF MiddlewareInv, Shapes
  <2>3. q \in WireRequests
    BY <1>6, PeersAreMiddlewares DEF MiddlewareInv, MiddlewareTypeOK
  <2> HIDE DEF q
  <2>4. submitted'[s] = [epoch |-> epoch, revoked |-> revoked_agents]
    BY DEF SubmitRequest
  <2>5. GateAsked'[s] = {[nonce |-> NonceAsked(q), agent |-> AgentAsked(q), barred |-> revoked_agents]}
    BY <1>1, <2>2, <2>4 DEF GateAsked, Asked, DownForgets
  <2>6. GateAsked' = [GateAsked EXCEPT ![s] = GateAsked'[s]]
    BY <1>1, <1>3 DEF GateAsked, Asked
  <2>7. GateStatus'[s] = "held"
    BY <2>1 DEF GateStatus
  <2> QED
    BY <1>1, <1>2, <1>4, <2>3, <2>5, <2>6, <2>7 DEF Gate!Ask
<1> QED
  BY <1>5, <1>6

-----------------------------------------------------------------------------
(* The verifier's steps.  The middleware's half of the picture stands.     *)
LEMMA MiddlewareHalfStands ==
    ASSUME UNCHANGED <<mvars, submitted>>
    PROVE  GateStrict' = GateStrict /\ GateStatus' = GateStatus
<1>1. GateStrict' = GateStrict
  BY DEF GateStrict, mvars
<1>2. GateStatus' = GateStatus
  BY DEF GateStatus, CleanAllow, Done, mvars
<1> QED
  BY <1>1, <1>2

LEMMA AskedStands ==
    ASSUME UNCHANGED <<mvars, submitted, up, epoch>>
    PROVE  GateAsked' = GateAsked
  BY DEF GateAsked, Asked, mvars

(* An answer to one call grants that call at most.                         *)
LEMMA PermitsGrow ==
    ASSUME LinkInv, NEW s \in Slots, NEW v, Respond(s, v),
           stage[s] # "answered"
    PROVE  /\ s \notin GatePermits
           /\ GatePermits' = IF v.decision = "allow" THEN GatePermits \cup {s} ELSE GatePermits
<1> USE OneCallPerRequest DEF LinkInv, HandlerInv, VerifierTypeOK
<1>1. ~Granted(s)
  BY FinalIsAnswered DEF Final
<1>2. reply' = [reply EXCEPT ![s] = v]
  BY DEF Respond
<1>3. \A t \in Slots : Granted(t)' <=> IF t = s THEN v.decision = "allow" ELSE Granted(t)
  BY <1>2 DEF Granted
<1> QED
  BY <1>1, <1>3 DEF GatePermits

LEMMA RefusalMaps ==
    ASSUME LinkInv, NEW s \in Slots, NEW v, Respond(s, v), stage[s] # "answered",
           v.decision # "allow",
           UNCHANGED <<mvars, submitted, up, epoch, seen_jti, revoked_agents>>
    PROVE  UNCHANGED Gate!gvars
  BY PermitsGrow, MiddlewareHalfStands, AskedStands DEF Gate!gvars

LEMMA SilenceMaps ==
    ASSUME UNCHANGED <<mvars, submitted, up, epoch, seen_jti, revoked_agents, reply>>
    PROVE  UNCHANGED Gate!gvars
<1>1. GatePermits' = GatePermits
  BY DEF GatePermits, Granted
<1> QED
  BY <1>1, MiddlewareHalfStands, AskedStands DEF Gate!gvars

LEMMA DeliverMaps ==
    ASSUME GateInv, NEW s \in Slots, Deliver(s)
    PROVE  UNCHANGED Gate!gvars
<1> USE DEF GateInv
<1>1. /\ stage[s] = "idle"
      /\ UNCHANGED <<mvars, submitted, up, epoch, seen_jti, revoked_agents>>
  BY DEF Deliver, Receive
<1>2. PayloadTooLarge.decision # "allow"
  BY NoneAssumption DEF PayloadTooLarge, NoVerdict
<1>3. Respond(s, PayloadTooLarge) \/ UNCHANGED reply
  BY DEF Deliver, Receive
<1> QED
  BY <1>1, <1>2, <1>3, RefusalMaps, SilenceMaps

(* The one step in which a permit is given.                                *)
LEMMA ConsumeMaps ==
    ASSUME GateInv, NEW s \in Slots, Consume(s), UNCHANGED <<mvars, submitted>>
    PROVE  Gate!Permit(s) \/ UNCHANGED Gate!gvars
<1> USE OneCallPerRequest DEF GateInv, LinkInv
<1> DEFINE claims == ClaimsOf(request[s])
           snapshot == IF up /\ submitted[s].epoch = epoch THEN submitted[s].revoked ELSE {}
<1>1. /\ stage[s] = "nonce" /\ UNCHANGED <<up, epoch, revoked_agents>>
  BY DEF Consume
<1>2. CASE claims.jti \in seen_jti
  <2>1. Respond(s, Deny("TOKEN_REPLAYED")) /\ seen_jti' = seen_jti
    BY <1>2 DEF Consume, HandlerInv, VerifierTypeOK
  <2>2. Deny("TOKEN_REPLAYED").decision # "allow"
    BY DEF Deny, Response
  <2> QED
    BY <1>1, <2>1, <2>2, RefusalMaps
<1>3. CASE claims.jti \notin seen_jti
  <2>1. Respond(s, Allow(claims)) /\ seen_jti' = seen_jti \cup {claims.jti}
    BY <1>3 DEF Consume
  <2>2. Allow(claims).decision = "allow"
    BY DEF Allow, Response
  <2>3. s \notin GatePermits /\ GatePermits' = GatePermits \cup {s}
    BY <1>1, <2>1, <2>2, PermitsGrow
  <2>4. /\ Asked(s) /\ request[s] = wire[s] /\ request[s] \in WithToken
        /\ up /\ arrival[s].epoch = epoch
    BY <1>1 DEF Linked, HandlerInv, VerifierTypeOK, HandlersAreCurrent, Running
  <2>5. GateAsked[s] = {[nonce |-> claims.jti, agent |-> claims.agent_id, barred |-> snapshot]}
    BY <2>4 DEF GateAsked, NonceAsked, AgentAsked
  <2>6. claims.agent_id \notin snapshot
    BY <1>1, <2>4, ConsumeIsWarranted DEF Remembered
  <2> HIDE DEF claims, snapshot
  <2>7. \E q \in GateAsked[s] : /\ q.agent \notin q.barred
                                /\ q.nonce \notin seen_jti
                                /\ seen_jti' = seen_jti \cup {q.nonce}
    BY <1>3, <2>1, <2>5, <2>6
  <2> QED
    BY <1>1, <2>3, <2>7, MiddlewareHalfStands, AskedStands DEF Gate!Permit
<1> QED
  BY <1>2, <1>3

LEMMA ProcessMaps ==
    ASSUME GateInv, NEW s \in Slots, Process(s)
    PROVE  Gate!Permit(s) \/ UNCHANGED Gate!gvars
<1> USE DEF GateInv
<1>1. ASSUME CheckToken(s) \/ CheckPrincipal(s)
      PROVE  UNCHANGED Gate!gvars
  <2>1. /\ stage[s] # "answered"
        /\ UNCHANGED <<mvars, submitted, up, epoch, seen_jti, revoked_agents>>
    BY <1>1 DEF Process, CheckToken, CheckPrincipal
  <2>2. (\E code : Respond(s, Deny(code))) \/ UNCHANGED reply
    BY <1>1 DEF CheckToken, CheckPrincipal
  <2>3. \A code : Deny(code).decision # "allow"
    BY DEF Deny, Response
  <2> QED
    BY <2>1, <2>2, <2>3, RefusalMaps, SilenceMaps
<1>2. CASE Consume(s)
  BY <1>2, ConsumeMaps DEF Process
<1> QED
  BY <1>1, <1>2 DEF Process, Handle

(* The operator and the process itself.                                    *)
LEMMA OperateMaps ==
    ASSUME GateInv, Operate
    PROVE  (\E a \in Agents : Gate!Bar(a)) \/ Gate!Forget \/ UNCHANGED Gate!gvars
<1> USE DEF GateInv, LinkInv
<1>1. /\ UNCHANGED <<mvars, submitted, reply>>
      /\ GateStrict' = GateStrict /\ GateStatus' = GateStatus
  BY MiddlewareHalfStands DEF Operate, Revoke, ClockStep, Crash, Restart
<1>2. GatePermits' = GatePermits
  BY <1>1 DEF GatePermits, Granted
<1>3. ASSUME NEW a \in Agents, Revoke(a)
      PROVE  Gate!Bar(a)
  BY <1>1, <1>2, <1>3, AskedStands DEF Revoke, Gate!Bar
<1>4. ASSUME NEW t \in Clocks, ClockStep(t)
      PROVE  UNCHANGED Gate!gvars
  BY <1>1, <1>4, SilenceMaps DEF ClockStep
<1>5. CASE Crash
  <2>1. GateAsked' = [s \in Slots |-> {[q EXCEPT !.barred = {}] : q \in GateAsked[s]}]
    <3>1. GateAsked' = [s \in Slots |->
              IF Asked(s) THEN {[nonce |-> NonceAsked(wire[s]), agent |-> AgentAsked(wire[s]),
                                 barred |-> {}]}
              ELSE {}]
      BY <1>1, <1>5 DEF Crash, GateAsked, Asked, mvars
    <3>2. ASSUME NEW s \in Slots
          PROVE  GateAsked'[s] = {[q EXCEPT !.barred = {}] : q \in GateAsked[s]}
      <4>1. CASE Asked(s)
        <5> DEFINE snapshot == IF up /\ submitted[s].epoch = epoch THEN submitted[s].revoked ELSE {}
                   q == [nonce |-> NonceAsked(wire[s]), agent |-> AgentAsked(wire[s]),
                         barred |-> snapshot]
        <5>1. GateAsked[s] = {q}
          BY <4>1 DEF GateAsked
        <5> HIDE DEF snapshot
        <5>2. GateAsked'[s] = {[q EXCEPT !.barred = {}]}
          BY <3>1, <4>1
        <5> QED
          BY <5>1, <5>2
      <4>2. CASE ~Asked(s)
        BY <3>1, <4>2 DEF GateAsked
      <4> QED
        BY <4>1, <4>2
    <3> QED
      BY <3>1, <3>2
  <2> QED
    BY <1>1, <1>2, <1>5, <2>1 DEF Crash, Gate!Forget
<1>6. CASE Restart
  <2>1. \A s \in Slots : Asked(s) => submitted[s].epoch # epoch + 1
    BY DEF Remembered, HandlerInv, VerifierTypeOK
  <2>2. GateAsked' = GateAsked
    BY <1>1, <1>6, <2>1 DEF Restart, GateAsked, Asked, mvars
  <2> QED
    BY <1>1, <1>2, <1>6, <2>2 DEF Restart, Gate!gvars
<1> QED
  BY <1>3, <1>4, <1>5, <1>6 DEF Operate

-----------------------------------------------------------------------------
LEMMA GateStepMaps ==
    ASSUME GateInv, LinkInv', [Next]_vars
    PROVE  Gate!Next \/ UNCHANGED Gate!gvars
<1>1. ASSUME NEW s \in Slots, Submit(s)
      PROVE  Gate!Next
  BY <1>1, SubmitMaps DEF Submit, Gate!Next
<1>2. ASSUME NEW s \in Slots, Answer(s) \/ Break(s)
      PROVE  Gate!Next
  BY <1>2, ConcludeMaps DEF Answer, Break, BreakWith, Gate!Next
<1>3. ASSUME NEW s \in Slots, Deliver(s)
      PROVE  UNCHANGED Gate!gvars
  BY <1>3, DeliverMaps
<1>4. ASSUME NEW s \in Slots, Process(s)
      PROVE  Gate!Next \/ UNCHANGED Gate!gvars
  BY <1>4, ProcessMaps DEF Gate!Next
<1>5. CASE Operate
  BY <1>5, OperateMaps DEF Gate!Next
<1>6. CASE UNCHANGED vars
  BY <1>6, SilenceMaps DEF vars, vvars
<1> QED
  BY <1>1, <1>2, <1>3, <1>4, <1>5, <1>6 DEF Next

(***************************************************************************)
(* lib.rs:201-456 over verifier.rs:123-253: with lost and late calls,      *)
(* retries, revocations and restarts, the two together keep the gate.      *)
(***************************************************************************)
THEOREM EgressKeepsGate == Safety => KeepsGate
<1>1. GateInv /\ LinkInv' /\ [Next]_vars => [Gate!Next]_(Gate!gvars)
  BY GateStepMaps
<1> QED
  BY <1>1, GateInitMaps, GateCorrect, LinkCorrect, PTL DEF Safety, KeepsGate, Gate!Spec
=============================================================================
