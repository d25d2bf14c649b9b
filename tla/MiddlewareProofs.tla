-------------------------- MODULE MiddlewareProofs --------------------------
(***************************************************************************)
(* The middleware's invariants for any configurations, requests, verdicts  *)
(* and number of requests in flight.                                       *)
(***************************************************************************)
EXTENDS Middleware, FiniteSetTheorems, TLAPS

-----------------------------------------------------------------------------
(***************************************************************************)
(* The inductive invariant.  Besides the types it says what a slot carries *)
(* across the await: the line that was started, and nothing decided.       *)
(***************************************************************************)
LocalCodes == {"TOKEN_MISSING", "TOKEN_AMBIGUOUS", "REQUEST_TOO_LARGE"}

Started(w) == [NewAudit EXCEPT !.canonical_request_hash = w.request.canonical_request_hash]

Shapes ==
    /\ DOMAIN wire = Slots
    /\ DOMAIN outcome = Slots
    /\ DOMAIN decision = Slots
    /\ DOMAIN audit = Slots

InFlight ==
    \A s \in Slots :
        /\ phase[s] = "idle" => wire[s] = NoRequest
        /\ phase[s] = "calling" => audit[s] = Started(wire[s])
        /\ phase[s] # "done" => decision[s] = Undecided

\* How a call may end, as far as the decision is concerned.
Outcomes == Failures \cup [kind : {"Verdict"}, response : {v \in Verdicts : v.status = 200}]

\* Where the mode, the reason and the receipt in the audit line come from.
Reported(a, o, w) ==
    /\ a.enforced = (cfg.mode = "enforce")
    /\ o.kind = "Verdict" => /\ a.reason_code = o.response.reason_code
                             /\ a.receipt_id = o.response.receipt_id
    /\ o.kind # "Verdict" => a.reason_code = o.kind
    /\ IF w = NoRequest THEN o \in {Local(code) : code \in LocalCodes} ELSE o \in Outcomes

AuditReports == \A s \in Slots : Done(s) => Reported(audit[s], outcome[s], wire[s])

MiddlewareInv ==
    /\ MiddlewareTypeOK
    /\ Shapes
    /\ InFlight
    /\ AuditTellsTheTruth
    /\ ObserveMirrorsVerdicts
    /\ AuditReports

-----------------------------------------------------------------------------
(* A request is never mistaken for the absent one. *)
LEMMA RequestsAreSent ==
    ASSUME NEW config, NEW r
    PROVE  AuthorizeRequest(config, r) # NoRequest
<1>1. AuthorizeRequest(config, r).version = "1"
  BY DEF AuthorizeRequest, WIRE_VERSION
<1>2. NoRequest.version = None
  BY DEF NoRequest
<1>3. "request" \in DOMAIN AuthorizeRequest(config, r) /\ "request" \notin DOMAIN NoRequest
  BY DEF AuthorizeRequest, NoRequest
<1> QED
  BY <1>3

(* Every way a call ends is one of the outcomes. *)
LEMMA OutcomeTypes == \A v \in Verdicts : OutcomeOf(v) \in Outcomes
  BY DEF OutcomeOf, Outcomes, Failures, Failure

(* A local refusal is none of the failures. *)
LEMMA LocalIsNoFailure ==
    ASSUME NEW code \in LocalCodes
    PROVE  ~Failed(Local(code)) /\ ~VerifierAllowed(Local(code))
  BY DEF LocalCodes, Failed, Failures, Local, Failure, VerifierAllowed

LEMMA LocalRefusalType ==
    ASSUME NEW config, NEW r
    PROVE  LocalRefusal(config, r) \in LocalCodes \cup {"OK"}
  BY DEF LocalRefusal, LocalCodes

-----------------------------------------------------------------------------
(* What each resolution says is true: the four functions of lib.rs:370-456. *)

Right(resolved, o, w) ==
    /\ Truthful(resolved.audit, resolved.decision, o, w)
    /\ resolved.decision.kind \in {"Continue", "Deny"}
    /\ cfg.mode = "observe" /\ ~Failed(o) =>
          (resolved.audit.would_deny <=> ~VerifierAllowed(o))

LEMMA LocalDenyIsRight ==
    ASSUME NEW code \in LocalCodes
    PROVE  Right(ResolveLocalDeny(NewAudit, code), Local(code), NoRequest)
<1>1. CASE cfg.mode = "enforce"
  BY <1>1, LocalIsNoFailure DEF Right, Truthful, ResolveLocalDeny, Blocked, DenyDecision, NewAudit
<1>2. CASE cfg.mode # "enforce"
  BY <1>2, LocalIsNoFailure DEF Right, Truthful, ResolveLocalDeny, Passed, ContinueDecision, NewAudit
<1> QED
  BY <1>1, <1>2

LEMMA ConcludeIsRight ==
    ASSUME NEW o \in Outcomes, NEW w, w # NoRequest, cfg.fail \in {"closed", "open"}
    PROVE  Right(Resolve([Started(w) EXCEPT !.called = TRUE], o), o, w)
<1> DEFINE line  == [Started(w) EXCEPT !.called = TRUE]
           noted == [line EXCEPT !.reason_code = o.response.reason_code,
                                 !.receipt_id = o.response.receipt_id]
<1>1. CASE o \in Failures
  <2>1. o.kind # "Verdict" /\ Failed(o) /\ ~VerifierAllowed(o)
    BY <1>1 DEF Failures, Failure, Failed, VerifierAllowed
  <2>2. Resolve(line, o) = ResolveVerifierFailure(line, o.kind)
    BY <2>1 DEF Resolve
  <2>3. CASE cfg.mode = "enforce" /\ cfg.fail = "closed"
    <3>1. Right(ResolveVerifierFailure(line, o.kind), o, w)
      <4> DEFINE res == ResolveVerifierFailure(line, o.kind)
      <4>1. res.decision.kind = "Deny" /\ res.decision.http_status = 503
        BY <2>3 DEF ResolveVerifierFailure, Blocked, DenyDecision
      <4>2. res.decision.reason_code = res.audit.reason_code
        BY <2>3 DEF ResolveVerifierFailure, Blocked, DenyDecision, Started, NewAudit
      <4>3. res.decision.receipt_id = res.audit.receipt_id
        BY <2>3 DEF ResolveVerifierFailure, Blocked, DenyDecision, Started, NewAudit
      <4>4. res.audit.decision = "deny"
        BY <2>3 DEF ResolveVerifierFailure, Blocked, Started, NewAudit
      <4>5. res.audit.canonical_request_hash = w.request.canonical_request_hash
        BY <2>3 DEF ResolveVerifierFailure, Blocked, Started, NewAudit
      <4>6. res.audit.degraded /\ res.audit.enforced /\ res.audit.called
        BY <2>3 DEF ResolveVerifierFailure, Blocked, Started, NewAudit
      <4> HIDE DEF res
      <4>7. Truthful(res.audit, res.decision, o, w)
        BY <2>1, <4>1, <4>2, <4>3, <4>4, <4>5, <4>6 DEF Truthful
      <4>8. Right(res, o, w)
        BY <2>1, <4>1, <4>7 DEF Right
      <4> QED
        BY <4>8 DEF res
    <3> QED
      BY <2>2, <3>1
  <2>4. CASE ~(cfg.mode = "enforce" /\ cfg.fail = "closed")
    <3>1. CASE cfg.fail = "open"
      <4>1. Right(ResolveVerifierFailure(line, o.kind), o, w)
        BY <2>1, <3>1 DEF Right, Truthful, ResolveVerifierFailure, Passed, ContinueDecision, Started, NewAudit
      <4> QED
        BY <2>2, <4>1
    <3>2. CASE cfg.mode # "enforce"
      <4>1. Right(ResolveVerifierFailure(line, o.kind), o, w)
        BY <2>1, <3>2 DEF Right, Truthful, ResolveVerifierFailure, Passed, ContinueDecision, Started, NewAudit
      <4> QED
        BY <2>2, <4>1
    <3> QED
      BY <2>4, <3>1, <3>2
  <2> QED
    BY <2>3, <2>4
<1>2. CASE o.kind = "Verdict" /\ o.response.decision = "allow"
  <2>1. ~Failed(o) /\ VerifierAllowed(o)
    BY <1>2 DEF Failures, Failure, Failed, VerifierAllowed
  <2>2. Resolve(line, o) = Passed(noted, FALSE)
    BY <1>2 DEF Resolve
  <2>3. Right(Passed(noted, FALSE), o, w)
    BY <2>1 DEF Right, Truthful, Passed, ContinueDecision, Started, NewAudit
  <2> QED
    BY <2>2, <2>3
<1>3. CASE o.kind = "Verdict" /\ o.response.decision # "allow"
  <2>1. ~Failed(o) /\ ~VerifierAllowed(o)
    BY <1>3 DEF Failures, Failure, Failed, VerifierAllowed
  <2>2. Resolve(line, o) = ResolveVerdictDeny(noted)
    BY <1>3 DEF Resolve
  <2>3. CASE cfg.mode = "enforce"
    <3>1. Right(ResolveVerdictDeny(noted), o, w)
      BY <2>1, <2>3 DEF Right, Truthful, ResolveVerdictDeny, Blocked, DenyDecision, Started, NewAudit
    <3> QED
      BY <2>2, <3>1
  <2>4. CASE cfg.mode # "enforce"
    <3>1. Right(ResolveVerdictDeny(noted), o, w)
      BY <2>1, <2>4 DEF Right, Truthful, ResolveVerdictDeny, Passed, ContinueDecision, Started, NewAudit
    <3> QED
      BY <2>2, <3>1
  <2> QED
    BY <2>3, <2>4
<1> QED
  BY <1>1, <1>2, <1>3 DEF Outcomes

(* The reason and the receipt are the local code's, or the outcome's.      *)
LEMMA LocalDenyReports ==
    ASSUME NEW code \in LocalCodes
    PROVE  Reported(ResolveLocalDeny(NewAudit, code).audit, Local(code), NoRequest)
<1> DEFINE noted == [NewAudit EXCEPT !.reason_code = code]
<1>1. noted.enforced = (cfg.mode = "enforce")
  BY DEF NewAudit
<1>2. /\ Blocked(noted, 403).audit.enforced = noted.enforced
      /\ Passed(noted, TRUE).audit.enforced = noted.enforced
  BY DEF Blocked, Passed, NewAudit
<1>3. ResolveLocalDeny(NewAudit, code).audit.enforced = (cfg.mode = "enforce")
  BY <1>1, <1>2 DEF ResolveLocalDeny
<1>4. ResolveLocalDeny(NewAudit, code).audit.reason_code = Local(code).kind
  BY DEF ResolveLocalDeny, Blocked, Passed, NewAudit, Local, Failure
<1>5. Local(code).kind # "Verdict"
  BY DEF Local, Failure, LocalCodes
<1> QED
  BY <1>3, <1>4, <1>5 DEF Reported

(* However a call ends, the audit line says in which mode.                 *)
LEMMA ConcludeKeepsMode ==
    ASSUME NEW w, NEW o
    PROVE  Resolve([Started(w) EXCEPT !.called = TRUE], o).audit.enforced = (cfg.mode = "enforce")
<1> DEFINE line  == [Started(w) EXCEPT !.called = TRUE]
           noted == [line EXCEPT !.reason_code = o.response.reason_code,
                                 !.receipt_id = o.response.receipt_id]
<1>1. line.enforced = (cfg.mode = "enforce") /\ noted.enforced = line.enforced
  BY DEF Started, NewAudit
<1>2. ResolveVerifierFailure(line, o.kind).audit.enforced = line.enforced
  BY DEF ResolveVerifierFailure, Blocked, Passed, Started, NewAudit
<1>3. /\ Passed(noted, FALSE).audit.enforced = noted.enforced
      /\ ResolveVerdictDeny(noted).audit.enforced = noted.enforced
  BY DEF ResolveVerdictDeny, Blocked, Passed, Started, NewAudit
<1> QED
  BY <1>1, <1>2, <1>3 DEF Resolve

LEMMA ConcludeReports ==
    ASSUME NEW o \in Outcomes, NEW w, w # NoRequest
    PROVE  Reported(Resolve([Started(w) EXCEPT !.called = TRUE], o).audit, o, w)
<1> DEFINE line  == [Started(w) EXCEPT !.called = TRUE]
           noted == [line EXCEPT !.reason_code = o.response.reason_code,
                                 !.receipt_id = o.response.receipt_id]
<1>1. CASE o.kind # "Verdict"
  <2>1. ResolveVerifierFailure(line, o.kind).audit.reason_code = o.kind
    BY DEF ResolveVerifierFailure, Blocked, Passed, Started, NewAudit
  <2> QED
    BY <1>1, <2>1, ConcludeKeepsMode DEF Resolve, Reported
<1>2. CASE o.kind = "Verdict"
  <2>1. /\ noted.reason_code = o.response.reason_code
        /\ noted.receipt_id = o.response.receipt_id
    BY DEF Started, NewAudit
  <2>2. Resolve(line, o).audit \in {Passed(noted, FALSE).audit, ResolveVerdictDeny(noted).audit}
    BY <1>2 DEF Resolve
  <2>3. \A a \in {Passed(noted, FALSE).audit, ResolveVerdictDeny(noted).audit} :
          a.reason_code = noted.reason_code /\ a.receipt_id = noted.receipt_id
    BY DEF ResolveVerdictDeny, Blocked, Passed, Started, NewAudit
  <2> QED
    BY <1>2, <2>1, <2>2, <2>3, ConcludeKeepsMode DEF Reported
<1> QED
  BY <1>1, <1>2

-----------------------------------------------------------------------------
LEMMA InvInit == MiddlewareInit => MiddlewareInv
<1> SUFFICES ASSUME MiddlewareInit PROVE MiddlewareInv
  OBVIOUS
<1>1. MiddlewareTypeOK
  BY DEF MiddlewareInit, MiddlewareTypeOK, Asked, Done, Undecided, DenyDecision
<1>2. Shapes /\ InFlight
  BY DEF MiddlewareInit, Shapes, InFlight
<1>3. AuditTellsTheTruth /\ ObserveMirrorsVerdicts /\ AuditReports
  BY DEF MiddlewareInit, AuditTellsTheTruth, ObserveMirrorsVerdicts, AuditReports, Done
<1> QED
  BY <1>1, <1>2, <1>3 DEF MiddlewareInv

(* Finishing one slot with a resolution that is right keeps the audit true. *)
LEMMA FinishIsRight ==
    ASSUME MiddlewareInv, NEW s \in Slots, NEW o, NEW w, NEW resolved,
           Right(resolved, o, w), Reported(resolved.audit, o, w), Finish(s, resolved),
           outcome' = [outcome EXCEPT ![s] = o],
           wire[s] = w, wire' = wire, cfg' = cfg
    PROVE  /\ AuditTellsTheTruth' /\ ObserveMirrorsVerdicts' /\ AuditReports'
           /\ Shapes' /\ InFlight'
<1> USE DEF MiddlewareInv
<1>1. /\ phase'[s] = "done" /\ decision'[s] = resolved.decision
      /\ audit'[s] = resolved.audit /\ outcome'[s] = o /\ wire'[s] = w
  BY DEF Finish, Shapes, MiddlewareTypeOK
<1>2. \A t \in Slots \ {s} : /\ phase'[t] = phase[t] /\ decision'[t] = decision[t]
                              /\ audit'[t] = audit[t] /\ outcome'[t] = outcome[t]
                              /\ wire'[t] = wire[t]
  BY DEF Finish, Shapes, MiddlewareTypeOK
<1>3. AuditTellsTheTruth'
  <2> SUFFICES ASSUME NEW t \in Slots, phase'[t] = "done"
               PROVE  Truthful(audit[t], decision[t], outcome[t], wire[t])'
    BY DEF AuditTellsTheTruth, Done
  <2>1. Truthful(audit'[t], decision'[t], outcome'[t], wire'[t])
    BY <1>1, <1>2 DEF AuditTellsTheTruth, Done, Right
  <2> QED
    BY <2>1 DEF Truthful
<1>4. ObserveMirrorsVerdicts'
  BY <1>1, <1>2 DEF ObserveMirrorsVerdicts, WouldBlock, Done, Right
<1>5. Shapes'
  BY DEF Shapes, Finish
<1>6. InFlight'
  <2>1. \A t \in Slots : Started(wire[t])' = Started(wire[t])
    BY DEF Started, NewAudit
  <2>2. Undecided' = Undecided
    BY DEF Undecided, DenyDecision
  <2> QED
    BY <1>1, <1>2, <2>1, <2>2 DEF InFlight
<1>7. AuditReports'
  BY <1>1, <1>2 DEF AuditReports, Reported, Done
<1> QED
  BY <1>3, <1>4, <1>5, <1>6, <1>7

(* The await ends: one slot is finished with what its call ended in. *)
LEMMA ConcludeStep ==
    ASSUME MiddlewareInv, NEW s \in Slots, NEW o \in Outcomes, Conclude(s, o)
    PROVE  MiddlewareInv'
<1> USE DEF MiddlewareInv
<1> DEFINE resolved == Resolve([audit[s] EXCEPT !.called = TRUE], o)
<1>1. audit[s] = Started(wire[s]) /\ wire[s] # NoRequest
  BY DEF Conclude, InFlight, MiddlewareTypeOK, Asked
<1>2. cfg.fail \in {"closed", "open"}
  BY ConfigAssumption DEF MiddlewareTypeOK
<1>3. Right(resolved, o, wire[s])
  BY <1>1, <1>2, ConcludeIsRight
<1>4. Reported(resolved.audit, o, wire[s])
  BY <1>1, ConcludeReports
<1>5. /\ Finish(s, resolved) /\ outcome' = [outcome EXCEPT ![s] = o]
      /\ wire' = wire /\ cfg' = cfg /\ egress' = egress
  BY DEF Conclude
<1> HIDE DEF resolved
<1>6. /\ AuditTellsTheTruth' /\ ObserveMirrorsVerdicts' /\ AuditReports'
      /\ Shapes' /\ InFlight'
  BY <1>3, <1>4, <1>5, FinishIsRight
<1>7. MiddlewareTypeOK'
  BY <1>1, <1>3, <1>5 DEF MiddlewareTypeOK, Finish, Shapes, Done, Asked, Right
<1> QED
  BY <1>6, <1>7

(* A request is refused locally, or sent. *)
LEMMA EvaluateStep ==
    ASSUME MiddlewareInv, NEW s \in Slots, NEW r \in EgressRequests, Evaluate(s, r)
    PROVE  MiddlewareInv'
<1> USE DEF MiddlewareInv
<1> DEFINE refusal == LocalRefusal(cfg, r)
<1>1. phase[s] = "idle" /\ wire[s] = NoRequest /\ r # None
  BY RequestAssumption DEF Evaluate, InFlight
<1>2. CASE refusal # "OK"
  <2> DEFINE resolved == ResolveLocalDeny(NewAudit, refusal)
  <2>1. Right(resolved, Local(refusal), NoRequest)
    BY <1>2, LocalRefusalType, LocalDenyIsRight
  <2>2. Reported(resolved.audit, Local(refusal), NoRequest)
    BY <1>2, LocalRefusalType, LocalDenyReports
  <2>3. /\ Finish(s, resolved) /\ outcome' = [outcome EXCEPT ![s] = Local(refusal)]
        /\ wire' = wire /\ cfg' = cfg /\ egress' = [egress EXCEPT ![s] = r]
    BY <1>2 DEF Evaluate
  <2> HIDE DEF resolved
  <2>4. /\ AuditTellsTheTruth' /\ ObserveMirrorsVerdicts' /\ AuditReports'
        /\ Shapes' /\ InFlight'
    BY <1>1, <2>1, <2>2, <2>3, FinishIsRight
  <2>5. MiddlewareTypeOK'
    BY <1>1, <2>1, <2>3 DEF MiddlewareTypeOK, Finish, Shapes, Done, Asked, Right
  <2> QED
    BY <2>4, <2>5
<1>3. CASE refusal = "OK"
  <2>1. /\ phase' = [phase EXCEPT ![s] = "calling"]
        /\ wire' = [wire EXCEPT ![s] = AuthorizeRequest(cfg, r)]
        /\ audit' = [audit EXCEPT ![s] = Started(AuthorizeRequest(cfg, r))]
        /\ egress' = [egress EXCEPT ![s] = r]
        /\ UNCHANGED <<cfg, outcome, decision>>
    BY <1>3 DEF Evaluate, Started, AuthorizeRequest
  <2>2. AuthorizeRequest(cfg, r) # NoRequest
    BY RequestsAreSent
  <2>3. MiddlewareTypeOK'
    BY <1>1, <1>3, <2>1, <2>2 DEF MiddlewareTypeOK, Shapes, Done, Asked
  <2>4. Shapes'
    BY <2>1 DEF Shapes
  <2>5. InFlight'
    <3>1. \A t \in Slots : Started(wire[t])' = Started(wire'[t])
      BY <2>1 DEF Started, NewAudit
    <3>2. Undecided' = Undecided
      BY DEF Undecided, DenyDecision
    <3> QED
      BY <1>1, <2>1, <3>1, <3>2 DEF InFlight, Shapes, MiddlewareTypeOK
  <2>6. AuditTellsTheTruth'
    <3> SUFFICES ASSUME NEW t \in Slots, phase'[t] = "done"
                 PROVE  Truthful(audit[t], decision[t], outcome[t], wire[t])'
      BY DEF AuditTellsTheTruth, Done
    <3>1. t # s
      BY <1>1, <2>1 DEF MiddlewareTypeOK
    <3>2. Truthful(audit'[t], decision'[t], outcome'[t], wire'[t])
      BY <2>1, <3>1 DEF AuditTellsTheTruth, Done, Shapes, MiddlewareTypeOK
    <3> QED
      BY <2>1, <3>2 DEF Truthful
  <2>7. ObserveMirrorsVerdicts'
    BY <1>1, <2>1 DEF ObserveMirrorsVerdicts, WouldBlock, Done, Shapes, MiddlewareTypeOK
  <2>8. AuditReports'
    BY <1>1, <2>1 DEF AuditReports, Reported, Done, Shapes, MiddlewareTypeOK
  <2> QED
    BY <2>3, <2>4, <2>5, <2>6, <2>7, <2>8
<1> QED
  BY <1>2, <1>3

LEMMA InvStep == MiddlewareInv /\ [MiddlewareNext]_mvars => MiddlewareInv'
<1> SUFFICES ASSUME MiddlewareInv, [MiddlewareNext]_mvars
             PROVE  MiddlewareInv'
  OBVIOUS
<1>1. ASSUME NEW s \in Slots, NEW r \in EgressRequests, Evaluate(s, r)
      PROVE  MiddlewareInv'
  BY <1>1, EvaluateStep
<1>2. ASSUME NEW s \in Slots, NEW v \in Verdicts, Conclude(s, OutcomeOf(v))
      PROVE  MiddlewareInv'
  BY <1>2, OutcomeTypes, ConcludeStep
<1>3. ASSUME NEW s \in Slots, NEW f \in Failures, Conclude(s, f)
      PROVE  MiddlewareInv'
  BY <1>3, ConcludeStep DEF Outcomes
<1>4. CASE UNCHANGED mvars
  <2> USE <1>4 DEF mvars, MiddlewareInv
  <2>1. MiddlewareTypeOK'
    BY DEF MiddlewareTypeOK, Asked, Done
  <2>2. Shapes'
    BY DEF Shapes
  <2>3. InFlight'
    <3>1. \A t \in Slots : Started(wire[t])' = Started(wire[t]) /\ Undecided' = Undecided
      BY DEF Started, NewAudit, Undecided, DenyDecision
    <3> QED
      BY <3>1 DEF InFlight
  <2>4. AuditTellsTheTruth'
    BY DEF AuditTellsTheTruth, Truthful, Done
  <2>5. ObserveMirrorsVerdicts'
    BY DEF ObserveMirrorsVerdicts, WouldBlock, Done
  <2>6. AuditReports'
    BY DEF AuditReports, Reported, Done
  <2> QED
    BY <2>1, <2>2, <2>3, <2>4, <2>5, <2>6
<1> QED
  BY <1>1, <1>2, <1>3, <1>4 DEF MiddlewareNext

(***************************************************************************)
(* The middleware's invariant, for any configurations, requests, verdicts  *)
(* and number of requests in flight (lib.rs:189-456).                      *)
(***************************************************************************)
THEOREM MiddlewareCorrect == MiddlewareSafety => []MiddlewareInv
  BY InvInit, InvStep, PTL DEF MiddlewareSafety

(* lib.rs:189-334: a slot has a decision exactly when it is finished, and  *)
(* what it sent was built from its own request.                            *)
THEOREM MiddlewareTypeCorrect == MiddlewareSafety => []MiddlewareTypeOK
  BY MiddlewareCorrect, PTL DEF MiddlewareInv

(* lib.rs:399-456: the audit line says what was done, and why.             *)
THEOREM AuditTellsTheTruthHolds == MiddlewareSafety => []AuditTellsTheTruth
  BY MiddlewareCorrect, PTL DEF MiddlewareInv

(* lib.rs:138: would_deny is what enforcing would have done, whenever the  *)
(* verifier or the local check decided.                                    *)
THEOREM ObserveMirrorsVerdictsHolds == MiddlewareSafety => []ObserveMirrorsVerdicts
  BY MiddlewareCorrect, PTL DEF MiddlewareInv

-----------------------------------------------------------------------------
(* Headers that match a name are finitely many. *)
LEMMA MatchesFinite ==
    ASSUME NEW r \in EgressRequests, NEW name
    PROVE  IsFiniteSet(Matches(r.headers, name)) /\ Matches(r.headers, name) \subseteq Nat
<1>1. IsFiniteSet(1..Len(r.headers))
  BY RequestAssumption, FS_Interval
<1>2. Matches(r.headers, name) \subseteq 1..Len(r.headers)
  BY RequestAssumption DEF Matches
<1> QED
  BY <1>1, <1>2, FS_Subset

(* A request that is sent has one token header, and its value is sent. *)
LEMMA TokenIsTheOnlyOne ==
    ASSUME NEW config, NEW r \in EgressRequests, LocalRefusal(config, r) = "OK"
    PROVE  /\ Cardinality(Matches(r.headers, config.token_header)) = 1
           /\ \A i \in DOMAIN r.headers :
                 EqIgnoreAsciiCase(r.headers[i][1], config.token_header) =>
                    r.headers[i][2] = FindHeader(r.headers, config.token_header)
<1> DEFINE M == Matches(r.headers, config.token_header)
<1>1. M # {} /\ ~(Cardinality(M) > 1)
  BY DEF LocalRefusal
<1>2. IsFiniteSet(M) /\ M \subseteq Nat
  BY MatchesFinite
<1>3. Cardinality(M) \in Nat /\ Cardinality(M) # 0
  BY <1>1, <1>2, FS_CardinalityType, FS_EmptySet
<1>4. Cardinality(M) = 1
  BY <1>1, <1>3
<1>5. PICK i : M = {i}
  BY <1>2, <1>4, FS_Singleton
<1>6. Min(M) = i
  BY <1>2, <1>5 DEF Min
<1>7. FindHeader(r.headers, config.token_header) = r.headers[i][2]
  BY <1>6 DEF FindHeader
<1>8. \A j \in DOMAIN r.headers :
        EqIgnoreAsciiCase(r.headers[j][1], config.token_header) => j = i
  BY <1>5 DEF Matches
<1> QED
  BY <1>4, <1>7, <1>8

(***************************************************************************)
(* lib.rs:216-237, 264-299 and 484-498: whatever a request's headers look  *)
(* like, the credential that is sent to the verifier is the only one the   *)
(* request carries, and no header is disclosed but the configured ones.    *)
(***************************************************************************)
THEOREM CredentialIsUnambiguousHolds == MiddlewareSafety => []CredentialIsUnambiguous
<1>1. MiddlewareTypeOK => CredentialIsUnambiguous
  <2> SUFFICES ASSUME MiddlewareTypeOK, NEW s \in Slots, Asked(s)
               PROVE  /\ \A i \in DOMAIN egress[s].headers :
                            EqIgnoreAsciiCase(egress[s].headers[i][1], cfg.token_header) =>
                               egress[s].headers[i][2] = wire[s].credentials[cfg.token_header]
                      /\ Cardinality(Matches(egress[s].headers, cfg.token_header)) = 1
                      /\ DOMAIN wire[s].credentials \subseteq {cfg.token_header} \cup cfg.forward_headers
    BY DEF CredentialIsUnambiguous
  <2>1. /\ egress[s] \in EgressRequests
        /\ LocalRefusal(cfg, egress[s]) = "OK"
        /\ wire[s] = AuthorizeRequest(cfg, egress[s])
    BY DEF MiddlewareTypeOK
  <2>2. wire[s].credentials = Credentials(cfg, egress[s])
    BY <2>1 DEF AuthorizeRequest
  <2>3. wire[s].credentials[cfg.token_header] = FindHeader(egress[s].headers, cfg.token_header)
    BY <2>2 DEF Credentials
  <2>4. DOMAIN wire[s].credentials \subseteq {cfg.token_header} \cup cfg.forward_headers
    BY <2>2 DEF Credentials, ForwardedNames
  <2> QED
    BY <2>1, <2>3, <2>4, TokenIsTheOnlyOne
<1> QED
  BY <1>1, MiddlewareTypeCorrect, PTL

-----------------------------------------------------------------------------
(* Whichever path lets a request go out, it goes out by the one decision   *)
(* that names what to strip.                                               *)
Stripped == \A s \in Slots : Continued(s) => decision[s] = ContinueDecision

LEMMA ContinueIsOne ==
    ASSUME NEW line, NEW o
    PROVE  /\ \A code : ResolveLocalDeny(line, code).decision.kind = "Continue"
                           => ResolveLocalDeny(line, code).decision = ContinueDecision
           /\ Resolve(line, o).decision.kind = "Continue"
                 => Resolve(line, o).decision = ContinueDecision
<1> DEFINE Single(resolved) == resolved.decision.kind = "Continue" => resolved.decision = ContinueDecision
<1>1. \A l, would_deny : Single(Passed(l, would_deny))
  BY DEF Passed
<1>2. \A l, http_status : Single(Blocked(l, http_status))
  BY DEF Blocked, DenyDecision
<1> HIDE DEF Single
<1>3. \A l, code : Single(ResolveLocalDeny(l, code)) /\ Single(ResolveVerifierFailure(l, code))
  <2> TAKE l, code
  <2> DEFINE noted  == [l EXCEPT !.reason_code = code]
             failed == [l EXCEPT !.reason_code = code, !.degraded = TRUE]
  <2>1. \/ ResolveLocalDeny(l, code) = Blocked(noted, 403)
        \/ ResolveLocalDeny(l, code) = Passed(noted, TRUE)
    BY DEF ResolveLocalDeny
  <2>2. \/ ResolveVerifierFailure(l, code) = Blocked(failed, 503)
        \/ ResolveVerifierFailure(l, code) = Passed(failed, cfg.mode = "observe")
    BY DEF ResolveVerifierFailure
  <2> HIDE DEF noted, failed
  <2>3. Single(ResolveLocalDeny(l, code))
    BY <1>1, <1>2, <2>1, Zenon
  <2>4. Single(ResolveVerifierFailure(l, code))
    BY <1>1, <1>2, <2>2, Zenon
  <2> QED
    BY <2>3, <2>4
<1>4. \A l : Single(ResolveVerdictDeny(l))
  BY <1>1, <1>2, Zenon DEF ResolveVerdictDeny
<1>5. Single(Resolve(line, o))
  BY <1>1, <1>3, <1>4, Zenon DEF Resolve
<1> QED
  BY <1>3, <1>5 DEF Single

LEMMA StrippedStep ==
    ASSUME MiddlewareInv, Stripped, [MiddlewareNext]_mvars
    PROVE  Stripped'
<1> USE DEF MiddlewareInv
<1>0. cfg' = cfg => ContinueDecision' = ContinueDecision
  BY DEF ContinueDecision
<1>1. ASSUME NEW s \in Slots, NEW resolved, Finish(s, resolved), cfg' = cfg,
             resolved.decision.kind = "Continue" => resolved.decision = ContinueDecision
      PROVE  Stripped'
  BY <1>0, <1>1 DEF Finish, Stripped, Continued, Done, Shapes, MiddlewareTypeOK
<1>2. ASSUME NEW s \in Slots, NEW o, Conclude(s, o)
      PROVE  Stripped'
  BY <1>1, <1>2, ContinueIsOne DEF Conclude
<1>3. ASSUME NEW s \in Slots, NEW r \in EgressRequests, Evaluate(s, r)
      PROVE  Stripped'
  <2>1. CASE LocalRefusal(cfg, r) # "OK"
    BY <1>1, <1>3, <2>1, ContinueIsOne DEF Evaluate
  <2>2. CASE LocalRefusal(cfg, r) = "OK"
    BY <1>0, <1>3, <2>2 DEF Evaluate, Stripped, Continued, Done, MiddlewareTypeOK
  <2> QED
    BY <2>1, <2>2
<1>4. CASE UNCHANGED mvars
  BY <1>0, <1>4 DEF mvars, Stripped, Continued, Done
<1> QED
  BY <1>2, <1>3, <1>4 DEF MiddlewareNext

(***************************************************************************)
(* lib.rs:101-104 and 360-367: with stripping on, no request that goes out *)
(* carries the credential, whatever let it out and however its header was  *)
(* spelled or repeated.                                                    *)
(***************************************************************************)
THEOREM CredentialStaysHomeHolds == MiddlewareSafety => []CredentialStaysHome
<1>1. MiddlewareInit => Stripped
  BY DEF MiddlewareInit, Stripped, Continued, Done
<1>2. Stripped => CredentialStaysHome
  BY DEF Stripped, CredentialStaysHome, ForwardedHeaders, ContinueDecision
<1> QED
  BY <1>1, <1>2, StrippedStep, MiddlewareCorrect, PTL DEF MiddlewareSafety
=============================================================================
