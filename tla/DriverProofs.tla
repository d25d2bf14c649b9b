---------------------------- MODULE DriverProofs ----------------------------
(***************************************************************************)
(* The scenario suite, for any wall-clock readings and any number of       *)
(* failing calls.  It is one use of middleware and verifier together, so   *)
(* all that is proved of them holds in it; what its own order and its      *)
(* deadlines add is proved here.                                           *)
(***************************************************************************)
EXTENDS Driver, ExtAuthzProofs, SequenceTheorems

-----------------------------------------------------------------------------
(* The steps of the suite, seen by the composition: a request of the       *)
(* script, progress of a call, its failure, a revocation or the clock.     *)
LEMMA StepKinds ==
    ASSUME DriverNext
    PROVE  \/ \E s \in Slots : Run(s) \/ Serve(s) \/ \E f \in Failures : FailCall(s, f)
           \/ RevokeArrive
           \/ UNCHANGED vars
           \/ \E t \in Clocks : Tick(t)
  BY DEF DriverNext, RevokeSend, RevokeReturn, RevokeFail

(* The wall clock is always one of the readings. *)
LEMMA ClockIsReading == DriverSafety => [](clock \in Clocks)
<1>1. DriverInit => clock \in Clocks
  BY DemoAssumption DEF DriverInit
<1>2. ASSUME clock \in Clocks, [DriverNext]_allvars
      PROVE  (clock \in Clocks)'
  <2>1. ASSUME NEW s \in Slots, Run(s)
        PROVE  UNCHANGED clock
    BY <2>1 DEF Run, SubmitRequest, vvars
  <2>2. ASSUME NEW s \in Slots, Serve(s)
        PROVE  UNCHANGED clock
    BY <2>2 DEF Serve, Deliver, Receive, Process, Handle, CheckToken, CheckPrincipal, Consume, Answer, vvars
  <2>3. ASSUME NEW s \in Slots, NEW f \in Failures, FailCall(s, f)
        PROVE  UNCHANGED clock
    BY <2>3 DEF FailCall, BreakWith, vvars
  <2>4. CASE RevokeArrive
    BY <1>2, <2>4 DEF RevokeArrive, Revoke
  <2>5. ASSUME NEW t \in Clocks, Tick(t)
        PROVE  clock' = t
    BY <2>5 DEF Tick, ClockStep
  <2>6. CASE UNCHANGED vars
    BY <1>2, <2>6 DEF vars, vvars
  <2> QED
    BY <1>2, <2>1, <2>2, <2>3, <2>4, <2>5, <2>6, StepKinds DEF allvars
<1> QED
  BY <1>1, <1>2, PTL DEF DriverSafety

(* Every step of the suite is a step of the composition, or none of it. *)
LEMMA DriverStep ==
    ASSUME clock \in Clocks, [DriverNext]_allvars
    PROVE  [Next]_vars
<1>1. ASSUME NEW s \in Slots, Run(s)
      PROVE  Next
  <2>1. PICK r \in {RequestAt(s, NowMs(clock))} : SubmitRequest(s, r)
    BY <1>1 DEF Run
  <2>2. r \in EgressRequests
    BY <2>1, ScriptAssumption
  <2> QED
    BY <2>1, <2>2 DEF Next, Submit
<1>2. ASSUME NEW s \in Slots, Serve(s)
      PROVE  Next
  BY <1>2 DEF Serve, Next
<1>3. ASSUME NEW s \in Slots, NEW f \in Failures, FailCall(s, f)
      PROVE  Next
  BY <1>3 DEF FailCall, Break, Next
<1>4. CASE RevokeArrive
  BY <1>4, DemoAssumption DEF RevokeArrive, Operate, Next
<1>5. ASSUME NEW t \in Clocks, Tick(t)
      PROVE  Next
  BY <1>5 DEF Tick, Operate, Next
<1> QED
  BY <1>1, <1>2, <1>3, <1>4, <1>5, StepKinds DEF allvars

(***************************************************************************)
(* driver.rs:202-433 against lib.rs and verifier.rs: the suite is one of   *)
(* the ways in which the middleware and the verifier may be used together, *)
(* so every guarantee of the composition holds while it runs.              *)
(***************************************************************************)
THEOREM SuiteIsComposition == DriverSafety => Safety
<1>1. DriverInit => Init
  BY DEF DriverInit
<1> QED
  BY <1>1, ClockIsReading, DriverStep, PTL DEF DriverSafety, Safety
-----------------------------------------------------------------------------
(* The script: what tells its scenarios apart. *)
LEMMA ScriptFacts ==
    /\ DOMAIN Script = 1..12
    /\ Script[RevokedUse].minted_for = REVOKED
    /\ Script[RevokedUse].expect = "AGENT_REVOKED"
    /\ Script[Replay].expect = "TOKEN_REPLAYED"
    /\ Script[Replay].jti = "replay"
    /\ \A i \in 1..12 : Script[i].jti = "replay" => i \in {FirstUse, Replay}
<1>1. DOMAIN Script = 1..12
  BY DEF Script
<1>2. /\ Script[RevokedUse].minted_for = REVOKED
      /\ Script[RevokedUse].expect = "AGENT_REVOKED"
  BY DEF Script, Scenario, RevokedUse
<1>3. /\ Script[Replay].expect = "TOKEN_REPLAYED"
      /\ Script[Replay].jti = "replay"
  BY DEF Script, Scenario, Replay
<1>4. /\ Script[1].jti = "happy" /\ Script[2].jti = "respawn" /\ Script[3].jti = "wrongagent"
      /\ Script[4].jti = "revoked" /\ Script[5].jti = "workload" /\ Script[8].jti = "scope"
      /\ Script[9].jti = "intent" /\ Script[10].jti = "exp" /\ Script[11].jti = "none"
      /\ Script[12].jti = "down"
  BY DEF Script, Scenario
<1>5. ASSUME NEW i \in 1..12, Script[i].jti = "replay"
      PROVE  i \in {6, 7}
  BY <1>4, <1>5
<1> QED
  BY <1>1, <1>2, <1>3, <1>5 DEF FirstUse, Replay

(* The middleware's configured header is the one the verifier reads, and   *)
(* the driver's spelling of it matches; its other header does not.         *)
LEMMA HeaderNames ==
    /\ Normalized(DemoConfig).token_header = DEFAULT_TOKEN_HEADER
    /\ EqIgnoreAsciiCase(<<88, 45, 84>>, DEFAULT_TOKEN_HEADER)
    /\ ~EqIgnoreAsciiCase(<<99>>, DEFAULT_TOKEN_HEADER)
<1> DEFINE d == <<120, 45, 116>>
           u == <<88, 45, 84>>
<1>1. ToAsciiLowercase(d) = d
  <2>1. [i \in 1..3 |-> IF d[i] \in 65..90 THEN d[i] + 32 ELSE d[i]] = d
    OBVIOUS
  <2> QED
    BY <2>1 DEF ToAsciiLowercase
<1>2. ToAsciiLowercase(u) = d
  <2>1. [i \in 1..3 |-> IF u[i] \in 65..90 THEN u[i] + 32 ELSE u[i]] = d
    OBVIOUS
  <2> QED
    BY <2>1 DEF ToAsciiLowercase
<1>3. ToAsciiLowercase(<<99>>) # d
  <2>1. ToAsciiLowercase(<<99>>)[1] = 99
    BY DEF ToAsciiLowercase
  <2> QED
    BY <2>1
<1>4. Normalized(DemoConfig).token_header = ToAsciiLowercase(d)
  BY DEF Normalized, DemoConfig, DEFAULT_TOKEN_HEADER
<1> QED
  BY <1>1, <1>2, <1>3, <1>4 DEF EqIgnoreAsciiCase, DEFAULT_TOKEN_HEADER

LEMMA TwoInARow ==
    ASSUME NEW a, NEW b
    PROVE  <<a>> \o <<b>> = <<a, b>>
<1> DEFINE S == {a, b}
           both == <<a>> \o <<b>>
<1>1. <<a>> \in Seq(S) /\ <<b>> \in Seq(S) /\ Len(<<a>>) = 1 /\ Len(<<b>>) = 1
  OBVIOUS
<1>2. both \in Seq(S) /\ Len(both) = 2 /\ both[1] = a /\ both[2] = b
  <2> HIDE DEF S
  <2>1. \A s \in Seq(S), t \in Seq(S) :
          /\ s \o t \in Seq(S) /\ Len(s \o t) = Len(s) + Len(t)
          /\ \A i \in 1..Len(s \o t) :
                (s \o t)[i] = IF i <= Len(s) THEN s[i] ELSE t[i - Len(s)]
    BY ConcatProperties
  <2> QED
    BY <1>1, <2>1
<1> HIDE DEF both
<1>3. both = <<a, b>>
  BY <1>2
<1> QED
  BY <1>3 DEF both

(* A scripted request that is sent carries the token minted for it, and    *)
(* the verifier finds that token.                                          *)
LEMMA ScriptedToken ==
    ASSUME NEW i \in Slots, NEW t \in Clocks,
           LocalRefusal(Normalized(DemoConfig), RequestAt(i, NowMs(t))) = "OK"
    PROVE  /\ Script[i].token_present
           /\ TokenOf(AuthorizeRequest(Normalized(DemoConfig), RequestAt(i, NowMs(t))))
                 = TokenFor(i, ExpiryAt(i, NowMs(t)))
<1> DEFINE config == Normalized(DemoConfig)
           r == RequestAt(i, NowMs(t))
           token == TokenFor(i, ExpiryAt(i, NowMs(t)))
           X == <<88, 45, 84>>
<1>1. r \in EgressRequests
  BY ScriptAssumption
<1>2. r.headers = Hdr(i, token)
  BY DEF RequestAt
<1>3. config.token_header = DEFAULT_TOKEN_HEADER
  BY HeaderNames
<1>4. LocalRefusal(config, r) = "OK"
  OBVIOUS
<1>5. TokenOf(AuthorizeRequest(config, r)) = FindHeader(r.headers, config.token_header)
  BY <1>3 DEF TokenOf, AuthorizeRequest, Credentials
<1> HIDE DEF config, r, token
<1>6. Matches(r.headers, config.token_header) # {}
  BY <1>4 DEF LocalRefusal
<1>7. Script[i].token_present
  <2> SUFFICES ASSUME ~Script[i].token_present PROVE FALSE
    OBVIOUS
  <2>1. r.headers = <<<<<<99>>, None>>>>
    BY <1>2 DEF Hdr
  <2> QED
    BY <1>3, <1>6, <2>1, HeaderNames DEF Matches
<1>8. r.headers = <<<<<<99>>, None>>, <<X, token>>>>
  <2>1. r.headers = <<<<<<99>>, None>>>> \o <<<<X, token>>>>
    BY <1>2, <1>7 DEF Hdr
  <2> DEFINE a == <<<<99>>, None>>
             b == <<X, token>>
  <2>2. r.headers = <<a>> \o <<b>>
    BY <2>1
  <2> HIDE DEF a, b
  <2>3. <<a>> \o <<b>> = <<a, b>>
    BY TwoInARow
  <2> QED
    BY <2>2, <2>3 DEF a, b
<1>9. 2 \in DOMAIN r.headers /\ r.headers[2][1] = X /\ r.headers[2][2] = token
  BY <1>8
<1>10. r.headers[2][2] = FindHeader(r.headers, config.token_header)
  BY <1>1, <1>3, <1>4, <1>9, HeaderNames, TokenIsTheOnlyOne
<1> QED
  BY <1>5, <1>7, <1>9, <1>10 DEF config, r, token

-----------------------------------------------------------------------------
(***************************************************************************)
(* The suite's own invariant.                                              *)
(***************************************************************************)
\* Every request is the script's.
FromScript ==
    \A s \in Slots : phase[s] # "idle" =>
        \E t \in Clocks : egress[s] = RequestAt(s, NowMs(t))

\* A call is made when all earlier ones have ended.
InOrder ==
    \A r, s \in Slots : r < s /\ phase[s] # "idle" => Done(r)

ClosedPort ==
    \A s \in Slots : ~Script[s].port_open => stage[s] = "idle"

\* No step takes back what these two denials were based on.
StillTrue ==
    \A s \in Slots :
        /\ reply[s].reason_code = "AGENT_REVOKED" =>
              ClaimsOf(request[s]).agent_id \in revoked_agents
        /\ reply[s].reason_code = "TOKEN_EXPIRED" =>
              /\ ClaimsOf(request[s]).exp_unix_ms \in Int
              /\ NowMs(clock) > ClaimsOf(request[s]).exp_unix_ms

\* After n calls no more time has passed than n deadlines and what was lost
\* outside of the calls.
NoneAfter(n) == \A r \in Slots : r > n => phase[r] = "idle"

TimeAccounted ==
    /\ stalled \in Nat /\ called_at \in Int /\ Start <= clock
    /\ \A n \in 0..12 : NoneAfter(n) => clock - Start <= stalled + n * TIMEOUT_MS
    /\ \A s \in Slots : phase[s] = "calling" =>
          /\ clock <= called_at + TIMEOUT_MS
          /\ called_at - Start <= stalled + (s - 1) * TIMEOUT_MS

SuiteInv ==
    /\ LinkInv /\ clock \in Clocks
    /\ FromScript /\ InOrder
    /\ ClosedPort /\ StillTrue
    /\ TimeAccounted

LEMMA SlotsAreCalls == Slots \subseteq 1..12 /\ Slots \subseteq Nat
  BY ScriptAssumption, ScriptFacts

(* The middleware's half of a step, slot by slot.                          *)
LEMMA PhaseSteps ==
    ASSUME LinkInv, [DriverNext]_allvars
    PROVE  \/ \E s \in Slots :
                 /\ Run(s) /\ phase'[s] \in {"calling", "done"}
                 /\ egress'[s] = RequestAt(s, NowMs(clock))
                 /\ \A r \in Slots \ {s} :
                       phase'[r] = phase[r] /\ egress'[r] = egress[r] /\ outcome'[r] = outcome[r]
                 /\ UNCHANGED <<clock, stalled>> /\ called_at' = clock
           \/ \E s \in Slots :
                 /\ phase[s] = "calling" /\ phase'[s] = "done"
                 /\ \A r \in Slots \ {s} : phase'[r] = phase[r] /\ outcome'[r] = outcome[r]
                 /\ UNCHANGED <<egress, clock, stalled, called_at>>
           \/ UNCHANGED <<phase, egress, outcome, clock, stalled, called_at>>
           \/ UNCHANGED <<phase, egress, outcome>> /\ \E t \in Clocks : Tick(t)
<1> USE DEF LinkInv
<1>1. DOMAIN phase = Slots /\ DOMAIN egress = Slots /\ DOMAIN outcome = Slots
  BY DEF MiddlewareInv, MiddlewareTypeOK, Shapes
<1>2. ASSUME NEW s \in Slots, Run(s)
      PROVE  /\ phase'[s] \in {"calling", "done"}
             /\ egress'[s] = RequestAt(s, NowMs(clock))
             /\ \A r \in Slots \ {s} :
                   phase'[r] = phase[r] /\ egress'[r] = egress[r] /\ outcome'[r] = outcome[r]
             /\ UNCHANGED <<clock, stalled>> /\ called_at' = clock
  <2>1. PICK r \in {RequestAt(s, NowMs(clock))} : SubmitRequest(s, r)
    BY <1>2 DEF Run
  <2>2. Evaluate(s, r) /\ UNCHANGED clock
    BY <2>1 DEF SubmitRequest, vvars
  <2>3. phase'[s] \in {"calling", "done"} /\ \A q \in Slots \ {s} : phase'[q] = phase[q] /\ outcome'[q] = outcome[q]
    BY <1>1, <2>2 DEF Evaluate, Finish
  <2>4. egress' = [egress EXCEPT ![s] = r]
    BY <2>2 DEF Evaluate
  <2> QED
    BY <1>1, <1>2, <2>1, <2>2, <2>3, <2>4 DEF Run
<1>3. ASSUME NEW s \in Slots, NEW o, Conclude(s, o), UNCHANGED <<vvars, dvars>>
      PROVE  /\ phase[s] = "calling" /\ phase'[s] = "done"
             /\ \A r \in Slots \ {s} : phase'[r] = phase[r] /\ outcome'[r] = outcome[r]
             /\ UNCHANGED <<egress, clock, stalled, called_at>>
  BY <1>1, <1>3 DEF Conclude, Finish, vvars, dvars
<1>4. ASSUME NEW s \in Slots, Serve(s)
      PROVE  \/ UNCHANGED <<phase, egress, outcome, clock, stalled, called_at>>
             \/ Conclude(s, OutcomeOf(reply[s])) /\ UNCHANGED <<vvars, dvars>>
  BY <1>4 DEF Serve, Deliver, Receive, Process, Handle, CheckToken, CheckPrincipal, Consume,
              Answer, mvars, dvars
<1>5. ASSUME NEW s \in Slots, NEW f \in Failures, FailCall(s, f)
      PROVE  Conclude(s, f) /\ UNCHANGED <<vvars, dvars>>
  BY <1>5 DEF FailCall, BreakWith
<1>6. CASE RevokeSend \/ RevokeArrive \/ RevokeReturn \/ RevokeFail \/ UNCHANGED allvars
  BY <1>6 DEF RevokeSend, RevokeArrive, RevokeReturn, RevokeFail, Revoke, allvars, vars, vvars,
              mvars, dvars
<1>7. ASSUME NEW t \in Clocks, Tick(t)
      PROVE  UNCHANGED <<phase, egress, outcome>>
  BY <1>7 DEF Tick, mvars
<1> QED
  BY <1>2, <1>3, <1>4, <1>5, <1>6, <1>7 DEF DriverNext

LEMMA ScriptAndOrderStep ==
    ASSUME LinkInv, clock \in Clocks, FromScript, InOrder, [DriverNext]_allvars
    PROVE  FromScript' /\ InOrder'
<1>1. ASSUME NEW s \in Slots,
             Run(s), phase'[s] \in {"calling", "done"},
             egress'[s] = RequestAt(s, NowMs(clock)),
             \A r \in Slots \ {s} : phase'[r] = phase[r] /\ egress'[r] = egress[r]
      PROVE  FromScript' /\ InOrder'
  <2>1. FromScript'
    BY <1>1 DEF FromScript
  <2>2. phase[s] = "idle" /\ \A r \in Slots : r < s => Done(r)
    BY <1>1 DEF Run, Turn
  <2>3. ASSUME NEW q \in Slots, NEW r \in Slots, q < r, phase'[r] # "idle"
        PROVE  phase'[q] = "done"
    <3>1. CASE r = s
      BY <1>1, <2>2, <2>3, <3>1, SlotsAreCalls DEF Done
    <3>2. CASE r # s
      BY <1>1, <2>2, <2>3, <3>2 DEF InOrder, Done
    <3> QED
      BY <3>1, <3>2
  <2> QED
    BY <2>1, <2>3 DEF InOrder, Done
<1>2. ASSUME NEW s \in Slots,
             phase[s] = "calling", phase'[s] = "done",
             \A r \in Slots \ {s} : phase'[r] = phase[r],
             UNCHANGED egress
      PROVE  FromScript' /\ InOrder'
  BY <1>2 DEF FromScript, InOrder, Done
<1>3. CASE UNCHANGED <<phase, egress>>
  BY <1>3 DEF FromScript, InOrder, Done
<1> QED
  BY <1>1, <1>2, <1>3, PhaseSteps

LEMMA TimeStep ==
    ASSUME LinkInv, clock \in Clocks, InOrder, TimeAccounted, [DriverNext]_allvars
    PROVE  TimeAccounted'
<1> USE SlotsAreCalls, ClocksAssumption DEF TIMEOUT_MS
<1>0. clock \in Int /\ Start \in Int /\ stalled \in Nat /\ called_at \in Int /\ Start <= clock
  BY DemoAssumption DEF TimeAccounted
<1>1. ASSUME NEW s \in Slots,
             Run(s), phase'[s] \in {"calling", "done"},
             \A r \in Slots \ {s} : phase'[r] = phase[r],
             UNCHANGED <<clock, stalled>>, called_at' = clock
      PROVE  TimeAccounted'
  <2>1. phase[s] = "idle" /\ \A r \in Slots : r < s => Done(r)
    BY <1>1 DEF Run, Turn
  <2>2. \A r \in Slots : r >= s => phase[r] = "idle"
    BY <2>1 DEF InOrder, Done
  <2>3. s - 1 \in 0..12 /\ NoneAfter(s - 1)
    BY <2>2 DEF NoneAfter
  <2>4. clock - Start <= stalled + (s - 1) * 1000
    BY <2>3 DEF TimeAccounted
  <2>5. \A r \in Slots : phase'[r] = "calling" => r = s
    BY <1>1, <2>1, <2>2 DEF Done
  <2>6. \A n \in 0..12 : NoneAfter(n)' => NoneAfter(n)
    BY <1>1, <2>1 DEF NoneAfter
  <2> QED
    BY <1>0, <1>1, <2>4, <2>5, <2>6 DEF TimeAccounted
<1>2. ASSUME NEW s \in Slots,
             phase[s] = "calling", phase'[s] = "done",
             \A r \in Slots \ {s} : phase'[r] = phase[r],
             UNCHANGED <<clock, stalled, called_at>>
      PROVE  TimeAccounted'
  <2>1. \A n \in 0..12 : NoneAfter(n)' => NoneAfter(n)
    BY <1>2 DEF NoneAfter
  <2>2. \A r \in Slots : phase'[r] = "calling" => phase[r] = "calling"
    BY <1>2
  <2> QED
    BY <1>2, <2>1, <2>2 DEF TimeAccounted
<1>3. CASE UNCHANGED <<phase, clock, stalled, called_at>>
  BY <1>3 DEF TimeAccounted, NoneAfter
<1>4. ASSUME NEW t \in Clocks, Tick(t), UNCHANGED phase
      PROVE  TimeAccounted'
  <2>1. /\ clock' = t /\ t > clock /\ t \in Int /\ called_at' = called_at
        /\ InCall # {} => t <= called_at + 1000
        /\ stalled' = IF InCall = {} THEN stalled + (t - clock) ELSE stalled
    BY <1>4 DEF Tick, ClockStep
  <2>2. \A n \in 0..12 : NoneAfter(n)' => NoneAfter(n)
    BY <1>4 DEF NoneAfter
  <2>3. CASE InCall = {}
    <3>1. \A s \in Slots : phase'[s] # "calling"
      BY <1>4, <2>3 DEF InCall
    <3>2. stalled' = stalled + (t - clock) /\ stalled' \in Nat
      BY <1>0, <2>1, <2>3
    <3>3. ASSUME NEW n \in 0..12, NoneAfter(n)'
          PROVE  clock' - Start <= stalled' + n * 1000
      <4>1. clock - Start <= stalled + n * 1000
        BY <2>2, <3>3 DEF TimeAccounted
      <4> QED
        BY <1>0, <2>1, <3>2, <4>1
    <3> QED
      BY <1>0, <2>1, <3>1, <3>2, <3>3 DEF TimeAccounted
  <2>4. CASE InCall # {}
    <3>1. PICK s \in Slots : phase[s] = "calling"
      BY <2>4 DEF InCall
    <3>2. \A r \in Slots : phase'[r] = "calling" => phase[r] = "calling"
      BY <1>4
    <3>3. t <= called_at + 1000 /\ stalled' = stalled
      BY <2>1, <2>4
    <3>4. called_at - Start <= stalled + (s - 1) * 1000
      BY <3>1 DEF TimeAccounted
    <3>5. ASSUME NEW n \in 0..12, NoneAfter(n)'
          PROVE  clock' - Start <= stalled' + n * 1000
      <4>1. s <= n
        BY <1>4, <3>1, <3>5 DEF NoneAfter
      <4> QED
        BY <1>0, <2>1, <3>3, <3>4, <4>1
    <3>6. \A r \in Slots : phase[r] = "calling" => called_at - Start <= stalled + (r - 1) * 1000
      BY DEF TimeAccounted
    <3> QED
      BY <1>0, <2>1, <3>2, <3>3, <3>5, <3>6 DEF TimeAccounted
  <2> QED
    BY <2>3, <2>4
<1> QED
  BY <1>1, <1>2, <1>3, <1>4, PhaseSteps

(* What the two denials say when they are given. *)
LEMMA RefusalReasons ==
    ASSUME NEW q, NEW now, NEW revoked
    PROVE  /\ TokenRefusal(q, now) # "AGENT_REVOKED"
           /\ TokenRefusal(q, now) = "TOKEN_EXPIRED" =>
                 DEFAULT_TOKEN_HEADER \in DOMAIN q.credentials /\ now > ClaimsOf(q).exp_unix_ms
           /\ PrincipalRefusal(q, revoked) # "TOKEN_EXPIRED"
           /\ PrincipalRefusal(q, revoked) = "AGENT_REVOKED" => ClaimsOf(q).agent_id \in revoked
  BY DEF TokenRefusal, PrincipalRefusal, Expired

LEMMA NowIsMonotone ==
    ASSUME NEW t \in Int, NEW u \in Int, t <= u
    PROVE  /\ NowMs(t) \in Int /\ NowMs(u) \in Int
           /\ NowMs(t) <= NowMs(u) /\ NowMs(u) - NowMs(t) <= u - t
  BY DEF NowMs

(* The verifier's half of a step: what it says, and what it knows. *)
LEMMA VerdictStep ==
    ASSUME LinkInv, clock \in Clocks, FromScript, InOrder, ClosedPort, StillTrue,
           [DriverNext]_allvars
    PROVE  ClosedPort' /\ StillTrue'
<1> USE OneCallPerRequest DEF LinkInv
<1>1. /\ DOMAIN stage = Slots /\ DOMAIN reply = Slots /\ DOMAIN request = Slots
      /\ clock \in Int /\ NowMs(clock) \in Int
      /\ \A s \in Slots : reply[s].reason_code \in {"AGENT_REVOKED", "TOKEN_EXPIRED"} =>
                             stage[s] = "answered"
  <2>1. DOMAIN stage = Slots /\ DOMAIN reply = Slots /\ DOMAIN request = Slots
    BY DEF HandlerInv, VerifierTypeOK
  <2>2. clock \in Int /\ NowMs(clock) \in Int
    BY ClocksAssumption DEF NowMs
  <2>3. NoReply.reason_code \notin {"AGENT_REVOKED", "TOKEN_EXPIRED"}
    BY NoneAssumption DEF NoReply, NoVerdict, VerifierReasons, RefusalCodes
  <2> QED
    BY <2>1, <2>2, <2>3 DEF HandlerInv, AnswersAreLast
<1>2. ASSUME NEW s \in Slots, NEW v, stage[s] # "answered", Respond(s, v),
             UNCHANGED <<clock, revoked_agents>>,
             \A r \in Slots : stage[r] = "answered" => request'[r] = request[r],
             v.reason_code = "AGENT_REVOKED" => ClaimsOf(request'[s]).agent_id \in revoked_agents,
             v.reason_code = "TOKEN_EXPIRED" =>
                /\ ClaimsOf(request'[s]).exp_unix_ms \in Int
                /\ NowMs(clock) > ClaimsOf(request'[s]).exp_unix_ms
      PROVE  StillTrue'
  <2>1. reply'[s] = v /\ \A r \in Slots \ {s} : reply'[r] = reply[r]
    BY <1>1, <1>2 DEF Respond
  <2>2. ASSUME NEW r \in Slots, reply'[r].reason_code = "AGENT_REVOKED"
        PROVE  ClaimsOf(request'[r]).agent_id \in revoked_agents'
    <3>1. CASE r = s
      BY <1>2, <2>1, <2>2, <3>1
    <3>2. CASE r # s
      <4>1. reply[r].reason_code = "AGENT_REVOKED" /\ request'[r] = request[r]
        BY <1>1, <1>2, <2>1, <2>2, <3>2
      <4> QED
        BY <1>2, <4>1 DEF StillTrue
    <3> QED
      BY <3>1, <3>2
  <2>3. ASSUME NEW r \in Slots, reply'[r].reason_code = "TOKEN_EXPIRED"
        PROVE  /\ ClaimsOf(request'[r]).exp_unix_ms \in Int
               /\ NowMs(clock') > ClaimsOf(request'[r]).exp_unix_ms
    <3>1. CASE r = s
      BY <1>2, <2>1, <2>3, <3>1
    <3>2. CASE r # s
      <4>1. reply[r].reason_code = "TOKEN_EXPIRED" /\ request'[r] = request[r]
        BY <1>1, <1>2, <2>1, <2>3, <3>2
      <4> QED
        BY <1>2, <4>1 DEF StillTrue
    <3> QED
      BY <3>1, <3>2
  <2> QED
    BY <2>2, <2>3 DEF StillTrue
<1>3. ASSUME UNCHANGED <<reply, clock, revoked_agents>>,
             \A r \in Slots : stage[r] = "answered" => request'[r] = request[r]
      PROVE  StillTrue'
  <2>1. \A r \in Slots : reply[r].reason_code \in {"AGENT_REVOKED", "TOKEN_EXPIRED"} =>
                            request'[r] = request[r]
    BY <1>1, <1>3
  <2> QED
    BY <1>3, <2>1 DEF StillTrue
<1>4. ASSUME NEW s \in Slots, Deliver(s), Script[s].port_open
      PROVE  ClosedPort' /\ StillTrue'
  <2>1. /\ stage[s] = "idle" /\ \A r \in Slots \ {s} : stage'[r] = stage[r] /\ request'[r] = request[r]
        /\ UNCHANGED <<clock, revoked_agents>>
    BY <1>1, <1>4 DEF Deliver, Receive, Respond
  <2>2. ClosedPort'
    BY <1>4, <2>1 DEF ClosedPort
  <2>3. CASE Respond(s, PayloadTooLarge)
    <3>1. PayloadTooLarge.reason_code \notin {"AGENT_REVOKED", "TOKEN_EXPIRED"}
      BY NoneAssumption DEF PayloadTooLarge, NoVerdict, VerifierReasons, RefusalCodes
    <3>2. stage[s] # "answered" /\ \A r \in Slots : stage[r] = "answered" => request'[r] = request[r]
      BY <2>1
    <3> QED
      BY <1>2, <2>1, <2>2, <2>3, <3>1, <3>2
  <2>4. CASE UNCHANGED reply
    <3>1. \A r \in Slots : stage[r] = "answered" => request'[r] = request[r]
      BY <2>1
    <3> QED
      BY <1>3, <2>1, <2>2, <2>4, <3>1
  <2> QED
    BY <1>4, <2>3, <2>4 DEF Deliver, Receive
<1>5. ASSUME NEW s \in Slots, Process(s)
      PROVE  ClosedPort' /\ StillTrue'
  <2>1. /\ stage[s] \in {"token", "principal", "nonce"}
        /\ UNCHANGED <<clock, revoked_agents, request>>
        /\ \A r \in Slots \ {s} : stage'[r] = stage[r]
    BY <1>1, <1>5 DEF Process, Handle, CheckToken, CheckPrincipal, Consume, Respond
  <2>2. ClosedPort'
    BY <2>1 DEF ClosedPort
  <2>3. \A code : Deny(code).reason_code = code
    BY DEF Deny, Response
  <2>4. CASE CheckToken(s)
    <3>1. CASE Respond(s, Deny(TokenRefusal(request[s], NowMs(clock))))
      <4>1. request[s] \in WireRequests
        BY <2>1 DEF HandlerInv, VerifierTypeOK, Running
      <4>2. TokenRefusal(request[s], NowMs(clock)) = "TOKEN_EXPIRED" =>
              ClaimsOf(request[s]).exp_unix_ms \in Int
        BY <4>1, ExpiryAssumption, RefusalReasons DEF WithToken
      <4> QED
        BY <1>2, <2>1, <2>2, <2>3, <3>1, <4>2, RefusalReasons
    <3> QED
      BY <1>3, <2>1, <2>2, <2>4, <3>1 DEF CheckToken
  <2>5. CASE CheckPrincipal(s)
    <3>1. CASE Respond(s, Deny(PrincipalRefusal(request[s], revoked_agents)))
      BY <1>2, <2>1, <2>2, <2>3, <3>1, RefusalReasons
    <3> QED
      BY <1>3, <2>1, <2>2, <2>5, <3>1 DEF CheckPrincipal
  <2>6. CASE Consume(s)
    <3>1. \A claims : Allow(claims).reason_code = "OK"
      BY DEF Allow, Response
    <3>2. PICK v : Respond(s, v) /\ v.reason_code \in {"TOKEN_REPLAYED", "OK"}
      BY <2>3, <2>6, <3>1 DEF Consume
    <3> QED
      BY <1>2, <2>1, <2>2, <3>2
  <2> QED
    BY <1>5, <2>4, <2>5, <2>6 DEF Process, Handle
<1>6. ASSUME RevokeArrive
      PROVE  ClosedPort' /\ StillTrue'
  BY <1>6 DEF RevokeArrive, Revoke, ClosedPort, StillTrue
<1>7. ASSUME NEW t \in Clocks, Tick(t)
      PROVE  ClosedPort' /\ StillTrue'
  <2>1. /\ clock' = t /\ t > clock /\ t \in Int
        /\ UNCHANGED <<stage, reply, request, revoked_agents>>
    BY <1>7, ClocksAssumption DEF Tick, ClockStep
  <2>2. ClosedPort'
    BY <2>1 DEF ClosedPort
  <2>3. NowMs(t) \in Int /\ NowMs(t) >= NowMs(clock)
    BY <1>1, <2>1, NowIsMonotone
  <2>4. ASSUME NEW r \in Slots, reply[r].reason_code = "TOKEN_EXPIRED"
        PROVE  /\ ClaimsOf(request[r]).exp_unix_ms \in Int
               /\ NowMs(t) > ClaimsOf(request[r]).exp_unix_ms
    <3>1. /\ ClaimsOf(request[r]).exp_unix_ms \in Int
          /\ NowMs(clock) > ClaimsOf(request[r]).exp_unix_ms
      BY <2>4 DEF StillTrue
    <3> QED
      BY <1>1, <2>3, <3>1
  <2> QED
    BY <2>1, <2>2, <2>4 DEF StillTrue
<1>8. ASSUME UNCHANGED vvars
      PROVE  ClosedPort' /\ StillTrue'
  BY <1>8 DEF vvars, ClosedPort, StillTrue
<1>9. ASSUME NEW s \in Slots, Run(s) \/ (\E f \in Failures : FailCall(s, f)) \/ Answer(s)
      PROVE  UNCHANGED vvars
  BY <1>9 DEF Run, SubmitRequest, FailCall, BreakWith, Answer
<1> QED
  BY <1>4, <1>5, <1>6, <1>7, <1>8, <1>9
     DEF DriverNext, Serve, RevokeSend, RevokeReturn, RevokeFail, vars, allvars

LEMMA SuiteInit == DriverInit => SuiteInv
<1> SUFFICES ASSUME DriverInit PROVE SuiteInv
  OBVIOUS
<1>1. Init /\ clock = Start /\ stalled = 0 /\ called_at = Start /\ Start \in Int
  BY DemoAssumption, ClocksAssumption DEF DriverInit
<1>2. LinkInv
  BY <1>1, LinkInit
<1>3. /\ \A s \in Slots : phase[s] = "idle"
      /\ \A s \in Slots : stage[s] = "idle" /\ reply[s] = NoReply
  BY <1>1, OneCallPerRequest DEF Init, VerifierInit, MiddlewareInit
<1>4. NoReply.reason_code \notin {"AGENT_REVOKED", "TOKEN_EXPIRED"}
  BY NoneAssumption DEF NoReply, NoVerdict, VerifierReasons, RefusalCodes
<1>5. FromScript /\ InOrder /\ ClosedPort /\ StillTrue
  BY <1>3, <1>4 DEF FromScript, InOrder, ClosedPort, StillTrue
<1>6. TimeAccounted
  BY <1>1, <1>3 DEF TimeAccounted, TIMEOUT_MS
<1> QED
  BY <1>1, <1>2, <1>5, <1>6, DemoAssumption DEF SuiteInv

LEMMA SuiteStep ==
    ASSUME SuiteInv, [DriverNext]_allvars, (clock \in Clocks)'
    PROVE  SuiteInv'
<1> USE DEF SuiteInv
<1>1. LinkInv'
  BY DriverStep, LinkStep
<1>2. FromScript' /\ InOrder'
  BY ScriptAndOrderStep
<1>3. ClosedPort' /\ StillTrue'
  BY VerdictStep
<1>4. TimeAccounted'
  BY TimeStep
<1> QED
  BY <1>1, <1>2, <1>3, <1>4

LEMMA SuiteCorrect == DriverSafety => []SuiteInv
  BY SuiteInit, SuiteStep, ClockIsReading, PTL DEF DriverSafety
-----------------------------------------------------------------------------
(* What the verifier handles for a scenario carries that scenario's token. *)
LEMMA ScriptedClaims ==
    ASSUME SuiteInv, NEW s \in Slots, stage[s] # "idle"
    PROVE  /\ ClaimsOf(request[s]).jti = Script[s].jti
           /\ ClaimsOf(request[s]).agent_id = Script[s].minted_for
           /\ \E t \in Clocks : ClaimsOf(request[s]).exp_unix_ms = ExpiryAt(s, NowMs(t))
<1> USE DEF SuiteInv, LinkInv
<1>1. Asked(s) /\ request[s] = wire[s]
  BY DEF Linked
<1>2. wire[s] = AuthorizeRequest(cfg, egress[s]) /\ LocalRefusal(cfg, egress[s]) = "OK"
  BY <1>1 DEF MiddlewareInv, MiddlewareTypeOK
<1>3. cfg = Normalized(DemoConfig)
  BY DemoAssumption DEF MiddlewareInv, MiddlewareTypeOK
<1>4. phase[s] # "idle"
  BY <1>1 DEF MiddlewareInv, InFlight, Asked
<1>5. PICK t \in Clocks : egress[s] = RequestAt(s, NowMs(t))
  BY <1>4 DEF FromScript
<1>6. TokenOf(request[s]) = TokenFor(s, ExpiryAt(s, NowMs(t)))
  BY <1>1, <1>2, <1>3, <1>5, ScriptedToken
<1>7. \A e : /\ TokenFor(s, e).body.jti = Script[s].jti
             /\ TokenFor(s, e).body.agent_id = Script[s].minted_for
             /\ TokenFor(s, e).body.exp_unix_ms = e
  BY DEF TokenFor, Mint
<1> QED
  BY <1>6, <1>7 DEF ClaimsOf

(* A denial with a reason only the verifier gives is the verifier's.       *)
LEMMA DenialIsVerdict ==
    ASSUME LinkInv, NEW s \in Slots, Done(s), decision[s].kind = "Deny",
           decision[s].reason_code \in {"AGENT_REVOKED", "TOKEN_REPLAYED"}
    PROVE  stage[s] = "answered" /\ reply[s].reason_code = decision[s].reason_code
<1> USE DEF LinkInv
<1>1. /\ Truthful(audit[s], decision[s], outcome[s], wire[s])
      /\ Reported(audit[s], outcome[s], wire[s])
  BY DEF MiddlewareInv, AuditTellsTheTruth, AuditReports
<1>2. audit[s].reason_code = decision[s].reason_code
  BY <1>1 DEF Truthful
<1>3. outcome[s].kind = "Verdict"
  BY <1>1, <1>2 DEF Reported, Outcomes, Failures, Failure, Local, LocalCodes
<1> QED
  BY <1>1, <1>2, <1>3 DEF Reported, Linked

(***************************************************************************)
(* driver.rs:283-297, 326-339 and 413-430: a scenario that ends as         *)
(* scripted has shown what it narrates, however many calls fail and        *)
(* however much time passes.                                               *)
(***************************************************************************)
THEOREM PassedMeansShownHolds == DriverSafety => []PassedMeansShown
<1>1. ASSUME SuiteInv, ReplayHasWinner
      PROVE  PassedMeansShown
  <2> SUFFICES ASSUME NEW s \in Slots, Done(s), AsExpected(s)
               PROVE  /\ s = RevokedUse => REVOKED \in revoked_agents
                      /\ s = Replay => Granted(FirstUse)
                      /\ ~Script[s].port_open => stage[s] = "idle"
    BY DEF PassedMeansShown
  <2> USE <1>1, OneCallPerRequest DEF SuiteInv
  <2>1. ASSUME Script[s].expect \in {"AGENT_REVOKED", "TOKEN_REPLAYED"}
        PROVE  stage[s] = "answered" /\ reply[s].reason_code = Script[s].expect
    <3>1. ~Continued(s) /\ decision[s].reason_code = Script[s].expect
      BY <2>1 DEF AsExpected, GotReason
    <3>2. decision[s].kind = "Deny"
      BY <3>1 DEF Continued, LinkInv, MiddlewareInv, MiddlewareTypeOK
    <3> QED
      BY <2>1, <3>1, <3>2, DenialIsVerdict
  <2>2. ASSUME s = RevokedUse
        PROVE  REVOKED \in revoked_agents
    <3>1. stage[s] = "answered" /\ reply[s].reason_code = "AGENT_REVOKED"
      BY <2>1, <2>2, ScriptFacts
    <3>2. ClaimsOf(request[s]).agent_id = REVOKED
      BY <2>2, <3>1, ScriptedClaims, ScriptFacts
    <3> QED
      BY <3>1, <3>2 DEF StillTrue
  <2>3. ASSUME s = Replay
        PROVE  Granted(FirstUse)
    <3>1. stage[s] = "answered" /\ reply[s].reason_code = "TOKEN_REPLAYED"
      BY <2>1, <2>3, ScriptFacts
    <3>2. PICK d \in Slots \ {s} : Granted(d) /\ Jti(d) = Jti(s)
      BY <3>1 DEF ReplayHasWinner, GrantedIn
    <3>3. stage[d] # "idle"
      BY <3>2, FinalIsAnswered DEF Final, LinkInv
    <3>4. Script[d].jti = "replay"
      BY <2>3, <3>1, <3>2, <3>3, ScriptedClaims, ScriptFacts DEF Jti
    <3> QED
      BY <2>3, <3>2, <3>4, ScriptFacts, SlotsAreCalls
  <2>4. ~Script[s].port_open => stage[s] = "idle"
    BY DEF ClosedPort
  <2> QED
    BY <2>2, <2>3, <2>4
<1> QED
  BY <1>1, SuiteCorrect, SuiteIsComposition, ComponentsInside, ReplayHasWinnerHolds, PTL

(* An expired token was turned down by the verifier, and still would be.   *)
LEMMA ExpiredIsVerdict ==
    ASSUME SuiteInv, NEW s \in Slots, Done(s), ~Script[s].expired,
           outcome[s].response.reason_code = "TOKEN_EXPIRED"
    PROVE  /\ stage[s] = "answered"
           /\ NowMs(clock) > NowMs(Start) + LIFETIME_MS
<1> USE DEF SuiteInv, LinkInv
<1>1. Reported(audit[s], outcome[s], wire[s])
  BY DEF MiddlewareInv, AuditReports
<1>2. outcome[s].kind = "Verdict"
  <2>1. NoReply.reason_code # "TOKEN_EXPIRED"
    BY NoneAssumption DEF NoReply, NoVerdict, VerifierReasons, RefusalCodes
  <2> QED
    BY <1>1, <2>1 DEF Reported, Outcomes, Failures, Failure, Local
<1>3. stage[s] = "answered" /\ reply[s].reason_code = "TOKEN_EXPIRED"
  BY <1>2 DEF Linked
<1>4. PICK t \in Clocks : ClaimsOf(request[s]).exp_unix_ms = ExpiryAt(s, NowMs(t))
  BY <1>3, ScriptedClaims
<1>5. ClaimsOf(request[s]).exp_unix_ms = NowMs(Start) + LIFETIME_MS
  BY <1>4 DEF ExpiryAt
<1> QED
  BY <1>3, <1>5 DEF StillTrue

ExpiredByVerdict ==
    \A s \in Slots :
        Done(s) /\ ~Script[s].expired /\ outcome[s].response.reason_code = "TOKEN_EXPIRED" =>
            stage[s] = "answered" /\ NowMs(clock) > NowMs(Start) + LIFETIME_MS

(***************************************************************************)
(* driver.rs:206: the calls alone, each under its deadline, cannot use up  *)
(* the one minute that all the tokens share, in any run of the suite.      *)
(***************************************************************************)
THEOREM ExpiryNeedsStallHolds == DriverSafety => []ExpiryNeedsStall
<1>1. DriverInit => ExpiryNeedsStall
  BY DEF DriverInit, Init, MiddlewareInit, ExpiryNeedsStall, Done
<1>2. ASSUME SuiteInv, SuiteInv', ExpiryNeedsStall, ExpiredByVerdict', [DriverNext]_allvars
      PROVE  ExpiryNeedsStall'
  <2> SUFFICES ASSUME NEW s \in Slots, Done(s)', ~Script[s].expired,
                      outcome'[s].response.reason_code = "TOKEN_EXPIRED"
               PROVE  stalled' + s * TIMEOUT_MS > LIFETIME_MS
    BY DEF ExpiryNeedsStall
  <2> USE DEF SuiteInv, TIMEOUT_MS, LIFETIME_MS
  <2>0. s \in Int
    BY SlotsAreCalls
  <2>1. /\ stage'[s] = "answered"
        /\ NowMs(clock') > NowMs(Start) + LIFETIME_MS
    BY <1>2 DEF ExpiredByVerdict, Done
  <2>2. /\ clock \in Int /\ Start \in Int /\ Start <= clock
        /\ stalled \in Nat /\ called_at \in Int
    BY <1>2, DemoAssumption, ClocksAssumption DEF TimeAccounted
  <2>3. /\ clock' \in Int /\ Start <= clock' /\ stalled' \in Nat
        /\ NowMs(clock') - NowMs(Start) <= clock' - Start
        /\ NowMs(clock') \in Int /\ NowMs(Start) \in Int
    <3>1. clock' \in Int /\ Start <= clock' /\ stalled' \in Nat
      BY <1>2, ClocksAssumption DEF TimeAccounted
    <3> QED
      BY <2>2, <3>1, NowIsMonotone
  <2>4. ASSUME UNCHANGED <<clock, stalled>>, phase[s] = "calling"
        PROVE  stalled' + s * 1000 > 60000
    <3>1. /\ clock <= called_at + 1000
          /\ called_at - Start <= stalled + (s - 1) * 1000
      BY <1>2, <2>4 DEF TimeAccounted
    <3>2. clock - Start > 60000
      BY <2>1, <2>2, <2>3, <2>4
    <3>3. s \in Int /\ (s - 1) * 1000 = s * 1000 - 1000
      BY <2>0
    <3>4. stalled + s * 1000 > 60000
      BY <2>2, <3>1, <3>2, <3>3
    <3> QED
      BY <2>4, <3>4
  <2>5. ASSUME Done(s), outcome'[s] = outcome[s], stalled' >= stalled
        PROVE  stalled' + s * 1000 > 60000
    <3>1. stalled + s * 1000 > 60000
      BY <1>2, <2>5 DEF ExpiryNeedsStall
    <3>2. PICK k \in Int : k = s * 1000
      BY <2>0
    <3>3. stalled \in Int /\ stalled' \in Int /\ stalled' >= stalled
      BY <2>2, <2>3, <2>5
    <3>4. stalled + k > 60000
      BY <3>1, <3>2
    <3>5. stalled' + k > 60000
      BY <3>3, <3>4
    <3> QED
      BY <3>2, <3>5
  <2>6. ASSUME NEW r \in Slots, Run(r),
               \A q \in Slots \ {r} : phase'[q] = phase[q] /\ outcome'[q] = outcome[q],
               UNCHANGED <<clock, stalled>>
        PROVE  stalled' + s * 1000 > 60000
    <3>1. CASE s = r
      <4>1. phase[s] = "idle" /\ UNCHANGED stage
        BY <2>6, <3>1 DEF Run, Turn, SubmitRequest, vvars
      <4>2. stage[s] = "idle"
        BY <1>2, <4>1 DEF LinkInv, Linked, MiddlewareInv, InFlight, Asked
      <4> QED
        BY <2>1, <4>1, <4>2
    <3>2. CASE s # r
      BY <2>2, <2>5, <2>6, <3>2 DEF Done
    <3> QED
      BY <3>1, <3>2
  <2>7. ASSUME NEW r \in Slots, phase[r] = "calling",
               \A q \in Slots \ {r} : phase'[q] = phase[q] /\ outcome'[q] = outcome[q],
               UNCHANGED <<clock, stalled>>
        PROVE  stalled' + s * 1000 > 60000
    <3>1. CASE s = r
      BY <2>4, <2>7, <3>1
    <3>2. CASE s # r
      BY <2>2, <2>5, <2>7, <3>2 DEF Done
    <3> QED
      BY <3>1, <3>2
  <2>8. ASSUME UNCHANGED <<phase, outcome>>, stalled' >= stalled
        PROVE  stalled' + s * 1000 > 60000
    BY <2>5, <2>8 DEF Done
  <2>9. ASSUME NEW t \in Clocks, Tick(t)
        PROVE  stalled' >= stalled
    BY <2>2, <2>9, ClocksAssumption DEF Tick
  <2>10. stalled' + s * 1000 > 60000
    BY <1>2, <2>2, <2>6, <2>7, <2>8, <2>9, PhaseSteps
  <2> QED
    BY <2>10
<1>3. SuiteInv => ExpiredByVerdict
  BY ExpiredIsVerdict DEF ExpiredByVerdict
<1> QED
  BY <1>1, <1>2, <1>3, SuiteCorrect, PTL DEF DriverSafety
-----------------------------------------------------------------------------
(* The script, column by column. *)
LEMMA ScriptTable ==
    \A i \in 1..12 :
        /\ Script[i].expired <=> i = 10
        /\ Script[i].token_present <=> i # 11
        /\ Script[i].port_open <=> i # 12
        /\ Script[i].minted_for = IF i = RevokedUse THEN REVOKED ELSE AGENT
        /\ Script[i].acting = IF i = RevokedUse THEN REVOKED ELSE IF i = 3 THEN INTRUDER ELSE AGENT
        /\ Script[i].selector = IF i = 5 THEN <<112>> ELSE None
        /\ i = 5 => Script[i].sandbox = <<100>>
        /\ Script[i].path = IF i = 8 THEN <<SLASH, 101>> ELSE PATH
        /\ Script[i].body = IF i = 9 THEN <<2>> ELSE BODY
        /\ Script[i].expect =
              IF i = 3 THEN "AGENT_MISMATCH" ELSE IF i = 4 THEN "AGENT_REVOKED"
              ELSE IF i = 5 THEN "WORKLOAD_MISMATCH" ELSE IF i = 7 THEN "TOKEN_REPLAYED"
              ELSE IF i \in {8, 9} THEN "INTENT_MISMATCH" ELSE IF i = 10 THEN "TOKEN_EXPIRED"
              ELSE IF i = 11 THEN "TOKEN_MISSING" ELSE IF i = 12 THEN "VERIFIER_UNAVAILABLE"
              ELSE "OK"
<1>1. /\ ~Script[1].expired /\ ~Script[2].expired /\ ~Script[3].expired
      /\ ~Script[4].expired /\ ~Script[5].expired /\ ~Script[6].expired
      /\ ~Script[7].expired /\ ~Script[8].expired /\ ~Script[9].expired
      /\ Script[10].expired /\ ~Script[11].expired /\ ~Script[12].expired
  BY DEF Script, Scenario
<1>2. /\ Script[1].token_present /\ Script[2].token_present /\ Script[3].token_present
      /\ Script[4].token_present /\ Script[5].token_present /\ Script[6].token_present
      /\ Script[7].token_present /\ Script[8].token_present /\ Script[9].token_present
      /\ Script[10].token_present /\ ~Script[11].token_present /\ Script[12].token_present
  BY DEF Script, Scenario
<1>3. /\ Script[1].port_open /\ Script[2].port_open /\ Script[3].port_open
      /\ Script[4].port_open /\ Script[5].port_open /\ Script[6].port_open
      /\ Script[7].port_open /\ Script[8].port_open /\ Script[9].port_open
      /\ Script[10].port_open /\ Script[11].port_open /\ ~Script[12].port_open
  BY DEF Script, Scenario
<1>4. /\ Script[1].minted_for = AGENT /\ Script[2].minted_for = AGENT
      /\ Script[3].minted_for = AGENT /\ Script[4].minted_for = REVOKED
      /\ Script[5].minted_for = AGENT /\ Script[6].minted_for = AGENT
      /\ Script[7].minted_for = AGENT /\ Script[8].minted_for = AGENT
      /\ Script[9].minted_for = AGENT /\ Script[10].minted_for = AGENT
      /\ Script[11].minted_for = AGENT /\ Script[12].minted_for = AGENT
  BY DEF Script, Scenario
<1>5. /\ Script[1].acting = AGENT /\ Script[2].acting = AGENT /\ Script[3].acting = INTRUDER
      /\ Script[4].acting = REVOKED /\ Script[5].acting = AGENT /\ Script[6].acting = AGENT
      /\ Script[7].acting = AGENT /\ Script[8].acting = AGENT /\ Script[9].acting = AGENT
      /\ Script[10].acting = AGENT /\ Script[11].acting = AGENT /\ Script[12].acting = AGENT
  BY DEF Script, Scenario
<1>6. /\ Script[1].selector = None /\ Script[2].selector = None /\ Script[3].selector = None
      /\ Script[4].selector = None /\ Script[5].selector = <<112>> /\ Script[6].selector = None
      /\ Script[7].selector = None /\ Script[8].selector = None /\ Script[9].selector = None
      /\ Script[10].selector = None /\ Script[11].selector = None /\ Script[12].selector = None
  BY DEF Script, Scenario
<1>7. /\ Script[1].path = PATH /\ Script[2].path = PATH /\ Script[3].path = PATH
      /\ Script[4].path = PATH /\ Script[5].path = PATH /\ Script[6].path = PATH
      /\ Script[7].path = PATH /\ Script[8].path = <<SLASH, 101>> /\ Script[9].path = PATH
      /\ Script[10].path = PATH /\ Script[11].path = PATH /\ Script[12].path = PATH
  BY DEF Script, Scenario
<1>8. /\ Script[1].body = BODY /\ Script[2].body = BODY /\ Script[3].body = BODY
      /\ Script[4].body = BODY /\ Script[5].body = BODY /\ Script[6].body = BODY
      /\ Script[7].body = BODY /\ Script[8].body = BODY /\ Script[9].body = <<2>>
      /\ Script[10].body = BODY /\ Script[11].body = BODY /\ Script[12].body = BODY
  BY DEF Script, Scenario
<1>9. /\ Script[1].expect = "OK" /\ Script[2].expect = "OK"
      /\ Script[3].expect = "AGENT_MISMATCH" /\ Script[4].expect = "AGENT_REVOKED"
      /\ Script[5].expect = "WORKLOAD_MISMATCH" /\ Script[6].expect = "OK"
      /\ Script[7].expect = "TOKEN_REPLAYED" /\ Script[8].expect = "INTENT_MISMATCH"
      /\ Script[9].expect = "INTENT_MISMATCH" /\ Script[10].expect = "TOKEN_EXPIRED"
      /\ Script[11].expect = "TOKEN_MISSING" /\ Script[12].expect = "VERIFIER_UNAVAILABLE"
  BY DEF Script, Scenario
<1>10. Script[5].sandbox = <<100>>
  BY DEF Script, Scenario
<1> QED
  BY <1>1, <1>2, <1>3, <1>4, <1>5, <1>6, <1>7, <1>8, <1>9, <1>10 DEF RevokedUse

(* A request without a token is refused before it is sent; any other is    *)
(* sent.                                                                   *)
LEMMA ScriptedLocal ==
    ASSUME NEW i \in 1..12, NEW now
    PROVE  LocalRefusal(Normalized(DemoConfig), RequestAt(i, now)) =
              IF i = 11 THEN "TOKEN_MISSING" ELSE "OK"
<1> DEFINE config == Normalized(DemoConfig)
           r == RequestAt(i, now)
           token == TokenFor(i, ExpiryAt(i, now))
           X == <<88, 45, 84>>
<1>0. config.max_body_bytes = 1048576
  BY SMT DEF Normalized, DemoConfig
<1>1. /\ r.headers = Hdr(i, token) /\ r.body = Script[i].body
      /\ config.token_header = DEFAULT_TOKEN_HEADER
  BY HeaderNames DEF RequestAt
<1>2. Len(r.body) = 1
  <2>1. Script[i].body = IF i = 9 THEN <<2>> ELSE BODY
    BY ScriptTable
  <2> HIDE DEF r
  <2> QED
    BY <1>1, <2>1 DEF BODY
<1> HIDE DEF config, r, token
<1>3. CASE i = 11
  <2>1. ~Script[i].token_present
    BY <1>3, ScriptTable
  <2>2. r.headers = <<<<<<99>>, None>>>>
    BY <1>1, <2>1 DEF Hdr
  <2>3. Matches(r.headers, config.token_header) = {}
    BY <1>1, <2>2, HeaderNames DEF Matches
  <2>4. LocalRefusal(config, r) = "TOKEN_MISSING"
    BY <2>3 DEF LocalRefusal
  <2> QED
    BY <1>3, <2>4 DEF config, r
<1>4. CASE i # 11
  <2>1. Script[i].token_present
    BY <1>4, ScriptTable
  <2> DEFINE a == <<<<99>>, None>>
             b == <<X, token>>
  <2>2. r.headers = <<a>> \o <<b>>
    BY <1>1, <2>1 DEF Hdr
  <2> HIDE DEF a, b
  <2>3. r.headers = <<a, b>>
    BY <2>2, TwoInARow
  <2>4. a[1] = <<99>> /\ b[1] = X
    BY DEF a, b
  <2>5. Matches(r.headers, config.token_header) = {2}
    BY <1>1, <2>3, <2>4, HeaderNames DEF Matches
  <2>6. Cardinality({2}) = 1
    BY FS_Singleton
  <2>7. LocalRefusal(config, r) = "OK"
    BY <1>0, <1>2, <2>5, <2>6 DEF LocalRefusal
  <2> QED
    BY <1>4, <2>7 DEF config, r
<1> QED
  BY <1>3, <1>4

(* Of the token step, only the clock and the agent can refuse what the     *)
(* suite sends.                                                            *)
LEMMA ScriptedToToken ==
    ASSUME NEW i \in Slots, NEW t \in Clocks, i # 11, NEW now
    PROVE  TokenRefusal(AuthorizeRequest(Normalized(DemoConfig), RequestAt(i, NowMs(t))), now) =
              IF now > ExpiryAt(i, NowMs(t)) THEN "TOKEN_EXPIRED"
              ELSE IF Script[i].minted_for # Script[i].acting THEN "AGENT_MISMATCH"
              ELSE "OK"
<1> DEFINE config == Normalized(DemoConfig)
           r == RequestAt(i, NowMs(t))
           q == AuthorizeRequest(config, r)
           token == TokenFor(i, ExpiryAt(i, NowMs(t)))
<1>1. r \in EgressRequests /\ LocalRefusal(config, r) = "OK"
  BY ScriptAssumption, ScriptedLocal, ScriptFacts
<1>2. TokenOf(q) = token
  BY <1>1, ScriptedToken
<1>3. DEFAULT_TOKEN_HEADER \in DOMAIN q.credentials
  BY HeaderNames DEF AuthorizeRequest, Credentials
<1>4. /\ q.version = WIRE_VERSION /\ q.request = Descriptor(r)
      /\ q.context.agent_id = Script[i].acting
  BY DEF AuthorizeRequest, RequestAt
<1>5. /\ token.framed /\ token.mac = [key |-> VerifierKey, body |-> token.body]
      /\ "scope" \in DOMAIN token.body
      /\ token.body.agent_id = Script[i].minted_for
      /\ token.body.exp_unix_ms = ExpiryAt(i, NowMs(t))
  BY DEF TokenFor, Mint
<1>6. /\ RecomputeCrh(Descriptor(r)) = Descriptor(r).canonical_request_hash
      /\ RecomputeCrh(Descriptor(r)) # None
  BY <1>1, OwnHashAgrees
<1> HIDE DEF r, q, token, config
<1>7. token.body # NoClaims
  BY <1>5 DEF NoClaims
<1>8. VerifyToken(token, VerifierKey) = "Ok"
  BY <1>5, <1>7 DEF VerifyToken
<1>9. ClaimsOf(q) = token.body
  BY <1>2 DEF ClaimsOf
<1>10. TokenRefusal(q, now) =
          IF Expired(q, now) THEN "TOKEN_EXPIRED"
          ELSE IF ClaimsOf(q).agent_id # q.context.agent_id THEN "AGENT_MISMATCH"
          ELSE "OK"
  BY <1>2, <1>3, <1>4, <1>6, <1>8 DEF TokenRefusal
<1> QED
  BY <1>4, <1>5, <1>9, <1>10 DEF Expired, q, r, config

(* The scope of the tokens covers the requests, but for the one whose path *)
(* lies outside.                                                           *)
LEMMA ScriptedScope ==
    ASSUME NEW i \in 1..12, NEW now
    PROVE  InScope([method |-> POST, authority |-> AUTHORITY, path_prefix |-> ACME],
                   Descriptor(RequestAt(i, now))) <=> i # 8
<1> DEFINE d == Descriptor(RequestAt(i, now))
           scope == [method |-> POST, authority |-> AUTHORITY, path_prefix |-> ACME]
<1>1. /\ d.method = ToAsciiUppercase(POST) /\ d.authority = AUTHORITY
      /\ d.path = Script[i].path
  BY DEF Descriptor, RequestAt
<1>2. scope.method = POST /\ scope.authority = AUTHORITY /\ scope.path_prefix = ACME
  OBVIOUS
<1> HIDE DEF d, scope
<1>3. EqIgnoreAsciiCase(POST, ToAsciiUppercase(POST))
  <2>1. POST \in Seq(Nat)
    BY DEF POST
  <2> QED
    BY <2>1, FoldTwice DEF EqIgnoreAsciiCase
<1>4. AuthorityInScope(d.scheme, AUTHORITY, AUTHORITY)
  BY DEF AuthorityInScope
<1>5. OrRoot(ACME) = ACME /\ Last(ACME) = SLASH /\ ACME = <<SLASH, 97, SLASH>>
  BY DEF OrRoot, ACME, Last
<1>6. PathInScope(PATH, ACME)
  <2>1. OrRoot(PATH) = PATH /\ IsPrefix(ACME, PATH)
    BY DEF OrRoot, PATH, ACME, IsPrefix
  <2> QED
    BY <1>5, <2>1 DEF PathInScope
<1>7. ~PathInScope(<<SLASH, 101>>, ACME)
  <2>1. OrRoot(<<SLASH, 101>>) = <<SLASH, 101>>
    BY DEF OrRoot
  <2>2. ~IsPrefix(ACME, <<SLASH, 101>>) /\ ACME # <<SLASH, 101>>
    BY DEF ACME, IsPrefix
  <2> QED
    BY <1>5, <2>1, <2>2 DEF PathInScope
<1>8. Script[i].path = IF i = 8 THEN <<SLASH, 101>> ELSE PATH
  BY ScriptTable
<1>9. InScope(scope, d) <=> i # 8
  BY <1>1, <1>2, <1>3, <1>4, <1>6, <1>7, <1>8 DEF InScope
<1> QED
  BY <1>9 DEF d, scope

(* The tokens are bound to the requests they are sent with, but for the    *)
(* one whose body was changed.                                             *)
LEMMA ScriptedBinding ==
    ASSUME NEW i \in 1..12, NEW now
    PROVE  CanonicalRequestHash(Minted(i)) = Descriptor(RequestAt(i, now)).canonical_request_hash
              <=> i # 9
<1> DEFINE p == Minted(i)
           q == Parts(RequestAt(i, now))
<1>1. Descriptor(RequestAt(i, now)).canonical_request_hash = CanonicalRequestHash(q)
  BY DEF Descriptor
<1>2. /\ q.method = p.method /\ q.scheme = p.scheme /\ q.authority = p.authority
      /\ q.path = p.path /\ q.query = p.query
      /\ p.body_sha256 = Sha256(BODY) /\ q.body_sha256 = Sha256(Script[i].body)
  BY DEF Minted, Parts, RequestAt
<1>3. Script[i].body = IF i = 9 THEN <<2>> ELSE BODY
  BY ScriptTable
<1>4. CASE i # 9
  <2>1. q = p
    BY <1>3, <1>4 DEF Minted, Parts, RequestAt
  <2> QED
    BY <1>1, <1>4, <2>1
<1>5. CASE i = 9
  <2> DEFINE X == Nat \cup Seq(Nat)
  <2>1. /\ p.method \in Seq(Nat) /\ p.scheme \in Seq(Nat) /\ p.authority \in Seq(Nat)
        /\ p.query \in Seq(Nat)
    BY DEF Minted, POST, HTTPS, AUTHORITY
  <2>2. p.path \in Seq(Nat)
    <3>1. Script[i].path = IF i = 8 THEN <<SLASH, 101>> ELSE PATH
      BY ScriptTable
    <3>2. <<SLASH, 101>> \in Seq(Nat) /\ PATH \in Seq(Nat)
      BY DEF PATH, SLASH
    <3> QED
      BY <3>1, <3>2 DEF Minted
  <2>3. Nat \subseteq X
    OBVIOUS
  <2>4. p.body_sha256 \in Seq(X) /\ q.body_sha256 \in Seq(X)
    <3>1. BODY \in X /\ <<2>> \in X
      BY DEF BODY
    <3> HIDE DEF X
    <3> QED
      BY <1>2, <1>3, <3>1 DEF Sha256
  <2>5. p.body_sha256 # q.body_sha256
    BY <1>2, <1>3, <1>5 DEF Sha256, BODY
  <2> HIDE DEF p, q, X
  <2>6. CanonicalRequestHash(p) # CanonicalRequestHash(q)
    BY <1>2, <2>1, <2>2, <2>3, <2>4, <2>5, BodyTellsApart
  <2> QED
    BY <1>1, <1>5, <2>6 DEF p
<1> QED
  BY <1>4, <1>5

(* Of the principal step, what is scripted refuses, and a revocation.      *)
LEMMA ScriptedToPrincipal ==
    ASSUME NEW i \in Slots, NEW t \in Clocks, i # 11, NEW revoked
    PROVE  PrincipalRefusal(AuthorizeRequest(Normalized(DemoConfig), RequestAt(i, NowMs(t))), revoked) =
              IF Script[i].minted_for \in revoked THEN "AGENT_REVOKED"
              ELSE IF i = 5 THEN "WORKLOAD_MISMATCH"
              ELSE IF i \in {8, 9} THEN "INTENT_MISMATCH"
              ELSE "OK"
<1> DEFINE config == Normalized(DemoConfig)
           r == RequestAt(i, NowMs(t))
           q == AuthorizeRequest(config, r)
           scope == [method |-> POST, authority |-> AUTHORITY, path_prefix |-> ACME]
           claims == TokenFor(i, ExpiryAt(i, NowMs(t))).body
<1>0. i \in 1..12
  BY SlotsAreCalls
<1>1. ClaimsOf(q) = claims
  <2>1. LocalRefusal(config, r) = "OK"
    BY <1>0, ScriptedLocal
  <2> QED
    BY <2>1, ScriptedToken DEF ClaimsOf
<1>2. /\ claims.agent_id = Script[i].minted_for /\ claims.on_behalf_of = None
      /\ claims.workload_selector = Script[i].selector /\ claims.scope = scope
      /\ claims.crh = CanonicalRequestHash(Minted(i))
  BY DEF TokenFor, Mint
<1>3. q.request = Descriptor(r) /\ q.context.sandbox_id = Script[i].sandbox
  BY DEF AuthorizeRequest, RequestAt
<1>4. InScope(scope, Descriptor(r)) <=> i # 8
  BY <1>0, ScriptedScope
<1>5. claims.crh = Descriptor(r).canonical_request_hash <=> i # 9
  BY <1>0, <1>2, ScriptedBinding
<1>6. None # <<112>> /\ claims.crh # None
  BY <1>0, <1>2, AbsentAssumption, ScriptFacts
<1>7. /\ Script[i].selector = IF i = 5 THEN <<112>> ELSE None
      /\ i = 5 => Script[i].sandbox = <<100>>
  BY <1>0, ScriptTable
<1>8. ~IsPrefix(<<112>>, <<100>>)
  BY DEF IsPrefix
<1> HIDE DEF q, r, scope, claims
<1>9. BoundElsewhere(claims, q.request) <=> i = 9
  BY <1>3, <1>5, <1>6 DEF BoundElsewhere
<1>10. (claims.workload_selector # None /\ ~IsPrefix(claims.workload_selector, q.context.sandbox_id))
          <=> i = 5
  BY <1>2, <1>3, <1>6, <1>7, <1>8
<1>11. claims.on_behalf_of \in {None, q.context.on_behalf_of}
  BY <1>2
<1>12. InScope(claims.scope, q.request) <=> i # 8
  BY <1>2, <1>3, <1>4
<1>13. PrincipalRefusal(q, revoked) =
          IF claims.agent_id \in revoked THEN "AGENT_REVOKED"
          ELSE IF i = 5 THEN "WORKLOAD_MISMATCH"
          ELSE IF i \in {8, 9} THEN "INTENT_MISMATCH"
          ELSE "OK"
  BY <1>1, <1>9, <1>10, <1>11, <1>12 DEF PrincipalRefusal
<1> QED
  BY <1>2, <1>13 DEF q, r
-----------------------------------------------------------------------------
(***************************************************************************)
(* What the suite adds to its invariant for the verdicts: where each       *)
(* handler is and what it says, scenario by scenario.                      *)
(***************************************************************************)
\* The verifier lives as long as the suite.
OneProcess == up /\ epoch = 0 /\ \A s \in Slots : arrival[s].epoch = 0

\* Only the scripted agent is revoked, and before its scenario, unless the
\* call that does it was lost.
RevokedInOrder ==
    /\ revoked_agents \subseteq {REVOKED}
    /\ revoke_call \in {"applied", "done"} => REVOKED \in revoked_agents
    /\ RevokedUse \in Slots /\ phase[RevokedUse] # "idle" => revoke_call \in {"done", "failed"}

\* No request is from the future: what was minted expired is expired.
SentBefore ==
    \A s \in Slots : phase[s] # "idle" =>
        \E t \in Clocks : t <= clock /\ egress[s] = RequestAt(s, NowMs(t))

\* What the middleware refuses by itself is scripted.
LocalAsScripted ==
    \A s \in Slots : Done(s) /\ ~Asked(s) => outcome[s] = Local(Script[s].expect)

AllowIsOk == \A s \in Slots : Granted(s) <=> reply[s].reason_code = "OK"

\* What the nonce decides between.
UseCodes == {"OK", "TOKEN_REPLAYED"}

RevokeLost(s) == s = RevokedUse /\ revoke_call = "failed"

AsScriptedAt(s) ==
    /\ stage[s] \in {"principal", "nonce"} =>
          ~Script[s].expired /\ Script[s].minted_for = Script[s].acting
    /\ stage[s] = "nonce" => Script[s].expect \in UseCodes \/ RevokeLost(s)
    /\ reply[s].status = 200 =>
          \/ reply[s].reason_code = Script[s].expect
          \/ reply[s].reason_code = "TOKEN_EXPIRED" /\ ~Script[s].expired
          \/ {reply[s].reason_code, Script[s].expect} \subseteq UseCodes
          \/ RevokeLost(s)

AsScripted == \A s \in Slots : AsScriptedAt(s)

ScriptInv ==
    /\ OneProcess /\ RevokedInOrder /\ SentBefore
    /\ LocalAsScripted /\ AllowIsOk /\ AsScripted

LEMMA ScriptInit == DriverInit => ScriptInv
<1> SUFFICES ASSUME DriverInit PROVE ScriptInv
  OBVIOUS
<1>1. /\ up /\ epoch = 0 /\ revoked_agents = {} /\ revoke_call = "unsent"
      /\ \A s \in Slots : /\ phase[s] = "idle" /\ stage[s] = "idle" /\ reply[s] = NoReply
                          /\ arrival[s].epoch = 0
  BY OneCallPerRequest DEF DriverInit, Init, VerifierInit, MiddlewareInit
<1>2. NoReply.status = 0 /\ NoReply.reason_code # "OK" /\ NoReply.decision # "allow"
  BY NoneAssumption DEF NoReply, NoVerdict, VerifierReasons
<1> QED
  BY <1>1, <1>2
     DEF ScriptInv, OneProcess, RevokedInOrder, SentBefore, LocalAsScripted, AllowIsOk,
         AsScripted, AsScriptedAt, Granted, Done

(* The verifier's half of a step, slot by slot. *)
LEMMA HandlerHalf ==
    ASSUME LinkInv, [DriverNext]_allvars
    PROVE  \/ \E s \in Slots :
                 /\ \/ Deliver(s) /\ Script[s].port_open
                    \/ CheckToken(s) \/ CheckPrincipal(s) \/ Consume(s)
                 /\ UNCHANGED <<mvars, dvars, clock, up, epoch, revoked_agents>>
                 /\ \A r \in Slots \ {s} :
                       /\ stage'[r] = stage[r] /\ reply'[r] = reply[r]
                       /\ request'[r] = request[r] /\ arrival'[r] = arrival[r]
           \/ /\ UNCHANGED <<stage, reply, request, up, epoch>>
              /\ \A r \in Slots : arrival'[r].epoch = arrival[r].epoch
<1> USE OneCallPerRequest DEF LinkInv
<1>1. /\ DOMAIN stage = Slots /\ DOMAIN reply = Slots /\ DOMAIN request = Slots
      /\ arrival \in [Slots -> [epoch : Nat, revoked : SUBSET Agents, earliest : Nat]]
  BY DEF HandlerInv, VerifierTypeOK
<1>2. ASSUME NEW s \in Slots, Serve(s), ~Answer(s)
      PROVE  /\ \/ Deliver(s) /\ Script[s].port_open
                \/ CheckToken(s) \/ CheckPrincipal(s) \/ Consume(s)
             /\ UNCHANGED <<mvars, dvars, clock, up, epoch, revoked_agents>>
             /\ \A r \in Slots \ {s} :
                   /\ stage'[r] = stage[r] /\ reply'[r] = reply[r]
                   /\ request'[r] = request[r] /\ arrival'[r] = arrival[r]
  <2>1. (Deliver(s) /\ Script[s].port_open) \/ Process(s)
    BY <1>2 DEF Serve
  <2>2. UNCHANGED dvars
    BY <1>2 DEF Serve
  <2>3. CASE Deliver(s) /\ Script[s].port_open
    BY <1>1, <2>2, <2>3 DEF Deliver, Receive, Respond
  <2>4. CASE Process(s)
    BY <1>1, <2>2, <2>4 DEF Process, Handle, CheckToken, CheckPrincipal, Consume, Respond
  <2> QED
    BY <2>1, <2>3, <2>4
<1>3. ASSUME NEW s \in Slots, Run(s) \/ (\E f \in Failures : FailCall(s, f)) \/ Answer(s)
      PROVE  UNCHANGED vvars
  BY <1>3 DEF Run, SubmitRequest, FailCall, BreakWith, Answer
<1>4. CASE RevokeArrive
  BY <1>4 DEF RevokeArrive, Revoke
<1>5. ASSUME NEW t \in Clocks, Tick(t)
      PROVE  /\ UNCHANGED <<stage, reply, request, up, epoch>>
             /\ \A r \in Slots : arrival'[r].epoch = arrival[r].epoch
  <2>1. /\ UNCHANGED <<stage, reply, request, up, epoch>>
        /\ \A r \in Slots : arrival'[r] \in {[arrival[r] EXCEPT !.earliest = NowMs(t)], arrival[r]}
    BY <1>5 DEF Tick, ClockStep
  <2> QED
    BY <1>1, <2>1
<1>6. CASE RevokeSend \/ RevokeReturn \/ RevokeFail \/ UNCHANGED allvars
  BY <1>6 DEF RevokeSend, RevokeReturn, RevokeFail, vars, allvars, vvars
<1>7. UNCHANGED vvars => /\ UNCHANGED <<stage, reply, request, up, epoch>>
                         /\ \A r \in Slots : arrival'[r].epoch = arrival[r].epoch
  BY DEF vvars
<1> QED
  BY <1>2, <1>3, <1>4, <1>5, <1>6, <1>7 DEF DriverNext

(* The middleware's half, for one slot: its request is made once, and what *)
(* has ended stays.                                                        *)
LEMMA CallsStay ==
    ASSUME LinkInv, [DriverNext]_allvars, NEW s \in Slots
    PROVE  /\ \/ phase'[s] = "idle"
              \/ phase[s] # "idle" /\ egress'[s] = egress[s]
              \/ Run(s) /\ egress'[s] = RequestAt(s, NowMs(clock)) /\ clock' = clock
           /\ Done(s) => Done(s)' /\ outcome'[s] = outcome[s]
  BY PhaseSteps DEF Done, Run, Turn

LEMMA ClockGrows ==
    ASSUME clock \in Clocks, [DriverNext]_allvars, LinkInv
    PROVE  clock \in Int /\ clock' \in Int /\ clock <= clock'
<1>1. \A t \in Clocks : Tick(t) => clock' = t /\ t > clock
  BY DEF Tick, ClockStep
<1> QED
  BY <1>1, PhaseSteps, ClocksAssumption

LEMMA OneProcessStep ==
    ASSUME LinkInv, OneProcess, [DriverNext]_allvars
    PROVE  OneProcess'
<1> USE OneCallPerRequest DEF LinkInv
<1>1. DOMAIN arrival = Slots
  BY DEF HandlerInv, VerifierTypeOK
<1>2. ASSUME NEW s \in Slots,
             Deliver(s) \/ CheckToken(s) \/ CheckPrincipal(s) \/ Consume(s),
             UNCHANGED <<up, epoch>>,
             \A r \in Slots \ {s} : arrival'[r] = arrival[r]
      PROVE  OneProcess'
  <2>1. arrival'[s].epoch = 0
    BY <1>1, <1>2 DEF OneProcess, Deliver, Receive, CheckToken, CheckPrincipal, Consume
  <2> QED
    BY <1>2, <2>1 DEF OneProcess
<1>3. CASE UNCHANGED <<up, epoch>> /\ \A r \in Slots : arrival'[r].epoch = arrival[r].epoch
  BY <1>3 DEF OneProcess
<1> QED
  BY <1>2, <1>3, HandlerHalf

LEMMA RevokedInOrderStep ==
    ASSUME LinkInv, RevokedInOrder, [DriverNext]_allvars
    PROVE  RevokedInOrder' /\ \A s \in Slots : RevokeLost(s) => RevokeLost(s)'
<1>1. ASSUME UNCHANGED <<revoked_agents, revoke_call>>,
             \A s \in Slots : s = RevokedUse /\ phase'[s] # "idle" =>
                phase[s] # "idle" \/ revoke_call \in {"done", "failed"}
      PROVE  RevokedInOrder' /\ \A s \in Slots : RevokeLost(s) => RevokeLost(s)'
  BY <1>1 DEF RevokedInOrder, RevokeLost
<1>2. ASSUME NEW s \in Slots, Run(s)
      PROVE  RevokedInOrder' /\ \A r \in Slots : RevokeLost(r) => RevokeLost(r)'
  <2>1. UNCHANGED <<revoked_agents, revoke_call>>
    BY <1>2 DEF Run, SubmitRequest, vvars
  <2>2. \A r \in Slots : r = RevokedUse /\ phase'[r] # "idle" =>
            phase[r] # "idle" \/ revoke_call \in {"done", "failed"}
    BY CallsStay DEF Run
  <2> QED
    BY <1>1, <2>1, <2>2
<1>3. ASSUME NEW s \in Slots, Serve(s) \/ \E f \in Failures : FailCall(s, f)
      PROVE  RevokedInOrder' /\ \A r \in Slots : RevokeLost(r) => RevokeLost(r)'
  <2>1. UNCHANGED <<revoked_agents, revoke_call>>
    BY <1>3 DEF Serve, Deliver, Receive, Process, Handle, CheckToken, CheckPrincipal, Consume,
                Answer, FailCall, BreakWith, dvars, vvars
  <2>2. \A r \in Slots : r = RevokedUse /\ phase'[r] # "idle" =>
            phase[r] # "idle" \/ revoke_call \in {"done", "failed"}
    BY CallsStay DEF Run
  <2> QED
    BY <1>1, <2>1, <2>2
<1>4. CASE RevokeSend
  BY <1>4 DEF RevokeSend, Turn, RevokedInOrder, RevokeLost, vars, vvars, mvars
<1>5. CASE RevokeArrive
  BY <1>5 DEF RevokeArrive, Revoke, RevokedInOrder, RevokeLost, mvars
<1>6. CASE RevokeReturn \/ RevokeFail
  BY <1>6 DEF RevokeReturn, RevokeFail, RevokedInOrder, RevokeLost, vars, vvars, mvars
<1>7. ASSUME NEW t \in Clocks, Tick(t)
      PROVE  RevokedInOrder' /\ \A r \in Slots : RevokeLost(r) => RevokeLost(r)'
  BY <1>7 DEF Tick, ClockStep, RevokedInOrder, RevokeLost, mvars
<1>8. CASE UNCHANGED allvars
  BY <1>8 DEF allvars, vars, vvars, mvars, dvars, RevokedInOrder, RevokeLost
<1> QED
  BY <1>2, <1>3, <1>4, <1>5, <1>6, <1>7, <1>8 DEF DriverNext

LEMMA SentBeforeStep ==
    ASSUME LinkInv, clock \in Clocks, SentBefore, [DriverNext]_allvars
    PROVE  SentBefore'
<1> SUFFICES ASSUME NEW s \in Slots, phase'[s] # "idle"
             PROVE  \E t \in Clocks : t <= clock' /\ egress'[s] = RequestAt(s, NowMs(t))
  BY DEF SentBefore
<1>1. clock \in Int /\ clock' \in Int /\ clock <= clock'
  BY ClockGrows
<1>2. CASE phase[s] # "idle" /\ egress'[s] = egress[s]
  <2>1. PICK t \in Clocks : t <= clock /\ egress[s] = RequestAt(s, NowMs(t))
    BY <1>2 DEF SentBefore
  <2>2. t \in Int /\ t <= clock'
    BY <1>1, <2>1, ClocksAssumption
  <2> QED
    BY <1>2, <2>1, <2>2
<1>3. CASE Run(s) /\ egress'[s] = RequestAt(s, NowMs(clock)) /\ clock' = clock
  BY <1>1, <1>3
<1> QED
  BY <1>2, <1>3, CallsStay

LEMMA LocalAsScriptedStep ==
    ASSUME LinkInv, LocalAsScripted, [DriverNext]_allvars
    PROVE  LocalAsScripted'
<1> USE DEF LinkInv, MiddlewareInv
<1>1. DOMAIN wire = Slots /\ DOMAIN outcome = Slots /\ DOMAIN phase = Slots
  BY DEF MiddlewareTypeOK, Shapes
<1>2. ASSUME NEW s \in Slots, Run(s)
      PROVE  LocalAsScripted'
  <2> DEFINE r == RequestAt(s, NowMs(clock))
  <2>1. Evaluate(s, r)
    BY <1>2 DEF Run, SubmitRequest
  <2>2. LocalRefusal(cfg, r) = IF s = 11 THEN "TOKEN_MISSING" ELSE "OK"
    BY ScriptedLocal, SlotsAreCalls, DemoAssumption DEF MiddlewareTypeOK
  <2>3. s = 11 => Script[s].expect = "TOKEN_MISSING"
    BY ScriptTable
  <2> HIDE DEF r
  <2>4. \/ outcome'[s] = Local(Script[s].expect)
        \/ phase'[s] = "calling"
    BY <1>1, <2>1, <2>2, <2>3 DEF Evaluate
  <2>5. \A q \in Slots \ {s} : phase'[q] = phase[q] /\ outcome'[q] = outcome[q] /\ wire'[q] = wire[q]
    BY <1>1, <2>1 DEF Evaluate, Finish
  <2> QED
    BY <2>4, <2>5 DEF LocalAsScripted, Done, Asked
<1>3. ASSUME NEW s \in Slots, NEW o, Conclude(s, o)
      PROVE  LocalAsScripted'
  <2>1. phase[s] = "calling" /\ Asked(s) /\ wire' = wire
    BY <1>3 DEF Conclude, MiddlewareTypeOK
  <2>2. \A q \in Slots \ {s} : phase'[q] = phase[q] /\ outcome'[q] = outcome[q]
    BY <1>1, <1>3 DEF Conclude, Finish
  <2> QED
    BY <2>1, <2>2 DEF LocalAsScripted, Done, Asked
<1>4. CASE UNCHANGED mvars
  BY <1>4 DEF mvars, LocalAsScripted, Done, Asked
<1>5. ASSUME NEW s \in Slots, Serve(s) \/ \E f \in Failures : FailCall(s, f)
      PROVE  (\E o : Conclude(s, o)) \/ UNCHANGED mvars
  BY <1>5 DEF Serve, Deliver, Process, Answer, FailCall, BreakWith
<1>6. RevokeSend \/ RevokeArrive \/ RevokeReturn \/ RevokeFail \/ (\E t \in Clocks : Tick(t))
         \/ UNCHANGED allvars => UNCHANGED mvars
  BY DEF RevokeSend, RevokeArrive, RevokeReturn, RevokeFail, Tick, allvars, vars
<1> QED
  BY <1>2, <1>3, <1>4, <1>5, <1>6 DEF DriverNext

(* What each check adds to the replies. *)
LEMMA ReplyOf ==
    ASSUME LinkInv, NEW s \in Slots
    PROVE  /\ Deliver(s) =>
                 /\ stage'[s] \in {"token", "answered"}
                 /\ reply'[s] = reply[s] \/ reply'[s] = PayloadTooLarge
           /\ CheckToken(s) =>
                 LET refusal == TokenRefusal(request[s], NowMs(clock))
                 IN IF refusal # "OK"
                    THEN stage'[s] = "answered" /\ reply'[s] = Deny(refusal)
                    ELSE stage'[s] = "principal" /\ reply'[s] = reply[s]
           /\ CheckPrincipal(s) =>
                 LET refusal == PrincipalRefusal(request[s], revoked_agents)
                 IN IF refusal # "OK"
                    THEN stage'[s] = "answered" /\ reply'[s] = Deny(refusal)
                    ELSE stage'[s] = "nonce" /\ reply'[s] = reply[s]
           /\ Consume(s) =>
                 /\ stage'[s] = "answered"
                 /\ \/ reply'[s] = Deny("TOKEN_REPLAYED")
                    \/ reply'[s] = Allow(ClaimsOf(request[s]))
<1>1. DOMAIN stage = Slots /\ DOMAIN reply = Slots
  BY OneCallPerRequest DEF LinkInv, HandlerInv, VerifierTypeOK
<1> QED
  BY <1>1 DEF Deliver, Receive, CheckToken, CheckPrincipal, Consume, Respond

LEMMA ReplyFields ==
    /\ \A code : /\ Deny(code).status = 200 /\ Deny(code).decision = "deny"
                 /\ Deny(code).reason_code = code
    /\ \A claims : /\ Allow(claims).status = 200 /\ Allow(claims).decision = "allow"
                   /\ Allow(claims).reason_code = "OK"
    /\ PayloadTooLarge.status # 200 /\ PayloadTooLarge.decision # "allow"
    /\ PayloadTooLarge.reason_code # "OK"
  BY NoneAssumption DEF Deny, Allow, Response, PayloadTooLarge, NoVerdict, VerifierReasons

LEMMA AllowIsOkStep ==
    ASSUME LinkInv, AllowIsOk, [DriverNext]_allvars
    PROVE  AllowIsOk'
<1>1. ASSUME NEW s \in Slots,
             Deliver(s) \/ CheckToken(s) \/ CheckPrincipal(s) \/ Consume(s),
             \A r \in Slots \ {s} : reply'[r] = reply[r]
      PROVE  AllowIsOk'
  <2>1. \/ reply'[s] = reply[s] \/ reply'[s] = PayloadTooLarge
        \/ \E code : code # "OK" /\ reply'[s] = Deny(code)
        \/ \E claims : reply'[s] = Allow(claims)
    BY <1>1, ReplyOf
  <2>2. reply'[s].decision = "allow" <=> reply'[s].reason_code = "OK"
    BY <2>1, ReplyFields DEF AllowIsOk, Granted
  <2> QED
    BY <1>1, <2>2 DEF AllowIsOk, Granted
<1>2. CASE UNCHANGED reply
  BY <1>2 DEF AllowIsOk, Granted
<1> QED
  BY <1>1, <1>2, HandlerHalf

(* What the verifier handles is a request of the script, from the past.    *)
LEMMA HandledIsScripted ==
    ASSUME SuiteInv, SentBefore, NEW s \in Slots, stage[s] # "idle"
    PROVE  /\ s \in 1..12 /\ s # 11 /\ s # 12 /\ phase[s] # "idle"
           /\ \E t \in Clocks :
                 /\ t <= clock
                 /\ request[s] = AuthorizeRequest(Normalized(DemoConfig), RequestAt(s, NowMs(t)))
<1> USE DEF SuiteInv, LinkInv, MiddlewareInv
<1>1. Asked(s) /\ request[s] = wire[s]
  BY DEF Linked
<1>2. /\ wire[s] = AuthorizeRequest(cfg, egress[s]) /\ LocalRefusal(cfg, egress[s]) = "OK"
      /\ cfg = Normalized(DemoConfig)
  BY <1>1, DemoAssumption DEF MiddlewareTypeOK
<1>3. phase[s] # "idle"
  BY <1>1 DEF InFlight, Asked
<1>4. PICK t \in Clocks : t <= clock /\ egress[s] = RequestAt(s, NowMs(t))
  BY <1>3 DEF SentBefore
<1>5. s \in 1..12
  BY SlotsAreCalls
<1>6. s # 11
  BY <1>2, <1>4, <1>5, ScriptedLocal
<1>7. s # 12
  <2>1. Script[s].port_open
    BY DEF ClosedPort
  <2> QED
    BY <1>5, <2>1, ScriptTable
<1> QED
  BY <1>1, <1>2, <1>3, <1>4, <1>5, <1>6, <1>7

LEMMA AsScriptedStep ==
    ASSUME SuiteInv, RevokedInOrder, SentBefore, AsScripted, [DriverNext]_allvars
    PROVE  AsScripted'
<1> USE DEF SuiteInv
<1>0. \A s \in Slots : RevokeLost(s) => RevokeLost(s)'
  BY RevokedInOrderStep
<1>1. ASSUME NEW r \in Slots, stage'[r] = stage[r], reply'[r] = reply[r]
      PROVE  AsScriptedAt(r)'
  BY <1>0, <1>1 DEF AsScripted, AsScriptedAt
<1>2. ASSUME NEW s \in Slots, Deliver(s)
      PROVE  AsScriptedAt(s)'
  BY <1>0, <1>2, ReplyOf, ReplyFields DEF AsScripted, AsScriptedAt
<1>3. ASSUME NEW s \in Slots, CheckToken(s)
      PROVE  AsScriptedAt(s)'
  <2> DEFINE refusal == TokenRefusal(request[s], NowMs(clock))
  <2>1. stage[s] # "idle"
    BY <1>3 DEF CheckToken
  <2>2. PICK t \in Clocks :
          /\ t <= clock
          /\ request[s] = AuthorizeRequest(Normalized(DemoConfig), RequestAt(s, NowMs(t)))
    BY <2>1, HandledIsScripted
  <2>3. s \in 1..12 /\ s # 11
    BY <2>1, HandledIsScripted
  <2>4. refusal = IF NowMs(clock) > ExpiryAt(s, NowMs(t)) THEN "TOKEN_EXPIRED"
                  ELSE IF Script[s].minted_for # Script[s].acting THEN "AGENT_MISMATCH"
                  ELSE "OK"
    BY <2>2, <2>3, ScriptedToToken
  <2>5. Script[s].expired => NowMs(clock) > ExpiryAt(s, NowMs(t))
    <3>1. NowMs(t) \in Int /\ NowMs(clock) \in Int /\ NowMs(t) <= NowMs(clock)
      BY <2>2, ClocksAssumption, NowIsMonotone
    <3> QED
      BY <3>1 DEF ExpiryAt
  <2>6. /\ Script[s].expired => Script[s].expect = "TOKEN_EXPIRED"
        /\ Script[s].minted_for # Script[s].acting => Script[s].expect = "AGENT_MISMATCH"
    BY <2>3, ScriptTable DEF AGENT, REVOKED, INTRUDER
  <2> HIDE DEF refusal
  <2>7. CASE refusal = "OK"
    <3>1. stage'[s] = "principal" /\ reply'[s] = reply[s]
      BY <1>3, <2>7, ReplyOf DEF refusal
    <3>2. ~Script[s].expired /\ Script[s].minted_for = Script[s].acting
      BY <2>4, <2>5, <2>7
    <3> QED
      BY <1>0, <3>1, <3>2 DEF AsScripted, AsScriptedAt
  <2>8. CASE refusal # "OK"
    <3>1. stage'[s] = "answered" /\ reply'[s].reason_code = refusal
      BY <1>3, <2>8, ReplyOf, ReplyFields DEF refusal
    <3>2. \/ refusal = Script[s].expect
          \/ refusal = "TOKEN_EXPIRED" /\ ~Script[s].expired
      BY <2>4, <2>6, <2>8
    <3> QED
      BY <3>1, <3>2 DEF AsScriptedAt
  <2> QED
    BY <2>7, <2>8
<1>4. ASSUME NEW s \in Slots, CheckPrincipal(s)
      PROVE  AsScriptedAt(s)'
  <2> DEFINE refusal == PrincipalRefusal(request[s], revoked_agents)
  <2>1. stage[s] = "principal"
    BY <1>4 DEF CheckPrincipal
  <2>2. PICK t \in Clocks :
          request[s] = AuthorizeRequest(Normalized(DemoConfig), RequestAt(s, NowMs(t)))
    BY <2>1, HandledIsScripted
  <2>3. s \in 1..12 /\ s # 11 /\ s # 12 /\ phase[s] # "idle"
    BY <2>1, HandledIsScripted
  <2>4. refusal = IF Script[s].minted_for \in revoked_agents THEN "AGENT_REVOKED"
                  ELSE IF s = 5 THEN "WORKLOAD_MISMATCH"
                  ELSE IF s \in {8, 9} THEN "INTENT_MISMATCH"
                  ELSE "OK"
    BY <2>2, <2>3, ScriptedToPrincipal
  <2>5. ~Script[s].expired /\ Script[s].minted_for = Script[s].acting
    BY <2>1 DEF AsScripted, AsScriptedAt
  <2>6. s # 3 /\ s # 10
    BY <2>3, <2>5, ScriptTable DEF AGENT, INTRUDER, RevokedUse
  <2>7. /\ Script[s].minted_for \in revoked_agents => s = RevokedUse
        /\ s = RevokedUse /\ Script[s].minted_for \notin revoked_agents => RevokeLost(s)
    <3>1. Script[s].minted_for = IF s = RevokedUse THEN REVOKED ELSE AGENT
      BY <2>3, ScriptTable
    <3>2. AGENT \notin revoked_agents
      BY DEF RevokedInOrder, AGENT, REVOKED
    <3>3. s = RevokedUse /\ REVOKED \notin revoked_agents => revoke_call = "failed"
      BY <2>3 DEF RevokedInOrder
    <3> QED
      BY <3>1, <3>2, <3>3 DEF RevokeLost
  <2>8. /\ s = RevokedUse => Script[s].expect = "AGENT_REVOKED"
        /\ s = 5 => Script[s].expect = "WORKLOAD_MISMATCH"
        /\ s \in {8, 9} => Script[s].expect = "INTENT_MISMATCH"
        /\ s \in {1, 2, 6, 7} => Script[s].expect \in UseCodes
    BY ScriptTable DEF RevokedUse, UseCodes
  <2> HIDE DEF refusal
  <2>9. CASE refusal = "OK"
    <3>1. stage'[s] = "nonce" /\ reply'[s] = reply[s]
      BY <1>4, <2>9, ReplyOf DEF refusal
    <3>2. Script[s].expect \in UseCodes \/ RevokeLost(s)
      BY <2>3, <2>4, <2>6, <2>7, <2>8, <2>9 DEF RevokedUse
    <3> QED
      BY <1>0, <2>5, <3>1, <3>2 DEF AsScripted, AsScriptedAt
  <2>10. CASE refusal # "OK"
    <3>1. stage'[s] = "answered" /\ reply'[s].reason_code = refusal
      BY <1>4, <2>10, ReplyOf, ReplyFields DEF refusal
    <3>2. refusal = Script[s].expect
      BY <2>4, <2>7, <2>8, <2>10
    <3> QED
      BY <3>1, <3>2 DEF AsScriptedAt
  <2> QED
    BY <2>9, <2>10
<1>5. ASSUME NEW s \in Slots, Consume(s)
      PROVE  AsScriptedAt(s)'
  <2>1. stage[s] = "nonce" /\ stage'[s] = "answered" /\ reply'[s].reason_code \in UseCodes
    BY <1>5, ReplyOf, ReplyFields DEF Consume, UseCodes
  <2> QED
    BY <1>0, <2>1 DEF AsScripted, AsScriptedAt
<1>6. ASSUME NEW s \in Slots,
             Deliver(s) \/ CheckToken(s) \/ CheckPrincipal(s) \/ Consume(s),
             \A r \in Slots \ {s} : stage'[r] = stage[r] /\ reply'[r] = reply[r]
      PROVE  AsScripted'
  BY <1>1, <1>2, <1>3, <1>4, <1>5, <1>6 DEF AsScripted
<1>7. CASE UNCHANGED <<stage, reply>>
  BY <1>1, <1>7 DEF AsScripted
<1> QED
  BY <1>6, <1>7, HandlerHalf

LEMMA ScriptCorrect == DriverSafety => []ScriptInv
<1>1. ASSUME SuiteInv, ScriptInv, [DriverNext]_allvars
      PROVE  ScriptInv'
  BY <1>1, OneProcessStep, RevokedInOrderStep, SentBeforeStep, LocalAsScriptedStep, AllowIsOkStep,
     AsScriptedStep
     DEF ScriptInv, SuiteInv
<1> QED
  BY <1>1, ScriptInit, SuiteCorrect, PTL DEF DriverSafety
-----------------------------------------------------------------------------
(***************************************************************************)
(* The two uses of one token.  A caller that is gone when its request is   *)
(* handled has failed; that is the only way in which the replay can come   *)
(* out ahead of the first use.                                             *)
(***************************************************************************)
TokensAsScripted ==
    \A s \in Slots : stage[s] # "idle" =>
        /\ Jti(s) = Script[s].jti
        /\ ~Script[s].expired => ClaimsOf(request[s]).exp_unix_ms = NowMs(Start) + LIFETIME_MS

GaveUp(s) == Done(s) /\ Failed(outcome[s])

NeverPastToken(s) == stage[s] \notin {"principal", "nonce"} /\ ~Granted(s)

FirstIsFirst ==
    Replay \in Slots =>
        /\ reply[FirstUse].reason_code = "TOKEN_REPLAYED" => GaveUp(FirstUse)
        /\ reply[FirstUse].reason_code = "TOKEN_EXPIRED" =>
              GaveUp(FirstUse) \/ NeverPastToken(Replay)

LEMMA TokensFollow == SuiteInv => TokensAsScripted
<1> SUFFICES ASSUME SuiteInv, NEW s \in Slots, stage[s] # "idle"
             PROVE  /\ Jti(s) = Script[s].jti
                    /\ ~Script[s].expired =>
                          ClaimsOf(request[s]).exp_unix_ms = NowMs(Start) + LIFETIME_MS
  BY DEF TokensAsScripted
<1>1. PICK t \in Clocks : ClaimsOf(request[s]).exp_unix_ms = ExpiryAt(s, NowMs(t))
  BY ScriptedClaims
<1>2. Jti(s) = Script[s].jti
  BY ScriptedClaims DEF Jti
<1> QED
  BY <1>1, <1>2 DEF ExpiryAt

(* A call that ends before its request is answered has failed. *)
LEMMA GoneMeansFailed ==
    ASSUME LinkInv, NEW s \in Slots, Done(s), Asked(s), stage[s] # "answered"
    PROVE  GaveUp(s)
<1>1. Reported(audit[s], outcome[s], wire[s])
  BY DEF LinkInv, MiddlewareInv, AuditReports
<1>2. outcome[s].kind # "Verdict"
  BY DEF LinkInv, Linked
<1> QED
  BY <1>1, <1>2 DEF Reported, Asked, Outcomes, GaveUp, Failed

(* A request that is not submitted is not handled. *)
LEMMA UnsentIsIdle ==
    ASSUME LinkInv, NEW s \in Slots, phase[s] = "idle"
    PROVE  stage[s] = "idle"
  BY DEF LinkInv, MiddlewareInv, InFlight, Linked, Asked

SentFirst == \A s \in Slots : phase[s] = "idle" => stage[s] = "idle"

LEMMA TwoUses ==
    /\ FirstUse < Replay /\ FirstUse # Replay
    /\ Script[FirstUse].jti = "replay" /\ Script[Replay].jti = "replay"
    /\ Replay \in Slots => FirstUse \in Slots
    /\ ~Script[FirstUse].expired /\ ~Script[Replay].expired
<1>1. Script[FirstUse].jti = "replay"
  BY DEF Script, Scenario, FirstUse
<1>2. ~Script[6].expired /\ ~Script[7].expired
  BY ScriptTable
<1> QED
  BY <1>1, <1>2, ScriptFacts, ScriptAssumption DEF FirstUse, Replay

(* Replies given before a call is answered. *)
LEMMA UnansweredReply ==
    ASSUME HandlerInv, NEW s \in Slots, stage[s] # "answered"
    PROVE  /\ ~Granted(s)
           /\ reply[s].reason_code \notin {"TOKEN_REPLAYED", "TOKEN_EXPIRED", "OK"}
<1>1. reply[s] = NoReply
  BY OneCallPerRequest DEF HandlerInv, AnswersAreLast
<1> QED
  BY <1>1, NoneAssumption DEF NoReply, NoVerdict, VerifierReasons, RefusalCodes, Granted

LEMMA TooLargeReply ==
    PayloadTooLarge.reason_code \notin {"TOKEN_REPLAYED", "TOKEN_EXPIRED"}
  BY NoneAssumption DEF PayloadTooLarge, NoVerdict, VerifierReasons, RefusalCodes

(* The first use is told that its token was used: the replay, which is     *)
(* submitted only after it has ended, was granted.                         *)
LEMMA FirstReplayedStep ==
    ASSUME SuiteInv, SuiteInv', FirstIsFirst, TokensAsScripted', SentFirst', ReplayHasWinner',
           [DriverNext]_allvars, Replay \in Slots,
           reply'[FirstUse].reason_code = "TOKEN_REPLAYED"
    PROVE  GaveUp(FirstUse)'
<1> USE OneCallPerRequest DEF SuiteInv
<1>0. FirstUse \in Slots
  BY TwoUses
<1>1. GaveUp(FirstUse) => GaveUp(FirstUse)'
  BY <1>0, CallsStay DEF GaveUp, Done
<1>2. CASE reply[FirstUse].reason_code = "TOKEN_REPLAYED"
  BY <1>1, <1>2 DEF FirstIsFirst
<1>3. CASE reply[FirstUse].reason_code # "TOKEN_REPLAYED"
  <2>0. HandlerInv /\ MiddlewareTypeOK /\ LinkInv
    BY DEF LinkInv, MiddlewareInv
  <2>1. [VerifierNext]_vvars
    BY <2>0, DriverStep, VerifierStep
  <2>2. ~Final(FirstUse)
    <3>1. ~Granted(FirstUse)
      BY <1>0, <1>3, <2>0, <2>1, FinalIsAnswered, AnswersStay DEF Final
    <3> QED
      BY <1>3, <3>1 DEF Final
  <2>3. Consume(FirstUse)
    BY <1>0, <2>0, <2>1, <2>2, FinalByConsume DEF Final
  <2>4. stage[FirstUse] = "nonce" /\ stage'[FirstUse] = "answered"
    BY <1>0, <2>0, <2>3, ReplyOf DEF Consume
  <2>5. PICK d \in Slots \ {FirstUse} : Granted(d)' /\ Jti(d)' = Jti(FirstUse)'
    BY <1>0 DEF ReplayHasWinner, GrantedIn
  <2>6. stage'[d] # "idle"
    <3>1. NoReply.decision # "allow"
      BY NoneAssumption DEF NoReply, NoVerdict
    <3>2. HandlerInv'
      BY DEF LinkInv
    <3> QED
      BY <2>5, <3>1, <3>2 DEF HandlerInv, AnswersAreLast, Granted
  <2>7. d = Replay
    <3>1. Script[d].jti = "replay"
      BY <1>0, <2>4, <2>5, <2>6, TwoUses DEF TokensAsScripted
    <3> QED
      BY <2>5, <3>1, ScriptFacts, SlotsAreCalls
  <2>8. phase'[FirstUse] = "done"
    <3>1. phase'[Replay] # "idle"
      BY <2>6, <2>7 DEF SentFirst
    <3> QED
      BY <1>0, <3>1, TwoUses DEF InOrder, Done
  <2>9. UNCHANGED mvars
    BY <1>0, <2>0, <2>4, HandlerHalf
  <2>10. Done(FirstUse) /\ Asked(FirstUse)
    BY <1>0, <2>0, <2>4, <2>8, <2>9 DEF mvars, Done, LinkInv, Linked
  <2> QED
    BY <1>0, <1>1, <2>0, <2>4, <2>10, GoneMeansFailed
<1> QED
  BY <1>2, <1>3

(* The first use is told that its token has expired: then the replay is    *)
(* told so, or the first use was given up before.                          *)
LEMMA FirstExpiredStep ==
    ASSUME SuiteInv, ScriptInv, FirstIsFirst, TokensAsScripted, SentFirst,
           [DriverNext]_allvars, Replay \in Slots,
           reply'[FirstUse].reason_code = "TOKEN_EXPIRED"
    PROVE  GaveUp(FirstUse)' \/ NeverPastToken(Replay)'
<1> USE OneCallPerRequest DEF SuiteInv
<1>0. FirstUse \in Slots /\ LinkInv /\ HandlerInv
  BY TwoUses DEF LinkInv
<1>1. GaveUp(FirstUse) => GaveUp(FirstUse)'
  BY <1>0, CallsStay DEF GaveUp, Done
<1>2. CASE reply[FirstUse].reason_code = "TOKEN_EXPIRED"
  <2>1. CASE GaveUp(FirstUse)
    BY <1>1, <2>1
  <2>2. CASE NeverPastToken(Replay)
    <3>1. ASSUME CheckToken(Replay), TokenRefusal(request[Replay], NowMs(clock)) = "OK"
          PROVE  FALSE
      <4>1. stage[Replay] = "token" /\ stage[FirstUse] # "idle"
        <5>1. stage[Replay] = "token"
          BY <3>1 DEF CheckToken
        <5>2. stage[FirstUse] = "answered"
          BY <1>0, <1>2, UnansweredReply
        <5> QED
          BY <5>1, <5>2
      <4>2. ClaimsOf(request[Replay]).exp_unix_ms = ClaimsOf(request[FirstUse]).exp_unix_ms
        BY <1>0, <4>1, TwoUses DEF TokensAsScripted
      <4>3. /\ ClaimsOf(request[FirstUse]).exp_unix_ms \in Int
            /\ NowMs(clock) > ClaimsOf(request[FirstUse]).exp_unix_ms
        BY <1>0, <1>2 DEF StillTrue
      <4>4. NowMs(clock) \in Int
        BY ClocksAssumption, NowIsMonotone
      <4>5. request[Replay] \in WireRequests
        BY <1>0, <4>1 DEF HandlerInv, VerifierTypeOK, Running
      <4>6. NowMs(clock) <= ClaimsOf(request[Replay]).exp_unix_ms
        BY <3>1, <4>4, <4>5, TokenPassed
      <4> QED
        BY <4>2, <4>3, <4>4, <4>6
    <3>2. ASSUME Deliver(Replay) \/ CheckToken(Replay)
          PROVE  NeverPastToken(Replay)'
      <4>1. /\ stage'[Replay] \in {"token", "answered"}
            /\ \/ reply'[Replay] \in {reply[Replay], PayloadTooLarge}
               \/ \E code : reply'[Replay] = Deny(code)
        BY <1>0, <3>1, <3>2, ReplyOf
      <4>2. ~Granted(Replay)'
        BY <2>2, <4>1, ReplyFields DEF NeverPastToken, Granted
      <4> QED
        BY <4>1, <4>2 DEF NeverPastToken
    <3>3. ~CheckPrincipal(Replay) /\ ~Consume(Replay)
      BY <2>2 DEF NeverPastToken, CheckPrincipal, Consume
    <3>4. ASSUME stage'[Replay] = stage[Replay], reply'[Replay] = reply[Replay]
          PROVE  NeverPastToken(Replay)'
      BY <2>2, <3>4 DEF NeverPastToken, Granted
    <3> QED
      BY <1>0, <3>2, <3>3, <3>4, HandlerHalf
  <2> QED
    BY <1>2, <2>1, <2>2 DEF FirstIsFirst
<1>3. CASE reply[FirstUse].reason_code # "TOKEN_EXPIRED"
  <2>1. CheckToken(FirstUse) /\ UNCHANGED mvars
        /\ stage'[Replay] = stage[Replay] /\ reply'[Replay] = reply[Replay]
    <3>1. reply'[FirstUse] # reply[FirstUse]
      BY <1>3
    <3>2. ~Deliver(FirstUse)
      BY <1>0, <3>1, ReplyOf, TooLargeReply
    <3>3. ~CheckPrincipal(FirstUse)
      BY <1>0, <3>1, ReplyOf, ReplyFields, RefusalReasons
    <3>4. ~Consume(FirstUse)
      BY <1>0, <3>1, ReplyOf, ReplyFields
    <3> QED
      BY <1>0, <3>1, <3>2, <3>3, <3>4, TwoUses, HandlerHalf
  <2>2. stage[FirstUse] = "token" /\ Asked(FirstUse)
    BY <1>0, <2>1 DEF CheckToken, LinkInv, Linked
  <2>3. CASE Done(FirstUse)
    BY <1>0, <1>1, <2>2, <2>3, GoneMeansFailed
  <2>4. CASE ~Done(FirstUse)
    <3>1. phase[Replay] = "idle"
      BY <1>0, <2>4, TwoUses DEF InOrder
    <3>2. stage[Replay] = "idle"
      BY <3>1 DEF SentFirst
    <3>3. ~Granted(Replay)
      BY <1>0, <3>2, UnansweredReply
    <3> QED
      BY <2>1, <3>2, <3>3 DEF NeverPastToken, Granted
  <2> QED
    BY <2>3, <2>4
<1> QED
  BY <1>2, <1>3

LEMMA FirstIsFirstHolds == DriverSafety => [](FirstIsFirst /\ TokensAsScripted)
<1>1. DriverInit => FirstIsFirst
  <2> SUFFICES ASSUME DriverInit, Replay \in Slots
               PROVE  reply[FirstUse].reason_code \notin {"TOKEN_REPLAYED", "TOKEN_EXPIRED"}
    BY DEF FirstIsFirst
  <2>1. HandlerInv /\ stage[FirstUse] = "idle" /\ FirstUse \in Slots
    BY TwoUses, HandlerInit, OneCallPerRequest DEF DriverInit, Init, VerifierInit
  <2> QED
    BY <2>1, UnansweredReply
<1>2. SuiteInv => SentFirst
  BY UnsentIsIdle DEF SentFirst, SuiteInv
<1>3. ASSUME SuiteInv, SuiteInv', ScriptInv, FirstIsFirst, TokensAsScripted, TokensAsScripted',
             SentFirst, SentFirst', ReplayHasWinner', [DriverNext]_allvars
      PROVE  FirstIsFirst'
  <2> SUFFICES ASSUME Replay \in Slots
               PROVE  /\ reply'[FirstUse].reason_code = "TOKEN_REPLAYED" => GaveUp(FirstUse)'
                      /\ reply'[FirstUse].reason_code = "TOKEN_EXPIRED" =>
                            GaveUp(FirstUse)' \/ NeverPastToken(Replay)'
    BY DEF FirstIsFirst
  <2> QED
    BY <1>3, FirstReplayedStep, FirstExpiredStep
<1> QED
  BY <1>1, <1>2, <1>3, TokensFollow, SuiteCorrect, ScriptCorrect, SuiteIsComposition,
     ComponentsInside, ReplayHasWinnerHolds, PTL DEF DriverSafety
-----------------------------------------------------------------------------
(* The demo enforces and fails closed: a scenario whose call did not fail  *)
(* reports what refused it locally, or the verifier's reason, and          *)
(* continues exactly when the verifier said OK.                            *)
LEMMA DemoReports ==
    ASSUME SuiteInv, NEW s \in Slots, Done(s), ~Failed(outcome[s])
    PROVE  /\ GotReason(s) = audit[s].reason_code
           /\ Continued(s) <=> VerifierAllowed(outcome[s])
<1> USE DEF SuiteInv, LinkInv, MiddlewareInv
<1>1. /\ Truthful(audit[s], decision[s], outcome[s], wire[s])
      /\ Reported(audit[s], outcome[s], wire[s])
  BY DEF AuditTellsTheTruth, AuditReports
<1>2. decision[s].kind \in {"Continue", "Deny"}
  BY DEF MiddlewareTypeOK
<1>3. audit[s].enforced
  <2>1. cfg = Normalized(DemoConfig)
    BY DemoAssumption DEF MiddlewareTypeOK
  <2>2. Normalized(DemoConfig).mode = "enforce"
    BY SMT DEF Normalized, DemoConfig
  <2>3. cfg.mode = "enforce"
    BY <2>1, <2>2
  <2> QED
    BY <1>1, <2>3 DEF Reported
<1>4. GotReason(s) = audit[s].reason_code
  BY <1>1, <1>2 DEF GotReason, Continued, Truthful
<1>5. Continued(s) <=> VerifierAllowed(outcome[s])
  BY <1>1, <1>3 DEF Continued, Truthful
<1> QED
  BY <1>4, <1>5

LEMMA LocalEndsAsScripted ==
    ASSUME SuiteInv, LocalAsScripted, NEW s \in Slots, Done(s), ~Failed(outcome[s]), ~Asked(s)
    PROVE  AsExpected(s)
<1>1. outcome[s] = Local(Script[s].expect)
  BY DEF LocalAsScripted
<1>2. Reported(audit[s], outcome[s], wire[s])
  BY DEF SuiteInv, LinkInv, MiddlewareInv, AuditReports
<1>3. Script[s].expect \in LocalCodes
  <2>1. outcome[s] \in {Local(code) : code \in LocalCodes}
    BY <1>2 DEF Reported, Asked
  <2>2. PICK code \in LocalCodes : outcome[s] = Local(code)
    BY <2>1
  <2>3. Local(code).kind = code /\ Local(Script[s].expect).kind = Script[s].expect
    BY DEF Local, Failure
  <2> QED
    BY <1>1, <2>2, <2>3
<1>4. audit[s].reason_code = Script[s].expect /\ ~VerifierAllowed(outcome[s])
  BY <1>1, <1>2, <1>3 DEF Reported, Local, Failure, LocalCodes, VerifierAllowed
<1> QED
  BY <1>3, <1>4, DemoReports DEF AsExpected, LocalCodes

LEMMA VerdictEnds ==
    ASSUME SuiteInv, AllowIsOk, NEW s \in Slots, Done(s), ~Failed(outcome[s]), Asked(s)
    PROVE  /\ stage[s] = "answered" /\ reply[s].status = 200
           /\ outcome[s].response = reply[s]
           /\ GotReason(s) = reply[s].reason_code
           /\ reply[s].reason_code = Script[s].expect => AsExpected(s)
<1> USE DEF SuiteInv, LinkInv
<1>1. Reported(audit[s], outcome[s], wire[s])
  BY DEF MiddlewareInv, AuditReports
<1>2. outcome[s].kind = "Verdict" /\ outcome[s].response.status = 200
  BY <1>1 DEF Reported, Asked, Outcomes, Failed
<1>3. stage[s] = "answered" /\ outcome[s].response = reply[s]
  BY <1>2 DEF Linked
<1>4. GotReason(s) = reply[s].reason_code
  BY <1>1, <1>2, <1>3, DemoReports DEF Reported
<1>5. Continued(s) <=> reply[s].reason_code = "OK"
  BY <1>2, <1>3, DemoReports DEF VerifierAllowed, AllowIsOk, Granted
<1> QED
  BY <1>2, <1>3, <1>4, <1>5 DEF AsExpected

(* One token is used twice, every other once. *)
LEMMA OneTokenTwice ==
    ASSUME NEW i \in 1..12, NEW j \in 1..12, i # j, Script[i].jti = Script[j].jti
    PROVE  {i, j} = {FirstUse, Replay}
<1>1. /\ Script[1].jti = "happy" /\ Script[2].jti = "respawn" /\ Script[3].jti = "wrongagent"
      /\ Script[4].jti = "revoked" /\ Script[5].jti = "workload" /\ Script[6].jti = "replay"
      /\ Script[7].jti = "replay" /\ Script[8].jti = "scope" /\ Script[9].jti = "intent"
      /\ Script[10].jti = "exp" /\ Script[11].jti = "none" /\ Script[12].jti = "down"
  BY DEF Script, Scenario
<1>2. {i, j} = {6, 7}
  BY <1>1
<1> QED
  BY <1>2 DEF FirstUse, Replay

(* One nonce, two answers: how the use of a token that the script expects  *)
(* to be the other one can come out so.                                    *)
LEMMA UsesSwapped ==
    ASSUME SuiteInv, ScriptInv, FirstIsFirst, TokensAsScripted, ReplayHasWinner, SingleUse,
           NEW s \in Slots, Done(s), ~Failed(outcome[s]), Asked(s),
           {reply[s].reason_code, Script[s].expect} \subseteq UseCodes,
           reply[s].reason_code # Script[s].expect
    PROVE  s = Replay /\ Failed(outcome[FirstUse])
<1> USE OneCallPerRequest DEF SuiteInv
<1>0. HandlerInv /\ LinkInv /\ stage[s] = "answered" /\ AllowIsOk /\ s \in 1..12
  BY VerdictEnds, SlotsAreCalls DEF LinkInv, ScriptInv
<1>1. CASE reply[s].reason_code = "TOKEN_REPLAYED" /\ Script[s].expect = "OK"
  <2>1. PICK d \in Slots \ {s} : Granted(d) /\ Jti(d) = Jti(s)
    BY <1>1 DEF ReplayHasWinner, GrantedIn
  <2>2. stage[d] # "idle"
    BY <1>0, <2>1, UnansweredReply
  <2>3. Script[d].jti = Script[s].jti
    BY <1>0, <2>1, <2>2 DEF TokensAsScripted
  <2>4. d \in 1..12 /\ d # s
    BY <2>1, SlotsAreCalls
  <2>5. d = Replay /\ s = FirstUse
    BY <1>0, <1>1, <2>3, <2>4, OneTokenTwice, ScriptFacts
  <2>6. GaveUp(FirstUse)
    BY <1>1, <2>1, <2>5 DEF FirstIsFirst
  <2> QED
    BY <2>5, <2>6 DEF GaveUp
<1>2. CASE reply[s].reason_code = "OK" /\ Script[s].expect = "TOKEN_REPLAYED"
  <2>1. s = Replay /\ FirstUse \in Slots
    <3>1. s = Replay
      BY <1>0, <1>2, ScriptTable DEF Replay
    <3> QED
      BY <3>1, TwoUses
  <2>2. Granted(Replay)
    BY <1>0, <1>2, <2>1 DEF AllowIsOk
  <2>3. Done(FirstUse)
    <3>1. phase[s] # "idle"
      BY DEF Done
    <3> QED
      BY <2>1, <3>1, TwoUses DEF InOrder
  <2> SUFFICES ASSUME ~Failed(outcome[FirstUse]) PROVE FALSE
    BY <2>1
  <2>4. Asked(FirstUse)
    <3> SUFFICES ASSUME ~Asked(FirstUse) PROVE FALSE
      OBVIOUS
    <3>1. AsExpected(FirstUse)
      BY <2>1, <2>3, LocalEndsAsScripted DEF ScriptInv
    <3>2. Script[FirstUse].expect = "OK"
      BY ScriptTable DEF FirstUse
    <3>3. Continued(FirstUse)
      BY <3>1, <3>2 DEF AsExpected
    <3>4. VerifierAllowed(outcome[FirstUse])
      BY <2>1, <2>3, <3>3, DemoReports
    <3>5. outcome[FirstUse] = Local("OK")
      BY <2>1, <2>3, <3>2 DEF ScriptInv, LocalAsScripted
    <3> QED
      BY <3>4, <3>5 DEF VerifierAllowed, Local, Failure
  <2>5. stage[FirstUse] = "answered" /\ reply[FirstUse].status = 200
    BY <1>0, <2>1, <2>3, <2>4, VerdictEnds
  <2>6. reply[FirstUse].reason_code \in {"OK", "TOKEN_REPLAYED", "TOKEN_EXPIRED"}
    <3>1. Script[FirstUse].expect = "OK" /\ ~RevokeLost(FirstUse)
      BY ScriptTable DEF FirstUse, RevokeLost, RevokedUse
    <3> QED
      BY <2>1, <2>5, <3>1 DEF ScriptInv, AsScripted, AsScriptedAt, UseCodes
  <2>7. CASE reply[FirstUse].reason_code = "OK"
    <3>1. Granted(FirstUse)
      BY <1>0, <2>1, <2>7 DEF AllowIsOk
    <3>2. Jti(FirstUse) = Jti(Replay)
      BY <1>0, <2>1, <2>5, TwoUses DEF TokensAsScripted
    <3>3. arrival[FirstUse].epoch = arrival[Replay].epoch
      BY <2>1 DEF ScriptInv, OneProcess
    <3> QED
      BY <2>1, <2>2, <3>1, <3>2, <3>3, TwoUses DEF SingleUse
  <2>8. CASE reply[FirstUse].reason_code = "TOKEN_REPLAYED"
    BY <2>1, <2>8 DEF FirstIsFirst, GaveUp
  <2>9. CASE reply[FirstUse].reason_code = "TOKEN_EXPIRED"
    BY <2>1, <2>2, <2>9 DEF FirstIsFirst, GaveUp, NeverPastToken
  <2> QED
    BY <2>6, <2>7, <2>8, <2>9
<1> QED
  BY <1>1, <1>2 DEF UseCodes

(***************************************************************************)
(* driver.rs:202-433 and main.rs:97-102: the suite is not flaky, however   *)
(* many calls fail or come late and however much time passes.  A scenario  *)
(* that does not end as scripted had its own call fail, or follows a lost  *)
(* revocation or a failed first use, or the minute of the tokens was lost. *)
(***************************************************************************)
THEOREM SurprisesExplainedHolds == DriverSafety => []SurprisesExplained
<1>1. ASSUME SuiteInv, ScriptInv, FirstIsFirst, TokensAsScripted, ReplayHasWinner, SingleUse,
             ExpiryNeedsStall
      PROVE  SurprisesExplained
  <2> SUFFICES ASSUME NEW s \in Slots, Done(s), ~AsExpected(s), ~Failed(outcome[s])
               PROVE  \/ s = RevokedUse /\ revoke_call = "failed"
                      \/ s = Replay /\ Failed(outcome[FirstUse])
                      \/ /\ GotReason(s) = "TOKEN_EXPIRED"
                         /\ stalled + s * TIMEOUT_MS > LIFETIME_MS
    BY DEF SurprisesExplained
  <2>1. Asked(s)
    BY <1>1, LocalEndsAsScripted DEF ScriptInv
  <2>2. /\ reply[s].status = 200 /\ outcome[s].response = reply[s]
        /\ GotReason(s) = reply[s].reason_code
        /\ reply[s].reason_code # Script[s].expect
    BY <1>1, <2>1, VerdictEnds DEF ScriptInv
  <2>3. CASE reply[s].reason_code = "TOKEN_EXPIRED" /\ ~Script[s].expired
    BY <1>1, <2>2, <2>3 DEF ExpiryNeedsStall
  <2>4. CASE {reply[s].reason_code, Script[s].expect} \subseteq UseCodes
    BY <1>1, <2>1, <2>2, <2>4, UsesSwapped
  <2>5. CASE RevokeLost(s)
    BY <2>5 DEF RevokeLost
  <2> QED
    BY <1>1, <2>2, <2>3, <2>4, <2>5 DEF ScriptInv, AsScripted, AsScriptedAt
<1> QED
  BY <1>1, SuiteCorrect, ScriptCorrect, FirstIsFirstHolds, SuiteIsComposition, ComponentsInside,
     ReplayHasWinnerHolds, SingleUseHolds, ExpiryNeedsStallHolds, PTL
=============================================================================
