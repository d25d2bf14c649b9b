--------------------------- MODULE VerifierProofs ---------------------------
(***************************************************************************)
(* The verifier's invariants for any number of calls, any requests, agents *)
(* and clocks, and any number of restarts.                                 *)
(***************************************************************************)
EXTENDS Verifier, TLAPS

-----------------------------------------------------------------------------
(***************************************************************************)
(* Facts about the checks.  A refusal is a reason code that is neither of  *)
(* the two the nonce step gives.                                           *)
(***************************************************************************)

(* What a request that passed the checks before the revocation lookup is. *)
LEMMA TokenPassed ==
    ASSUME NEW q \in WireRequests, NEW now \in Int, TokenRefusal(q, now) = "OK"
    PROVE  /\ q \in WithToken
           /\ now <= ClaimsOf(q).exp_unix_ms
           /\ CanonicalRequestHash(q.request) = q.request.canonical_request_hash
           /\ ClaimsOf(q).agent_id = q.context.agent_id
<1>1. q \in WithToken
  BY DEF TokenRefusal, WithToken
<1>2. ClaimsOf(q).exp_unix_ms \in Int
  BY <1>1, ExpiryAssumption
<1>3. ~(now > ClaimsOf(q).exp_unix_ms)
  BY DEF TokenRefusal, Expired
<1>4. RecomputeCrh(q.request) # None /\ RecomputeCrh(q.request) = q.request.canonical_request_hash
  BY DEF TokenRefusal
<1>5. CanonicalRequestHash(q.request) = q.request.canonical_request_hash
  BY <1>4 DEF RecomputeCrh
<1>6. ClaimsOf(q).agent_id = q.context.agent_id
  BY DEF TokenRefusal
<1> QED
  BY <1>1, <1>2, <1>3, <1>5, <1>6

(* What a request that passed the checks after the lookup is. *)
LEMMA PrincipalPassed ==
    ASSUME NEW q, NEW revoked, PrincipalRefusal(q, revoked) = "OK"
    PROVE  /\ ClaimsOf(q).agent_id \notin revoked
           /\ ClaimsOf(q).crh \in {None, q.request.canonical_request_hash}
           /\ InScope(ClaimsOf(q).scope, q.request)
  BY DEF PrincipalRefusal, BoundElsewhere

(* Refusals are refusal codes. *)
LEMMA TokenRefusalType ==
    ASSUME NEW q, NEW now
    PROVE  TokenRefusal(q, now) \in RefusalCodes \cup {"OK"}
  BY DEF TokenRefusal, RefusalCodes

LEMMA PrincipalRefusalType ==
    ASSUME NEW q, NEW revoked
    PROVE  PrincipalRefusal(q, revoked) \in RefusalCodes \cup {"OK"}
  BY DEF PrincipalRefusal, RefusalCodes

(* Every response the handler builds is a reply. *)
LEMMA ReplyTypes ==
    /\ NoReply \in Replies
    /\ PayloadTooLarge \in Replies
    /\ \A code \in VerifierReasons : Deny(code) \in Replies
    /\ \A q \in WithToken : Allow(ClaimsOf(q)) \in Replies
<1>1. NoReply \in Replies /\ PayloadTooLarge \in Replies
  BY DEF NoReply, PayloadTooLarge, NoVerdict, Replies
<1>2. \A code \in VerifierReasons : Deny(code) \in Replies
  BY DEF Deny, Response, Replies
<1>3. ASSUME NEW q \in WithToken PROVE Allow(ClaimsOf(q)) \in Replies
  <2>1. ClaimsOf(q).jti \in Nonces
    BY DEF Nonces
  <2> QED
    BY <2>1 DEF Allow, Response, Replies, VerifierReasons
<1> QED
  BY <1>1, <1>2, <1>3

(* Responding moves one handler to its last stage. *)
LEMMA RespondTypes ==
    ASSUME VerifierTypeOK, NEW c \in Calls, NEW v \in Replies, Respond(c, v)
    PROVE  /\ stage' \in [Calls -> Stages] /\ reply' \in [Calls -> Replies]
           /\ stage'[c] = "answered" /\ reply'[c] = v
           /\ \A d \in Calls \ {c} : stage'[d] = stage[d] /\ reply'[d] = reply[d]
  BY DEF VerifierTypeOK, Respond, Stages

(* A clock reading before the epoch is taken as zero. *)
LEMMA NowIsNat ==
    ASSUME NEW t \in Clocks
    PROVE  NowMs(t) \in Nat
  BY ClocksAssumption DEF NowMs

-----------------------------------------------------------------------------
(***************************************************************************)
(* The invariant of a single handler.                                      *)
(***************************************************************************)
LEMMA HandlerInit == VerifierInit => HandlerInv
<1> SUFFICES ASSUME VerifierInit PROVE HandlerInv
  OBVIOUS
<1>1. VerifierTypeOK
  BY ReplyTypes DEF VerifierInit, VerifierTypeOK, Stages, Running
<1>2. HandlersAreCurrent /\ ChecksPassed
  BY DEF VerifierInit, HandlersAreCurrent, ChecksPassed, Running
<1>3. AnswersAreLast
  BY DEF VerifierInit, AnswersAreLast
<1> QED
  BY <1>1, <1>2, <1>3 DEF HandlerInv

LEMMA HandlerStep == HandlerInv /\ [VerifierNext]_vvars => HandlerInv'
<1> SUFFICES ASSUME HandlerInv, [VerifierNext]_vvars
             PROVE  HandlerInv'
  OBVIOUS
<1> USE DEF HandlerInv
<1>1. ASSUME NEW c \in Calls, NEW q \in WireRequests, Receive(c, q)
      PROVE  HandlerInv'
  <2>1. VerifierTypeOK'
    <3>1. stage' \in [Calls -> Stages] /\ reply' \in [Calls -> Replies]
      BY <1>1, ReplyTypes, RespondTypes DEF VerifierTypeOK, Receive, Stages, Running
    <3>2. stage' = [stage EXCEPT ![c] = "answered"] \/ stage' = [stage EXCEPT ![c] = "token"]
      BY <1>1 DEF Receive, Respond
    <3>3. \A d \in Calls : d # c => stage'[d] = stage[d] /\ request'[d] = request[d]
      BY <1>1, <3>2 DEF VerifierTypeOK, Receive
    <3>4. stage'[c] \notin {"principal", "nonce"}
      BY <3>2 DEF VerifierTypeOK
    <3>5. \A d \in Calls : stage'[d] \in Running => request'[d] \in WireRequests
      BY <1>1, <3>3 DEF VerifierTypeOK, Receive
    <3>6. \A d \in Calls : stage'[d] \in {"principal", "nonce"} => request'[d] \in WithToken
      BY <3>3, <3>4 DEF VerifierTypeOK
    <3>7. arrival' \in [Calls -> [epoch : Nat, revoked : SUBSET Agents, earliest : Nat]]
      BY <1>1, NowIsNat DEF VerifierTypeOK, Receive
    <3>8. request' \in [Calls -> WireRequests \cup {NoRequest}]
      BY <1>1 DEF VerifierTypeOK, Receive
    <3> QED
      BY <1>1, <3>1, <3>5, <3>6, <3>7, <3>8 DEF VerifierTypeOK, Receive
  <2>2. HandlersAreCurrent'
    BY <1>1, NowIsNat DEF HandlersAreCurrent, VerifierTypeOK, Receive, Respond, Running
  <2>3. ChecksPassed'
    BY <1>1 DEF ChecksPassed, VerifierTypeOK, Receive, Respond
  <2>4. AnswersAreLast'
    BY <1>1 DEF AnswersAreLast, VerifierTypeOK, Receive, Respond
  <2> QED
    BY <2>1, <2>2, <2>3, <2>4
<1>2. ASSUME NEW c \in Calls, CheckToken(c)
      PROVE  HandlerInv'
  <2>1. /\ request[c] \in WireRequests
        /\ NowMs(clock) \in Int
        /\ arrival[c].earliest \in Int
        /\ arrival[c].earliest <= NowMs(clock)
    BY <1>2, NowIsNat DEF CheckToken, VerifierTypeOK, HandlersAreCurrent, Running
  <2>2. VerifierTypeOK'
    <3>1. CASE TokenRefusal(request[c], NowMs(clock)) = "OK"
      BY <1>2, <2>1, <3>1, TokenPassed DEF VerifierTypeOK, CheckToken, Stages, Running
    <3>2. CASE TokenRefusal(request[c], NowMs(clock)) \in RefusalCodes
      <4>1. Respond(c, Deny(TokenRefusal(request[c], NowMs(clock))))
        BY <1>2, <3>2 DEF CheckToken, RefusalCodes
      <4> QED
        BY <1>2, <3>2, <4>1, ReplyTypes, RespondTypes DEF VerifierTypeOK, CheckToken, Running, VerifierReasons
    <3> QED
      BY <3>1, <3>2, TokenRefusalType
  <2>3. HandlersAreCurrent'
    BY <1>2 DEF HandlersAreCurrent, VerifierTypeOK, CheckToken, Respond, Running
  <2>4. ChecksPassed'
    <3>1. CASE TokenRefusal(request[c], NowMs(clock)) = "OK"
      <4>1. /\ NowMs(clock) <= ClaimsOf(request[c]).exp_unix_ms
            /\ ClaimsOf(request[c]).exp_unix_ms \in Int
            /\ CanonicalRequestHash(request[c].request) = request[c].request.canonical_request_hash
            /\ ClaimsOf(request[c]).agent_id = request[c].context.agent_id
        BY <2>1, <3>1, TokenPassed, ExpiryAssumption
      <4>2. arrival[c].earliest <= ClaimsOf(request[c]).exp_unix_ms
        BY <2>1, <4>1
      <4> QED
        BY <1>2, <3>1, <4>1, <4>2 DEF ChecksPassed, VerifierTypeOK, CheckToken
    <3>2. CASE TokenRefusal(request[c], NowMs(clock)) # "OK"
      BY <1>2, <3>2 DEF ChecksPassed, VerifierTypeOK, CheckToken, Respond
    <3> QED
      BY <3>1, <3>2
  <2>5. AnswersAreLast'
    BY <1>2 DEF AnswersAreLast, VerifierTypeOK, CheckToken, Respond
  <2> QED
    BY <2>2, <2>3, <2>4, <2>5
<1>3. ASSUME NEW c \in Calls, CheckPrincipal(c)
      PROVE  HandlerInv'
  <2>1. request[c] \in WireRequests /\ arrival[c].revoked \subseteq revoked_agents
    BY <1>3 DEF CheckPrincipal, VerifierTypeOK, HandlersAreCurrent, Running
  <2>2. VerifierTypeOK'
    <3>1. CASE PrincipalRefusal(request[c], revoked_agents) = "OK"
      BY <1>3, <2>1, <3>1 DEF VerifierTypeOK, CheckPrincipal, Stages, Running
    <3>2. CASE PrincipalRefusal(request[c], revoked_agents) \in RefusalCodes
      <4>1. Respond(c, Deny(PrincipalRefusal(request[c], revoked_agents)))
        BY <1>3, <3>2 DEF CheckPrincipal, RefusalCodes
      <4> QED
        BY <1>3, <3>2, <4>1, ReplyTypes, RespondTypes
           DEF VerifierTypeOK, CheckPrincipal, Running, VerifierReasons
    <3> QED
      BY <3>1, <3>2, PrincipalRefusalType
  <2>3. HandlersAreCurrent'
    BY <1>3 DEF HandlersAreCurrent, VerifierTypeOK, CheckPrincipal, Respond, Running
  <2>4. ChecksPassed'
    BY <1>3, <2>1, PrincipalPassed DEF ChecksPassed, VerifierTypeOK, CheckPrincipal, Respond
  <2>5. AnswersAreLast'
    BY <1>3 DEF AnswersAreLast, VerifierTypeOK, CheckPrincipal, Respond
  <2> QED
    BY <2>2, <2>3, <2>4, <2>5
<1>4. ASSUME NEW c \in Calls, Consume(c)
      PROVE  HandlerInv'
  <2>1. request[c] \in WithToken /\ ClaimsOf(request[c]).jti \in Nonces
    BY <1>4 DEF Consume, VerifierTypeOK, Nonces
  <2>2. VerifierTypeOK'
    <3>1. \E v \in Replies : Respond(c, v)
      BY <1>4, <2>1, ReplyTypes DEF Consume, VerifierReasons
    <3>2. seen_jti' \subseteq Nonces
      BY <1>4, <2>1 DEF VerifierTypeOK, Consume
    <3> QED
      BY <1>4, <3>1, <3>2, RespondTypes DEF VerifierTypeOK, Consume, Running
  <2>3. HandlersAreCurrent'
    BY <1>4 DEF HandlersAreCurrent, VerifierTypeOK, Consume, Respond, Running
  <2>4. ChecksPassed' /\ AnswersAreLast'
    BY <1>4 DEF ChecksPassed, AnswersAreLast, VerifierTypeOK, Consume, Respond
  <2> QED
    BY <2>2, <2>3, <2>4
<1>5. ASSUME NEW a \in Agents, Revoke(a)
      PROVE  HandlerInv'
  BY <1>5 DEF Revoke, VerifierTypeOK, HandlersAreCurrent, ChecksPassed, AnswersAreLast
<1>6. ASSUME NEW t \in Clocks, ClockStep(t)
      PROVE  HandlerInv'
  <2>1. NowMs(t) \in Nat /\ NowMs(clock) \in Nat
    BY NowIsNat DEF VerifierTypeOK
  <2>2. \A c \in Calls : /\ arrival[c].earliest \in Nat
                         /\ arrival'[c].epoch = arrival[c].epoch
                         /\ arrival'[c].revoked = arrival[c].revoked
                         /\ arrival'[c].earliest \in Nat
                         /\ arrival'[c].earliest <= arrival[c].earliest
                         /\ stage[c] \in Running => arrival'[c].earliest <= NowMs(t)
    BY <1>6, <2>1 DEF VerifierTypeOK, ClockStep
  <2>3. VerifierTypeOK'
    BY <1>6, <2>1 DEF VerifierTypeOK, ClockStep
  <2>4. HandlersAreCurrent'
    BY <1>6, <2>2 DEF HandlersAreCurrent, ClockStep
  <2>5. ChecksPassed'
    <3> SUFFICES ASSUME NEW c \in Calls, stage[c] \in {"principal", "nonce"}
                 PROVE  arrival'[c].earliest <= ClaimsOf(request[c]).exp_unix_ms
      BY <1>6, <2>2 DEF ChecksPassed, ClockStep
    <3>1. ClaimsOf(request[c]).exp_unix_ms \in Int
      BY ExpiryAssumption DEF VerifierTypeOK
    <3> QED
      BY <2>2, <3>1 DEF ChecksPassed
  <2>6. AnswersAreLast'
    BY <1>6, <2>2 DEF AnswersAreLast, ClockStep
  <2> QED
    BY <2>3, <2>4, <2>5, <2>6
<1>7. CASE Crash
  BY <1>7 DEF Crash, VerifierTypeOK, HandlersAreCurrent, ChecksPassed, AnswersAreLast, Stages, Running
<1>8. CASE Restart
  BY <1>8 DEF Restart, VerifierTypeOK, HandlersAreCurrent, ChecksPassed, AnswersAreLast
<1>9. CASE UNCHANGED vvars
  BY <1>9 DEF vvars, VerifierTypeOK, HandlersAreCurrent, ChecksPassed, AnswersAreLast
<1> QED
  BY <1>1, <1>2, <1>3, <1>4, <1>5, <1>6, <1>7, <1>8, <1>9 DEF VerifierNext, Handle

(* Types are preserved, and every handler is where its checks put it.      *)
THEOREM HandlersCorrect == VerifierSafety => []HandlerInv
  BY HandlerInit, HandlerStep, PTL DEF VerifierSafety

THEOREM TypeCorrect == VerifierSafety => []VerifierTypeOK
<1>1. HandlerInv => VerifierTypeOK
  BY DEF HandlerInv
<1> QED
  BY <1>1, HandlersCorrect, PTL

-----------------------------------------------------------------------------
(***************************************************************************)
(* Answers.  What was answered stays; a step answers at most one call, and *)
(* only the nonce step grants or reports a replay.                         *)
(***************************************************************************)
Final(c) == Granted(c) \/ reply[c].reason_code = "TOKEN_REPLAYED"

LEMMA FinalIsAnswered ==
    ASSUME HandlerInv, NEW c \in Calls, Final(c)
    PROVE  stage[c] = "answered"
  BY NoneAssumption DEF HandlerInv, AnswersAreLast, Final, Granted, NoReply, NoVerdict, VerifierReasons

(* An answered call keeps its reply and everything the reply was for.      *)
LEMMA AnswersStay ==
    ASSUME HandlerInv, [VerifierNext]_vvars, NEW c \in Calls, stage[c] = "answered"
    PROVE  reply'[c] = reply[c] /\ request'[c] = request[c] /\ arrival'[c] = arrival[c]
<1> USE DEF HandlerInv, VerifierTypeOK
<1>1. ASSUME NEW d \in Calls, NEW q \in WireRequests, Receive(d, q)
      PROVE  reply'[c] = reply[c] /\ request'[c] = request[c] /\ arrival'[c] = arrival[c]
  BY <1>1 DEF Receive, Respond
<1>2. ASSUME NEW d \in Calls, Handle(d)
      PROVE  reply'[c] = reply[c] /\ request'[c] = request[c] /\ arrival'[c] = arrival[c]
  BY <1>2 DEF Handle, CheckToken, CheckPrincipal, Consume, Respond
<1>3. ASSUME NEW a \in Agents, Revoke(a)
      PROVE  reply'[c] = reply[c] /\ request'[c] = request[c] /\ arrival'[c] = arrival[c]
  BY <1>3 DEF Revoke
<1>4. ASSUME NEW t \in Clocks, ClockStep(t)
      PROVE  reply'[c] = reply[c] /\ request'[c] = request[c] /\ arrival'[c] = arrival[c]
  BY <1>4 DEF ClockStep, Running
<1>5. CASE Crash \/ Restart \/ UNCHANGED vvars
  BY <1>5 DEF Crash, Restart, vvars
<1> QED
  BY <1>1, <1>2, <1>3, <1>4, <1>5 DEF VerifierNext

(* A call that becomes granted or replayed does so in its nonce step.      *)
LEMMA FinalByConsume ==
    ASSUME HandlerInv, [VerifierNext]_vvars, NEW c \in Calls, Final(c)', ~Final(c)
    PROVE  Consume(c)
<1> USE DEF HandlerInv, VerifierTypeOK
<1>1. reply'[c] # reply[c]
  BY DEF Final, Granted
<1>2. ASSUME NEW d \in Calls, NEW q \in WireRequests, Receive(d, q)
      PROVE  FALSE
  BY <1>1, <1>2, NoneAssumption
     DEF Receive, Respond, Final, Granted, PayloadTooLarge, NoVerdict, VerifierReasons
<1>3. ASSUME NEW d \in Calls, CheckToken(d)
      PROVE  FALSE
  BY <1>1, <1>3, TokenRefusalType
     DEF CheckToken, Respond, Final, Granted, Deny, Response, RefusalCodes
<1>4. ASSUME NEW d \in Calls, CheckPrincipal(d)
      PROVE  FALSE
  BY <1>1, <1>4, PrincipalRefusalType
     DEF CheckPrincipal, Respond, Final, Granted, Deny, Response, RefusalCodes
<1>5. ASSUME NEW d \in Calls, Consume(d)
      PROVE  Consume(c)
  BY <1>1, <1>5 DEF Consume, Respond
<1>6. ASSUME \/ \E a \in Agents : Revoke(a)
             \/ \E t \in Clocks : ClockStep(t)
             \/ Crash \/ Restart \/ UNCHANGED vvars
      PROVE  FALSE
  BY <1>1, <1>6 DEF Revoke, ClockStep, Crash, Restart, vvars
<1> QED
  BY <1>2, <1>3, <1>4, <1>5, <1>6 DEF VerifierNext, Handle

(* What the nonce step does to its own call.                               *)
LEMMA ConsumeOutcome ==
    ASSUME HandlerInv, NEW c \in Calls, Consume(c)
    PROVE  /\ up /\ up' /\ epoch' = epoch /\ arrival' = arrival /\ request' = request
           /\ arrival[c].epoch = epoch
           /\ seen_jti' = seen_jti \cup {Jti(c)}
           /\ IF Jti(c) \in seen_jti
              THEN ~Granted(c)'
              ELSE Granted(c)' /\ ~(reply'[c].reason_code = "TOKEN_REPLAYED")
           /\ \A d \in Calls \ {c} : reply'[d] = reply[d]
  BY DEF HandlerInv, VerifierTypeOK, HandlersAreCurrent, Running, Consume, Respond, Granted, Jti,
         Deny, Allow, Response

-----------------------------------------------------------------------------
(***************************************************************************)
(* Consumed nonces are grants, and the properties that follow from it.     *)
(***************************************************************************)

(* A step that consumes nothing leaves the granted calls as they were.     *)
LEMMA GrantsUnchanged ==
    ASSUME HandlerInv, [VerifierNext]_vvars, \A c \in Calls : ~Consume(c)
    PROVE  \A c \in Calls : /\ Granted(c)' <=> Granted(c)
                            /\ Granted(c) => Jti(c)' = Jti(c) /\ arrival'[c] = arrival[c]
<1> SUFFICES ASSUME NEW c \in Calls
             PROVE  /\ Granted(c)' <=> Granted(c)
                    /\ Granted(c) => Jti(c)' = Jti(c) /\ arrival'[c] = arrival[c]
  OBVIOUS
<1>1. Granted(c)' => Final(c)
  BY FinalByConsume DEF Final
<1>2. Final(c) => reply'[c] = reply[c] /\ request'[c] = request[c] /\ arrival'[c] = arrival[c]
  BY FinalIsAnswered, AnswersStay
<1> QED
  BY <1>1, <1>2 DEF Final, Granted, Jti

LEMMA NoncesStep ==
    ASSUME HandlerInv, NoncesAreGrants, [VerifierNext]_vvars
    PROVE  NoncesAreGrants'
<1>1. ASSUME NEW c \in Calls, Consume(c)
      PROVE  NoncesAreGrants'
  <2>1. ~Granted(c)
    BY <1>1, FinalIsAnswered DEF Consume, Final
  <2>2. \A d \in Calls : Jti(d)' = Jti(d)
    BY <1>1, ConsumeOutcome DEF Jti
  <2>3. CASE Jti(c) \in seen_jti
    <3>1. GrantedIn(epoch)' = GrantedIn(epoch)
      BY <1>1, <2>1, <2>3, ConsumeOutcome DEF GrantedIn, Granted
    <3> QED
      BY <1>1, <2>2, <2>3, <3>1, ConsumeOutcome DEF NoncesAreGrants, GrantedIn
  <2>4. CASE Jti(c) \notin seen_jti
    <3>1. GrantedIn(epoch)' = GrantedIn(epoch) \cup {c}
      BY <1>1, <2>1, <2>4, ConsumeOutcome DEF GrantedIn, Granted
    <3> QED
      BY <1>1, <2>2, <3>1, ConsumeOutcome DEF NoncesAreGrants, GrantedIn
  <2> QED
    BY <2>3, <2>4
<1>2. CASE Crash
  BY <1>2 DEF Crash, NoncesAreGrants
<1>3. CASE Restart
  <2>1. \A c \in Calls : arrival'[c].epoch # epoch'
    BY <1>3 DEF Restart, HandlerInv, VerifierTypeOK, AnswersAreLast
  <2>2. GrantedIn(epoch)' = {}
    BY <2>1 DEF GrantedIn
  <2> QED
    BY <1>3, <2>2 DEF Restart, NoncesAreGrants
<1>4. CASE (\A c \in Calls : ~Consume(c)) /\ ~Crash /\ ~Restart
  <2>1. UNCHANGED <<seen_jti, up, epoch>>
    BY <1>4 DEF VerifierNext, Handle, Receive, CheckToken, CheckPrincipal, Revoke, ClockStep, vvars
  <2>2. GrantedIn(epoch)' = GrantedIn(epoch)
    BY <1>4, <2>1, GrantsUnchanged DEF GrantedIn
  <2>3. \A c \in GrantedIn(epoch) : Jti(c)' = Jti(c)
    BY <1>4, GrantsUnchanged DEF GrantedIn
  <2> QED
    BY <2>1, <2>2, <2>3 DEF NoncesAreGrants
<1> QED
  BY <1>1, <1>2, <1>3, <1>4

(* verifier.rs:28-33: a denial spends no nonce, and no nonce is forgotten  *)
(* while the process lives.                                                *)
THEOREM NoncesAreGrantsHolds == VerifierSafety => []NoncesAreGrants
<1>1. VerifierInit => NoncesAreGrants
  BY NoneAssumption DEF VerifierInit, NoncesAreGrants, GrantedIn, Granted, NoReply, NoVerdict, VerifierReasons
<1>2. HandlerInv /\ NoncesAreGrants /\ [VerifierNext]_vvars => NoncesAreGrants'
  BY NoncesStep
<1> QED
  BY <1>1, <1>2, HandlersCorrect, PTL DEF VerifierSafety

(* verifier.rs:229-236: no two calls of one process are granted the same   *)
(* nonce.                                                                  *)
THEOREM SingleUseHolds == VerifierSafety => []SingleUse
<1>1. VerifierInit => SingleUse
  BY NoneAssumption DEF VerifierInit, SingleUse, Granted, NoReply, NoVerdict, VerifierReasons
<1>2. ASSUME HandlerInv, NoncesAreGrants, SingleUse, [VerifierNext]_vvars
      PROVE  SingleUse'
  <2>1. ASSUME NEW c \in Calls, Consume(c)
        PROVE  SingleUse'
    <3>1. \A d \in Calls : Jti(d)' = Jti(d)
      BY <1>2, <2>1, ConsumeOutcome DEF Jti
    <3>2. \A d \in Calls \ {c} : Granted(d)' <=> Granted(d)
      BY <1>2, <2>1, ConsumeOutcome DEF Granted
    <3>3. ASSUME NEW d \in Calls \ {c}, Granted(c)', Granted(d), arrival[d].epoch = epoch
          PROVE  Jti(d) # Jti(c)
      <4>1. Jti(d) \in seen_jti
        BY <2>1, <1>2, <3>3, ConsumeOutcome DEF NoncesAreGrants, GrantedIn
      <4> QED
        BY <2>1, <1>2, <3>3, <4>1, ConsumeOutcome
    <3> QED
      BY <1>2, <2>1, <3>1, <3>2, <3>3, ConsumeOutcome DEF SingleUse
  <2>2. CASE \A c \in Calls : ~Consume(c)
    BY <1>2, <2>2, GrantsUnchanged DEF SingleUse
  <2> QED
    BY <2>1, <2>2
<1> QED
  BY <1>1, <1>2, HandlersCorrect, NoncesAreGrantsHolds, PTL DEF VerifierSafety

(* verifier.rs:233-235: TOKEN_REPLAYED is reported only when another call  *)
(* of the same process was granted the nonce.                              *)
THEOREM ReplayHasWinnerHolds == VerifierSafety => []ReplayHasWinner
<1>1. VerifierInit => ReplayHasWinner
  BY NoneAssumption DEF VerifierInit, ReplayHasWinner, NoReply, NoVerdict, VerifierReasons
<1>2. ASSUME HandlerInv, NoncesAreGrants, ReplayHasWinner, [VerifierNext]_vvars
      PROVE  ReplayHasWinner'
  <2> SUFFICES ASSUME NEW c \in Calls, reply'[c].reason_code = "TOKEN_REPLAYED"
               PROVE  \E d \in GrantedIn(arrival[c].epoch)' \ {c} : Jti(d)' = Jti(c)'
    BY DEF ReplayHasWinner
  <2>1. PICK d \in GrantedIn(arrival[c].epoch) \ {c} : Jti(d) = Jti(c) /\ Jti(c)' = Jti(c) /\ arrival'[c] = arrival[c]
    <3>1. CASE Final(c)
      <4>1. reply'[c] = reply[c] /\ request'[c] = request[c] /\ arrival'[c] = arrival[c]
        BY <1>2, <3>1, FinalIsAnswered, AnswersStay
      <4> QED
        BY <1>2, <4>1 DEF ReplayHasWinner, Jti
    <3>2. CASE ~Final(c)
      <4>1. Consume(c)
        BY <1>2, <3>2, FinalByConsume DEF Final
      <4>2. Jti(c) \in seen_jti /\ up /\ arrival[c].epoch = epoch /\ Jti(c)' = Jti(c) /\ arrival' = arrival
        BY <1>2, <4>1, ConsumeOutcome DEF Jti
      <4>3. c \notin GrantedIn(epoch)
        BY <3>2 DEF GrantedIn, Final
      <4> QED
        BY <1>2, <4>2, <4>3 DEF NoncesAreGrants
    <3> QED
      BY <3>1, <3>2
  <2>2. d \in Calls /\ Final(d)
    BY DEF GrantedIn, Final
  <2>3. reply'[d] = reply[d] /\ request'[d] = request[d] /\ arrival'[d] = arrival[d]
    BY <1>2, <2>2, FinalIsAnswered, AnswersStay
  <2> QED
    BY <2>1, <2>3 DEF GrantedIn, Granted, Jti
<1> QED
  BY <1>1, <1>2, HandlersCorrect, NoncesAreGrantsHolds, PTL DEF VerifierSafety

-----------------------------------------------------------------------------
(***************************************************************************)
(* What a grant rests on: facts the checks left, read off at the nonce     *)
(* step.                                                                   *)
(***************************************************************************)
LEMMA ConsumeIsWarranted ==
    ASSUME HandlerInv, NEW c \in Calls, Consume(c)
    PROVE  /\ ClaimsOf(request[c]).agent_id \notin arrival[c].revoked
           /\ arrival[c].earliest <= ClaimsOf(request[c]).exp_unix_ms
           /\ Granted(c)' /\ reply'[c].binding = "exact" =>
                 CanonicalRequestHash(request[c].request) = ClaimsOf(request[c]).crh
<1> USE DEF HandlerInv, ChecksPassed
<1>1. stage[c] = "nonce"
  BY DEF Consume
<1>2. /\ ClaimsOf(request[c]).crh \in {None, request[c].request.canonical_request_hash}
      /\ CanonicalRequestHash(request[c].request) = request[c].request.canonical_request_hash
  BY <1>1
<1>3. Granted(c)' /\ reply'[c].binding = "exact" => ClaimsOf(request[c]).crh # None
  BY NoneAssumption DEF Consume, Respond, Granted, Deny, Allow, Response, VerifierReasons, VerifierTypeOK
<1> QED
  BY <1>1, <1>2, <1>3

(* A granted call was granted before the step, and kept, or is granted now *)
(* by its nonce step.                                                      *)
LEMMA GrantSource ==
    ASSUME HandlerInv, [VerifierNext]_vvars, NEW c \in Calls, Granted(c)'
    PROVE  \/ /\ Granted(c) /\ reply'[c] = reply[c]
              /\ request'[c] = request[c] /\ arrival'[c] = arrival[c]
           \/ /\ Consume(c)
              /\ request'[c] = request[c] /\ arrival'[c] = arrival[c]
<1>1. CASE Final(c)
  <2>1. reply'[c] = reply[c] /\ request'[c] = request[c] /\ arrival'[c] = arrival[c]
    BY <1>1, FinalIsAnswered, AnswersStay
  <2> QED
    BY <2>1 DEF Granted
<1>2. CASE ~Final(c)
  <2>1. Consume(c)
    BY <1>2, FinalByConsume DEF Final
  <2> QED
    BY <2>1, ConsumeOutcome
<1> QED
  BY <1>1, <1>2

(* verifier.rs:184-186: an agent revoked before a call arrived is not      *)
(* granted by it.                                                          *)
THEOREM RevocationIsHonouredHolds == VerifierSafety => []RevocationIsHonoured
<1>1. VerifierInit => RevocationIsHonoured
  BY NoneAssumption DEF VerifierInit, RevocationIsHonoured, Granted, NoReply, NoVerdict, VerifierReasons
<1>2. HandlerInv /\ RevocationIsHonoured /\ [VerifierNext]_vvars => RevocationIsHonoured'
  BY GrantSource, ConsumeIsWarranted DEF RevocationIsHonoured
<1> QED
  BY <1>1, <1>2, HandlersCorrect, PTL DEF VerifierSafety

(* verifier.rs:155-157: a granted token was unexpired at some moment of    *)
(* its call.                                                               *)
THEOREM GrantWithinLifetimeHolds == VerifierSafety => []GrantWithinLifetime
<1>1. VerifierInit => GrantWithinLifetime
  BY NoneAssumption DEF VerifierInit, GrantWithinLifetime, Granted, NoReply, NoVerdict, VerifierReasons
<1>2. HandlerInv /\ GrantWithinLifetime /\ [VerifierNext]_vvars => GrantWithinLifetime'
  BY GrantSource, ConsumeIsWarranted DEF GrantWithinLifetime
<1> QED
  BY <1>1, <1>2, HandlersCorrect, PTL DEF VerifierSafety

(* verifier.rs:163-177 and 223-227: an exact grant is for the descriptor   *)
(* whose own fields hash to the bound value.                               *)
THEOREM GrantBindsDescriptorHolds == VerifierSafety => []GrantBindsDescriptor
<1>1. VerifierInit => GrantBindsDescriptor
  BY NoneAssumption DEF VerifierInit, GrantBindsDescriptor, Granted, NoReply, NoVerdict, VerifierReasons
<1>2. HandlerInv /\ GrantBindsDescriptor /\ [VerifierNext]_vvars => GrantBindsDescriptor'
  BY GrantSource, ConsumeIsWarranted DEF GrantBindsDescriptor, Granted
<1> QED
  BY <1>1, <1>2, HandlersCorrect, PTL DEF VerifierSafety
(***************************************************************************)
(* verifier.rs:132-252: what every grant rests on.  The receipt is the     *)
(* nonce of the token, and the token is the caller's: for its agent, in    *)
(* scope, and bound to nothing else.                                       *)
(***************************************************************************)
GrantsAreWarranted ==
    \A c \in Calls : Granted(c) =>
        /\ reply[c].receipt_id = Jti(c)
        /\ ClaimsOf(request[c]).agent_id = request[c].context.agent_id
        /\ InScope(ClaimsOf(request[c]).scope, request[c].request)
        /\ ClaimsOf(request[c]).crh \in {None, CanonicalRequestHash(request[c].request)}

LEMMA ConsumeIsForTheCaller ==
    ASSUME HandlerInv, NEW c \in Calls, Consume(c)
    PROVE  /\ ClaimsOf(request[c]).agent_id = request[c].context.agent_id
           /\ InScope(ClaimsOf(request[c]).scope, request[c].request)
           /\ ClaimsOf(request[c]).crh \in {None, CanonicalRequestHash(request[c].request)}
           /\ Granted(c)' => reply'[c].receipt_id = Jti(c)
<1>1. stage[c] = "nonce"
  BY DEF Consume
<1>2. Granted(c)' => reply'[c].receipt_id = Jti(c)
  BY DEF HandlerInv, VerifierTypeOK, Consume, Respond, Granted, Jti, Deny, Allow, Response
<1> QED
  BY <1>1, <1>2 DEF HandlerInv, ChecksPassed

THEOREM GrantsAreWarrantedHolds == VerifierSafety => []GrantsAreWarranted
<1>1. VerifierInit => GrantsAreWarranted
  BY NoneAssumption DEF VerifierInit, GrantsAreWarranted, Granted, NoReply, NoVerdict, VerifierReasons
<1>2. ASSUME HandlerInv, GrantsAreWarranted, [VerifierNext]_vvars
      PROVE  GrantsAreWarranted'
  <2> SUFFICES ASSUME NEW c \in Calls, Granted(c)'
               PROVE  /\ reply'[c].receipt_id = Jti(c)'
                      /\ ClaimsOf(request'[c]).agent_id = request'[c].context.agent_id
                      /\ InScope(ClaimsOf(request'[c]).scope, request'[c].request)
                      /\ ClaimsOf(request'[c]).crh \in {None, CanonicalRequestHash(request'[c].request)}
    BY DEF GrantsAreWarranted
  <2>1. CASE Granted(c) /\ reply'[c] = reply[c] /\ request'[c] = request[c]
    BY <1>2, <2>1 DEF GrantsAreWarranted, Jti
  <2>2. CASE Consume(c) /\ request'[c] = request[c]
    BY <1>2, <2>2, ConsumeIsForTheCaller DEF Jti
  <2> QED
    BY <1>2, <2>1, <2>2, GrantSource
<1> QED
  BY <1>1, <1>2, HandlersCorrect, PTL DEF VerifierSafety
=============================================================================
