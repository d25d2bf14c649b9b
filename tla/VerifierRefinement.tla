------------------------- MODULE VerifierRefinement -------------------------
(***************************************************************************)
(* The verifier implements the one-shot authorizer, for every value of the *)
(* constants: each of its steps is one of OneShot's, or invisible there.   *)
(***************************************************************************)
EXTENDS VerifierProofs

Unheard == [nonce |-> None, agent |-> None, barred |-> {}]

AskedOf(c) ==
    [nonce |-> NonceAsked(request[c]),
     agent |-> AgentAsked(request[c]),
     barred |-> arrival[c].revoked]

(* A handler that answers one call changes only that call's status.        *)
LEMMA AnswerMaps ==
    ASSUME HandlerInv, NEW c \in Calls, stage[c] \in Running, NEW v, Respond(c, v),
           v # PayloadTooLarge, UNCHANGED <<request, arrival>>
    PROVE  /\ PromiseStatus[c] = "pending"
           /\ PromiseStatus' = [PromiseStatus EXCEPT ![c] =
                                  IF v.decision = "allow" THEN "granted" ELSE "refused"]
           /\ PromiseAsked' = PromiseAsked
<1> USE DEF HandlerInv, VerifierTypeOK, Respond
<1>1. reply[c] # PayloadTooLarge
  BY DEF AnswersAreLast, Running, NoReply, PayloadTooLarge, NoVerdict
<1>2. PromiseStatus[c] = "pending"
  BY DEF PromiseStatus, Running
<1>3. PromiseStatus' = [PromiseStatus EXCEPT ![c] =
                          IF v.decision = "allow" THEN "granted" ELSE "refused"]
  BY DEF PromiseStatus, Granted, Running
<1>4. PromiseAsked' = PromiseAsked
  BY <1>1 DEF PromiseAsked, Running
<1> QED
  BY <1>2, <1>3, <1>4

(* A handler that goes on to its next check changes nothing that shows.    *)
LEMMA ProceedMaps ==
    ASSUME HandlerInv, NEW c \in Calls, stage[c] \in Running, NEW next \in Running,
           stage' = [stage EXCEPT ![c] = next], UNCHANGED <<reply, request, arrival>>
    PROVE  PromiseStatus' = PromiseStatus /\ PromiseAsked' = PromiseAsked
<1> USE DEF HandlerInv, VerifierTypeOK
<1>1. PromiseStatus' = PromiseStatus
  BY DEF PromiseStatus, Granted, Running
<1>2. PromiseAsked' = PromiseAsked
  BY DEF PromiseAsked, Running
<1> QED
  BY <1>1, <1>2

LEMMA InitMaps == VerifierInit => Promise!Init
<1> SUFFICES ASSUME VerifierInit PROVE Promise!Init
  OBVIOUS
<1>1. PromiseStatus = [c \in Calls |-> "new"]
  BY DEF PromiseStatus, VerifierInit
<1>2. PromiseAsked = [c \in Calls |-> Promise!Nothing]
  BY DEF PromiseAsked, VerifierInit, Promise!Nothing
<1> QED
  BY <1>1, <1>2 DEF VerifierInit, Promise!Init

LEMMA StepMaps == HandlerInv /\ [VerifierNext]_vvars => [Promise!Next]_(Promise!ovars)
<1> SUFFICES ASSUME HandlerInv, [VerifierNext]_vvars
             PROVE  Promise!Next \/ UNCHANGED Promise!ovars
  OBVIOUS
<1> USE DEF HandlerInv, VerifierTypeOK
<1>1. ASSUME NEW c \in Calls, NEW q \in WireRequests, Receive(c, q)
      PROVE  Promise!Ask(c) \/ Promise!Refuse(c)
  <2>1. CASE WireSize(q) > MAX_AUTHORIZE_BODY_BYTES
    <3>1. PromiseStatus' = [PromiseStatus EXCEPT ![c] = "refused"]
      <4>1. PayloadTooLarge.decision # "allow"
        BY NoneAssumption DEF PayloadTooLarge, NoVerdict
      <4>2. stage' = [stage EXCEPT ![c] = "answered"] /\ reply' = [reply EXCEPT ![c] = PayloadTooLarge]
        BY <1>1, <2>1 DEF Receive, Respond
      <4> QED
        BY <4>1, <4>2 DEF PromiseStatus, Granted, Running
    <3>2. PromiseAsked' = PromiseAsked
      BY <1>1, <2>1 DEF PromiseAsked, Receive, Respond
    <3>3. PromiseStatus[c] = "new"
      BY <1>1 DEF PromiseStatus, Receive
    <3> QED
      BY <1>1, <3>1, <3>2, <3>3 DEF Receive, Promise!Refuse
  <2>2. CASE ~(WireSize(q) > MAX_AUTHORIZE_BODY_BYTES)
    <3> DEFINE n == NonceAsked(q)
               a == AgentAsked(q)
    <3>1. PromiseStatus[c] = "new" /\ reply[c] # PayloadTooLarge
      BY <1>1 DEF PromiseStatus, Receive, AnswersAreLast, NoReply, PayloadTooLarge, NoVerdict
    <3>2. PromiseStatus' = [PromiseStatus EXCEPT ![c] = "pending"]
      BY <1>1, <2>2 DEF PromiseStatus, Granted, Running, Receive
    <3>3. PromiseAsked' = [PromiseAsked EXCEPT ![c] =
                              [nonce |-> n, agent |-> a, barred |-> revoked_agents]]
      BY <1>1, <2>2, <3>1 DEF PromiseAsked, Receive
    <3>4. n \in {NonceAsked(r) : r \in WireRequests}
          /\ a \in Agents \cup {AgentAsked(r) : r \in WireRequests}
      OBVIOUS
    <3> QED
      BY <1>1, <3>1, <3>2, <3>3, <3>4 DEF Receive, Promise!Ask
  <2> QED
    BY <2>1, <2>2
<1>2. ASSUME NEW c \in Calls, CheckToken(c)
      PROVE  Promise!Refuse(c) \/ UNCHANGED Promise!ovars
  <2>1. CASE TokenRefusal(request[c], NowMs(clock)) = "OK"
    BY <1>2, <2>1, ProceedMaps DEF CheckToken, Running, Promise!ovars
  <2>2. CASE TokenRefusal(request[c], NowMs(clock)) # "OK"
    BY <1>2, <2>2, AnswerMaps
       DEF CheckToken, Running, Deny, Response, PayloadTooLarge, NoVerdict, Promise!Refuse
  <2> QED
    BY <2>1, <2>2
<1>3. ASSUME NEW c \in Calls, CheckPrincipal(c)
      PROVE  Promise!Refuse(c) \/ UNCHANGED Promise!ovars
  <2>1. CASE PrincipalRefusal(request[c], revoked_agents) = "OK"
    BY <1>3, <2>1, ProceedMaps DEF CheckPrincipal, Running, Promise!ovars
  <2>2. CASE PrincipalRefusal(request[c], revoked_agents) # "OK"
    BY <1>3, <2>2, AnswerMaps
       DEF CheckPrincipal, Running, Deny, Response, PayloadTooLarge, NoVerdict, Promise!Refuse
  <2> QED
    BY <2>1, <2>2
<1>4. ASSUME NEW c \in Calls, Consume(c)
      PROVE  Promise!Grant(c) \/ Promise!Refuse(c)
  <2>1. CASE ClaimsOf(request[c]).jti \in seen_jti
    <3>1. seen_jti' = seen_jti /\ Respond(c, Deny("TOKEN_REPLAYED"))
      BY <1>4, <2>1 DEF Consume
    <3> QED
      BY <1>4, <3>1, AnswerMaps
         DEF Consume, Running, Deny, Response, PayloadTooLarge, NoVerdict, Promise!Refuse
  <2>2. CASE ClaimsOf(request[c]).jti \notin seen_jti
    <3>1. Respond(c, Allow(ClaimsOf(request[c])))
      BY <1>4, <2>2 DEF Consume
    <3>2. PromiseAsked[c] = AskedOf(c)
      BY <1>4 DEF PromiseAsked, AskedOf, Consume, AnswersAreLast, NoReply, PayloadTooLarge, NoVerdict
    <3>3. NonceAsked(request[c]) = ClaimsOf(request[c]).jti
          /\ AgentAsked(request[c]) = ClaimsOf(request[c]).agent_id
      BY <1>4 DEF Consume, NonceAsked, AgentAsked
    <3>4. PromiseAsked[c].nonce = ClaimsOf(request[c]).jti
          /\ PromiseAsked[c].agent \notin PromiseAsked[c].barred
      BY <1>4, <3>2, <3>3, ConsumeIsWarranted DEF AskedOf
    <3> QED
      BY <1>4, <2>2, <3>1, <3>4, AnswerMaps
         DEF Consume, Running, Allow, Response, PayloadTooLarge, NoVerdict, Promise!Grant
  <2> QED
    BY <2>1, <2>2
<1>5. ASSUME NEW a \in Agents, Revoke(a)
      PROVE  Promise!Bar(a)
  BY <1>5 DEF Revoke, Promise!Bar, PromiseStatus, PromiseAsked, Granted
<1>6. ASSUME NEW t \in Clocks, ClockStep(t)
      PROVE  UNCHANGED Promise!ovars
  <2>1. \A c \in Calls : arrival'[c].revoked = arrival[c].revoked
    BY <1>6 DEF ClockStep
  <2> QED
    BY <1>6, <2>1 DEF ClockStep, Promise!ovars, PromiseStatus, PromiseAsked, Granted
<1>7. CASE Crash
  <2>1. PromiseStatus' = [c \in Calls |-> IF PromiseStatus[c] = "pending" THEN "refused" ELSE PromiseStatus[c]]
    BY <1>7, NoneAssumption
       DEF Crash, PromiseStatus, Granted, Running, AnswersAreLast, NoReply, NoVerdict, VerifierReasons
  <2>2. PromiseAsked' = PromiseAsked
    BY <1>7 DEF Crash, PromiseAsked, Running
  <2> QED
    BY <1>7, <2>1, <2>2 DEF Crash, Promise!Forget, Promise!Next
<1>8. CASE Restart
  BY <1>8 DEF Restart, Promise!ovars, PromiseStatus, PromiseAsked, Granted
<1>9. CASE UNCHANGED vvars
  BY <1>9 DEF vvars, Promise!ovars, PromiseStatus, PromiseAsked, Granted
<1> QED
  BY <1>1, <1>2, <1>3, <1>4, <1>5, <1>6, <1>7, <1>8, <1>9 DEF VerifierNext, Handle, Promise!Next

(* The whole of verifier.rs:123-253, with its crashes, keeps the promise.  *)
THEOREM VerifierKeepsPromise == VerifierSafety => KeepsPromise
  BY InitMaps, StepMaps, HandlersCorrect, PTL DEF VerifierSafety, KeepsPromise, Promise!Spec
=============================================================================
