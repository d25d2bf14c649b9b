------------------------------ MODULE ExtAuthz ------------------------------
(***************************************************************************)
(* Middleware and verifier together, over one HTTP call per request.       *)
(*                                                                         *)
(* A call may be delivered late, after its client has given up, or never;  *)
(* its response may be lost; the verifier may crash and come back empty.   *)
(* A sandbox may send the same token again in another request.             *)
(***************************************************************************)
EXTENDS Verifier, Middleware

ASSUME OneCallPerRequest == Calls = Slots

ASSUME PeersAreMiddlewares ==
    \A raw \in RawConfigs : \A r \in EgressRequests :
        LocalRefusal(Normalized(raw), r) = "OK" =>
            AuthorizeRequest(Normalized(raw), r) \in WireRequests

ASSUME RepliesAreVerdicts == Replies \subseteq Verdicts

\* A digest is written as 64 lowercase hex digits.
ASSUME DigestsAreHex ==
    \A r \in EgressRequests :
        {NotHex, None} \cap {Sha256(r.body), CanonicalRequestHash(Parts(r))} = {}

VARIABLES
    submitted    \* history: the verifier's state when a request reached the hook

vars == <<vvars, mvars, submitted>>

-----------------------------------------------------------------------------
SubmitRequest(s, r) ==
    /\ Evaluate(s, r)
    /\ submitted' = [submitted EXCEPT ![s] = [epoch |-> epoch, revoked |-> revoked_agents]]
    /\ UNCHANGED vvars

Submit(s) == \E r \in EgressRequests : SubmitRequest(s, r)

\* The bytes may still be in flight when the client gives up.
Deliver(s) ==
    /\ wire[s] # NoRequest
    /\ Receive(s, wire[s])
    /\ UNCHANGED <<mvars, submitted>>

Process(s) == Handle(s) /\ UNCHANGED <<mvars, submitted>>

Answer(s) ==
    /\ stage[s] = "answered"
    /\ Conclude(s, OutcomeOf(reply[s]))
    /\ UNCHANGED <<vvars, submitted>>

\* The deadline passes, the connection fails, or a response is cut short.
BreakWith(s, f) ==
    /\ f.kind = "VERIFIER_MALFORMED_RESPONSE" => stage[s] = "answered"
    /\ Conclude(s, f)
    /\ UNCHANGED <<vvars, submitted>>

Break(s) == \E f \in Failures : BreakWith(s, f)

Operate ==
    /\ \/ \E a \in Agents : Revoke(a)
       \/ \E t \in Clocks : ClockStep(t)
       \/ Crash
       \/ Restart
    /\ UNCHANGED <<mvars, submitted>>

-----------------------------------------------------------------------------
Init ==
    /\ VerifierInit
    /\ MiddlewareInit
    /\ submitted = [s \in Slots |-> [epoch |-> 0, revoked |-> {}]]

Next ==
    \/ \E s \in Slots : Submit(s) \/ Deliver(s) \/ Process(s) \/ Answer(s) \/ Break(s)
    \/ Operate

\* Only the client deadline is assumed fair: the verifier may stall for ever.
Fairness == \A s \in Slots : WF_vars(Expire(s) /\ UNCHANGED <<vvars, submitted>>)

Safety == Init /\ [][Next]_vars
Spec == Safety /\ Fairness

-----------------------------------------------------------------------------
\* An audit line that claims an enforced, verified allow.
CleanAllow(s) == Done(s) /\ audit[s].decision = "allow" /\ audit[s].enforced /\ ~audit[s].degraded

(***************************************************************************)
(* verifier.rs:229-236 through lib.rs:301-315.  Between two restarts of    *)
(* the verifier a token lets at most one enforced request out, however     *)
(* often it is sent again and whichever responses are lost.                *)
(***************************************************************************)
AtMostOnceEgress ==
    \A s, t \in Slots :
        /\ s # t
        /\ CleanAllow(s) /\ CleanAllow(t)
        /\ audit[s].receipt_id = audit[t].receipt_id
        => arrival[s].epoch # arrival[t].epoch

(***************************************************************************)
(* lib.rs:250-274 and verifier.rs:159-227.  What goes out is what was      *)
(* authorized: for a clean allow, the bytes held by the middleware lie in  *)
(* the scope of the token in their own header, act for its agent, and for  *)
(* an exact token hash to the value it is bound to; the receipt is that    *)
(* token's.  It takes both sides to name the same header, which            *)
(* verifier.rs:127-131 makes the deployment's business.                    *)
(***************************************************************************)
EgressIsAuthorized ==
    \A s \in Slots : CleanAllow(s) /\ cfg.token_header = DEFAULT_TOKEN_HEADER =>
        LET claims == FindHeader(egress[s].headers, cfg.token_header).body
        IN /\ claims.agent_id = egress[s].context.agent_id
           /\ InScope(claims.scope, egress[s])
           /\ claims.crh \in {None, CanonicalRequestHash(Parts(egress[s]))}
           /\ audit[s].receipt_id = claims.jti

(***************************************************************************)
(* verifier.rs:127-131: a middleware with another token header and a       *)
(* verifier that was not told of it: "every request arrives with no        *)
(* recognized credential and is denied TOKEN_MALFORMED".                   *)
(***************************************************************************)
OtherHeaderIsMalformed ==
    cfg.token_header # DEFAULT_TOKEN_HEADER =>
        \A s \in Slots : reply[s].status = 200 => reply[s].reason_code = "TOKEN_MALFORMED"

(***************************************************************************)
(* lib.rs:252-274 against verifier.rs:163-177.  The middleware's spelling  *)
(* of the descriptor (method raised, scheme lowered, the rest verbatim)    *)
(* hashes at the verifier to what the middleware sent: its own requests    *)
(* are never denied for their descriptor or version.                       *)
(***************************************************************************)
DescriptorsAgree ==
    \A s \in Slots :
        reply[s].reason_code \notin {"CRH_MISMATCH", "DESCRIPTOR_MALFORMED", "UNSUPPORTED_VERSION"}

(***************************************************************************)
(* README.md:106, "revoke the agent -> denied everywhere".  A request that *)
(* reaches the hook after its agent was revoked is not let out with the    *)
(* verifier's consent, unless the verifier was restarted since.            *)
(***************************************************************************)
RevokedStaysIn ==
    \A s \in Slots :
        CleanAllow(s) /\ arrival[s].epoch = submitted[s].epoch =>
            egress[s].context.agent_id \notin submitted[s].revoked

(***************************************************************************)
(* lib.rs:306-333.  A nonce may be spent on a request that never goes out, *)
(* but only because the response was lost: an enforced denial after a      *)
(* grant is always a 503 marked degraded, and a TOKEN_REPLAYED points at   *)
(* another request that was granted.                                       *)
(***************************************************************************)
SpentNonceExplained ==
    \A s \in Slots : Done(s) /\ decision[s].kind = "Deny" =>
        /\ Granted(s) => audit[s].degraded /\ decision[s].http_status = 503
        /\ decision[s].reason_code = "TOKEN_REPLAYED" =>
              \E t \in Slots \ {s} :
                  /\ Granted(t) /\ Jti(t) = Jti(s)
                  /\ arrival[t].epoch = arrival[s].epoch

-----------------------------------------------------------------------------
\* The abstract gate that the two implement.

GateStatus ==
    [s \in Slots |->
        IF phase[s] = "idle" THEN "new"
        ELSE IF phase[s] = "calling" THEN "held"
        ELSE IF decision[s].kind = "Deny" THEN "stopped"
        ELSE IF CleanAllow(s) THEN "released"
        ELSE "waived"]

GateAsked ==
    [s \in Slots |->
        IF Asked(s)
        THEN {[nonce  |-> NonceAsked(wire[s]),
               agent  |-> AgentAsked(wire[s]),
               barred |-> IF up /\ submitted[s].epoch = epoch THEN submitted[s].revoked ELSE {}]}
        ELSE {}]

\* No failure and no denial lets a request out.
GateStrict == cfg.mode = "enforce" /\ cfg.fail = "closed"

GatePermits == {s \in Slots : Granted(s)}

Gate == INSTANCE EgressGate WITH
    Nonces  <- {NonceAsked(q) : q \in WireRequests},
    Agents  <- Agents \cup {AgentAsked(q) : q \in WireRequests},
    strict  <- GateStrict,
    status  <- GateStatus,
    asked   <- GateAsked,
    permits <- GatePermits,
    spent   <- seen_jti,
    barred  <- revoked_agents

(***************************************************************************)
(* lib.rs:201-456 and verifier.rs:123-253 together implement the gate:     *)
(* with lost and late calls, retries, revocations and restarts, an audit   *)
(* line that claims an enforced, verified allow stands for a permit that   *)
(* was granted once, and under `enforce` and `closed` nothing goes out     *)
(* without one.                                                            *)
(***************************************************************************)
KeepsGate == Gate!Spec
=============================================================================
