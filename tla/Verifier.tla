------------------------------ MODULE Verifier ------------------------------
(***************************************************************************)
(* The reference verifier (ext-authz-demo/src/verifier.rs): an HTTP server *)
(* whose handlers run concurrently and share two mutex-guarded sets, the   *)
(* consumed nonces and the revoked agents.                                 *)
(*                                                                         *)
(* `authorize` has no await point and touches shared state three times:    *)
(* it reads the wall clock, then the revoked set, then tests-and-inserts   *)
(* the nonce.  Each of its actions below runs from one of those points up  *)
(* to the next, so every interleaving the locks allow is a behaviour.      *)
(* All state is in memory: a crash loses both sets and every handler.      *)
(***************************************************************************)
EXTENDS Token, Integers

CONSTANTS
    Calls,                     \* HTTP calls, each delivered at most once
    WireRequests,              \* the AuthorizeRequests a peer may send
    Agents,                    \* agent principals; any of them may be revoked
    VerifierKey,               \* the HMAC key the server was started with
    Clocks,                    \* wall-clock readings, relative to the epoch
    MaxRestarts,               \* bound on crashes
    MAX_AUTHORIZE_BODY_BYTES

ASSUME ClocksAssumption == Clocks \subseteq Int
ASSUME MaxRestartsAssumption == MaxRestarts \in Nat

VARIABLES
    clock,           \* the wall clock; it may be stepped either way
    up,              \* is the process running?
    epoch,           \* how often it has been restarted
    seen_jti,        \* consumed nonces
    revoked_agents,
    stage,           \* where the handler of each call is
    request,         \* the AuthorizeRequest of each call
    reply,           \* the HTTP response to each call
    arrival          \* history: what held when the call arrived

vvars == <<clock, up, epoch, seen_jti, revoked_agents, stage, request, reply, arrival>>

-----------------------------------------------------------------------------
\* Requests, claims and responses

TokenOf(q) == q.credentials[DEFAULT_TOKEN_HEADER]
ClaimsOf(q) == TokenOf(q).body
WithToken == {q \in WireRequests : DEFAULT_TOKEN_HEADER \in DOMAIN q.credentials}

ASSUME ExpiryAssumption == \A q \in WithToken : ClaimsOf(q).exp_unix_ms \in Int

Deny(code) == Response("deny", code, None, None)

Allow(claims) ==
    Response("allow", "OK", claims.jti, IF claims.crh = None THEN "coarse" ELSE "exact")

PayloadTooLarge == NoVerdict(413)

\* The size of the JSON body, up to the parts of fixed size.
WireSize(q) == Len(q.request.path) + Len(q.request.query)

\* Seeded fault: the failed subtraction is not replaced by zero.
SignedMs(t) == t

\* now_ms: a clock before the epoch reads as zero.
NowMs(t) == IF t < 0 THEN 0 ELSE t

-----------------------------------------------------------------------------
\* The checks of `authorize`, in its order: the first that fails gives the
\* reason, "OK" means that none does.

\* Seeded fault: the hash written by the peer is believed.
TrustSentCrh(d) ==
    IF NotHex \in {d.body_sha256, d.canonical_request_hash}
    THEN None
    ELSE d.canonical_request_hash

RecomputeCrh(d) ==
    IF NotHex \in {d.body_sha256, d.canonical_request_hash}
    THEN None
    ELSE CanonicalRequestHash(d)

\* Seeded fault: a millisecond of grace.
ExpiredLate(q, now) == now > ClaimsOf(q).exp_unix_ms + 1

Expired(q, now) == now > ClaimsOf(q).exp_unix_ms

\* Lines 132-177: everything decided before shared state is read, but for
\* the clock.
TokenRefusal(q, now) ==
    IF DEFAULT_TOKEN_HEADER \notin DOMAIN q.credentials THEN "TOKEN_MALFORMED"
    ELSE LET verdict == VerifyToken(TokenOf(q), VerifierKey)
             crh     == RecomputeCrh(q.request)
         IN  IF verdict = "BadSignature" THEN "TOKEN_SIGNATURE_INVALID"
             ELSE IF verdict = "Malformed" THEN "TOKEN_MALFORMED"
             ELSE IF q.version # WIRE_VERSION THEN "UNSUPPORTED_VERSION"
             ELSE IF Expired(q, now) THEN "TOKEN_EXPIRED"
             ELSE IF crh = None THEN "DESCRIPTOR_MALFORMED"
             ELSE IF crh # q.request.canonical_request_hash THEN "CRH_MISMATCH"
             ELSE IF ClaimsOf(q).agent_id # q.context.agent_id THEN "AGENT_MISMATCH"
             ELSE "OK"

\* Lines 208-217.
InScope(scope, d) ==
    /\ EqIgnoreAsciiCase(scope.method, d.method)
    /\ AuthorityInScope(d.scheme, d.authority, scope.authority)
    /\ PathInScope(d.path, scope.path_prefix)

\* Seeded fault: the token's own binding is not compared.
NeverBoundElsewhere(claims, d) == FALSE

\* Line 224: the token authorizes another request than this one.
BoundElsewhere(claims, d) == claims.crh \notin {None, d.canonical_request_hash}

\* Lines 184-227: from the revocation lookup to the nonce.
PrincipalRefusal(q, revoked) ==
    LET claims == ClaimsOf(q)
    IN  IF claims.agent_id \in revoked THEN "AGENT_REVOKED"
        ELSE IF claims.on_behalf_of \notin {None, q.context.on_behalf_of} THEN "AGENT_MISMATCH"
        ELSE IF claims.workload_selector # None
                /\ ~IsPrefix(claims.workload_selector, q.context.sandbox_id)
             THEN "WORKLOAD_MISMATCH"
        ELSE IF ~InScope(claims.scope, q.request) THEN "INTENT_MISMATCH"
        ELSE IF BoundElsewhere(claims, q.request) THEN "INTENT_MISMATCH"
        ELSE "OK"

-----------------------------------------------------------------------------
Running == {"token", "principal", "nonce"}
Stages == {"idle", "answered", "dropped"} \cup Running

Respond(c, response) ==
    /\ stage' = [stage EXCEPT ![c] = "answered"]
    /\ reply' = [reply EXCEPT ![c] = response]

\* The router's body limit, then the handler starts.
Receive(c, q) ==
    /\ up
    /\ stage[c] = "idle"
    /\ request' = [request EXCEPT ![c] = q]
    /\ arrival' = [arrival EXCEPT ![c] =
                      [epoch |-> epoch, revoked |-> revoked_agents, earliest |-> NowMs(clock)]]
    /\ IF WireSize(q) > MAX_AUTHORIZE_BODY_BYTES
       THEN Respond(c, PayloadTooLarge)
       ELSE stage' = [stage EXCEPT ![c] = "token"] /\ UNCHANGED reply
    /\ UNCHANGED <<clock, up, epoch, seen_jti, revoked_agents>>

CheckToken(c) ==
    /\ stage[c] = "token"
    /\ LET refusal == TokenRefusal(request[c], NowMs(clock))
       IN IF refusal # "OK"
          THEN Respond(c, Deny(refusal))
          ELSE stage' = [stage EXCEPT ![c] = "principal"] /\ UNCHANGED reply
    /\ UNCHANGED <<clock, up, epoch, seen_jti, revoked_agents, request, arrival>>

\* Seeded fault: the revoked set as it was when the process started.
CheckStalePrincipal(c) ==
    /\ stage[c] = "principal"
    /\ LET refusal == PrincipalRefusal(request[c], {})
       IN IF refusal # "OK"
          THEN Respond(c, Deny(refusal))
          ELSE stage' = [stage EXCEPT ![c] = "nonce"] /\ UNCHANGED reply
    /\ UNCHANGED <<clock, up, epoch, seen_jti, revoked_agents, request, arrival>>

\* Seeded fault: the nonce is consumed before the remaining checks.
CheckAndBurn(c) ==
    /\ stage[c] = "principal"
    /\ LET refusal == PrincipalRefusal(request[c], revoked_agents)
       IN IF refusal # "OK"
          THEN Respond(c, Deny(refusal))
          ELSE stage' = [stage EXCEPT ![c] = "nonce"] /\ UNCHANGED reply
    /\ seen_jti' = seen_jti \cup {ClaimsOf(request[c]).jti}
    /\ UNCHANGED <<clock, up, epoch, revoked_agents, request, arrival>>

CheckPrincipal(c) ==
    /\ stage[c] = "principal"
    /\ LET refusal == PrincipalRefusal(request[c], revoked_agents)
       IN IF refusal # "OK"
          THEN Respond(c, Deny(refusal))
          ELSE stage' = [stage EXCEPT ![c] = "nonce"] /\ UNCHANGED reply
    /\ UNCHANGED <<clock, up, epoch, seen_jti, revoked_agents, request, arrival>>

\* Seeded fault: membership is tested, nothing is inserted.
ConsumeNothing(c) ==
    /\ stage[c] = "nonce"
    /\ LET claims == ClaimsOf(request[c])
       IN Respond(c, IF claims.jti \in seen_jti THEN Deny("TOKEN_REPLAYED") ELSE Allow(claims))
    /\ UNCHANGED <<clock, up, epoch, seen_jti, revoked_agents, request, arrival>>

\* Seeded fault: a duplicate is left without an answer.
ConsumeFresh(c) ==
    /\ stage[c] = "nonce"
    /\ ClaimsOf(request[c]).jti \notin seen_jti
    /\ Respond(c, Allow(ClaimsOf(request[c])))
    /\ seen_jti' = seen_jti \cup {ClaimsOf(request[c]).jti}
    /\ UNCHANGED <<clock, up, epoch, revoked_agents, request, arrival>>

\* HashSet::insert under the lock: test and insert are one step.
Consume(c) ==
    /\ stage[c] = "nonce"
    /\ LET claims == ClaimsOf(request[c])
       IN /\ Respond(c, IF claims.jti \in seen_jti THEN Deny("TOKEN_REPLAYED") ELSE Allow(claims))
          /\ seen_jti' = seen_jti \cup {claims.jti}
    /\ UNCHANGED <<clock, up, epoch, revoked_agents, request, arrival>>

-----------------------------------------------------------------------------
\* POST /v1/revoke/:agent_id
Revoke(a) ==
    /\ up
    /\ revoked_agents' = revoked_agents \cup {a}
    /\ UNCHANGED <<clock, up, epoch, seen_jti, stage, request, reply, arrival>>

\* The operating system moves the wall clock, in either direction.
ClockStep(t) ==
    /\ t # clock
    /\ clock' = t
    /\ arrival' = [c \in Calls |->
                      IF stage[c] \in Running /\ NowMs(t) < arrival[c].earliest
                      THEN [arrival[c] EXCEPT !.earliest = NowMs(t)]
                      ELSE arrival[c]]
    /\ UNCHANGED <<up, epoch, seen_jti, revoked_agents, stage, request, reply>>

\* Seeded fault: handlers survive the process.
CrashKeepsHandlers ==
    /\ up
    /\ epoch < MaxRestarts
    /\ up' = FALSE
    /\ seen_jti' = {}
    /\ revoked_agents' = {}
    /\ UNCHANGED <<clock, epoch, stage, request, reply, arrival>>

Crash ==
    /\ up
    /\ epoch < MaxRestarts
    /\ up' = FALSE
    /\ seen_jti' = {}
    /\ revoked_agents' = {}
    /\ stage' = [c \in Calls |-> IF stage[c] \in Running THEN "dropped" ELSE stage[c]]
    /\ UNCHANGED <<clock, epoch, request, reply, arrival>>

\* run_verifier: VerifierState::new, both sets empty.
Restart ==
    /\ ~up
    /\ up' = TRUE
    /\ epoch' = epoch + 1
    /\ UNCHANGED <<clock, seen_jti, revoked_agents, stage, request, reply, arrival>>

-----------------------------------------------------------------------------
VerifierInit ==
    /\ clock \in Clocks
    /\ up = TRUE
    /\ epoch = 0
    /\ seen_jti = {}
    /\ revoked_agents = {}
    /\ stage = [c \in Calls |-> "idle"]
    /\ request = [c \in Calls |-> NoRequest]
    /\ reply = [c \in Calls |-> NoReply]
    /\ arrival = [c \in Calls |-> [epoch |-> 0, revoked |-> {}, earliest |-> 0]]

Handle(c) == CheckToken(c) \/ CheckPrincipal(c) \/ Consume(c)

VerifierNext ==
    \/ \E c \in Calls : \E q \in WireRequests : Receive(c, q)
    \/ \E c \in Calls : Handle(c)
    \/ \E a \in Agents : Revoke(a)
    \/ \E t \in Clocks : ClockStep(t)
    \/ Crash
    \/ Restart

\* tokio runs a started handler to its end; nothing in it waits.
VerifierFairness == \A c \in Calls : WF_vvars(Handle(c))

VerifierSafety == VerifierInit /\ [][VerifierNext]_vvars
VerifierSpec == VerifierSafety /\ VerifierFairness

-----------------------------------------------------------------------------
\* What the states mean

Nonces == {ClaimsOf(q).jti : q \in WithToken}
Replies == [status : {0, 200, 413}, decision : {"allow", "deny", None},
            reason_code : VerifierReasons \cup {None}, receipt_id : Nonces \cup {None},
            binding : {"coarse", "exact", None}]

Granted(c) == reply[c].decision = "allow"
Jti(c) == ClaimsOf(request[c]).jti
GrantedIn(e) == {c \in Calls : Granted(c) /\ arrival[c].epoch = e}

(***************************************************************************)
(* Types; with them, a handler past its first step has decoded a token.    *)
(***************************************************************************)
VerifierTypeOK ==
    /\ clock \in Clocks
    /\ up \in BOOLEAN
    /\ epoch \in Nat
    /\ seen_jti \subseteq Nonces
    /\ revoked_agents \subseteq Agents
    /\ stage \in [Calls -> Stages]
    /\ request \in [Calls -> WireRequests \cup {NoRequest}]
    /\ \A c \in Calls : stage[c] \in Running => request[c] \in WireRequests
    /\ \A c \in Calls : stage[c] \in {"principal", "nonce"} => request[c] \in WithToken
    /\ reply \in [Calls -> Replies]
    /\ arrival \in [Calls -> [epoch : Nat, revoked : SUBSET Agents, earliest : Nat]]

(***************************************************************************)
(* verifier.rs:229-236.  Between two restarts no nonce is granted to two   *)
(* calls, however their handlers interleave.                               *)
(***************************************************************************)
SingleUse ==
    \A c, d \in Calls :
        /\ c # d
        /\ Granted(c) /\ Granted(d)
        /\ arrival[c].epoch = arrival[d].epoch
        => Jti(c) # Jti(d)

(***************************************************************************)
(* verifier.rs:28-33 and 229-236.  The consumed nonces are exactly those   *)
(* of the calls granted since the last restart: a call that is denied, at  *)
(* whatever check, leaves its nonce usable.                                *)
(***************************************************************************)
NoncesAreGrants ==
    seen_jti = IF up THEN {Jti(c) : c \in GrantedIn(epoch)} ELSE {}

(***************************************************************************)
(* verifier.rs:233-235.  TOKEN_REPLAYED is never spurious: the nonce was   *)
(* granted to another call since the same restart.                         *)
(***************************************************************************)
ReplayHasWinner ==
    \A c \in Calls :
        reply[c].reason_code = "TOKEN_REPLAYED" =>
            \E d \in GrantedIn(arrival[c].epoch) \ {c} : Jti(d) = Jti(c)

(***************************************************************************)
(* verifier.rs:105-111 and 184-186.  Once a revocation has been answered,  *)
(* no call that arrives later is granted to that agent by this process,    *)
(* even though the lookup and the grant are separate steps.                *)
(***************************************************************************)
RevocationIsHonoured ==
    \A c \in Calls : Granted(c) => ClaimsOf(request[c]).agent_id \notin arrival[c].revoked

(***************************************************************************)
(* verifier.rs:155-157 and 314-319.  A granted token was unexpired at some *)
(* moment while its call was being handled: the clock may run past the     *)
(* expiry before the nonce is consumed, and may be stepped back, but an    *)
(* expiry that lies before all the readings of the call is never missed.   *)
(***************************************************************************)
GrantWithinLifetime ==
    \A c \in Calls : Granted(c) => arrival[c].earliest <= ClaimsOf(request[c]).exp_unix_ms

(***************************************************************************)
(* verifier.rs:163-177 and 223-227.  A grant of an exact token is for a    *)
(* descriptor whose own fields hash to the bound value, whatever hash the  *)
(* peer wrote next to them.                                                *)
(***************************************************************************)
GrantBindsDescriptor ==
    \A c \in Calls :
        Granted(c) /\ reply[c].binding = "exact" =>
            CanonicalRequestHash(request[c].request) = ClaimsOf(request[c]).crh

(***************************************************************************)
(* The inductive invariant of a single handler.  It belongs to the running *)
(* process and has seen no more of the world than there is now; each check *)
(* it passed left a fact the grant relies on; and until its answer nothing *)
(* was said to the caller.                                                 *)
(***************************************************************************)
HandlersAreCurrent ==
    \A c \in Calls : stage[c] \in Running =>
        /\ up
        /\ arrival[c].epoch = epoch
        /\ arrival[c].revoked \subseteq revoked_agents
        /\ arrival[c].earliest <= NowMs(clock)

ChecksPassed ==
    \A c \in Calls :
        /\ stage[c] \in {"principal", "nonce"} =>
              /\ arrival[c].earliest <= ClaimsOf(request[c]).exp_unix_ms
              /\ CanonicalRequestHash(request[c].request) = request[c].request.canonical_request_hash
              /\ ClaimsOf(request[c]).agent_id = request[c].context.agent_id
        /\ stage[c] = "nonce" =>
              /\ ClaimsOf(request[c]).agent_id \notin arrival[c].revoked
              /\ InScope(ClaimsOf(request[c]).scope, request[c].request)
              /\ ClaimsOf(request[c]).crh \in {None, request[c].request.canonical_request_hash}

AnswersAreLast ==
    \A c \in Calls : /\ stage[c] # "answered" => reply[c] = NoReply
                     /\ arrival[c].epoch <= epoch

HandlerInv ==
    /\ VerifierTypeOK
    /\ HandlersAreCurrent
    /\ ChecksPassed
    /\ AnswersAreLast

(***************************************************************************)
(* verifier.rs:123-253.  Every call whose handler starts is answered,      *)
(* unless the process dies under it.                                       *)
(***************************************************************************)
EveryCallSettles ==
    \A c \in Calls : stage[c] \in Running ~> stage[c] \in {"answered", "dropped"}

-----------------------------------------------------------------------------
\* The abstract authorizer this server implements.

NonceAsked(q) == IF q \in WithToken THEN ClaimsOf(q).jti ELSE None
AgentAsked(q) == IF q \in WithToken THEN ClaimsOf(q).agent_id ELSE None

PromiseStatus ==
    [c \in Calls |->
        IF stage[c] = "idle" THEN "new"
        ELSE IF stage[c] \in Running THEN "pending"
        ELSE IF Granted(c) THEN "granted"
        ELSE "refused"]

PromiseAsked ==
    [c \in Calls |->
        IF stage[c] = "idle" \/ reply[c] = PayloadTooLarge
        THEN [nonce |-> None, agent |-> None, barred |-> {}]
        ELSE [nonce |-> NonceAsked(request[c]),
              agent |-> AgentAsked(request[c]),
              barred |-> arrival[c].revoked]]

Promise == INSTANCE OneShot WITH
    Nonces <- {NonceAsked(q) : q \in WireRequests},
    Agents <- Agents \cup {AgentAsked(q) : q \in WireRequests},
    spent  <- seen_jti,
    barred <- revoked_agents,
    status <- PromiseStatus,
    asked  <- PromiseAsked

(***************************************************************************)
(* verifier.rs:123-253 as a whole implements the one-shot authorizer: its  *)
(* three-step handler, its locks and its crashes show no caller anything   *)
(* that granting in one step would not.                                    *)
(***************************************************************************)
KeepsPromise == Promise!Spec
=============================================================================
