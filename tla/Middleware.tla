----------------------------- MODULE Middleware -----------------------------
(***************************************************************************)
(* The egress middleware (ext-authz-middleware/src/lib.rs): per outbound   *)
(* request, a local check, at most one call to the verifier, and a         *)
(* decision with one audit line, resolved through mode and fail policy.    *)
(*                                                                         *)
(* `evaluate` awaits once, in call_verifier; each slot is one request, and *)
(* its two actions are the code before and after that await.               *)
(***************************************************************************)
EXTENDS Wire, FiniteSets

CONSTANTS
    Slots,            \* requests handled, concurrently
    EgressRequests,   \* what a sandbox may try to send, with its context
    RawConfigs,       \* the configurations an operator may load
    Verdicts          \* the responses a verifier may give

ASSUME ConfigAssumption ==
    \A raw \in RawConfigs :
        /\ Normalized(raw).mode \in {"enforce", "observe"}
        /\ Normalized(raw).fail \in {"closed", "open"}

ASSUME RequestAssumption ==
    \A r \in EgressRequests :
        /\ r # None
        /\ Len(r.headers) \in Nat
        /\ DOMAIN r.headers = 1..Len(r.headers)
        /\ r.method \in Seq(Nat) /\ r.scheme \in Seq(Nat)

VARIABLES
    cfg,         \* the loaded configuration; no step changes it
    phase,       \* "idle", then "calling" during the await, then "done"
    egress,      \* the outbound request
    wire,        \* the AuthorizeRequest sent for it
    outcome,     \* history: how the verifier call ended
    decision,    \* what the host is told to do
    audit        \* the audit line

mvars == <<cfg, phase, egress, wire, outcome, decision, audit>>

-----------------------------------------------------------------------------
\* Headers are a sequence of <<name, value>>, names in any case.

Matches(headers, name) == {i \in DOMAIN headers : EqIgnoreAsciiCase(headers[i][1], name)}

\* find_header: the first match wins.
FindHeader(headers, name) == headers[Min(Matches(headers, name))][2]

\* Seeded fault: the first of several token headers is taken.
LocalRefusalFirstMatch(config, r) ==
    IF Matches(r.headers, config.token_header) = {} THEN "TOKEN_MISSING"
    ELSE IF Len(r.body) > config.max_body_bytes THEN "REQUEST_TOO_LARGE"
    ELSE "OK"

\* find_token_header and the body cap: the reason to refuse locally, or "OK".
LocalRefusal(config, r) ==
    LET matches == Matches(r.headers, config.token_header)
    IN  IF matches = {} THEN "TOKEN_MISSING"
        ELSE IF Cardinality(matches) > 1 THEN "TOKEN_AMBIGUOUS"
        ELSE IF Len(r.body) > config.max_body_bytes THEN "REQUEST_TOO_LARGE"
        ELSE "OK"

Parts(r) ==
    [method |-> r.method, scheme |-> r.scheme, authority |-> r.authority,
     path |-> r.path, query |-> r.query, body_sha256 |-> Sha256(r.body)]

\* Seeded fault: the path is folded in the descriptor, not in the hash.
FoldedDescriptor(r) ==
    [method    |-> ToAsciiUppercase(r.method),
     scheme    |-> ToAsciiLowercase(r.scheme),
     authority |-> r.authority,
     path      |-> ToAsciiLowercase(r.path),
     query     |-> r.query,
     body_sha256 |-> Sha256(r.body),
     canonical_request_hash |-> CanonicalRequestHash(Parts(r))]

Descriptor(r) ==
    [method    |-> ToAsciiUppercase(r.method),
     scheme    |-> ToAsciiLowercase(r.scheme),
     authority |-> r.authority,
     path      |-> r.path,
     query     |-> r.query,
     body_sha256 |-> Sha256(r.body),
     canonical_request_hash |-> CanonicalRequestHash(Parts(r))]

ForwardedNames(config, r) == {n \in config.forward_headers : Matches(r.headers, n) # {}}

Credentials(config, r) ==
    [n \in {config.token_header} \cup ForwardedNames(config, r) |-> FindHeader(r.headers, n)]

AuthorizeRequest(config, r) ==
    [version |-> WIRE_VERSION, request |-> Descriptor(r),
     context |-> r.context, credentials |-> Credentials(config, r)]

-----------------------------------------------------------------------------
\* Decisions and audit lines

\* Seeded fault: only enforced requests are stripped.
ContinueUnstripped ==
    [kind |-> "Continue", http_status |-> 0, reason_code |-> None, receipt_id |-> None,
     strip_headers |-> IF cfg.strip_token_header /\ cfg.mode = "enforce"
                       THEN {cfg.token_header} ELSE {}]

ContinueDecision ==
    [kind |-> "Continue", http_status |-> 0, reason_code |-> None, receipt_id |-> None,
     strip_headers |-> IF cfg.strip_token_header THEN {cfg.token_header} ELSE {}]

DenyDecision(http_status, code, receipt) ==
    [kind |-> "Deny", http_status |-> http_status, reason_code |-> code,
     receipt_id |-> receipt, strip_headers |-> {}]

Undecided == [DenyDecision(0, None, None) EXCEPT !.kind = "Undecided"]

NewAudit ==
    [decision |-> "deny", enforced |-> cfg.mode = "enforce", would_deny |-> FALSE,
     reason_code |-> None, receipt_id |-> None, degraded |-> FALSE,
     canonical_request_hash |-> None, called |-> FALSE]

Blocked(line, http_status) ==
    [decision |-> DenyDecision(http_status, line.reason_code, line.receipt_id),
     audit    |-> [line EXCEPT !.decision = "deny"]]

Passed(line, would_deny) ==
    [decision |-> ContinueDecision,
     audit    |-> [line EXCEPT !.decision = "allow", !.would_deny = would_deny]]

ResolveLocalDeny(line, code) ==
    LET noted == [line EXCEPT !.reason_code = code]
    IN IF cfg.mode = "enforce" THEN Blocked(noted, 403) ELSE Passed(noted, TRUE)

\* Seeded fault: an observed denial is not recorded as one.
ResolveVerdictDenySilently(line) ==
    IF cfg.mode = "enforce" THEN Blocked(line, 403) ELSE Passed(line, FALSE)

ResolveVerdictDeny(line) ==
    IF cfg.mode = "enforce" THEN Blocked(line, 403) ELSE Passed(line, TRUE)

\* Seeded fault: the line is not marked degraded.
ResolveFailureUnmarked(line, code) ==
    LET noted == [line EXCEPT !.reason_code = code]
    IN IF cfg.mode = "enforce" /\ cfg.fail = "closed"
       THEN Blocked(noted, 503)
       ELSE Passed(noted, cfg.mode = "observe")

ResolveVerifierFailure(line, code) ==
    LET noted == [line EXCEPT !.reason_code = code, !.degraded = TRUE]
    IN IF cfg.mode = "enforce" /\ cfg.fail = "closed"
       THEN Blocked(noted, 503)
       ELSE Passed(noted, cfg.mode = "observe")

-----------------------------------------------------------------------------
\* How a verifier call ends

Failure(kind) == [kind |-> kind, response |-> NoReply]
Failures == {Failure(k) : k \in {"VERIFIER_TIMEOUT", "VERIFIER_UNAVAILABLE",
                                 "VERIFIER_MALFORMED_RESPONSE"}}
NoOutcome == Failure("None")
Local(code) == Failure(code)

\* call_verifier: any status but 200 is a protocol error, never a verdict.
OutcomeOf(response) ==
    IF response.status = 200 THEN [kind |-> "Verdict", response |-> response]
    ELSE Failure("VERIFIER_MALFORMED_RESPONSE")

Resolve(line, o) ==
    LET noted == [line EXCEPT !.reason_code = o.response.reason_code,
                              !.receipt_id = o.response.receipt_id]
    IN IF o.kind # "Verdict" THEN ResolveVerifierFailure(line, o.kind)
       ELSE IF o.response.decision = "allow" THEN Passed(noted, FALSE)
       ELSE ResolveVerdictDeny(noted)

\* Seeded fault: the audit line is emitted, the decision is not.
FinishAuditOnly(s, resolved) ==
    /\ phase' = [phase EXCEPT ![s] = "done"]
    /\ audit' = [audit EXCEPT ![s] = resolved.audit]
    /\ UNCHANGED decision

Finish(s, resolved) ==
    /\ phase' = [phase EXCEPT ![s] = "done"]
    /\ decision' = [decision EXCEPT ![s] = resolved.decision]
    /\ audit' = [audit EXCEPT ![s] = resolved.audit]

-----------------------------------------------------------------------------
\* evaluate up to the await: refuse locally, or send the AuthorizeRequest.
Evaluate(s, r) ==
    /\ phase[s] = "idle"
    /\ egress' = [egress EXCEPT ![s] = r]
    /\ LET refusal == LocalRefusal(cfg, r)
       IN IF refusal # "OK"
          THEN /\ Finish(s, ResolveLocalDeny(NewAudit, refusal))
               /\ outcome' = [outcome EXCEPT ![s] = Local(refusal)]
               /\ UNCHANGED wire
          ELSE /\ phase' = [phase EXCEPT ![s] = "calling"]
               /\ wire' = [wire EXCEPT ![s] = AuthorizeRequest(cfg, r)]
               /\ audit' = [audit EXCEPT ![s] =
                     [NewAudit EXCEPT !.canonical_request_hash = Descriptor(r).canonical_request_hash]]
               /\ UNCHANGED <<outcome, decision>>
    /\ UNCHANGED cfg

\* evaluate after the await.
Conclude(s, o) ==
    /\ phase[s] = "calling"
    /\ outcome' = [outcome EXCEPT ![s] = o]
    /\ Finish(s, Resolve([audit[s] EXCEPT !.called = TRUE], o))
    /\ UNCHANGED <<cfg, egress, wire>>

\* Seeded fault: a client built without a timeout.
NoDeadline(s) == FALSE

\* The client's overall deadline (`timeout_ms`) ends any call.
Expire(s) == Conclude(s, Failure("VERIFIER_TIMEOUT"))

-----------------------------------------------------------------------------
MiddlewareInit ==
    /\ cfg \in {Normalized(raw) : raw \in RawConfigs}
    /\ phase = [s \in Slots |-> "idle"]
    /\ egress = [s \in Slots |-> None]
    /\ wire = [s \in Slots |-> NoRequest]
    /\ outcome = [s \in Slots |-> NoOutcome]
    /\ decision = [s \in Slots |-> Undecided]
    /\ audit = [s \in Slots |-> NewAudit]

MiddlewareNext ==
    \E s \in Slots :
        \/ \E r \in EgressRequests : Evaluate(s, r)
        \/ \E v \in Verdicts : Conclude(s, OutcomeOf(v))
        \/ \E f \in Failures : Conclude(s, f)

MiddlewareFairness == \A s \in Slots : WF_mvars(Expire(s))

MiddlewareSafety == MiddlewareInit /\ [][MiddlewareNext]_mvars
MiddlewareSpec == MiddlewareSafety /\ MiddlewareFairness

-----------------------------------------------------------------------------
\* The host, which is not in this repository, applies the decision: it drops
\* every instance of the strip headers, in any case, before egress.
ForwardedHeaders(s) ==
    {i \in DOMAIN egress[s].headers :
        \A n \in decision[s].strip_headers : ~EqIgnoreAsciiCase(egress[s].headers[i][1], n)}

Done(s) == phase[s] = "done"
Continued(s) == Done(s) /\ decision[s].kind = "Continue"
Asked(s) == wire[s] # NoRequest
VerifierAllowed(o) == o.kind = "Verdict" /\ o.response.decision = "allow"
Failed(o) == o \in Failures

(***************************************************************************)
(* Types.                                                                  *)
(***************************************************************************)
MiddlewareTypeOK ==
    /\ cfg \in {Normalized(raw) : raw \in RawConfigs}
    /\ phase \in [Slots -> {"idle", "calling", "done"}]
    /\ egress \in [Slots -> EgressRequests \cup {None}]
    /\ \A s \in Slots : Asked(s) =>
          /\ egress[s] # None
          /\ LocalRefusal(cfg, egress[s]) = "OK"
          /\ wire[s] = AuthorizeRequest(cfg, egress[s])
    /\ \A s \in Slots : decision[s].kind \in IF Done(s) THEN {"Continue", "Deny"} ELSE {"Undecided"}
    /\ \A s \in Slots : phase[s] = "calling" => Asked(s)

\* What audit line `a` says of a request that was sent as `w` and decided `d`
\* after outcome `o`.
Truthful(a, d, o, w) ==
    /\ a.decision = IF d.kind = "Continue" THEN "allow" ELSE "deny"
    /\ a.decision = "allow" /\ a.enforced =>
          IF a.degraded THEN cfg.fail = "open" ELSE VerifierAllowed(o)
    /\ VerifierAllowed(o) => d.kind = "Continue"
    /\ ~a.enforced => d.kind = "Continue"
    /\ a.degraded <=> Failed(o)
    /\ d.kind = "Deny" =>
          /\ d.http_status = IF a.degraded THEN 503 ELSE 403
          /\ d.reason_code = a.reason_code /\ d.receipt_id = a.receipt_id
    /\ a.called <=> w # NoRequest
    /\ a.canonical_request_hash = IF w # NoRequest THEN w.request.canonical_request_hash ELSE None

(***************************************************************************)
(* lib.rs:399-456.  What the audit line of a finished request says is what *)
(* was done, and what happened to cause it: an enforced, undegraded allow  *)
(* was allowed by the verifier; an enforced degraded allow needs the open  *)
(* fail policy; neither observe mode nor an allow ever blocks; a denial    *)
(* blames the verifier's absence (503) exactly when marked degraded.       *)
(***************************************************************************)
AuditTellsTheTruth ==
    \A s \in Slots : Done(s) => Truthful(audit[s], decision[s], outcome[s], wire[s])

\* What the same request, ending the same way, meets when enforced.
WouldBlock(s) ==
    IF Failed(outcome[s]) THEN cfg.fail = "closed" ELSE ~VerifierAllowed(outcome[s])

(***************************************************************************)
(* lib.rs:138.  In observe mode `would_deny` is set on exactly the         *)
(* requests that enforcing would have blocked, whenever the verifier (or   *)
(* the local check) decided.                                               *)
(***************************************************************************)
ObserveMirrorsVerdicts ==
    \A s \in Slots :
        Done(s) /\ cfg.mode = "observe" /\ ~Failed(outcome[s]) => (audit[s].would_deny <=> WouldBlock(s))

(***************************************************************************)
(* lib.rs:138: "Observe mode only: the verifier (or local check) would     *)
(* have denied."  The same, also when no verdict arrived and the fail      *)
(* policy decides what enforcing would do.                                 *)
(***************************************************************************)
WouldDenyMeansEnforcingDenies ==
    \A s \in Slots : Done(s) /\ audit[s].would_deny => WouldBlock(s)

(***************************************************************************)
(* lib.rs:216-237, 264-299 and 484-498.  The credential the verifier is    *)
(* asked about is the only one the request carries, under any spelling of  *)
(* the header, so none but it can egress; and no other header is disclosed *)
(* than the configured ones.                                               *)
(***************************************************************************)
CredentialIsUnambiguous ==
    \A s \in Slots : Asked(s) =>
        /\ \A i \in DOMAIN egress[s].headers :
              EqIgnoreAsciiCase(egress[s].headers[i][1], cfg.token_header) =>
                 egress[s].headers[i][2] = wire[s].credentials[cfg.token_header]
        /\ Cardinality(Matches(egress[s].headers, cfg.token_header)) = 1
        /\ DOMAIN wire[s].credentials \subseteq {cfg.token_header} \cup cfg.forward_headers

(***************************************************************************)
(* lib.rs:101-104 and 360-367.  With stripping on, no request that goes    *)
(* out (allowed, observed, or passed by the fail policy) still carries the *)
(* credential, however its header was spelled or repeated.                 *)
(***************************************************************************)
CredentialStaysHome ==
    \A s \in Slots : Continued(s) /\ cfg.strip_token_header =>
        \A i \in ForwardedHeaders(s) :
            ~EqIgnoreAsciiCase(egress[s].headers[i][1], cfg.token_header)

(***************************************************************************)
(* lib.rs:178 and 336-358.  A request is decided even if the verifier      *)
(* never answers: the client deadline ends the only wait.                  *)
(***************************************************************************)
EveryRequestDecided ==
    \A s \in Slots : phase[s] = "calling" ~> Done(s)
=============================================================================
