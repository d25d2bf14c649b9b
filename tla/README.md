# Verification of the ext-authz middleware

TLA+ models, TLC runs and TLAPS proofs for the OpenShell *ext-authz* reference
implementation: an egress middleware that asks an external verifier, once per outbound
request, whether the bearer of a single-use token may send exactly these bytes.

Source paths below are relative to `src/crates/`.

## 1. The system

| Part | Source | State | Operations |
|---|---|---|---|
| Canonical request hash `crh_v1` | `ext-authz-core/src/hash.rs` | none | `normalize_authority`, `put`, `canonical_request_hash` |
| Wire contract | `ext-authz-core/src/types.rs` | none | the `AuthorizeRequest`, `AuthorizeResponse` and reason codes |
| Configuration | `ext-authz-core/src/config.rs` | mode, fail policy, header names, caps; immutable after load | `normalized` |
| Demo token | `ext-authz-demo/src/token.rs` | none | `mint`, `verify` |
| Reference verifier | `ext-authz-demo/src/verifier.rs` | `seen_jti`, `revoked_agents`, each behind a mutex, both in memory | `authorize`, `revoke` |
| Egress middleware | `ext-authz-middleware/src/lib.rs` | per request only: the audit line under construction | `evaluate` (one await, in `call_verifier`) |
| Demo driver | `ext-authz-demo/src/driver.rs` | the results so far; one expiry for all its tokens | `run_scenarios` (twelve calls through the middleware), `eval_one`, `revoke_agent` |
| Demo executable | `ext-authz-demo/src/main.rs` | the address of the verifier and of a port that was closed | `run_demo`, `run_verifier`, rendering |

How they interact.  The proxy calls `evaluate` per outbound request, many at a time.
`evaluate` refuses locally (token missing, duplicated, body too large) or hashes the
request, builds a descriptor and makes one HTTP call under a client deadline.  The verifier
runs one handler per call, concurrently; handlers meet only in the two mutex-guarded sets.
The answer, or its absence, is resolved through `mode` (enforce, observe) and `fail`
(closed, open) into a decision and one audit line.  An operator revokes agents at the
verifier at any time.  The demo driver plays the proxy and the operator: it starts a verifier
in its own process, mints tokens, sends twelve requests through middlewares one after the
other, revokes an agent between two of them, and compares each reason code with the one it
expects.

What is hard here, and where (the full list, line by line, is `hazards` in `PROJECT.json`):

* concurrency: two handlers with one nonce; a revocation between two checks of a handler;
* ordering: the nonce must be spent last, or a denial burns it;
* time: the expiry is checked early, against a wall clock that may be stepped;
* lost and late messages: an allow that never reaches the middleware, a call processed
  after its client gave up, a retry with the same token;
* crashes: both sets are lost, running handlers die;
* the suite: a revoke call without a deadline whose result is dropped, a first use whose
  result is dropped, one expiry for all scenarios;
* the policy matrix: mode x fail x (verdict, timeout, refusal, 413, garbage);
* text at its boundaries: header spelling, default ports, path prefixes, length prefixes.

## 2. The modules

```
Crh -- Wire -- Token -- Verifier -----+-- ExtAuthz -- Driver
         |                 |          |      |  |       |  |
         |                 |          |      |  |       |  +-- DriverProofs
         |                 |          |      |  |       +----- MCDriver
         |                 |          |      |  +-- ExtAuthzProofs -- ExtAuthzRefinement
         |                 |          |      +----- MCExtAuthz
         |                 |          |      +----- EgressGate   (the abstract gate, by INSTANCE)
         |                 +-- VerifierProofs -- VerifierRefinement
         |                 +-- MCVerifier
         |                 +-- OneShot   (the abstract authorizer, by INSTANCE)
         +---- Middleware ------------+
                    |
                    +-- MCMiddleware
                    +-- MiddlewareProofs

MCText extends Token and VerifierUrl; CrhProofs extends Crh; TextProofs extends both;
ExtAuthzProofs extends ExtAuthz and the three component proofs (CrhProofs, VerifierProofs, MiddlewareProofs); DriverProofs extends
Driver and ExtAuthzProofs.
```

**Crh** computes what `hash.rs` computes: text is a sequence of ASCII codes, fields are
folded, the default port is stripped under the code's conditions, each field is prefixed
with its length modulo `LenRange` (2^32 in the code, the four prefix bytes being one
symbol).  SHA-256 is taken to be injective: the digest is a one-symbol sequence that holds
the preimage, so it can be hashed and compared again, as `body_sha256` is.

**Wire** and **Token** hold the records the two sides exchange, the config normalisation,
`mint`/`verify` (HMAC unforgeable: a MAC is the pair of key and bytes) and the two scope
tests.  `None` is an absent optional, `NotHex` a hash field that is not lowercase hex.

**Verifier** is the server.  `authorize` never awaits, but other handlers run between the
points where it touches something shared, so it is cut exactly there:

| Action | Code | Shared state touched |
|---|---|---|
| `Receive` | body limit, dispatch | none |
| `CheckToken` | lines 132-183: token, signature, version, expiry, hash, agent | the wall clock |
| `CheckPrincipal` | lines 184-227: revocation, on-behalf-of, workload, scope, binding | `revoked_agents` |
| `Consume` | lines 229-252: `HashSet::insert` under the lock, then allow | `seen_jti` |
| `Revoke` | `POST /v1/revoke/:agent_id` | `revoked_agents` |
| `ClockStep`, `Crash`, `Restart` | environment, `run_verifier` | everything |

Every early return of the handler is a value of `TokenRefusal` or `PrincipalRefusal`, in the
code's order.  A clock reading goes through `NowMs`, which maps a time before the epoch to 0
as `unwrap_or(0)` does.  `arrival` is a history variable: the epoch (number of restarts),
the revoked set and the earliest clock reading of each call.  Every call is delivered at
most once and answered at most once.

**OneShot** is what a per-action authorizer promises, with none of the how: ask, grant,
refuse, bar, forget.  `Promise` in `Verifier` is the refinement mapping: a handler is
*pending* while it runs, `seen_jti` is *spent*, `revoked_agents` is *barred*, and what was
barred when the call arrived comes from `arrival`.

**Middleware** gives every request a slot with two actions, the code before the await
(`Evaluate`) and after it (`Conclude`).  Headers keep their order and spelling, so that
`find_header` (first match) and `find_token_header` (none, one, many) are what they are in
the code.  The four `resolve_*` functions are operators that return the decision and the
audit line together.  `called` in the audit line stands for the presence of
`verifier_latency_ms`.

**ExtAuthz** joins both: a slot is also the verifier call it makes.  `Deliver` may happen
after the client gave up, `Answer` carries the verifier's response, `Break` ends the call
without it at any time (deadline, refused or reset connection, truncated response).
`submitted` is a history variable, the verifier's epoch and revoked set when a request
reached the hook.  A sandbox may send the same token in several requests; that is the retry.

**EgressGate** is what the two promise together: a host holds each request until it is
released, waived or stopped; a release needs a permit; a nonce buys one permit, possibly too
late for its host; an agent barred before the request was held gets none; only a gate that is
not strict waives; a restart forgets.  `Gate` in `ExtAuthz` is the refinement mapping:
*released* is an audit line that claims an enforced, undegraded allow, *strict* is `enforce`
with `closed`, a permit is a grant of the verifier, and what a request knows to be barred is
what was revoked when it reached the hook, for as long as that verifier lives.

**VerifierUrl** is what a middleware warns about when it is built: a URL is a sequence of
delimiters and words, and the host is found by the code's three splits in their order.  The
scheme is compared as written, as `strip_prefix` does.

**Driver** is the demo's suite over `ExtAuthz`: slot *i* is the *i*-th call of
`run_scenarios`, with the token, body, agent, sandbox and expected code that the source gives
it, and `Script` is their table.  `Run` is `eval_one` up to its await, `Serve` whatever the
awaited call makes the verifier and the middleware do, `FailCall` its loss; `RevokeSend`,
`RevokeArrive`, `RevokeReturn` and `RevokeFail` are `revoke_agent`, whose POST may reach the
verifier although the client saw it fail.  `called_at` and `stalled` are history variables
that account for the time spent inside and outside of calls.  Three things are assumed of the
environment, and stated in the module: the wall clock is not stepped back during the suite;
the process is not suspended during a call, so that no call outlives its deadline; nobody
takes the port that was closed (main.rs:85).  The verifier runs in the same process and
cannot crash alone.

Each specification has two names: `VerifierSafety`, `MiddlewareSafety`, `Safety` and
`DriverSafety` are the initial states and the steps, `VerifierSpec`, `MiddlewareSpec`, `Spec`
and `DriverSpec` add the fairness.
The runs with a liveness property check the second, the theorems are about the first, so that
they assume less.

A definition named as a *seeded fault* is not part of the model: it is the definition next
to it with one plausible mistake, and exists to show that a property notices.

## 3. The runs

Each passing run is exhaustive for its instance.

| Run | Question | Instance |
|---|---|---|
| `MCText` | Does `crh_v1` identify exactly the action, no more and no less?  Is normalising idempotent?  Is prefix matching segment-wise?  Is a middleware built without a warning exactly when its verifier link and its stripping are safe? | all pairs of requests over 3 methods, 3 schemes, 9 authorities (ports, IPv6, empty host), 3 paths, 2 queries, 2 bodies; all strings over `/`, `a`, `b` up to length 4 as path and as prefix; URLs composed of 3 schemes, 5 userinfos, 8 hosts, 2 ports, 4 paths |
| `MCVerifierChecks` | Does each check of `authorize` do its part? | one call, 15 requests: two honest ones and one departure for each check; clock at -1, 1, 3 ms around expiries 0 and 2; one restart |
| `MCVerifierRivals` | What can interleaved handlers do to each other? | 3 calls sharing 2 nonces, revocation, clock, one crash between any two steps; calls are symmetric |
| `MCVerifierPromise` | Does the server implement `OneShot`, and does every handler settle? | 2 calls, all 15 requests, one restart, clock fixed before both expiries |
| `MCMiddleware` | Are decision and audit line right in every cell of the policy matrix? | 16 configurations' worth of mode, fail, strip and forward list; 6 header lists x 3 bodies; 5 responses and 3 failures |
| `MCMiddlewareWouldDeny` | Is `would_deny` what its comment says? No: see section 6 | as above |
| `MCExtAuthzSingle` | Is what goes out what was authorized, and is a request decided whatever the verifier does? | 1 request of 9, four configurations, moving clock, one restart |
| `MCExtAuthzPair` | What do retries, losses, revocations and a restart do end to end, and do the two implement `EgressGate`? | 2 requests using 2 tokens, four configurations, one restart; slots are symmetric |
| `MCExtAuthzOtherHeader` | Is every request refused when the two sides name different headers? No: see section 6 | 1 request with the token under another header, alone and next to a forwarded default one |
| `MCDriverFaults` | Is the suite flaky, and does a pass mean what it says? | all 12 calls and the revoke call, one of which may fail; clock at the start and after the expiry |
| `MCDriverDeadlines` | Can the calls use up the minute of the tokens?  Does the suite end? | calls 1, 4 and 12 and the revoke call, all of which may fail; clock at the start, at and after the expiry |
| `MCDriverFirstUse` | Does a suite that passes show its first use allowed? No: see section 6 | all 12 calls, one failure |

Why these bounds are enough to be interesting.  A race on a nonce needs two handlers; the
third lets a race be lost to a call that is itself granted only after a crash.  One restart
gives two epochs, which is what "since the last restart" quantifies over.  The clock values
lie before the epoch, between the two expiries and after both; `LenRange` is 16, above every field
length of the system models, and 6 in `MCText`, where some authorities do not fit the
prefix: `FieldsFit` excludes those, which is the precondition hash.rs:95 states.  The body
limit of the verifier is a few symbols instead of 64 KiB, and one request exceeds it.

In `MCDriverFaults` one failure, at any place and of any kind, is enough to meet every
dependence between scenarios, as each depends on at most one other call; the second reading is
one at which every token of the suite has expired.  `MCDriverDeadlines` needs several failures
(each uses up a deadline) and so fewer calls.

Deadlock checking is off only for the middleware, the composition and the suite, which stop
when every slot is decided and (in the composition) the world is exhausted.

**Fairness.**  `VerifierFairness` is weak fairness of each handler's own steps: tokio polls
a runnable task, and the handler contains no await, so nothing it waits for can be missing.
Nothing is assumed of `Receive`, `Revoke`, the clock or crashes.  `MiddlewareFairness` and
`Fairness` of the composition are weak fairness of `Expire` alone, the overall timeout that
`reqwest` is built with at lib.rs:178: the verifier is never assumed to answer.
`DriverFairness` adds that the driver's task goes on when it can; its revoke call has no
timeout, so nothing is assumed to end it.

## 4. The properties

Verifier: `SingleUse`, `NoncesAreGrants` (a denial never spends a nonce, a grant always
does), `ReplayHasWinner` (TOKEN_REPLAYED is never spurious), `RevocationIsHonoured`,
`GrantWithinLifetime`, `GrantBindsDescriptor`, `EveryCallSettles`, `KeepsPromise`.
Middleware: `AuditTellsTheTruth`, `ObserveMirrorsVerdicts`, `CredentialIsUnambiguous`,
`CredentialStaysHome`, `EveryRequestDecided`.  Together: `AtMostOnceEgress`,
`EgressIsAuthorized`, `DescriptorsAgree`, `RevokedStaysIn`, `SpentNonceExplained`, `KeepsGate`.  Suite:
`SurprisesExplained`, `PassedMeansShown`, `ExpiryNeedsStall`, `OnlyRevokeHangs`.  Pure
functions: `CrhIdentifiesAction`, `NormalizeIdempotent`, `PathScopeIsSegmentwise`,
`QuietMeansSafe`.  Each is
stated in words above its definition, with the lines it is about, and is violated by at least
one seeded fault (`mutants` in `PROJECT.json`).

Two of them hold in a weaker form than one might wish, and say so:

* A token is checked for expiry before it is consumed.  It may be consumed after it expired,
  and a clock stepped back revives it; the guarantee is that some reading during the call
  was not after the expiry.
* Single use and revocation hold between two restarts of the verifier, because both sets
  are in memory (verifier.rs:41-43 says so).  `epoch` makes that explicit.

## 5. What is proved

For any set of calls, requests, headers, configurations, agents and clock readings, and any
number of restarts:

| Module | Theorem | Property |
|---|---|---|
| `CrhProofs` | `HashIgnoresCase` | the hash does not see the case of method and scheme |
| | `HashIdentifiesFields` | one hash, the same six fields |
| | `NormalizeTwice` | a normalised authority is a fixed point |
| `TextProofs` | `CrhIdentifiesActionHolds` | `CrhIdentifiesAction` for requests over text of any length |
| | `NormalizeIdempotentHolds` | `NormalizeIdempotent` for an authority of any length |
| | `PathScopeIsSegmentwiseHolds` | `PathScopeIsSegmentwise` for paths of any length |
| | `QuietMeansSafeHolds` | `QuietMeansSafe` for URLs of any length over any words |
| `VerifierProofs` | `TypeCorrect`, `HandlersCorrect` | `VerifierTypeOK`, `HandlerInv` |
| | `NoncesAreGrantsHolds`, `SingleUseHolds`, `ReplayHasWinnerHolds` | the three nonce properties |
| | `RevocationIsHonouredHolds` | `RevocationIsHonoured` |
| | `GrantWithinLifetimeHolds`, `GrantBindsDescriptorHolds`, `GrantsAreWarrantedHolds` | what a grant rests on |
| `VerifierRefinement` | `VerifierKeepsPromise` | `KeepsPromise`: the server refines `OneShot` |
| `MiddlewareProofs` | `MiddlewareCorrect`, `MiddlewareTypeCorrect` | `MiddlewareInv`, `MiddlewareTypeOK` |
| | `AuditTellsTheTruthHolds`, `ObserveMirrorsVerdictsHolds` | the audit line |
| | `CredentialIsUnambiguousHolds`, `CredentialStaysHomeHolds` | the credential, on its way to the verifier and out |
| `ExtAuthzProofs` | `ComponentsInside` | the composition implies both component specifications |
| | `LinkCorrect` | `LinkInv`, what links the two |
| | `AtMostOnceEgressHolds`, `RevokedStaysInHolds`, `SpentNonceExplainedHolds`, `EgressIsAuthorizedHolds`, `DescriptorsAgreeHolds` | all five safety properties of the composition |
| `ExtAuthzRefinement` | `EgressKeepsGate` | `KeepsGate`: middleware and verifier refine `EgressGate` |
| `DriverProofs` | `SuiteIsComposition` | the suite implies the composition's specification |
| | `PassedMeansShownHolds` | `PassedMeansShown` |
| | `ExpiryNeedsStallHolds` | `ExpiryNeedsStall` |
| | `SurprisesExplainedHolds` | `SurprisesExplained` |

Every invariant that a passing run checks is proved, and so is every property that is not liveness.

*Assumptions.*  On the verifier: `ClocksAssumption` (readings are integers),
`MaxRestartsAssumption`, `ExpiryAssumption` (expiries are integers: `i64` in the code),
`NoneAssumption` (the absent value is none of the reason codes), `LenRangeAssumption`.  On the
middleware: `ConfigAssumption` (`mode` and `fail` are the two enums of config.rs) and
`RequestAssumption` (headers are a sequence; method and scheme are text).  On the composition:
`OneCallPerRequest`, `PeersAreMiddlewares` (whatever a middleware of these configurations sends
is a request the verifier may receive), `RepliesAreVerdicts` (the converse) and `DigestsAreHex`
(a digest is never unparsable).  On the suite: `ScriptAssumption` (its scripted requests are
requests the middleware may see; a suite that replays a token also makes its first use),
`AbsentAssumption` (the absent value is neither a text nor a digest of the script) and
`DemoAssumption` (the demo's one configuration).  On the text functions: `LoopbackAssumption`
(a colon is no IPv4 address).  TLC evaluates all of them. Unforgeability and injectivity are in
the definitions of `Token` and `Crh`.

The theorems of `TextProofs` have hypotheses of their own, which name the data they are for.  The texts of
a request and of a path are sequences of codes (`TextRequests`); the parts of a URL are
sequences over an alphabet that contains the delimiters, cut where the URL syntax cuts them
(`SpelledSetups`): a userinfo ends in its `@`, a host is a name, an address in its
brackets or one that lacks them, a port begins with its colon and a path with its slash.  A
bracketed host has a colon, as every IPv6 literal does: of `[localhost]`, which is none, the
code reads `localhost`.

*Argument, canonical hash.*  A field put before any text can be read off it again (`Framed`):
its length is the first symbol, provided the length prefix did not wrap, and the length says
where the rest begins (`FramesAgree`).  Six applications take the preimage apart
(`ChainReadsOff`); that the code appends from the left and a decoder peels from the left is
associativity (`Reassociate`).  A text that ends in a default port contains a colon and does
not end in a bracket, so it is not a well-formed host (`DefaultPortIsNoHost`): what was
stripped once is not stripped again.

*Argument, text.*  `CrhIdentifiesAction` needs both directions.  One hash means equal hashed
fields (`HashIdentifiesFields`), and equal normalised authorities are two spellings of one
endpoint, because normalising leads from each spelling to the other (`NormalizedIsSpelled`,
which takes a suffix off and puts it back); conversely the two spellings normalise alike
(`EndpointsAgree`).  For the path scope, the three ways to be in scope are one comparison by
position (`ScopeByPosition`).  Where prefix and path agree, the same segments start under the
same numbers (`SameStarts`), which gives one direction; for the other, take the first position
where they part: the segment of the prefix it lies in is found in the path under its number,
hence in its place (`SegmentInPlace`), so they can only part behind the path's last segment,
and then the path is short of one (`SegmentsCover`).  For the URL, each split is one of two
lemmas: cutting at a delimiter that comes next gives back what was before it, and reading from
the last one what is behind it (`CutBefore`, `ReadAfter`); so the host is read whatever
surrounds it (`HostIsRead`).

*Argument, verifier.*  None of the properties is inductive: each speaks of granted calls only,
and says nothing of a handler that is about to grant.  `HandlerInv` supplies that.  Its
`HandlersAreCurrent` says that a running handler belongs to this process and knows no more
revocations, and no earlier clock, than there are; `ChecksPassed` says what each passed check
left behind for the grant to rely on (unexpired at some reading, the hash recomputed, the agent
the caller's and not revoked at arrival, the scope and the binding compared); `AnswersAreLast`
says that no reply exists before the answer.  `HandlerInv` is preserved by every action on its
own.  The nonce invariant is then proved on top of it: with `NoncesAreGrants` in the state
before, `Consume` finds the nonce unspent only if no call of this epoch was granted it, which
gives `SingleUse`, and finds it spent only if one was, which gives `ReplayHasWinner`.  The
refinement uses `HandlerInv` for one fact TLC's small instance hides: that the agent's
revocation was looked up no earlier than the call arrived, so `arrival.revoked` is a subset of
what the lookup saw.

*Argument, middleware.*  `Right` and `Reported` state what a resolution must say of the outcome
it resolves; each of the four `resolve_*` operators satisfies them for every mode and policy.
What makes the invariant inductive is `InFlight`: across the await a slot still carries the
audit line that was started for the request it sent, and no decision.

*Argument, composition.*  Every step of `Next` is a step of `VerifierNext` or leaves the
verifier alone, and likewise for the middleware, so each component's theorems hold inside
(`ComponentsInside`).  What neither side knows is `Linked` (the handler works on what the slot
sent; a verdict is the reply of that handler) and `Remembered` (the revoked set a request met
at the hook is contained in the one its call met at the verifier, within one epoch).  With them
`CleanAllowIsGranted` turns an undegraded enforced allow in the audit log into a grant of the
verifier, and the five properties follow from the verifier's. `EgressIsAuthorized` and
`DescriptorsAgree` further need that the descriptor's folded method and scheme hash and match
as the raw ones do, which is `CrhProofs`.

*Argument, gate.*  A permit is given in one step, `Consume`; that its agent was not barred when
the request was held needs `Remembered` to carry the revoked set from the hook to the handler.
A request that goes out of a strict gate does so by a clean allow (`OnlyCleanAllowPasses`, from
`Truthful`), and by `Linked` a clean allow finds its permit given.  One more invariant,
`DownForgets`, says that a process that is down remembers no revocation.

*Argument, suite.*  `SuiteInv` says what the order of the calls leaves behind: each slot's
request is the scripted one (`FromScript`), calls before the current one are done and later
ones idle (`InOrder`), the verifier never sees the call to the closed port (`ClosedPort`), what
AGENT_REVOKED and TOKEN_EXPIRED were based on stays true (`StillTrue`), and the clock is at
most the start, plus a deadline for each call made, plus what was lost outside of calls
(`TimeAccounted`).  With the reason code a scenario expects, the verifier's own theorems then
give the rest: AGENT_REVOKED is only said of an agent in the set, TOKEN_REPLAYED points at
another grant of the nonce (`ReplayHasWinner`), and the script gives that nonce to one other
call.  `ExpiryNeedsStall` further follows a TOKEN_EXPIRED back to the reading it was decided
on.

`SurprisesExplained` asks for the converse: from the row of the script to the verdict.  The
decision tables of `authorize` are first evaluated for each row (`ScriptTable` gives
its values).  `ScriptInv` then says, scenario by scenario, how far a handler can get and what it
can have answered (`AsScripted`): what the row expects, or an expiry of a token that was not
minted expired, or the other outcome of the nonce check, or what a lost revocation lets
through.  That needs the suite to run against one verifier process (`OneProcess`), the
revocation to precede its scenario unless it was lost (`RevokedInOrder`), no request to come
from the future (`SentBefore`) and the local refusals to be the scripted ones
(`LocalAsScripted`).  What remains is the two uses of one token: the first use is refused as a
replay only if its caller had given up, and as expired only then or if the replay can never be
granted (`FirstIsFirst`, which rests on `ReplayHasWinner` and on both uses carrying one nonce
and one expiry, `TokensAsScripted`).  An expiry is charged to the time spent by
`TimeAccounted`.

*Only model-checked.*  Liveness (`EveryCallSettles`, `EveryRequestDecided`, `OnlyRevokeHangs`),
which is out of the prover's reach, and the three properties of section 6, which are false.

## 6. Findings

`MCMiddlewareWouldDeny` refutes `WouldDenyMeansEnforcingDenies`.  lib.rs:138 documents
`would_deny` as "Observe mode only: the verifier (or local check) would have denied".
`resolve_verifier_failure` (lib.rs:452) sets it on every verifier failure in observe mode,
including under `fail: open`, where nobody denied and enforcing would have let the request
through.  An operator who reads `would_deny` during a rollout overestimates the blocking of
a fail-open deployment by its outage rate.  `ObserveMirrorsVerdicts` is the part of the
promise that does hold: whenever a verdict or a local check decided.

`MCExtAuthzOtherHeader` refutes `OtherHeaderIsMalformed`.  verifier.rs:127-131 says of a
deployment that overrides the middleware's `token_header` without configuring the verifier
that "every request arrives with no recognized credential and is denied `TOKEN_MALFORMED`".
That is so unless `forward_headers` names the default header (lib.rs:290-296), as it may
while a deployment changes from one name to the other: then the verifier finds a credential
under the name it knows and decides on it.  This is why `EgressIsAuthorized` is stated for
deployments in which both sides name the same header.

`MCDriverFirstUse` refutes `FirstUseAllowed`.  driver.rs:327 notes "first: allowed" of the
first use of the replayed token, and main.rs:6-7 says that every scenario's reason code is
asserted; but that result is dropped.  When the response to the first use is lost, the
middleware denies it with 503, the verifier has spent the nonce all the same, the replay is
refused as scripted, and every recorded scenario passes.  What a pass does show, that the
verifier granted the first use, is `PassedMeansShown`.

## 7. What is not modelled

* Message texts, evidence, timestamps and latency values of the audit line, `body_len`,
  `agent_class`, `endpoint_rule` and the other advisory context fields: no decision reads them.
* JSON and base64 framing beyond "decodes or not"; HTTP below the level of a response, a
  status and a failure; TLS.
* The proxy itself.  `ForwardedHeaders` is the one thing modelled of it, from the contract at
  lib.rs:100-105, and is marked external.
* Narratives and previews of the demo driver; argument parsing, rendering and story mode in
  `main.rs`.

## 8. Plan

In order; all are done.

1. `Crh`, `Token`: pure functions against reference definitions.
2. `Verifier` with interleavings, clock and crashes; `OneShot`; its runs.
3. `VerifierProofs`, `VerifierRefinement`.
4. `Middleware` over every policy.
5. `ExtAuthz`, the composition with lost and late calls.
6. `MiddlewareProofs`: the audit line and the credential.
7. `ExtAuthzProofs`: the component theorems carried over, and the five end-to-end properties.
8. `Driver`: the scenario script over `ExtAuthz`, with its ignored revoke error and its shared
   expiry: which of the expected verdicts hold whenever nothing times out, and what a lost
   revoke changes.
9. `EgressGate`, which `ExtAuthz` implements, and its refinement proof.
10. More of `CrhProofs`: idempotence of `NormalizeAuthority`, and injectivity of the
    length-prefixed encoding field by field.
11. `VerifierUrl`: the construction-time warnings.
12. `SurprisesExplained` as a theorem of the suite.
13. `TextProofs`: the text functions against their references for text of any length.
