------------------------------- MODULE Driver -------------------------------
(***************************************************************************)
(* The demo's scenario suite (ext-authz-demo/src/driver.rs), run by        *)
(* run_demo (main.rs) against a verifier in the same process.              *)
(*                                                                         *)
(* The suite is one async function: every HTTP call is awaited before the  *)
(* next scenario starts.  What it does not control is how its calls end,   *)
(* when a call that it gave up is processed, and how much time passes.     *)
(*                                                                         *)
(* Of the environment it is assumed that the wall clock is not stepped     *)
(* back, and that the process is not suspended during a call, so that a    *)
(* call does not outlive its deadline.  The verifier cannot crash alone.   *)
(***************************************************************************)
EXTENDS ExtAuthz

CONSTANTS
    Start,        \* the wall clock when the suite starts
    MaxFaults     \* bound on the calls that fail

VARIABLES
    revoke_call,  \* the POST of revoke_agent
    called_at,    \* history: the wall clock when the latest call was made
    stalled       \* history: time that passed outside of calls

dvars == <<revoke_call, called_at, stalled>>
allvars == <<vars, dvars>>

-----------------------------------------------------------------------------
\* The script.  Texts are shortened; only their prefixes are compared.

AGENT == "agt-7f3a"
INTRUDER == "agt-intruder"
REVOKED == "agt-revoked"
POST == <<80>>
AUTHORITY == <<103>>
ACME == <<SLASH, 97, SLASH>>
PATH == <<SLASH, 97, SLASH, 119>>
BODY == <<1>>
TIMEOUT_MS == 1000
LIFETIME_MS == 60000

DemoConfig ==
    [mode |-> "enforce", fail |-> "closed", token_header |-> DEFAULT_TOKEN_HEADER,
     forward_headers |-> {<<105>>}, strip_token_header |-> TRUE, max_body_bytes |-> 1048576]

Scenario ==
    [jti |-> "happy", minted_for |-> AGENT, acting |-> AGENT, selector |-> None,
     sandbox |-> <<114, 49>>, path |-> PATH, body |-> BODY, expired |-> FALSE,
     token_present |-> TRUE, port_open |-> TRUE, expect |-> "OK"]

\* The replay scenario makes two calls; the result of the first is dropped.
Script == <<
    Scenario,
    [Scenario EXCEPT !.jti = "respawn", !.sandbox = <<114, 50>>],
    [Scenario EXCEPT !.jti = "wrongagent", !.acting = INTRUDER, !.expect = "AGENT_MISMATCH"],
    [Scenario EXCEPT !.jti = "revoked", !.minted_for = REVOKED, !.acting = REVOKED,
                     !.expect = "AGENT_REVOKED"],
    [Scenario EXCEPT !.jti = "workload", !.selector = <<112>>, !.sandbox = <<100>>,
                     !.expect = "WORKLOAD_MISMATCH"],
    [Scenario EXCEPT !.jti = "replay"],
    [Scenario EXCEPT !.jti = "replay", !.expect = "TOKEN_REPLAYED"],
    [Scenario EXCEPT !.jti = "scope", !.path = <<SLASH, 101>>, !.expect = "INTENT_MISMATCH"],
    [Scenario EXCEPT !.jti = "intent", !.body = <<2>>, !.expect = "INTENT_MISMATCH"],
    [Scenario EXCEPT !.jti = "exp", !.expired = TRUE, !.expect = "TOKEN_EXPIRED"],
    [Scenario EXCEPT !.jti = "none", !.token_present = FALSE, !.expect = "TOKEN_MISSING"],
    [Scenario EXCEPT !.jti = "down", !.port_open = FALSE, !.expect = "VERIFIER_UNAVAILABLE"]>>

RevokedUse == 4
FirstUse == 6
Replay == 7

\* One expiry for the whole suite; only the expired token has its own.
ExpiryAt(i, now) ==
    IF Script[i].expired THEN now - 1000 ELSE NowMs(Start) + LIFETIME_MS

\* The request as minted: what the token is bound to.
Minted(i) ==
    [method |-> POST, scheme |-> HTTPS, authority |-> AUTHORITY, path |-> Script[i].path,
     query |-> <<>>, body_sha256 |-> Sha256(BODY)]

TokenFor(i, exp_unix_ms) ==
    Mint([jti |-> Script[i].jti, agent_id |-> Script[i].minted_for, on_behalf_of |-> None,
          workload_selector |-> Script[i].selector,
          scope |-> [method |-> POST, authority |-> AUTHORITY, path_prefix |-> ACME],
          crh |-> CanonicalRequestHash(Minted(i)), exp_unix_ms |-> exp_unix_ms],
         VerifierKey)

Hdr(i, token) ==
    <<<<<<99>>, None>>>> \o IF Script[i].token_present THEN <<<<<<88, 45, 84>>, token>>>> ELSE <<>>

\* The request as sent.
RequestAt(i, now) ==
    [method |-> POST, scheme |-> HTTPS, authority |-> AUTHORITY, path |-> Script[i].path,
     query |-> <<>>, body |-> Script[i].body,
     headers |-> Hdr(i, TokenFor(i, ExpiryAt(i, now))),
     context |-> [agent_id |-> Script[i].acting, on_behalf_of |-> None,
                  sandbox_id |-> Script[i].sandbox]]

ASSUME ScriptAssumption ==
    /\ Slots \subseteq DOMAIN Script
    /\ Replay \in Slots => FirstUse \in Slots
    /\ \A i \in Slots, t \in Clocks : RequestAt(i, NowMs(t)) \in EgressRequests

\* An absent value is neither text nor a digest.
ASSUME AbsentAssumption ==
    \A i \in DOMAIN Script : None \notin {<<112>>, CanonicalRequestHash(Minted(i))}

ASSUME DemoAssumption == RawConfigs = {DemoConfig} /\ REVOKED \in Agents /\ Start \in Clocks

-----------------------------------------------------------------------------
InCall == {s \in Slots : phase[s] = "calling"}
Faults == {s \in Slots : Failed(outcome[s]) /\ Script[s].port_open}
          \cup IF revoke_call = "failed" THEN {0} ELSE {}

\* Everything before scenario call s has been awaited.
Turn(s) == phase[s] = "idle" /\ \A r \in Slots : r < s => Done(r)

\* eval_one
Run(s) ==
    /\ Turn(s)
    /\ s = RevokedUse => revoke_call \in {"done", "failed"}
    /\ \E r \in {RequestAt(s, NowMs(clock))} : SubmitRequest(s, r)
    /\ called_at' = clock
    /\ UNCHANGED <<revoke_call, stalled>>

\* Nobody listens at the closed port.
Serve(s) ==
    /\ (Deliver(s) /\ Script[s].port_open) \/ Process(s) \/ Answer(s)
    /\ UNCHANGED dvars

FailCall(s, f) ==
    /\ BreakWith(s, f)
    /\ IF Script[s].port_open THEN Cardinality(Faults) < MaxFaults
       ELSE f.kind # "VERIFIER_MALFORMED_RESPONSE"
    /\ UNCHANGED dvars

-----------------------------------------------------------------------------
\* revoke_agent: a client without a timeout, its result ignored.
RevokeSend ==
    /\ RevokedUse \in Slots /\ Turn(RevokedUse)
    /\ revoke_call = "unsent"
    /\ revoke_call' = "pending"
    /\ UNCHANGED <<vars, called_at, stalled>>

\* The POST reaches the verifier, even if the client has seen it fail.
RevokeArrive ==
    /\ revoke_call \in {"pending", "failed"}
    /\ Revoke(REVOKED)
    /\ revoke_call' = IF revoke_call = "pending" THEN "applied" ELSE revoke_call
    /\ UNCHANGED <<mvars, submitted, called_at, stalled>>

\* Seeded fault: the future is dropped instead of awaited.
RevokeForget ==
    /\ revoke_call \in {"pending", "applied"}
    /\ revoke_call' = "done"
    /\ UNCHANGED <<vars, called_at, stalled>>

RevokeReturn ==
    /\ revoke_call = "applied"
    /\ revoke_call' = "done"
    /\ UNCHANGED <<vars, called_at, stalled>>

RevokeFail ==
    /\ revoke_call \in {"pending", "applied"}
    /\ Cardinality(Faults) < MaxFaults
    /\ revoke_call' = "failed"
    /\ UNCHANGED <<vars, called_at, stalled>>

\* Seeded fault: no deadline on the calls of the middleware.
TickFreely(t) ==
    /\ t > clock
    /\ stalled' = IF InCall = {} THEN stalled + (t - clock) ELSE stalled
    /\ ClockStep(t)
    /\ UNCHANGED <<mvars, submitted, revoke_call, called_at>>

Tick(t) ==
    /\ t > clock
    /\ InCall # {} => t <= called_at + TIMEOUT_MS
    /\ stalled' = IF InCall = {} THEN stalled + (t - clock) ELSE stalled
    /\ ClockStep(t)
    /\ UNCHANGED <<mvars, submitted, revoke_call, called_at>>

-----------------------------------------------------------------------------
DriverInit ==
    /\ Init
    /\ clock = Start
    /\ revoke_call = "unsent"
    /\ called_at = Start
    /\ stalled = 0

DriverNext ==
    \/ \E s \in Slots : Run(s) \/ Serve(s) \/ \E f \in Failures : FailCall(s, f)
    \/ RevokeSend \/ RevokeArrive \/ RevokeReturn \/ RevokeFail
    \/ \E t \in Clocks : Tick(t)

\* The suite goes on when it can, and its middleware's deadline fires.
DriverFairness ==
    /\ WF_allvars(RevokeSend \/ \E s \in Slots : Run(s))
    /\ WF_allvars(\E s \in Slots : Expire(s) /\ UNCHANGED <<vvars, submitted, dvars>>)

DriverSafety == DriverInit /\ [][DriverNext]_allvars
DriverSpec == DriverSafety /\ DriverFairness

-----------------------------------------------------------------------------
\* decision_detail and ScenarioResult::passed
GotReason(s) == IF Continued(s) THEN audit[s].reason_code ELSE decision[s].reason_code
AsExpected(s) == (Continued(s) <=> Script[s].expect = "OK") /\ GotReason(s) = Script[s].expect

\* run_demo: every recorded scenario passed.
Recorded == Slots \ {FirstUse}
Finished == \A s \in Slots : Done(s)
AllPassed == Finished /\ \A s \in Recorded : AsExpected(s)

AwaitsRevoke == revoke_call \in {"pending", "applied"}

(***************************************************************************)
(* driver.rs:202-433 and main.rs:97-102.  The suite is not flaky: a        *)
(* scenario that does not end as scripted had its own call fail, or is the *)
(* revocation after a failed revoke call, or the replay of a token whose   *)
(* first use failed, or more time was lost outside of calls than the       *)
(* minute of the tokens leaves when every call takes its second.           *)
(***************************************************************************)
SurprisesExplained ==
    \A s \in Slots : Done(s) /\ ~AsExpected(s) =>
        \/ Failed(outcome[s])
        \/ s = RevokedUse /\ revoke_call = "failed"
        \/ s = Replay /\ Failed(outcome[FirstUse])
        \/ /\ GotReason(s) = "TOKEN_EXPIRED"
           /\ stalled + s * TIMEOUT_MS > LIFETIME_MS

(***************************************************************************)
(* driver.rs:206.  One expiry, a minute ahead, serves the whole suite: the *)
(* calls alone, each under its deadline, cannot use it up.                 *)
(***************************************************************************)
ExpiryNeedsStall ==
    \A s \in Slots :
        /\ Done(s) /\ ~Script[s].expired
        /\ outcome[s].response.reason_code = "TOKEN_EXPIRED"
        => stalled + s * TIMEOUT_MS > LIFETIME_MS

(***************************************************************************)
(* driver.rs:283-297, 326-339 and 413-430.  A scenario that ends as        *)
(* scripted has shown what it narrates: the revocation is in force, the    *)
(* replayed token was granted to its first use, although that result is    *)
(* dropped, and the request to the closed port was seen by no verifier.    *)
(***************************************************************************)
PassedMeansShown ==
    \A s \in Slots : Done(s) /\ AsExpected(s) =>
        /\ s = RevokedUse => REVOKED \in revoked_agents
        /\ s = Replay => Granted(FirstUse)
        /\ ~Script[s].port_open => stage[s] = "idle"

(***************************************************************************)
(* driver.rs:327: "first: allowed".  When the whole suite passes, the      *)
(* first use of the replayed token was let out.                            *)
(***************************************************************************)
FirstUseAllowed == AllPassed => Continued(FirstUse)

(***************************************************************************)
(* driver.rs:155-158 against lib.rs:178.  The suite ends, with nothing     *)
(* assumed of the verifier, unless it waits for ever in revoke_agent, the  *)
(* one call made by a client that has no timeout.                          *)
(***************************************************************************)
OnlyRevokeHangs == <>Finished \/ <>[]AwaitsRevoke
=============================================================================
