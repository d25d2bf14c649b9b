----------------------------- MODULE MCExtAuthz -----------------------------
(***************************************************************************)
(* One agent, one exact and one coarse token, and requests that use them.  *)
(***************************************************************************)
EXTENDS ExtAuthz

CONSTANTS j1, j2, alice, key

X_T == <<88, 45, 84>>     \* the configured spelling of the token header

Config(m, f) == [mode |-> m, fail |-> f, token_header |-> X_T, forward_headers |-> {},
                 strip_token_header |-> TRUE, max_body_bytes |-> 1]

EveryConfig == {Config(m, f) : m \in {"enforce", "observe"}, f \in {"closed", "open"}}

\* A token header of the operator's own; the default one may be forwarded.
Y == <<89>>
OwnHeader == {[Config("enforce", "closed") EXCEPT !.token_header = Y, !.forward_headers = f] :
                 f \in {{}, {X_T}}}

NoTime == {-1}
AnyTime == {-1, 1}
SlotSymmetry == Permutations(Slots)

\* The action as the sandbox spells it, with a default port and odd case.
Action == [method |-> <<103>>, scheme |-> <<72>> \o Tail(HTTPS),
           authority |-> <<65>> \o DefaultSuffix(HTTPS),
           path |-> <<>>, query |-> <<>>, body_sha256 |-> Sha256(<<1>>)]

Exact == [jti |-> j1, agent_id |-> alice, on_behalf_of |-> None, workload_selector |-> None,
          scope |-> [method |-> <<71>>, authority |-> <<97>>, path_prefix |-> <<>>],
          crh |-> CanonicalRequestHash(Action), exp_unix_ms |-> 0]
Coarse == [Exact EXCEPT !.jti = j2, !.crh = None]

Out(claims, path, body) ==
    [context |-> [agent_id |-> alice, on_behalf_of |-> None, sandbox_id |-> <<>>],
     method |-> Action.method, scheme |-> Action.scheme, authority |-> Action.authority,
     path |-> path, query |-> <<>>, body |-> body,
     headers |-> <<<<<<120, 45, 84>>, Mint(claims, key)>>>>]

ExactOut == Out(Exact, <<>>, <<1>>)
Requests ==
    {ExactOut, Out(Exact, ROOT, <<1>>), Out(Exact, <<>>, <<>>),
     Out(Coarse, <<>>, <<>>), Out(Coarse, <<SLASH, 65>>, <<1>>),
     Out(Coarse, <<SLASH, 97, 97, 97, 97>>, <<1>>),
     [ExactOut EXCEPT !.context.agent_id = None],
     [ExactOut EXCEPT !.headers = <<>>],
     [ExactOut EXCEPT !.body = <<1, 1>>]}
Retries == {ExactOut, Out(Coarse, <<>>, <<1>>)}

TwoCredentials ==
    {[ExactOut EXCEPT !.headers = <<<<Y, Mint(Exact, key)>>>> \o other] :
        other \in {<<>>, <<<<X_T, Mint(Exact, key)>>>>}}

\* What the middlewares of these configurations send for these requests.
Sent == {AuthorizeRequest(Normalized(out[1]), out[2]) :
            out \in {o \in RawConfigs \X EgressRequests :
                        LocalRefusal(Normalized(o[1]), o[2]) = "OK"}}
=============================================================================
