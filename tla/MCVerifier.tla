----------------------------- MODULE MCVerifier -----------------------------
(***************************************************************************)
(* Two requests spelled in one-letter words, the tokens minted for them,   *)
(* and what a peer may send with those tokens.                             *)
(***************************************************************************)
EXTENDS Verifier

CONSTANTS j1, j2, alice, bob, dan, key, forged

\* Before the Unix epoch, before and after the exact token's expiry.
AnyTime == {-1, 1, 3}
NoTime == {-1}

CallSymmetry == Permutations(Calls)

GET == <<71>>
Action == [method |-> GET, scheme |-> HTTPS, authority |-> <<104>>, path |-> <<SLASH, 97>>,
           query |-> <<>>, body_sha256 |-> Sha256(<<>>)]
Other == [Action EXCEPT !.path = <<SLASH, 97, SLASH, 98>>]

\* The middleware's descriptor of an action: its fields and their hash.
Describe(p) ==
    [f \in DOMAIN p \cup {"canonical_request_hash"} |->
        IF f = "canonical_request_hash" THEN CanonicalRequestHash(p) ELSE p[f]]

Exact == [jti |-> j1, agent_id |-> alice, on_behalf_of |-> None, workload_selector |-> None,
          scope |-> [method |-> GET, authority |-> <<72>>, path_prefix |-> <<SLASH, 97>>],
          crh |-> CanonicalRequestHash(Action), exp_unix_ms |-> 2]
Coarse == [Exact EXCEPT !.jti = j2, !.crh = None, !.on_behalf_of = dan,
                        !.workload_selector = <<119>>, !.exp_unix_ms = 0]

Send(claims, signer, p) ==
    [version     |-> WIRE_VERSION,
     request     |-> Describe(p),
     context     |-> [agent_id |-> alice, on_behalf_of |-> dan, sandbox_id |-> <<119, 49>>],
     credentials |-> [h \in {DEFAULT_TOKEN_HEADER} |-> Mint(claims, signer)]]

Honest == Send(Exact, key, Action)
HonestCoarse == Send(Coarse, key, Other)

\* One departure from the honest requests for every check of `authorize`.
Departures ==
    {Send(Exact, forged, Action),
     Send(NoClaims, key, Action),
     Send(Exact, key, Other),
     Send([Exact EXCEPT !.scope.method = <<80>>], key, Action),
     Send([Exact EXCEPT !.agent_id = bob], key, Action),
     [Honest EXCEPT !.credentials = [h \in {} |-> None]],
     [Honest EXCEPT !.credentials[DEFAULT_TOKEN_HEADER].framed = FALSE],
     [Honest EXCEPT !.version = "2"],
     [Honest EXCEPT !.request.body_sha256 = NotHex],
     [Honest EXCEPT !.request.path = Other.path],
     [Honest EXCEPT !.request.query = <<97, 97, 97, 97, 97>>],
     [HonestCoarse EXCEPT !.context.on_behalf_of = None],
     [HonestCoarse EXCEPT !.context.sandbox_id = <<120>>]}

AllRequests == {Honest, HonestCoarse} \cup Departures
Rivals == {Honest, HonestCoarse, Send(Coarse, key, Action)}
=============================================================================
