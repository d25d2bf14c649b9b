------------------------------- MODULE MCText -------------------------------
(***************************************************************************)
(* The pure text functions against independent statements of what they are *)
(* for: every pair of requests over a small alphabet, every path with      *)
(* every scope prefix over {/, a, b} up to a length, and verifier URLs     *)
(* composed from their parts.                                              *)
(***************************************************************************)
EXTENDS Token, VerifierUrl, FiniteSets

CONSTANTS MaxPath

VARIABLES left, right, path, prefix, setup

vars == <<left, right, path, prefix, setup>>

\* 97 = a, 65 = A; the authorities put the port stripping at its boundaries.
Methods == {<<97>>, <<65>>, <<97, 47>>}
Schemes == {HTTP, <<72>> \o Tail(HTTP), HTTPS}
P80 == DefaultSuffix(HTTP)
P443 == DefaultSuffix(HTTPS)
V6 == <<91, COLON, COLON, RBRACKET>>
Authorities == {<<97>>, <<65>>, <<97>> \o P80, <<65>> \o P443, P80, V6,
                V6 \o P80, <<COLON, COLON>> \o P80, <<97>> \o P80 \o P80}
Paths == {<<>>, ROOT, <<SLASH, 97>>}
Queries == {<<>>, <<97>>}
Bodies == {<<>>, <<97>>}

Requests ==
    [method : Methods, scheme : Schemes, authority : Authorities,
     path : Paths, query : Queries, body_sha256 : {Sha256(b) : b \in Bodies}]

Strings == BoundedSeq({SLASH, 97, 98}, MaxPath)

\* The parts of a URL; the last two hosts lack brackets, or only resemble
\* the loopback network.
Bracketed(host) == <<"[">> \o host \o <<"]">>

Setups ==
    [scheme : {"http://", "https://", "unix:"},
     userinfo : {<<>>, <<"ops", "@">>, <<"localhost", "@">>,
                 <<"ops", ":", "pw", "@">>, <<"ops", "@", "localhost", "@">>},
     host : {LOCALHOST, <<"127.0.0.1">>, Bracketed(LOOPBACKV6),
             <<"verifier">>, Bracketed(<<":", ":", "2">>), <<>>,
             LOOPBACKV6, <<"127.verifier">>},
     port : {<<>>, <<":", "8181">>},
     path : {<<>>, <<"/">>, <<"/", "@", "localhost">>, <<"/", "x", ":", "/", "1">>},
     strip_token_header : BOOLEAN]

Url(s) == <<s.scheme>> \o s.userinfo \o s.host \o s.port \o s.path

OneSetup == CHOOSE s \in Setups : s.strip_token_header

OneRequest == CHOOSE r \in Requests : r.body_sha256 = Sha256(<<>>)

HashInit ==
    /\ left \in Requests
    /\ right \in {r \in Requests : r.body_sha256 = Sha256(<<>>)}
    /\ path = <<>> /\ prefix = <<>>
    /\ setup = OneSetup

ScopeInit ==
    /\ left = OneRequest /\ right = OneRequest
    /\ path \in Strings /\ prefix \in Strings
    /\ setup = OneSetup

SetupInit ==
    /\ left = OneRequest /\ right = OneRequest
    /\ path = <<>> /\ prefix = <<>>
    /\ setup \in Setups

Init == HashInit \/ ScopeInit \/ SetupInit
Next == UNCHANGED vars

-----------------------------------------------------------------------------
\* Reference: what `crh_v1` is meant to identify, stated without hashing or
\* normalising.  Two authorities name the same endpoint when they are equal
\* but for case, or when one spells out the default port the other omits; a
\* port follows a name without a colon, or an address in its brackets.
TakesPort(host) ==
    /\ host # <<>>
    /\ host[Len(host)] # RBRACKET => \A i \in DOMAIN host : host[i] # COLON

Spellings(scheme, host) ==
    {host} \cup (IF scheme \in {HTTP, HTTPS} /\ TakesPort(host)
                 THEN {host \o DefaultSuffix(scheme)} ELSE {})

SameEndpoint(scheme, x, y) ==
    \E host \in {x, y} : {x, y} \subseteq Spellings(scheme, host)

SameAction(p, q) ==
    /\ EqIgnoreAsciiCase(p.method, q.method)
    /\ EqIgnoreAsciiCase(p.scheme, q.scheme)
    /\ SameEndpoint(ToAsciiLowercase(p.scheme), ToAsciiLowercase(p.authority),
                    ToAsciiLowercase(q.authority))
    /\ p.path = q.path \/ {p.path, q.path} = {<<>>, ROOT}
    /\ p.query = q.query
    /\ p.body_sha256 = q.body_sha256

FieldsFit(p) ==
    \A f \in DOMAIN p : Len(p[f]) < LenRange

(***************************************************************************)
(* hash.rs:93-99 and 110-122.  Two requests whose fields fit the length    *)
(* prefix have the same crh exactly when they are the same action: no byte *)
(* can move from one field into the next, and no spelling of the same      *)
(* endpoint, method or root path changes the hash.                         *)
(***************************************************************************)
CrhIdentifiesAction ==
    FieldsFit(left) /\ FieldsFit(right) =>
        (CanonicalRequestHash(left) = CanonicalRequestHash(right) <=> SameAction(left, right))

(***************************************************************************)
(* hash.rs:77-91.  Normalising twice changes nothing, whatever scheme the  *)
(* authority is read under: the verifier may normalise what the middleware *)
(* or the issuer already normalised (verifier.rs:280-287).                 *)
(***************************************************************************)
NormalizeIdempotent ==
    LET scheme == ToAsciiLowercase(left.scheme)
        once   == NormalizeAuthority(scheme, left.authority)
    IN NormalizeAuthority(scheme, once) = once

-----------------------------------------------------------------------------
\* The segments between slashes, numbered from the left.  A trailing slash
\* leaves an empty last segment.
Segments(p) ==
    LET slashes == {i \in 1..Len(p) : p[i] = SLASH}
        starts  == {0} \cup slashes
        end(i)  == Min({j \in slashes : j > i} \cup {Len(p) + 1})
    IN {<<Cardinality({k \in starts : k < i}), SubSeq(p, i + 1, end(i) - 1)>> : i \in starts}

Complete(p) ==
    {seg \in Segments(p) : Last(p) = SLASH => seg[1] < Cardinality(Segments(p)) - 1}

(***************************************************************************)
(* verifier.rs:289-312.  A prefix covers a path exactly when the path has  *)
(* every complete segment of the prefix in its place and is no shorter:    *)
(* `/a` covers `/a` and `/a/b`, never `/ab`; `/a/` covers `/a/b`, never    *)
(* `/a`.                                                                   *)
(***************************************************************************)
PathScopeIsSegmentwise ==
    LET p == OrRoot(path)
        s == OrRoot(prefix)
    IN PathInScope(path, prefix) <=>
        /\ Complete(s) \subseteq Segments(p)
        /\ Cardinality(Segments(s)) <= Cardinality(Segments(p))

-----------------------------------------------------------------------------
\* The loopback interface, spelled as the host of a URL.
LoopbackHosts ==
    {LOCALHOST, Bracketed(LOOPBACKV6)} \cup {<<word>> : word \in LoopbackV4}

(***************************************************************************)
(* lib.rs:509-552.  A middleware is built without a warning exactly when   *)
(* it strips the credential and its verifier is not reached by `http://`   *)
(* or is a loopback host spelled as one, whatever userinfo, port or path   *)
(* surround it; a host that cannot be read as loopback is warned about.    *)
(***************************************************************************)
QuietMeansSafe ==
    (WarnOnUnsafeConfig(Url(setup), setup.strip_token_header) = {}) <=>
        /\ setup.strip_token_header
        /\ setup.scheme = "http://" => setup.host \in LoopbackHosts
=============================================================================
