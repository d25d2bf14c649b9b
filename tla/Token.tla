------------------------------- MODULE Token -------------------------------
(***************************************************************************)
(* The demo credential (ext-authz-demo/src/token.rs) and the scope tests   *)
(* the verifier applies to it (verifier.rs:280-312).                       *)
(*                                                                         *)
(* HMAC-SHA256 is taken to be unforgeable: a MAC is the pair of the key    *)
(* and the bytes it was computed over.  base64 and JSON framing is one     *)
(* flag; a body that is not the JSON of a Claims is `None`.                *)
(***************************************************************************)
EXTENDS Wire

\* A body that does not decode has no agent, nonce or expiry.
NoClaims == [jti |-> None, agent_id |-> None, exp_unix_ms |-> 0, crh |-> None]

-----------------------------------------------------------------------------
Mint(claims, key) ==
    [framed |-> TRUE, body |-> claims, mac |-> [key |-> key, body |-> claims]]

\* token::verify: framing, then the MAC, and only then the JSON.
VerifyToken(token, key) ==
    IF ~token.framed THEN "Malformed"
    ELSE IF token.mac # [key |-> key, body |-> token.body] THEN "BadSignature"
    ELSE IF token.body = NoClaims THEN "Malformed"
    ELSE "Ok"

-----------------------------------------------------------------------------
AuthorityInScope(request_scheme, request_authority, scope_authority) ==
    LET scheme == ToAsciiLowercase(request_scheme)
    IN NormalizeAuthority(scheme, request_authority) = NormalizeAuthority(scheme, scope_authority)

\* Seeded fault: a prefix of characters, not of segments.
PathStartsWith(request_path, scope_prefix) ==
    IsPrefix(OrRoot(scope_prefix), OrRoot(request_path))

PathInScope(request_path, scope_prefix) ==
    LET path   == OrRoot(request_path)
        prefix == OrRoot(scope_prefix)
    IN \/ path = prefix
       \/ Last(prefix) = SLASH /\ IsPrefix(prefix, path)
       \/ Last(prefix) # SLASH /\ IsPrefix(prefix \o ROOT, path)
=============================================================================
