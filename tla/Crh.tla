-------------------------------- MODULE Crh --------------------------------
(***************************************************************************)
(* The canonical request hash `crh_v1` (ext-authz-core/src/hash.rs) and    *)
(* the header-name folding of config.rs.                                   *)
(*                                                                         *)
(* Text is a sequence of ASCII codes, so case folding, suffix stripping    *)
(* and length prefixes are what the code computes.  SHA-256 is taken to be *)
(* injective: a digest is the one-symbol sequence that holds its preimage. *)
(***************************************************************************)
EXTENDS Naturals, Sequences, SequencesExt

CONSTANTS
    LenRange    \* number of values of the u32 length prefix: 2^32 in the code

ASSUME LenRangeAssumption == LenRange \in Nat \ {0}

COLON == 58
SLASH == 47
RBRACKET == 93
HTTP == <<104, 116, 116, 112>>
HTTPS == <<104, 116, 116, 112, 115>>
ROOT == <<SLASH>>

-----------------------------------------------------------------------------
ToAsciiUppercase(s) ==
    [i \in 1..Len(s) |-> IF s[i] \in 97..122 THEN s[i] - 32 ELSE s[i]]

ToAsciiLowercase(s) ==
    [i \in 1..Len(s) |-> IF s[i] \in 65..90 THEN s[i] + 32 ELSE s[i]]

EqIgnoreAsciiCase(s, t) == ToAsciiLowercase(s) = ToAsciiLowercase(t)

Sha256(data) == <<data>>

-----------------------------------------------------------------------------
DefaultSuffix(scheme) == IF scheme = HTTPS THEN <<COLON, 52, 52, 51>>
                                           ELSE <<COLON, 56, 48>>

\* Seeded fault: whatever precedes the default port is taken for a host.
AnyHost(host) == host # <<>>

WellFormedHost(host) ==
    /\ host # <<>>
    /\ Last(host) = RBRACKET \/ ~Contains(host, COLON)

NormalizeAuthority(scheme_lower, authority) ==
    LET a      == ToAsciiLowercase(authority)
        suffix == DefaultSuffix(scheme_lower)
        host   == SubSeq(a, 1, Len(a) - Len(suffix))
    IN IF /\ scheme_lower \in {HTTP, HTTPS}
          /\ IsSuffix(suffix, a)
          /\ WellFormedHost(host)
       THEN host
       ELSE a

OrRoot(path) == IF path = <<>> THEN ROOT ELSE path

\* Seeded fault: fields are concatenated without their lengths.
PutBare(field) == field

\* One field of the preimage: the length, truncated to the prefix's width,
\* then the bytes.  The four big-endian bytes are one symbol here.
Put(field) == <<Len(field) % LenRange>> \o field

CanonicalRequestHash(p) ==
    LET scheme == ToAsciiLowercase(p.scheme)
    IN Sha256(  Put(ToAsciiUppercase(p.method))
             \o Put(scheme)
             \o Put(NormalizeAuthority(scheme, p.authority))
             \o Put(OrRoot(p.path))
             \o Put(p.query)
             \o Put(p.body_sha256))
=============================================================================
