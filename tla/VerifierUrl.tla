----------------------------- MODULE VerifierUrl -----------------------------
(***************************************************************************)
(* What the middleware warns about when it is built                        *)
(* (ext-authz-middleware/src/lib.rs): a verifier reached in the clear, and *)
(* a credential that is not stripped.                                      *)
(*                                                                         *)
(* A URL is a sequence of symbols: the delimiters the code splits at, and  *)
(* words between them.                                                     *)
(***************************************************************************)
EXTENDS Naturals, Sequences, SequencesExt

CONSTANTS
    LoopbackV4  \* the words that parse as an IPv4 address of 127.0.0.0/8

ASSUME LoopbackAssumption == ":" \notin LoopbackV4

LOCALHOST == <<"localhost">>
LOOPBACKV6 == <<":", ":", "1">>

-----------------------------------------------------------------------------
\* `split(c).next()` and `rsplit(c).next()`: all of it where there is no c.
BeforeFirst(s, c) == SubSeq(s, 1, Min({i \in 1..Len(s) : s[i] = c} \cup {Len(s) + 1}) - 1)
AfterLast(s, c) == SubSeq(s, Max({i \in 1..Len(s) : s[i] = c} \cup {0}) + 1, Len(s))

HostOf(authority) ==
    IF authority # <<>> /\ Head(authority) = "["
    THEN BeforeFirst(Tail(authority), "]")
    ELSE BeforeFirst(authority, ":")

\* Seeded fault: the userinfo is dropped before the path is cut off.
UserinfoFirst(rest) == HostOf(BeforeFirst(AfterLast(rest, "@"), "/"))

UrlHost(rest) == HostOf(AfterLast(BeforeFirst(rest, "/"), "@"))

IsLoopback(host) ==
    \/ host \in {LOCALHOST, LOOPBACKV6}
    \/ \E word \in LoopbackV4 : host = <<word>>

IsPlaintextNonLoopback(url) ==
    /\ IsPrefix(<<"http://">>, url)
    /\ ~IsLoopback(UrlHost(Tail(url)))

WarnOnUnsafeConfig(verifier_url, strip_token_header) ==
    {w \in {"plaintext", "unstripped"} :
        \/ w = "plaintext" /\ IsPlaintextNonLoopback(verifier_url)
        \/ w = "unstripped" /\ ~strip_token_header}
=============================================================================
