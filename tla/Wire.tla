-------------------------------- MODULE Wire --------------------------------
(***************************************************************************)
(* The wire contract between middleware and verifier                       *)
(* (ext-authz-core/src/types.rs) and the middleware's configuration        *)
(* (config.rs).                                                            *)
(*                                                                         *)
(* An AuthorizeRequest is a record with the fields `version`, `request`    *)
(* (the descriptor), `context` and `credentials`, the last a function from *)
(* header names to values.                                                 *)
(***************************************************************************)
EXTENDS Crh

CONSTANTS
    None,      \* an absent optional value
    NotHex     \* text that is not 64 lowercase hex digits

WIRE_VERSION == "1"
DEFAULT_TOKEN_HEADER == <<120, 45, 116>>     \* "x-t" for "x-hawcx-haap-token"

NoRequest == [version |-> None]

\* The reason codes of the demo verifier: those of a refusal before the
\* nonce is looked at, and the two the nonce decides between.
RefusalCodes ==
    {"UNSUPPORTED_VERSION", "TOKEN_MALFORMED", "TOKEN_SIGNATURE_INVALID", "TOKEN_EXPIRED",
     "AGENT_MISMATCH", "AGENT_REVOKED", "WORKLOAD_MISMATCH", "INTENT_MISMATCH",
     "CRH_MISMATCH", "DESCRIPTOR_MALFORMED"}

VerifierReasons == RefusalCodes \cup {"OK", "TOKEN_REPLAYED"}

ASSUME NoneAssumption == None \notin VerifierReasons \cup {"allow", "deny", "coarse", "exact"}

-----------------------------------------------------------------------------
\* An HTTP response: a verdict when the status is 200.
Response(decision, code, receipt, binding) ==
    [status |-> 200, decision |-> decision, reason_code |-> code,
     receipt_id |-> receipt, binding |-> binding]

NoVerdict(status) ==
    [status |-> status, decision |-> None, reason_code |-> None,
     receipt_id |-> None, binding |-> None]

NoReply == NoVerdict(0)

-----------------------------------------------------------------------------
\* ExtAuthzConfig::normalized: the header names are lowercased once.
Normalized(raw) ==
    [raw EXCEPT !.token_header = ToAsciiLowercase(@),
                !.forward_headers = {ToAsciiLowercase(h) : h \in @}]
=============================================================================
