---------------------------- MODULE MCMiddleware ----------------------------
(***************************************************************************)
(* Every mode and policy against requests whose headers are spelled and    *)
(* repeated in the ways that matter.                                       *)
(***************************************************************************)
EXTENDS Middleware

CONSTANTS t1, t2, trace, ctx

X_T == <<88, 45, 84>>
x_T == <<120, 45, 84>>
R == <<82>>
r == <<114>>

\* The forward list also names the token header, in another case.
MCConfigs ==
    [mode : {"enforce", "observe"}, fail : {"closed", "open"}, token_header : {X_T},
     forward_headers : {{R, x_T}, {}}, strip_token_header : BOOLEAN, max_body_bytes : {1}]

Base == [context |-> ctx, method |-> <<103>>, scheme |-> HTTPS, authority |-> <<65>>,
         path |-> <<>>, query |-> <<>>, headers |-> <<>>, body |-> <<1>>]

MCRequests ==
    {[Base EXCEPT !.headers = h, !.body = b] :
        h \in {<<>>, <<<<R, trace>>>>, <<<<X_T, t1>>>>,
               <<<<r, t1>>, <<x_T, t1>>, <<R, trace>>>>,
               <<<<X_T, t1>>, <<x_T, t2>>>>,
               <<<<x_T, t1>>, <<r, trace>>, <<x_T, t1>>>>},
        b \in {<<>>, <<1>>, <<1, 2>>}}

MCVerdicts == {Response("allow", "OK", t1, None), Response("deny", "TOKEN_EXPIRED", None, None),
               Response("deny", "OK", t2, None), NoVerdict(413), NoVerdict(500)}
=============================================================================
