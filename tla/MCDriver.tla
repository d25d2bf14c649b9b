------------------------------ MODULE MCDriver ------------------------------
(***************************************************************************)
(* The scripted requests, and the wall-clock readings of each run.         *)
(***************************************************************************)
EXTENDS Driver

CONSTANTS key

\* The tokens expire at 61000.
TwoReadings == {1000, 62000}

\* With a minute lost outside of calls, a call that takes its second reaches
\* and passes that moment.
CloseReadings == {1000, 61000, 62000}

OneReading == {1000}

Scripted == {RequestAt(i, NowMs(t)) : i \in Slots, t \in Clocks}

Sent == {AuthorizeRequest(Normalized(DemoConfig), r) :
            r \in {r \in Scripted : LocalRefusal(Normalized(DemoConfig), r) = "OK"}}

Demo == {DemoConfig}
Principals == {AGENT, INTRUDER, REVOKED}
=============================================================================
