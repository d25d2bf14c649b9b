----------------------------- MODULE EgressGate -----------------------------
(***************************************************************************)
(* What middleware and verifier promise together, and nothing of how: a    *)
(* host holds each request back until it is released, waived or stopped;   *)
(* a release needs a permit; a nonce is good for one permit, and an agent  *)
(* barred before its request was held gets none.  Only a gate that is not  *)
(* strict waives.  A permit may come too late for its host, and is spent   *)
(* all the same; a restart forgets what was spent and who was barred.      *)
(***************************************************************************)
CONSTANTS Slots, Nonces, Agents

VARIABLES
    strict,    \* nothing passes without a permit
    status,    \* what the host does with each request
    asked,     \* the permit it asks for, if any: a nonce, for an agent, who was barred then
    permits,   \* the requests that were permitted
    spent,     \* nonces permitted since the last restart
    barred     \* agents barred since the last restart

gvars == <<strict, status, asked, permits, spent, barred>>

Init ==
    /\ strict \in BOOLEAN
    /\ status = [s \in Slots |-> "new"]
    /\ asked = [s \in Slots |-> {}]
    /\ permits = {}
    /\ spent = {}
    /\ barred = {}

Ask(s) ==
    /\ status[s] = "new"
    /\ status' = [status EXCEPT ![s] = "held"]
    /\ \E n \in Nonces, a \in Agents :
          asked' = [asked EXCEPT ![s] = {[nonce |-> n, agent |-> a, barred |-> barred]}]
    /\ UNCHANGED <<strict, permits, spent, barred>>

\* Possibly after the host has given up on it.
Permit(s) ==
    /\ s \notin permits
    /\ \E q \in asked[s] :
          /\ q.agent \notin q.barred
          /\ q.nonce \notin spent
          /\ spent' = spent \cup {q.nonce}
    /\ permits' = permits \cup {s}
    /\ UNCHANGED <<strict, status, asked, barred>>

Release(s) ==
    /\ status[s] = "held"
    /\ s \in permits
    /\ status' = [status EXCEPT ![s] = "released"]
    /\ UNCHANGED <<strict, asked, permits, spent, barred>>

\* Without asking, or not waiting for, or in spite of, the answer.
Stop(s) ==
    /\ status[s] \in {"new", "held"}
    /\ status' = [status EXCEPT ![s] = "stopped"]
    /\ UNCHANGED <<strict, asked, permits, spent, barred>>

Waive(s) ==
    /\ ~strict
    /\ status[s] \in {"new", "held"}
    /\ status' = [status EXCEPT ![s] = "waived"]
    /\ UNCHANGED <<strict, asked, permits, spent, barred>>

Bar(a) == barred' = barred \cup {a} /\ UNCHANGED <<strict, status, asked, permits, spent>>

Forget ==
    /\ spent' = {}
    /\ barred' = {}
    /\ asked' = [s \in Slots |-> {[q EXCEPT !.barred = {}] : q \in asked[s]}]
    /\ UNCHANGED <<strict, status, permits>>

Next ==
    \/ \E s \in Slots : Ask(s) \/ Permit(s) \/ Release(s) \/ Stop(s) \/ Waive(s)
    \/ \E a \in Agents : Bar(a)
    \/ Forget

Spec == Init /\ [][Next]_gvars
=============================================================================
