------------------------------ MODULE OneShot ------------------------------
(***************************************************************************)
(* What a per-action authorizer promises its callers, and nothing of how:  *)
(* a nonce is granted at most once, an agent barred before it asked is     *)
(* never granted, and a refusal spends nothing.  A restart may forget what *)
(* was spent and who was barred, but then grants nothing asked before it.  *)
(***************************************************************************)
CONSTANTS Calls, Nonces, Agents, None

VARIABLES
    status,   \* what each caller has been told
    asked,    \* what it asked for: a nonce, for an agent, and who was barred then
    spent,    \* nonces granted since the last restart
    barred    \* agents barred since the last restart

ovars == <<status, asked, spent, barred>>

Nothing == [nonce |-> None, agent |-> None, barred |-> {}]

Init ==
    /\ status = [c \in Calls |-> "new"]
    /\ asked = [c \in Calls |-> Nothing]
    /\ spent = {}
    /\ barred = {}

Ask(c) ==
    /\ status[c] = "new"
    /\ \E n \in Nonces, a \in Agents :
          asked' = [asked EXCEPT ![c] = [nonce |-> n, agent |-> a, barred |-> barred]]
    /\ status' = [status EXCEPT ![c] = "pending"]
    /\ UNCHANGED <<spent, barred>>

Grant(c) ==
    /\ status[c] = "pending"
    /\ asked[c].agent \notin asked[c].barred
    /\ asked[c].nonce \notin spent
    /\ status' = [status EXCEPT ![c] = "granted"]
    /\ spent' = spent \cup {asked[c].nonce}
    /\ UNCHANGED <<asked, barred>>

\* A caller may be turned away at the door or refused after being heard.
Refuse(c) ==
    /\ status[c] \in {"new", "pending"}
    /\ status' = [status EXCEPT ![c] = "refused"]
    /\ UNCHANGED <<asked, spent, barred>>

Bar(a) == barred' = barred \cup {a} /\ UNCHANGED <<status, asked, spent>>

Forget ==
    /\ spent' = {}
    /\ barred' = {}
    /\ status' = [c \in Calls |-> IF status[c] = "pending" THEN "refused" ELSE status[c]]
    /\ UNCHANGED asked

Next ==
    \/ \E c \in Calls : Ask(c) \/ Grant(c) \/ Refuse(c)
    \/ \E a \in Agents : Bar(a)
    \/ Forget

Spec == Init /\ [][Next]_ovars
=============================================================================
