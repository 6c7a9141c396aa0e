---------------------------- MODULE DeployControl ----------------------------
(***************************************************************************)
(* What ROOT promises about deployment: an artefact is opened for decision *)
(* once, decided at most once, and deployed only after it was granted.     *)
(***************************************************************************)
CONSTANTS Artefact

VARIABLES decision, deployed

vars == <<decision, deployed>>

Init == /\ decision = [a \in Artefact |-> "none"]
        /\ deployed = {}

Decide(a, from, to) == /\ decision[a] = from
                       /\ decision' = [decision EXCEPT ![a] = to]
                       /\ UNCHANGED deployed

Open(a)  == Decide(a, "none", "open")
Grant(a) == Decide(a, "open", "granted") \/ Decide(a, "none", "granted")
Deny(a)  == Decide(a, "open", "denied")

\* One look at the list of decisions may lapse several of them.
Lapse == \E S \in SUBSET {a \in Artefact : decision[a] = "open"} :
           /\ decision' = [a \in Artefact |-> IF a \in S THEN "denied" ELSE decision[a]]
           /\ UNCHANGED deployed

Deploy(a) == /\ decision[a] = "granted"
             /\ deployed' = deployed \cup {a}
             /\ UNCHANGED decision

Next == \/ Lapse
        \/ \E a \in Artefact : Open(a) \/ Grant(a) \/ Deny(a) \/ Deploy(a)

Spec == Init /\ [][Next]_vars
=============================================================================
