------------------------------- MODULE KeySpec -------------------------------
(***************************************************************************)
(* What the key store promises, without calls: a member is given a key that *)
(* nobody ever had, as long as the keys that then work for the member are   *)
(* a set that is allowed; keys are taken from a member all at once, and     *)
(* with the membership; a key once taken never works again.                 *)
(***************************************************************************)
CONSTANTS
    Players, Keys,
    Allowed   \* the sets of keys that may work for one player at once

VARIABLES
    members,  \* players with an account
    works,    \* the keys that work for each player
    used      \* the keys there ever were

kvars == <<members, works, used>>

Init == members = {} /\ works = [p \in Players |-> {}] /\ used = {}

Join(p) == members' = members \cup {p} /\ UNCHANGED <<works, used>>

Leave(p) ==
    /\ members' = members \ {p}
    /\ works' = [works EXCEPT ![p] = {}]
    /\ UNCHANGED used

Give(p) ==
    /\ p \in members
    /\ \E k \in Keys \ used : /\ works[p] \cup {k} \in Allowed
                              /\ works' = [works EXCEPT ![p] = @ \cup {k}]
                              /\ used' = used \cup {k}
    /\ UNCHANGED members

\* A key that nobody was given.
Waste == \E k \in Keys \ used : used' = used \cup {k} /\ UNCHANGED <<members, works>>

Take(p) == works' = [works EXCEPT ![p] = {}] /\ UNCHANGED <<members, used>>

Next == Waste \/ \E p \in Players : Join(p) \/ Leave(p) \/ Give(p) \/ Take(p)

Spec == Init /\ [][Next]_kvars
=============================================================================
