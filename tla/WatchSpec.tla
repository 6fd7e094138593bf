------------------------------ MODULE WatchSpec ------------------------------
(***************************************************************************)
(* What the registry promises, without calls: members watch tracked items,  *)
(* as many as are allowed; what a member watches ends with a request for    *)
(* it, with the membership or with the item.                                *)
(***************************************************************************)
CONSTANTS
    Players, Items,
    Allowed   \* the sets of items that a player may watch

VARIABLES
    members,
    tracked,
    watches   \* the items each player watches

wvars == <<members, tracked, watches>>

Init == members = {} /\ tracked = {} /\ watches = [p \in Players |-> {}]

Join(p) ==
    /\ p \notin members
    /\ members' = members \cup {p}
    /\ UNCHANGED <<tracked, watches>>

Leave(p) ==
    /\ members' = members \ {p}
    /\ watches' = [watches EXCEPT ![p] = {}]
    /\ UNCHANGED tracked

Watch(p, i) ==
    /\ p \in members /\ i \in tracked \ watches[p]
    /\ watches[p] \cup {i} \in Allowed
    /\ watches' = [watches EXCEPT ![p] = @ \cup {i}]
    /\ UNCHANGED <<members, tracked>>

\* One item, or all there are.
Unwatch(p) ==
    /\ \/ \E i \in Items : watches' = [watches EXCEPT ![p] = @ \ {i}]
       \/ watches' = [watches EXCEPT ![p] = {}]
    /\ UNCHANGED <<members, tracked>>

Track(is) == tracked' = tracked \cup is /\ UNCHANGED <<members, watches>>

Untrack(is) ==
    /\ tracked' = tracked \ is
    /\ watches' = [p \in Players |-> watches[p] \ is]
    /\ UNCHANGED members

Next ==
    \/ \E p \in Players : Join(p) \/ Leave(p) \/ Unwatch(p) \/ \E i \in Items : Watch(p, i)
    \/ \E is \in SUBSET Items : Track(is) \/ Untrack(is)

Spec == Init /\ [][Next]_wvars
=============================================================================
