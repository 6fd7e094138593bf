------------------------------ MODULE AlertSpec ------------------------------
(***************************************************************************)
(* What alerting promises, whatever runs the polls: an alert that is owed   *)
(* stays owed while its order is on the market and its subscription stands, *)
(* until the subscriber has been told; and an order becomes known, so that  *)
(* no later poll finds it new, only when nobody is owed an alert of it.     *)
(***************************************************************************)
CONSTANTS Players, Items, Orders

VARIABLES
    standing,  \* <<player, item, order>>: on the market and subscribed to
    known,     \* <<item, order>> no poll will find new
    owed,      \* alerts that have still to be given
    told       \* alerts given since their order was posted

avars == <<standing, known, owed, told>>

Alerts == Players \X Items \X Orders
Order(a) == <<a[2], a[3]>>

Init == standing \subseteq Alerts /\ known = {} /\ owed = {} /\ told = {}

\* Orders are posted and withdrawn, subscriptions begin and end: what begins to
\* stand may be owed if it is not known, what no longer stands is not owed.
Change ==
    /\ standing' \subseteq Alerts
    /\ owed' \ owed \subseteq {a \in standing' \ standing : Order(a) \notin known}
    /\ owed \ owed' = owed \ standing'
    /\ told' \subseteq told /\ (told \ told') \cap standing = {}
    /\ UNCHANGED known

\* Alerts are given, owed or not.
Tell ==
    \E given \in (SUBSET Alerts) \ {{}} :
        /\ owed' = owed \ given
        /\ told' = told \cup given
        /\ UNCHANGED <<standing, known>>

\* The known orders of one item are replaced; none that is owed is among them.
Learn ==
    /\ \E i \in Items : \A k \in (known \cup known') \ (known \cap known') : k[1] = i
    /\ known' \cap {Order(a) : a \in owed} = {}
    /\ UNCHANGED <<standing, owed, told>>

Next == Change \/ Tell \/ Learn

Spec == Init /\ [][Next]_avars
=============================================================================
