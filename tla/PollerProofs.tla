---------------------------- MODULE PollerProofs ----------------------------
(***************************************************************************)
(* Theorems about Poller for every set of players, items, orders and        *)
(* pollers, every batch size and any number of faults.                      *)
(***************************************************************************)
EXTENDS Poller, FiniteSetTheorems, TLAPS

\* The conjuncts of the type invariant, as the proofs take them one by one.
TablesOK ==
    /\ book \in [Items -> SUBSET Orders]
    /\ users \subseteq Players
    /\ watch \subseteq Items
    /\ due \subseteq watch
    /\ subs \subseteq users \X watch
    /\ seen \in [Items -> SUBSET Orders]
    /\ pending \subseteq Players \X Items

PollersOK ==
    /\ poll \in [Pollers -> PollState]
    /\ \A c \in Pollers : poll[c].pc \notin {"idle", "next"} => poll[c].item \in Items

HistoryOK ==
    /\ faults \in 0..MaxFaults
    /\ owed \subseteq Alerts /\ told \subseteq Alerts /\ twice \in BOOLEAN

\* The type invariant is that of the tables, of the pollers and of the history.
LEMMA TypeParts == TypeOK <=> TablesOK /\ PollersOK /\ HistoryOK
BY DEF TypeOK, TablesOK, PollersOK, HistoryOK

\* The same for the next state.
LEMMA TypePartsNext == TypeOK' <=> TablesOK' /\ PollersOK' /\ HistoryOK'
BY DEF TypeOK, TablesOK, PollersOK, HistoryOK

\* The commits of other calls leave the pollers and what is seen alone.
LEMMA EnvironmentLeavesPollers ==
    ASSUME Environment
    PROVE  UNCHANGED <<seen, poll, faults, twice>>
BY DEF Environment, Post, Withdraw, Register, Unregister, Track, Untrack, BecomeDue,
       Subscribe, Unsubscribe, EndSubs, tables, history

-----------------------------------------------------------------------------
(* Type correctness, with the foreign keys of market_subscriptions.         *)

HasItem(state) == state.pc \notin {"idle", "next"} => state.item \in Items

\* A poller that is given a well-typed local state.
LEMMA SetKeepsType ==
    ASSUME PollersOK, NEW c \in Pollers, NEW state \in PollState, HasItem(state), Set(c, state)
    PROVE  PollersOK'
BY DEF PollersOK, Set, HasItem

\* A poller between cycles is well typed.
LEMMA IdleType == Idle \in PollState /\ HasItem(Idle)
BY DEF Idle, PollState, Phase, HasItem

\* Every step of a poller leaves all pollers well typed.
LEMMA CycleKeepsPollers ==
    ASSUME TypeOK, NEW c \in Pollers, Cycle(c)
    PROVE  PollersOK'
<1>0. PollersOK /\ poll[c] \in PollState
  BY TypeParts DEF PollersOK
<1> USE DEF At
<1>1. CASE BeginCycle(c)
  <2>1. PICK b \in SUBSET Items : Set(c, [Idle EXCEPT !.pc = "next", !.todo = b])
    BY <1>1 DEF BeginCycle, Batches, TypeOK
  <2>2. [Idle EXCEPT !.pc = "next", !.todo = b] \in PollState
    BY DEF Idle, PollState, Phase
  <2> QED BY <1>0, <2>1, <2>2, SetKeepsType DEF HasItem, Idle
<1>2. ASSUME NEW i \in Items, FetchOrders(c, i) \/ FetchNothing(c, i) PROVE PollersOK'
  <2>1. book[i] \in SUBSET Orders BY DEF TypeOK
  <2> QED BY <1>0, <1>2, <2>1, SetKeepsType DEF FetchOrders, FetchNothing, PollState, Phase, HasItem
<1>3. CASE Snapshot(c)
  BY <1>0, <1>3, SetKeepsType, IdleType DEF Snapshot, Enter, PollersOK, PollState, Phase
<1>4. CASE Diff(c)
  <2> DEFINE known == seen[poll[c].item]
             new == IF known = {} THEN {} ELSE poll[c].orders \ known
             state == [poll[c] EXCEPT !.pc = IF new = {} THEN "forget" ELSE "readSubs",
                                      !.new = new]
  <2>1. poll[c].item \in Items
    BY <1>4 DEF Diff, TypeOK
  <2>2. state \in PollState /\ HasItem(state)
    BY <1>0, <2>1 DEF HasItem, PollState, Phase
  <2>3. Set(c, state)
    BY <1>4 DEF Diff
  <2> QED BY <1>0, <2>2, <2>3, SetKeepsType
<1>5. CASE ReadSubscribers(c)
  <2>1. poll[c].item \in Items
    BY <1>5 DEF ReadSubscribers, TypeOK
  <2> QED BY <1>0, <1>5, <2>1, SetKeepsType DEF ReadSubscribers, HasItem, PollState, Phase
<1>6. CASE Alert(c)
  <2>1. PICK p \in poll[c].targets : poll' = [poll EXCEPT ![c].targets = @ \ {p}]
    BY <1>6 DEF Alert
  <2> QED BY <1>0, <2>1 DEF PollersOK, PollState, Phase
<1>7. CASE Alerted(c)
  BY <1>0, <1>7 DEF Alerted, Enter, PollersOK, PollState, Phase
<1>8. CASE ForgetSeen(c)
  <2>1. poll[c].item \in Items
    BY <1>8 DEF ForgetSeen, TypeOK
  <2> QED BY <1>0, <1>8, <2>1, SetKeepsType DEF ForgetSeen, HasItem, PollState, Phase
<1>9. CASE RememberSeen(c)
  <2>1. poll[c].orders \cup poll[c].late \subseteq Orders
    BY <1>0 DEF PollState
  <2>2. ASSUME NEW d \in Pollers PROVE poll'[d] \in PollState /\ HasItem(poll'[d])
    BY <1>0, <1>9, <2>1 DEF PollersOK, RememberSeen, PollState, Phase, HasItem
  <2> QED BY <1>9, <2>2 DEF PollersOK, RememberSeen, HasItem
<1>10. CASE Stamp(c)
  <2> DEFINE todo == poll[c].todo \ {poll[c].item}
  <2>1. [Idle EXCEPT !.pc = "next", !.todo = todo] \in PollState
    BY <1>0 DEF Idle, PollState, Phase
  <2>2. HasItem([Idle EXCEPT !.pc = "next", !.todo = todo])
    BY DEF Idle, HasItem
  <2> QED BY <1>0, <1>10, <2>1, <2>2, IdleType, SetKeepsType DEF Stamp
<1>11. CASE ChatFails(c)
  BY <1>0, <1>11, IdleType, SetKeepsType DEF ChatFails
<1> QED BY <1>1, <1>2, <1>3, <1>4, <1>5, <1>6, <1>7, <1>8, <1>9, <1>10, <1>11
        DEF Cycle, Fetch, Work

\* What a posting can make owed, and what it leaves owed.
LEMMA PostOwes ==
    ASSUME NEW i \in Items, NEW o \in Orders, Post(i, o)
    PROVE  /\ owed \subseteq owed'
           /\ \A a \in owed' \ owed :
                /\ a \in Alerts /\ a[2] = i /\ a[3] = o
                /\ <<a[1], i>> \in subs /\ <<a[1], o>> \in Wants
                /\ seen[i] # {} /\ o \notin seen[i] /\ ~Held(i, o)
<1>1. CASE seen[i] = {} \/ o \in seen[i] \/ Held(i, o)
  BY <1>1 DEF Post
<1>2. CASE ~(seen[i] = {} \/ o \in seen[i] \/ Held(i, o))
  <2> DEFINE to == {q \in Players : <<q, i>> \in subs /\ <<q, o>> \in Wants}
  <2>1. owed' = owed \cup {<<p, i, o>> : p \in to}
    BY <1>2 DEF Post
  <2>2. ASSUME NEW a \in owed' \ owed
        PROVE  /\ a \in Alerts /\ a[2] = i /\ a[3] = o
               /\ <<a[1], i>> \in subs /\ <<a[1], o>> \in Wants
    <3>1. PICK p \in to : a = <<p, i, o>>
      BY <2>1, <2>2
    <3> QED BY <3>1 DEF Alerts
  <2> QED BY <1>2, <2>1, <2>2
<1> QED BY <1>1, <1>2

\* Rows have the rows their foreign keys name, and due items are tracked.
LEMMA EnvironmentKeepsTables ==
    ASSUME TypeOK, Environment
    PROVE  TablesOK' /\ HistoryOK'
<1> USE DEF TypeOK, TablesOK, HistoryOK, tables, history
<1>1. ASSUME NEW i \in Items, NEW o \in Orders, Post(i, o) PROVE TablesOK' /\ HistoryOK'
  <2>1. TablesOK' BY <1>1 DEF Post
  <2>2. owed' \subseteq Alerts BY <1>1, PostOwes
  <2>3. told' \subseteq Alerts BY <1>1 DEF Post
  <2> QED BY <1>1, <2>1, <2>2, <2>3 DEF Post
<1>2. ASSUME NEW i \in Items, NEW o \in Orders, Withdraw(i, o) PROVE TablesOK' /\ HistoryOK'
  BY <1>2 DEF Withdraw
<1>3. ASSUME NEW p \in Players, Register(p) \/ Unregister(p) PROVE TablesOK' /\ HistoryOK'
  BY <1>3 DEF Register, Unregister, EndSubs
<1>4. ASSUME NEW i \in Items, Track(i) \/ Untrack(i) \/ BecomeDue(i)
      PROVE  TablesOK' /\ HistoryOK'
  BY <1>4 DEF Track, Untrack, BecomeDue, EndSubs
<1>5. ASSUME NEW p \in Players, NEW i \in Items, Subscribe(p, i) \/ Unsubscribe(p, i)
      PROVE  TablesOK' /\ HistoryOK'
  BY <1>5 DEF Subscribe, Unsubscribe, EndSubs
<1> QED BY <1>1, <1>2, <1>3, <1>4, <1>5 DEF Environment

\* Every step of a poller leaves the tables and the history well typed.
LEMMA CycleKeepsTables ==
    ASSUME TypeOK, NEW c \in Pollers, Cycle(c)
    PROVE  TablesOK' /\ HistoryOK'
<1>0. TablesOK /\ HistoryOK /\ poll[c] \in PollState
  BY TypeParts DEF PollersOK
<1> USE DEF TablesOK, HistoryOK, tables, history
<1>1. CASE \/ BeginCycle(c) \/ Fetch(c) \/ Snapshot(c) \/ Diff(c) \/ ReadSubscribers(c)
           \/ Alerted(c) \/ ForgetSeen(c)
  BY <1>0, <1>1 DEF BeginCycle, Fetch, FetchOrders, FetchNothing, Snapshot, Diff,
                    ReadSubscribers, Alerted, ForgetSeen
<1>2. CASE Alert(c)
  <2>1. poll[c].item \in Items
    BY <1>2 DEF Alert, At, TypeOK
  <2>2. PICK p \in poll[c].targets :
          LET a == {p} \X {poll[c].item} \X {o \in poll[c].new : <<p, o>> \in Wants} IN
          /\ pending' \in {pending, pending \cup {<<p, poll[c].item>>}}
          /\ owed' = owed \ a
          /\ told' = told \cup a
          /\ twice' = (twice \/ a \cap told # {})
    BY <1>2 DEF Alert
  <2> DEFINE a == {p} \X {poll[c].item} \X {o \in poll[c].new : <<p, o>> \in Wants}
  <2>3. p \in Players /\ a \subseteq Alerts
    BY <1>0, <2>1 DEF PollState, Alerts
  <2>4. pending' \subseteq Players \X Items /\ owed' \subseteq Alerts /\ told' \subseteq Alerts
    BY <1>0, <2>1, <2>2, <2>3
  <2>5. twice' \in BOOLEAN
    BY <2>2
  <2> QED BY <1>0, <1>2, <2>4, <2>5 DEF Alert
<1>3. CASE RememberSeen(c)
  <2>1. poll[c].orders \cup poll[c].late \subseteq Orders
    BY <1>0 DEF PollState
  <2> QED BY <1>0, <1>3, <2>1 DEF RememberSeen
<1>4. CASE Stamp(c)
  BY <1>0, <1>4 DEF Stamp
<1>5. CASE ChatFails(c)
  BY <1>0, <1>5, PollerAssumption DEF ChatFails
<1> QED BY <1>1, <1>2, <1>3, <1>4, <1>5 DEF Cycle, Work

\* The tables, the pollers' local copies and the history of alerts are well typed,
\* whatever polls overlap, fail or die.
THEOREM TypeCorrect == Spec => []TypeOK
<1>1. Init => TypeOK
  <2> SUFFICES ASSUME Init PROVE TypeOK OBVIOUS
  <2>1. TablesOK BY DEF Init, TablesOK
  <2>2. PollersOK BY IdleType DEF Init, PollersOK, HasItem
  <2>3. faults \in 0..MaxFaults BY PollerAssumption DEF Init
  <2>4. HistoryOK BY <2>3 DEF Init, HistoryOK
  <2> QED BY <2>1, <2>2, <2>4, TypeParts
<1>2. TypeOK /\ [Next]_vars => TypeOK'
  <2> SUFFICES ASSUME TypeOK, [Next]_vars PROVE TypeOK' OBVIOUS
  <2>1. CASE UNCHANGED vars BY <2>1 DEF vars, TypeOK, tables, history
  <2>2. CASE Environment
    <3>1. PollersOK'
      BY <2>2, TypeParts, EnvironmentLeavesPollers DEF PollersOK
    <3> QED BY <2>2, <3>1, EnvironmentKeepsTables, TypePartsNext
  <2>3. CASE Crash
    <3>1. PollersOK'
      BY <2>3, IdleType DEF Crash, PollersOK, Idle
    <3>2. TablesOK' /\ HistoryOK'
      BY <2>3, TypeParts, PollerAssumption DEF Crash, TablesOK, HistoryOK, tables, history
    <3> QED BY <3>1, <3>2, TypePartsNext
  <2>4. ASSUME NEW c \in Pollers, Cycle(c) PROVE TypeOK'
    BY <2>4, CycleKeepsPollers, CycleKeepsTables, TypePartsNext
  <2> QED BY <2>1, <2>2, <2>3, <2>4 DEF Next
<1> QED BY <1>1, <1>2, PTL DEF Spec

-----------------------------------------------------------------------------
(* An owed order is never counted as seen.  A poller replaces what is seen  *)
(* with the orders it fetched, so from its diff on it must have settled     *)
(* every owed alert of those: they are among its new orders, then their     *)
(* players among its targets, and once it has alerted them none is left.    *)

\* What is owed about the orders a poller fetched.
Mine(c) == {a \in owed : a[2] = poll[c].item /\ a[3] \in poll[c].orders}

Settles(c) ==
    /\ poll[c].pc \in Phase \ {"idle", "next", "stamp"} => poll[c].orders # {}
    /\ poll[c].pc \in {"readSubs", "alert"} => \A a \in Mine(c) : a[3] \in poll[c].new
    /\ poll[c].pc = "alert" => \A a \in Mine(c) : a[1] \in poll[c].targets
    /\ poll[c].pc \in {"forget", "remember"} => Mine(c) = {}
    /\ poll[c].pc = "remember" => poll[c].late \subseteq seen[poll[c].item]

\* An owed alert stands, and an item with nothing seen, which the next poll takes
\* for its first, owes nothing.
Stands(a) ==
    /\ a[3] \in book[a[2]] /\ <<a[1], a[2]>> \in subs /\ <<a[1], a[3]>> \in Wants
    /\ seen[a[2]] # {}

OwedInv ==
    /\ \A i \in Items : book[i] # {}
    /\ \A a \in owed : Stands(a)
    /\ \A c \in Pollers : Settles(c)
    /\ OwedNeverSeen

\* What another's commit makes owed is of no order that is seen or held.
LEMMA EnvironmentOwes ==
    ASSUME TypeOK, Environment, NEW a \in owed', a \notin owed
    PROVE  /\ a \in Alerts
           /\ a[3] \in book'[a[2]] /\ <<a[1], a[2]>> \in subs' /\ <<a[1], a[3]>> \in Wants
           /\ a[3] \notin book[a[2]]
           /\ seen[a[2]] # {} /\ a[3] \notin seen[a[2]] /\ ~Held(a[2], a[3])
<1>1. PICK i \in Items, o \in Orders : Post(i, o)
  BY DEF Environment, Withdraw, Register, Unregister, Track, Untrack, BecomeDue,
         Subscribe, Unsubscribe, EndSubs, tables, history
<1>2. o \in book'[i] /\ o \notin book[i] /\ subs' = subs
  BY <1>1 DEF Post, tables, TypeOK
<1> DEFINE New(b) == /\ b \in Alerts /\ b[2] = i /\ b[3] = o
                     /\ <<b[1], i>> \in subs /\ <<b[1], o>> \in Wants
                     /\ seen[i] # {} /\ o \notin seen[i] /\ ~Held(i, o)
<1>3. New(a)
  <2>1. \A b \in owed' \ owed : New(b) BY <1>1, PostOwes
  <2> HIDE DEF New
  <2> QED BY <2>1
<1>4. a \in Alerts /\ a[2] = i /\ a[3] = o BY <1>3
<1>5. /\ <<a[1], i>> \in subs /\ <<a[1], o>> \in Wants
      /\ seen[i] # {} /\ o \notin seen[i] /\ ~Held(i, o)
  BY <1>3
<1> HIDE DEF New
<1> QED BY <1>2, <1>4, <1>5

\* What ends an order or a subscription ends what is owed of it.
LEMMA EnvironmentKeepsStanding ==
    ASSUME TypeOK, Environment, \A a \in owed : Stands(a), NEW a \in owed \cap owed'
    PROVE  Stands(a)'
<1>0. a \in Alerts /\ Stands(a) /\ seen' = seen
  BY EnvironmentLeavesPollers DEF TypeOK
<1> USE DEF Stands, tables, history, Alerts, TypeOK
<1>1. ASSUME NEW i \in Items, NEW o \in Orders, Post(i, o) \/ Withdraw(i, o) PROVE Stands(a)'
  BY <1>0, <1>1 DEF Post, Withdraw
<1>2. ASSUME NEW p \in Players, Register(p) \/ Unregister(p) PROVE Stands(a)'
  BY <1>0, <1>2 DEF Register, Unregister, EndSubs
<1>3. ASSUME NEW i \in Items, Track(i) \/ Untrack(i) \/ BecomeDue(i) PROVE Stands(a)'
  BY <1>0, <1>3 DEF Track, Untrack, BecomeDue, EndSubs
<1>4. ASSUME NEW p \in Players, NEW i \in Items, Subscribe(p, i) \/ Unsubscribe(p, i)
      PROVE  Stands(a)'
  BY <1>0, <1>4 DEF Subscribe, Unsubscribe, EndSubs
<1> QED BY <1>1, <1>2, <1>3, <1>4 DEF Environment

\* A poller whose local state stays settles what it settled, while nothing new is
\* owed of the orders it holds and nothing is forgotten.
LEMMA StaysSettled ==
    ASSUME NEW c \in Pollers, Settles(c), poll'[c] = poll[c], Mine(c)' \subseteq Mine(c),
           seen' = seen
    PROVE  Settles(c)'
BY DEF Settles

\* The commits of other calls leave what is owed standing, unseen and in the hands of
\* the pollers that hold it.
LEMMA EnvironmentKeepsOwedInv ==
    ASSUME TypeOK, ~MayEmpty, OwedInv, Environment
    PROVE  OwedInv'
<1>1. UNCHANGED <<seen, poll>>
  BY EnvironmentLeavesPollers
<1>2. \A i \in Items : book'[i] # {}
  <2>1. ASSUME NEW i \in Items, NEW o \in Orders, Post(i, o) \/ Withdraw(i, o)
        PROVE  \A j \in Items : book'[j] # {}
    BY <2>1 DEF OwedInv, Post, Withdraw, TypeOK
  <2>2. CASE UNCHANGED book
    BY <2>2 DEF OwedInv
  <2> QED BY <2>1, <2>2 DEF Environment, Register, Unregister, Track, Untrack, BecomeDue,
                            Subscribe, Unsubscribe, EndSubs, tables, history
<1>3. ASSUME NEW a \in owed' PROVE Stands(a)' /\ a[3] \notin seen'[a[2]]
  <2>1. CASE a \in owed
    BY <1>1, <2>1, EnvironmentKeepsStanding DEF OwedInv, OwedNeverSeen
  <2>2. CASE a \notin owed
    BY <1>1, <2>2, EnvironmentOwes DEF Stands
  <2> QED BY <2>1, <2>2
<1>4. ASSUME NEW c \in Pollers PROVE Settles(c)'
  <2>1. Mine(c)' \subseteq Mine(c)
    BY <1>1, EnvironmentOwes DEF Mine, Held
  <2> QED BY <1>1, <2>1, StaysSettled DEF OwedInv
<1> QED BY <1>2, <1>3, <1>4 DEF OwedInv, OwedNeverSeen

\* A step of a poller, but the one that replaces what is seen.
LEMMA CycleKeepsOwedInv ==
    ASSUME TypeOK, OwedInv, NEW c \in Pollers, Cycle(c), ~RememberSeen(c)
    PROVE  OwedInv'
<1>0. /\ UNCHANGED <<book, subs, seen>>
      /\ owed' \subseteq owed
      /\ \A d \in Pollers \ {c} : poll'[d] = poll[d]
  BY DEF Cycle, Fetch, Work, BeginCycle, FetchOrders, FetchNothing, Snapshot, Diff,
         ReadSubscribers, Alert, Alerted, ForgetSeen, Stamp, ChatFails, Set, Enter,
         tables, history, TypeOK
<1>1. \A a \in owed' : Stands(a)'
  BY <1>0 DEF OwedInv, Stands
<1>2. OwedNeverSeen'
  BY <1>0 DEF OwedInv, OwedNeverSeen
<1>3. ASSUME NEW d \in Pollers \ {c} PROVE Settles(d)'
  BY <1>0, StaysSettled DEF OwedInv, Mine
<1>4. Settles(c)'
  <2>0. /\ Settles(c) /\ poll \in [Pollers -> PollState]
        /\ \A a \in owed : a \in Alerts /\ Stands(a) /\ a[3] \notin seen[a[2]]
        /\ Mine(c) \subseteq owed
    BY DEF OwedInv, OwedNeverSeen, TypeOK, Mine
  <2> USE DEF At, Set, Enter, Idle
  <2>1. CASE poll'[c].pc \in {"idle", "next", "stamp"}
    BY <2>1 DEF Settles
  <2>2. ASSUME NEW i \in Items, FetchOrders(c, i) PROVE Settles(c)'
    <3>1. poll'[c].pc = "snapshot" /\ poll'[c].orders = book[i]
      BY <2>0, <2>2 DEF FetchOrders
    <3> QED BY <3>1 DEF Settles, OwedInv
  <2>3. ASSUME NEW pc \in Phase, Enter(c, pc), owed' = owed, Mine(c) = {} \/ pc = "diff",
               pc # "remember", poll[c].pc \notin {"idle", "next", "stamp"}
        PROVE  Settles(c)'
    <3>1. /\ poll'[c].pc = pc /\ poll'[c].orders = poll[c].orders
          /\ Mine(c)' = Mine(c)
      BY <2>0, <2>3 DEF PollState, Mine
    <3>2. poll[c].orders # {} BY <2>0, <2>3 DEF Settles, PollState
    <3> QED BY <2>3, <3>1, <3>2 DEF Settles
  <2>4. CASE Snapshot(c) /\ poll[c].item \in watch
    BY <2>3, <2>4 DEF Snapshot, Phase, history
  <2>5. CASE Diff(c)
    <3> DEFINE known == seen[poll[c].item]
               new == IF known = {} THEN {} ELSE poll[c].orders \ known
    <3>1. /\ poll[c].pc = "diff" /\ owed' = owed
          /\ poll'[c].pc = (IF new = {} THEN "forget" ELSE "readSubs")
          /\ poll'[c].new = new
          /\ poll'[c].orders = poll[c].orders /\ Mine(c)' = Mine(c)
      BY <2>0, <2>5 DEF Diff, PollState, Mine, history
    <3>2. \A a \in Mine(c) : a[3] \in new
      BY <2>0 DEF Mine, Stands
    <3>3. poll[c].orders # {} BY <2>0, <3>1 DEF Settles, Phase
    <3> HIDE DEF new
    <3> QED BY <3>1, <3>2, <3>3 DEF Settles
  <2>6. CASE ReadSubscribers(c)
    <3> DEFINE to == {p \in Players : /\ <<p, poll[c].item>> \in subs
                                      /\ \E o \in poll[c].new : <<p, o>> \in Wants}
    <3>1. /\ poll[c].pc = "readSubs" /\ owed' = owed
          /\ poll'[c].pc = "alert" /\ poll'[c].targets = to
          /\ poll'[c].orders = poll[c].orders /\ poll'[c].new = poll[c].new
          /\ Mine(c)' = Mine(c)
      BY <2>0, <2>6 DEF ReadSubscribers, PollState, Mine, history
    <3>2. \A a \in Mine(c) : a[3] \in poll[c].new /\ poll[c].orders # {}
      BY <2>0, <3>1 DEF Settles, Phase
    <3>3. \A a \in Mine(c) : a[1] \in to
      BY <2>0, <3>2 DEF Mine, Stands, Alerts
    <3>4. poll[c].orders # {} BY <2>0, <3>1 DEF Settles, Phase
    <3> HIDE DEF to
    <3> QED BY <3>1, <3>2, <3>3, <3>4 DEF Settles
  <2>7. CASE Alert(c)
    <3>1. PICK p \in poll[c].targets :
            LET a == {p} \X {poll[c].item} \X {o \in poll[c].new : <<p, o>> \in Wants} IN
            owed' = owed \ a /\ poll' = [poll EXCEPT ![c].targets = @ \ {p}]
      BY <2>7 DEF Alert
    <3>2. /\ poll[c].pc = "alert" /\ poll'[c].pc = "alert"
          /\ poll'[c].orders = poll[c].orders /\ poll'[c].new = poll[c].new
          /\ poll'[c].item = poll[c].item /\ poll'[c].targets = poll[c].targets \ {p}
      BY <2>0, <2>7, <3>1 DEF Alert, PollState
    <3>3. ASSUME NEW a \in Mine(c)' PROVE a[1] \in poll'[c].targets /\ a[3] \in poll'[c].new
      <4>1. a \in Mine(c)
        BY <1>0, <3>2, <3>3 DEF Mine
      <4>2. a[1] \in poll[c].targets /\ a[3] \in poll[c].new
        BY <2>0, <3>2, <4>1 DEF Settles
      <4>3. a[1] # p
        <5> SUFFICES ASSUME a[1] = p PROVE FALSE OBVIOUS
        <5>0. a \in Alerts /\ a[2] = poll[c].item /\ <<p, a[3]>> \in Wants
          BY <2>0, <4>1 DEF Mine, Stands
        <5>1. a = <<p, poll[c].item, a[3]>>
          BY <5>0 DEF Alerts
        <5>2. a \in {p} \X {poll[c].item} \X {o \in poll[c].new : <<p, o>> \in Wants}
          BY <4>2, <5>0, <5>1
        <5> QED BY <3>1, <3>3, <5>2 DEF Mine
      <4> QED BY <3>2, <4>2, <4>3
    <3>4. poll[c].orders # {} BY <2>0, <3>2 DEF Settles, Phase
    <3> QED BY <3>2, <3>3, <3>4 DEF Settles
  <2>8. CASE Alerted(c)
    <3>1. poll[c].pc = "alert" /\ Mine(c) = {}
      BY <2>0, <2>8 DEF Alerted, Settles
    <3> QED BY <2>3, <2>8, <3>1 DEF Alerted, Phase, history
  <2>9. CASE ForgetSeen(c)
    <3>1. /\ poll[c].pc = "forget" /\ owed' = owed
          /\ poll'[c].pc = "remember" /\ poll'[c].orders = poll[c].orders
          /\ poll'[c].late = {} /\ Mine(c)' = Mine(c)
      BY <2>0, <2>9 DEF ForgetSeen, PollState, Mine, history
    <3> QED BY <2>0, <3>1 DEF Settles, Phase
  <2>10. CASE \/ BeginCycle(c) \/ (\E i \in Items : FetchNothing(c, i))
              \/ (Snapshot(c) /\ poll[c].item \notin watch) \/ Stamp(c) \/ ChatFails(c)
    <3>1. CASE BeginCycle(c)
      <4>1. PICK b : poll'[c] = [Idle EXCEPT !.pc = "next", !.todo = b]
        BY <2>0, <3>1 DEF BeginCycle
      <4> QED BY <2>1, <4>1
    <3>2. CASE Stamp(c)
      <4>1. \/ poll'[c] = Idle
            \/ \E b : poll'[c] = [Idle EXCEPT !.pc = "next", !.todo = b]
        BY <2>0, <3>2 DEF Stamp
      <4>2. Idle.pc = "idle" /\ \A b : [Idle EXCEPT !.pc = "next", !.todo = b].pc = "next"
        BY DEF Idle
      <4> QED BY <2>1, <4>1, <4>2
    <3>3. ASSUME NEW i \in Items, FetchNothing(c, i) PROVE Settles(c)'
      BY <2>0, <2>1, <3>3 DEF FetchNothing, PollState
    <3>4. CASE (Snapshot(c) /\ poll[c].item \notin watch) \/ ChatFails(c)
      BY <2>0, <2>1, <3>4 DEF Snapshot, ChatFails
    <3> QED BY <2>10, <3>1, <3>2, <3>3, <3>4
  <2> QED BY <2>2, <2>4, <2>5, <2>6, <2>7, <2>8, <2>9, <2>10 DEF Cycle, Fetch, Work
<1> QED BY <1>0, <1>1, <1>2, <1>3, <1>4 DEF OwedInv

\* The poller that replaces what is seen owes nothing of its orders, and what
\* another one inserted meanwhile was seen already.
LEMMA RememberKeepsOwedInv ==
    ASSUME TypeOK, OwedInv, NEW c \in Pollers, RememberSeen(c)
    PROVE  OwedInv'
<1> DEFINE i == poll[c].item
           rows == poll[c].orders \cup poll[c].late
<1>0. /\ i \in Items /\ UNCHANGED <<book, subs, owed>>
      /\ seen' = [seen EXCEPT ![i] = rows]
      /\ poll[c].orders # {} /\ Mine(c) = {} /\ poll[c].late \subseteq seen[i]
  BY DEF RememberSeen, At, TypeOK, OwedInv, Settles, history, Phase
<1>1. ASSUME NEW a \in owed PROVE seen'[a[2]] # {} /\ a[3] \notin seen'[a[2]]
  <2>1. CASE a[2] = i
    <3>1. a[3] \notin poll[c].orders
      BY <1>0, <1>1, <2>1 DEF Mine
    <3>2. a[3] \notin poll[c].late
      BY <1>0, <1>1, <2>1 DEF OwedInv, OwedNeverSeen
    <3> QED BY <1>0, <2>1, <3>1, <3>2 DEF TypeOK
  <2>2. CASE a[2] # i
    BY <1>0, <2>2 DEF OwedInv, Stands, OwedNeverSeen, TypeOK, Alerts
  <2> QED BY <2>1, <2>2
<1>2. ASSUME NEW d \in Pollers PROVE Settles(d)'
  <2>0. Settles(d) /\ d \in DOMAIN poll
    BY DEF OwedInv, TypeOK
  <2>1. CASE d = c
    BY <1>0, <2>1 DEF RememberSeen, Settles, Mine, Phase, TypeOK, PollState
  <2>2. CASE d # c /\ poll[d].pc = "remember" /\ poll[d].item = i
    BY <1>0, <2>0, <2>2 DEF RememberSeen, Settles, Mine, Phase, TypeOK, PollState
  <2>3. CASE d # c /\ ~(poll[d].pc = "remember" /\ poll[d].item = i)
    BY <1>0, <2>0, <2>3 DEF RememberSeen, Settles, Mine, TypeOK
  <2> QED BY <2>1, <2>2, <2>3
<1> QED BY <1>0, <1>1, <1>2 DEF OwedInv, OwedNeverSeen, Stands

\* The inductive invariant.  A book that becomes empty would break it: nothing is
\* then seen of the item, and its next poll is taken for the first.
LEMMA OwedInvariant == ~MayEmpty => (Spec => []OwedInv)
<1>1. Init /\ ~MayEmpty => OwedInv
  BY DEF Init, OwedInv, OwedNeverSeen, Settles, Idle
<1>2. TypeOK /\ ~MayEmpty /\ OwedInv /\ [Next]_vars => OwedInv'
  <2> SUFFICES ASSUME TypeOK, ~MayEmpty, OwedInv, [Next]_vars PROVE OwedInv' OBVIOUS
  <2>1. CASE UNCHANGED vars
    BY <2>1 DEF vars, tables, history, OwedInv, OwedNeverSeen, Stands, Settles, Mine
  <2>2. CASE Environment BY <2>2, EnvironmentKeepsOwedInv
  <2>3. CASE Crash
    BY <2>3 DEF Crash, tables, history, OwedInv, OwedNeverSeen, Stands, Settles, Idle
  <2>4. ASSUME NEW c \in Pollers, Cycle(c) PROVE OwedInv'
    BY <2>4, CycleKeepsOwedInv, RememberKeepsOwedInv
  <2> QED BY <2>1, <2>2, <2>3, <2>4 DEF Next
<1>3. ASSUME ~MayEmpty PROVE Spec => []OwedInv
  <2>1. Init => OwedInv BY <1>1, <1>3
  <2>2. TypeOK /\ OwedInv /\ [Next]_vars => OwedInv' BY <1>2, <1>3
  <2> QED BY <2>1, <2>2, TypeCorrect, PTL DEF Spec
<1> QED BY <1>3

\* Whatever polls overlap, fail half way or die, an order owed to a subscriber is
\* not counted as seen, as long as no item's order book becomes empty: an item
\* with an empty book is polled for the first time over and over.
THEOREM OwedIsNeverSeen == ~MayEmpty => (Spec => []OwedNeverSeen)
<1>1. OwedInv => OwedNeverSeen
  BY DEF OwedInv
<1>2. ASSUME ~MayEmpty PROVE Spec => []OwedNeverSeen
  <2>1. Spec => []OwedInv BY <1>2, OwedInvariant
  <2> QED BY <1>1, <2>1, PTL
<1> QED BY <1>2

-----------------------------------------------------------------------------
(* The refinement of AlertSpec: the commits of other calls are its Change,  *)
(* alerting one subscriber is its Tell and replacing what is seen its Learn. *)

standing == {a \in Alerts : /\ a[3] \in book[a[2]]
                            /\ <<a[1], a[2]>> \in subs /\ <<a[1], a[3]>> \in Wants}
known == {k \in Items \X Orders : k[2] \in seen[k[1]]}

\* A commit of another call that changes what is told forgets what was told of an
\* order that is not on the market.
LEMMA EnvironmentTells ==
    ASSUME Environment, NEW a \in told, a \notin told', told \subseteq Alerts
    PROVE  told' \subseteq told /\ a \notin standing
BY DEF Environment, Post, Withdraw, Register, Unregister, Track, Untrack, BecomeDue,
       Subscribe, Unsubscribe, EndSubs, tables, history, standing

\* A commit of another call is a change of the world to the abstract specification.
LEMMA EnvironmentImplementsChange ==
    ASSUME TypeOK, OwedInv, OwedInv', TypeOK', Environment
    PROVE  Alerting!Change
<1>1. known' = known
  BY EnvironmentLeavesPollers DEF known
<1>2. owed \subseteq standing /\ owed' \subseteq standing'
  BY DEF OwedInv, Stands, standing, TypeOK
<1>3. ASSUME NEW a \in owed' \ owed
      PROVE  a \in standing' \ standing /\ <<a[2], a[3]>> \notin known
  <2>1. a[3] \notin book[a[2]] /\ a[3] \notin seen[a[2]]
    BY <1>3, EnvironmentOwes
  <2> QED BY <1>2, <1>3, <2>1 DEF standing, known
<1>4. ASSUME NEW a \in owed \ owed' PROVE a \notin standing'
  <2>0. a \in Alerts BY DEF TypeOK
  <2> USE DEF standing, tables, history, Alerts, TypeOK
  <2>1. ASSUME NEW i \in Items, NEW o \in Orders, Post(i, o) \/ Withdraw(i, o)
        PROVE  a \notin standing'
    BY <1>4, <2>0, <2>1, PostOwes DEF Withdraw
  <2>2. ASSUME NEW p \in Players, Register(p) \/ Unregister(p) PROVE a \notin standing'
    BY <1>4, <2>0, <2>2 DEF Register, Unregister, EndSubs
  <2>3. ASSUME NEW i \in Items, Track(i) \/ Untrack(i) \/ BecomeDue(i)
        PROVE  a \notin standing'
    BY <1>4, <2>0, <2>3 DEF Track, Untrack, BecomeDue, EndSubs
  <2>4. ASSUME NEW p \in Players, NEW i \in Items, Subscribe(p, i) \/ Unsubscribe(p, i)
        PROVE  a \notin standing'
    BY <1>4, <2>0, <2>4 DEF Subscribe, Unsubscribe, EndSubs
  <2> QED BY <2>1, <2>2, <2>3, <2>4 DEF Environment
<1>5. told' \subseteq told /\ (told \ told') \cap standing = {}
  <2>1. told \subseteq Alerts BY DEF TypeOK
  <2>2. told' \subseteq told
    BY DEF Environment, Post, Withdraw, Register, Unregister, Track, Untrack, BecomeDue,
           Subscribe, Unsubscribe, EndSubs, tables, history
  <2> QED BY <2>1, <2>2, EnvironmentTells
<1>6. standing' \subseteq Alerts
  BY DEF standing
<1> HIDE DEF standing, known
<1> QED BY <1>1, <1>2, <1>3, <1>4, <1>5, <1>6
        DEF Alerting!Change, Alerting!Alerts, Alerting!Order, standing, known, Alerts

\* The poll cycle implements AlertSpec: every step of poll_market is a telling, a
\* learning of what is owed to nobody any more, or no step, as long as no order book
\* becomes empty.
THEOREM AlertingImplemented == ~MayEmpty => (Spec => ImplementsAlerting)
<1>1. Init => Alerting!Init
  BY DEF Init, Alerting!Init, Alerting!Alerts, Alerts
<1>2. TypeOK /\ TypeOK' /\ OwedInv /\ OwedInv' /\ [Next]_vars => [Alerting!Next]_(Alerting!avars)
  <2> SUFFICES ASSUME TypeOK, TypeOK', OwedInv, OwedInv', [Next]_vars
               PROVE  Alerting!Next \/ UNCHANGED Alerting!avars
    OBVIOUS
  <2>1. CASE UNCHANGED <<book, subs, seen, owed, told>>
    BY <2>1 DEF Alerting!avars
  <2>2. CASE Environment
    BY <2>2, EnvironmentImplementsChange DEF Alerting!Next
  <2>3. ASSUME NEW c \in Pollers, Alert(c) PROVE Alerting!Next \/ UNCHANGED Alerting!avars
    <3>1. PICK p \in poll[c].targets :
            LET a == {p} \X {poll[c].item} \X {o \in poll[c].new : <<p, o>> \in Wants} IN
            owed' = owed \ a /\ told' = told \cup a
      BY <2>3 DEF Alert
    <3> DEFINE a == {p} \X {poll[c].item} \X {o \in poll[c].new : <<p, o>> \in Wants}
    <3>6. /\ poll[c].pc = "alert" /\ poll[c] \in PollState
          /\ poll[c].pc \notin {"idle", "next"} => poll[c].item \in Items
      BY <2>3 DEF Alert, At, TypeOK
    <3>7. poll[c].item \in Items /\ poll[c].targets \subseteq Players /\ poll[c].new \subseteq Orders
      BY <3>6 DEF PollState
    <3>2. a \subseteq Alerts
      BY <3>1, <3>7 DEF Alerts
    <3>3. UNCHANGED <<book, subs, seen>>
      BY <2>3 DEF Alert
    <3>4. CASE a = {}
      BY <3>1, <3>3, <3>4 DEF Alerting!avars
    <3>5. CASE a # {}
      BY <3>1, <3>2, <3>3, <3>5 DEF Alerting!Next, Alerting!Tell, Alerting!Alerts, Alerts
    <3> QED BY <3>4, <3>5
  <2>4. ASSUME NEW c \in Pollers, RememberSeen(c) PROVE Alerting!Learn
    <3>1. poll[c].item \in Items /\ UNCHANGED <<book, subs, owed, told>>
      BY <2>4 DEF RememberSeen, At, TypeOK, history
    <3>2. \A i \in Items \ {poll[c].item} : seen'[i] = seen[i]
      BY <2>4 DEF RememberSeen, TypeOK
    <3>3. \A k \in (known \cup known') \ (known \cap known') : k[1] = poll[c].item
      BY <3>2 DEF known
    <3>4. known' \cap {<<a[2], a[3]>> : a \in owed} = {}
      BY <3>1 DEF known, OwedInv, OwedNeverSeen
    <3> QED BY <3>1, <3>3, <3>4 DEF Alerting!Learn, Alerting!Order, known
  <2>5. CASE Crash
    BY <2>1, <2>5 DEF Crash, tables, history
  <2>6. ASSUME NEW c \in Pollers, Cycle(c), ~Alert(c), ~RememberSeen(c)
        PROVE  UNCHANGED <<book, subs, seen, owed, told>>
    BY <2>6 DEF Cycle, Fetch, Work, BeginCycle, FetchOrders, FetchNothing, Snapshot, Diff,
                ReadSubscribers, Alerted, ForgetSeen, Stamp, ChatFails, tables, history
  <2>7. CASE UNCHANGED vars
    BY <2>1, <2>7 DEF vars, tables, history
  <2> QED BY <2>1, <2>2, <2>3, <2>4, <2>5, <2>6, <2>7 DEF Next, Alerting!Next
<1>3. ASSUME ~MayEmpty PROVE Spec => ImplementsAlerting
  <2>1. Spec => []OwedInv
    BY <1>3, OwedInvariant
  <2> QED BY <1>1, <1>2, <2>1, TypeCorrect, PTL DEF Spec, ImplementsAlerting, Alerting!Spec
<1> QED BY <1>3

-----------------------------------------------------------------------------
(* Polls that neither overlap nor are cut short tell nobody twice.  What was *)
(* told of an order that is still on the market is either seen or about to  *)
(* be, and the poll that fetched an order already told finds it seen.       *)

Fetched == {"snapshot", "diff", "readSubs", "alert", "forget", "remember"}

\* The poller has been alerting about the order, and will count it as seen.
AboutToSee(c, a) ==
    /\ poll[c].pc \in {"alert", "forget", "remember"}
    /\ poll[c].item = a[2] /\ a[3] \in poll[c].orders

\* What a poller knows of an alert already given.
Heeds(c, a) ==
    a[2] = poll[c].item =>
        /\ poll[c].pc \in Fetched /\ a[3] \in book[a[2]] => a[3] \in poll[c].orders
        /\ poll[c].pc \in {"snapshot", "diff"} /\ a[3] \in poll[c].orders => a[3] \in seen[a[2]]
        /\ poll[c].pc = "readSubs" => a[3] \notin poll[c].new
        /\ poll[c].pc = "alert" /\ a[3] \in poll[c].new => a[1] \notin poll[c].targets

ToldInv ==
    faults = 0 =>
        /\ ~twice
        /\ \A c \in Pollers :
             poll[c].pc \in {"readSubs", "alert"} => poll[c].new \subseteq poll[c].orders
        /\ \A a \in told : \A c \in Pollers : Heeds(c, a)
        /\ \A a \in told :
             a[3] \in book[a[2]] => a[3] \in seen[a[2]] \/ \E c \in Pollers : AboutToSee(c, a)

\* A posting forgets what was told of its order; the rest is as it was.
LEMMA EnvironmentKeepsToldInv ==
    ASSUME TypeOK, ToldInv, Environment
    PROVE  ToldInv'
<1>1. UNCHANGED <<seen, poll, faults, twice>>
  BY EnvironmentLeavesPollers
<1>2. ASSUME NEW a \in told' PROVE a \in told /\ (a[3] \in book'[a[2]] => a[3] \in book[a[2]])
  <2>1. ASSUME NEW i \in Items, NEW o \in Orders, Post(i, o) \/ Withdraw(i, o)
        PROVE  a \in told /\ (a[3] \in book'[a[2]] => a[3] \in book[a[2]])
    <3>1. told' \subseteq told /\ (Post(i, o) => a[2] # i \/ a[3] # o)
      BY <1>2, <2>1 DEF Post, Withdraw
    <3>2. a[2] \in Items
      BY <1>2, <3>1 DEF TypeOK, Alerts
    <3>3. CASE Post(i, o)
      <4>1. book' = [book EXCEPT ![i] = @ \cup {o}] BY <3>3 DEF Post
      <4> QED BY <1>2, <3>1, <3>2, <3>3, <4>1 DEF TypeOK
    <3>4. CASE Withdraw(i, o)
      <4>1. book' = [book EXCEPT ![i] = @ \ {o}] BY <3>4 DEF Withdraw
      <4> QED BY <1>2, <3>1, <3>2, <4>1 DEF TypeOK
    <3> QED BY <2>1, <3>3, <3>4
  <2>2. CASE UNCHANGED <<book, told>>
    BY <1>2, <2>2
  <2> QED BY <2>1, <2>2 DEF Environment, Register, Unregister, Track, Untrack, BecomeDue,
                            Subscribe, Unsubscribe, EndSubs, tables, history
<1> QED BY <1>1, <1>2 DEF ToldInv, Heeds, AboutToSee

\* A step of the only poller, in a state without faults.
LEMMA CycleKeepsToldInv ==
    ASSUME TypeOK, ToldInv, faults = 0, NEW c \in Pollers, Pollers = {c}, Cycle(c),
           faults' = 0
    PROVE  ToldInv'
<1>0. /\ poll \in [Pollers -> PollState] /\ told \subseteq Alerts
      /\ \A a \in told : Heeds(c, a)
      /\ \A a \in told : a[3] \in book[a[2]] => a[3] \in seen[a[2]] \/ AboutToSee(c, a)
      /\ poll[c].pc \in {"readSubs", "alert"} => poll[c].new \subseteq poll[c].orders
      /\ ~twice
  BY DEF ToldInv, TypeOK
<1> SUFFICES /\ ~twice'
             /\ poll'[c].pc \in {"readSubs", "alert"} => poll'[c].new \subseteq poll'[c].orders
             /\ \A a \in told' : Heeds(c, a)'
             /\ \A a \in told' : a[3] \in book'[a[2]] => a[3] \in seen'[a[2]] \/ AboutToSee(c, a)'
  BY DEF ToldInv
<1>00. book' = book
  BY DEF Cycle, Fetch, Work, BeginCycle, FetchOrders, FetchNothing, Snapshot, Diff,
         ReadSubscribers, Alert, Alerted, ForgetSeen, RememberSeen, Stamp, ChatFails
<1> USE DEF At, Set, Enter
<1>1. CASE BeginCycle(c)
  <2>1. PICK b : poll'[c] = [Idle EXCEPT !.pc = "next", !.todo = b]
    BY <1>0, <1>1 DEF BeginCycle
  <2>2. poll'[c].pc = "next" /\ poll[c].pc = "idle" /\ UNCHANGED <<seen, told, twice>>
    BY <1>1, <2>1 DEF Idle, BeginCycle, tables, history
  <2> QED BY <1>0, <1>00, <2>2 DEF Heeds, AboutToSee, Fetched
<1>2. ASSUME NEW i \in Items, FetchOrders(c, i) PROVE ToldInv'
  <2>1. /\ poll'[c].pc = "snapshot" /\ poll'[c].item = i /\ poll'[c].orders = book[i]
        /\ poll[c].pc = "next" /\ UNCHANGED <<seen, told, twice>>
    BY <1>0, <1>2 DEF FetchOrders, tables, history
  <2>2. \A a \in told : Heeds(c, a)'
    BY <1>0, <1>00, <2>1 DEF Heeds, AboutToSee, Fetched
  <2> QED BY <1>0, <1>00, <2>1, <2>2 DEF ToldInv, AboutToSee
<1>3. ASSUME NEW i \in Items, FetchNothing(c, i) PROVE ToldInv'
  <2>1. /\ poll'[c].pc = "stamp" /\ poll[c].pc = "next" /\ UNCHANGED <<seen, told, twice>>
    BY <1>0, <1>3 DEF FetchNothing, tables, history, PollState
  <2> QED BY <1>0, <1>00, <2>1 DEF Heeds, AboutToSee, Fetched, ToldInv
<1>4. CASE Snapshot(c)
  <2>1. /\ poll[c].pc = "snapshot" /\ UNCHANGED <<seen, told, twice>>
        /\ \/ poll'[c] = [poll[c] EXCEPT !.pc = "diff"]
           \/ poll'[c] = Idle
    BY <1>0, <1>4 DEF Snapshot, tables, history
  <2>2. CASE poll'[c] = [poll[c] EXCEPT !.pc = "diff"]
    BY <1>0, <1>00, <2>1, <2>2 DEF Heeds, AboutToSee, Fetched, PollState
  <2>3. CASE poll'[c] = Idle
    BY <1>0, <1>00, <2>1, <2>3 DEF Heeds, AboutToSee, Fetched, Idle
  <2> QED BY <2>1, <2>2, <2>3
<1>5. CASE Diff(c)
  <2> DEFINE before == seen[poll[c].item]
             new == IF before = {} THEN {} ELSE poll[c].orders \ before
  <2>1. /\ poll[c].pc = "diff" /\ UNCHANGED <<seen, told, twice>>
        /\ poll'[c].pc = (IF new = {} THEN "forget" ELSE "readSubs")
        /\ poll'[c].new = new /\ poll'[c].orders = poll[c].orders
        /\ poll'[c].item = poll[c].item
    BY <1>0, <1>5 DEF Diff, tables, history, PollState
  <2>2. new \subseteq poll[c].orders \ before OBVIOUS
  <2>3. poll'[c].pc \in {"forget", "readSubs"}
    BY <2>1
  <2> HIDE DEF new
  <2>4. \A a \in told : Heeds(c, a)'
    BY <1>0, <1>00, <2>1, <2>2, <2>3 DEF Heeds, Fetched
  <2> QED BY <1>0, <1>00, <2>1, <2>2, <2>4 DEF AboutToSee
<1>6. CASE ReadSubscribers(c)
  <2>1. /\ poll[c].pc = "readSubs" /\ poll'[c].pc = "alert" /\ UNCHANGED <<seen, told, twice>>
        /\ poll'[c].new = poll[c].new /\ poll'[c].orders = poll[c].orders
        /\ poll'[c].item = poll[c].item
    BY <1>0, <1>6 DEF ReadSubscribers, tables, history, PollState
  <2> QED BY <1>0, <1>00, <2>1 DEF Heeds, AboutToSee, Fetched
<1>7. CASE Alert(c)
  <2> DEFINE given(p) == {p} \X {poll[c].item} \X {o \in poll[c].new : <<p, o>> \in Wants}
  <2>1. PICK p \in poll[c].targets :
          /\ told' = told \cup given(p)
          /\ twice' = (twice \/ given(p) \cap told # {})
          /\ poll' = [poll EXCEPT ![c].targets = @ \ {p}]
    BY <1>7 DEF Alert
  <2>2. /\ poll[c].pc = "alert" /\ poll'[c].pc = "alert" /\ seen' = seen
        /\ poll'[c].new = poll[c].new /\ poll'[c].orders = poll[c].orders
        /\ poll'[c].item = poll[c].item /\ poll'[c].targets = poll[c].targets \ {p}
    BY <1>0, <1>7, <2>1 DEF Alert, PollState
  <2>3. \A a \in given(p) : a[1] = p /\ a[2] = poll[c].item /\ a[3] \in poll[c].new
    OBVIOUS
  <2> HIDE DEF given
  <2>4. given(p) \cap told = {}
    BY <1>0, <2>2, <2>3 DEF Heeds
  <2>5. \A a \in told' : Heeds(c, a)'
    BY <1>0, <1>00, <2>1, <2>2, <2>3 DEF Heeds, Fetched
  <2>6. \A a \in told' : a[3] \in book'[a[2]] => a[3] \in seen'[a[2]] \/ AboutToSee(c, a)'
    BY <1>0, <1>00, <2>1, <2>2, <2>3 DEF AboutToSee
  <2>7. ~twice'
    BY <1>0, <2>1, <2>4
  <2> QED BY <1>0, <2>2, <2>5, <2>6, <2>7
<1>8. CASE Alerted(c) \/ ForgetSeen(c)
  <2>1. /\ poll[c].pc \in {"alert", "forget"} /\ poll'[c].pc \in {"forget", "remember"}
        /\ UNCHANGED <<seen, told, twice>>
        /\ poll'[c].orders = poll[c].orders /\ poll'[c].item = poll[c].item
    <3>1. CASE Alerted(c)
      BY <1>0, <3>1 DEF Alerted, tables, history, PollState
    <3>2. CASE ForgetSeen(c)
      <4>1. poll' = [poll EXCEPT ![c] = [poll[c] EXCEPT !.pc = "remember", !.late = {}]]
            /\ poll[c].pc = "forget" /\ UNCHANGED <<seen, told, twice>>
        BY <3>2 DEF ForgetSeen, tables, history
      <4>2. poll'[c] = [poll[c] EXCEPT !.pc = "remember", !.late = {}] BY <1>0, <4>1
      <4> QED BY <1>0, <4>1, <4>2 DEF PollState
    <3> QED BY <1>8, <3>1, <3>2
  <2>2. \A a \in told' : Heeds(c, a)'
    BY <1>0, <1>00, <2>1 DEF Heeds, Fetched
  <2>3. \A a \in told' : a[3] \in book'[a[2]] => a[3] \in seen'[a[2]] \/ AboutToSee(c, a)'
    BY <1>0, <1>00, <2>1 DEF AboutToSee
  <2> QED BY <1>0, <2>1, <2>2, <2>3
<1>9. CASE RememberSeen(c)
  <2>1. /\ poll[c].pc = "remember" /\ poll'[c].pc = "stamp" /\ UNCHANGED <<told, twice>>
        /\ \A i \in Items \ {poll[c].item} : seen'[i] = seen[i]
        /\ poll[c].item \in Items /\ poll[c].orders \subseteq seen'[poll[c].item]
    BY <1>0, <1>9 DEF RememberSeen, history, PollState, TypeOK
  <2>2. \A a \in told : a[2] \in Items
    BY <1>0 DEF Alerts
  <2>3. ASSUME NEW a \in told, a[3] \in book[a[2]] PROVE a[3] \in seen'[a[2]]
    <3>1. CASE a[2] = poll[c].item
      BY <1>0, <2>1, <2>3, <3>1 DEF Heeds, Fetched
    <3>2. CASE a[2] # poll[c].item
      BY <1>0, <2>1, <2>2, <2>3, <3>2 DEF AboutToSee
    <3> QED BY <3>1, <3>2
  <2> QED BY <1>0, <1>00, <2>1, <2>3 DEF Heeds, Fetched
<1>10. CASE Stamp(c)
  <2>1. \/ poll'[c] = Idle
        \/ \E b : poll'[c] = [Idle EXCEPT !.pc = "next", !.todo = b]
    BY <1>0, <1>10 DEF Stamp
  <2>2. Idle.pc = "idle" /\ \A b : [Idle EXCEPT !.pc = "next", !.todo = b].pc = "next"
    BY DEF Idle
  <2>3. poll'[c].pc \in {"idle", "next"} /\ poll[c].pc = "stamp" /\ UNCHANGED <<seen, told, twice>>
    BY <1>10, <2>1, <2>2 DEF Stamp, history
  <2> QED BY <1>0, <1>00, <2>3 DEF Heeds, AboutToSee, Fetched
<1>11. ~ChatFails(c)
  BY DEF ChatFails
<1> QED BY <1>1, <1>2, <1>3, <1>4, <1>5, <1>6, <1>7, <1>8, <1>9, <1>10, <1>11, <1>0
        DEF Cycle, Fetch, Work, ToldInv

\* Without faults and with at most one poll at a time, nobody is told twice of one
\* posted order, whatever is posted, withdrawn, tracked and subscribed meanwhile.
THEOREM NobodyToldTwice == Spec => []ToldOnce
<1>1. CASE Cardinality(Pollers) > 1
  <2>1. ToldOnce BY <1>1 DEF ToldOnce
  <2> QED BY <2>1, PTL
<1>2. CASE ~(Cardinality(Pollers) > 1)
  <2>1. ASSUME NEW c \in Pollers PROVE Pollers = {c}
    <3> SUFFICES ASSUME NEW d \in Pollers, d # c PROVE FALSE OBVIOUS
    <3>1. IsFiniteSet({c}) /\ Cardinality({c}) = 1
      BY FS_Singleton
    <3>2. Cardinality({c} \cup {d}) = 2
      BY <3>1, FS_AddElement
    <3>3. Cardinality({c} \cup {d}) <= Cardinality(Pollers) /\ Cardinality(Pollers) \in Nat
      BY PollerAssumption, FS_Subset, FS_CardinalityType
    <3> QED BY <1>2, <3>2, <3>3
  <2>2. Init => ToldInv
    BY DEF Init, ToldInv, Idle
  <2>3. TypeOK /\ ToldInv /\ [Next]_vars => ToldInv'
    <3> SUFFICES ASSUME TypeOK, ToldInv, [Next]_vars PROVE ToldInv' OBVIOUS
    <3>1. CASE UNCHANGED vars
      BY <3>1 DEF vars, tables, history, ToldInv, Heeds, AboutToSee
    <3>2. CASE Environment
      BY <3>2, EnvironmentKeepsToldInv
    <3>3. CASE Crash
      BY <3>3 DEF Crash, ToldInv, TypeOK
    <3>4. ASSUME NEW c \in Pollers, Cycle(c) PROVE ToldInv'
      <4>1. CASE faults = 0 /\ faults' = 0
        BY <2>1, <3>4, <4>1, CycleKeepsToldInv
      <4>2. faults' # 0 => ToldInv'
        BY DEF ToldInv
      <4>3. faults # 0 => faults' # 0
        <5>1. faults' = faults \/ faults' = faults + 1
          BY <3>4 DEF Cycle, Fetch, Work, BeginCycle, FetchOrders, FetchNothing, Snapshot, Diff,
               ReadSubscribers, Alert, Alerted, ForgetSeen, RememberSeen, Stamp, ChatFails
        <5>2. faults \in Nat
          BY PollerAssumption DEF TypeOK
        <5> QED BY <5>1, <5>2
      <4> QED BY <4>1, <4>2, <4>3
    <3> QED BY <3>1, <3>2, <3>3, <3>4 DEF Next
  <2>4. TypeOK /\ ToldInv => ToldOnce
    BY DEF TypeOK, ToldInv, ToldOnce
  <2> QED BY <2>2, <2>3, <2>4, TypeCorrect, PTL DEF Spec
<1> QED BY <1>1, <1>2
=============================================================================
