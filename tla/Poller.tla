------------------------------- MODULE Poller -------------------------------
(***************************************************************************)
(* The poll cycle: due items are fetched, compared with the orders already  *)
(* seen, and new orders are alerted to subscribers (MarketService's         *)
(* poll_market, _detect_new_orders and notify_subscribers, run by poll_loop *)
(* and by the API's force_poll_now).  A poller is one run of poll_market;   *)
(* its steps end where the code awaits a commit, the market API or the      *)
(* chat server.  An order stands for its fingerprint.                       *)
(***************************************************************************)
EXTENDS Integers, FiniteSets

CONSTANTS
    Players, Items, Orders,
    Pollers,      \* runs of poll_market that may overlap
    BatchSize,    \* the setting PollBatchSize
    Wants,        \* <<player, order>>: the order passes the player's filter
    MayEmpty,     \* whether an item's order book may become empty
    MaxFaults,    \* bound on crashes and broken chat connections
    NoItem        \* the item of a poller between items

ASSUME PollerAssumption ==
    /\ IsFiniteSet(Pollers)
    /\ BatchSize \in Nat \ {0}
    /\ Wants \subseteq Players \X Orders
    /\ MayEmpty \in BOOLEAN
    /\ MaxFaults \in Nat
    /\ NoItem \notin Items

VARIABLES
    book,     \* the market: the open orders of each item
    users,    \* rows of market_users
    watch,    \* rows of market_watch
    due,      \* the watched items whose last_polled is past the interval
    subs,     \* rows of market_subscriptions, as <<player, aoid>>
    seen,     \* rows of market_seen_orders, by item
    pending,  \* <<player, aoid>> with a row in market_pending_alerts
    poll,     \* the local state of each poller
    faults,   \* crashes and broken connections so far
    \* what subscribers are owed and were told, for the properties only
    owed,     \* <<player, item, order>> posted under the player's subscription
    told,     \* <<player, item, order>> alerted since the order was posted
    twice     \* whether an order was alerted again without a new posting

history == <<owed, told, twice>>
tables == <<users, watch, due, subs, seen, pending>>
vars == <<book, tables, poll, faults, history>>

Phase == {"idle", "next", "snapshot", "diff", "readSubs", "alert",
          "forget", "remember", "stamp"}

\* todo: what is left of the batch; item, orders: what was fetched; new: the
\* orders not seen before; targets: subscribers left to alert; late: rows other
\* pollers inserted since this one's delete statement.
PollState ==
    [pc : Phase, todo : SUBSET Items, item : Items \cup {NoItem},
     orders : SUBSET Orders, new : SUBSET Orders,
     targets : SUBSET Players, late : SUBSET Orders]

Idle == [pc |-> "idle", todo |-> {}, item |-> NoItem, orders |-> {},
         new |-> {}, targets |-> {}, late |-> {}]

Alerts == Players \X Items \X Orders

TypeOK ==
    /\ book \in [Items -> SUBSET Orders]
    /\ users \subseteq Players
    /\ watch \subseteq Items
    /\ due \subseteq watch
    /\ subs \subseteq users \X watch
    /\ seen \in [Items -> SUBSET Orders]
    /\ pending \subseteq Players \X Items
    /\ poll \in [Pollers -> PollState]
    /\ \A c \in Pollers : poll[c].pc \notin {"idle", "next"} => poll[c].item \in Items
    /\ faults \in 0..MaxFaults
    /\ owed \subseteq Alerts /\ told \subseteq Alerts /\ twice \in BOOLEAN

Init ==
    /\ book \in [Items -> {b \in SUBSET Orders : MayEmpty \/ b # {}}]
    /\ users = {} /\ watch = {} /\ due = {} /\ subs = {}
    /\ seen = [i \in Items |-> {}]
    /\ pending = {}
    /\ poll = [c \in Pollers |-> Idle]
    /\ faults = 0
    /\ owed = {} /\ told = {} /\ twice = FALSE

-----------------------------------------------------------------------------
(* The market and the players, each step one commit of another call.        *)

\* Some poller has fetched the item with this order and not finished with it.
Held(i, o) == \E c \in Pollers : poll[c].item = i /\ o \in poll[c].orders

\* The new order is owed to every subscriber whose filter it passes, unless the
\* item was never polled or the fingerprint is already known.
Post(i, o) ==
    /\ o \notin book[i]
    /\ book' = [book EXCEPT ![i] = @ \cup {o}]
    /\ owed' = IF seen[i] = {} \/ o \in seen[i] \/ Held(i, o)
               THEN owed
               ELSE owed \cup {<<p, i, o>> : p \in {q \in Players : <<q, i>> \in subs /\ <<q, o>> \in Wants}}
    /\ told' = {a \in told : a[2] # i \/ a[3] # o}
    /\ UNCHANGED <<tables, poll, faults, twice>>

Withdraw(i, o) ==
    /\ o \in book[i]
    /\ MayEmpty \/ book[i] # {o}
    /\ book' = [book EXCEPT ![i] = @ \ {o}]
    /\ owed' = {a \in owed : a[2] # i \/ a[3] # o}
    /\ UNCHANGED <<tables, poll, faults, told, twice>>

Register(p) ==
    /\ p \notin users
    /\ users' = users \cup {p}
    /\ UNCHANGED <<book, watch, due, subs, seen, pending, poll, faults, history>>

\* A row new to market_watch has last_polled = -infinity: it is due at once.
Track(i) ==
    /\ i \notin watch
    /\ watch' = watch \cup {i}
    /\ due' = due \cup {i}
    /\ UNCHANGED <<book, users, subs, seen, pending, poll, faults, history>>

Subscribe(p, i) ==
    /\ p \in users /\ i \in watch /\ <<p, i>> \notin subs
    /\ subs' = subs \cup {<<p, i>>}
    /\ UNCHANGED <<book, users, watch, due, seen, pending, poll, faults, history>>

\* The end of subscriptions is the end of what is owed under them.
EndSubs(gone) ==
    /\ subs' = subs \ gone
    /\ owed' = {a \in owed : <<a[1], a[2]>> \notin gone}
    /\ UNCHANGED <<book, seen, poll, faults, told, twice>>

Unsubscribe(p, i) ==
    /\ <<p, i>> \in subs
    /\ EndSubs({<<p, i>>})
    /\ UNCHANGED <<users, watch, due, pending>>

Unregister(p) ==
    /\ p \in users
    /\ users' = users \ {p}
    /\ EndSubs({p} \X Items)
    /\ pending' = {a \in pending : a[1] # p}
    /\ UNCHANGED <<watch, due>>

\* Mutant: the subscriptions stay.
UntrackAlone(i) ==
    /\ i \in watch
    /\ watch' = watch \ {i}
    /\ due' = due \ {i}
    /\ UNCHANGED <<book, users, subs, seen, pending, poll, faults, history>>

\* stop_tracking, untrack_all and expire_stale_watch: the subscriptions go with
\* the row, market_seen_orders has no foreign key and stays.
Untrack(i) ==
    /\ i \in watch
    /\ watch' = watch \ {i}
    /\ due' = due \ {i}
    /\ EndSubs(Players \X {i})
    /\ UNCHANGED <<users, pending>>

\* PollIntervalMinutes have passed since the item's last_polled.
BecomeDue(i) ==
    /\ i \in watch \ due
    /\ due' = due \cup {i}
    /\ UNCHANGED <<book, users, watch, subs, seen, pending, poll, faults, history>>

-----------------------------------------------------------------------------
(* One poller.                                                              *)

At(c, phase) == poll[c].pc = phase
Set(c, state) == poll' = [poll EXCEPT ![c] = state]
Enter(c, phase) == poll' = [poll EXCEPT ![c].pc = phase]

\* due_for_poll: as many of the due items as the batch takes.
Batches ==
    {b \in SUBSET due :
        \/ b = due /\ Cardinality(b) <= BatchSize
        \/ Cardinality(b) = BatchSize}

BeginCycle(c) ==
    /\ At(c, "idle")
    /\ due # {}
    /\ \E b \in Batches : Set(c, [Idle EXCEPT !.pc = "next", !.todo = b])
    /\ UNCHANGED <<book, tables, faults, history>>

FetchOrders(c, i) ==
    /\ At(c, "next")
    /\ i \in poll[c].todo
    /\ Set(c, [poll[c] EXCEPT !.pc = "snapshot", !.item = i, !.orders = book[i]])
    /\ UNCHANGED <<book, tables, faults, history>>

\* The market API did not answer: the item counts as polled all the same.
FetchNothing(c, i) ==
    /\ At(c, "next")
    /\ i \in poll[c].todo
    /\ Set(c, [poll[c] EXCEPT !.pc = "stamp", !.item = i])
    /\ UNCHANGED <<book, tables, faults, history>>

\* market_history's foreign key refuses the row of an item untracked since the
\* batch was read, and the exception ends the cycle.
Snapshot(c) ==
    /\ At(c, "snapshot")
    /\ IF poll[c].item \in watch THEN Enter(c, "diff") ELSE Set(c, Idle)
    /\ UNCHANGED <<book, tables, faults, history>>

\* Mutant: every poll is taken for the first.
DiffAlwaysFirst(c) ==
    /\ At(c, "diff")
    /\ Enter(c, "forget")
    /\ UNCHANGED <<book, tables, faults, history>>

\* No seen rows means first poll; either way an empty difference alerts nobody.
Diff(c) ==
    LET known == seen[poll[c].item]
        new == IF known = {} THEN {} ELSE poll[c].orders \ known
    IN
    /\ At(c, "diff")
    /\ Set(c, [poll[c] EXCEPT !.pc = IF new = {} THEN "forget" ELSE "readSubs", !.new = new])
    /\ UNCHANGED <<book, tables, faults, history>>

ReadSubscribers(c) ==
    /\ At(c, "readSubs")
    /\ Set(c, [poll[c] EXCEPT
                 !.pc = "alert",
                 !.targets = {p \in Players :
                                /\ <<p, poll[c].item>> \in subs
                                /\ \E o \in poll[c].new : <<p, o>> \in Wants}])
    /\ UNCHANGED <<book, tables, faults, history>>

\* One subscriber is sent a tell, or gets a row to be told later: which of the
\* two is the chat server's word on who is online.
Alert(c) ==
    /\ At(c, "alert")
    /\ \E p \in poll[c].targets :
         LET a == {p} \X {poll[c].item} \X {o \in poll[c].new : <<p, o>> \in Wants} IN
         /\ pending' \in {pending, pending \cup {<<p, poll[c].item>>}}
         /\ owed' = owed \ a
         /\ told' = told \cup a
         /\ twice' = (twice \/ a \cap told # {})
         /\ poll' = [poll EXCEPT ![c].targets = @ \ {p}]
    /\ UNCHANGED <<book, users, watch, due, subs, seen, faults>>

\* Mutant: the loop over the subscribers is left after any of them.
AlertedEarly(c) ==
    /\ At(c, "alert")
    /\ Enter(c, "forget")
    /\ UNCHANGED <<book, tables, faults, history>>

Alerted(c) ==
    /\ At(c, "alert")
    /\ poll[c].targets = {}
    /\ Enter(c, "forget")
    /\ UNCHANGED <<book, tables, faults, history>>

\* Mutant: the failure is caught and the cycle goes on.
ChatFailureSwallowed(c) ==
    /\ At(c, "alert")
    /\ poll[c].targets # {}
    /\ faults < MaxFaults
    /\ faults' = faults + 1
    /\ Enter(c, "forget")
    /\ UNCHANGED <<book, tables, history>>

\* A write to a closed chat connection raises out of the cycle, before the
\* orders are remembered.
ChatFails(c) ==
    /\ At(c, "alert")
    /\ poll[c].targets # {}
    /\ faults < MaxFaults
    /\ faults' = faults + 1
    /\ Set(c, Idle)
    /\ UNCHANGED <<book, tables, history>>

\* replace_seen_fingerprints: the delete statement removes the rows committed
\* when it starts ...
ForgetSeen(c) ==
    /\ At(c, "forget")
    /\ Set(c, [poll[c] EXCEPT !.pc = "remember", !.late = {}])
    /\ UNCHANGED <<book, tables, faults, history>>

\* Mutant: the orders that were new are not inserted.
RememberSeenOld(c) ==
    /\ At(c, "remember")
    /\ seen' = [seen EXCEPT ![poll[c].item] = poll[c].orders \ poll[c].new]
    /\ Enter(c, "stamp")
    /\ UNCHANGED <<book, users, watch, due, subs, pending, faults, history>>

\* ... and the commit adds the fetched orders to those another poller inserted
\* after that.
RememberSeen(c) ==
    LET i == poll[c].item
        rows == poll[c].orders \cup poll[c].late
    IN
    /\ At(c, "remember")
    /\ seen' = [seen EXCEPT ![i] = rows]
    /\ poll' = [d \in Pollers |->
                  IF d = c THEN [poll[c] EXCEPT !.pc = "stamp"]
                  ELSE IF poll[d].pc = "remember" /\ poll[d].item = i
                       THEN [poll[d] EXCEPT !.late = rows]
                       ELSE poll[d]]
    /\ UNCHANGED <<book, users, watch, due, subs, pending, faults, history>>

\* update_last_polled, and on to the next item of the batch.
Stamp(c) ==
    LET todo == poll[c].todo \ {poll[c].item} IN
    /\ At(c, "stamp")
    /\ due' = due \ {poll[c].item}
    /\ Set(c, IF todo = {} THEN Idle ELSE [Idle EXCEPT !.pc = "next", !.todo = todo])
    /\ UNCHANGED <<book, users, watch, subs, seen, pending, faults, history>>

\* The process dies and restarts; uncommitted statements are rolled back.
Crash ==
    /\ faults < MaxFaults
    /\ faults' = faults + 1
    /\ poll' = [c \in Pollers |-> Idle]
    /\ UNCHANGED <<book, tables, history>>

-----------------------------------------------------------------------------
Environment ==
    \/ \E i \in Items, o \in Orders : Post(i, o) \/ Withdraw(i, o)
    \/ \E p \in Players : Register(p) \/ Unregister(p)
    \/ \E i \in Items : Track(i) \/ Untrack(i) \/ BecomeDue(i)
    \/ \E p \in Players, i \in Items : Subscribe(p, i) \/ Unsubscribe(p, i)

Work(c) ==
    \/ Snapshot(c) \/ Diff(c) \/ ReadSubscribers(c) \/ Alert(c) \/ Alerted(c)
    \/ ForgetSeen(c) \/ RememberSeen(c) \/ Stamp(c)

Fetch(c) == \E i \in Items : FetchOrders(c, i) \/ FetchNothing(c, i)

Cycle(c) == BeginCycle(c) \/ Fetch(c) \/ Work(c) \/ ChatFails(c)

Next == Environment \/ Crash \/ \E c \in Pollers : Cycle(c)

\* poll_loop starts a cycle again after every sleep and every await in it
\* returns; time passes; the market API answers for an item again and again, if
\* not every time.
Fairness ==
    /\ \A i \in Items : WF_vars(BecomeDue(i))
    /\ \A c \in Pollers :
         /\ WF_vars(BeginCycle(c))
         /\ WF_vars(Fetch(c))
         /\ \A i \in Items : SF_vars(FetchOrders(c, i))
         /\ WF_vars(Work(c))

Spec == Init /\ [][Next]_vars
FairSpec == Spec /\ Fairness

-----------------------------------------------------------------------------
(* Properties                                                               *)

\* An order owed to a subscriber is never counted as seen: replace_seen runs
\* only after every alert of the cycle, so overlapping pollers, failing alerts,
\* crashes and restarts cannot drop one between the diff and the seen table.
OwedNeverSeen == \A a \in owed : a[3] \notin seen[a[2]]

\* No subscriber is told twice of one posted order by polls that do not overlap
\* and are not cut short: a crash or a broken connection after some alerts and
\* before replace_seen repeats them, and so does a second poll started meanwhile.
ToldOnce == twice => faults > 0 \/ Cardinality(Pollers) > 1

\* The cycle of a poll, nine steps that crashes and other polls may cut into,
\* implements the three of AlertSpec.
Alerting == INSTANCE AlertSpec WITH
    standing <- {a \in Alerts : /\ a[3] \in book[a[2]]
                                /\ <<a[1], a[2]>> \in subs /\ <<a[1], a[3]>> \in Wants},
    known <- {k \in Items \X Orders : k[2] \in seen[k[1]]}

ImplementsAlerting == Alerting!Spec

\* Every owed alert is sent or queued, or what it is about ends.
OwedIsSettled == \A a \in Alerts : a \in owed ~> a \notin owed
=============================================================================
