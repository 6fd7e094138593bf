------------------------------ MODULE Registry ------------------------------
(***************************************************************************)
(* Registration, tracking and watchlists (market/service.py over           *)
(* db/market_repo.py).  A worker is one call into MarketService: the chat   *)
(* reader handling a tell, an HTTP request, or the poll cycle's expiry.     *)
(* Every repository call commits on its own, so a call is a chain of steps  *)
(* and workers interleave between them; one action below is one step, up to *)
(* and including its commit.  A refused or failed call just ends: its reply *)
(* is not state.                                                            *)
(***************************************************************************)
EXTENDS Integers, FiniteSets

CONSTANTS
    Players,    \* character names
    Items,      \* aoids
    Workers,    \* calls that may be in progress at once
    MaxSubs,    \* the setting MaxSubscriptionsPerPlayer
    CanCrash,   \* whether the process may die and restart
    Nobody      \* the player of a call made on no player's behalf

ASSUME RegistryAssumption ==
    /\ IsFiniteSet(Items)
    /\ IsFiniteSet(Workers)
    /\ Workers # {}
    /\ MaxSubs \in Nat
    /\ CanCrash \in BOOLEAN
    /\ Nobody \notin Players

VARIABLES
    users,   \* rows of market_users
    watch,   \* rows of market_watch
    subs,    \* rows of market_subscriptions, as <<player, aoid>>
    ledger,  \* players with at least one row in market_user_actions
    cut,     \* players whose register call a crash ended before it could log
    pc,      \* where each worker's call is; "idle" between calls
    req      \* the arguments of each worker's call that remain to be used

db == <<users, watch, subs, ledger, cut>>
vars == <<users, watch, subs, ledger, cut, pc, req>>

Step == {"idle", "regCheck", "regInsert", "regLog",
         "unregCheck", "unregCascade",
         "subLookup", "subUser", "subDeny", "subExisting", "subLimit",
         "subFind", "subWatch", "subWatchNew", "subInsert", "subLog",
         "unwDelete", "unwAll", "unwLog",
         "trkLookup", "trkWatch", "untrack", "clear"}

\* The steps of the calls made for a player.
PlayerStep == Step \ {"idle", "trkLookup", "trkWatch", "untrack", "clear"}

SubscribeStep == {"subLookup", "subUser", "subDeny", "subExisting", "subLimit",
                  "subFind", "subWatch", "subWatchNew", "subInsert", "subLog"}

NoRequest == [player |-> Nobody, items |-> {}]

SubsOf(p) == {i \in Items : <<p, i>> \in subs}

TypeOK ==
    /\ users \subseteq Players
    /\ watch \subseteq Items
    /\ subs \subseteq Players \X Items
    /\ ledger \subseteq Players /\ cut \subseteq Players
    /\ pc \in [Workers -> Step]
    /\ req \in [Workers -> [player : Players \cup {Nobody}, items : SUBSET Items]]
    /\ \A w \in Workers : pc[w] \in PlayerStep => req[w].player \in Players
    /\ \A w \in Workers :
         pc[w] \in SubscribeStep => \E i \in Items : req[w].items = {i}

Init ==
    /\ users = {}
    /\ watch = {}
    /\ subs = {}
    /\ ledger = {} /\ cut = {}
    /\ pc = [w \in Workers |-> "idle"]
    /\ req = [w \in Workers |-> NoRequest]

-----------------------------------------------------------------------------
(* Moving a worker's call along.                                           *)

Accept(w, p, is, at) ==
    /\ pc[w] = "idle"
    /\ pc' = [pc EXCEPT ![w] = at]
    /\ req' = [req EXCEPT ![w] = [player |-> p, items |-> is]]
    /\ UNCHANGED db

Goto(w, at) ==
    /\ pc' = [pc EXCEPT ![w] = at]
    /\ UNCHANGED req

Return(w) ==
    /\ pc' = [pc EXCEPT ![w] = "idle"]
    /\ req' = [req EXCEPT ![w] = NoRequest]

\* Mutant: the foreign key has no ON DELETE CASCADE.
DeleteWatchAlone(is) == watch' = watch \ is /\ UNCHANGED subs

\* The row deletions the schema's ON DELETE CASCADE adds to a deleted watch row.
DeleteWatch(is) ==
    /\ watch' = watch \ is
    /\ subs' = {s \in subs : s[2] \notin is}

\* The ledger row commits before the announcement that follows it, which reads
\* a setting, may look the item up and writes to the chat socket.
LogAction(w) ==
    /\ ledger' = ledger \cup {req[w].player}
    /\ cut' = cut \ {req[w].player}

-----------------------------------------------------------------------------
(* register                                                                *)

Register(w) == \E p \in Players : Accept(w, p, {}, "regCheck")

\* Mutant: register leaves the check to the constraint.
RegisterUnchecked(w) ==
    pc[w] = "regCheck" /\ Goto(w, "regInsert") /\ UNCHANGED db

RegisterCheck(w) ==
    /\ pc[w] = "regCheck"
    /\ IF req[w].player \in users THEN Return(w) ELSE Goto(w, "regInsert")
    /\ UNCHANGED db

\* Mutant: register forgets log_action.
RegisterInsertUnlogged(w) ==
    /\ pc[w] = "regInsert"
    /\ users' = users \cup {req[w].player}
    /\ Return(w)
    /\ UNCHANGED <<watch, subs, ledger, cut>>

\* The primary key refuses the row when another call registered the player.
RegisterInsert(w) ==
    /\ pc[w] = "regInsert"
    /\ IF req[w].player \in users
       THEN Return(w) /\ UNCHANGED users
       ELSE Goto(w, "regLog") /\ users' = users \cup {req[w].player}
    /\ UNCHANGED <<watch, subs, ledger, cut>>

RegisterLog(w) ==
    /\ pc[w] = "regLog"
    /\ LogAction(w)
    /\ Return(w)
    /\ UNCHANGED <<users, watch, subs>>

(* unregister                                                              *)

Unregister(w) == \E p \in Players : Accept(w, p, {}, "unregCheck")

UnregisterCheck(w) ==
    /\ pc[w] = "unregCheck"
    /\ IF req[w].player \in users THEN Goto(w, "unregCascade") ELSE Return(w)
    /\ UNCHANGED db

\* One transaction; the check above is not repeated in it.
UnregisterCascade(w) ==
    LET p == req[w].player IN
    /\ pc[w] = "unregCascade"
    /\ users' = users \ {p}
    /\ subs' = {s \in subs : s[1] # p}
    /\ ledger' = ledger \ {p} /\ cut' = cut \ {p}
    /\ Return(w)
    /\ UNCHANGED watch

-----------------------------------------------------------------------------
(* subscribe                                                               *)

Subscribe(w) ==
    \E p \in Players, i \in Items : Accept(w, p, {i}, "subLookup")

\* The item database may not know the item, or not answer.
SubscribeLookup(w) ==
    /\ pc[w] = "subLookup"
    /\ Goto(w, "subUser") \/ Return(w)
    /\ UNCHANGED db

SubscribeUser(w) ==
    /\ pc[w] = "subUser"
    /\ Goto(w, IF req[w].player \in users THEN "subExisting" ELSE "subDeny")
    /\ UNCHANGED db

SubscribeDeny(w) ==
    /\ pc[w] = "subDeny"
    /\ LogAction(w)
    /\ Return(w)
    /\ UNCHANGED <<users, watch, subs>>

SubscribeExisting(w) ==
    /\ pc[w] = "subExisting"
    /\ IF req[w].items \cap SubsOf(req[w].player) # {}
       THEN Return(w)
       ELSE Goto(w, "subLimit")
    /\ UNCHANGED db

\* Mutant: > for >=.
SubscribeLimitLate(w) ==
    /\ pc[w] = "subLimit"
    /\ IF Cardinality(SubsOf(req[w].player)) > MaxSubs THEN Return(w) ELSE Goto(w, "subFind")
    /\ UNCHANGED db

SubscribeLimit(w) ==
    /\ pc[w] = "subLimit"
    /\ IF Cardinality(SubsOf(req[w].player)) >= MaxSubs
       THEN Return(w)
       ELSE Goto(w, "subFind")
    /\ UNCHANGED db

\* upsert_watch reads the row to learn whether the item is new ...
SubscribeFind(w) ==
    /\ pc[w] = "subFind"
    /\ Goto(w, IF req[w].items \subseteq watch THEN "subWatch" ELSE "subWatchNew")
    /\ UNCHANGED db

\* ... and commits it; an item found new is then announced, and a failed
\* announcement ends the call with the item tracked and no subscription.
SubscribeWatch(w) ==
    /\ pc[w] \in {"subWatch", "subWatchNew"}
    /\ watch' = watch \cup req[w].items
    /\ Goto(w, "subInsert") \/ (Return(w) /\ pc[w] = "subWatchNew")
    /\ UNCHANGED <<users, subs, ledger, cut>>

\* Mutant: the subscription has no foreign key to the tracked item.
InsertAcceptedUntracked(w) ==
    req[w].player \in users /\ req[w].items \cap SubsOf(req[w].player) = {}

\* What the foreign keys and the unique constraint accept.
InsertAccepted(w) ==
    /\ req[w].player \in users
    /\ req[w].items \subseteq watch
    /\ req[w].items \cap SubsOf(req[w].player) = {}

SubscribeInsert(w) ==
    /\ pc[w] = "subInsert"
    /\ IF InsertAccepted(w)
       THEN Goto(w, "subLog") /\ subs' = subs \cup ({req[w].player} \X req[w].items)
       ELSE Return(w) /\ UNCHANGED subs
    /\ UNCHANGED <<users, watch, ledger, cut>>

SubscribeLog(w) ==
    /\ pc[w] = "subLog"
    /\ LogAction(w)
    /\ Return(w)
    /\ UNCHANGED <<users, watch, subs>>

-----------------------------------------------------------------------------
(* unsubscribe, unsubscribe_bulk and unsubscribe_all: no check that the     *)
(* player is registered or watches the item; each deletion is logged before *)
(* the next one.                                                            *)

Unsubscribe(w) ==
    \E p \in Players, is \in (SUBSET Items) \ {{}} : Accept(w, p, is, "unwDelete")

\* Mutant: the loop does not move past an aoid.
UnsubscribeDeleteSame(w) ==
    /\ pc[w] = "unwDelete"
    /\ \E i \in req[w].items : subs' = subs \ {<<req[w].player, i>>}
    /\ Goto(w, "unwLog")
    /\ UNCHANGED <<users, watch, ledger, cut>>

UnsubscribeDelete(w) ==
    /\ pc[w] = "unwDelete"
    /\ \E i \in req[w].items :
         /\ subs' = subs \ {<<req[w].player, i>>}
         /\ req' = [req EXCEPT ![w].items = @ \ {i}]
    /\ pc' = [pc EXCEPT ![w] = "unwLog"]
    /\ UNCHANGED <<users, watch, ledger, cut>>

UnsubscribeLog(w) ==
    /\ pc[w] = "unwLog"
    /\ LogAction(w)
    /\ Return(w) \/ (Goto(w, "unwDelete") /\ req[w].items # {})
    /\ UNCHANGED <<users, watch, subs>>

UnsubscribeAll(w) == \E p \in Players : Accept(w, p, {}, "unwAll")

\* Mutant: the deletion has no condition on the player.
UnsubscribeEveryone(w) ==
    /\ pc[w] = "unwAll"
    /\ subs' = {}
    /\ Goto(w, "unwLog")
    /\ UNCHANGED <<users, watch, ledger, cut>>

UnsubscribeAllDelete(w) ==
    /\ pc[w] = "unwAll"
    /\ subs' = {s \in subs : s[1] # req[w].player}
    /\ Goto(w, "unwLog")
    /\ UNCHANGED <<users, watch, ledger, cut>>

-----------------------------------------------------------------------------
(* Tracking: the admin route and the item overview add a row; the admin     *)
(* route, `untrack all` and the expiry of stale items delete rows.          *)

Track(w) == \E i \in Items : Accept(w, Nobody, {i}, "trkLookup")

TrackLookup(w) ==
    /\ pc[w] = "trkLookup"
    /\ Goto(w, "trkWatch") \/ Return(w)
    /\ UNCHANGED db

TrackWatch(w) ==
    /\ pc[w] = "trkWatch"
    /\ watch' = watch \cup req[w].items
    /\ Return(w)
    /\ UNCHANGED <<users, subs, ledger, cut>>

StopTracking(w) == \E i \in Items : Accept(w, Nobody, {i}, "untrack")

\* The stale rows are selected first and deleted by aoid afterwards.
ExpireSelect(w) == \E is \in (SUBSET watch) \ {{}} : Accept(w, Nobody, is, "untrack")

\* Mutant: the deletion is logged like a player's action.
UntrackDeleteLogged(w) ==
    /\ pc[w] = "untrack"
    /\ DeleteWatch(req[w].items)
    /\ Goto(w, "unwLog")
    /\ UNCHANGED <<users, ledger, cut>>

UntrackDelete(w) ==
    /\ pc[w] = "untrack"
    /\ DeleteWatch(req[w].items)
    /\ Return(w)
    /\ UNCHANGED <<users, ledger, cut>>

UntrackAll(w) == Accept(w, Nobody, {}, "clear")

ClearWatch(w) ==
    /\ pc[w] = "clear"
    /\ DeleteWatch(watch)
    /\ Return(w)
    /\ UNCHANGED <<users, ledger, cut>>

-----------------------------------------------------------------------------
\* The process dies: its calls are gone, what they committed is not.
Crash ==
    /\ CanCrash
    /\ pc' = [w \in Workers |-> "idle"]
    /\ req' = [w \in Workers |-> NoRequest]
    /\ cut' = cut \cup {req[w].player : w \in {v \in Workers : pc[v] = "regLog"}}
    /\ UNCHANGED <<users, watch, subs, ledger>>

Arrive(w) ==
    \/ Register(w) \/ Unregister(w) \/ Subscribe(w)
    \/ Unsubscribe(w) \/ UnsubscribeAll(w)
    \/ Track(w) \/ StopTracking(w) \/ ExpireSelect(w) \/ UntrackAll(w)

Advance(w) ==
    \/ RegisterCheck(w) \/ RegisterInsert(w) \/ RegisterLog(w)
    \/ UnregisterCheck(w) \/ UnregisterCascade(w)
    \/ SubscribeLookup(w) \/ SubscribeUser(w) \/ SubscribeDeny(w)
    \/ SubscribeExisting(w) \/ SubscribeLimit(w) \/ SubscribeFind(w)
    \/ SubscribeWatch(w) \/ SubscribeInsert(w) \/ SubscribeLog(w)
    \/ UnsubscribeDelete(w) \/ UnsubscribeLog(w) \/ UnsubscribeAllDelete(w)
    \/ TrackLookup(w) \/ TrackWatch(w) \/ UntrackDelete(w) \/ ClearWatch(w)

Next == Crash \/ \E w \in Workers : Arrive(w) \/ Advance(w)

\* Every call a worker waits for returns or raises; nothing makes players ask.
Fairness == \A w \in Workers : WF_vars(Advance(w))

Spec == Init /\ [][Next]_vars /\ Fairness

-----------------------------------------------------------------------------
(* Properties                                                              *)

\* A subscription always belongs to a registered player and a tracked item,
\* whatever calls interleave: subscribe's insert against unregister's cascade,
\* and the deletions of watched items.
SubsHaveRows == subs \subseteq users \X watch

\* Calls of player p that have passed subscribe's limit check and not yet
\* inserted their row.
PastLimit(p) ==
    {w \in Workers : req[w].player = p /\ pc[w] \in {"subFind", "subWatch", "subWatchNew", "subInsert"}}

\* The limit in subscribe is checked some commits before the row it guards is
\* inserted: calls that overlap can exceed it, by at most the number of other
\* calls; calls made one at a time cannot.
LimitOvershoot ==
    \A p \in Players :
        Cardinality(SubsOf(p)) <= MaxSubs + Cardinality(Workers) - 1

\* What the limit promises, and overlapping calls break.
LimitExact == \A p \in Players : Cardinality(SubsOf(p)) <= MaxSubs

\* Calls made one at a time (the chat reader handles its tells one by one) never
\* run into a constraint of the schema, which no handler in the code catches:
\* the checks register and subscribe make before they insert still hold then.
Safe(w) ==
    /\ pc[w] = "regInsert" => req[w].player \notin users
    /\ pc[w] = "subInsert" => InsertAccepted(w)

SerialCallsMeetNoConstraint ==
    Cardinality(Workers) = 1 => \A w \in Workers : Safe(w)

\* user_stats tells a registered player that it has no activity only while the
\* call that registered it is about to log that, or after a crash has ended that
\* call just there: no unregister or second registration in between can separate
\* the user row from its ledger.
MembersAreLedgered ==
    \A p \in users \ ledger :
        p \in cut \/ \E w \in Workers : pc[w] = "regLog" /\ req[w].player = p

\* A subscription ends only in a step of its own player's unwatch or unregister
\* call that covers the item, or with the item's own row; no other player's call
\* ends it.
EndsSubscription(w, s) ==
    /\ req[w].player = s[1]
    /\ pc[w] \in {"unregCascade", "unwAll"} \/ (pc[w] = "unwDelete" /\ s[2] \in req[w].items)
    /\ pc'[w] # pc[w]

SubscriptionsEndByOwner ==
    [][\A s \in subs \ subs' :
          s[2] \notin watch' \/ \E w \in Workers : EndsSubscription(w, s)]_vars

\* The calls' steps implement the registry of WatchSpec, whose members never watch
\* more than the limit and one item for each other call in progress: each commit
\* does in one step what WatchSpec does, though what it does was decided commits ago.
Watching == INSTANCE WatchSpec WITH
    Allowed <- {is \in SUBSET Items : Cardinality(is) <= MaxSubs + Cardinality(Workers) - 1},
    members <- users, tracked <- watch,
    watches <- [p \in Players |-> SubsOf(p)]

ImplementsWatching == Watching!Spec

\* Every call ends, bulk unwatch's loop included.
CallsEnd == \A w \in Workers : pc[w] # "idle" ~> pc[w] = "idle"
=============================================================================
