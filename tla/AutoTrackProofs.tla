-------------------------- MODULE AutoTrackProofs --------------------------
(***************************************************************************)
(* Theorems about AutoTrack for every set of items, any number of resyncs   *)
(* in progress at once and any Count, MaxDelay and LargestDelay.            *)
(***************************************************************************)
EXTENDS AutoTrack, FiniteSetTheorems, TLAPS

\* What one resync holds at each of its steps.  A count to be written is of at least
\* one failure; what is ranked, found and kept fits in Count; what is left to upsert
\* was kept by this resync's unflag.
ResyncOK(r) ==
    /\ r \in SyncState
    /\ r.pc = "write" => Cardinality(r.item) = 1 /\ r.count >= 1
    /\ r.pc \in {"due", "lookup"} => Cardinality(r.todo) <= Count
    /\ r.pc \in {"record", "write", "unflag"} => Cardinality(r.found) <= Count
    /\ Cardinality(r.kept) <= Count
    /\ r.pc = "upsert" => r.todo \subseteq r.kept

ResyncsOK ==
    /\ sync \in [Syncs -> SyncState]
    /\ \A s \in Syncs : ResyncOK(sync[s])

WatchOK == auto \subseteq watch /\ stale \subseteq watch /\ watch \subseteq Items

BackoffOK ==
    /\ failures \in [Items -> Nat] /\ wait \in [Items -> 0..MaxDelay]
    /\ \A i \in Items : failures[i] = 0 => wait[i] = 0

\* An auto-tracked row was kept by the last unflag of some resync task.
FlagsKept == auto \subseteq UNION {sync[s].kept : s \in Syncs}

AutoTrackInv ==
    ResyncsOK /\ WatchOK /\ BackoffOK /\ expiring \subseteq Items /\ FlagsKept

\* The delay written with a failure count is a delay the column can hold.
LEMMA DelayIsCapped == \A n \in Nat \ {0} : Delay(n) \in 0..MaxDelay
<1>1. ASSUME NEW n \in Nat PROVE 2 ^ n \in Nat
  <2>1. IsFiniteSet(1..n) /\ Cardinality(1..n) = n BY FS_Interval
  <2>2. IsFiniteSet(SUBSET (1..n)) /\ Cardinality(SUBSET (1..n)) = 2 ^ n BY <2>1, FS_SUBSET
  <2> QED BY <2>2, FS_CardinalityType
<1>2. \A n \in Nat \ {0} : Product(n) \in Nat
  <2> SUFFICES ASSUME NEW n \in Nat \ {0} PROVE 2 ^ (n - 1) \in Nat BY DEF Product
  <2>1. n - 1 \in Nat OBVIOUS
  <2> QED BY <1>1, <2>1
<1> QED BY <1>2, AutoTrackAssumption DEF Delay

\* A set of items is finite, and no subset of it is larger.
LEMMA SmallerSets ==
    ASSUME NEW is \in SUBSET Items
    PROVE  /\ IsFiniteSet(is) /\ Cardinality(is) \in Nat
           /\ \A js \in SUBSET is : Cardinality(js) <= Cardinality(is)
BY AutoTrackAssumption, FS_Subset, FS_CardinalityType

\* A resync that ends keeps what its last unflag kept.
LEMMA IdleIsOK ==
    ASSUME NEW r, ResyncOK(r)
    PROVE  ResyncOK(Idle(r.kept)) /\ Idle(r.kept).kept = r.kept
BY DEF ResyncOK, SyncState, Idle

\* A step of one resync leaves the others as they are.
LEMMA SetKeepsResyncs ==
    ASSUME ResyncsOK, NEW s \in Syncs, NEW r, Set(s, r), ResyncOK(r)
    PROVE  /\ ResyncsOK'
           /\ sync'[s] = r
           /\ \A u \in Syncs : u # s => sync'[u] = sync[u]
BY DEF ResyncsOK, ResyncOK, Set

\* The flags stay accounted for when none is added and no resync forgets what it kept.
LEMMA SameKept ==
    ASSUME ResyncsOK, FlagsKept, auto' \subseteq auto,
           \A s \in Syncs : sync'[s].kept = sync[s].kept
    PROVE  FlagsKept'
BY DEF FlagsKept

\* The ranking, the skipping of backed-off items and the lookups write no row.
LEMMA RankKeepsInv ==
    ASSUME AutoTrackInv, NEW s \in Syncs, Rank(s) \/ SkipBackedOff(s) \/ LookUp(s)
    PROVE  AutoTrackInv'
<1> DEFINE r == sync[s]
<1>1. ResyncsOK /\ ResyncOK(r) /\ r.todo \in SUBSET Items BY DEF AutoTrackInv, ResyncsOK, ResyncOK, SyncState
<1>2. UNCHANGED <<watch, auto, stale, failures, wait, expiring>>
  BY DEF Rank, SkipBackedOff, LookUp, tracking, backoff
<1>3. \E q : Set(s, q) /\ ResyncOK(q) /\ q.kept = r.kept
  <2>1. CASE Rank(s)
    <3>1. PICK is \in SUBSET Items :
            Cardinality(is) <= Count /\ Set(s, [r EXCEPT !.pc = "due", !.todo = is])
      BY <2>1 DEF Rank
    <3>2. /\ ResyncOK([r EXCEPT !.pc = "due", !.todo = is])
          /\ [r EXCEPT !.pc = "due", !.todo = is].kept = r.kept
      BY <1>1, <3>1 DEF ResyncOK, SyncState
    <3> QED BY <3>1, <3>2
  <2>2. CASE SkipBackedOff(s)
    <3>1. /\ r.pc = "due" /\ Set(s, [r EXCEPT !.pc = "lookup", !.todo = DueForRetry(r.todo)])
          /\ DueForRetry(r.todo) \subseteq r.todo
      BY <2>2, <1>1 DEF SkipBackedOff, At, DueForRetry, ResyncOK, SyncState
    <3>2. Cardinality(DueForRetry(r.todo)) <= Count
      <4>1. Cardinality(r.todo) <= Count BY <1>1, <3>1 DEF ResyncOK
      <4>2. /\ Cardinality(DueForRetry(r.todo)) <= Cardinality(r.todo)
            /\ Cardinality(r.todo) \in Nat /\ Cardinality(DueForRetry(r.todo)) \in Nat
        BY <1>1, <3>1, SmallerSets
      <4> QED BY <4>1, <4>2, AutoTrackAssumption
    <3>3. /\ ResyncOK([r EXCEPT !.pc = "lookup", !.todo = DueForRetry(r.todo)])
          /\ [r EXCEPT !.pc = "lookup", !.todo = DueForRetry(r.todo)].kept = r.kept
      BY <1>1, <3>1, <3>2 DEF ResyncOK, SyncState
    <3> QED BY <3>1, <3>3
  <2>3. CASE LookUp(s)
    <3>1. CASE Fail(s) BY <1>1, <3>1, IdleIsOK DEF Fail
    <3>2. ASSUME NEW is \in SUBSET r.todo, Set(s, [r EXCEPT !.pc = "record", !.found = is])
          PROVE  \E q : Set(s, q) /\ ResyncOK(q) /\ q.kept = r.kept
      <4>1. Cardinality(r.todo) <= Count BY <1>1, <2>3 DEF ResyncOK, LookUp, At
      <4>2. /\ Cardinality(is) <= Cardinality(r.todo)
            /\ Cardinality(r.todo) \in Nat /\ Cardinality(is) \in Nat
        BY <1>1, SmallerSets
      <4>3. Cardinality(is) <= Count BY <4>1, <4>2, AutoTrackAssumption
      <4>4. /\ ResyncOK([r EXCEPT !.pc = "record", !.found = is])
            /\ [r EXCEPT !.pc = "record", !.found = is].kept = r.kept
        BY <1>1, <4>3 DEF ResyncOK, SyncState
      <4> QED BY <3>2, <4>4
    <3> QED BY <2>3, <3>1, <3>2 DEF LookUp
  <2> QED BY <2>1, <2>2, <2>3
<1>4. ResyncsOK' /\ \A u \in Syncs : sync'[u].kept = sync[u].kept
  BY <1>1, <1>3, SetKeepsResyncs
<1>5. WatchOK' /\ BackoffOK' /\ (expiring \subseteq Items)'
  BY <1>2 DEF AutoTrackInv, WatchOK, BackoffOK
<1>6. FlagsKept' BY <1>1, <1>2, <1>4, SameKept DEF AutoTrackInv
<1> QED BY <1>4, <1>5, <1>6 DEF AutoTrackInv

\* Recording results, and the steps between that and the flags, add no flag.
LEMMA RecordKeepsInv ==
    ASSUME AutoTrackInv, NEW s \in Syncs,
           RecordSuccess(s) \/ ReadFailures(s) \/ WriteFailure(s) \/ Recorded(s)
             \/ AnnounceFails(s) \/ Stamp(s)
    PROVE  AutoTrackInv'
<1> DEFINE r == sync[s]
<1>1. ResyncsOK /\ ResyncOK(r) /\ BackoffOK BY DEF AutoTrackInv, ResyncsOK
<1>2. UNCHANGED <<watch, auto, stale, expiring>>
  BY DEF RecordSuccess, ReadFailures, WriteFailure, Recorded, AnnounceFails, Stamp, tracking
<1>3. BackoffOK' /\ \E q : Set(s, q) /\ ResyncOK(q) /\ q.kept = r.kept
  <2>1. CASE RecordSuccess(s)
    <3>1. PICK i \in r.todo : /\ failures' = [failures EXCEPT ![i] = 0]
                              /\ wait' = [wait EXCEPT ![i] = 0]
                              /\ Set(s, [r EXCEPT !.todo = r.todo \ {i}])
      BY <2>1 DEF RecordSuccess
    <3>2. BackoffOK'
      <4>1. 0 \in 0..MaxDelay BY AutoTrackAssumption
      <4>2. failures' \in [Items -> Nat] /\ wait' \in [Items -> 0..MaxDelay]
        BY <1>1, <3>1, <4>1 DEF BackoffOK
      <4> QED BY <1>1, <3>1, <4>2 DEF BackoffOK
    <3>3. /\ ResyncOK([r EXCEPT !.todo = r.todo \ {i}])
          /\ [r EXCEPT !.todo = r.todo \ {i}].kept = r.kept
      BY <1>1, <2>1 DEF ResyncOK, SyncState, RecordSuccess, At
    <3> QED BY <3>1, <3>2, <3>3
  <2>2. CASE ReadFailures(s)
    <3> DEFINE Q(i) == [r EXCEPT !.pc = "write", !.todo = r.todo \ {i}, !.item = {i},
                                 !.count = failures[i] + 1]
    <3>1. PICK i \in r.todo : Set(s, Q(i)) BY <2>2 DEF ReadFailures
    <3>2. BackoffOK' BY <1>1, <2>2 DEF BackoffOK, ReadFailures, backoff
    <3>3. i \in Items /\ failures[i] + 1 \in Nat /\ failures[i] + 1 >= 1 /\ Cardinality({i}) = 1
      <4>1. i \in Items BY <1>1 DEF ResyncOK, SyncState
      <4>2. failures[i] \in Nat BY <1>1, <4>1 DEF BackoffOK
      <4>3. Cardinality({i}) = 1 BY FS_Singleton
      <4> QED BY <4>1, <4>2, <4>3
    <3>4. ResyncOK(Q(i)) /\ Q(i).kept = r.kept
      BY <1>1, <2>2, <3>3 DEF ResyncOK, SyncState, ReadFailures, At
    <3> HIDE DEF Q
    <3> QED BY <3>1, <3>2, <3>4
  <2>3. CASE WriteFailure(s)
    <3> DEFINE i == CHOOSE i \in r.item : TRUE
               n == r.count
    <3>1. n \in Nat \ {0} /\ Cardinality(r.item) = 1 /\ r.item \subseteq Items /\ r.pc = "write"
      BY <1>1, <2>3 DEF WriteFailure, At, ResyncOK, SyncState
    <3>2. i \in Items
      <4>1. r.item # {} BY <3>1, FS_EmptySet
      <4> QED BY <3>1, <4>1
    <3>3. CASE Fail(s) /\ UNCHANGED backoff
      BY <1>1, <3>3, IdleIsOK DEF Fail, backoff, BackoffOK
    <3>4. CASE /\ failures' = [failures EXCEPT ![i] = n]
               /\ wait' = [wait EXCEPT ![i] = Delay(n)]
               /\ Set(s, [r EXCEPT !.pc = "record", !.item = {}, !.count = 0])
      <4>1. Delay(n) \in 0..MaxDelay BY <3>1, DelayIsCapped
      <4>2. BackoffOK' BY <1>1, <3>1, <3>2, <3>4, <4>1 DEF BackoffOK
      <4> DEFINE q == [r EXCEPT !.pc = "record", !.item = {}, !.count = 0]
      <4>3. q \in SyncState /\ q.pc = "record" /\ q.kept = r.kept /\ q.found = r.found
        BY <1>1 DEF ResyncOK, SyncState
      <4> HIDE DEF q
      <4>4. Cardinality(r.found) <= Count /\ Cardinality(r.kept) <= Count
        BY <1>1, <3>1 DEF ResyncOK
      <4>5. ResyncOK(q) BY <4>3, <4>4 DEF ResyncOK
      <4>6. Set(s, q) BY <3>4 DEF q
      <4> QED BY <4>2, <4>3, <4>5, <4>6
    <3> QED BY <2>3, <3>3, <3>4 DEF WriteFailure
  <2>4. CASE Recorded(s)
    <3>1. ResyncOK([r EXCEPT !.pc = "unflag"])
      BY <1>1, <2>4 DEF ResyncOK, SyncState, Recorded, At
    <3> QED BY <1>1, <2>4, <3>1 DEF ResyncOK, SyncState, Recorded, backoff, BackoffOK
  <2>5. CASE AnnounceFails(s) \/ Stamp(s)
    BY <1>1, <2>5, IdleIsOK DEF AnnounceFails, Stamp, Fail, backoff, BackoffOK
  <2> QED BY <2>1, <2>2, <2>3, <2>4, <2>5
<1>4. ResyncsOK' /\ \A u \in Syncs : sync'[u].kept = sync[u].kept
  BY <1>1, <1>3, SetKeepsResyncs
<1>5. WatchOK' /\ (expiring \subseteq Items)' BY <1>2 DEF AutoTrackInv, WatchOK
<1>6. FlagsKept' BY <1>1, <1>2, <1>4, SameKept DEF AutoTrackInv
<1> QED BY <1>3, <1>4, <1>5, <1>6 DEF AutoTrackInv

\* The flags that remain are of items this resync found, and it keeps them.
LEMMA UnflagKeepsInv ==
    ASSUME AutoTrackInv, NEW s \in Syncs, Unflag(s)
    PROVE  AutoTrackInv'
<1> DEFINE r == sync[s]
           q == [r EXCEPT !.pc = "upsert", !.todo = r.found, !.kept = r.found]
<1>1. ResyncsOK /\ ResyncOK(r) BY DEF AutoTrackInv, ResyncsOK
<1>2. auto' = auto \cap r.found /\ Set(s, q) /\ r.pc = "unflag"
      /\ UNCHANGED <<watch, stale, failures, wait, expiring>>
  BY DEF Unflag, UnflagNotIn, At, backoff
<1>3. ResyncOK(q) /\ q.kept = r.found BY <1>1, <1>2 DEF ResyncOK, SyncState
<1> HIDE DEF q
<1>4. ResyncsOK' /\ sync'[s].kept = r.found BY <1>1, <1>2, <1>3, SetKeepsResyncs
<1>5. WatchOK' /\ BackoffOK' /\ (expiring \subseteq Items)'
  BY <1>2 DEF AutoTrackInv, WatchOK, BackoffOK
<1>6. FlagsKept' BY <1>2, <1>4 DEF FlagsKept
<1> QED BY <1>4, <1>5, <1>6 DEF AutoTrackInv

\* The upsert flags what was resolved, which the unflag before it has kept.
LEMMA UpsertKeepsInv ==
    ASSUME AutoTrackInv, NEW s \in Syncs, Upsert(s)
    PROVE  AutoTrackInv'
<1> DEFINE r == sync[s]
<1>1. ResyncsOK /\ ResyncOK(r) BY DEF AutoTrackInv, ResyncsOK
<1>2. PICK i \in r.todo : /\ watch' = watch \cup {i} /\ auto' = auto \cup {i}
                          /\ Set(s, [r EXCEPT !.todo = r.todo \ {i}])
  BY DEF Upsert
<1>3. r.pc = "upsert" /\ UNCHANGED <<stale, failures, wait, expiring>>
  BY DEF Upsert, At, backoff
<1>4. /\ i \in r.kept /\ i \in Items /\ [r EXCEPT !.todo = r.todo \ {i}].kept = r.kept
      /\ ResyncOK([r EXCEPT !.todo = r.todo \ {i}])
  BY <1>1, <1>3 DEF ResyncOK, SyncState
<1>5. ResyncsOK' /\ \A u \in Syncs : sync'[u].kept = sync[u].kept
  BY <1>1, <1>2, <1>4, SetKeepsResyncs
<1>6. WatchOK' /\ BackoffOK' /\ (expiring \subseteq Items)'
  BY <1>2, <1>3, <1>4 DEF AutoTrackInv, WatchOK, BackoffOK
<1>7. FlagsKept' BY <1>2, <1>4, <1>5 DEF AutoTrackInv, FlagsKept
<1> QED BY <1>5, <1>6, <1>7 DEF AutoTrackInv

\* What is done by hand, by the poll cycle and by time sets no flag.
LEMMA RestKeepsInv ==
    ASSUME AutoTrackInv,
           WatchItem \/ Untrack \/ GrowStale \/ Polled \/ ExpireSelect \/ ExpireDelete \/ Tick
    PROVE  AutoTrackInv'
<1>1. auto' \subseteq auto /\ UNCHANGED sync
  BY DEF WatchItem, Untrack, GrowStale, Polled, ExpireSelect, ExpireDelete, Tick, tracking
<1>2. ResyncsOK' /\ FlagsKept' BY <1>1, SameKept DEF AutoTrackInv, ResyncsOK, ResyncOK
<1>3. WatchOK' /\ (expiring \subseteq Items)'
  BY DEF WatchItem, Untrack, GrowStale, Polled, ExpireSelect, ExpireDelete, Tick, tracking,
     AutoTrackInv, WatchOK
<1>4. BackoffOK'
  <2>1. CASE UNCHANGED backoff BY <2>1 DEF backoff, AutoTrackInv, BackoffOK
  <2>2. CASE Tick BY <2>2, AutoTrackAssumption DEF Tick, AutoTrackInv, BackoffOK
  <2> QED BY <2>1, <2>2 DEF WatchItem, Untrack, GrowStale, Polled, ExpireSelect, ExpireDelete
<1> QED BY <1>2, <1>3, <1>4 DEF AutoTrackInv

\* A crash ends the resyncs and leaves the rows, and what each last kept.
LEMMA CrashKeepsInv ==
    ASSUME AutoTrackInv, Crash
    PROVE  AutoTrackInv'
<1>1. sync' = [s \in Syncs |-> Idle(sync[s].kept)] /\ expiring' = {} /\ UNCHANGED <<watch, auto, stale, failures, wait>>
  BY DEF Crash, tracking, backoff
<1>2. ASSUME NEW s \in Syncs
      PROVE  ResyncOK(Idle(sync[s].kept)) /\ Idle(sync[s].kept).kept = sync[s].kept
  BY IdleIsOK DEF AutoTrackInv, ResyncsOK
<1>3. ResyncsOK' /\ \A s \in Syncs : sync'[s].kept = sync[s].kept
  BY <1>1, <1>2 DEF ResyncsOK, ResyncOK
<1>4. FlagsKept' BY <1>1, <1>3, SameKept DEF AutoTrackInv
<1> QED BY <1>1, <1>3, <1>4 DEF AutoTrackInv, WatchOK, BackoffOK

\* The inductive invariant: each resync's state is consistent, and so are the rows.
LEMMA AutoTrackInvariant == Spec => []AutoTrackInv
<1>1. Init => AutoTrackInv
  <2> SUFFICES ASSUME Init PROVE AutoTrackInv OBVIOUS
  <2>1. ResyncOK(Idle({}))
    BY FS_EmptySet, AutoTrackAssumption DEF Idle, ResyncOK, SyncState
  <2>2. ResyncsOK BY <2>1 DEF Init, ResyncsOK, ResyncOK
  <2>3. WatchOK /\ BackoffOK /\ expiring \subseteq Items /\ FlagsKept
    BY AutoTrackAssumption DEF Init, WatchOK, BackoffOK, FlagsKept
  <2> QED BY <2>2, <2>3 DEF AutoTrackInv
<1>2. AutoTrackInv /\ [Next]_vars => AutoTrackInv'
  <2> SUFFICES ASSUME AutoTrackInv, [Next]_vars PROVE AutoTrackInv' OBVIOUS
  <2>1. CASE UNCHANGED vars
    BY <2>1 DEF vars, AutoTrackInv, ResyncsOK, ResyncOK, WatchOK, BackoffOK, FlagsKept
  <2>2. ASSUME NEW s \in Syncs, SyncStep(s) PROVE AutoTrackInv'
    BY <2>2, RankKeepsInv, RecordKeepsInv, UnflagKeepsInv, UpsertKeepsInv DEF SyncStep
  <2>3. CASE Crash BY <2>3, CrashKeepsInv
  <2> QED BY <2>1, <2>2, <2>3, RestKeepsInv DEF Next
<1> QED BY <1>1, <1>2, PTL DEF Spec

\* The tables, the backoff rows and the resyncs in progress are well typed; a delay
\* that is written is within the cap, and an aoid with no failure is not backed off.
THEOREM TypeCorrect == Spec => []TypeOK
<1>1. AutoTrackInv => TypeOK
  BY DEF AutoTrackInv, ResyncsOK, ResyncOK, WatchOK, BackoffOK, TypeOK
<1> QED BY <1>1, AutoTrackInvariant, PTL

\* However resyncs overlap, fail half way or die, an auto-tracked row is one the
\* last unflag of some resync task kept, and each kept at most Count.
THEOREM FlagsAreAccountedFor == Spec => []AutoTrackedKept
<1>1. AutoTrackInv => AutoTrackedKept
  BY DEF AutoTrackInv, ResyncsOK, ResyncOK, FlagsKept, AutoTrackedKept
<1> QED BY <1>1, AutoTrackInvariant, PTL
=============================================================================
