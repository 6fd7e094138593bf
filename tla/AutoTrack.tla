------------------------------ MODULE AutoTrack ------------------------------
(***************************************************************************)
(* The auto-track resync (sync_top_traded_items in market/service.py), the  *)
(* backoff of lookups that 404 (db/aodb_backoff_repo.py), and the tables    *)
(* they share with tracking by hand and with the poll cycle's expiry.       *)
(* The loop of bot/scheduler.py and POST autotrack:trigger each run a       *)
(* resync of their own, so resyncs overlap; every repository call commits   *)
(* on its own, and one action is one step up to and including its commit.   *)
(* Delays are in hours, scaled: a timedelta overflows at 2^35 hours.        *)
(***************************************************************************)
EXTENDS Integers, FiniteSets

CONSTANTS
    Items,         \* aoids
    Syncs,         \* resyncs that may be in progress at once
    Count,         \* the setting AutoTrackCount, at least 1 in a resync that runs
    MaxDelay,      \* _MAX_DELAY, in units of _BASE_DELAY
    LargestDelay   \* the largest timedelta, in the same unit

ASSUME AutoTrackAssumption ==
    /\ IsFiniteSet(Items) /\ IsFiniteSet(Syncs)
    /\ Count \in Nat \ {0}
    /\ MaxDelay \in Nat /\ LargestDelay \in Nat /\ MaxDelay <= LargestDelay

VARIABLES
    watch,     \* rows of market_watch
    auto,      \* those of them with auto_tracked set
    stale,     \* those of them not polled or first seen since the expiry cutoff
    failures,  \* failure_count of each row of aodb_lookup_backoff; 0: no row
    wait,      \* hours until next_retry_at; 0: passed, or no row
    sync,      \* what each resync is doing
    expiring   \* the rows the poll cycle selected and is about to delete

vars == <<watch, auto, stale, failures, wait, sync, expiring>>
tracking == <<watch, auto, stale>>
backoff == <<failures, wait>>

\* ranked, todo: the aoids left to this step; found: those aodb resolved;
\* count: the failure count read for the aoid being recorded; kept: what the
\* last unflag of this resync's task kept, for the properties only.
SyncState ==
    [pc : {"idle", "due", "lookup", "record", "write", "unflag", "upsert"},
     todo : SUBSET Items, found : SUBSET Items, kept : SUBSET Items,
     item : SUBSET Items, count : Nat]

Idle(kept) == [pc |-> "idle", todo |-> {}, found |-> {}, kept |-> kept,
               item |-> {}, count |-> 0]

TypeOK ==
    /\ auto \subseteq watch /\ stale \subseteq watch /\ watch \subseteq Items
    /\ failures \in [Items -> Nat] /\ wait \in [Items -> 0..MaxDelay]
    /\ \A i \in Items : failures[i] = 0 => wait[i] = 0
    /\ sync \in [Syncs -> SyncState]
    /\ \A s \in Syncs : sync[s].pc = "write" => Cardinality(sync[s].item) = 1
    /\ expiring \subseteq Items

Init ==
    /\ watch = {} /\ auto = {} /\ stale = {}
    /\ failures = [i \in Items |-> 0] /\ wait = [i \in Items |-> 0]
    /\ sync = [s \in Syncs |-> Idle({})]
    /\ expiring = {}

-----------------------------------------------------------------------------
(* The backoff of one aoid.                                                 *)

\* _next_retry_at: the product is computed before it is capped.
Product(n) == 2 ^ (n - 1)
Overflows(n) == Product(n) > LargestDelay
Delay(n) == IF Product(n) < MaxDelay THEN Product(n) ELSE MaxDelay

\* due_for_retry
DueForRetry(is) == {i \in is : wait[i] = 0}

-----------------------------------------------------------------------------
(* sync_top_traded_items                                                    *)

At(s, pc) == sync[s].pc = pc
Set(s, step) == sync' = [sync EXCEPT ![s] = step]
Fail(s) == Set(s, Idle(sync[s].kept))

\* Pages are fetched until Count aoids are ranked or a page is missing or empty.
\* A resync that ranks nothing ends here, like one that is disabled.
Rank(s) ==
    /\ At(s, "idle")
    /\ \E is \in SUBSET Items \ {{}} :
         /\ Cardinality(is) <= Count
         /\ Set(s, [sync[s] EXCEPT !.pc = "due", !.todo = is])
    /\ UNCHANGED <<tracking, backoff, expiring>>

SkipBackedOff(s) ==
    /\ At(s, "due")
    /\ Set(s, [sync[s] EXCEPT !.pc = "lookup", !.todo = DueForRetry(@)])
    /\ UNCHANGED <<tracking, backoff, expiring>>

\* All lookups are gathered before any result is recorded; one that fails with
\* anything but a 404 fails the resync.
LookUp(s) ==
    /\ At(s, "lookup")
    /\ \/ \E is \in SUBSET sync[s].todo :
            Set(s, [sync[s] EXCEPT !.pc = "record", !.found = is])
       \/ sync[s].todo # {} /\ Fail(s)
    /\ UNCHANGED <<tracking, backoff, expiring>>

RecordSuccess(s) ==
    /\ At(s, "record")
    /\ \E i \in sync[s].todo \cap sync[s].found :
         /\ failures' = [failures EXCEPT ![i] = 0]
         /\ wait' = [wait EXCEPT ![i] = 0]
         /\ Set(s, [sync[s] EXCEPT !.todo = @ \ {i}])
    /\ UNCHANGED <<tracking, expiring>>

\* record_failure reads the count and writes it back in two steps.
ReadFailures(s) ==
    /\ At(s, "record")
    /\ \E i \in sync[s].todo \ sync[s].found :
         Set(s, [sync[s] EXCEPT !.pc = "write", !.todo = @ \ {i}, !.item = {i},
                                !.count = failures[i] + 1])
    /\ UNCHANGED <<tracking, backoff, expiring>>

\* An OverflowError fails the resync before anything is written.
WriteFailure(s) ==
    LET i == CHOOSE i \in sync[s].item : TRUE
        n == sync[s].count
    IN
    /\ At(s, "write")
    /\ IF Overflows(n)
       THEN Fail(s) /\ UNCHANGED backoff
       ELSE /\ failures' = [failures EXCEPT ![i] = n]
            /\ wait' = [wait EXCEPT ![i] = Delay(n)]
            /\ Set(s, [sync[s] EXCEPT !.pc = "record", !.item = {}, !.count = 0])
    /\ UNCHANGED <<tracking, expiring>>

Recorded(s) ==
    /\ At(s, "record") /\ sync[s].todo = {}
    /\ Set(s, [sync[s] EXCEPT !.pc = "unflag"])
    /\ UNCHANGED <<tracking, backoff, expiring>>

\* Mutant: with nothing to keep, nothing is unflagged.
UnflagUnlessEmpty(is) == auto' = IF is = {} THEN auto ELSE auto \cap is

\* unflag_autotrack_not_in: with nothing to keep, every row is unflagged.
UnflagNotIn(is) == auto' = auto \cap is

Unflag(s) ==
    /\ At(s, "unflag")
    /\ UnflagNotIn(sync[s].found)
    /\ Set(s, [sync[s] EXCEPT !.pc = "upsert", !.todo = sync[s].found,
                              !.kept = sync[s].found])
    /\ UNCHANGED <<watch, stale, backoff, expiring>>

\* A new row was first seen now; an existing one keeps its times.
Upsert(s) ==
    /\ At(s, "upsert")
    /\ \E i \in sync[s].todo :
         /\ watch' = watch \cup {i}
         /\ auto' = auto \cup {i}
         /\ Set(s, [sync[s] EXCEPT !.todo = @ \ {i}])
    /\ UNCHANGED <<stale, backoff, expiring>>

\* A chat write of an announcement fails: the rows still to do are not written.
AnnounceFails(s) ==
    /\ At(s, "upsert") /\ sync[s].todo # sync[s].found
    /\ Fail(s)
    /\ UNCHANGED <<tracking, backoff, expiring>>

\* AutoTrackLastSync, then the summary is announced.
Stamp(s) ==
    /\ At(s, "upsert") /\ sync[s].todo = {}
    /\ Set(s, Idle(sync[s].kept))
    /\ UNCHANGED <<tracking, backoff, expiring>>

-----------------------------------------------------------------------------
(* The rest of the program and the passage of time.                         *)

\* upsert_watch without the flag: an auto-tracked row stays auto-tracked.
WatchItem ==
    /\ \E i \in Items \ watch : watch' = watch \cup {i}
    /\ UNCHANGED <<auto, stale, backoff, sync, expiring>>

\* Mutant: the flag is kept in a table of its own.
UntrackKeepsFlag ==
    /\ \E i \in watch : watch' = watch \ {i} /\ stale' = stale \ {i}
    /\ UNCHANGED <<auto, backoff, sync, expiring>>

\* delete_watch of one row, or clear_watch of all of them.
Untrack ==
    /\ \E is \in ({{i} : i \in watch} \cup {watch}) \ {{}} :
         /\ watch' = watch \ is
         /\ auto' = auto \ is
         /\ stale' = stale \ is
    /\ UNCHANGED <<backoff, sync, expiring>>

\* A row goes unpolled for long enough, and update_last_polled.
GrowStale ==
    /\ \E i \in watch \ stale : stale' = stale \cup {i}
    /\ UNCHANGED <<watch, auto, backoff, sync, expiring>>
Polled ==
    /\ \E i \in stale : stale' = stale \ {i}
    /\ UNCHANGED <<watch, auto, backoff, sync, expiring>>

\* expire_stale_watch selects, then deletes what it selected.
ExpireSelect ==
    /\ expiring = {} /\ stale \ auto # {}
    /\ expiring' = stale \ auto
    /\ UNCHANGED <<tracking, backoff, sync>>
ExpireDelete ==
    /\ expiring # {} /\ expiring' = {}
    /\ watch' = watch \ expiring
    /\ auto' = auto \ expiring
    /\ stale' = stale \ expiring
    /\ UNCHANGED <<backoff, sync>>

\* An hour passes.
Tick ==
    /\ \E i \in Items : wait[i] > 0
    /\ wait' = [i \in Items |-> IF wait[i] > 0 THEN wait[i] - 1 ELSE 0]
    /\ UNCHANGED <<tracking, failures, sync, expiring>>

\* The process dies and starts again.
Crash ==
    /\ \/ expiring # {}
       \/ \E s \in Syncs : ~At(s, "idle")
    /\ expiring' = {}
    /\ sync' = [s \in Syncs |-> Idle(sync[s].kept)]
    /\ UNCHANGED <<tracking, backoff>>

SyncStep(s) ==
    \/ Rank(s) \/ SkipBackedOff(s) \/ LookUp(s)
    \/ RecordSuccess(s) \/ ReadFailures(s) \/ WriteFailure(s) \/ Recorded(s)
    \/ Unflag(s) \/ Upsert(s) \/ AnnounceFails(s) \/ Stamp(s)

Next ==
    \/ \E s \in Syncs : SyncStep(s)
    \/ WatchItem \/ Untrack \/ GrowStale \/ Polled
    \/ ExpireSelect \/ ExpireDelete
    \/ Tick \/ Crash

Spec == Init /\ [][Next]_vars

-----------------------------------------------------------------------------
(* Whatever resyncs overlap, fail half way or die, and whatever is tracked  *)
(* by hand meanwhile, an auto-tracked row is one that the last unflag of    *)
(* some resync task kept; so at most Count rows per resync that can overlap *)
(* are exempt from expiry, and exactly those of the last resync when they   *)
(* do not overlap.  A resync that resolves nothing keeps nothing.           *)
AutoTrackedKept ==
    /\ auto \subseteq UNION {sync[s].kept : s \in Syncs}
    /\ \A s \in Syncs : Cardinality(sync[s].kept) <= Count

(* db/aodb_backoff_repo.py:10-13: delays are "capped at 7 days", which      *)
(* "backs off hard rather than giving up on it forever": recording a 404    *)
(* leaves its aoid backed off.                                              *)
EveryFailureBacksOff ==
    [][\A s \in Syncs : WriteFailure(s) => \A i \in sync[s].item : wait'[i] > 0]_vars
=============================================================================
