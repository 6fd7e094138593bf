--------------------------------- MODULE Bot ---------------------------------
(***************************************************************************)
(* The bot's thread (bot/runner.py) from the login to the loops of          *)
(* bot/scheduler.py, the bridge over which HTTP requests run coroutines on  *)
(* its event loop (api/deps.py), and the settings the loops read.  A poll   *)
(* and a resync are what Poller and AutoTrack detail; here they matter by   *)
(* when they run.  Time is counted in minutes.                              *)
(***************************************************************************)
EXTENDS Settings, Sequences, Functions

CONSTANTS
    Items,             \* the tracked aoids
    BatchSize,         \* the setting PollBatchSize
    PollMinutes, AutoTrackMinutes, AutoTrackEnabled   \* keys of settings

ASSUME BotAssumption ==
    /\ IsFiniteSet(Items) /\ BatchSize \in Nat \ {0}
    /\ {PollMinutes, AutoTrackMinutes} \subseteq IntKeys /\ AutoTrackEnabled \in BoolKeys
    /\ \E n \in Numbers \ {0} : \A m \in Numbers : m <= n

VARIABLES
    thread,   \* how far the bot's thread is
    loop,     \* its event loop
    ready,    \* BotHandle.ready
    request,  \* a request that runs a coroutine on the loop
    poll,     \* what the poll loop is doing
    batch,    \* the items its cycle has still to poll
    older,    \* the pairs of items of which the first has the older last_polled
    fresh,    \* the items polled within the interval
    stamped,  \* those that have the time of the loop's cycle
    newer,    \* those that a request has polled since that time
    resync,   \* what the autotrack loop is doing
    timer,    \* minutes it still sleeps
    age,      \* minutes since AutoTrackLastSync
    lapse     \* minutes since the loop last began a resync or settings kept it from it

vars == <<svars, thread, loop, ready, request, poll, batch, older, fresh, stamped, newer, resync, timer, age, lapse>>
life == <<thread, loop, ready>>
polling == <<poll, batch, older, fresh, stamped, newer>>
tracking == <<resync, timer, age, lapse>>

\* What login waits for, and what comes after it.
Login == [connect |-> "seed", seed |-> "charlist", charlist |-> "ok", ok |-> "started"]

Most == CHOOSE n \in Numbers : \A m \in Numbers : m <= n
Longest == 2 * Most

\* A relation that some times of the items have: of two times one is not older,
\* and any third is younger than the one or older than the other.
OrderOfTimes(before) ==
    \A i, j, k \in Items :
        <<i, j>> \in before =>
            <<j, i>> \notin before /\ (<<i, k>> \in before \/ <<k, j>> \in before)

TypeOK ==
    /\ SettingsTypeOK
    /\ thread \in DOMAIN Login \cup {"down", "started", "running", "ended"}
    /\ loop \in {"none", "open", "closed"} /\ ready \in BOOLEAN
    /\ ready <=> thread = "running"
    /\ thread = "running" => loop = "open"
    /\ request \in {"none", "submitted"}
    /\ poll \in {"off", "begin", "poll", "sleep"} /\ batch \in Seq(Items)
    /\ older \subseteq Items \X Items /\ OrderOfTimes(older)
    /\ fresh \subseteq Items /\ stamped \subseteq Items /\ newer \subseteq Items
    /\ resync \in {"off", "start", "plan", "sleep", "run"}
    /\ timer \in 0..Most /\ age \in 0..Most /\ lapse \in 0..Longest

Init ==
    /\ SettingsInit
    /\ thread = "down" /\ loop = "none" /\ ready = FALSE /\ request = "none"
    /\ poll = "off" /\ batch = <<>> /\ older = {} /\ fresh = {}
    /\ stamped = {} /\ newer = {}
    /\ resync = "off" /\ timer = 0 /\ age = Most /\ lapse = Longest

-----------------------------------------------------------------------------
(* The thread: main seeds the settings, bot_thread_main logs in.            *)

\* Mutant: ready is set with the loop and the bot.
StartReady ==
    /\ thread = "down"
    /\ Seed
    /\ thread' = "connect" /\ loop' = "open" /\ ready' = TRUE
    /\ UNCHANGED <<asked, request, polling, tracking>>

Start ==
    /\ thread = "down"
    /\ Seed
    /\ thread' = "connect" /\ loop' = "open"
    /\ UNCHANGED <<asked, ready, request, polling, tracking>>

\* The server sent what login expects of it, and the next packet was sent.
LoginStep ==
    /\ thread \in DOMAIN Login
    /\ thread' = Login[thread]
    /\ UNCHANGED <<svars, loop, ready, request, polling, tracking>>

\* It sent anything else, an error, no such character, or nothing more.
LoginFails ==
    /\ thread \in DOMAIN Login
    /\ thread' = "ended" /\ loop' = "closed"
    /\ UNCHANGED <<svars, ready, request, polling, tracking>>

\* start has created the tasks; run_forever follows.
Publish ==
    /\ thread = "started"
    /\ thread' = "running" /\ ready' = TRUE
    /\ poll' = "begin" /\ resync' = "start"
    /\ UNCHANGED <<svars, loop, request, batch, older, fresh, stamped, newer, timer, age, lapse>>

\* The process dies.
Crash ==
    /\ thread # "down"
    /\ thread' = "down" /\ loop' = "none" /\ ready' = FALSE /\ request' = "none"
    /\ asked' = {}
    /\ poll' = "off" /\ batch' = <<>> /\ stamped' = {} /\ newer' = {}
    /\ resync' = "off" /\ timer' = 0
    /\ UNCHANGED <<settings, older, fresh, age, lapse>>

-----------------------------------------------------------------------------
(* The bridge: require_bot_ready, then run_coroutine_threadsafe with no      *)
(* await between them; a loop that is closed would refuse the coroutine.    *)

Request ==
    /\ request = "none" /\ ready /\ loop = "open"
    /\ request' = "submitted"
    /\ UNCHANGED <<svars, life, polling, tracking>>

-----------------------------------------------------------------------------
(* poll_market and poll_loop.                                               *)

Due == Items \ fresh
BatchLength == IF Cardinality(Due) < BatchSize THEN Cardinality(Due) ELSE BatchSize

\* The batches of due items that a query sorted by this order may return: all items
\* that come before one of the batch are in the batch, before it.
Sorted(before) ==
    {b \in [1..BatchLength -> Due] :
        /\ \A j, k \in 1..BatchLength : b[j] = b[k] => j = k
        /\ \A k \in 1..BatchLength, i \in Due :
              <<i, b[k]>> \in before => \E j \in 1..(k - 1) : b[j] = i}

\* Mutant: the most recently polled items come first.
BatchesNewestFirst == Sorted({<<p[2], p[1]>> : p \in older})

\* due_for_poll: the oldest first, those of one time in any order.
Batches == Sorted(older)

\* update_last_polled of these items with the time of a poll's start: some others
\* have the same time already, and some a later one.
Stamp(is, same, later) ==
    /\ older' = {p \in Items \X Items :
                   IF p[1] \in is THEN p[2] \in later \ is
                   ELSE IF p[2] \in is THEN p[1] \notin same \cup later
                   ELSE p \in older}
    /\ fresh' = fresh \cup is

\* The settings are read first: one that cannot be read raises.
BeginCycle ==
    /\ poll = "begin"
    /\ IF Readable(PollMinutes)
       THEN poll' = "poll" /\ batch' \in Batches
       ELSE poll' = "sleep" /\ UNCHANGED batch
    /\ UNCHANGED <<svars, life, request, older, fresh, stamped, newer, tracking>>

PollItem(i) ==
    /\ poll = "poll" /\ batch # <<>> /\ i = Head(batch)
    /\ Stamp({i}, stamped, newer)
    /\ batch' = Tail(batch)
    /\ stamped' = stamped \cup {i} /\ newer' = newer \ {i}
    /\ UNCHANGED <<svars, life, request, poll, tracking>>

\* Anything raised for an item ends the cycle before the item is stamped.
PollRaises ==
    /\ poll = "poll" /\ batch # <<>>
    /\ poll' = "sleep" /\ batch' = <<>> /\ stamped' = {} /\ newer' = {}
    /\ UNCHANGED <<svars, life, request, older, fresh, tracking>>

Polled ==
    /\ poll = "poll" /\ batch = <<>>
    /\ poll' = "sleep" /\ stamped' = {} /\ newer' = {}
    /\ UNCHANGED <<svars, life, request, batch, older, fresh, tracking>>

Wake ==
    /\ poll = "sleep" /\ poll' = "begin"
    /\ UNCHANGED <<svars, life, request, batch, older, fresh, stamped, newer, tracking>>

\* The interval has passed since the item was polled.
BecomeDue(i) ==
    /\ i \in fresh
    /\ fresh' = fresh \ {i}
    /\ UNCHANGED <<svars, life, request, poll, batch, older, stamped, newer, tracking>>

\* A loop that runs runs the coroutine: a poll of its own, or a tell.
RunRequest ==
    /\ request = "submitted" /\ thread = "running"
    /\ request' = "none"
    /\ \/ UNCHANGED <<older, fresh, stamped, newer>>
       \/ /\ Readable(PollMinutes)
          /\ \E b \in Batches :
                /\ Stamp(Range(b), {}, {})
                /\ stamped' = stamped \ Range(b)
                /\ newer' = IF poll = "poll" THEN newer \cup Range(b) ELSE newer
    /\ UNCHANGED <<svars, life, poll, batch, tracking>>

-----------------------------------------------------------------------------
(* autotrack_loop.                                                          *)

Minutes == IF settings[AutoTrackMinutes] > 1 THEN settings[AutoTrackMinutes] ELSE 1

\* Mutant: the loop starts with its sleep.
CatchUpNever ==
    /\ resync = "start" /\ resync' = "plan"
    /\ UNCHANGED <<svars, life, request, polling, timer, age, lapse>>

\* At the start, at once if the last resync is older than the interval.
CatchUp ==
    LET able == On(AutoTrackEnabled) /\ Readable(AutoTrackMinutes) IN
    /\ resync = "start"
    /\ resync' = IF able /\ age >= Minutes THEN "run" ELSE "plan"
    /\ lapse' = IF able /\ age < Minutes THEN lapse ELSE 0
    /\ UNCHANGED <<svars, life, request, polling, timer, age>>

\* A resync ends and has stored AutoTrackLastSync, or has failed.
Resync ==
    /\ resync = "run" /\ resync' = "plan"
    /\ age' \in {0, age}
    /\ UNCHANGED <<svars, life, request, polling, timer, lapse>>

Plan ==
    /\ resync = "plan" /\ resync' = "sleep"
    /\ timer' = IF Readable(AutoTrackMinutes) THEN Minutes ELSE 1
    /\ UNCHANGED <<svars, life, request, polling, age, lapse>>

WakeUp ==
    /\ resync = "sleep" /\ timer = 0
    /\ resync' = IF On(AutoTrackEnabled) THEN "run" ELSE "plan"
    /\ lapse' = 0
    /\ UNCHANGED <<svars, life, request, polling, timer, age>>

\* POST autotrack:trigger has run one of its own, which may have failed.
Triggered ==
    /\ thread = "running" /\ On(AutoTrackEnabled)
    /\ age' \in {0, age} /\ lapse' = 0
    /\ UNCHANGED <<svars, life, request, polling, resync, timer>>

\* A minute passes, in which the loop is asleep or there is none.
Tick ==
    /\ resync = "off" \/ (resync = "sleep" /\ timer > 0)
    /\ timer' = IF timer > 0 THEN timer - 1 ELSE 0
    /\ age' = IF age < Most THEN age + 1 ELSE age
    /\ lapse' = IF resync # "off" /\ ~On(AutoTrackEnabled) THEN 0
                ELSE IF lapse < Longest THEN lapse + 1 ELSE lapse
    /\ UNCHANGED <<svars, life, request, polling, resync>>

-----------------------------------------------------------------------------
Change ==
    /\ SettingsNext
    /\ UNCHANGED <<life, request, polling, tracking>>

PollLoop == BeginCycle \/ (\E i \in Items : PollItem(i)) \/ PollRaises \/ Polled \/ Wake
AutoTrackLoop == CatchUp \/ Resync \/ Plan \/ WakeUp

Next ==
    \/ Start \/ LoginStep \/ LoginFails \/ Publish \/ Crash
    \/ Change \/ Request \/ Triggered \/ Tick
    \/ PollLoop \/ RunRequest \/ AutoTrackLoop
    \/ \E i \in Items : BecomeDue(i)

\* Tasks of a running event loop go on, time passes, and no item raises for ever.
\* Nothing is assumed of the login.
Fairness ==
    /\ WF_vars(PollLoop) /\ WF_vars(RunRequest)
    /\ \A i \in Items : WF_vars(BecomeDue(i)) /\ SF_vars(PollItem(i))

Spec == Init /\ [][Next]_vars /\ Fairness

-----------------------------------------------------------------------------
(* Properties                                                               *)

\* A request that handed a coroutine to the bot's loop gets its result or its
\* exception: the handle says ready only of a loop that runs from then on, and
\* never of one that a failed login closes.
BridgedCallsReturn == request = "submitted" ~> request = "none"

\* No coroutine waits on a loop that does not run: a request that found the handle
\* ready has its loop for as long as the process lives.
BridgedToRunning == request = "submitted" => thread = "running"

\* While the bot runs and its poll settings can be read, every tracked item is
\* polled again and again although the batch is smaller than the watchlist, cycles
\* are cut short and forced polls interfere: the oldest come first.
PolledAgain ==
    <>[](thread = "running" /\ Readable(PollMinutes)) =>
        \A i \in Items : []<>(i \in fresh)

\* However often the process restarts, less than twice the longest interval lies
\* between the resyncs the loop begins: it sleeps a whole interval after a start,
\* and the catch-up makes up for the sleeps that a restart cut short.
ResyncsNeverLapse == resync \in {"plan", "sleep", "run"} => lapse < Longest
=============================================================================
