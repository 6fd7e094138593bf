----------------------------- MODULE BotProofs -----------------------------
(***************************************************************************)
(* Theorems about Settings and Bot for any settings, any values they are    *)
(* set to, any items and any batch size.  The fairness of Spec is not used. *)
(***************************************************************************)
EXTENDS Bot, FiniteSetTheorems, TLAPS

(* Every action but those of the settings, Start and Crash leaves the        *)
(* settings alone.                                                          *)
LEMMA SettingsSteps ==
    ASSUME Next
    PROVE  \/ UNCHANGED svars
           \/ SettingsNext
           \/ Seed /\ UNCHANGED asked
           \/ UNCHANGED settings /\ asked' = {}
<1>1. CASE LoginStep \/ LoginFails \/ Publish BY <1>1 DEF LoginStep, LoginFails, Publish
<1>2. CASE Request \/ Triggered \/ Tick BY <1>2 DEF Request, Triggered, Tick
<1>3. CASE PollLoop BY <1>3 DEF PollLoop, BeginCycle, PollItem, PollRaises, Polled, Wake
<1>4. CASE RunRequest \/ \E i \in Items : BecomeDue(i) BY <1>4 DEF RunRequest, BecomeDue
<1>5. CASE AutoTrackLoop BY <1>5 DEF AutoTrackLoop, CatchUp, Resync, Plan, WakeUp
<1>6. CASE Start \/ Crash BY <1>6 DEF Start, Crash
<1>7. CASE Change BY <1>7 DEF Change
<1> QED BY <1>1, <1>2, <1>3, <1>4, <1>5, <1>6, <1>7 DEF Next

\* The text that a value is stored as is one of the texts; of a value of the row's
\* type it is the value itself.
LEMMA SerializeTypes ==
    ASSUME NEW k \in Keys, NEW v \in Texts
    PROVE  /\ Serialize(k, v) \in Texts
           /\ k \in BoolKeys => Serialize(k, v) \in {True, False}
           /\ v \in Typed(k) => Serialize(k, v) = v
BY SettingsAssumption DEF Serialize, Texts, Typed, Truthy, Keys

SettingsOK ==
    /\ settings \in [Keys -> Texts \cup {NoRow}]
    /\ asked \subseteq {a \in Keys \X Texts : a[2] \in Typed(a[1])}
    /\ asked = {} \/ \E a \in Keys \X Texts : asked = {a}

\* What a step of the settings does: a put, a command taken up, or its write.
LEMMA SettingsMoves ==
    ASSUME SettingsOK, SettingsNext
    PROVE  \E k \in Keys, v \in Texts :
             \/ Put(k, v) /\ settings' = [settings EXCEPT ![k] = Serialize(k, v)] /\ asked' = asked
             \/ asked = {} /\ asked' = {<<k, v>>} /\ v \in Typed(k) /\ settings' = settings
             \/ /\ asked = {<<k, v>>} /\ asked' = {} /\ v \in Typed(k)
                /\ settings' = [settings EXCEPT ![k] = v]
<1>1. PICK k \in Keys, v \in Texts : Put(k, v) \/ AskSet(k, v) \/ (WriteSet /\ asked = {<<k, v>>})
  BY DEF SettingsNext
<1>2. CASE Put(k, v) BY <1>2 DEF Put
<1>3. CASE AskSet(k, v) BY <1>3 DEF AskSet
<1>4. CASE WriteSet /\ asked = {<<k, v>>}
  <2>1. v \in Typed(k) BY <1>4 DEF SettingsOK
  <2>2. settings' = [settings EXCEPT ![k] = Serialize(k, v)] /\ asked' = {}
    <3>1. PICK a \in asked : settings' = [settings EXCEPT ![a[1]] = Serialize(a[1], a[2])] /\ asked' = {}
      BY <1>4 DEF WriteSet
    <3>2. a = <<k, v>> BY <1>4, <3>1
    <3>3. a[1] = k /\ a[2] = v BY <3>2
    <3> QED BY <3>1, <3>3
  <2> QED BY <1>4, <2>1, <2>2, SerializeTypes
<1> QED BY <1>1, <1>2, <1>3, <1>4

\* seed_defaults writes typed values, and only where there was no row.
LEMMA SeedTypes ==
    ASSUME SettingsOK, Seed
    PROVE  /\ settings' \in [Keys -> Texts \cup {NoRow}]
           /\ \A k \in Keys : settings'[k] # settings[k] => settings'[k] \in Typed(k)
           /\ \A k \in Keys : settings[k] \in Texts => settings'[k] = settings[k]
BY SettingsAssumption DEF SettingsOK, Seed

\* Every step of the program leaves the settings well typed.
LEMMA NextKeepsSettings ==
    ASSUME SettingsOK, Next
    PROVE  SettingsOK'
<1>1. CASE UNCHANGED svars BY <1>1 DEF svars, SettingsOK
<1>2. CASE SettingsNext
  <2>1. PICK k \in Keys, v \in Texts :
             \/ settings' = [settings EXCEPT ![k] = Serialize(k, v)] /\ asked' = asked
             \/ asked = {} /\ asked' = {<<k, v>>} /\ v \in Typed(k) /\ settings' = settings
             \/ asked' = {} /\ settings' = [settings EXCEPT ![k] = v]
    BY <1>2, SettingsMoves
  <2> QED BY <2>1, SerializeTypes DEF SettingsOK
<1>3. CASE Seed /\ UNCHANGED asked BY <1>3, SeedTypes DEF SettingsOK
<1>4. CASE UNCHANGED settings /\ asked' = {} BY <1>4 DEF SettingsOK
<1> QED BY <1>1, <1>2, <1>3, <1>4, SettingsSteps

\* The settings and the value a command holds are well typed.
LEMMA SettingsInvariant == Spec => []SettingsOK
<1>1. Init => SettingsOK BY SettingsAssumption DEF Init, SettingsInit, SettingsOK
<1>2. SettingsOK /\ [Next]_vars => SettingsOK'
  BY NextKeepsSettings DEF vars, svars, SettingsOK
<1> QED BY <1>1, <1>2, PTL DEF Spec

\* The rows of the settings table are texts, and !settings stores one value of the
\* row's type at a time.
THEOREM SettingsTypeCorrect == Spec => []SettingsTypeOK
<1>1. SettingsOK => SettingsTypeOK
  <2> SUFFICES ASSUME SettingsOK PROVE Cardinality(asked) <= 1 BY DEF SettingsOK, SettingsTypeOK
  <2>1. CASE asked = {} BY <2>1, FS_EmptySet
  <2>2. ASSUME NEW a, asked = {a} PROVE Cardinality(asked) <= 1
    <3>1. Cardinality({a}) = 1 BY FS_Singleton
    <3> QED BY <2>2, <3>1
  <2> QED BY <2>1, <2>2 DEF SettingsOK
<1> QED BY <1>1, SettingsInvariant, PTL

\* What !settings has coerced is what is read after it is stored, whatever was put
\* over HTTP between the two; a bool row is only ever changed to true or false.
THEOREM CommandsTakeEffect == Spec => SettingTakesEffect
<1> DEFINE A == /\ \A k \in Keys, v \in Texts :
                      (asked = {<<k, v>>} /\ asked' = {} /\ settings' # settings) => settings'[k] = v
                /\ \A k \in BoolKeys : settings'[k] # settings[k] => settings'[k] \in {True, False}
<1>1. SettingsOK /\ [Next]_vars => [A]_svars
  <2> SUFFICES ASSUME SettingsOK, Next, ~UNCHANGED svars PROVE A BY DEF vars
  <2>1. CASE SettingsNext
    <3>1. PICK k \in Keys, v \in Texts :
             \/ settings' = [settings EXCEPT ![k] = Serialize(k, v)] /\ asked' = asked
             \/ asked = {} /\ asked' = {<<k, v>>} /\ v \in Typed(k) /\ settings' = settings
             \/ /\ asked = {<<k, v>>} /\ asked' = {} /\ v \in Typed(k)
                /\ settings' = [settings EXCEPT ![k] = v]
      BY <2>1, SettingsMoves
    <3>2. k \in BoolKeys => Serialize(k, v) \in {True, False} /\ (v \in Typed(k) => v \in {True, False})
      BY SerializeTypes DEF Typed
    <3>3. ASSUME NEW l \in Keys, NEW w \in Texts, asked = {<<l, w>>}, asked' = {}, settings' # settings
          PROVE  settings'[l] = w
      <4>1. <<k, v>> = <<l, w>> /\ settings' = [settings EXCEPT ![k] = v] BY <3>1, <3>3
      <4>2. k = l /\ v = w BY <4>1
      <4> QED BY <4>1, <4>2 DEF SettingsOK
    <3>4. ASSUME NEW l \in BoolKeys, settings'[l] # settings[l] PROVE settings'[l] \in {True, False}
      BY <3>1, <3>2, <3>4 DEF SettingsOK, Keys
    <3> QED BY <3>3, <3>4
  <2>2. CASE Seed /\ UNCHANGED asked
    <3>1. \A k \in BoolKeys : k \in Keys /\ Typed(k) = {True, False} BY DEF Keys, Typed
    <3> QED BY <2>2, <3>1, SeedTypes
  <2>3. CASE UNCHANGED settings /\ asked' = {} BY <2>3
  <2> QED BY <2>1, <2>2, <2>3, SettingsSteps
<1> QED BY <1>1, SettingsInvariant, PTL DEF Spec, SettingTakesEffect

\* Only a put of a wrong value makes a row unreadable.
THEOREM OnlyPutsSpoil == Spec => UnreadableByPutOnly
<1> DEFINE A == \A k \in Keys :
                   settings[k] \in Typed(k) /\ settings'[k] \notin Typed(k) =>
                       \E v \in Texts : Put(k, v)
<1>1. SettingsOK /\ [Next]_vars => [A]_svars
  <2> SUFFICES ASSUME SettingsOK, Next, ~UNCHANGED svars, NEW k \in Keys,
                      settings[k] \in Typed(k), settings'[k] \notin Typed(k)
               PROVE  \E v \in Texts : Put(k, v)
    BY DEF vars
  <2>1. CASE SettingsNext
    <3>1. PICK l \in Keys, v \in Texts :
             \/ Put(l, v) /\ settings' = [settings EXCEPT ![l] = Serialize(l, v)]
             \/ settings' = settings
             \/ v \in Typed(l) /\ settings' = [settings EXCEPT ![l] = v]
      BY <2>1, SettingsMoves
    <3>2. l = k BY <3>1 DEF SettingsOK
    <3> QED BY <3>1, <3>2 DEF SettingsOK
  <2>2. CASE Seed /\ UNCHANGED asked BY <2>2, SeedTypes
  <2>3. CASE UNCHANGED settings /\ asked' = {} BY <2>3
  <2> QED BY <2>1, <2>2, <2>3, SettingsSteps
<1> QED BY <1>1, SettingsInvariant, PTL DEF Spec, UnreadableByPutOnly

-----------------------------------------------------------------------------
\* The handle is ready exactly while the loop runs, the loop is open from the start of
\* a login to its failure, and who found the handle ready has a loop that runs.
LifeInv ==
    /\ thread \in {"down", "connect", "seed", "charlist", "ok", "started", "running", "ended"}
    /\ loop \in {"none", "open", "closed"} /\ request \in {"none", "submitted"}
    /\ ready <=> thread = "running"
    /\ ready \in BOOLEAN
    /\ thread \in {"connect", "seed", "charlist", "ok", "started", "running"} => loop = "open"
    /\ BridgedToRunning

\* The inductive invariant of the thread, its loop and the bridge.
LEMMA LifeInvariant == Spec => []LifeInv
<1>0. /\ DOMAIN Login = {"connect", "seed", "charlist", "ok"}
      /\ \A t \in DOMAIN Login : Login[t] \in {"seed", "charlist", "ok", "started"}
  BY DEF Login
<1> USE DEF LifeInv, BridgedToRunning
<1>1. Init => LifeInv BY DEF Init
<1>2. LifeInv /\ [Next]_vars => LifeInv'
  <2> SUFFICES ASSUME LifeInv, [Next]_vars PROVE LifeInv' OBVIOUS
  <2>1. CASE UNCHANGED vars BY <2>1 DEF vars
  <2>2. CASE Start BY <2>2 DEF Start
  <2>9. CASE Crash BY <2>9 DEF Crash
  <2>10. CASE Publish BY <2>10 DEF Publish
  <2>3. CASE LoginStep BY <1>0, <2>3 DEF LoginStep
  <2>4. CASE LoginFails BY <1>0, <2>4 DEF LoginFails
  <2>5. CASE Request \/ RunRequest BY <2>5 DEF Request, RunRequest, life
  <2>6. CASE Change \/ Triggered \/ Tick \/ \E i \in Items : BecomeDue(i)
    BY <2>6 DEF Change, Triggered, Tick, BecomeDue, life
  <2>7. CASE PollLoop
    <3>1. UNCHANGED <<life, request>>
      BY <2>7 DEF PollLoop, BeginCycle, PollItem, PollRaises, Polled, Wake
    <3> QED BY <3>1 DEF life
  <2>8. CASE AutoTrackLoop BY <2>8 DEF AutoTrackLoop, CatchUp, Resync, Plan, WakeUp, life
  <2> QED BY <2>1, <2>2, <2>3, <2>4, <2>5, <2>6, <2>7, <2>8, <2>9, <2>10 DEF Next
<1> QED BY <1>1, <1>2, PTL DEF Spec

\* A request never waits for a loop that does not run.
THEOREM NoRequestIsStranded == Spec => []BridgedToRunning
<1>1. LifeInv => BridgedToRunning BY DEF LifeInv
<1> QED BY <1>1, LifeInvariant, PTL

-----------------------------------------------------------------------------
\* The autotrack loop's clock.  As long as age is not capped the loop began a resync
\* no longer ago than the last one was stored; so the catch-up that does not run one
\* leaves less than an interval of lapse, to which the sleep that follows adds at
\* most another.
ClockInv ==
    /\ resync \in {"off", "start", "plan", "sleep", "run"}
    /\ timer \in 0..Most /\ age \in 0..Most /\ lapse \in 0..Longest
    /\ age = Most \/ lapse <= age
    /\ resync = "plan" => lapse < Most
    /\ resync = "sleep" => lapse + timer < Longest
    /\ resync = "run" => lapse = 0

\* The longest interval is a greatest number, positive, and Longest is twice that.
LEMMA MostIsGreatest ==
    /\ Most \in Nat \ {0} /\ \A m \in Numbers : m <= Most
    /\ Longest = Most + Most /\ Longest \in Nat
<1>1. Most \in Numbers \ {0} /\ \A m \in Numbers : m <= Most
  <2>1. PICK n \in Numbers \ {0} : \A m \in Numbers : m <= n BY BotAssumption
  <2>2. Most \in Numbers /\ \A m \in Numbers : m <= Most BY <2>1 DEF Most
  <2>3. n <= Most BY <2>1, <2>2
  <2> QED BY <2>1, <2>2, <2>3, SettingsAssumption
<1>2. Most \in Nat \ {0} BY <1>1, SettingsAssumption
<1> QED BY <1>1, <1>2 DEF Longest

\* An interval that can be read is between one minute and the longest.
LEMMA MinutesAreBounded ==
    Readable(AutoTrackMinutes) => Minutes \in Nat /\ 1 <= Minutes /\ Minutes <= Most
<1> SUFFICES ASSUME Readable(AutoTrackMinutes) PROVE Minutes \in Nat /\ 1 <= Minutes /\ Minutes <= Most
  OBVIOUS
<1>1. settings[AutoTrackMinutes] \in Numbers
  BY SettingsAssumption, BotAssumption DEF Readable
<1>2. settings[AutoTrackMinutes] \in Nat /\ settings[AutoTrackMinutes] <= Most
  BY <1>1, MostIsGreatest, SettingsAssumption
<1> QED BY <1>2, MostIsGreatest DEF Minutes

\* Every step keeps the time since the last resync within what the loop's state allows.
LEMMA NextKeepsClock ==
    ASSUME ClockInv, Next
    PROVE  ClockInv'
<1> USE DEF ClockInv
<1>0. Most \in Nat \ {0} /\ Longest = Most + Most BY MostIsGreatest
<1>1. CASE UNCHANGED tracking
  BY <1>0, <1>1 DEF tracking
<1>2. CASE Publish \/ Crash BY <1>0, <1>2 DEF Publish, Crash
<1>3. CASE CatchUp
  <2>1. CASE On(AutoTrackEnabled) /\ Readable(AutoTrackMinutes) /\ age < Minutes
    <3>1. resync' = "plan" /\ UNCHANGED <<timer, age, lapse>>
      <4>1. ~(age >= Minutes) BY <2>1, MinutesAreBounded, <1>0
      <4> QED BY <1>3, <2>1, <4>1 DEF CatchUp
    <3>2. lapse < Most BY <1>0, <2>1, MinutesAreBounded
    <3> QED BY <1>0, <3>1, <3>2
  <2>2. CASE ~(On(AutoTrackEnabled) /\ Readable(AutoTrackMinutes) /\ age < Minutes)
    <3>1. resync' \in {"run", "plan"} /\ lapse' = 0 /\ UNCHANGED <<timer, age>>
      BY <1>3, <2>2 DEF CatchUp
    <3> QED BY <1>0, <3>1
  <2> QED BY <2>1, <2>2
<1>4. CASE Resync BY <1>0, <1>4 DEF Resync
<1>5. CASE Plan
  <2>1. resync = "plan" /\ resync' = "sleep" /\ UNCHANGED <<age, lapse>> BY <1>5 DEF Plan
  <2>2. timer' \in Nat /\ timer' <= Most BY <1>0, <1>5, MinutesAreBounded DEF Plan
  <2>3. lapse' < Most /\ lapse' \in Nat BY <1>0, <2>1
  <2>4. lapse' + timer' < Longest
    <3>1. ASSUME NEW a \in Nat, NEW b \in Nat, NEW m \in Nat, a < m, b <= m PROVE a + b < m + m
      BY <3>1
    <3> HIDE DEF ClockInv
    <3> QED BY <1>0, <2>2, <2>3, <3>1
  <2>5. timer' \in 0..Most /\ age' \in 0..Most /\ lapse' \in 0..Longest
        /\ (age' = Most \/ lapse' <= age')
    BY <1>0, <2>1, <2>2
  <2> QED BY <2>1, <2>4, <2>5
<1>6. CASE WakeUp BY <1>0, <1>6 DEF WakeUp
<1>7. CASE Triggered BY <1>0, <1>7 DEF Triggered
<1>8. CASE Tick
  <2>1. /\ resync' = resync /\ resync \notin {"plan", "run"}
        /\ timer' = (IF timer > 0 THEN timer - 1 ELSE 0)
        /\ age' = (IF age < Most THEN age + 1 ELSE age)
        /\ resync = "sleep" => timer > 0
    BY <1>8 DEF Tick
  <2>2. lapse' = 0 \/ lapse' = (IF lapse < Longest THEN lapse + 1 ELSE lapse)
    BY <1>8 DEF Tick
  <2>3. age' \in 0..Most /\ timer' \in 0..Most /\ lapse' \in 0..Longest BY <1>0, <2>1, <2>2
  <2>4. age' = Most \/ lapse' <= age' BY <1>0, <2>1, <2>2
  <2>5. resync' = "sleep" => lapse' + timer' < Longest BY <1>0, <2>1, <2>2
  <2> QED BY <2>1, <2>3, <2>4, <2>5
<1>9. CASE Start \/ LoginStep \/ LoginFails \/ Change \/ Request
  BY <1>1, <1>9 DEF Start, LoginStep, LoginFails, Change, Request
<1>10. CASE PollLoop \/ RunRequest \/ \E i \in Items : BecomeDue(i)
  BY <1>1, <1>10 DEF PollLoop, BeginCycle, PollItem, PollRaises, Polled, Wake, RunRequest, BecomeDue
<1> QED BY <1>2, <1>3, <1>4, <1>5, <1>6, <1>7, <1>8, <1>9, <1>10 DEF Next, AutoTrackLoop

\* The inductive invariant of the clock.
LEMMA ClockInvariant == Spec => []ClockInv
<1>1. Init => ClockInv BY MostIsGreatest DEF Init, ClockInv
<1>2. ClockInv /\ [Next]_vars => ClockInv'
  BY NextKeepsClock DEF vars, tracking, ClockInv
<1> QED BY <1>1, <1>2, PTL DEF Spec

\* However often the process restarts, less than twice the longest interval lies between
\* the resyncs the loop begins.
THEOREM RestartsNeverLapse == Spec => []ResyncsNeverLapse
<1>1. ClockInv => ResyncsNeverLapse
  BY MostIsGreatest DEF ClockInv, ResyncsNeverLapse
<1> QED BY <1>1, ClockInvariant, PTL

-----------------------------------------------------------------------------
\* What the poll loop's cycle has stamped has one time, newer than that of every item
\* but those that forced polls have stamped since; between cycles there is neither.
TimesInv ==
    /\ OrderOfTimes(older)
    /\ poll # "poll" => stamped = {} /\ newer = {}
    /\ stamped \cap newer = {}
    /\ \A i \in Items, j \in stamped :
          /\ i \notin stamped \cup newer => <<i, j>> \in older
          /\ i \in stamped => <<i, j>> \notin older
    /\ \A i \in Items, j \in newer : i \notin newer => <<i, j>> \in older

PollingOK ==
    /\ poll \in {"off", "begin", "poll", "sleep"} /\ (poll # "off" => thread = "running")
    /\ batch \in Seq(Items)
    /\ older \subseteq Items \X Items
    /\ fresh \subseteq Items /\ stamped \subseteq Items /\ newer \subseteq Items
    /\ TimesInv

\* A batch is a sequence of items.
LEMMA BatchesAreSequences == \A b \in Batches : b \in Seq(Items) /\ Range(b) \subseteq Items
<1>1. Cardinality(Due) \in Nat /\ Due \subseteq Items
  BY BotAssumption, FS_Subset, FS_CardinalityType DEF Due
<1>2. BatchLength \in Nat BY <1>1, BotAssumption DEF BatchLength
<1>3. \A b \in Batches : b \in [1..BatchLength -> Items] BY <1>1 DEF Batches, Sorted
<1> QED BY <1>2, <1>3 DEF Range

\* An item polled by the cycle joins those of the cycle's time.
LEMMA PollItemKeepsTimes ==
    ASSUME PollingOK, NEW i \in Items, PollItem(i)
    PROVE  TimesInv'
<1>0. /\ poll = "poll" /\ poll' = poll
      /\ stamped' = stamped \cup {i} /\ newer' = newer \ {i}
      /\ Stamp({i}, stamped, newer)
  BY DEF PollItem
<1>1. \A j, k \in Items : <<j, k>> \in older' <=>
          IF j = i THEN k \in newer \ {i}
          ELSE IF k = i THEN j \notin stamped \cup newer
          ELSE <<j, k>> \in older
  BY <1>0 DEF Stamp
<1>2. OrderOfTimes(older)'
  BY <1>1 DEF PollingOK, TimesInv, OrderOfTimes
<1>3. \A j \in Items, k \in stamped' :
          /\ j \notin stamped' \cup newer' => <<j, k>> \in older'
          /\ j \in stamped' => <<j, k>> \notin older'
  BY <1>0, <1>1 DEF PollingOK, TimesInv
<1>4. \A j \in Items, k \in newer' : j \notin newer' => <<j, k>> \in older'
  BY <1>0, <1>1 DEF PollingOK, TimesInv
<1> QED BY <1>0, <1>2, <1>3, <1>4 DEF PollingOK, TimesInv

\* A forced poll's items become the newest of all.
LEMMA ForcedPollKeepsTimes ==
    ASSUME PollingOK, NEW is \in SUBSET Items, Stamp(is, {}, {}), poll' = poll,
           stamped' = stamped \ is,
           newer' = IF poll = "poll" THEN newer \cup is ELSE newer
    PROVE  TimesInv'
<1>1. \A j, k \in Items : <<j, k>> \in older' <=>
          IF j \in is THEN FALSE ELSE IF k \in is THEN TRUE ELSE <<j, k>> \in older
  BY DEF Stamp
<1>2. OrderOfTimes(older)'
  BY <1>1 DEF PollingOK, TimesInv, OrderOfTimes
<1>3. \A j \in Items, k \in stamped' :
          /\ j \notin stamped' \cup newer' => <<j, k>> \in older'
          /\ j \in stamped' => <<j, k>> \notin older'
  BY <1>1 DEF PollingOK, TimesInv
<1>4. \A j \in Items, k \in newer' : j \notin newer' => <<j, k>> \in older'
  BY <1>1 DEF PollingOK, TimesInv
<1> QED BY <1>2, <1>3, <1>4 DEF PollingOK, TimesInv

\* Every step keeps the batch, the order of the items and the cycle's time.
LEMMA NextKeepsPolling ==
    ASSUME PollingOK, Next
    PROVE  PollingOK'
<1> USE DEF PollingOK
<1>1. CASE UNCHANGED polling /\ (thread = "running" => thread' = thread)
  BY <1>1 DEF polling, TimesInv, OrderOfTimes
<1>2. CASE Start \/ LoginStep \/ LoginFails
  <2>1. DOMAIN Login = {"connect", "seed", "charlist", "ok"} BY DEF Login
  <2>2. thread # "running" BY <1>2, <2>1 DEF Start, LoginStep, LoginFails
  <2> QED BY <1>1, <1>2, <2>2 DEF Start, LoginStep, LoginFails
<1>3. CASE Change \/ Request \/ Triggered \/ Tick \/ AutoTrackLoop
  BY <1>1, <1>3 DEF Change, Request, Triggered, Tick, AutoTrackLoop, CatchUp, Resync, Plan, WakeUp, life
<1>9. CASE Publish
  BY <1>9 DEF Publish, TimesInv, OrderOfTimes
<1>10. CASE Crash
  BY <1>10 DEF Crash, TimesInv, OrderOfTimes
<1>4. CASE BeginCycle BY <1>4, BatchesAreSequences DEF BeginCycle, life, TimesInv, OrderOfTimes
<1>5. ASSUME NEW i \in Items, PollItem(i) PROVE PollingOK'
  <2>1. older' \subseteq Items \X Items /\ fresh' \subseteq Items /\ batch' \in Seq(Items)
    BY <1>5 DEF PollItem, Stamp
  <2> QED BY <1>5, <2>1, PollItemKeepsTimes DEF PollItem, life
<1>6. CASE PollRaises \/ Polled
  <2>1. /\ poll' = "sleep" /\ stamped' = {} /\ newer' = {} /\ UNCHANGED <<older, fresh, thread>>
        /\ batch' = batch \/ batch' = <<>>
    BY <1>6 DEF PollRaises, Polled, life
  <2>2. batch' \in Seq(Items)
    <3>1. <<>> \in Seq(Items) OBVIOUS
    <3>2. batch \in Seq(Items) OBVIOUS
    <3> QED BY <2>1, <3>1, <3>2
  <2>3. thread = "running" BY <1>6 DEF PollRaises, Polled
  <2> QED BY <2>1, <2>2, <2>3 DEF TimesInv, OrderOfTimes
<1>11. CASE Wake BY <1>11 DEF Wake, life, TimesInv, OrderOfTimes
<1>7. ASSUME NEW i \in Items, BecomeDue(i) PROVE PollingOK'
  BY <1>7 DEF BecomeDue, life, TimesInv, OrderOfTimes
<1>8. CASE RunRequest
  <2>1. CASE UNCHANGED polling BY <1>1, <1>8, <2>1 DEF RunRequest, life
  <2>2. ASSUME NEW b \in Batches, Stamp(Range(b), {}, {}), stamped' = stamped \ Range(b),
               newer' = IF poll = "poll" THEN newer \cup Range(b) ELSE newer
        PROVE  PollingOK'
    <3>1. Range(b) \subseteq Items BY BatchesAreSequences
    <3>2. UNCHANGED <<poll, batch, thread>> BY <1>8 DEF RunRequest, life
    <3>3. older' \subseteq Items \X Items /\ fresh' \subseteq Items BY <2>2, <3>1 DEF Stamp
    <3>4. TimesInv' BY <2>2, <3>1, <3>2, ForcedPollKeepsTimes
    <3>5. stamped' \subseteq Items /\ newer' \subseteq Items BY <2>2, <3>1
    <3> QED BY <3>2, <3>3, <3>4, <3>5
  <2> QED BY <1>8, <2>1, <2>2 DEF RunRequest, polling
<1> QED BY <1>2, <1>3, <1>4, <1>5, <1>6, <1>7, <1>8, <1>9, <1>10, <1>11 DEF Next, PollLoop

\* The thread, the bridge, the two loops and the settings are well typed, and the
\* order of the items is one that times give, however forced polls and the loop's
\* cycle stamp the same items.
THEOREM TypeCorrect == Spec => []TypeOK
<1>1. Init => PollingOK
  BY DEF Init, PollingOK, TimesInv, OrderOfTimes
<1>2. PollingOK /\ [Next]_vars => PollingOK'
  BY NextKeepsPolling DEF vars, life, PollingOK, TimesInv, OrderOfTimes
<1>3. DOMAIN Login = {"connect", "seed", "charlist", "ok"} BY DEF Login
<1>4. SettingsTypeOK /\ LifeInv /\ ClockInv /\ PollingOK => TypeOK
  BY <1>3 DEF LifeInv, ClockInv, PollingOK, TimesInv, TypeOK
<1> QED BY <1>1, <1>2, <1>4, SettingsTypeCorrect, LifeInvariant, ClockInvariant, PTL DEF Spec
=============================================================================
