# A verification development of aomarket-bot

`aomarket-bot` watches the player market of a game for its users. Players talk
to a chat bot by tells, or to the same service over HTTP; the bot polls market
orders of the items that are tracked and alerts subscribers of new ones. All
state that lasts is in PostgreSQL; every repository method commits on its own,
and no call spans its steps with a transaction or a lock. That is the theme of
this development: what holds of the tables and of the chat session while calls,
poll cycles, resyncs and packets interleave between those commits.

## The system

| component | state | operations | what makes it correct |
|---|---|---|---|
| Registration, watchlists, tracking (`market/service.py`, `db/market_repo.py`) | `market_users`, `market_watch`, `market_subscriptions`, `market_user_actions` | register, unregister, subscribe, unsubscribe (one, bulk, all), watch_item, stop_tracking, untrack_all, expiry | a subscription has a player and an item; the limit; only the owner ends a subscription; a member has a ledger |
| Poll cycle (`market/service.py`, run by `bot/scheduler.py` and `POST /bot/poll:trigger`) | `market_seen_orders`, `market_pending_alerts`, `last_polled` | poll_market, _detect_new_orders, notify_subscribers | every new order reaches every subscriber whose filter it passes; nobody is told twice |
| Chat session (`aochat/client.py`, `bot/runner.py`) | socket, name and buddy tables, lookup futures | read loop, lookup_user, is_online_by_name, send_tell, tell handling | every tell is answered, every lookup ends, the reader lives as long as the connection |
| API keys (`auth/service.py`, `api/auth_deps.py`) | `api_keys` | generate, revoke, authenticate, require_player_key | one active key per player; a request acts within the scope of its key |
| Auto-track resync (`sync_top_traded_items`, `db/aodb_backoff_repo.py`) | the `auto_tracked` flag, `aodb_lookup_backoff` | rank, skip backed-off, look up, record, unflag, upsert | the flagged rows are those a resync resolved; a missing item is backed off, never given up |
| Schedulers (`bot/scheduler.py`) | `last_polled`, `AutoTrackLastSync`, sleeps | poll_loop, autotrack_loop | every item has its turn; restarts do not put a resync off for ever; a bad cycle or setting does not end a loop |
| Bot thread (`bot/runner.py`, `api/deps.py`, `main.py`) | `BotHandle.ready`, `loop`, tasks | start, login, call_on_bot | a bridged call returns or is refused |
| Settings (`db/settings_repo.py`, two writers) | `settings` | seed_defaults, get, set | a stored value reads back as what was asked for, and stays readable unless an admin puts one that is not |
| Filters (`market/parsing.py`, filter columns) | ranges on a subscription | set, clear, PUT of both halves, matches | a filter passes some order, and exactly those in its ranges; edits do not undo each other |
| Packets and login key (`aochat/packet.py`, `protocol.py`, `crypto.py`) | a stream of bytes | encode, decode, read, derive the key | packets are read whole and as sent; the server recovers the credentials |

Interactions: the chat reader task takes one packet at a time and awaits the
handler of a tell inside its dispatch, so tells are serial. HTTP requests run on
another event loop and interleave with everything at every await. The poll loop
and the resync loop are tasks of the bot's loop; each has an HTTP trigger that
runs a second one at the same time. Poll cycles call the chat session to learn
who is online and to send. Tracking is shared by four writers (subscribe, the
admin route and item overview, expiry, resync), registration by three.

The process starts by seeding the settings, then starts a thread for the bot,
which logs in, publishes its handle and runs the loops; HTTP requests wait for
`ready` and hand coroutines to its event loop. The loops read their settings anew
each cycle, and two routes write them.

Hard behaviours: check-then-act over several commits; alerts sent before or
after what they are derived from is stored; crashes and a closing socket between
those; restarts that cut sleeps short and faults that cut cycles short; settings
that cannot be read; filters edited while their row is remade; name lookups that share a table of futures; a reader that waits for a
handler; resyncs that unflag each other's rows. `PROJECT.json` lists each at its
line under `hazards`.

## The modules

An action is one step of a call: from one await that commits, sends or receives
to the next. A call in progress is a record with a `pc`; an action named after a
code line is that line's whole step. Loops over rows pick the next row with
`\E`. Reads and writes that nothing else can observe are folded into the step
they belong to. A refused or failed call ends; its reply is not state. Operators
marked "Mutant" in the modules are variants of the definition after them with a
plausible bug; they are used only to see that a property can fail.

**`Registry`** - `users`, `watch`, `subs`, `ledger` are the four tables (a ledger
is reduced to who has one; `cut` are players a crash left without), `pc` and `req` the calls in progress on `Workers`.
`RegisterInsert` and `SubscribeInsert` model the constraints: a primary key,
unique or foreign key that does not hold ends the call, as no handler catches
IntegrityError. `DeleteWatch` is the row deletion with its cascade. A crash ends
all calls. `PastLimit` and `Safe` name the states on which the hazards turn.

**`Poller`** - a poller is a run of `poll_market` with its local variables
(batch, item, orders fetched, new ones, subscribers left). The market, players
and HTTP calls are the environment, each step one commit. `ForgetSeen` and
`RememberSeen` are the delete and the commit of `replace_seen_fingerprints`
under read committed isolation: of two that overlap, the later commit keeps rows
the earlier one inserted after the later one's delete (`late`). `owed` and
`told` record, for the properties only, which alerts a posting of an order
creates and which were given. An order is an opaque fingerprint and `Wants`
stands for the filters. `_snapshot` is reduced to its foreign key.

**`ChatClient`** - the server's packets in order (`inbox`), the reader task, the
table of lookup futures (`waiters`), and callers, each going through
`is_online_by_name` and then sending or queueing. The server is the environment:
it answers lookups and buddy requests in any order, may send a packet of a type
that `IN_SCHEMAS` does not list, may close. Characters are names and ids at once.

**`ApiKeys`** - `holder`, `revoked` are the table, `users` the part of
`market_users` the keys' foreign key sees; tasks are chat readers (one in the
program) and HTTP requests. `generate_key` is its four commits. `newest` is for
the properties only. The token is an abstract value that is minted once; hashing
is left out. The admin column is set by nothing in `src/`, so the owner is the
only admin.

**`AutoTrack`** - a resync's `pc`, what is left to do, what was resolved; the
watch rows with their flag and whether they are stale; failure counts and hours
to wait. Hours are scaled: `MaxDelay` is the cap (168 in the code) and
`LargestDelay` the largest timedelta (about 2.4e10 hours, so that 2^34 fits and
2^35 does not). `existing_aoids` and the announcements only choose what is
announced; an announcement that fails ends the resync (`AnnounceFails`).

**`Filters`** extends `Registry` with the filter columns (`filter`) and the calls
that edit them (`edit`): each half is checked in one transaction and written in
another, and a PUT does one half after the other. `ParseRange` and its parsers
work on numerals (tenths and a unit; `Junk` is any text that is no number), with
Python's rounding to even; `Storable` is the width of the columns. The calls of
`Registry` go on unchanged, making and removing the rows.

**`AlertSpec`** is what alerting promises, without polls: owed alerts, told ones,
and orders that count as known. `Poller` implements it (`ImplementsAlerting`):
`standing` is mapped to orders on the market with a subscription that wants them,
`known` to the seen table. Posting, withdrawing and (un)subscribing are `Change`,
sending or queueing is `Tell`, the two halves of `replace_seen_fingerprints` are
`Learn`; all other steps of a cycle stutter.

**`WatchSpec`** and **`KeySpec`** are what the registry and the key store promise,
without calls. In `WatchSpec` members watch tracked items from an allowed set: joining,
leaving, watching, unwatching (one or all), tracking and untracking are each one step.
`Registry` implements it (`ImplementsWatching`): the users are the members, the watch
rows the tracked items, a player's subscriptions what the player watches; allowed are
sets of at most the limit and one item for each other call. Only the steps that
write these tables map to steps, checks and ledger entries stutter. In `KeySpec` a
member is given a key that never was, and a key once taken never works again.
`ApiKeys` implements it (`ImplementsIssuing`): a player's active keys are those that
work, `minted` those there ever were; `RevokeAll` is `Take`, `GenerateCreate` is
`Give`, or `Waste` when the player has gone, and the cascade is `Leave`.

**`Settings`** - rows of text that read back by the type beside them. `Put` is the
HTTP route (any JSON value), `AskSet` and `WriteSet` the two steps of the in-game
command, `Seed` the start of the process. A text is a number, true, false, or any
other string (`Word`).

**`Bot`** extends `Settings` with the thread (`thread`, `loop`, `ready`), one
request over the bridge, the poll loop with `last_polled` as an order (`older`, in
which items of one time are not related; `stamped` have the time of the loop's
cycle, `newer` a later one from a forced poll; `fresh` are not due) and the resync loop with its minutes (`timer`, `age` of
`AutoTrackLastSync`; `lapse` is for the property only). What a cycle or a resync
does within is in `Poller` and `AutoTrack`.

**`LoginKey`** and **`Wire`** are calculations: the login key with the server's
side of the exchange as reference, and the packets with what a stream cut at any
byte yields. Bytes and words are scaled; shifts scale with them.

`MC_*` modules add symmetry sets and filter values for TLC. `RegistryProofs`,
`FiltersProofs`, `PollerProofs`, `ApiKeysProofs`, `AutoTrackProofs`,
`ChatClientProofs` and `BotProofs` (with `Settings`) hold the theorems.

## The runs

| run | what it shows | bounds |
|---|---|---|
| registry_concurrent | types, referential integrity, the limit exceeded by no more than one per other call, members have ledgers, subscriptions end by their owner; `Registry` implements `WatchSpec` | 2 players, 3 items, 2 overlapping calls, limit 1, crashes anywhere: three items let two calls exceed the limit and leave one more to try |
| registry_serial | one call at a time: the exact limit, no constraint met, every call ends; an overlapping filter edit leaves a filter that passes some order, and changes only its own half | 1 player, 2 items, limit 1, 1 editor, four specs (rounded, plain, reversed, too large), crashes anywhere |
| registry_limit (violation) | two calls exceed the limit | 1 player, 2 items |
| poller_faults | no owed alert is in the seen table; `Poller` implements `AlertSpec` | 1 subscriber, 1 item, 2 orders, 2 overlapping polls, one crash or broken connection |
| poller_fair | every owed alert is settled; a lone poller never repeats one unless cut short | 2 subscribers with different filters, 2 orders, 1 poller, one fault |
| poller_empty_book (violation) | a book that empties loses the next new order | 1 subscriber, 2 orders, 1 poller |
| chat_client | futures belong to callers that wait; an online player's alert is queued only while the report is unread; calls end; tells are answered | 1 name, 2 callers, 2 packets in flight, 1 unlisted packet, a broken connection |
| chat_unlisted (violation) | one unlisted packet ends the reader of an open connection | 1 name, 1 caller |
| api_keys | one active key, the newest; keys have players; unregisters are scoped; `ApiKeys` implements `KeySpec` | 2 players (one the owner), 3 keys, 1 reader, 2 requests, crashes |
| autotrack | flagged rows were kept by a resync's unflag, at most Count per resync | 2 items, Count 1, 2 overlapping resyncs, overflow at the third failure, expiry, crashes |
| autotrack_overflow (violation) | a 404 that is not recorded | 1 item, overflow at the fourth failure |
| bot | a bridged call waits only on a loop that runs, and returns; every item is polled again and again; while the loop runs, the last resync began less than twice the longest interval ago, whatever the restarts; settings take effect and stay readable; the login key and the packets | 2 items in batches of 1, intervals of 1 (the fallback) and 2 minutes, 3 settings, 1 request, any number of crashes; prime 2^17 - 1, keys shorter and longer than a secret, credentials of 2 to 9 bytes, 7 packets in pairs cut at every byte |

Each hazard here is between two actors over one or two rows, so two of each kind
are the least that can show it; where a bound is on the number of overlapping
calls the property is stated with that number and the theorem covers the rest.
Deadlock is checked except where the system may rest: tokens run out in
`ApiKeys`, and a chat session whose connection has ended has nothing to do.

Fairness. `Registry`: an accepted call goes on, as every await returns or
raises; nothing makes players ask. `Poller`: `poll_loop` starts another cycle
after each sleep and catches whatever a cycle raises, hence weak fairness of
`BeginCycle` and the steps; time makes items due; the market API answers for an
item again and again (strong fairness of `FetchOrders`). Faults are bounded,
since a chat connection that never works settles nothing. `ChatClient`: the
reader and the callers are tasks of one event loop, and the ten second timer of a
lookup fires. Nothing is assumed of the chat server. `Bot`: the poll loop's task
and the coroutines of a running loop go on, time makes items due, and an item that
is tried again and again is at last polled (strong fairness of `PollItem`: nothing
raises for one item for ever, see the hazards). The resync properties need no
fairness, and nothing is assumed of the login.

### What disagrees

Four runs expect a violation, each of something the repository says:

1. `LimitExact` - `subscribe` counts, commits, then inserts (`market/service.py:153`).
2. `OwedNeverSeen` with an order book that may empty - no fingerprints is taken
   for no poll (`market/service.py:317`).
3. `ReaderStays` - an unlisted packet type raises in the reader (`aochat/packet.py:94`).
4. `EveryFailureBacksOff` - the product overflows before it is capped
   (`db/aodb_backoff_repo.py:18`): `timedelta(hours=1) * 2**35` raises. With the
   seven day cap that is about 200 days of one missing item staying ranked,
   after which every resync that ranks it fails before it flags anything.

`AutoTrack` also reaches states in which `expire_stale_watch` deletes by the aoids it
selected (`db/market_repo.py:104`) what a forced poll stamped or a resync flagged
between the two statements, though its docstring limits it to stale items that are
not auto-tracked; no run is spent on that.

Nothing calls `deliver_pending_alerts`, whatever its docstring says of the logon
hook: it is left out of the models, and a queued alert stays queued.

The other side of 2 is checked too: with a book that never empties no fault and
no overlap of polls loses an alert.

## What is proved

All theorems hold of the specifications the runs check, for every value of the
constants that meets the named assumption of the module; TLC evaluates these in
the runs. An assumption says what kind of value a constant is, and that sets
whose members are counted are finite; none bounds how many players, items, calls
or polls there are. Where a property is not inductive the module defines a
strengthening, which was model-checked before it was proved.

**`RegistryProofs`** (`RegistryAssumption`: finite sets where cardinalities are
taken, a natural limit, `Nobody` is no player)

- `TypeCorrect`: `Spec => []TypeOK`.
- `SubsAlwaysHaveRows`: `SubsHaveRows` is inductive given the types. The
  interesting step is `SubscribeInsert`, whose checks were made commits ago: it
  is the constraints (`InsertAccepted`), not the checks, that keep it.
- `OvershootBounded`: the limit. `LimitOvershoot` is not inductive: the bound on
  rows says nothing about calls that have passed the check. The strengthening
  `Slots` counts, for each player, rows plus the calls past the check
  (`PastLimit`), and bounds that sum; `SlotsAtCheck` is the step in which a call
  passes the check, `SlotsAtInsert` the one that turns a call into a row,
  `SlotsShrink` all others.
- `MembersStayLedgered`: a member without ledger is one whose register call is
  about to log, or was ended there by a crash (`cut`); nothing else parts the two.
- `OnlyOwnersEndSubscriptions`: the action property.
- `SerialCallsSafe`: with one worker, what `subscribe` and `register` checked
  still holds when they insert. `StillChecked` is the strengthening: at each step
  of the call, the conjunction of the checks made so far.
- `WatchingImplemented`: the refinement of `WatchSpec`, step by step, under the types
  and `Slots`. `InsertWatches` is the step that matters: the constraints give a
  member and a tracked item that is not yet watched, and `Slots`, in which the call
  at its insert is itself counted, gives the room (`RoomForARow`).

**`FiltersProofs`** (`FiltersAssumption`: the absent bound is no number of the
column and the text that does not parse no range)

- `FiltersImplementRegistry`: `FilterSpec => Spec`. The filter edits leave the
  tables and calls of `Registry` alone, so its theorems hold here too.
- `FiltersNeverSilence`: `FilterPassesSome` rests on the columns holding ranges
  with a number in them (`GoodRanges`). `ParsedIsGood` is why: what `parse_range`
  accepts is not reversed, and both ends of a half are written in one UPDATE. The
  edit has checked its row commits ago, so `FilterInv` assumes nothing of that check:
  a write to a row that has gone changes none, and a row made anew is unfiltered.
- `FilterTypeCorrect` from the same invariant; `MatchingIsContainment` from the
  types of the columns; `EditsDoNotInterfere`, the action property: only the write
  of its own half, or a clear, changes a stored half.

**`PollerProofs`** (`PollerAssumption`). Two of the theorems are under
`~MayEmpty`, "no order book becomes empty": with a book that may empty they are
false, which the run `poller_empty_book` shows.

- `TypeCorrect`.
- `OwedIsNeverSeen`: `OwedNeverSeen` says nothing of the orders a poll holds in
  its local variables and is about to store as seen. `Settles(c)` says what a poll
  at each of its steps has still to do for what is owed of its orders: it will
  compare them with a seen table that has none of them, or has the alert's
  subscriber still to tell, or nothing of its orders is owed to anyone. The steps
  of other polls are where the proof is: what a poll inserts between another's
  delete and commit (`late`) was seen already.
- `AlertingImplemented`: the refinement of `AlertSpec`, step by step, under the
  same invariant: `RememberSeen` is a `Learn` because by then nothing it stores
  is owed.
- `NobodyToldTwice`: a lone poll without faults. `ToldInv` says that what was told
  is seen, or about to be by the poll at hand, and that no alert of it is left in
  what the poll has still to send.

**`ApiKeysProofs`** (`KeysAssumption`: finitely many keys and readers)

- `TypeCorrect`, and `HoldersStayRegistered`, inductive with the types: the
  foreign key refuses the insert of a key whose player has gone, and the cascade
  takes a player's keys with the row.
- `KeysPerReader`: `OneActiveKey` for any number of chat readers. Not inductive:
  readers between `revoke_all` and `create` each add a key. `Slots` bounds active
  keys plus such readers (`Creating`) by the readers; only tells generate keys
  (`TellsOnly`). With the one reader the program has, the bound is one.
- `NewestKeyOnly`: under `Slots` with one reader, the only active key is the last
  one given (`Newest`), whatever requests do and wherever a crash falls.
- `UnregisteredByRight`: the action property, from `Authority`: a task that has
  passed the scope check carries the authority of the player it is about to
  delete, or the owner's, until it does.
- `IssuingImplemented`: the refinement of `KeySpec`, under the same invariants. A
  reader at its insert is counted in `Slots`, so there is room for one more key
  (`RoomForAKey`); no step clears a revocation or gives a minted key a row, so what
  has stopped working stays so.

**`AutoTrackProofs`** (`AutoTrackAssumption`: finitely many items and resyncs; the
cap is below the largest timedelta)

- `TypeCorrect`: the delay written is within the cap at every failure count that
  is stored (`DelayIsCapped`); that 2^n is a natural number is taken from the
  number of subsets of a set of n elements.
- `FlagsAreAccountedFor`: `AutoTrackedKept`. A resync flags what it resolved one
  commit after its unflag, so the invariant must know at each step of a resync
  what it resolved, that it is at most `Count` items, and at the upsert that its
  unflag has kept them (`ResyncOK`).

**`ChatClientProofs`** (`ChatAssumption`)

- `TypeCorrect`: that the sender of a tell waits while it is handled needs that
  no player has two tells unread, nor one unread and one handled (`TellsOK`).
- `NoFutureIsLeft`: `WaitersWait` is inductive with the types: each way a lookup
  can end drops its name's future.
- `QueuedForAReason`: an action property. `ReportsOK` says of each buddy that
  the last unread report, or the flag when none is unread, is the present status:
  the packets are read in the order they were sent.

**`BotProofs`** (`SettingsAssumption`, `BotAssumption`: the texts are apart, the
numbers that a setting may hold have a greatest, which is positive)

- `SettingsTypeCorrect`, `CommandsTakeEffect`, `OnlyPutsSpoil`: from `SettingsOK`,
  by which what a `!settings` command holds between its two steps is typed for
  its row; a put between the two cannot change what the second writes.
- `NoRequestIsStranded`: `BridgedToRunning` from `LifeInv`: the handle is ready
  exactly while the thread is past its login, and a login that fails closes a loop
  nobody has been given.
- `TypeCorrect`: the order of the items is at all times one that times give
  (`OrderOfTimes`). A cycle stamps its items with the time it began, which is before
  that of items a forced poll has stamped since, so `TimesInv` says where the items
  of the cycle's time stand among the others: after all but the forced poll's. The
  rest comes from `SettingsOK`, `LifeInv` and `ClockInv`.
- `RestartsNeverLapse`: `ResyncsNeverLapse` needs the clock of the loop: while
  `age` is below its cap the loop's last resync is no older than the stored one,
  so a catch-up that does not run one leaves less than an interval, and the sleep
  adds at most another (`ClockInv`).

### Only model-checked

- Liveness: `CallsEnd`, `OwedIsSettled`, `TellsAnswered`, `BridgedCallsReturn`,
  `PolledAgain`. Fairness and ENABLED are outside what the prover handles.
- `LoginKeyAccepted` and `SessionReadsPackets` compute over sequences of every
  length, which would need induction over data; TLC evaluates them over the bounds above.
- The four properties that runs refute are findings, not theorems.

## What is not modelled, and why

Text: command parsing, rendering, message wording, `format_credits`, schemas,
logging. Set-up: configuration, engine, application factory, migrations. Third
parties: the item database, the market API and the ranking page are reduced to
their outcomes. Prices in `market_history` and their averages are written and
never read by the program's own logic, and pruning them is not observed by it.
Queries that only read. Code that nothing calls: `MarketBot.stop`,
`deliver_pending_alerts`, the private group hook. In the chat session the
keepalive, whose failure ends nothing but itself, and CLIENT_NAME.

## Plan

Done: `Filters`, `AlertSpec`, `WatchSpec`, `KeySpec`, the schedulers and the thread (in `Bot`),
`Settings`, the packets and the login key; the theorems of seven modules. Left:

1. An abstract specification of the settings, and that `Settings` implements it.
2. Identities of tells before CLIENT_NAME, in `ChatClient`; an item that raises
   for ever and expiry after a downtime, in `Bot` with `last_polled` as a time.
