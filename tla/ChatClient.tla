----------------------------- MODULE ChatClient -----------------------------
(***************************************************************************)
(* The chat session (aochat/client.py) with its two kinds of users: tells,  *)
(* which the reader task hands to MarketBot._handle_tell and awaits inline,  *)
(* and alerts, for which a caller (the poll loop, or a forced poll) asks     *)
(* whether a player is online and then sends a tell or queues the alert.     *)
(* The chat server is the environment: it answers what it is sent in any     *)
(* order, and what it sends is read in order.                                *)
(***************************************************************************)
EXTENDS Integers, Sequences

CONSTANTS
    Names,          \* characters
    Callers,        \* tasks that look characters up
    Nobody,         \* no caller, or no character
    MaxInbox,       \* bound on packets sent by the server and not yet read
    MaxUnlisted,    \* packets the server sends of types IN_SCHEMAS does not list
    CanBreak        \* whether the connection may break and a handler may raise

ASSUME ChatAssumption ==
    /\ Nobody \notin Names \cup Callers
    /\ MaxInbox \in Nat \ {0}
    /\ MaxUnlisted \in Nat
    /\ CanBreak \in BOOLEAN

VARIABLES
    inbox,      \* packets on their way from the server
    requests,   \* CLIENT_LOOKUP packets on their way to the server
    connected,  \* whether the socket is open
    reader,     \* _read_loop: "reading", "handling" a tell, or "gone"
    sender,     \* the character whose tell is being handled
    asking,     \* characters whose tell is not answered yet
    ids,        \* _name_to_id: names with a known id
    waiters,    \* _lookup_waiters: the caller whose future is kept for a name
    call,       \* the lookup and alert each caller is in
    buddies,    \* characters the server reports the status of
    adding,     \* BUDDY_ADD packets on their way to the server
    online,     \* characters logged on
    believed,   \* buddy_online: characters last reported logged on
    queued,     \* characters with a pending alert in the database
    unlisted    \* packets of unlisted types sent so far

server == <<buddies, adding, online, requests, unlisted>>
session == <<ids, waiters, believed>>
tells == <<reader, sender, asking>>
vars == <<inbox, connected, server, session, tells, call, queued>>

Packet == [type : {"tell", "id", "nosuch", "logon", "logoff", "unlisted"}, name : Names]

CallState ==
    [pc : {"idle", "waiting", "found", "absent", "added"},
     name : Names \cup {Nobody}, answer : {"none", "id", "nosuch"}]

NoCall == [pc |-> "idle", name |-> Nobody, answer |-> "none"]

TypeOK ==
    /\ inbox \in Seq(Packet) /\ Len(inbox) <= MaxInbox
    /\ requests \subseteq Callers \X Names
    /\ connected \in BOOLEAN
    /\ reader \in {"reading", "handling", "gone"}
    /\ sender \in Names \cup {Nobody} /\ (reader = "handling" => sender \in asking)
    /\ asking \subseteq Names
    /\ ids \subseteq Names
    /\ waiters \in [Names -> Callers \cup {Nobody}]
    /\ call \in [Callers -> CallState]
    /\ buddies \subseteq Names /\ adding \subseteq Names
    /\ online \subseteq Names /\ believed \subseteq Names
    /\ queued \subseteq Names
    /\ unlisted \in 0..MaxUnlisted

\* After login and start_background_tasks.
Init ==
    /\ inbox = <<>> /\ requests = {} /\ connected = TRUE
    /\ reader = "reading" /\ sender = Nobody /\ asking = {}
    /\ ids = {} /\ waiters = [n \in Names |-> Nobody]
    /\ call = [c \in Callers |-> NoCall]
    /\ buddies = {} /\ adding = {} /\ online = {} /\ believed = {}
    /\ queued = {} /\ unlisted = 0

-----------------------------------------------------------------------------
(* The server and the players.                                              *)

Room == connected /\ Len(inbox) < MaxInbox
Push(type, n) == inbox' = Append(inbox, [type |-> type, name |-> n])

SendTell(n) ==
    /\ Room /\ n \notin asking
    /\ asking' = asking \cup {n}
    /\ Push("tell", n)
    /\ UNCHANGED <<connected, server, session, reader, sender, call, queued>>

\* The server finds a name it found before.
AnswerLookup(c, n) ==
    /\ Room /\ <<c, n>> \in requests
    /\ requests' = requests \ {<<c, n>>}
    /\ Push("id", n) \/ (Push("nosuch", n) /\ n \notin ids)
    /\ UNCHANGED <<connected, buddies, adding, online, unlisted, session, tells, call, queued>>

AddBuddy(n) ==
    /\ Room /\ n \in adding
    /\ adding' = adding \ {n}
    /\ buddies' = buddies \cup {n}
    /\ Push(IF n \in online THEN "logon" ELSE "logoff", n)
    /\ UNCHANGED <<connected, online, requests, unlisted, session, tells, call, queued>>

\* A status change of a buddy is reported at once.
Logon(n) ==
    /\ n \notin online
    /\ online' = online \cup {n}
    /\ IF n \in buddies THEN Room /\ Push("logon", n) ELSE UNCHANGED inbox
    /\ UNCHANGED <<connected, buddies, adding, requests, unlisted, session, tells, call, queued>>

Logoff(n) ==
    /\ n \in online
    /\ online' = online \ {n}
    /\ IF n \in buddies THEN Room /\ Push("logoff", n) ELSE UNCHANGED inbox
    /\ UNCHANGED <<connected, buddies, adding, requests, unlisted, session, tells, call, queued>>

SendUnlisted(n) ==
    /\ Room /\ unlisted < MaxUnlisted
    /\ unlisted' = unlisted + 1
    /\ Push("unlisted", n)
    /\ UNCHANGED <<connected, buddies, adding, online, requests, session, tells, call, queued>>

Disconnect ==
    /\ CanBreak /\ connected
    /\ connected' = FALSE
    /\ UNCHANGED <<inbox, server, session, tells, call, queued>>

-----------------------------------------------------------------------------
(* The reader task.                                                         *)

Reading(type) == reader = "reading" /\ inbox # <<>> /\ Head(inbox).type = type
Consume == inbox' = Tail(inbox)

\* Mutant: the tell counts as answered when it is read.
ReadTellAnswered ==
    /\ Reading("tell")
    /\ Consume
    /\ reader' = "handling"
    /\ sender' = Head(inbox).name
    /\ asking' = asking \ {Head(inbox).name}
    /\ UNCHANGED <<connected, server, session, call, queued>>

ReadTell ==
    /\ Reading("tell")
    /\ Consume
    /\ reader' = "handling"
    /\ sender' = Head(inbox).name
    /\ UNCHANGED <<connected, server, session, asking, call, queued>>

\* A future that is already done keeps its result.
ReadLookup ==
    LET n == Head(inbox).name
        w == waiters[n]
    IN
    /\ Reading("id") \/ Reading("nosuch")
    /\ Consume
    /\ ids' = IF Head(inbox).type = "id" THEN ids \cup {n} ELSE ids
    /\ call' = IF w # Nobody /\ call[w].answer = "none"
               THEN [call EXCEPT ![w].answer = Head(inbox).type]
               ELSE call
    /\ UNCHANGED <<connected, server, waiters, believed, tells, queued>>

\* Mutant: every report is taken for a logoff.
ReadStatusOff ==
    /\ Reading("logon") \/ Reading("logoff")
    /\ Consume
    /\ believed' = believed \ {Head(inbox).name}
    /\ UNCHANGED <<connected, server, ids, waiters, tells, call, queued>>

\* No on_buddy_status hook is installed, so nothing but the flag changes.
ReadStatus ==
    LET n == Head(inbox).name IN
    /\ Reading("logon") \/ Reading("logoff")
    /\ Consume
    /\ believed' = IF Head(inbox).type = "logon" THEN believed \cup {n} ELSE believed \ {n}
    /\ UNCHANGED <<connected, server, ids, waiters, tells, call, queued>>

\* decode_args finds no schema and the exception ends the task.
ReadUnlisted ==
    /\ Reading("unlisted")
    /\ Consume
    /\ reader' = "gone"
    /\ UNCHANGED <<connected, server, session, sender, asking, call, queued>>

ReadEof ==
    /\ reader = "reading" /\ inbox = <<>> /\ ~connected
    /\ reader' = "gone"
    /\ UNCHANGED <<inbox, connected, server, session, sender, asking, call, queued>>

\* Mutant: the reply is sent by name, which waits for a lookup's answer.
FinishTellByName ==
    /\ reader = "handling" /\ sender \in ids
    /\ reader' = IF connected THEN "reading" ELSE "gone"
    /\ asking' = IF connected THEN asking \ {sender} ELSE asking
    /\ sender' = Nobody
    /\ UNCHANGED <<inbox, connected, server, session, call, queued>>

\* The reply is sent by id, without a lookup.  Sending it on a closed socket
\* raises through the dispatch and ends the task like any other exception.
FinishTell ==
    /\ reader = "handling"
    /\ reader' = IF connected THEN "reading" ELSE "gone"
    /\ asking' = IF connected THEN asking \ {sender} ELSE asking
    /\ sender' = Nobody
    /\ UNCHANGED <<inbox, connected, server, session, call, queued>>

HandlerRaises ==
    /\ reader = "handling" /\ CanBreak
    /\ reader' = "gone" /\ sender' = Nobody
    /\ UNCHANGED <<inbox, connected, server, session, asking, call, queued>>

-----------------------------------------------------------------------------
(* A caller alerting one player: is_online_by_name, then a tell or a row.   *)

Leave(c) == call' = [call EXCEPT ![c] = NoCall]
Enter(c, pc) == call' = [call EXCEPT ![c].pc = pc]

\* The future is registered and the request written before the first await.
StartLookup(c, n) ==
    /\ call[c].pc = "idle"
    /\ \/ /\ n \in ids
          /\ call' = [call EXCEPT ![c] = [NoCall EXCEPT !.pc = "found", !.name = n]]
          /\ UNCHANGED <<waiters, requests>>
       \/ /\ n \notin ids /\ connected
          /\ call' = [call EXCEPT ![c] = [NoCall EXCEPT !.pc = "waiting", !.name = n]]
          /\ waiters' = [waiters EXCEPT ![n] = c]
          /\ requests' = requests \cup {<<c, n>>}
    /\ UNCHANGED <<inbox, connected, buddies, adding, online, unlisted, ids, believed, tells, queued>>

\* Mutant: there is no finally clause.
EndLookupOnly(c, pc) ==
    /\ call[c].pc = "waiting"
    /\ Enter(c, pc)
    /\ UNCHANGED <<inbox, connected, server, ids, waiters, believed, tells, queued>>

\* The finally clause drops whatever future is kept for the name by then.
EndLookup(c, pc) ==
    /\ call[c].pc = "waiting"
    /\ waiters' = [waiters EXCEPT ![call[c].name] = Nobody]
    /\ Enter(c, pc)
    /\ UNCHANGED <<inbox, connected, server, ids, believed, tells, queued>>

Resume(c) ==
    /\ call[c].answer # "none"
    /\ EndLookup(c, IF call[c].answer = "id" THEN "found" ELSE "absent")

\* Mutant: there is no timeout.
WaitOn(c) == call[c].answer = "nosuch" /\ EndLookup(c, "absent")

Timeout(c) ==
    /\ call[c].answer = "none"
    /\ EndLookup(c, "absent")

\* Writing to a closed socket raises out of the caller's poll.
RequestBuddy(c) ==
    /\ call[c].pc = "found"
    /\ IF connected
       THEN Enter(c, "added") /\ adding' = adding \cup {call[c].name}
       ELSE Leave(c) /\ UNCHANGED adding
    /\ UNCHANGED <<inbox, connected, buddies, online, requests, unlisted, session, tells, queued>>

\* The flag is read without waiting for the report the request asks for.
TellOrQueue(c) ==
    LET n == call[c].name IN
    /\ call[c].pc \in {"added", "absent"}
    /\ queued' = IF call[c].pc = "added" /\ n \in believed THEN queued ELSE queued \cup {n}
    /\ Leave(c)
    /\ UNCHANGED <<inbox, connected, server, session, tells>>

-----------------------------------------------------------------------------
Server ==
    \/ \E n \in Names : SendTell(n) \/ AddBuddy(n) \/ Logon(n) \/ Logoff(n) \/ SendUnlisted(n)
    \/ \E c \in Callers, n \in Names : AnswerLookup(c, n)
    \/ Disconnect

Reader ==
    ReadTell \/ ReadLookup \/ ReadStatus \/ ReadUnlisted \/ ReadEof \/ FinishTell

Proceed(c) == Resume(c) \/ Timeout(c) \/ RequestBuddy(c) \/ TellOrQueue(c)

Next ==
    \/ Server \/ Reader \/ HandlerRaises
    \/ \E c \in Callers : Proceed(c) \/ \E n \in Names : StartLookup(c, n)

\* Tasks on the bot's loop run when they can, and wait_for's timer fires.
Fairness == WF_vars(Reader) /\ \A c \in Callers : WF_vars(Proceed(c))

Spec == Init /\ [][Next]_vars /\ Fairness

-----------------------------------------------------------------------------
(* Properties                                                               *)

\* A future kept for a name belongs to a caller that still waits for that name,
\* however overlapping lookups replace and drop each other's.
WaitersWait ==
    \A n \in Names :
        waiters[n] # Nobody => call[waiters[n]].pc = "waiting" /\ call[waiters[n]].name = n

\* An alert for a player who is online is queued only while the server's report
\* has not been read, or cannot be: never on a report that was read.
Unreported(n) ==
    \/ n \notin buddies
    \/ \E k \in 1..Len(inbox) : inbox[k].type \in {"logon", "logoff"} /\ inbox[k].name = n

QueuedOnlyUnreported ==
    [][\A c \in Callers, n \in Names :
          call[c].pc = "added" /\ call[c].name = n /\ n \in online /\ TellOrQueue(c)
             => n \in believed \/ Unreported(n)]_vars

\* Every caller's lookup and alert end, also when the reader is gone or busy with
\* a tell.
CallsEnd == \A c \in Callers : call[c].pc # "idle" ~> call[c].pc = "idle"

\* Every tell is answered, unless the reader is gone: the handler the reader
\* awaits never waits for a packet that only the reader can read.
TellsAnswered == \A n \in Names : n \in asking ~> (n \notin asking \/ reader = "gone")

\* The session lasts as long as its connection.
ReaderStays == connected => reader # "gone"
=============================================================================
