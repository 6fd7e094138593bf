-------------------------- MODULE ChatClientProofs --------------------------
(***************************************************************************)
(* Theorems about ChatClient for any characters, any number of callers and  *)
(* any bounds.  The fairness of Spec is not used.                           *)
(***************************************************************************)
EXTENDS ChatClient, TLAPS

InboxOK == inbox \in Seq(Packet) /\ Len(inbox) <= MaxInbox

ReaderOK ==
    /\ connected \in BOOLEAN /\ reader \in {"reading", "handling", "gone"}
    /\ sender \in Names \cup {Nobody} /\ asking \subseteq Names

TablesOK ==
    /\ requests \subseteq Callers \X Names
    /\ ids \subseteq Names /\ buddies \subseteq Names /\ adding \subseteq Names
    /\ online \subseteq Names /\ believed \subseteq Names /\ queued \subseteq Names
    /\ unlisted \in 0..MaxUnlisted

CallsOK ==
    /\ waiters \in [Names -> Callers \cup {Nobody}]
    /\ call \in [Callers -> CallState]
    /\ \A c \in Callers : call[c].pc # "idle" => call[c].name \in Names
    /\ WaitersWait

\* A tell that is unread or being handled is of a character who waits for the answer,
\* and it is the only one of that character.
TellsOK ==
    /\ reader = "handling" => sender \in asking
    /\ \A k \in 1..Len(inbox) : inbox[k].type = "tell" =>
          /\ inbox[k].name \in asking
          /\ reader = "handling" => inbox[k].name # sender
          /\ \A j \in 1..Len(inbox) :
                inbox[j].type = "tell" /\ inbox[j].name = inbox[k].name => j = k

ReportOf(n, k) == inbox[k].type \in {"logon", "logoff"} /\ inbox[k].name = n
Status(n) == IF n \in online THEN "logon" ELSE "logoff"

\* The last report of a buddy says whether the buddy is online: the flag does once
\* every report is read, and until then the last unread report does.
ReportsOK ==
    \A n \in buddies :
       \/ /\ \A k \in 1..Len(inbox) : ~ReportOf(n, k)
          /\ n \in online <=> n \in believed
       \/ \E k \in 1..Len(inbox) :
             /\ ReportOf(n, k) /\ inbox[k].type = Status(n)
             /\ \A j \in (k + 1)..Len(inbox) : ~ReportOf(n, j)

ChatInv == InboxOK /\ ReaderOK /\ TablesOK /\ CallsOK /\ TellsOK /\ ReportsOK

-----------------------------------------------------------------------------
\* What pushing a packet does to the unread packets.
LEMMA Pushing ==
    ASSUME InboxOK, NEW type \in {"tell", "id", "nosuch", "logon", "logoff", "unlisted"},
           NEW n \in Names, Room, Push(type, n)
    PROVE  /\ InboxOK' /\ Len(inbox) \in Nat /\ Len(inbox') = Len(inbox) + 1
           /\ \A k \in 1..Len(inbox) : inbox'[k] = inbox[k]
           /\ inbox'[Len(inbox) + 1].type = type /\ inbox'[Len(inbox) + 1].name = n
BY ChatAssumption DEF InboxOK, Room, Push, Packet

\* What reading a packet does to them.
LEMMA Consuming ==
    ASSUME InboxOK, inbox # <<>>, Consume
    PROVE  /\ InboxOK' /\ Len(inbox) \in Nat \ {0} /\ Len(inbox') = Len(inbox) - 1
           /\ \A k \in 1..Len(inbox') : inbox'[k] = inbox[k + 1]
           /\ Head(inbox) = inbox[1] /\ Head(inbox) \in Packet
           /\ Head(inbox).name \in Names
<1>1. inbox' = Tail(inbox) /\ inbox \in Seq(Packet) /\ Len(inbox) <= MaxInbox BY DEF InboxOK, Consume
<1>2. Len(inbox) \in Nat \ {0} /\ Head(inbox) = inbox[1] /\ Head(inbox) \in Packet BY <1>1
<1>3. Head(inbox).name \in Names BY <1>2 DEF Packet
<1>4. Tail(inbox) \in Seq(Packet) /\ Len(Tail(inbox)) = Len(inbox) - 1 BY <1>1, <1>2
<1>5. \A k \in 1..Len(Tail(inbox)) : Tail(inbox)[k] = inbox[k + 1] BY <1>1, <1>2
<1> QED BY <1>1, <1>2, <1>3, <1>4, <1>5, ChatAssumption DEF InboxOK

Pushes(type, n) == Room /\ Push(type, n)
Reads(types) == reader = "reading" /\ inbox # <<>> /\ Head(inbox).type \in types /\ Consume

\* Every step pushes a packet, reads one, or leaves the inbox alone.
LEMMA InboxSteps ==
    ASSUME Next
    PROVE  \/ \E n \in Names, type \in {"tell", "id", "nosuch", "logon", "logoff", "unlisted"} :
                 Pushes(type, n)
           \/ inbox # <<>> /\ Consume
           \/ UNCHANGED inbox
<1>1. CASE \E n \in Names : SendTell(n) BY <1>1 DEF SendTell, Pushes
<1>2. CASE \E c \in Callers, n \in Names : AnswerLookup(c, n) BY <1>2 DEF AnswerLookup, Pushes
<1>3. CASE \E n \in Names : AddBuddy(n) BY <1>3 DEF AddBuddy, Pushes
<1>4. CASE \E n \in Names : Logon(n) \/ Logoff(n) BY <1>4 DEF Logon, Logoff, Pushes
<1>5. CASE \E n \in Names : SendUnlisted(n) BY <1>5 DEF SendUnlisted, Pushes
<1>6. CASE Disconnect \/ HandlerRaises BY <1>6 DEF Disconnect, HandlerRaises
<1>7. CASE Reader
  BY <1>7 DEF Reader, ReadTell, ReadLookup, ReadStatus, ReadUnlisted, ReadEof, FinishTell, Reading
<1>8. CASE \E c \in Callers : Proceed(c) \/ \E n \in Names : StartLookup(c, n)
  BY <1>8 DEF Proceed, Resume, Timeout, EndLookup, RequestBuddy, TellOrQueue, StartLookup
<1> QED BY <1>1, <1>2, <1>3, <1>4, <1>5, <1>6, <1>7, <1>8 DEF Next, Server

\* Every step leaves packets of names in the inbox.
LEMMA NextKeepsInbox ==
    ASSUME InboxOK, Next
    PROVE  InboxOK'
BY InboxSteps, Pushing, Consuming DEF InboxOK, Pushes

-----------------------------------------------------------------------------
\* Every step leaves the reader in one of its states, with a sender while it handles.
LEMMA NextKeepsReader ==
    ASSUME InboxOK, ReaderOK, Next
    PROVE  ReaderOK'
<1> USE DEF ReaderOK
<1>1. CASE Server
  BY <1>1 DEF Server, SendTell, AnswerLookup, AddBuddy, Logon, Logoff, SendUnlisted, Disconnect,
     tells
<1>2. CASE ReadTell
  BY <1>2, Consuming DEF ReadTell, Reading
<1>3. CASE Reader /\ ~ReadTell
  BY <1>3 DEF Reader, ReadLookup, ReadStatus, ReadUnlisted, ReadEof, FinishTell, tells
<1>4. CASE HandlerRaises BY <1>4 DEF HandlerRaises
<1>5. CASE \E c \in Callers : Proceed(c) \/ \E n \in Names : StartLookup(c, n)
  BY <1>5 DEF Proceed, Resume, Timeout, EndLookup, RequestBuddy, TellOrQueue, StartLookup, tells
<1> QED BY <1>1, <1>2, <1>3, <1>4, <1>5 DEF Next

\* Every step leaves the name, buddy and future tables well typed.
LEMMA NextKeepsTables ==
    ASSUME InboxOK, CallsOK, TablesOK, Next
    PROVE  TablesOK'
<1> USE DEF TablesOK
<1>1. CASE Server
  <2>1. CASE \E n \in Names : SendTell(n) \/ AddBuddy(n) BY <2>1 DEF SendTell, AddBuddy, server, session
  <2>2. CASE \E n \in Names : Logon(n) \/ Logoff(n) BY <2>2 DEF Logon, Logoff, session
  <2>3. CASE \E n \in Names : SendUnlisted(n)
    BY <2>3, ChatAssumption DEF SendUnlisted, session
  <2>4. CASE \E c \in Callers, n \in Names : AnswerLookup(c, n) BY <2>4 DEF AnswerLookup, session
  <2>5. CASE Disconnect BY <2>5 DEF Disconnect, server, session
  <2> QED BY <1>1, <2>1, <2>2, <2>3, <2>4, <2>5 DEF Server
<1>2. CASE ReadLookup \/ ReadStatus
  <2>1. Head(inbox).name \in Names BY <1>2, Consuming DEF ReadLookup, ReadStatus, Reading
  <2> QED BY <1>2, <2>1 DEF ReadLookup, ReadStatus, server
<1>3. CASE Reader /\ ~(ReadLookup \/ ReadStatus)
  BY <1>3 DEF Reader, ReadTell, ReadUnlisted, ReadEof, FinishTell, server, session
<1>4. CASE HandlerRaises BY <1>4 DEF HandlerRaises, server, session
<1>5. ASSUME NEW c \in Callers, Proceed(c) PROVE TablesOK'
  <2>1. call[c].pc # "idle" => call[c].name \in Names BY DEF CallsOK
  <2>2. CASE Resume(c) \/ Timeout(c) BY <2>2 DEF Resume, Timeout, EndLookup, server
  <2>3. CASE RequestBuddy(c) BY <2>1, <2>3 DEF RequestBuddy, session
  <2>4. CASE TellOrQueue(c) BY <2>1, <2>4 DEF TellOrQueue, server, session
  <2> QED BY <1>5, <2>2, <2>3, <2>4 DEF Proceed
<1>6. ASSUME NEW c \in Callers, NEW n \in Names, StartLookup(c, n) PROVE TablesOK'
  BY <1>6 DEF StartLookup
<1> QED BY <1>1, <1>2, <1>3, <1>4, <1>5, <1>6 DEF Next

-----------------------------------------------------------------------------
\* The steps of one caller, and the answer of the reader to the caller it is kept for.
LEMMA NextKeepsCalls ==
    ASSUME InboxOK, CallsOK, Next
    PROVE  CallsOK'
<1>1. CASE UNCHANGED <<waiters, call>> BY <1>1 DEF CallsOK, WaitersWait
<1>2. CASE ReadLookup
  <2> DEFINE n == Head(inbox).name
             w == waiters[n]
  <2>1. UNCHANGED waiters BY <1>2 DEF ReadLookup
  <2>2. CASE UNCHANGED call BY <1>1, <2>1, <2>2
  <2>3. CASE w # Nobody /\ call' = [call EXCEPT ![w].answer = Head(inbox).type]
    <3>1. w \in Callers /\ Head(inbox).type \in {"id", "nosuch"}
      BY <1>2, <2>3, Consuming DEF ReadLookup, Reading, CallsOK
    <3>2. /\ call' \in [Callers -> CallState]
          /\ \A c \in Callers : call'[c].pc = call[c].pc /\ call'[c].name = call[c].name
      BY <2>3, <3>1 DEF CallsOK, CallState
    <3> QED BY <2>1, <3>2, ChatAssumption DEF CallsOK, WaitersWait
  <2> QED BY <1>2, <2>2, <2>3 DEF ReadLookup
<1>3. ASSUME NEW c \in Callers, NEW n \in Names, StartLookup(c, n) PROVE CallsOK'
  <2>1. call[c].pc = "idle" /\ \A m \in Names : waiters[m] # c
    BY <1>3, ChatAssumption DEF StartLookup, CallsOK, WaitersWait
  <2>2. \E pc \in {"found", "waiting"} :
          /\ call' = [call EXCEPT ![c] = [pc |-> pc, name |-> n, answer |-> "none"]]
          /\ waiters' = waiters \/ (pc = "waiting" /\ waiters' = [waiters EXCEPT ![n] = c])
    BY <1>3 DEF StartLookup, NoCall
  <2>3. /\ call' \in [Callers -> CallState]
        /\ call'[c].name = n
        /\ \A d \in Callers : d # c => call'[d] = call[d]
        /\ waiters' \in [Names -> Callers \cup {Nobody}]
        /\ \/ waiters' = waiters
           \/ call'[c].pc = "waiting" /\ waiters' = [waiters EXCEPT ![n] = c]
    BY <2>2 DEF CallsOK, CallState
  <2> QED BY <2>1, <2>3, ChatAssumption DEF CallsOK, WaitersWait
<1>4. ASSUME NEW c \in Callers, NEW pc \in {"found", "absent"}, EndLookup(c, pc) PROVE CallsOK'
  <2>1. /\ call' \in [Callers -> CallState]
        /\ call'[c].name = call[c].name /\ call[c].name \in Names
        /\ \A d \in Callers : d # c => call'[d] = call[d]
        /\ waiters' = [waiters EXCEPT ![call[c].name] = Nobody]
        /\ waiters' \in [Names -> Callers \cup {Nobody}]
    BY <1>4 DEF EndLookup, Enter, CallsOK, CallState
  <2>2. \A m \in Names : waiters'[m] # c
    BY <2>1, ChatAssumption DEF CallsOK, WaitersWait
  <2> QED BY <2>1, <2>2 DEF CallsOK, WaitersWait
<1>5. ASSUME NEW c \in Callers, RequestBuddy(c) \/ TellOrQueue(c) PROVE CallsOK'
  <2>1. call[c].pc \notin {"idle", "waiting"} /\ UNCHANGED waiters
        /\ (Enter(c, "added") \/ Leave(c))
    BY <1>5 DEF RequestBuddy, TellOrQueue, session
  <2>2. /\ call' \in [Callers -> CallState]
        /\ call'[c].pc # "idle" => call'[c].name = call[c].name
        /\ \A d \in Callers : d # c => call'[d] = call[d]
    BY <2>1 DEF Enter, Leave, NoCall, CallsOK, CallState
  <2>3. \A m \in Names : waiters[m] # c
    BY <2>1, ChatAssumption DEF CallsOK, WaitersWait
  <2> QED BY <2>1, <2>2, <2>3 DEF CallsOK, WaitersWait
<1>6. CASE Server \/ HandlerRaises \/ (Reader /\ ~ReadLookup)
  BY <1>1, <1>6 DEF Server, SendTell, AnswerLookup, AddBuddy, Logon, Logoff, SendUnlisted, Disconnect,
     HandlerRaises, Reader, ReadTell, ReadStatus, ReadUnlisted, ReadEof, FinishTell, session
<1> QED BY <1>2, <1>3, <1>4, <1>5, <1>6 DEF Next, Proceed, Resume, Timeout

-----------------------------------------------------------------------------
\* A packet that is not a tell adds none, and reading one moves those left forward.
LEMMA NoTellPushed ==
    ASSUME InboxOK, TellsOK, NEW n \in Names,
           NEW type \in {"id", "nosuch", "logon", "logoff", "unlisted"},
           Pushes(type, n), UNCHANGED tells
    PROVE  TellsOK'
<1>1. /\ Len(inbox) \in Nat /\ Len(inbox') = Len(inbox) + 1
      /\ \A k \in 1..Len(inbox) : inbox'[k] = inbox[k]
      /\ inbox'[Len(inbox) + 1].type # "tell"
  BY Pushing DEF Pushes
<1>2. \A k \in 1..Len(inbox') : inbox'[k].type = "tell" => k \in 1..Len(inbox) /\ inbox'[k] = inbox[k]
  BY <1>1
<1> QED BY <1>2 DEF TellsOK, tells

\* Reading a packet keeps the tells in order: the one read, if any, is the one handled.
LEMMA TellRead ==
    ASSUME InboxOK, TellsOK, inbox # <<>>, Consume, reader = "reading", asking' = asking,
           \/ reader' = "handling" /\ sender' = Head(inbox).name /\ Head(inbox).type = "tell"
           \/ reader' # "handling"
    PROVE  TellsOK'
<1>1. /\ Len(inbox) \in Nat \ {0} /\ Len(inbox') = Len(inbox) - 1
      /\ \A k \in 1..Len(inbox') : inbox'[k] = inbox[k + 1]
      /\ Head(inbox) = inbox[1]
  BY Consuming
<1>2. \A k \in 1..Len(inbox') : k + 1 \in 1..Len(inbox) /\ k + 1 # 1 /\ inbox'[k] = inbox[k + 1]
  BY <1>1
<1>3. \A j, k \in 1..Len(inbox') : j + 1 = k + 1 => j = k BY <1>1
<1>4. 1 \in 1..Len(inbox) BY <1>1
<1>5. ASSUME NEW k \in 1..Len(inbox'), inbox'[k].type = "tell"
      PROVE  /\ inbox'[k].name \in asking
             /\ \A j \in 1..Len(inbox') :
                   inbox'[j].type = "tell" /\ inbox'[j].name = inbox'[k].name => j = k
             /\ Head(inbox).type = "tell" => inbox'[k].name # Head(inbox).name
  <2>1. k + 1 \in 1..Len(inbox) /\ k + 1 # 1 /\ inbox[k + 1].type = "tell"
        /\ inbox'[k] = inbox[k + 1]
    BY <1>2, <1>5
  <2>2. inbox[k + 1].name \in asking BY <2>1 DEF TellsOK
  <2>3. \A j \in 1..Len(inbox) :
          inbox[j].type = "tell" /\ inbox[j].name = inbox[k + 1].name => j = k + 1
    BY <2>1 DEF TellsOK
  <2>4. ASSUME NEW j \in 1..Len(inbox'), inbox'[j].type = "tell", inbox'[j].name = inbox'[k].name
        PROVE  j = k
    BY <1>2, <1>3, <2>1, <2>3, <2>4
  <2>5. Head(inbox).type = "tell" => inbox[k + 1].name # Head(inbox).name
    BY <1>1, <1>4, <2>1, <2>3
  <2> QED BY <2>1, <2>2, <2>4, <2>5
<1>6. Head(inbox).type = "tell" => Head(inbox).name \in asking
  BY <1>1, <1>4 DEF TellsOK
<1> QED BY <1>5, <1>6 DEF TellsOK

\* Every step keeps at most one tell of a player unanswered.
LEMMA NextKeepsTells ==
    ASSUME InboxOK, TellsOK, Next
    PROVE  TellsOK'
<1>1. ASSUME NEW n \in Names, SendTell(n) PROVE TellsOK'
  <2>1. /\ Len(inbox) \in Nat /\ Len(inbox') = Len(inbox) + 1
        /\ \A k \in 1..Len(inbox) : inbox'[k] = inbox[k]
        /\ inbox'[Len(inbox) + 1].name = n
    BY <1>1, Pushing DEF SendTell
  <2>2. n \notin asking /\ asking' = asking \cup {n} /\ UNCHANGED <<reader, sender>>
    BY <1>1 DEF SendTell
  <2>3. \A k \in 1..Len(inbox') : k \in 1..Len(inbox) \/ k = Len(inbox) + 1 BY <2>1
  <2> QED BY <2>1, <2>2, <2>3 DEF TellsOK
<1>2. CASE \E c \in Callers, n \in Names : AnswerLookup(c, n)
  BY <1>2, NoTellPushed DEF AnswerLookup, Pushes
<1>3. ASSUME NEW n \in Names, AddBuddy(n) \/ Logon(n) \/ Logoff(n) \/ SendUnlisted(n) PROVE TellsOK'
  <2>1. UNCHANGED tells
        /\ (UNCHANGED inbox \/ \E type \in {"logon", "logoff", "unlisted"} : Pushes(type, n))
    BY <1>3 DEF AddBuddy, Logon, Logoff, SendUnlisted, Pushes
  <2>2. CASE UNCHANGED inbox BY <2>1, <2>2 DEF TellsOK, tells
  <2> QED BY <2>1, <2>2, NoTellPushed
<1>4. CASE ReadTell \/ ReadLookup \/ ReadStatus \/ ReadUnlisted
  <2>1. /\ inbox # <<>> /\ Consume /\ reader = "reading" /\ asking' = asking
        /\ \/ reader' = "handling" /\ sender' = Head(inbox).name /\ Head(inbox).type = "tell"
           \/ reader' # "handling"
    BY <1>4 DEF ReadTell, ReadLookup, ReadStatus, ReadUnlisted, Reading, tells
  <2> QED BY <2>1, TellRead
<1>5. CASE FinishTell BY <1>5 DEF FinishTell, TellsOK
<1>6. CASE ReadEof \/ HandlerRaises BY <1>6 DEF ReadEof, HandlerRaises, TellsOK
<1>7. CASE Disconnect BY <1>7 DEF Disconnect, TellsOK, tells
<1>8. CASE \E c \in Callers : Proceed(c) \/ \E n \in Names : StartLookup(c, n)
  BY <1>8 DEF Proceed, Resume, Timeout, EndLookup, RequestBuddy, TellOrQueue, StartLookup, tells,
     TellsOK
<1> QED BY <1>1, <1>2, <1>3, <1>4, <1>5, <1>6, <1>7, <1>8 DEF Next, Server, Reader

-----------------------------------------------------------------------------
\* What ReportsOK says of one buddy.
Reported(n) ==
    \/ /\ \A k \in 1..Len(inbox) : ~ReportOf(n, k)
       /\ n \in online <=> n \in believed
    \/ \E k \in 1..Len(inbox) :
          /\ ReportOf(n, k) /\ inbox[k].type = Status(n)
          /\ \A j \in (k + 1)..Len(inbox) : ~ReportOf(n, j)

\* A report of the present status is the last one.
LEMMA ReportPushed ==
    ASSUME InboxOK, NEW n \in Names, NEW type \in {"logon", "logoff"}, Pushes(type, n),
           type = Status(n)'
    PROVE  Reported(n)'
<1>1. /\ Len(inbox) \in Nat /\ Len(inbox') = Len(inbox) + 1
      /\ inbox'[Len(inbox) + 1].type = type /\ inbox'[Len(inbox) + 1].name = n
  BY Pushing DEF Pushes
<1> QED BY <1>1 DEF Reported, ReportOf

\* A packet that does not report on a buddy changes nothing for that buddy.
LEMMA OtherPushed ==
    ASSUME InboxOK, NEW n \in Names, NEW m \in Names, Reported(m),
           NEW type \in {"tell", "id", "nosuch", "logon", "logoff", "unlisted"}, Pushes(type, n),
           type \in {"logon", "logoff"} => n # m,
           m \in online <=> m \in online', m \in believed <=> m \in believed'
    PROVE  Reported(m)'
<1>1. /\ Len(inbox) \in Nat /\ Len(inbox') = Len(inbox) + 1
      /\ \A k \in 1..Len(inbox) : inbox'[k] = inbox[k]
      /\ inbox'[Len(inbox) + 1].type = type /\ inbox'[Len(inbox) + 1].name = n
  BY Pushing DEF Pushes
<1>2. Status(m)' = Status(m) BY DEF Status
<1>3. \A k \in 1..Len(inbox) : (ReportOf(m, k)' <=> ReportOf(m, k)) /\ inbox'[k].type = inbox[k].type
  BY <1>1 DEF ReportOf
<1>4. \A k : k = Len(inbox) + 1 => ~ReportOf(m, k)' BY <1>1 DEF ReportOf
<1>5. \A k \in 1..Len(inbox') : k \in 1..Len(inbox) \/ k = Len(inbox) + 1 BY <1>1
<1>6. CASE /\ \A k \in 1..Len(inbox) : ~ReportOf(m, k)
           /\ m \in online <=> m \in believed
  BY <1>3, <1>4, <1>5, <1>6 DEF Reported
<1>7. ASSUME NEW k \in 1..Len(inbox), ReportOf(m, k), inbox[k].type = Status(m),
             \A j \in (k + 1)..Len(inbox) : ~ReportOf(m, j)
      PROVE  Reported(m)'
  <2>1. k \in 1..Len(inbox') BY <1>1
  <2>2. \A j \in (k + 1)..Len(inbox') : j \in (k + 1)..Len(inbox) \/ j = Len(inbox) + 1 BY <1>1
  <2>3. \A j \in (k + 1)..Len(inbox) : j \in 1..Len(inbox) BY <1>1
  <2>4. \A j \in (k + 1)..Len(inbox') : ~ReportOf(m, j)' BY <1>3, <1>4, <1>7, <2>2, <2>3
  <2> QED BY <1>2, <1>3, <1>7, <2>1, <2>4 DEF Reported
<1> QED BY <1>6, <1>7 DEF Reported

\* Reading a packet: what it says of a buddy is believed, and the other reports move on.
LEMMA ReportRead ==
    ASSUME InboxOK, NEW m \in Names, Reported(m), inbox # <<>>, Consume, UNCHANGED online,
           IF ReportOf(m, 1) THEN m \in believed' <=> inbox[1].type = "logon"
                             ELSE m \in believed' <=> m \in believed
    PROVE  Reported(m)'
<1>1. /\ Len(inbox) \in Nat \ {0} /\ Len(inbox') = Len(inbox) - 1
      /\ \A k \in 1..Len(inbox') : inbox'[k] = inbox[k + 1]
  BY Consuming
<1>2. /\ Status(m)' = Status(m)
      /\ \A k \in 1..Len(inbox') : ReportOf(m, k)' <=> ReportOf(m, k + 1)
  BY <1>1 DEF Status, ReportOf
<1>3. CASE /\ \A k \in 1..Len(inbox) : ~ReportOf(m, k)
           /\ m \in online <=> m \in believed
  <2>1. ~ReportOf(m, 1) BY <1>1, <1>3
  <2>2. \A k \in 1..Len(inbox') : k + 1 \in 1..Len(inbox) BY <1>1
  <2> QED BY <1>2, <1>3, <2>1, <2>2 DEF Reported
<1>4. ASSUME NEW k \in 1..Len(inbox), ReportOf(m, k), inbox[k].type = Status(m),
             \A j \in (k + 1)..Len(inbox) : ~ReportOf(m, j)
      PROVE  Reported(m)'
  <2>1. CASE k = 1
    <3>1. \A j \in 1..Len(inbox') : ~ReportOf(m, j)' BY <1>1, <1>2, <1>4, <2>1
    <3>2. m \in online' <=> m \in believed' BY <1>4, <2>1 DEF Status
    <3> QED BY <3>1, <3>2 DEF Reported
  <2>2. CASE k # 1
    <3>1. k - 1 \in 1..Len(inbox') /\ inbox'[k - 1] = inbox[k] BY <1>1, <2>2
    <3>2. ReportOf(m, k - 1)' BY <1>4, <3>1 DEF ReportOf
    <3>3. \A j \in ((k - 1) + 1)..Len(inbox') : ~ReportOf(m, j)' BY <1>1, <1>2, <1>4
    <3> QED BY <1>2, <1>4, <3>1, <3>2, <3>3 DEF Reported
  <2> QED BY <2>1, <2>2
<1> QED BY <1>3, <1>4 DEF Reported

\* Every step keeps a buddy's last unread report, or the flag, at the present status.
LEMMA NextKeepsReports ==
    ASSUME InboxOK, TablesOK, ReportsOK, Next
    PROVE  ReportsOK'
<1>0. (ReportsOK <=> \A n \in buddies : Reported(n)) /\ (ReportsOK' <=> \A n \in buddies' : Reported(n)')
      /\ buddies \subseteq Names
  BY DEF ReportsOK, Reported, TablesOK
<1>1. CASE UNCHANGED <<inbox, buddies, online, believed>>
  BY <1>1 DEF ReportsOK, ReportOf, Status
<1>2. ASSUME NEW n \in Names, SendTell(n) \/ SendUnlisted(n) PROVE ReportsOK'
  <2>1. /\ UNCHANGED <<buddies, online, believed>>
        /\ Pushes("tell", n) \/ Pushes("unlisted", n)
    BY <1>2 DEF SendTell, SendUnlisted, Pushes, server, session
  <2> QED BY <1>0, <2>1, OtherPushed
<1>3. ASSUME NEW c \in Callers, NEW n \in Names, AnswerLookup(c, n) PROVE ReportsOK'
  <2>1. /\ UNCHANGED <<buddies, online, believed>>
        /\ Pushes("id", n) \/ Pushes("nosuch", n)
    BY <1>3 DEF AnswerLookup, Pushes, session
  <2> QED BY <1>0, <2>1, OtherPushed
<1>4. ASSUME NEW n \in Names, AddBuddy(n) PROVE ReportsOK'
  <2>1. /\ UNCHANGED <<online, believed>> /\ buddies' = buddies \cup {n}
        /\ Pushes(Status(n), n) /\ Status(n)' = Status(n) /\ Status(n) \in {"logon", "logoff"}
    BY <1>4 DEF AddBuddy, Pushes, session, Status
  <2>2. Reported(n)' BY <2>1, <1>0, ReportPushed
  <2>3. \A m \in buddies : m # n => Reported(m)' BY <1>0, <2>1, OtherPushed
  <2> QED BY <1>0, <2>1, <2>2, <2>3
<1>5. ASSUME NEW n \in Names, Logon(n) \/ Logoff(n) PROVE ReportsOK'
  <2>1. /\ UNCHANGED <<buddies, believed>> /\ Status(n)' \in {"logon", "logoff"}
        /\ \A m \in Names : m # n => (m \in online <=> m \in online')
        /\ IF n \in buddies THEN Pushes(Status(n)', n) ELSE UNCHANGED inbox
    BY <1>5 DEF Logon, Logoff, Pushes, session, Status
  <2>2. CASE n \in buddies
    <3>1. Reported(n)' BY <2>1, <2>2, ReportPushed
    <3>2. \A m \in buddies : m # n => Reported(m)' BY <1>0, <2>1, <2>2, OtherPushed
    <3> QED BY <1>0, <2>1, <3>1, <3>2
  <2>3. CASE n \notin buddies
    <3>1. \A m \in buddies : Status(m)' = Status(m) /\ (m \in online <=> m \in online')
      BY <1>0, <2>1, <2>3 DEF Status
    <3> QED BY <1>0, <2>1, <2>3, <3>1 DEF Reported, ReportOf
  <2> QED BY <2>2, <2>3
<1>6. CASE ReadTell \/ ReadLookup \/ ReadUnlisted
  <2>1. /\ inbox # <<>> /\ Consume /\ UNCHANGED <<buddies, online, believed>>
        /\ Head(inbox).type \notin {"logon", "logoff"}
    BY <1>6 DEF ReadTell, ReadLookup, ReadUnlisted, Reading, server, session
  <2>2. \A m : ~ReportOf(m, 1) BY <2>1, Consuming DEF ReportOf
  <2> QED BY <1>0, <2>1, <2>2, ReportRead
<1>7. CASE ReadStatus
  <2>1. /\ inbox # <<>> /\ Consume /\ UNCHANGED <<buddies, online>>
        /\ Head(inbox).type \in {"logon", "logoff"}
        /\ believed' = IF Head(inbox).type = "logon" THEN believed \cup {Head(inbox).name}
                                                     ELSE believed \ {Head(inbox).name}
    BY <1>7 DEF ReadStatus, Reading, server
  <2>2. Head(inbox) = inbox[1] BY <2>1, Consuming
  <2>3. ASSUME NEW m \in buddies
        PROVE  IF ReportOf(m, 1) THEN m \in believed' <=> inbox[1].type = "logon"
                                 ELSE m \in believed' <=> m \in believed
    BY <2>1, <2>2 DEF ReportOf
  <2> QED BY <1>0, <2>1, <2>3, ReportRead
<1>8. CASE Disconnect \/ ReadEof \/ FinishTell \/ HandlerRaises
  BY <1>1, <1>8 DEF Disconnect, ReadEof, FinishTell, HandlerRaises, server, session
<1>9. CASE \E c \in Callers : Proceed(c) \/ \E n \in Names : StartLookup(c, n)
  BY <1>1, <1>9 DEF Proceed, Resume, Timeout, EndLookup, RequestBuddy, TellOrQueue, StartLookup,
     server, session
<1> QED BY <1>2, <1>3, <1>4, <1>5, <1>6, <1>7, <1>8, <1>9 DEF Next, Server, Reader

-----------------------------------------------------------------------------
\* The inductive invariant of the chat session.
LEMMA ChatInvariant == Spec => []ChatInv
<1>1. Init => ChatInv
  <2> SUFFICES ASSUME Init PROVE ChatInv OBVIOUS
  <2>1. InboxOK /\ TellsOK /\ ReportsOK
    BY ChatAssumption DEF Init, InboxOK, TellsOK, ReportsOK
  <2>2. ReaderOK /\ TablesOK BY ChatAssumption DEF Init, ReaderOK, TablesOK
  <2>3. CallsOK
    BY ChatAssumption DEF Init, CallsOK, WaitersWait, NoCall, CallState
  <2> QED BY <2>1, <2>2, <2>3 DEF ChatInv
<1>2. ChatInv /\ [Next]_vars => ChatInv'
  <2> SUFFICES ASSUME ChatInv, [Next]_vars PROVE ChatInv' OBVIOUS
  <2>1. CASE UNCHANGED vars
    <3>1. InboxOK' /\ TellsOK' /\ ReaderOK'
      BY <2>1 DEF vars, tells, ChatInv, InboxOK, TellsOK, ReaderOK
    <3>2. TablesOK' /\ ReportsOK'
      BY <2>1 DEF vars, server, session, ChatInv, TablesOK, ReportsOK, ReportOf, Status
    <3>3. CallsOK' BY <2>1 DEF vars, session, ChatInv, CallsOK, WaitersWait
    <3> QED BY <3>1, <3>2, <3>3 DEF ChatInv
  <2>2. CASE Next
    BY <2>2, NextKeepsInbox, NextKeepsReader, NextKeepsTables, NextKeepsCalls, NextKeepsTells,
       NextKeepsReports DEF ChatInv
  <2> QED BY <2>1, <2>2
<1> QED BY <1>1, <1>2, PTL DEF Spec

\* The packets, the tables, the lookups and the reader are well typed, and a tell being
\* handled is one its sender still waits for.
THEOREM TypeCorrect == Spec => []TypeOK
<1>1. ChatInv => TypeOK
  BY DEF ChatInv, InboxOK, ReaderOK, TablesOK, CallsOK, TellsOK, TypeOK
<1> QED BY <1>1, ChatInvariant, PTL

\* A future kept in _lookup_waiters belongs to a caller that still waits for that name,
\* although overlapping lookups of a name replace each other's and each finally clause
\* drops whatever is kept.
THEOREM NoFutureIsLeft == Spec => []WaitersWait
<1>1. ChatInv => WaitersWait BY DEF ChatInv, CallsOK
<1> QED BY <1>1, ChatInvariant, PTL

\* An alert for a player who is online is queued only while the server's report of it
\* has not been read: buddy_online is never wrong about a report that was.
THEOREM QueuedForAReason == Spec => QueuedOnlyUnreported
<1>1. ChatInv => [\A c \in Callers, n \in Names :
                    call[c].pc = "added" /\ call[c].name = n /\ n \in online /\ TellOrQueue(c)
                      => n \in believed \/ Unreported(n)]_vars
  <2> SUFFICES ASSUME ChatInv, NEW n \in Names, n \in online
               PROVE  n \in believed \/ Unreported(n)
    OBVIOUS
  <2> QED BY DEF ChatInv, ReportsOK, ReportOf, Unreported
<1> QED BY <1>1, ChatInvariant, PTL DEF QueuedOnlyUnreported
=============================================================================
