--------------------------- MODULE ApiKeysProofs ---------------------------
(***************************************************************************)
(* Theorems about ApiKeys for every set of players and keys, every number   *)
(* of chat readers and requests, and any owner.                             *)
(***************************************************************************)
EXTENDS ApiKeys, FiniteSetTheorems, TLAPS

\* A task that moves on keeps its player and its authority; one that ends is idle.
LEMMA MovesOrEnds ==
    ASSUME TypeOK, NEW t \in Tasks, NEW pc \in Step
    PROVE  /\ Goto(t, pc) => /\ task' \in [Tasks -> [pc : Step, player : Players \cup {Nobody},
                                                     by : Players \cup {Nobody}]]
                             /\ \A u \in Tasks : u # t => task'[u] = task[u]
                             /\ task'[t] = [task[t] EXCEPT !.pc = pc]
                             /\ task'[t].pc = pc /\ task'[t].player = task[t].player
                             /\ task'[t].by = task[t].by
           /\ End(t) => /\ task' \in [Tasks -> [pc : Step, player : Players \cup {Nobody},
                                                by : Players \cup {Nobody}]]
                        /\ \A u \in Tasks : u # t => task'[u] = task[u]
                        /\ task'[t].pc = "idle"
BY DEF TypeOK, Goto, End, Idle, Step

\* A task that takes up a request of a player.
LEMMA TakesUp ==
    ASSUME TypeOK, NEW t \in Tasks, NEW pc \in Step, NEW p \in Players,
           NEW by \in Players \cup {Nobody}, Accept(t, pc, p, by)
    PROVE  /\ UNCHANGED rows
           /\ task' \in [Tasks -> [pc : Step, player : Players \cup {Nobody},
                                   by : Players \cup {Nobody}]]
           /\ \A u \in Tasks : u # t => task'[u] = task[u]
           /\ task'[t].pc = pc /\ task'[t].player = p /\ task'[t].by = by
BY DEF TypeOK, Accept

\* What a task is asked to do, and on whose authority.
LEMMA Arrivals ==
    ASSUME TypeOK, NEW t \in Tasks, Tell(t) \/ PostRegister(t) \/ Authenticate(t)
    PROVE  \E pc \in {"regCheck", "unregCheck", "genCheck", "revoke", "scope"},
              p \in Players, by \in Players \cup {Nobody} :
             /\ Accept(t, pc, p, by)
             /\ pc \in {"genCheck", "unregCheck"} => t \in Readers
             /\ pc = "unregCheck" => by = p
             /\ pc = "scope" => by # Nobody
BY DEF Tell, PostRegister, Authenticate, TypeOK

\* A task is typed and has a player until it ends.
TasksOK ==
    /\ task \in [Tasks -> [pc : Step, player : Players \cup {Nobody}, by : Players \cup {Nobody}]]
    /\ \A t \in Tasks : task[t].pc # "idle" => task[t].player \in Players

TablesOK ==
    /\ users \subseteq Players
    /\ holder \in [Keys -> Players \cup {Nobody}]
    /\ revoked \subseteq minted /\ minted \subseteq Keys
    /\ \A k \in Keys \ minted : holder[k] = Nobody
    /\ newest \in [Players -> Keys \cup {Nobody}]

\* The type invariant is that of the tasks and that of the tables, in both states.
LEMMA TypeParts == (TypeOK <=> TasksOK /\ TablesOK) /\ (TypeOK' <=> TasksOK' /\ TablesOK')
BY DEF TypeOK, TasksOK, TablesOK

\* Every step of a task leaves the tasks well typed, each with a player until it ends.
LEMMA StepKeepsTasks ==
    ASSUME TypeOK, NEW t \in Tasks, TaskStep(t)
    PROVE  TasksOK'
<1> USE DEF Step
<1>1. CASE Tell(t) \/ PostRegister(t) \/ Authenticate(t)
  <2>1. PICK pc \in Step, p \in Players, by \in Players \cup {Nobody} : Accept(t, pc, p, by)
    BY <1>1, Arrivals
  <2>2. TasksOK BY TypeParts
  <2> QED BY <2>1, <2>2, TakesUp DEF TasksOK
<1>2. ASSUME NEW pc \in Step, ~At(t, "idle"), Goto(t, pc) \/ End(t) PROVE TasksOK'
  <2>1. TasksOK /\ task[t].player \in Players BY <1>2, TypeParts DEF TasksOK, At
  <2>2. /\ task' \in [Tasks -> [pc : Step, player : Players \cup {Nobody},
                              by : Players \cup {Nobody}]]
        /\ \A u \in Tasks : u # t => task'[u] = task[u]
    BY <1>2, MovesOrEnds
  <2>3. task'[t].pc # "idle" => task'[t].player \in Players
    <3>1. CASE Goto(t, pc)
      <4>1. task'[t].player = task[t].player BY <3>1, MovesOrEnds
      <4> QED BY <2>1, <4>1
    <3>2. CASE End(t) BY <1>2, <3>2, MovesOrEnds
    <3> QED BY <1>2, <3>1, <3>2
  <2> QED BY <2>1, <2>2, <2>3 DEF TasksOK
<1>3. CASE RequirePlayerKey(t) BY <1>2, <1>3 DEF RequirePlayerKey, At
<1>4. CASE RegisterCheck(t) \/ RegisterInsert(t) BY <1>2, <1>4 DEF RegisterCheck, RegisterInsert, At
<1>5. CASE UnregisterCheck(t) \/ UnregisterCascade(t)
  BY <1>2, <1>5 DEF UnregisterCheck, UnregisterCascade, At
<1>6. CASE GenerateCheck(t) \/ GenerateRegister(t) BY <1>2, <1>6 DEF GenerateCheck, GenerateRegister, At
<1>7. CASE GenerateRevoke(t) \/ GenerateCreate(t) \/ RevokeKeys(t)
  BY <1>2, <1>7 DEF GenerateRevoke, GenerateCreate, RevokeKeys, At
<1> QED BY <1>1, <1>3, <1>4, <1>5, <1>6, <1>7 DEF TaskStep

\* Every step of a task leaves the rows of users and keys well typed.
LEMMA StepKeepsTables ==
    ASSUME TypeOK, NEW t \in Tasks, TaskStep(t)
    PROVE  TablesOK'
<1> USE DEF TablesOK, At, rows
<1>0. TablesOK /\ (task[t].pc # "idle" => task[t].player \in Players)
  BY TypeParts DEF TasksOK
<1>1. CASE UNCHANGED rows BY <1>0, <1>1
<1>2. CASE RegisterInsert(t) \/ GenerateRegister(t)
  BY <1>0, <1>2 DEF RegisterInsert, GenerateRegister, AddUser
<1>3. CASE UnregisterCascade(t) BY <1>0, <1>3 DEF UnregisterCascade
<1>4. CASE GenerateRevoke(t) \/ RevokeKeys(t)
  <2>1. revoked' = revoked \cup ActiveKeys(task[t].player)
        /\ UNCHANGED <<users, holder, minted, newest>> /\ task[t].pc # "idle"
    BY <1>4 DEF GenerateRevoke, RevokeKeys, RevokeAll
  <2>2. ActiveKeys(task[t].player) \subseteq minted
    BY <1>0, <2>1, KeysAssumption DEF ActiveKeys
  <2> QED BY <1>0, <2>1, <2>2
<1>5. CASE GenerateCreate(t)
  <2>1. PICK k \in Keys \ minted :
          /\ minted' = minted \cup {k}
          /\ \/ holder' = [holder EXCEPT ![k] = task[t].player] /\ newest' = [newest EXCEPT ![task[t].player] = k]
             \/ UNCHANGED <<holder, newest>>
    BY <1>5 DEF GenerateCreate
  <2> QED BY <1>0, <1>5, <2>1 DEF GenerateCreate
<1> QED BY <1>1, <1>2, <1>3, <1>4, <1>5 DEF TaskStep, Tell, PostRegister, Authenticate, Accept,
        RequirePlayerKey, RegisterCheck, UnregisterCheck, GenerateCheck

\* The tables, the keys minted and the tasks are well typed.
THEOREM TypeCorrect == Spec => []TypeOK
<1>1. Init => TypeOK
  BY DEF Init, TypeOK, Idle, Step
<1>2. TypeOK /\ [Next]_vars => TypeOK'
  <2> SUFFICES ASSUME TypeOK, [Next]_vars PROVE TypeOK' OBVIOUS
  <2>1. CASE UNCHANGED vars BY <2>1 DEF vars, TypeOK
  <2>2. CASE Crash BY <2>2 DEF Crash, TypeOK, rows, Idle, Step
  <2>3. ASSUME NEW t \in Tasks, TaskStep(t) PROVE TypeOK'
    BY <2>3, StepKeepsTasks, StepKeepsTables, TypeParts
  <2> QED BY <2>1, <2>2, <2>3 DEF Next
<1> QED BY <1>1, <1>2, PTL DEF Spec

\* A row of api_keys has a row of market_users: the cascade deletes a player's keys
\* with the player, and the insert is refused when the player is gone.
THEOREM HoldersStayRegistered == Spec => []HoldersRegistered
<1>1. Init => HoldersRegistered
  BY DEF Init, HoldersRegistered
<1>2. TypeOK /\ HoldersRegistered /\ [Next]_vars => HoldersRegistered'
  <2> SUFFICES ASSUME TypeOK, HoldersRegistered, [Next]_vars PROVE HoldersRegistered' OBVIOUS
  <2> USE DEF HoldersRegistered
  <2>1. CASE UNCHANGED rows BY <2>1 DEF rows
  <2>2. ASSUME NEW t \in Tasks, RegisterInsert(t) \/ GenerateRegister(t)
        PROVE  HoldersRegistered'
    BY <2>2 DEF RegisterInsert, GenerateRegister, AddUser
  <2>3. ASSUME NEW t \in Tasks, UnregisterCascade(t) PROVE HoldersRegistered'
    BY <2>3 DEF UnregisterCascade
  <2>4. ASSUME NEW t \in Tasks, GenerateRevoke(t) \/ RevokeKeys(t) PROVE HoldersRegistered'
    BY <2>4 DEF GenerateRevoke, RevokeKeys
  <2>5. ASSUME NEW t \in Tasks, GenerateCreate(t) PROVE HoldersRegistered'
    BY <2>5 DEF GenerateCreate, TypeOK
  <2> QED BY <2>1, <2>2, <2>3, <2>4, <2>5 DEF Next, Crash, TaskStep, Tell, PostRegister,
          Authenticate, Accept, RequirePlayerKey, RegisterCheck, UnregisterCheck,
          GenerateCheck, vars, rows
<1> QED BY <1>1, <1>2, TypeCorrect, PTL DEF Spec

-----------------------------------------------------------------------------
\* Generating and revoking are asked for by tells only.
TellsOnly ==
    \A t \in Tasks : task[t].pc \in {"genCheck", "genRegister", "genRevoke", "genCreate", "revoke"}
                       => t \in Readers

\* The readers that have revoked a player's keys and are about to create one.
Creating(p) == {t \in Readers : task[t].pc = "genCreate" /\ task[t].player = p}

\* Every active key of a player was made by a reader of its own that has not
\* revoked since, and a reader about to create one holds the place of another: the
\* bound counts both, since revoking empties the one and creating moves from the
\* second to the first.
Slots ==
    \A p \in Players :
       Cardinality(ActiveKeys(p)) + Cardinality(Creating(p)) <= Cardinality(Readers)

\* The sets that the bound counts are finite, before a step and after it.
LEMMA SetsAreFinite ==
    ASSUME NEW p
    PROVE  /\ IsFiniteSet(ActiveKeys(p)) /\ Cardinality(ActiveKeys(p)) \in Nat
           /\ IsFiniteSet(Creating(p)) /\ Cardinality(Creating(p)) \in Nat
           /\ IsFiniteSet(ActiveKeys(p)') /\ Cardinality(ActiveKeys(p)') \in Nat
           /\ IsFiniteSet(Creating(p)') /\ Cardinality(Creating(p)') \in Nat
           /\ Cardinality(Readers) \in Nat
           /\ Cardinality(Creating(p)') <= Cardinality(Readers)
<1>1. /\ ActiveKeys(p) \subseteq Keys /\ ActiveKeys(p)' \subseteq Keys
      /\ Creating(p) \subseteq Readers /\ Creating(p)' \subseteq Readers
  BY DEF ActiveKeys, Creating
<1> QED BY <1>1, KeysAssumption, FS_Subset, FS_CardinalityType

\* Nothing was created for a player whose sets did not grow.
LEMMA ShrinkingKeepsSlots ==
    ASSUME NEW p, ActiveKeys(p)' \subseteq ActiveKeys(p), Creating(p)' \subseteq Creating(p),
           Cardinality(ActiveKeys(p)) + Cardinality(Creating(p)) <= Cardinality(Readers)
    PROVE  Cardinality(ActiveKeys(p)') + Cardinality(Creating(p)') <= Cardinality(Readers)
<1>1. /\ Cardinality(ActiveKeys(p)') <= Cardinality(ActiveKeys(p))
      /\ Cardinality(Creating(p)') <= Cardinality(Creating(p))
  BY SetsAreFinite, FS_Subset
<1> QED BY <1>1, SetsAreFinite

\* A task that is not about to create is not counted.
LEMMA OthersDoNotCreate ==
    ASSUME TypeOK, NEW t \in Tasks, NEW p \in Players,
           \A u \in Tasks : u # t => task'[u] = task[u],
           task'[t].pc # "genCreate" \/ task'[t].player # p
    PROVE  Creating(p)' = Creating(p) \ {t}
BY DEF Creating, Tasks

\* Every step leaves generating and revoking to the chat readers.
LEMMA TellsOnlyKept ==
    ASSUME TypeOK, TellsOnly, NEW t \in Tasks, TaskStep(t)
    PROVE  TellsOnly'
<1> USE DEF TellsOnly
<1>1. CASE Tell(t) \/ PostRegister(t) \/ Authenticate(t)
  <2>1. PICK pc \in Step, p \in Players, by \in Players \cup {Nobody} :
          Accept(t, pc, p, by) /\ (pc \in {"genCheck", "genRegister", "genRevoke", "genCreate", "revoke"}
                                     => t \in Readers)
    BY <1>1 DEF Tell, PostRegister, Authenticate, TypeOK, Step
  <2> QED BY <2>1, TakesUp
<1>2. ASSUME NEW pc \in Step, Goto(t, pc) \/ End(t),
             pc \in {"regInsert", "unregCheck", "unregCascade"}
               \/ task[t].pc \in {"genCheck", "genRegister", "genRevoke", "genCreate", "revoke"}
      PROVE  TellsOnly'
  <2>1. \A u \in Tasks : u # t => task'[u] = task[u] BY <1>2, MovesOrEnds
  <2>2. task'[t].pc = pc \/ task'[t].pc = "idle" BY <1>2, MovesOrEnds
  <2>3. CASE task'[t].pc = "idle" \/ pc \in {"regInsert", "unregCheck", "unregCascade"}
    BY <2>1, <2>2, <2>3
  <2>4. CASE task[t].pc \in {"genCheck", "genRegister", "genRevoke", "genCreate", "revoke"}
    <3>1. t \in Readers BY <2>4
    <3> QED BY <2>1, <3>1
  <2> QED BY <1>2, <2>3, <2>4
<1>3. CASE RequirePlayerKey(t) BY <1>2, <1>3 DEF RequirePlayerKey, Step
<1>4. CASE RegisterCheck(t) \/ RegisterInsert(t)
  BY <1>2, <1>4 DEF RegisterCheck, RegisterInsert, Step
<1>5. CASE UnregisterCheck(t) \/ UnregisterCascade(t)
  BY <1>2, <1>5 DEF UnregisterCheck, UnregisterCascade, Step
<1>6. CASE GenerateCheck(t) \/ GenerateRegister(t)
  BY <1>2, <1>6 DEF GenerateCheck, GenerateRegister, At, Step
<1>7. CASE GenerateRevoke(t) \/ GenerateCreate(t) \/ RevokeKeys(t)
  BY <1>2, <1>7 DEF GenerateRevoke, GenerateCreate, RevokeKeys, At, Step
<1> QED BY <1>1, <1>3, <1>4, <1>5, <1>6, <1>7 DEF TaskStep

\* What revoking does to the active keys: the player has none, nobody else loses one.
LEMMA Revoking ==
    ASSUME NEW p, RevokeAll(p), UNCHANGED holder
    PROVE  ActiveKeys(p)' = {} /\ \A q : q # p => ActiveKeys(q)' = ActiveKeys(q)
BY DEF RevokeAll, ActiveKeys

\* What creating does: the key is new, so it was nobody's, and only the player's set grows.
LEMMA CreatingAKey ==
    ASSUME TypeOK, NEW t \in Tasks, GenerateCreate(t), NEW p, p = task[t].player
    PROVE  /\ p \in Players
           /\ End(t) /\ UNCHANGED revoked
           /\ \A q \in Players : q # p =>
                 ActiveKeys(q)' = ActiveKeys(q) /\ newest'[q] = newest[q]
           /\ \/ UNCHANGED <<holder, newest>>
              \/ \E k \in Keys : /\ ActiveKeys(p)' = ActiveKeys(p) \cup {k}
                                 /\ newest'[p] = k
<1>1. PICK k \in Keys \ minted :
        \/ UNCHANGED <<holder, newest>>
        \/ holder' = [holder EXCEPT ![k] = p] /\ newest' = [newest EXCEPT ![p] = k]
  BY DEF GenerateCreate
<1>2. p \in Players /\ End(t) /\ UNCHANGED revoked /\ TablesOK
  BY TypeParts DEF GenerateCreate, At, TasksOK
<1>3. CASE UNCHANGED <<holder, newest>> BY <1>2, <1>3 DEF ActiveKeys
<1>4. CASE holder' = [holder EXCEPT ![k] = p] /\ newest' = [newest EXCEPT ![p] = k]
  <2>1. k \notin revoked /\ holder[k] = Nobody BY <1>1, <1>2 DEF TablesOK
  <2>2. ActiveKeys(p)' = ActiveKeys(p) \cup {k}
    BY <1>1, <1>2, <1>4, <2>1 DEF ActiveKeys, TablesOK
  <2>3. ASSUME NEW q \in Players, q # p PROVE ActiveKeys(q)' = ActiveKeys(q)
    BY <1>1, <1>2, <1>4, <2>1, <2>3, KeysAssumption DEF ActiveKeys, TablesOK
  <2> QED BY <1>1, <1>2, <1>4, <2>2, <2>3 DEF TablesOK
<1> QED BY <1>1, <1>3, <1>4

\* No step of a task adds to active keys and pending creations together: revoking
\* empties the one before the reader enters the other, creating moves between them.
LEMMA SlotsKept ==
    ASSUME TypeOK, TellsOnly, Slots, NEW t \in Tasks, TaskStep(t)
    PROVE  Slots'
<1> SUFFICES ASSUME NEW q \in Players
             PROVE  Cardinality(ActiveKeys(q)') + Cardinality(Creating(q)') <= Cardinality(Readers)
  BY DEF Slots
<1>0. Cardinality(ActiveKeys(q)) + Cardinality(Creating(q)) <= Cardinality(Readers) BY DEF Slots
<1>1. ASSUME ActiveKeys(q)' \subseteq ActiveKeys(q), NEW pc \in Step, pc # "genCreate",
             Goto(t, pc) \/ End(t)
      PROVE  Cardinality(ActiveKeys(q)') + Cardinality(Creating(q)') <= Cardinality(Readers)
  <2>1. (\A u \in Tasks : u # t => task'[u] = task[u]) /\ task'[t].pc # "genCreate"
    <3>1. CASE Goto(t, pc) BY <1>1, <3>1, MovesOrEnds
    <3>2. CASE End(t) BY <3>2, MovesOrEnds DEF Step
    <3> QED BY <1>1, <3>1, <3>2
  <2>2. Creating(q)' \subseteq Creating(q) BY <2>1, OthersDoNotCreate
  <2> QED BY <1>0, <1>1, <2>2, ShrinkingKeepsSlots
<1>2. CASE Tell(t) \/ PostRegister(t) \/ Authenticate(t)
  <2>1. PICK pc \in Step, p \in Players, by \in Players \cup {Nobody} :
          Accept(t, pc, p, by) /\ pc # "genCreate"
    BY <1>2, Arrivals DEF Step
  <2>2. Creating(q)' \subseteq Creating(q) BY <2>1, TakesUp, OthersDoNotCreate
  <2>3. ActiveKeys(q)' = ActiveKeys(q) BY <2>1 DEF Accept, rows, ActiveKeys
  <2> QED BY <1>0, <2>2, <2>3, ShrinkingKeepsSlots
<1>3. CASE RequirePlayerKey(t) \/ RegisterCheck(t) \/ UnregisterCheck(t) \/ GenerateCheck(t)
  BY <1>1, <1>3 DEF RequirePlayerKey, RegisterCheck, UnregisterCheck, GenerateCheck, rows,
     ActiveKeys, Step
<1>4. CASE RegisterInsert(t) \/ GenerateRegister(t)
  BY <1>1, <1>4 DEF RegisterInsert, GenerateRegister, ActiveKeys, Step
<1>5. CASE UnregisterCascade(t)
  <2>1. ActiveKeys(q)' \subseteq ActiveKeys(q)
    BY <1>5, KeysAssumption DEF UnregisterCascade, ActiveKeys
  <2> QED BY <1>1, <1>5, <2>1 DEF UnregisterCascade, Step
<1>6. CASE RevokeKeys(t)
  BY <1>1, <1>6, Revoking DEF RevokeKeys, Step
<1>7. CASE GenerateRevoke(t)
  <2>1. /\ RevokeAll(task[t].player) /\ Goto(t, "genCreate") /\ UNCHANGED holder
        /\ "genCreate" \in Step
    BY <1>7 DEF GenerateRevoke, Step
  <2>2. CASE q = task[t].player
    BY <2>1, <2>2, Revoking, FS_EmptySet, SetsAreFinite
  <2>3. CASE q # task[t].player
    <3>1. ActiveKeys(q)' = ActiveKeys(q) BY <2>1, <2>3, Revoking
    <3>2. (\A u \in Tasks : u # t => task'[u] = task[u]) /\ task'[t].player # q
      BY <2>1, <2>3, MovesOrEnds
    <3>3. Creating(q)' \subseteq Creating(q) BY <3>2, OthersDoNotCreate
    <3> QED BY <1>0, <3>1, <3>3, ShrinkingKeepsSlots
  <2> QED BY <2>2, <2>3
<1>8. CASE GenerateCreate(t)
  <2>1. t \in Creating(task[t].player) /\ End(t)
    BY <1>8 DEF GenerateCreate, At, TellsOnly, Creating
  <2>6. (\A u \in Tasks : u # t => task'[u] = task[u]) /\ task'[t].pc # "genCreate"
    BY <2>1, MovesOrEnds DEF Step
  <2>2. Creating(q)' = Creating(q) \ {t} BY <2>6, OthersDoNotCreate
  <2>3. CASE ActiveKeys(q)' = ActiveKeys(q)
    BY <1>0, <2>2, <2>3, ShrinkingKeepsSlots
  <2>4. CASE q = task[t].player /\ \E k \in Keys : ActiveKeys(q)' = ActiveKeys(q) \cup {k}
    <3>4. PICK k \in Keys : ActiveKeys(q)' = ActiveKeys(q) \cup {k} BY <2>4
    <3>1. Cardinality(ActiveKeys(q)') <= Cardinality(ActiveKeys(q)) + 1
      <4>1. IsFiniteSet(ActiveKeys(q)) /\ Cardinality(ActiveKeys(q)) \in Nat BY SetsAreFinite
      <4>2. Cardinality(ActiveKeys(q) \cup {k}) <= Cardinality(ActiveKeys(q)) + 1
        BY <4>1, FS_AddElement
      <4> QED BY <3>4, <4>2
    <3>2. Cardinality(Creating(q)') = Cardinality(Creating(q)) - 1
      <4>1. t \in Creating(q) /\ IsFiniteSet(Creating(q)) BY <2>1, <2>4, SetsAreFinite
      <4>2. Cardinality(Creating(q) \ {t}) = Cardinality(Creating(q)) - 1
        BY <4>1, FS_RemoveElement
      <4> QED BY <2>2, <4>2
    <3> QED BY <1>0, <3>1, <3>2, SetsAreFinite
  <2>5. ActiveKeys(q)' = ActiveKeys(q)
        \/ (q = task[t].player /\ \E k \in Keys : ActiveKeys(q)' = ActiveKeys(q) \cup {k})
    BY <1>8, CreatingAKey DEF ActiveKeys
  <2> QED BY <2>3, <2>4, <2>5
<1> QED BY <1>2, <1>3, <1>4, <1>5, <1>6, <1>7, <1>8 DEF TaskStep

\* While one reader handles every tell, a player's active key is the newest one.
Newest == \A p \in Players : ActiveKeys(p) \subseteq {newest[p]}

\* With one reader, what generate_key creates is the only active key and the newest.
LEMMA NewestKept ==
    ASSUME Cardinality(Readers) = 1, TypeOK, TellsOnly, Slots, Newest,
           NEW t \in Tasks, TaskStep(t)
    PROVE  Newest'
<1> SUFFICES ASSUME NEW q \in Players PROVE ActiveKeys(q)' \subseteq {newest'[q]}
  BY DEF Newest
<1>0. ActiveKeys(q) \subseteq {newest[q]} BY DEF Newest
<1>1. CASE UNCHANGED <<holder, revoked, newest>> BY <1>0, <1>1 DEF ActiveKeys
<1>2. CASE UnregisterCascade(t)
  <2>1. ActiveKeys(q)' \subseteq ActiveKeys(q) /\ newest' = newest
    BY <1>2, KeysAssumption DEF UnregisterCascade, ActiveKeys
  <2> QED BY <1>0, <2>1
<1>3. CASE GenerateRevoke(t) \/ RevokeKeys(t)
  <2>1. RevokeAll(task[t].player) /\ UNCHANGED <<holder, newest>>
    BY <1>3 DEF GenerateRevoke, RevokeKeys
  <2> QED BY <1>0, <2>1, Revoking
<1>4. CASE GenerateCreate(t)
  <2>1. CASE q # task[t].player BY <1>0, <1>4, <2>1, CreatingAKey
  <2>2. CASE q = task[t].player
    <3>1. t \in Creating(q) BY <1>4, <2>2 DEF GenerateCreate, At, TellsOnly, Creating
    <3>2. Cardinality(Creating(q)) # 0 BY <3>1, SetsAreFinite, FS_EmptySet
    <3>3. Cardinality(ActiveKeys(q)) + Cardinality(Creating(q)) <= 1 BY DEF Slots
    <3>4. Cardinality(ActiveKeys(q)) = 0 BY <3>2, <3>3, SetsAreFinite
    <3>5. ActiveKeys(q) = {} BY <3>4, SetsAreFinite, FS_EmptySet
    <3> QED BY <1>0, <1>4, <2>2, <3>5, CreatingAKey DEF ActiveKeys
  <2> QED BY <2>1, <2>2
<1> QED BY <1>1, <1>2, <1>3, <1>4 DEF TaskStep, Tell, PostRegister, Authenticate, Accept,
      RequirePlayerKey, RegisterCheck, RegisterInsert, UnregisterCheck, GenerateCheck,
      GenerateRegister, rows

KeysInv == TypeOK /\ TellsOnly /\ Slots

\* The inductive invariant behind the bound on active keys.
LEMMA KeysInvariant == Spec => []KeysInv
<1>1. Init => TellsOnly /\ Slots
  <2> SUFFICES ASSUME Init PROVE TellsOnly /\ Slots OBVIOUS
  <2>1. \A t \in Tasks : task[t].pc = "idle" BY DEF Init, Idle
  <2>2. \A p \in Players : ActiveKeys(p) = {} /\ Creating(p) = {}
    BY <2>1, KeysAssumption DEF Init, ActiveKeys, Creating, Tasks
  <2> QED BY <2>1, <2>2, FS_EmptySet, SetsAreFinite DEF TellsOnly, Slots
<1>2. TypeOK /\ TypeOK' /\ TellsOnly /\ Slots /\ [Next]_vars => TellsOnly' /\ Slots'
  <2> SUFFICES ASSUME TypeOK, TellsOnly, Slots, [Next]_vars PROVE TellsOnly' /\ Slots' OBVIOUS
  <2>1. CASE UNCHANGED vars
    BY <2>1 DEF vars, TellsOnly, Slots, ActiveKeys, Creating
  <2>2. CASE Crash
    <3>1. \A t \in Tasks : task'[t].pc = "idle" BY <2>2 DEF Crash, Idle
    <3>2. ASSUME NEW p \in Players
          PROVE  ActiveKeys(p)' = ActiveKeys(p) /\ Creating(p)' = {}
      BY <2>2, <3>1 DEF Crash, rows, ActiveKeys, Creating, Tasks
    <3> QED BY <3>1, <3>2, ShrinkingKeepsSlots DEF TellsOnly, Slots
  <2>3. ASSUME NEW t \in Tasks, TaskStep(t) PROVE TellsOnly' /\ Slots'
    BY <2>3, TellsOnlyKept, SlotsKept
  <2> QED BY <2>1, <2>2, <2>3 DEF Next
<1> QED BY <1>1, <1>2, TypeCorrect, PTL DEF Spec, KeysInv

\* As many keys of a player work at once as there are chat readers: generate_key
\* revokes and creates in two transactions, and each reader can be between the two.
THEOREM KeysPerReader == Spec => []OneActiveKey
<1>1. KeysInv => OneActiveKey
  <2> SUFFICES ASSUME KeysInv, NEW p \in Players
               PROVE  Cardinality(ActiveKeys(p)) <= Cardinality(Readers)
    BY DEF OneActiveKey
  <2> QED BY SetsAreFinite DEF KeysInv, Slots
<1> QED BY <1>1, KeysInvariant, PTL

\* With one chat reader no older key ever works again once generate_key has given
\* a newer one, whatever requests do meanwhile and wherever the process dies.
THEOREM NewestKeyOnly == Spec => []OnlyNewestWorks
<1>1. ASSUME Cardinality(Readers) = 1 PROVE Spec => []Newest
  <2>1. Init => Newest
    BY KeysAssumption DEF Init, Newest, ActiveKeys
  <2>2. KeysInv /\ Newest /\ [Next]_vars => Newest'
    <3> SUFFICES ASSUME KeysInv, Newest, [Next]_vars PROVE Newest' OBVIOUS
    <3>1. CASE UNCHANGED rows BY <3>1 DEF rows, Newest, ActiveKeys
    <3>2. ASSUME NEW t \in Tasks, TaskStep(t) PROVE Newest'
      BY <1>1, <3>2, NewestKept DEF KeysInv
    <3> QED BY <3>1, <3>2 DEF Next, Crash, vars, rows
  <2> QED BY <2>1, <2>2, KeysInvariant, PTL DEF Spec
<1>2. ASSUME Cardinality(Readers) = 1 PROVE Newest <=> OnlyNewestWorks
  BY <1>2 DEF Newest, OnlyNewestWorks
<1>3. ASSUME Cardinality(Readers) = 1 PROVE Spec => []OnlyNewestWorks
  BY <1>1, <1>2, <1>3, PTL
<1>4. ASSUME Cardinality(Readers) # 1 PROVE OnlyNewestWorks
  BY <1>4 DEF OnlyNewestWorks
<1>5. ASSUME Cardinality(Readers) # 1 PROVE Spec => []OnlyNewestWorks
  BY <1>4, <1>5, PTL
<1> QED BY <1>3, <1>5

-----------------------------------------------------------------------------
\* A request that has passed get_by_hash acts for a player, and a task on its way
\* to unregister_cascade acts for the player it deletes or for the owner.
Authority ==
    \A t \in Tasks :
       /\ task[t].pc = "scope" => task[t].by # Nobody
       /\ task[t].pc \in {"unregCheck", "unregCascade"} =>
             task[t].by \in {task[t].player, Owner} \ {Nobody}

\* A request that passed the scope check keeps the authority it was checked for.
LEMMA AuthorityKept ==
    ASSUME TypeOK, Authority, NEW t \in Tasks, TaskStep(t)
    PROVE  Authority'
<1> USE DEF Authority
<1>1. CASE Tell(t) \/ PostRegister(t) \/ Authenticate(t)
  <2>1. PICK pc \in Step, p \in Players, by \in Players \cup {Nobody} :
          /\ Accept(t, pc, p, by)
          /\ pc = "scope" => by # Nobody
          /\ pc # "unregCascade"
          /\ pc = "unregCheck" => by = p
    BY <1>1, Arrivals DEF Step
  <2> QED BY <2>1, TakesUp, KeysAssumption
<1>2. ASSUME NEW pc \in Step, Goto(t, pc) \/ End(t), pc # "scope",
             pc \in {"unregCheck", "unregCascade"} =>
               task[t].by \in {task[t].player, Owner} \ {Nobody}
      PROVE  Authority'
  <2>1. /\ \A u \in Tasks : u # t => task'[u] = task[u]
        /\ \/ task'[t].pc = "idle"
           \/ task'[t].pc = pc /\ task'[t].player = task[t].player /\ task'[t].by = task[t].by
    BY <1>2, MovesOrEnds
  <2> QED BY <1>2, <2>1
<1>3. CASE RequirePlayerKey(t) BY <1>2, <1>3 DEF RequirePlayerKey, At, Step
<1>4. CASE RegisterCheck(t) \/ RegisterInsert(t)
  BY <1>2, <1>4 DEF RegisterCheck, RegisterInsert, Step
<1>5. CASE UnregisterCheck(t) \/ UnregisterCascade(t)
  BY <1>2, <1>5 DEF UnregisterCheck, UnregisterCascade, At, Step
<1>6. CASE GenerateCheck(t) \/ GenerateRegister(t)
  BY <1>2, <1>6 DEF GenerateCheck, GenerateRegister, Step
<1>7. CASE GenerateRevoke(t) \/ GenerateCreate(t) \/ RevokeKeys(t)
  BY <1>2, <1>7 DEF GenerateRevoke, GenerateCreate, RevokeKeys, Step
<1> QED BY <1>1, <1>3, <1>4, <1>5, <1>6, <1>7 DEF TaskStep

\* A player is deleted only on that player's own authority or the owner's.
THEOREM UnregisteredByRight == Spec => UnregistersScoped
<1>1. Init => Authority BY DEF Init, Idle, Authority
<1>2. TypeOK /\ Authority /\ [Next]_vars => Authority'
  <2> SUFFICES ASSUME TypeOK, Authority, [Next]_vars PROVE Authority' OBVIOUS
  <2>1. CASE UNCHANGED vars BY <2>1 DEF vars, Authority
  <2>2. CASE Crash BY <2>2 DEF Crash, Idle, Authority
  <2>3. ASSUME NEW t \in Tasks, TaskStep(t) PROVE Authority' BY <2>3, AuthorityKept
  <2> QED BY <2>1, <2>2, <2>3 DEF Next
<1>3. Spec => []Authority BY <1>1, <1>2, TypeCorrect, PTL DEF Spec
<1>4. Authority /\ [Next]_vars =>
        [\A p \in users \ users' : \E t \in Tasks :
            task[t].player = p /\ task[t].by \in {p, Owner} \ {Nobody}]_vars
  <2> SUFFICES ASSUME Authority, Next, NEW p \in users, p \notin users'
               PROVE  \E t \in Tasks : task[t].player = p /\ task[t].by \in {p, Owner} \ {Nobody}
    BY DEF vars
  <2>1. PICK t \in Tasks : UnregisterCascade(t)
    BY DEF Next, Crash, TaskStep, Tell, PostRegister, Authenticate, Accept, RequirePlayerKey,
       RegisterCheck, RegisterInsert, UnregisterCheck, GenerateCheck, GenerateRegister,
       GenerateRevoke, GenerateCreate, RevokeKeys, AddUser, rows
  <2> QED BY <2>1 DEF UnregisterCascade, At, Authority
<1> QED BY <1>3, <1>4, PTL DEF Spec, UnregistersScoped
-----------------------------------------------------------------------------
(* ApiKeys implements KeySpec.  Four commits of generate_key are at most a  *)
(* Join, a Take, a Give or a Waste, one each; a cascade is a Leave.         *)

\* A change of one player's active keys is a change of one value of the function that
\* KeySpec has for them.
LEMMA OneHolderChanges ==
    ASSUME NEW p \in Players, NEW S, ActiveKeys(p)' = S,
           \A q \in Players : q # p => ActiveKeys(q)' = ActiveKeys(q)
    PROVE  [q \in Players |-> ActiveKeys(q)']
             = [[q \in Players |-> ActiveKeys(q)] EXCEPT ![p] = S]
OBVIOUS

\* Nothing that works changes without a write to the rows of keys.
LEMMA SameKeysWork ==
    ASSUME UNCHANGED <<holder, revoked>>
    PROVE  [q \in Players |-> ActiveKeys(q)'] = [q \in Players |-> ActiveKeys(q)]
BY DEF ActiveKeys

\* Revoking takes all the keys of one player.
LEMMA RevokingTakes ==
    ASSUME TypeOK, NEW t \in Tasks, GenerateRevoke(t) \/ RevokeKeys(t)
    PROVE  \E p \in Players : Issuing!Take(p)
<1>1. PICK p \in Players : p = task[t].player BY DEF GenerateRevoke, RevokeKeys, At, TypeOK
<1>2. RevokeAll(p) /\ UNCHANGED <<users, holder, minted>> BY <1>1 DEF GenerateRevoke, RevokeKeys
<1>3. ActiveKeys(p)' = {} /\ \A q \in Players : q # p => ActiveKeys(q)' = ActiveKeys(q)
  BY <1>2, Revoking
<1> QED BY <1>1, <1>2, <1>3, OneHolderChanges DEF Issuing!Take

\* The cascade takes the account and its keys, and nobody else's.
LEMMA CascadeLeaves ==
    ASSUME TypeOK, NEW t \in Tasks, UnregisterCascade(t)
    PROVE  \E p \in Players : Issuing!Leave(p)
<1>1. PICK p \in Players : p = task[t].player BY DEF UnregisterCascade, At, TypeOK
<1>2. ActiveKeys(p)' = {}
  BY <1>1, KeysAssumption DEF UnregisterCascade, ActiveKeys
<1>3. ASSUME NEW q \in Players, q # p PROVE ActiveKeys(q)' = ActiveKeys(q)
  BY <1>1, <1>3, KeysAssumption DEF UnregisterCascade, ActiveKeys
<1>4. users' = users \ {p} /\ UNCHANGED minted BY <1>1 DEF UnregisterCascade
<1> QED BY <1>1, <1>2, <1>3, <1>4, OneHolderChanges DEF Issuing!Leave

\* The reader that is about to create holds a place: with one more key the player has
\* no more than there are readers.
LEMMA RoomForAKey ==
    ASSUME Slots, NEW p \in Players, NEW t \in Creating(p), NEW k \in Keys
    PROVE  ActiveKeys(p) \cup {k} \in {ks \in SUBSET Keys : Cardinality(ks) <= Cardinality(Readers)}
<1>1. Cardinality(Creating(p)) # 0 BY SetsAreFinite, FS_EmptySet
<1>2. Cardinality(ActiveKeys(p) \cup {k}) <= Cardinality(ActiveKeys(p)) + 1
  <2>1. IsFiniteSet(ActiveKeys(p)) /\ Cardinality(ActiveKeys(p)) \in Nat BY SetsAreFinite
  <2>2. \/ Cardinality(ActiveKeys(p) \cup {k}) = Cardinality(ActiveKeys(p))
        \/ Cardinality(ActiveKeys(p) \cup {k}) = Cardinality(ActiveKeys(p)) + 1
    BY <2>1, FS_AddElement
  <2> QED BY <2>1, <2>2
<1>3. Cardinality(ActiveKeys(p)) + 1 <= Cardinality(Readers)
  BY <1>1, SetsAreFinite DEF Slots
<1>4. IsFiniteSet(ActiveKeys(p) \cup {k}) BY SetsAreFinite, FS_AddElement
<1>5. Cardinality(ActiveKeys(p) \cup {k}) \in Nat BY <1>4, FS_CardinalityType
<1>6. ActiveKeys(p) \cup {k} \subseteq Keys BY DEF ActiveKeys
<1> QED BY <1>2, <1>3, <1>5, <1>6, SetsAreFinite

\* Creating gives the player a key that is new, or wastes one when the player has gone.
LEMMA CreatingGives ==
    ASSUME TypeOK, TellsOnly, Slots, NEW t \in Tasks, GenerateCreate(t)
    PROVE  Issuing!Waste \/ \E p \in Players : Issuing!Give(p)
<1>0. PICK p \in Players : p = task[t].player BY DEF GenerateCreate, At, TypeOK
<1>1. UNCHANGED <<users, revoked>> /\ t \in Creating(p)
  BY <1>0 DEF GenerateCreate, At, TellsOnly, Creating
<1>2. PICK k \in Keys \ minted :
        /\ minted' = minted \cup {k}
        /\ IF p \in users THEN holder' = [holder EXCEPT ![k] = p] ELSE UNCHANGED holder
  BY <1>0 DEF GenerateCreate
<1>3. CASE p \notin users
  <2>1. UNCHANGED holder BY <1>2, <1>3
  <2> QED BY <1>1, <1>2, <2>1, SameKeysWork DEF Issuing!Waste
<1>4. CASE p \in users
  <2>1. /\ holder' = [holder EXCEPT ![k] = p] /\ holder \in [Keys -> Players \cup {Nobody}]
        /\ k \notin revoked /\ holder[k] = Nobody
    BY <1>2, <1>4 DEF TypeOK
  <2>2. ActiveKeys(p)' = ActiveKeys(p) \cup {k}
    BY <1>1, <1>2, <2>1 DEF ActiveKeys
  <2>3. ASSUME NEW q \in Players, q # p PROVE ActiveKeys(q)' = ActiveKeys(q)
    BY <1>1, <2>1, <2>3, KeysAssumption DEF ActiveKeys
  <2>4. ActiveKeys(p) \cup {k} \in {ks \in SUBSET Keys : Cardinality(ks) <= Cardinality(Readers)}
    BY <1>1, RoomForAKey
  <2> QED BY <1>1, <1>2, <1>4, <2>2, <2>3, <2>4, OneHolderChanges DEF Issuing!Give
<1> QED BY <1>3, <1>4

\* The key store keeps KeySpec's promise for any number of readers and requests: what
\* a generate_key, a revocation or a cascade leaves half done is never a state that
\* KeySpec could not be in, and no key works again.
THEOREM IssuingImplemented == Spec => ImplementsIssuing
<1>1. Init => Issuing!Init
  <2>1. Init => \A p \in Players : ActiveKeys(p) = {}
    BY KeysAssumption DEF Init, ActiveKeys
  <2> QED BY <2>1 DEF Init, Issuing!Init
<1>2. KeysInv /\ [Next]_vars => [Issuing!Next]_(Issuing!kvars)
  <2> SUFFICES ASSUME KeysInv, [Next]_vars
               PROVE  Issuing!Next \/ UNCHANGED Issuing!kvars
    OBVIOUS
  <2>1. CASE UNCHANGED <<users, holder, revoked, minted>>
    BY <2>1, SameKeysWork DEF Issuing!kvars
  <2>2. ASSUME NEW t \in Tasks, RegisterInsert(t) \/ GenerateRegister(t) PROVE Issuing!Next
    <3>1. task[t].player \in Players BY <2>2 DEF KeysInv, TypeOK, RegisterInsert, GenerateRegister, At
    <3>2. users' = users \cup {task[t].player} /\ UNCHANGED <<holder, revoked, minted>>
      BY <2>2 DEF RegisterInsert, GenerateRegister, AddUser
    <3> QED BY <3>1, <3>2, SameKeysWork DEF Issuing!Join, Issuing!Next
  <2>3. ASSUME NEW t \in Tasks, UnregisterCascade(t) PROVE Issuing!Next
    BY <2>3, CascadeLeaves DEF KeysInv, Issuing!Next
  <2>4. ASSUME NEW t \in Tasks, GenerateRevoke(t) \/ RevokeKeys(t) PROVE Issuing!Next
    BY <2>4, RevokingTakes DEF KeysInv, Issuing!Next
  <2>5. ASSUME NEW t \in Tasks, GenerateCreate(t) PROVE Issuing!Next
    BY <2>5, CreatingGives DEF KeysInv, Issuing!Next
  <2> QED BY <2>1, <2>2, <2>3, <2>4, <2>5 DEF Next, Crash, TaskStep, Tell, PostRegister,
          Authenticate, Accept, RequirePlayerKey, RegisterCheck, UnregisterCheck,
          GenerateCheck, vars, rows, Issuing!Next
<1> QED BY <1>1, <1>2, KeysInvariant, PTL DEF Spec, ImplementsIssuing, Issuing!Spec
=============================================================================
