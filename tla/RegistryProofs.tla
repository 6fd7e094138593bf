--------------------------- MODULE RegistryProofs ---------------------------
(***************************************************************************)
(* Theorems about Registry for every set of players, items and workers and  *)
(* every limit.                                                             *)
(***************************************************************************)
EXTENDS Registry, FiniteSetTheorems, TLAPS

USE DEF db

-----------------------------------------------------------------------------
\* The arrival of a call changes no row and enters the call at its first step,
\* which is none of subscribe's steps past the limit check.
LEMMA ArriveType ==
    ASSUME TypeOK, NEW w \in Workers, Arrive(w)
    PROVE  /\ TypeOK'
           /\ UNCHANGED db
           /\ \E at \in {"regCheck", "unregCheck", "subLookup", "unwDelete",
                         "unwAll", "trkLookup", "untrack", "clear"} :
                pc' = [pc EXCEPT ![w] = at]
           /\ \A v \in Workers \ {w} : req'[v] = req[v]
           /\ pc[w] = "idle"
<1> DEFINE SubCall == \E p \in Players, i \in Items : Accept(w, p, {i}, "subLookup")
           PlayerCall == \E p \in Players, is \in SUBSET Items,
                            at \in {"regCheck", "unregCheck", "unwDelete", "unwAll"} :
                              Accept(w, p, is, at)
           OtherCall == \E is \in SUBSET Items, at \in {"trkLookup", "untrack", "clear"} :
                              Accept(w, Nobody, is, at)
<1>1. SubCall \/ PlayerCall \/ OtherCall
  BY DEF TypeOK, Arrive, Register, Unregister, Subscribe, Unsubscribe, UnsubscribeAll,
         Track, StopTracking, ExpireSelect, UntrackAll
<1>2. CASE SubCall
  <2>1. PICK p \in Players, i \in Items : Accept(w, p, {i}, "subLookup")
    BY <1>2
  <2>2. TypeOK' BY <2>1 DEF Accept, TypeOK, Step, PlayerStep, SubscribeStep
  <2> QED BY <2>1, <2>2 DEF Accept, TypeOK
<1>3. CASE PlayerCall
  <2>1. PICK p \in Players, is \in SUBSET Items,
             at \in {"regCheck", "unregCheck", "unwDelete", "unwAll"} :
               Accept(w, p, is, at)
    BY <1>3
  <2>2. TypeOK' BY <2>1 DEF Accept, TypeOK, Step, PlayerStep, SubscribeStep
  <2> QED BY <2>1, <2>2 DEF Accept, TypeOK
<1>4. CASE OtherCall
  <2>1. PICK is \in SUBSET Items, at \in {"trkLookup", "untrack", "clear"} :
               Accept(w, Nobody, is, at)
    BY <1>4
  <2>2. TypeOK' BY <2>1 DEF Accept, TypeOK, Step, PlayerStep, SubscribeStep
  <2> QED BY <2>1, <2>2 DEF Accept, TypeOK
<1> QED BY <1>1, <1>2, <1>3, <1>4

\* The rows are those of known players and items.
TablesOK ==
    /\ users \subseteq Players /\ watch \subseteq Items /\ subs \subseteq Players \X Items
    /\ ledger \subseteq Players /\ cut \subseteq Players

\* A call is at a step, with the player and the items that step needs.
CallsOK ==
    /\ pc \in [Workers -> Step]
    /\ req \in [Workers -> [player : Players \cup {Nobody}, items : SUBSET Items]]
    /\ \A w \in Workers : pc[w] \in PlayerStep => req[w].player \in Players
    /\ \A w \in Workers : pc[w] \in SubscribeStep => \E i \in Items : req[w].items = {i}

\* The type invariant is that of the rows and that of the calls, in both states.
LEMMA TypeParts == (TypeOK <=> TablesOK /\ CallsOK) /\ (TypeOK' <=> TablesOK' /\ CallsOK')
BY DEF TypeOK, TablesOK, CallsOK

\* A call that goes on to a step that needs no more than its last keeps what it needs.
LEMMA GoingOn ==
    ASSUME CallsOK, NEW w \in Workers, NEW at \in Step, Goto(w, at),
           at \in PlayerStep => pc[w] \in PlayerStep,
           at \in SubscribeStep => pc[w] \in SubscribeStep
    PROVE  CallsOK'
<1>1. pc' \in [Workers -> Step] /\ req' = req /\ pc'[w] = at
      /\ \A v \in Workers : v # w => pc'[v] = pc[v]
  BY DEF CallsOK, Goto
<1> QED BY <1>1 DEF CallsOK

\* A call that returns needs nothing any more.
LEMMA Returning ==
    ASSUME CallsOK, NEW w \in Workers, Return(w)
    PROVE  CallsOK'
<1>1. /\ pc' \in [Workers -> Step]
      /\ req' \in [Workers -> [player : Players \cup {Nobody}, items : SUBSET Items]]
      /\ pc'[w] = "idle"
      /\ \A v \in Workers : v # w => pc'[v] = pc[v] /\ req'[v] = req[v]
  BY DEF CallsOK, Return, NoRequest, Step
<1>2. pc'[w] \notin PlayerStep /\ pc'[w] \notin SubscribeStep
  BY <1>1 DEF PlayerStep, SubscribeStep
<1> QED BY <1>1, <1>2 DEF CallsOK

\* Every step of a call leaves it with what its next step needs.
LEMMA AdvanceKeepsCalls ==
    ASSUME TypeOK, NEW w \in Workers, Advance(w)
    PROVE  CallsOK'
<1>0. CallsOK BY TypeParts
<1>1. ASSUME NEW at \in Step, Goto(w, at) \/ Return(w),
             at \in PlayerStep => pc[w] \in PlayerStep,
             at \in SubscribeStep => pc[w] \in SubscribeStep
      PROVE  CallsOK'
  BY <1>0, <1>1, GoingOn, Returning
<1> USE DEF Step, PlayerStep, SubscribeStep
<1>2. CASE RegisterCheck(w) BY <1>1, <1>2 DEF RegisterCheck
<1>3. CASE RegisterInsert(w) BY <1>1, <1>3 DEF RegisterInsert
<1>4. CASE UnregisterCheck(w) BY <1>1, <1>4 DEF UnregisterCheck
<1>5. CASE RegisterLog(w) \/ UnregisterCascade(w) \/ SubscribeDeny(w) \/ SubscribeLog(w)
           \/ TrackWatch(w) \/ UntrackDelete(w) \/ ClearWatch(w)
  BY <1>0, <1>5, Returning DEF RegisterLog, UnregisterCascade, SubscribeDeny, SubscribeLog,
     TrackWatch, UntrackDelete, ClearWatch
<1>6. CASE SubscribeLookup(w) BY <1>1, <1>6 DEF SubscribeLookup
<1>7. CASE SubscribeUser(w)
  <2>1. CASE Goto(w, "subExisting") BY <1>1, <1>7, <2>1 DEF SubscribeUser
  <2>2. CASE Goto(w, "subDeny") BY <1>1, <1>7, <2>2 DEF SubscribeUser
  <2> QED BY <1>7, <2>1, <2>2 DEF SubscribeUser
<1>8. CASE SubscribeExisting(w) BY <1>1, <1>8 DEF SubscribeExisting
<1>9. CASE SubscribeLimit(w) BY <1>1, <1>9 DEF SubscribeLimit
<1>10. CASE SubscribeFind(w)
  <2>1. CASE Goto(w, "subWatch") BY <1>1, <1>10, <2>1 DEF SubscribeFind
  <2>2. CASE Goto(w, "subWatchNew") BY <1>1, <1>10, <2>2 DEF SubscribeFind
  <2> QED BY <1>10, <2>1, <2>2 DEF SubscribeFind
<1>11. CASE SubscribeWatch(w) BY <1>1, <1>11 DEF SubscribeWatch
<1>12. CASE SubscribeInsert(w) BY <1>1, <1>12 DEF SubscribeInsert
<1>13. CASE UnsubscribeDelete(w)
  <2>1. /\ pc' \in [Workers -> Step] /\ pc'[w] = "unwLog" /\ pc[w] = "unwDelete"
        /\ \A v \in Workers : v # w => pc'[v] = pc[v]
    BY <1>0, <1>13 DEF UnsubscribeDelete, CallsOK
  <2>2. PICK i \in req[w].items : req' = [req EXCEPT ![w].items = @ \ {i}]
    BY <1>13 DEF UnsubscribeDelete
  <2>3. /\ req' \in [Workers -> [player : Players \cup {Nobody}, items : SUBSET Items]]
        /\ req'[w].player = req[w].player
        /\ \A v \in Workers : v # w => req'[v] = req[v]
    BY <1>0, <2>2 DEF CallsOK
  <2>4. pc[w] \in PlayerStep /\ pc'[w] \notin SubscribeStep BY <2>1
  <2> HIDE DEF Step, PlayerStep, SubscribeStep
  <2>5. req[w].player \in Players BY <1>0, <2>4 DEF CallsOK
  <2> QED BY <1>0, <2>1, <2>3, <2>4, <2>5 DEF CallsOK
<1>14. CASE UnsubscribeLog(w) BY <1>1, <1>14 DEF UnsubscribeLog
<1>15. CASE UnsubscribeAllDelete(w) BY <1>1, <1>15 DEF UnsubscribeAllDelete
<1>16. CASE TrackLookup(w) BY <1>1, <1>16 DEF TrackLookup
<1> QED BY <1>2, <1>3, <1>4, <1>5, <1>6, <1>7, <1>8, <1>9, <1>10, <1>11, <1>12, <1>13, <1>14,
        <1>15, <1>16 DEF Advance

\* Every step of a call leaves rows of known players and items.
LEMMA AdvanceKeepsTables ==
    ASSUME TypeOK, NEW w \in Workers, Advance(w)
    PROVE  TablesOK'
<1>0. /\ TablesOK /\ req[w].items \subseteq Items
      /\ pc[w] \in PlayerStep => req[w].player \in Players
  BY TypeParts DEF CallsOK
<1> USE DEF TablesOK
<1>1. CASE UNCHANGED db BY <1>0, <1>1
<1>2. CASE RegisterInsert(w)
  BY <1>0, <1>2 DEF RegisterInsert, PlayerStep, Step
<1>3. CASE RegisterLog(w) \/ SubscribeDeny(w) \/ SubscribeLog(w) \/ UnsubscribeLog(w)
  <2>1. req[w].player \in Players
    BY <1>0, <1>3 DEF RegisterLog, SubscribeDeny, SubscribeLog, UnsubscribeLog, PlayerStep, Step
  <2>2. LogAction(w) /\ UNCHANGED <<users, watch, subs>>
    BY <1>3 DEF RegisterLog, SubscribeDeny, SubscribeLog, UnsubscribeLog
  <2> QED BY <1>0, <2>1, <2>2 DEF LogAction
<1>4. CASE UnregisterCascade(w)
  BY <1>0, <1>4 DEF UnregisterCascade
<1>5. CASE SubscribeWatch(w) \/ TrackWatch(w)
  BY <1>0, <1>5 DEF SubscribeWatch, TrackWatch
<1>6. CASE SubscribeInsert(w)
  <2>1. req[w].player \in Players BY <1>0, <1>6 DEF SubscribeInsert, PlayerStep, Step
  <2> QED BY <1>0, <1>6, <2>1 DEF SubscribeInsert
<1>7. CASE UnsubscribeDelete(w) \/ UnsubscribeAllDelete(w)
  BY <1>0, <1>7 DEF UnsubscribeDelete, UnsubscribeAllDelete
<1>8. CASE UntrackDelete(w) \/ ClearWatch(w)
  BY <1>0, <1>8 DEF UntrackDelete, ClearWatch, DeleteWatch
<1> QED BY <1>1, <1>2, <1>3, <1>4, <1>5, <1>6, <1>7, <1>8 DEF Advance, RegisterCheck,
        UnregisterCheck, SubscribeLookup, SubscribeUser, SubscribeExisting, SubscribeLimit,
        SubscribeFind, TrackLookup

\* The type invariant of the tables, the program counters and the arguments.
THEOREM TypeCorrect == Spec => []TypeOK
<1>1. Init => TypeOK
  BY DEF Init, TypeOK, NoRequest, Step, PlayerStep, SubscribeStep
<1>2. TypeOK /\ [Next]_vars => TypeOK'
  <2> SUFFICES ASSUME TypeOK, [Next]_vars PROVE TypeOK' OBVIOUS
  <2>1. CASE UNCHANGED vars BY <2>1 DEF vars, TypeOK
  <2>2. CASE Crash BY <2>2 DEF Crash, TypeOK, NoRequest, Step, PlayerStep, SubscribeStep
  <2>3. ASSUME NEW w \in Workers, Arrive(w) PROVE TypeOK'
    BY <2>3, ArriveType
  <2>4. ASSUME NEW w \in Workers, Advance(w) PROVE TypeOK'
    BY <2>4, AdvanceKeepsTables, AdvanceKeepsCalls, TypeParts
  <2> QED BY <2>1, <2>2, <2>3, <2>4 DEF Next
<1> QED BY <1>1, <1>2, PTL DEF Spec

\* Every subscription has its user row and its watch row: the foreign keys'
\* checks and cascades leave no step of any call in between.
THEOREM SubsAlwaysHaveRows == Spec => []SubsHaveRows
<1>1. Init => SubsHaveRows
  BY DEF Init, SubsHaveRows
<1>2. TypeOK /\ SubsHaveRows /\ [Next]_vars => SubsHaveRows'
  <2> SUFFICES ASSUME TypeOK, SubsHaveRows, [Next]_vars PROVE SubsHaveRows' OBVIOUS
  <2> USE DEF SubsHaveRows
  <2>1. CASE UNCHANGED vars BY <2>1 DEF vars
  <2>2. CASE Crash BY <2>2 DEF Crash
  <2>3. ASSUME NEW w \in Workers, Arrive(w) PROVE SubsHaveRows'
    BY <2>3, ArriveType
  <2>4. ASSUME NEW w \in Workers, Advance(w) PROVE SubsHaveRows'
    <3>0. subs \subseteq Players \X Items
      BY DEF TypeOK
    <3>1. CASE RegisterInsert(w) BY <3>0, <3>1 DEF RegisterInsert
    <3>2. CASE UnregisterCascade(w) BY <3>0, <3>2 DEF UnregisterCascade
    <3>3. CASE SubscribeWatch(w) BY <3>0, <3>3 DEF SubscribeWatch
    <3>4. CASE SubscribeInsert(w) BY <3>0, <3>4 DEF SubscribeInsert, InsertAccepted, SubsOf, TypeOK
    <3>5. CASE UnsubscribeDelete(w) BY <3>0, <3>5 DEF UnsubscribeDelete
    <3>6. CASE UnsubscribeAllDelete(w) BY <3>0, <3>6 DEF UnsubscribeAllDelete
    <3>7. CASE TrackWatch(w) BY <3>0, <3>7 DEF TrackWatch
    <3>8. CASE UntrackDelete(w) BY <3>0, <3>8 DEF UntrackDelete, DeleteWatch
    <3>9. CASE ClearWatch(w) BY <3>0, <3>9 DEF ClearWatch, DeleteWatch
    <3>10. CASE \/ RegisterCheck(w) \/ RegisterLog(w) \/ UnregisterCheck(w) \/ SubscribeLookup(w)
              \/ SubscribeUser(w) \/ SubscribeDeny(w) \/ SubscribeExisting(w) \/ SubscribeLimit(w)
              \/ SubscribeFind(w) \/ SubscribeLog(w) \/ UnsubscribeLog(w) \/ TrackLookup(w)
      BY <3>10 DEF RegisterCheck, RegisterLog, UnregisterCheck, SubscribeLookup, SubscribeUser, SubscribeDeny, SubscribeExisting, SubscribeLimit, SubscribeFind, SubscribeLog, UnsubscribeLog, TrackLookup
    <3> QED BY <2>4, <3>1, <3>2, <3>3, <3>4, <3>5, <3>6, <3>7, <3>8, <3>9, <3>10 DEF Advance
  <2> QED BY <2>1, <2>2, <2>3, <2>4 DEF Next
<1> QED BY <1>1, <1>2, TypeCorrect, PTL DEF Spec

-----------------------------------------------------------------------------
(* The overshoot of the limit.  The invariant is on what a player's calls    *)
(* may still add: rows already there and calls past the check together stay  *)
(* below the bound, because a call joins the latter only when the rows alone *)
(* are below MaxSubs, and an insert only moves a call from one to the other. *)

Slots ==
    \A p \in Players :
        Cardinality(SubsOf(p)) + Cardinality(PastLimit(p))
            <= MaxSubs + Cardinality(Workers) - 1

\* The sets the bound counts are finite.
LEMMA CountsAreNaturals ==
    ASSUME NEW p
    PROVE  /\ IsFiniteSet(SubsOf(p)) /\ Cardinality(SubsOf(p)) \in Nat
           /\ IsFiniteSet(PastLimit(p)) /\ Cardinality(PastLimit(p)) \in Nat
           /\ Cardinality(PastLimit(p)) <= Cardinality(Workers)
           /\ Cardinality(Workers) \in Nat \ {0}
<1>1. SubsOf(p) \subseteq Items /\ PastLimit(p) \subseteq Workers
  BY DEF SubsOf, PastLimit
<1>2. Cardinality(Workers) \in Nat \ {0}
  BY RegistryAssumption, FS_CardinalityType, FS_EmptySet
<1> QED BY <1>1, <1>2, RegistryAssumption, FS_Subset, FS_CardinalityType

\* The same for the next state, which PROVE's primes need spelled out.
LEMMA CountsAreNaturalsNext ==
    ASSUME NEW p
    PROVE  /\ IsFiniteSet(SubsOf(p)') /\ Cardinality(SubsOf(p)') \in Nat
           /\ IsFiniteSet(PastLimit(p)') /\ Cardinality(PastLimit(p)') \in Nat
           /\ Cardinality(PastLimit(p)') <= Cardinality(Workers)
<1>1. SubsOf(p)' \subseteq Items /\ PastLimit(p)' \subseteq Workers
  BY DEF SubsOf, PastLimit
<1> QED BY <1>1, RegistryAssumption, FS_Subset, FS_CardinalityType

\* A step that adds neither a row nor a call past the check keeps the bound.
LEMMA SlotsShrink ==
    ASSUME Slots,
           \A p \in Players : /\ SubsOf(p)' \subseteq SubsOf(p)
                              /\ PastLimit(p)' \subseteq PastLimit(p)
    PROVE  Slots'
<1> SUFFICES ASSUME NEW p \in Players
             PROVE  Cardinality(SubsOf(p)') + Cardinality(PastLimit(p)')
                      <= MaxSubs + Cardinality(Workers) - 1
  BY DEF Slots
<1>1. Cardinality(SubsOf(p)') <= Cardinality(SubsOf(p))
  BY CountsAreNaturals, FS_Subset
<1>2. Cardinality(PastLimit(p)') <= Cardinality(PastLimit(p))
  BY CountsAreNaturals, FS_Subset
<1> QED BY <1>1, <1>2, CountsAreNaturals, CountsAreNaturalsNext, RegistryAssumption DEF Slots

\* The limit check lets a call past only when the player's rows are below the
\* limit.
LEMMA SlotsAtCheck ==
    ASSUME TypeOK, Slots, NEW w \in Workers, SubscribeLimit(w)
    PROVE  Slots'
<1> DEFINE p == req[w].player
<1>1. CASE Cardinality(SubsOf(p)) >= MaxSubs
  BY <1>1, SlotsShrink DEF SubscribeLimit, Return, SubsOf, PastLimit, TypeOK, NoRequest
<1>2. CASE ~(Cardinality(SubsOf(p)) >= MaxSubs)
  <2>1. Goto(w, "subFind") /\ UNCHANGED db
    BY <1>2 DEF SubscribeLimit
  <2> SUFFICES ASSUME NEW q \in Players
               PROVE  Cardinality(SubsOf(q)') + Cardinality(PastLimit(q)')
                        <= MaxSubs + Cardinality(Workers) - 1
    BY DEF Slots
  <2>2. SubsOf(q)' = SubsOf(q)
    BY <2>1 DEF SubsOf
  <2>3. CASE q = p
    BY <1>2, <2>2, <2>3, CountsAreNaturals, CountsAreNaturalsNext, RegistryAssumption
  <2>4. CASE q # p
    <3>1. PastLimit(q)' = PastLimit(q)
      BY <2>1, <2>4 DEF PastLimit, Goto, TypeOK
    <3> QED BY <3>1, <2>2 DEF Slots
  <2> QED BY <2>3, <2>4
<1> QED BY <1>1, <1>2

\* An accepted insert turns one call past the check into at most one row.
LEMMA SlotsAtInsert ==
    ASSUME TypeOK, Slots, NEW w \in Workers, SubscribeInsert(w)
    PROVE  Slots'
<1> DEFINE p == req[w].player
<1>1. CASE ~InsertAccepted(w)
  BY <1>1, SlotsShrink DEF SubscribeInsert, Return, SubsOf, PastLimit, TypeOK, NoRequest
<1>2. CASE InsertAccepted(w)
  <2>1. /\ pc[w] = "subInsert"
        /\ Goto(w, "subLog")
        /\ subs' = subs \cup ({p} \X req[w].items)
    BY <1>2 DEF SubscribeInsert
  <2>2. PICK i \in Items : req[w].items = {i}
    BY <2>1 DEF TypeOK, SubscribeStep
  <2> SUFFICES ASSUME NEW q \in Players
               PROVE  Cardinality(SubsOf(q)') + Cardinality(PastLimit(q)')
                        <= MaxSubs + Cardinality(Workers) - 1
    BY DEF Slots
  <2>3. CASE q = p
    <3>1. SubsOf(q)' = SubsOf(q) \cup {i}
      BY <2>1, <2>2, <2>3 DEF SubsOf
    <3>2. Cardinality(SubsOf(q)') <= Cardinality(SubsOf(q)) + 1
      <4>1. IsFiniteSet(SubsOf(q)) /\ Cardinality(SubsOf(q)) \in Nat
        BY CountsAreNaturals
      <4>2. \/ Cardinality(SubsOf(q) \cup {i}) = Cardinality(SubsOf(q))
            \/ Cardinality(SubsOf(q) \cup {i}) = Cardinality(SubsOf(q)) + 1
        BY <4>1, FS_AddElement
      <4> QED BY <3>1, <4>1, <4>2
    <3>3. w \in PastLimit(q) /\ PastLimit(q)' = PastLimit(q) \ {w}
      BY <2>1, <2>3 DEF PastLimit, Goto, TypeOK
    <3>4. Cardinality(PastLimit(q)') = Cardinality(PastLimit(q)) - 1
      <4>1. IsFiniteSet(PastLimit(q)) BY CountsAreNaturals
      <4>2. Cardinality(PastLimit(q) \ {w}) = Cardinality(PastLimit(q)) - 1
        BY <3>3, <4>1, FS_RemoveElement
      <4> QED BY <3>3, <4>2
    <3> QED BY <3>2, <3>4, CountsAreNaturals, CountsAreNaturalsNext, RegistryAssumption DEF Slots
  <2>4. CASE q # p
    <3>1. SubsOf(q)' = SubsOf(q)
      BY <2>1, <2>4 DEF SubsOf
    <3>2. PastLimit(q)' = PastLimit(q)
      BY <2>1, <2>4 DEF PastLimit, Goto, TypeOK
    <3> QED BY <3>1, <3>2 DEF Slots
  <2> QED BY <2>3, <2>4
<1> QED BY <1>1, <1>2

\* Rows and calls past the check stay within the bound together.
LEMMA SlotsInvariant == Spec => []Slots
<1>1. Init => Slots
  <2> SUFFICES ASSUME Init, NEW p \in Players
               PROVE  Cardinality(SubsOf(p)) + Cardinality(PastLimit(p))
                        <= MaxSubs + Cardinality(Workers) - 1
    BY DEF Slots
  <2>1. SubsOf(p) = {} /\ PastLimit(p) = {}
    BY DEF Init, SubsOf, PastLimit
  <2> QED BY <2>1, FS_EmptySet, CountsAreNaturals, RegistryAssumption
<1>2. TypeOK /\ Slots /\ [Next]_vars => Slots'
  <2> SUFFICES ASSUME TypeOK, Slots, [Next]_vars PROVE Slots' OBVIOUS
  <2> USE DEF SubsOf, PastLimit
  <2>1. CASE UNCHANGED vars BY <2>1, SlotsShrink DEF vars
  <2>2. CASE Crash BY <2>2, SlotsShrink DEF Crash
  <2>3. ASSUME NEW w \in Workers, Arrive(w) PROVE Slots'
    <3>1. /\ UNCHANGED db
          /\ \A v \in Workers \ {w} : pc'[v] = pc[v] /\ req'[v] = req[v]
          /\ pc'[w] \notin {"subFind", "subWatch", "subWatchNew", "subInsert"}
      BY <2>3, ArriveType DEF TypeOK
    <3> QED BY <3>1, SlotsShrink
  <2>4. ASSUME NEW w \in Workers, Advance(w) PROVE Slots'
    <3> USE DEF TypeOK, Goto, Return, NoRequest
    <3>1. CASE RegisterCheck(w) BY <3>1, SlotsShrink DEF RegisterCheck
    <3>2. CASE RegisterInsert(w) BY <3>2, SlotsShrink DEF RegisterInsert
    <3>3. CASE RegisterLog(w) BY <3>3, SlotsShrink DEF RegisterLog
    <3>4. CASE UnregisterCheck(w) BY <3>4, SlotsShrink DEF UnregisterCheck
    <3>5. CASE UnregisterCascade(w) BY <3>5, SlotsShrink DEF UnregisterCascade
    <3>6. CASE SubscribeLookup(w) BY <3>6, SlotsShrink DEF SubscribeLookup
    <3>7. CASE SubscribeUser(w) BY <3>7, SlotsShrink DEF SubscribeUser
    <3>8. CASE SubscribeDeny(w) BY <3>8, SlotsShrink DEF SubscribeDeny
    <3>9. CASE SubscribeExisting(w) BY <3>9, SlotsShrink DEF SubscribeExisting
    <3>10. CASE SubscribeLimit(w) BY <3>10, SlotsAtCheck
    <3>11. CASE SubscribeFind(w) BY <3>11, SlotsShrink DEF SubscribeFind
    <3>12. CASE SubscribeWatch(w) BY <3>12, SlotsShrink DEF SubscribeWatch
    <3>13. CASE SubscribeInsert(w) BY <3>13, SlotsAtInsert
    <3>14. CASE SubscribeLog(w) BY <3>14, SlotsShrink DEF SubscribeLog
    <3>15. CASE UnsubscribeDelete(w) BY <3>15, SlotsShrink DEF UnsubscribeDelete
    <3>16. CASE UnsubscribeLog(w) BY <3>16, SlotsShrink DEF UnsubscribeLog
    <3>17. CASE UnsubscribeAllDelete(w) BY <3>17, SlotsShrink DEF UnsubscribeAllDelete
    <3>18. CASE TrackLookup(w) BY <3>18, SlotsShrink DEF TrackLookup
    <3>19. CASE TrackWatch(w) BY <3>19, SlotsShrink DEF TrackWatch
    <3>20. CASE UntrackDelete(w) BY <3>20, SlotsShrink DEF UntrackDelete, DeleteWatch
    <3>21. CASE ClearWatch(w) BY <3>21, SlotsShrink DEF ClearWatch, DeleteWatch
    <3> QED BY <2>4, <3>1, <3>2, <3>3, <3>4, <3>5, <3>6, <3>7, <3>8, <3>9, <3>10, <3>11,
            <3>12, <3>13, <3>14, <3>15, <3>16, <3>17, <3>18, <3>19, <3>20, <3>21 DEF Advance
  <2> QED BY <2>1, <2>2, <2>3, <2>4 DEF Next
<1> QED BY <1>1, <1>2, TypeCorrect, PTL DEF Spec

\* With W calls in progress at once a player ends with at most MaxSubs + W - 1
\* subscriptions; with one call at a time the limit is exact.
THEOREM OvershootBounded == Spec => []LimitOvershoot
<1>1. Slots => LimitOvershoot
  <2> SUFFICES ASSUME Slots, NEW p \in Players
               PROVE  Cardinality(SubsOf(p)) <= MaxSubs + Cardinality(Workers) - 1
    BY DEF LimitOvershoot
  <2> QED BY CountsAreNaturals, RegistryAssumption DEF Slots
<1> QED BY <1>1, SlotsInvariant, PTL

-----------------------------------------------------------------------------
\* A registered player's ledger is never empty, except while the call that
\* registered it is at its logging step, or after a crash has ended it there.
THEOREM MembersStayLedgered == Spec => []MembersAreLedgered
<1>1. Init => MembersAreLedgered
  BY DEF Init, MembersAreLedgered
<1>2. TypeOK /\ MembersAreLedgered /\ [Next]_vars => MembersAreLedgered'
  <2> SUFFICES ASSUME TypeOK, MembersAreLedgered, [Next]_vars,
                      NEW p \in users', p \notin ledger'
               PROVE  \/ p \in cut'
                      \/ \E w \in Workers : pc'[w] = "regLog" /\ req'[w].player = p
    BY DEF MembersAreLedgered
  <2> USE DEF MembersAreLedgered
  <2>1. CASE UNCHANGED vars BY <2>1 DEF vars
  <2>2. CASE Crash BY <2>2 DEF Crash
  <2>3. ASSUME NEW w \in Workers, Arrive(w)
        PROVE  \/ p \in cut'
               \/ \E v \in Workers : pc'[v] = "regLog" /\ req'[v].player = p
    <3> SUFFICES ASSUME p \notin cut
                 PROVE  \E v \in Workers : pc'[v] = "regLog" /\ req'[v].player = p
      BY <2>3, ArriveType
    <3>1. PICK v \in Workers : pc[v] = "regLog" /\ req[v].player = p
      BY <2>3, ArriveType
    <3>2. v # w /\ pc'[v] = pc[v] /\ req'[v] = req[v]
      BY <2>3, <3>1, ArriveType DEF TypeOK
    <3> QED BY <3>1, <3>2
  <2>4. ASSUME NEW w \in Workers, Advance(w)
        PROVE  \/ p \in cut'
               \/ \E v \in Workers : pc'[v] = "regLog" /\ req'[v].player = p
    <3> USE DEF TypeOK, Goto, Return, NoRequest
    <3>1. CASE RegisterCheck(w) BY <3>1 DEF RegisterCheck
    <3>2. CASE RegisterInsert(w) BY <3>2 DEF RegisterInsert
    <3>3. CASE RegisterLog(w) BY <3>3 DEF RegisterLog, LogAction
    <3>4. CASE UnregisterCheck(w) BY <3>4 DEF UnregisterCheck
    <3>5. CASE UnregisterCascade(w) BY <3>5 DEF UnregisterCascade
    <3>6. CASE SubscribeLookup(w) BY <3>6 DEF SubscribeLookup
    <3>7. CASE SubscribeUser(w) BY <3>7 DEF SubscribeUser
    <3>8. CASE SubscribeDeny(w) BY <3>8 DEF SubscribeDeny, LogAction
    <3>9. CASE SubscribeExisting(w) BY <3>9 DEF SubscribeExisting
    <3>10. CASE SubscribeLimit(w) BY <3>10 DEF SubscribeLimit
    <3>11. CASE SubscribeFind(w) BY <3>11 DEF SubscribeFind
    <3>12. CASE SubscribeWatch(w) BY <3>12 DEF SubscribeWatch
    <3>13. CASE SubscribeInsert(w) BY <3>13 DEF SubscribeInsert, InsertAccepted
    <3>14. CASE SubscribeLog(w) BY <3>14 DEF SubscribeLog, LogAction
    <3>15. CASE UnsubscribeDelete(w) BY <3>15 DEF UnsubscribeDelete
    <3>16. CASE UnsubscribeLog(w) BY <3>16 DEF UnsubscribeLog, LogAction
    <3>17. CASE UnsubscribeAllDelete(w) BY <3>17 DEF UnsubscribeAllDelete
    <3>18. CASE TrackLookup(w) BY <3>18 DEF TrackLookup
    <3>19. CASE TrackWatch(w) BY <3>19 DEF TrackWatch
    <3>20. CASE UntrackDelete(w) BY <3>20 DEF UntrackDelete, DeleteWatch
    <3>21. CASE ClearWatch(w) BY <3>21 DEF ClearWatch, DeleteWatch
    <3> QED BY <2>4, <3>1, <3>2, <3>3, <3>4, <3>5, <3>6, <3>7, <3>8, <3>9, <3>10, <3>11,
            <3>12, <3>13, <3>14, <3>15, <3>16, <3>17, <3>18, <3>19, <3>20, <3>21 DEF Advance
  <2> QED BY <2>1, <2>2, <2>3, <2>4 DEF Next
<1> QED BY <1>1, <1>2, TypeCorrect, PTL DEF Spec

-----------------------------------------------------------------------------
\* Only its own player's unwatch or unregister, or the deletion of its item's
\* row, ends a subscription.
THEOREM OnlyOwnersEndSubscriptions == Spec => SubscriptionsEndByOwner
<1> DEFINE Owned == \A s \in subs \ subs' :
                      s[2] \notin watch' \/ \E w \in Workers : EndsSubscription(w, s)
<1>1. TypeOK /\ [Next]_vars => Owned
  <2> SUFFICES ASSUME TypeOK, [Next]_vars, NEW s \in subs \ subs'
               PROVE  s[2] \notin watch' \/ \E w \in Workers : EndsSubscription(w, s)
    OBVIOUS
  <2>0. PICK p \in Players, i \in Items : s = <<p, i>>
    BY DEF TypeOK
  <2>1. CASE UNCHANGED vars BY <2>1 DEF vars
  <2>2. CASE Crash BY <2>2 DEF Crash
  <2>3. ASSUME NEW w \in Workers, Arrive(w) PROVE FALSE
    BY <2>3, ArriveType
  <2>4. ASSUME NEW w \in Workers, Advance(w)
        PROVE  s[2] \notin watch' \/ EndsSubscription(w, s)
    <3> USE DEF TypeOK, Goto, Return, EndsSubscription
    <3>1. CASE UnregisterCascade(w) BY <2>0, <3>1 DEF UnregisterCascade
    <3>2. CASE SubscribeInsert(w) BY <2>0, <3>2 DEF SubscribeInsert
    <3>3. CASE UnsubscribeDelete(w) BY <2>0, <3>3 DEF UnsubscribeDelete
    <3>4. CASE UnsubscribeAllDelete(w) BY <2>0, <3>4 DEF UnsubscribeAllDelete
    <3>5. CASE UntrackDelete(w) BY <2>0, <3>5 DEF UntrackDelete, DeleteWatch
    <3>6. CASE ClearWatch(w) BY <2>0, <3>6 DEF ClearWatch, DeleteWatch
    <3>7. CASE \/ RegisterCheck(w) \/ RegisterInsert(w) \/ RegisterLog(w)
              \/ UnregisterCheck(w) \/ SubscribeLookup(w) \/ SubscribeUser(w)
              \/ SubscribeDeny(w) \/ SubscribeExisting(w) \/ SubscribeLimit(w)
              \/ SubscribeFind(w) \/ SubscribeWatch(w) \/ SubscribeLog(w)
              \/ UnsubscribeLog(w) \/ TrackLookup(w) \/ TrackWatch(w)
      BY <3>7 DEF RegisterCheck, RegisterInsert, RegisterLog, UnregisterCheck, SubscribeLookup, SubscribeUser, SubscribeDeny, SubscribeExisting, SubscribeLimit, SubscribeFind, SubscribeWatch, SubscribeLog, UnsubscribeLog, TrackLookup, TrackWatch
    <3> QED BY <2>4, <3>1, <3>2, <3>3, <3>4, <3>5, <3>6, <3>7 DEF Advance
  <2> QED BY <2>1, <2>2, <2>3, <2>4 DEF Next
<1> QED BY <1>1, TypeCorrect, PTL DEF Spec, SubscriptionsEndByOwner

-----------------------------------------------------------------------------
(* Calls made one at a time.  What each check established still holds at the *)
(* later steps of the same call, there being no other call to undo it.       *)

StillChecked(w) ==
    LET p == req[w].player IN
    /\ pc[w] = "regInsert" => p \notin users
    /\ pc[w] \in {"subExisting", "subLimit", "subFind", "subWatch", "subWatchNew", "subInsert"}
         => p \in users
    /\ pc[w] \in {"subLimit", "subFind", "subWatch", "subWatchNew", "subInsert"}
         => req[w].items \cap SubsOf(p) = {}
    /\ pc[w] = "subInsert" => req[w].items \subseteq watch

\* Calls made one at a time never reach a statement the schema refuses.
THEOREM SerialCallsSafe == Spec => []SerialCallsMeetNoConstraint
<1> SUFFICES ASSUME NEW v, Workers = {v} PROVE Spec => []StillChecked(v)
  <2>1. ASSUME NEW v, Workers = {v} PROVE StillChecked(v) => SerialCallsMeetNoConstraint
    BY <2>1 DEF StillChecked, SerialCallsMeetNoConstraint, Safe, InsertAccepted
  <2>2. ASSUME NEW v, Workers = {v} PROVE Spec => []SerialCallsMeetNoConstraint
    <3>1. Spec => []StillChecked(v) BY <2>2
    <3>2. StillChecked(v) => SerialCallsMeetNoConstraint BY <2>1, <2>2
    <3> QED BY <3>1, <3>2, PTL
  <2>3. CASE Cardinality(Workers) = 1
    <3>1. PICK v : Workers = {v}
      BY <2>3, RegistryAssumption, FS_Singleton
    <3> QED BY <2>2, <3>1
  <2>4. CASE Cardinality(Workers) # 1
    <3>1. SerialCallsMeetNoConstraint BY <2>4 DEF SerialCallsMeetNoConstraint
    <3> QED BY <3>1, PTL
  <2> QED BY <2>3, <2>4
<1>1. Init => StillChecked(v)
  BY DEF Init, StillChecked
<1>2. TypeOK /\ StillChecked(v) /\ [Next]_vars => StillChecked(v)'
  <2> SUFFICES ASSUME TypeOK, StillChecked(v), [Next]_vars PROVE StillChecked(v)'
    OBVIOUS
  <2> USE DEF StillChecked, SubsOf
  <2>1. CASE UNCHANGED vars BY <2>1 DEF vars
  <2>2. CASE Crash BY <2>2 DEF Crash
  <2>3. CASE Arrive(v) BY <2>3, ArriveType DEF TypeOK
  <2>4. CASE Advance(v)
    <3> USE DEF TypeOK, Goto, Return, NoRequest
    <3>1. CASE RegisterCheck(v) BY <3>1 DEF RegisterCheck
    <3>2. CASE RegisterInsert(v) BY <3>2 DEF RegisterInsert
    <3>3. CASE RegisterLog(v) BY <3>3 DEF RegisterLog, LogAction
    <3>4. CASE UnregisterCheck(v) BY <3>4 DEF UnregisterCheck
    <3>5. CASE UnregisterCascade(v) BY <3>5 DEF UnregisterCascade
    <3>6. CASE SubscribeLookup(v) BY <3>6 DEF SubscribeLookup
    <3>7. CASE SubscribeUser(v) BY <3>7 DEF SubscribeUser
    <3>8. CASE SubscribeDeny(v) BY <3>8 DEF SubscribeDeny, LogAction
    <3>9. CASE SubscribeExisting(v) BY <3>9 DEF SubscribeExisting
    <3>10. CASE SubscribeLimit(v) BY <3>10 DEF SubscribeLimit
    <3>11. CASE SubscribeFind(v) BY <3>11 DEF SubscribeFind
    <3>12. CASE SubscribeWatch(v) BY <3>12 DEF SubscribeWatch
    <3>13. CASE SubscribeInsert(v) BY <3>13 DEF SubscribeInsert, InsertAccepted
    <3>14. CASE SubscribeLog(v) BY <3>14 DEF SubscribeLog, LogAction
    <3>15. CASE UnsubscribeDelete(v) BY <3>15 DEF UnsubscribeDelete
    <3>16. CASE UnsubscribeLog(v) BY <3>16 DEF UnsubscribeLog, LogAction
    <3>17. CASE UnsubscribeAllDelete(v) BY <3>17 DEF UnsubscribeAllDelete
    <3>18. CASE TrackLookup(v) BY <3>18 DEF TrackLookup
    <3>19. CASE TrackWatch(v) BY <3>19 DEF TrackWatch
    <3>20. CASE UntrackDelete(v) BY <3>20 DEF UntrackDelete, DeleteWatch
    <3>21. CASE ClearWatch(v) BY <3>21 DEF ClearWatch, DeleteWatch
    <3> QED BY <2>4, <3>1, <3>2, <3>3, <3>4, <3>5, <3>6, <3>7, <3>8, <3>9, <3>10, <3>11,
            <3>12, <3>13, <3>14, <3>15, <3>16, <3>17, <3>18, <3>19, <3>20, <3>21 DEF Advance
  <2> QED BY <2>1, <2>2, <2>3, <2>4 DEF Next
<1> QED BY <1>1, <1>2, TypeCorrect, PTL DEF Spec
-----------------------------------------------------------------------------
(* Registry implements WatchSpec: each step of a call is one of its steps   *)
(* or none.                                                                 *)

\* A change of one player's rows is a change of one value of the function that
\* WatchSpec has for them.
LEMMA OnePlayerChanges ==
    ASSUME NEW p \in Players, NEW S, SubsOf(p)' = S,
           \A q \in Players : q # p => SubsOf(q)' = SubsOf(q)
    PROVE  [q \in Players |-> SubsOf(q)'] = [[q \in Players |-> SubsOf(q)] EXCEPT ![p] = S]
OBVIOUS

\* A cascade of a player's row, and the deletions of one or all of the player's rows.
LEMMA DeletionsOfAPlayer ==
    ASSUME TypeOK, NEW w \in Workers,
           UnregisterCascade(w) \/ UnsubscribeDelete(w) \/ UnsubscribeAllDelete(w)
    PROVE  \E p \in Players : Watching!Leave(p) \/ Watching!Unwatch(p)
<1>1. PICK p \in Players : p = req[w].player
  BY DEF UnregisterCascade, UnsubscribeDelete, UnsubscribeAllDelete, TypeOK, PlayerStep, Step
<1>2. CASE UnregisterCascade(w)
  <2>1. /\ users' = users \ {p} /\ watch' = watch /\ subs' = {s \in subs : s[1] # p}
    BY <1>1, <1>2 DEF UnregisterCascade
  <2>2. SubsOf(p)' = {} /\ \A q \in Players : q # p => SubsOf(q)' = SubsOf(q)
    BY <2>1 DEF SubsOf
  <2> QED BY <2>1, <2>2, OnePlayerChanges DEF Watching!Leave
<1>3. CASE UnsubscribeDelete(w)
  <2>1. PICK i \in Items : subs' = subs \ {<<p, i>>} /\ UNCHANGED <<users, watch>>
    BY <1>1, <1>3 DEF UnsubscribeDelete, TypeOK
  <2>2. SubsOf(p)' = SubsOf(p) \ {i} /\ \A q \in Players : q # p => SubsOf(q)' = SubsOf(q)
    BY <2>1 DEF SubsOf
  <2> QED BY <2>1, <2>2, OnePlayerChanges DEF Watching!Unwatch
<1>4. CASE UnsubscribeAllDelete(w)
  <2>1. subs' = {s \in subs : s[1] # p} /\ UNCHANGED <<users, watch>>
    BY <1>1, <1>4 DEF UnsubscribeAllDelete
  <2>2. SubsOf(p)' = {} /\ \A q \in Players : q # p => SubsOf(q)' = SubsOf(q)
    BY <2>1 DEF SubsOf
  <2> QED BY <2>1, <2>2, OnePlayerChanges DEF Watching!Unwatch
<1> QED BY <1>2, <1>3, <1>4

\* Deleting rows of items ends what is watched of them, for every player.
LEMMA DeletionsOfItems ==
    ASSUME TypeOK, NEW w \in Workers, UntrackDelete(w) \/ ClearWatch(w)
    PROVE  \E is \in SUBSET Items : Watching!Untrack(is)
<1>1. PICK is \in SUBSET Items : DeleteWatch(is) /\ UNCHANGED users
  BY DEF UntrackDelete, ClearWatch, TypeOK
<1>2. ASSUME NEW p \in Players PROVE SubsOf(p)' = SubsOf(p) \ is
  BY <1>1 DEF DeleteWatch, SubsOf
<1> QED BY <1>1, <1>2 DEF DeleteWatch, Watching!Untrack

\* A call that has passed the check and not yet inserted holds a place: with one more
\* row the player has no more than the bound.
LEMMA RoomForARow ==
    ASSUME Slots, NEW p \in Players, NEW w \in PastLimit(p), NEW i \in Items
    PROVE  SubsOf(p) \cup {i}
             \in {is \in SUBSET Items : Cardinality(is) <= MaxSubs + Cardinality(Workers) - 1}
<1>1. Cardinality(PastLimit(p)) # 0 BY CountsAreNaturals, FS_EmptySet
<1>2. /\ Cardinality(SubsOf(p) \cup {i}) <= Cardinality(SubsOf(p)) + 1
      /\ Cardinality(SubsOf(p) \cup {i}) \in Nat
  <2>1. IsFiniteSet(SubsOf(p)) /\ Cardinality(SubsOf(p)) \in Nat BY CountsAreNaturals
  <2>2. IsFiniteSet(SubsOf(p) \cup {i}) BY <2>1, FS_AddElement
  <2>3. Cardinality(SubsOf(p) \cup {i}) \in Nat BY <2>2, FS_CardinalityType
  <2>4. \/ Cardinality(SubsOf(p) \cup {i}) = Cardinality(SubsOf(p))
        \/ Cardinality(SubsOf(p) \cup {i}) = Cardinality(SubsOf(p)) + 1
    BY <2>1, FS_AddElement
  <2> QED BY <2>1, <2>3, <2>4
<1>3. Cardinality(SubsOf(p)) + 1 <= MaxSubs + Cardinality(Workers) - 1
  BY <1>1, CountsAreNaturals, RegistryAssumption DEF Slots
<1>4. Cardinality(SubsOf(p)) \in Nat /\ Cardinality(Workers) \in Nat /\ MaxSubs \in Nat
  BY CountsAreNaturals, RegistryAssumption, FS_CardinalityType
<1>5. SubsOf(p) \cup {i} \subseteq Items BY DEF SubsOf
<1> QED BY <1>2, <1>3, <1>4, <1>5

\* What the constraints accept is a watch of an item by a member with room for it.
LEMMA InsertWatches ==
    ASSUME TypeOK, Slots, NEW w \in Workers, SubscribeInsert(w), InsertAccepted(w)
    PROVE  \E p \in Players, i \in Items : Watching!Watch(p, i)
<1>1. PICK p \in Players : p = req[w].player
  BY DEF SubscribeInsert, TypeOK, PlayerStep, Step
<1>2. PICK i \in Items : req[w].items = {i}
  BY DEF SubscribeInsert, TypeOK, SubscribeStep
<1>3. /\ pc[w] = "subInsert" /\ subs' = subs \cup {<<p, i>>} /\ UNCHANGED <<users, watch>>
      /\ p \in users /\ i \in watch /\ i \notin SubsOf(p)
  BY <1>1, <1>2 DEF SubscribeInsert, InsertAccepted
<1>4. SubsOf(p)' = SubsOf(p) \cup {i} /\ \A q \in Players : q # p => SubsOf(q)' = SubsOf(q)
  BY <1>3 DEF SubsOf
<1>5. w \in PastLimit(p) BY <1>1, <1>3 DEF PastLimit
<1>6. SubsOf(p) \cup {i}
        \in {is \in SUBSET Items : Cardinality(is) <= MaxSubs + Cardinality(Workers) - 1}
  BY <1>5, RoomForARow
<1> QED BY <1>3, <1>4, <1>6, OnePlayerChanges DEF Watching!Watch

\* Whatever calls overlap and wherever they are cut short, what the rows show is a
\* history of joining, leaving, watching and tracking in one step each.
THEOREM WatchingImplemented == Spec => ImplementsWatching
<1>1. Init => Watching!Init
  BY DEF Init, Watching!Init, SubsOf
<1>2. TypeOK /\ Slots /\ [Next]_vars => [Watching!Next]_(Watching!wvars)
  <2> SUFFICES ASSUME TypeOK, Slots, [Next]_vars
               PROVE  Watching!Next \/ UNCHANGED Watching!wvars
    OBVIOUS
  <2>1. CASE UNCHANGED <<users, watch, subs>>
    BY <2>1 DEF Watching!wvars, SubsOf
  <2>2. ASSUME NEW w \in Workers, RegisterInsert(w), users' # users PROVE Watching!Next
    <3>1. PICK p \in Players : p = req[w].player
      BY <2>2 DEF RegisterInsert, TypeOK, PlayerStep, Step
    <3>2. p \notin users /\ users' = users \cup {p} /\ UNCHANGED <<watch, subs>>
      BY <2>2, <3>1 DEF RegisterInsert
    <3>3. [q \in Players |-> SubsOf(q)'] = [q \in Players |-> SubsOf(q)] BY <3>2 DEF SubsOf
    <3>4. Watching!Join(p) BY <3>2, <3>3 DEF Watching!Join
    <3> QED BY <3>4 DEF Watching!Next
  <2>3. ASSUME NEW w \in Workers,
               UnregisterCascade(w) \/ UnsubscribeDelete(w) \/ UnsubscribeAllDelete(w)
        PROVE  Watching!Next
    BY <2>3, DeletionsOfAPlayer DEF Watching!Next
  <2>4. ASSUME NEW w \in Workers, SubscribeWatch(w) \/ TrackWatch(w) PROVE Watching!Next
    <3>1. PICK is \in SUBSET Items : watch' = watch \cup is /\ UNCHANGED <<users, subs>>
      BY <2>4 DEF SubscribeWatch, TrackWatch, TypeOK
    <3>2. [q \in Players |-> SubsOf(q)'] = [q \in Players |-> SubsOf(q)] BY <3>1 DEF SubsOf
    <3>3. Watching!Track(is) BY <3>1, <3>2 DEF Watching!Track
    <3> QED BY <3>3 DEF Watching!Next
  <2>5. ASSUME NEW w \in Workers, UntrackDelete(w) \/ ClearWatch(w) PROVE Watching!Next
    BY <2>5, DeletionsOfItems DEF Watching!Next
  <2>6. ASSUME NEW w \in Workers, SubscribeInsert(w), subs' # subs PROVE Watching!Next
    <3>1. InsertAccepted(w) BY <2>6 DEF SubscribeInsert
    <3> QED BY <2>6, <3>1, InsertWatches DEF Watching!Next
  <2>7. ASSUME NEW w \in Workers, Arrive(w) PROVE UNCHANGED <<users, watch, subs>>
    BY <2>7, ArriveType
  <2>8. ASSUME NEW w \in Workers, Advance(w), ~UNCHANGED <<users, watch, subs>>
        PROVE  Watching!Next
    <3>1. \/ UnregisterCascade(w) \/ UnsubscribeDelete(w) \/ UnsubscribeAllDelete(w)
          \/ SubscribeWatch(w) \/ TrackWatch(w) \/ UntrackDelete(w) \/ ClearWatch(w)
          \/ RegisterInsert(w) /\ users' # users
          \/ SubscribeInsert(w) /\ subs' # subs
      BY <2>8 DEF Advance, RegisterCheck, RegisterInsert, RegisterLog, UnregisterCheck, LogAction,
         SubscribeLookup, SubscribeUser, SubscribeDeny, SubscribeExisting, SubscribeLimit,
         SubscribeFind, SubscribeInsert, SubscribeLog, UnsubscribeLog, TrackLookup
    <3> QED BY <2>2, <2>3, <2>4, <2>5, <2>6, <3>1
  <2> QED BY <2>1, <2>7, <2>8 DEF Next, Crash, vars
<1> QED BY <1>1, <1>2, TypeCorrect, SlotsInvariant, PTL
        DEF Spec, ImplementsWatching, Watching!Spec
=============================================================================
