--------------------------- MODULE FiltersProofs ---------------------------
(***************************************************************************)
(* Theorems about Filters for any players, items, workers and editors, any  *)
(* set of typed specs and any largest stored number.                        *)
(***************************************************************************)
EXTENDS Filters, TLAPS

\* The filter calls are what Registry leaves alone.
LEMMA FilterStepsAreRegistrySteps ==
    ASSUME [FilterNext]_fvars
    PROVE  [Next]_vars
<1>1. CASE UNCHANGED fvars BY <1>1 DEF fvars
<1>2. CASE Crash BY <1>2 DEF Next
<1>3. ASSUME NEW w \in Workers, Arrive(w) \/ Advance(w) PROVE [Next]_vars BY <1>3 DEF Next
<1>4. ASSUME NEW e \in Editors, Edit(e) PROVE [Next]_vars
  BY <1>4 DEF Edit, SetFilter, ClearFilter, Begin, CheckEdit, WriteEdit
<1> QED BY <1>1, <1>2, <1>3, <1>4 DEF FilterNext

\* Registration, subscription and tracking behave as Registry says while filters are
\* edited: what is proved of Registry holds of the whole.
THEOREM FiltersImplementRegistry == FilterSpec => Spec
<1>1. FilterInit => Init BY DEF FilterInit
<1>2. [FilterNext]_fvars => [Next]_vars BY FilterStepsAreRegistrySteps
<1> QED BY <1>1, <1>2, PTL DEF FilterSpec, Spec

-----------------------------------------------------------------------------
\* A range that some number lies in, and the columns of a row.
GoodRanges == {r \in Ranges : Denotes(r) # {}}
Columns == [price : GoodRanges, ql : GoodRanges]

EditsOK ==
    /\ edit \in [Editors -> EditState]
    /\ \A e \in Editors : edit[e].pc # "idle" => edit[e].todo # {}

FiltersOK == filter \in [subs -> Columns]

FilterInv == EditsOK /\ FiltersOK

\* What parse_range accepts and the column can hold is a range with a number in it:
\* a minimum above the maximum and two empty sides are refused.
LEMMA ParsedIsGood ==
    \A half, spec : ParseRange(half, spec) \in Ranges => ParseRange(half, spec) \in GoodRanges
<1> SUFFICES ASSUME NEW half, NEW spec, ParseRange(half, spec) \in Ranges
             PROVE  Denotes(ParseRange(half, spec)) # {}
  BY DEF GoodRanges
<1> DEFINE min == ParseSide(half, spec[1])
           max == ParseSide(half, spec[2])
<1>1. /\ ParseRange(half, spec) = [min |-> min, max |-> max]
      /\ {min, max} # {None}
      /\ None \in {min, max} \/ ~(min > max)
  BY FiltersAssumption DEF ParseRange
<1> HIDE DEF min, max
<1>2. min \in Stored /\ max \in Stored BY <1>1 DEF Ranges
<1>3. CASE min # None
  <2>1. min \in Denotes([min |-> min, max |-> max])
    BY <1>1, <1>2, <1>3, FiltersAssumption DEF Denotes, Stored
  <2> QED BY <1>1, <2>1
<1>4. CASE min = None
  <2>1. max \in Denotes([min |-> min, max |-> max])
    BY <1>1, <1>2, <1>4, FiltersAssumption DEF Denotes, Stored
  <2> QED BY <1>1, <2>1
<1> QED BY <1>3, <1>4

\* Everything passes a row that has no filter.
LEMMA NoFilterIsGood == NoFilter \in Columns
<1>1. 0 \in Denotes(NoRange) /\ NoRange \in Ranges
  BY FiltersAssumption DEF Denotes, NoRange, Ranges, Stored
<1> QED BY <1>1 DEF GoodRanges, Columns, NoFilter

\* What a PUT or a command writes next is one of the halves it was asked for.
LEMMA PartIsToDo ==
    ASSUME EditsOK, NEW e \in Editors, edit[e].pc = "write"
    PROVE  Part(e) \in edit[e].todo /\ Part(e) \in {"price", "ql", "clear"}
<1>1. edit[e].todo # {} /\ edit[e].todo \subseteq {"price", "ql", "clear"}
  BY DEF EditsOK, EditState, Halves
<1> QED BY <1>1 DEF Part

\* A write puts a good range in one column, or clears the row.
LEMMA WriteKeepsColumns ==
    ASSUME FilterInv, NEW e \in Editors, WriteEdit(e)
    PROVE  FiltersOK'
<1>1. subs' = subs BY DEF WriteEdit, vars
<1>2. ASSUME NEW s \in subs, s \in RowsToUpdate(e), Storable(e), Part(e) # "clear"
      PROVE  [filter[s] EXCEPT ![Part(e)] = Parsed(e)] \in Columns
  <2>1. Parsed(e) \in GoodRanges BY <1>2, ParsedIsGood DEF Storable, Parsed
  <2>2. Part(e) \in {"price", "ql"} BY <1>2, PartIsToDo DEF FilterInv, WriteEdit
  <2>3. filter[s] \in Columns BY DEF FilterInv, FiltersOK
  <2>4. CASE Part(e) = "price" BY <2>1, <2>3, <2>4 DEF Columns
  <2>5. CASE Part(e) = "ql" BY <2>1, <2>3, <2>5 DEF Columns
  <2> QED BY <2>2, <2>4, <2>5
<1>3. \A s \in subs :
        (IF s \notin RowsToUpdate(e) \/ ~Storable(e) THEN filter[s]
         ELSE IF Part(e) = "clear" THEN NoFilter
         ELSE [filter[s] EXCEPT ![Part(e)] = Parsed(e)]) \in Columns
  BY <1>2, NoFilterIsGood DEF FilterInv, FiltersOK
<1> QED BY <1>1, <1>3 DEF WriteEdit, FiltersOK

\* Every step of an edit leaves it well typed, with something to do until it ends.
LEMMA EditKeepsEdits ==
    ASSUME EditsOK, NEW e \in Editors, Edit(e)
    PROVE  EditsOK'
<1>0. NoEdit \in EditState /\ NoEdit.pc = "idle" BY DEF NoEdit, EditState
<1>1. ASSUME NEW r, r \in EditState, r.pc # "idle" => r.todo # {}, edit' = [edit EXCEPT ![e] = r]
      PROVE  EditsOK'
  BY <1>1 DEF EditsOK
<1>2. ASSUME NEW p \in Players, NEW i \in Items, NEW todo \in SUBSET (Halves \cup {"clear"}), todo # {},
             NEW spec \in [Halves -> Specs \cup {None}], Begin(e, p, i, todo, spec)
      PROVE  EditsOK'
  <2>1. [pc |-> "check", player |-> p, items |-> {i}, todo |-> todo, spec |-> spec] \in EditState
    BY DEF EditState
  <2> QED BY <1>1, <1>2, <2>1 DEF Begin
<1>3. CASE SetFilter(e) BY <1>2, <1>3 DEF SetFilter
<1>4. CASE ClearFilter(e)
  <2>1. [h \in Halves |-> None] \in [Halves -> Specs \cup {None}] OBVIOUS
  <2> QED BY <1>2, <1>4, <2>1 DEF ClearFilter
<1>5. CASE CheckEdit(e)
  <2>1. edit[e] \in EditState /\ edit[e].todo # {} BY <1>5 DEF CheckEdit, EditsOK
  <2>2. /\ [edit[e] EXCEPT !.pc = "write"] \in EditState
        /\ [edit[e] EXCEPT !.pc = "write"].todo # {}
    BY <2>1 DEF EditState
  <2>3. \/ edit' = [edit EXCEPT ![e] = NoEdit]
        \/ edit' = [edit EXCEPT ![e] = [edit[e] EXCEPT !.pc = "write"]]
    BY <1>5 DEF CheckEdit
  <2> QED BY <1>0, <1>1, <2>2, <2>3
<1>6. CASE WriteEdit(e)
  <2> DEFINE todo == edit[e].todo \ {Part(e)}
             r == [edit[e] EXCEPT !.pc = "check", !.todo = todo]
  <2>1. edit[e] \in EditState BY DEF EditsOK
  <2>2. r \in EditState /\ r.todo = todo BY <2>1 DEF EditState
  <2>3. edit' = [edit EXCEPT ![e] = NoEdit] \/ (todo # {} /\ edit' = [edit EXCEPT ![e] = r])
    BY <1>6 DEF WriteEdit
  <2> HIDE DEF r, todo
  <2> QED BY <1>0, <1>1, <2>2, <2>3
<1> QED BY <1>3, <1>4, <1>5, <1>6 DEF Edit

\* The inductive invariant: the edits are well typed, and every range stored has a number.
LEMMA FilterInvariant == FilterSpec => []FilterInv
<1>1. FilterInit => FilterInv
  <2> SUFFICES ASSUME FilterInit PROVE FilterInv OBVIOUS
  <2>1. NoEdit \in EditState /\ NoEdit.pc = "idle" BY DEF NoEdit, EditState
  <2>2. EditsOK BY <2>1 DEF FilterInit, EditsOK
  <2>3. subs = {} /\ filter = <<>> BY DEF FilterInit, Init
  <2>4. filter \in [subs -> Columns] BY <2>3
  <2> QED BY <2>2, <2>4 DEF FilterInv, FiltersOK
<1>2. FilterInv /\ [FilterNext]_fvars => FilterInv'
  <2> SUFFICES ASSUME FilterInv, [FilterNext]_fvars PROVE FilterInv' OBVIOUS
  <2>1. CASE UNCHANGED fvars BY <2>1 DEF fvars, vars, FilterInv, EditsOK, FiltersOK
  <2>2. CASE Crash /\ filter' = filter /\ edit' = [e \in Editors |-> NoEdit]
    <3>1. NoEdit \in EditState /\ NoEdit.pc = "idle" BY DEF NoEdit, EditState
    <3> QED BY <2>2, <3>1 DEF Crash, FilterInv, EditsOK, FiltersOK
  <2>3. CASE KeepFilters /\ UNCHANGED edit
    BY <2>3, NoFilterIsGood DEF KeepFilters, FilterInv, EditsOK, FiltersOK
  <2>4. ASSUME NEW e \in Editors, Edit(e) PROVE FilterInv'
    <3>1. EditsOK' BY <2>4, EditKeepsEdits DEF FilterInv
    <3>2. CASE WriteEdit(e) BY <3>1, <3>2, WriteKeepsColumns DEF FilterInv
    <3>3. CASE UNCHANGED <<subs, filter>> BY <3>1, <3>3 DEF FilterInv, FiltersOK
    <3> QED BY <2>4, <3>2, <3>3 DEF Edit, SetFilter, ClearFilter, Begin, CheckEdit, vars
  <2> QED BY <2>1, <2>2, <2>3, <2>4 DEF FilterNext
<1> QED BY <1>1, <1>2, PTL DEF FilterSpec

-----------------------------------------------------------------------------
\* A subscription has its columns, and a number stored in one fits.
THEOREM FilterTypeCorrect == FilterSpec => []FilterTypeOK
<1>1. FilterInv => FilterTypeOK
  BY DEF FilterInv, EditsOK, FiltersOK, FilterTypeOK, Columns, GoodRanges
<1> QED BY <1>1, FilterInvariant, PTL

\* Whatever halves of whatever edits are left in a row, some order passes it.
THEOREM FiltersNeverSilence == FilterSpec => []FilterPassesSome
<1>1. FilterInv => FilterPassesSome
  BY DEF FilterInv, FiltersOK, FilterPassesSome, Columns, GoodRanges
<1> QED BY <1>1, FilterInvariant, PTL

\* order_matches_filter is containment of the order's price and of its span of QLs.
THEOREM MatchingIsContainment == FilterSpec => []MatchIsContainment
<1>1. ASSUME NEW r \in Ranges, NEW a \in 0..MaxStored, NEW b \in 0..MaxStored, a <= b
      PROVE  /\ a \in Denotes(r) <=> (r.min # None => a >= r.min) /\ (r.max # None => a <= r.max)
             /\ (a..b \subseteq Denotes(r)) <=>
                   (r.min # None => a >= r.min) /\ (r.max # None => b <= r.max)
  <2>1. r.min \in Stored /\ r.max \in Stored BY DEF Ranges
  <2>2. a \in a..b /\ b \in a..b BY <1>1
  <2>3. \A n \in a..b : a <= n /\ n <= b /\ n \in 0..MaxStored BY FiltersAssumption
  <2> QED BY <1>1, <2>1, <2>2, <2>3, FiltersAssumption DEF Denotes, Stored
<1>2. FilterInv => MatchIsContainment
  <2> SUFFICES ASSUME FilterInv, NEW s \in subs, NEW o \in Orders
               PROVE  OrderMatchesFilter(o, filter[s]) <=>
                        /\ o.price \in Denotes(filter[s].price)
                        /\ o.minQl..o.maxQl \subseteq Denotes(filter[s].ql)
    BY DEF MatchIsContainment
  <2>1. filter[s].price \in Ranges /\ filter[s].ql \in Ranges
    BY DEF FilterInv, FiltersOK, Columns, GoodRanges
  <2>2. /\ o.price \in 0..MaxStored /\ o.minQl \in 0..MaxStored /\ o.maxQl \in 0..MaxStored
        /\ o.minQl <= o.maxQl /\ o.price <= o.price
    BY FiltersAssumption DEF Orders
  <2> QED BY <1>1, <2>1, <2>2 DEF OrderMatchesFilter
<1> QED BY <1>2, FilterInvariant, PTL

\* A half changes only in its own player's write of that half, or in a clear, and a
\* subscription made anew starts unfiltered.
THEOREM EditsDoNotInterfere == FilterSpec => HalvesIndependent
<1> DEFINE Own(s, h) == \E e \in Editors :
                            /\ edit[e].pc = "write" /\ edit'[e] # edit[e]
                            /\ edit[e].player = s[1] /\ s[2] \in edit[e].items
                            /\ Part(e) \in {h, "clear"}
           A == /\ \A s \in subs \cap subs', h \in Halves :
                      filter'[s][h] # filter[s][h] => Own(s, h)
                /\ \A s \in subs' \ subs : filter'[s] = NoFilter
<1>1. FilterInv /\ [FilterNext]_fvars => [A]_fvars
  <2> SUFFICES ASSUME FilterInv, FilterNext PROVE A OBVIOUS
  <2>1. CASE UNCHANGED <<subs, filter>> BY <2>1
  <2>2. CASE KeepFilters BY <2>2 DEF KeepFilters
  <2>3. ASSUME NEW e \in Editors, WriteEdit(e) PROVE A
    <3>1. subs' = subs /\ edit[e].pc = "write" BY <2>3 DEF WriteEdit, vars
    <3>2. edit'[e] # edit[e]
      <4>1. edit \in [Editors -> EditState] BY DEF FilterInv, EditsOK
      <4>2. edit'[e].pc # "write"
        BY <2>3, <4>1 DEF WriteEdit, NoEdit, EditState
      <4> QED BY <3>1, <4>2
    <3>3. ASSUME NEW s \in subs, NEW h \in Halves, filter'[s][h] # filter[s][h]
          PROVE  Own(s, h)
      <4>1. s \in RowsToUpdate(e) BY <2>3, <3>3 DEF WriteEdit
      <4>2. Part(e) \in {h, "clear"}
        <5>1. Part(e) \in {"price", "ql", "clear"} BY <3>1, PartIsToDo DEF FilterInv
        <5>2. filter[s] \in Columns BY DEF FilterInv, FiltersOK
        <5> QED BY <2>3, <3>3, <5>1, <5>2 DEF WriteEdit, Halves, Columns
      <4> QED BY <3>1, <3>2, <4>1, <4>2 DEF RowsToUpdate
    <3> QED BY <3>1, <3>3
  <2> QED BY <2>1, <2>2, <2>3 DEF FilterNext, Crash, Edit, SetFilter, ClearFilter, Begin, CheckEdit, vars
<1> QED BY <1>1, FilterInvariant, PTL DEF FilterSpec, HalvesIndependent
=============================================================================
