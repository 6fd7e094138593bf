------------------------------- MODULE Filters -------------------------------
(***************************************************************************)
(* The filter columns of a subscription: a price range and a QL range, set  *)
(* and cleared by tells and by the HTTP filter routes while the calls of    *)
(* Registry make and end the rows they belong to.  An editor is one such    *)
(* call; each half of a filter is checked and then committed on its own.    *)
(***************************************************************************)
EXTENDS Registry

CONSTANTS
    Editors,    \* filter calls that may be in progress at once
    Specs,      \* <<left, right>>: what may be typed around the hyphen
    Thousand,   \* what the unit k multiplies by
    MaxStored,  \* the largest number a column holds
    None,       \* an empty side, and SQL's NULL
    Junk        \* a side that is no number

\* The typed numbers, in tenths and with or without the unit k.
Numerals == [tenths : Nat, unit : {1, Thousand}]

Halves == {"price", "ql"}
Stored == 0..MaxStored \cup {None}
Ranges == [min : Stored, max : Stored]

ASSUME FiltersAssumption ==
    /\ Thousand \in Nat \ {0} /\ MaxStored \in Nat
    /\ None \notin 0..MaxStored /\ Junk \notin Ranges
    /\ \A s \in Specs, side \in 1..2 : s[side] \in {None, Junk} \/ s[side] \in Numerals

VARIABLES
    filter,  \* the ranges of each subscription
    edit     \* the local state of each editor

fvars == <<vars, filter, edit>>

NoRange == [min |-> None, max |-> None]
NoFilter == [price |-> NoRange, ql |-> NoRange]

\* todo: the halves still to set, or "clear"; spec: what was typed for each.
EditState ==
    [pc : {"idle", "check", "write"}, player : Players \cup {Nobody},
     items : SUBSET Items, todo : SUBSET (Halves \cup {"clear"}),
     spec : [Halves -> Specs \cup {None}]]

NoEdit == [pc |-> "idle", player |-> Nobody, items |-> {}, todo |-> {},
           spec |-> [h \in Halves |-> None]]

FilterTypeOK ==
    /\ filter \in [subs -> [price : Ranges, ql : Ranges]]
    /\ edit \in [Editors -> EditState]

FilterInit == Init /\ filter = <<>> /\ edit = [e \in Editors |-> NoEdit]

-----------------------------------------------------------------------------
(* parse_range and its two parsers.                                         *)

\* Python's round: to the even neighbour from halfway.
RoundTenths(n) ==
    LET low == n \div 10 IN
    IF n % 10 > 5 \/ (n % 10 = 5 /\ low % 2 = 1) THEN low + 1 ELSE low

ParseCredits(side) == RoundTenths(side.tenths * side.unit)

\* No fraction and no unit: such a QL is no number.
ParseQl(side) == IF side.tenths % 10 # 0 \/ side.unit # 1 THEN Junk ELSE side.tenths \div 10

ParseSide(half, side) ==
    IF side \in {None, Junk} THEN side
    ELSE IF half = "price" THEN ParseCredits(side) ELSE ParseQl(side)

\* Mutant: a reversed range is let through.
ParseRangeReversed(half, spec) ==
    LET min == ParseSide(half, spec[1])
        max == ParseSide(half, spec[2])
    IN IF Junk \in {min, max} \/ {min, max} = {None} THEN Junk ELSE [min |-> min, max |-> max]

\* Junk stands for the refusal: a side that is no number, two empty sides, or
\* a minimum above the maximum.
ParseRange(half, spec) ==
    LET min == ParseSide(half, spec[1])
        max == ParseSide(half, spec[2])
    IN IF \/ Junk \in {min, max}
          \/ {min, max} = {None}
          \/ None \notin {min, max} /\ min > max
       THEN Junk
       ELSE [min |-> min, max |-> max]

\* Mutant: one end of the order's QL range is compared with both bounds.
OrderMatchesFilterMinQl(order, f) ==
    /\ f.price.min # None => order.price >= f.price.min
    /\ f.price.max # None => order.price <= f.price.max
    /\ f.ql.min # None => order.minQl >= f.ql.min
    /\ f.ql.max # None => order.minQl <= f.ql.max

OrderMatchesFilter(order, f) ==
    /\ f.price.min # None => order.price >= f.price.min
    /\ f.price.max # None => order.price <= f.price.max
    /\ f.ql.min # None => order.minQl >= f.ql.min
    /\ f.ql.max # None => order.maxQl <= f.ql.max

-----------------------------------------------------------------------------
(* The filter calls.                                                        *)

Begin(e, p, i, todo, spec) ==
    /\ edit[e].pc = "idle"
    /\ edit' = [edit EXCEPT ![e] = [pc |-> "check", player |-> p, items |-> {i},
                                    todo |-> todo, spec |-> spec]]
    /\ UNCHANGED <<vars, filter>>

\* A tell gives one spec, the PUT body one or both.
SetFilter(e) ==
    \E p \in Players, i \in Items, todo \in (SUBSET Halves) \ {{}} :
        \E spec \in [Halves -> Specs \cup {None}] :
            /\ \A h \in Halves : h \in todo <=> spec[h] # None
            /\ Begin(e, p, i, todo, spec)

ClearFilter(e) ==
    \E p \in Players, i \in Items :
        Begin(e, p, i, {"clear"}, [h \in Halves |-> None])

\* The price comes first.
Part(e) == IF "price" \in edit[e].todo THEN "price" ELSE CHOOSE h \in edit[e].todo : TRUE

Parsed(e) == ParseRange(Part(e), edit[e].spec[Part(e)])

\* The row must exist and the spec parse, or the call is refused: a half that
\* was committed before stays.
CheckEdit(e) ==
    /\ edit[e].pc = "check"
    /\ LET row == {edit[e].player} \X edit[e].items
           accepted == row \subseteq subs /\ (Part(e) = "clear" \/ Parsed(e) # Junk)
       IN edit' = [edit EXCEPT ![e] = IF accepted THEN [@ EXCEPT !.pc = "write"] ELSE NoEdit]
    /\ UNCHANGED <<vars, filter>>

\* Mutant: the condition on the item is missing.
RowsOfPlayer(e) == {s \in subs : s[1] = edit[e].player}

\* The rows an UPDATE finds: the one checked may be gone, or be a later one.
RowsToUpdate(e) == {s \in subs : s[1] = edit[e].player /\ s[2] \in edit[e].items}

\* Mutant: any number fits.
AlwaysStorable(e) == TRUE

\* A number the column cannot hold raises, and ends the call.
Storable(e) == Part(e) = "clear" \/ Parsed(e) \in Ranges

WriteEdit(e) ==
    LET todo == edit[e].todo \ {Part(e)} IN
    /\ edit[e].pc = "write"
    /\ filter' = [s \in subs |->
           IF s \notin RowsToUpdate(e) \/ ~Storable(e) THEN filter[s]
           ELSE IF Part(e) = "clear" THEN NoFilter
           ELSE [filter[s] EXCEPT ![Part(e)] = Parsed(e)]]
    /\ edit' = [edit EXCEPT ![e] = IF todo = {} \/ ~Storable(e) THEN NoEdit
                                   ELSE [@ EXCEPT !.pc = "check", !.todo = todo]]
    /\ UNCHANGED vars

\* A row comes without ranges and takes them with it.
KeepFilters == filter' = [s \in subs' |-> IF s \in subs THEN filter[s] ELSE NoFilter]

Edit(e) == SetFilter(e) \/ ClearFilter(e) \/ CheckEdit(e) \/ WriteEdit(e)

FilterNext ==
    \/ Crash /\ filter' = filter /\ edit' = [e \in Editors |-> NoEdit]
    \/ \E w \in Workers : (Arrive(w) \/ Advance(w)) /\ KeepFilters /\ UNCHANGED edit
    \/ \E e \in Editors : Edit(e)

FilterSpec == FilterInit /\ [][FilterNext]_fvars /\ Fairness

-----------------------------------------------------------------------------
(* Properties                                                               *)

Denotes(r) == {n \in 0..MaxStored : (r.min = None \/ r.min <= n) /\ (r.max = None \/ n <= r.max)}

Orders == {o \in [price : 0..MaxStored, minQl : 0..MaxStored, maxQl : 0..MaxStored] :
              o.minQl <= o.maxQl}

\* A stored filter never silences its subscription: whatever halves of whatever
\* edits, refused halfway or not, are left in the row, some order passes it.
FilterPassesSome ==
    \A s \in subs : Denotes(filter[s].price) # {} /\ Denotes(filter[s].ql) # {}

\* order_matches_filter passes exactly the orders whose price lies in the price
\* range and whose whole span of QLs lies in the QL range.
MatchIsContainment ==
    \A s \in subs, o \in Orders :
        OrderMatchesFilter(o, filter[s]) <=>
            /\ o.price \in Denotes(filter[s].price)
            /\ o.minQl..o.maxQl \subseteq Denotes(filter[s].ql)

\* Edits that overlap do not undo each other: while a subscription stands, a half
\* of its filter changes only in its own player's write of that half or clear,
\* and a subscription made anew starts unfiltered.
HalvesIndependent ==
    [][/\ \A s \in subs \cap subs', h \in Halves :
             filter'[s][h] # filter[s][h] =>
                 \E e \in Editors :
                     /\ edit[e].pc = "write" /\ edit'[e] # edit[e]
                     /\ edit[e].player = s[1] /\ s[2] \in edit[e].items
                     /\ Part(e) \in {h, "clear"}
       /\ \A s \in subs' \ subs : filter'[s] = NoFilter]_fvars
=============================================================================
