----------------------------- MODULE MC_Filters -----------------------------
(* Instances of Filters for TLC. *)
EXTENDS Filters

Typed(tenths, unit) == [tenths |-> tenths, unit |-> unit]

\* 0.5-, 1-2, 2-1 and 0-1k.
SomeSpecs ==
    {<<Typed(5, 1), None>>, <<Typed(10, 1), Typed(20, 1)>>,
     <<Typed(20, 1), Typed(10, 1)>>, <<Typed(0, 1), Typed(10, Thousand)>>}
=============================================================================
