------------------------- MODULE MCPriceScheduler --------------------------
(***************************************************************************)
(* PriceScheduler with days of six slots: the baseline fires in slots 0, 2 *)
(* and 4, the burst in slots 1 and 2, so that the two meet in slot 2.      *)
(***************************************************************************)
EXTENDS PriceScheduler, TLC

MCPriceSlots == {0, 2, 4}
MCBurstSlots == {1, 2}

\* The areas are interchangeable.
Symmetry == Permutations(Areas)

=============================================================================
