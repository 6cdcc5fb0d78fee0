----------------------------- MODULE MCUserData -----------------------------
(***************************************************************************)
(* UserData on a small instance.                                           *)
(***************************************************************************)
EXTENDS UserData, TLC

\* Nothing tells two workers, two fields or two keys apart.
Symmetry == Permutations(Workers) \cup Permutations(Fields) \cup Permutations(Keys)

=============================================================================
