----------------------------- MODULE MCAccounts -----------------------------
(***************************************************************************)
(* Accounts on a small instance.                                           *)
(***************************************************************************)
EXTENDS Accounts, TLC

\* The workers, the tokens and the passwords are interchangeable, and so are
\* the names.
Symmetry ==
    Permutations(Workers) \cup Permutations(Tokens)
        \cup Permutations(Passwords) \cup Permutations(Names)

=============================================================================
