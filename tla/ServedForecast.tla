--------------------------- MODULE ServedForecast ---------------------------
(***************************************************************************)
(* What the forecast cache promises, without its tasks, queries and locks: *)
(* the jobs ask for a new result at a moment of the database, and what is  *)
(* published for one of them was read from that moment on.                 *)
(***************************************************************************)
EXTENDS Integers

CONSTANTS
    Callers,     \* the jobs that ask for a result
    Tables,
    Inputs,      \* what a result is computed from
    TableOf,     \* TableOf[i]: the table that input i is read from
    Versions,
    Nothing      \* no result, or no question

VARIABLES
    committed,   \* committed[t]: the version of table t
    served,      \* served[i]: the version of input i of the result, or Nothing
    asked        \* asked[c]: the database when c asked, or Nothing

vars == <<committed, served, asked>>

Init ==
    /\ committed \in [Tables -> Versions]
    /\ served = Nothing
    /\ asked = [c \in Callers |-> Nothing]

Grows(old, new) == \A k \in DOMAIN old : new[k] >= old[k]

\* The writes of others, and of a job in the step in which it asks.
Write ==
    /\ committed' \in [Tables -> Versions]
    /\ Grows(committed, committed')

Ask(c) ==
    /\ asked[c] = Nothing
    /\ Write
    /\ asked' = [asked EXCEPT ![c] = committed']
    /\ UNCHANGED served

\* The new result has everything that was committed when c asked, nothing
\* that is not committed yet, and no input older than in the result before.
Publish(c) ==
    /\ asked[c] # Nothing
    /\ served' \in [Inputs -> Versions]
    /\ \A i \in Inputs : served'[i] \in asked[c][TableOf[i]] .. committed[TableOf[i]]
    /\ served # Nothing => Grows(served, served')
    /\ asked' = [asked EXCEPT ![c] = Nothing]
    /\ UNCHANGED committed

\* The result is given up; what is served stays.
GiveUp(c) ==
    /\ asked' = [asked EXCEPT ![c] = Nothing]
    /\ UNCHANGED <<committed, served>>

\* Only a restart loses the result.
Restart ==
    /\ served' = Nothing
    /\ asked' = [c \in Callers |-> Nothing]
    /\ UNCHANGED committed

Next ==
    \/ Write /\ UNCHANGED <<served, asked>>
    \/ \E c \in Callers : Ask(c) \/ Publish(c) \/ GiveUp(c)
    \/ Restart

Spec == Init /\ [][Next]_vars
=============================================================================
