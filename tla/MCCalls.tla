------------------------------- MODULE MCCalls -------------------------------
(***************************************************************************)
(* Instances of Calls for TLC.                                             *)
(***************************************************************************)
EXTENDS CallsInvariant, TLC

\* Bound on the frames: enough in a coroutine for two nested calls by C functions.
Depth34 == [t \in Threads |-> IF t = Main THEN 3 ELSE 4]

\* Two bounds on what a behaviour does: any variables, in one coroutine at a time; or
\* any number of coroutines, and while a variable is marked, a function and the C
\* function that it called in each thread.
Unused(c) == status[c] = "ok" /\ body[c] /\ c \notin {a.th : a \in ToSet(cs)}
OneCoroutine == \E c \in Cos : Unused(c)
Marked == Vars \ Free
OneVariable ==
    \/ Marked = {}
    \/ Cardinality(Marked) = 1 /\ \A t \in Threads : Len(ci[t]) <= 2

Symmetry == Permutations(Vars) \cup Permutations(Cos)

\* What nothing reads again: the counters of threads out of the C stack, and the
\* history of variables that are not marked.
Live == {Running} \cup {a.th : a \in ToSet(cs)}
View == <<ci, tbclist, status, body, cs, called \ Free,
          [t \in Live |-> <<cc[t], nny[t]>>]>>

=============================================================================
