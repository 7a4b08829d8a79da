--------------------------- MODULE MCIncrementalGC ---------------------------
(***************************************************************************)
(* Instances of IncrementalGC for TLC.                                     *)
(***************************************************************************)
EXTENDS IncrementalGC, TLC

\* Bounds on the fields of tables and closures: one each, or none in the registry.
OneField == [x \in Tables \cup Closures |-> 1]
NoGlobals == [x \in Tables \cup Closures |-> IF x = Registry THEN 0 ELSE 1]

\* Bounds on stacks.
TwoSlots == [t \in Threads |-> 2]
OneInCoroutine == [t \in Threads |-> IF t = Main THEN 2 ELSE 1]

Symmetry == Permutations(Tables \ {Registry})

\* States that differ only in what nothing reads again are taken for one: which
\* of the two whites is current, and the gray lists outside the mark phase
\* (restartcollection clears them unread).
WhileMarking(S) == IF KeepInvariant THEN S ELSE {}
View == <<gcstate, [o \in Object |-> IF color[o] = currentwhite THEN "current"
                                     ELSE IF IsDead(o) THEN "other" ELSE color[o]],
          where, refs, owner, roots, WhileMarking(gray), WhileMarking(grayagain), twups, tosweep,
          tolive, finalizing, targets, emergency>>

=============================================================================
