----------------------------- MODULE WeakTables ------------------------------
(***************************************************************************)
(* Weak tables in a cycle of the collector (lgc.c): the traversal of       *)
(* tables with weak values, weak keys (ephemerons) or both, the            *)
(* convergence of ephemerons, the clearing of entries and the resurrection *)
(* of what finalizers will see.                                            *)
(*                                                                         *)
(* Every object is a table or a string.  A table has an array part and a   *)
(* hash part, whose entries are numbered by their nodes.  A cycle starts   *)
(* with nothing marked; between its propagation and its atomic phase the   *)
(* program may have taken an object, from a weak table too, to its stack.  *)
(***************************************************************************)
EXTENDS Integers, Sequences, SequencesExt

\* A key or value without an object; the value of an empty entry, and a dead key.
None_ == 0
Empty == -1

Root == 1

\* A heap h: the kind of each object, its array part (values) and hash part ([key, val]), the
\* list of objects with finalizers, the stack, the colors and the gray lists.
Objects(h) == DOMAIN h.kind
IsWhite(h, o) == o \in Objects(h) /\ h.color[o] = "white"

\* markobject of the values of a list, in its order.  A string is black at once.
MarkObj(h, o) ==
    IF ~IsWhite(h, o) THEN h
    ELSE IF h.kind[o] = "string" THEN [h EXCEPT !.color[o] = "black"]
    ELSE [h EXCEPT !.color[o] = "gray", !.gray = <<o>> \o @]
MarkAll(h, list) == FoldLeft(MarkObj, h, list)

\* iscleared: the heap after it, since strings are values and get marked.
AsValue(h, o) == IF o \in Objects(h) /\ h.kind[o] = "string" THEN MarkObj(h, o) ELSE h
IsCleared(h, o) == IsWhite(AsValue(h, o), o)

Link(h, t, list) == [h EXCEPT ![list] = <<t>> \o @, !.color[t] = "gray"]

\* clearkey of the empty entries.
ClearKeys(h, t) ==
    [h EXCEPT !.node[t] = [n \in DOMAIN @ |-> IF @[n].val = Empty /\ @[n].key # None_ THEN [@[n] EXCEPT !.key = Empty] ELSE @[n]]]
Full(node) == {n \in DOMAIN node : node[n].val # Empty}

-----------------------------------------------------------------------------
(* Traversals. *)

\* The first value of the hash part that can be cleared ends the search for one.
TraverseWeakValue(h, t) ==
    LET Visit(r, n) ==
            LET m == MarkObj(r.h, r.h.node[t][n].key)
                v == m.node[t][n].val
            IN  IF v = Empty THEN r
                ELSE IF r.clears THEN [r EXCEPT !.h = m]
                ELSE [h |-> AsValue(m, v), clears |-> IsCleared(m, v)]
        end == FoldLeft(Visit, [h |-> ClearKeys(h, t), clears |-> h.array[t] # <<>>], [n \in DOMAIN h.node[t] |-> n])
    IN  Link(end.h, t, IF h.state = "atomic" /\ end.clears THEN "weak" ELSE "grayagain")

\* The heap and whether a value was marked.
TraverseEphemeron(h, t, inv) ==
    LET size == Len(h.node[t])
        Visit(r, n) ==
            LET e == r.h.node[t][n]
                k == AsValue(r.h, e.key)
            IN  IF e.val = Empty THEN r
                ELSE IF IsWhite(k, e.key)
                THEN [r EXCEPT !.h = k, !.clears = TRUE, !.ww = @ \/ IsWhite(k, e.val)]
                ELSE [r EXCEPT !.h = MarkObj(k, e.val), !.marked = @ \/ IsWhite(k, e.val)]
        start == [h |-> MarkAll(ClearKeys(h, t), h.array[t]), clears |-> FALSE, ww |-> FALSE,
                  marked |-> \E i \in DOMAIN h.array[t] : IsWhite(h, h.array[t][i])]
        end == FoldLeft(Visit, start, [i \in 1 .. size |-> IF inv THEN size + 1 - i ELSE i])
    IN  [h |-> IF h.state = "propagate" THEN Link(end.h, t, "grayagain")
               ELSE IF end.ww THEN Link(end.h, t, "ephemeron")
               ELSE IF end.clears THEN Link(end.h, t, "allweak")
               ELSE end.h,
         marked |-> end.marked]

TraverseStrong(h, t) ==
    LET Visit(m, e) == IF e.val = Empty THEN m ELSE MarkAll(m, <<e.key, e.val>>)
    IN  FoldLeft(Visit, MarkAll(ClearKeys(h, t), h.array[t]), h.node[t])

\* propagatemark of the first gray object.
PropagateMark(h) ==
    LET t == Head(h.gray)
        b == [h EXCEPT !.gray = Tail(@), !.color[t] = "black"]
    IN  CASE h.kind[t] = "weakvalue" -> TraverseWeakValue(b, t)
          [] h.kind[t] = "ephemeron" -> TraverseEphemeron(b, t, FALSE).h
          [] h.kind[t] = "allweak" -> Link(b, t, "allweak")
          [] OTHER -> TraverseStrong(b, t)

RECURSIVE PropagateWeak(_)
PropagateWeak(h) == IF h.gray = <<>> THEN h ELSE PropagateWeak(PropagateMark(h))

-----------------------------------------------------------------------------
(* convergeephemerons. *)

\* One pass over the list, which the traversals rebuild.
Pass(h, dir) ==
    LET Visit(r, t) ==
            LET e == TraverseEphemeron([r.h EXCEPT !.color[t] = "black"], t, dir)
            IN  IF e.marked THEN [h |-> PropagateWeak(e.h), changed |-> TRUE] ELSE [r EXCEPT !.h = e.h]
    IN  FoldLeft(Visit, [h |-> [h EXCEPT !.ephemeron = <<>>], changed |-> FALSE], h.ephemeron)

\* Mutant: the tables are visited only once.
ConvergeOnce(h, dir) == Pass(h, dir).h

RECURSIVE Converge(_, _)
Converge(h, dir) ==
    LET pass == Pass(h, dir) IN IF pass.changed THEN Converge(pass.h, ~dir) ELSE pass.h

-----------------------------------------------------------------------------
(* Clearing. *)

ClearByKeys(h, list) ==
    LET Entry(m, t, n) ==
            LET e == m.node[t][n]
                k == AsValue(m, e.key)
            IN  IF IsWhite(k, e.key) THEN [k EXCEPT !.node[t][n].val = Empty] ELSE k
        Table(m, t) == ClearKeys(FoldLeft(LAMBDA r, n : Entry(r, t, n), m, [n \in DOMAIN h.node[t] |-> n]), t)
    IN  FoldLeft(Table, h, list)

ClearByVals(h, list) ==
    LET Element(m, t, i) ==
            LET v == m.array[t][i]
                a == AsValue(m, v)
            IN  IF IsWhite(a, v) THEN [a EXCEPT !.array[t][i] = Empty] ELSE a
        Entry(m, t, n) ==
            LET v == m.node[t][n].val
                a == AsValue(m, v)
            IN  IF IsWhite(a, v) THEN [a EXCEPT !.node[t][n].val = Empty] ELSE a
        Table(m, t) ==
            LET a == FoldLeft(LAMBDA r, i : Element(r, t, i), m, [i \in DOMAIN h.array[t] |-> i])
            IN  ClearKeys(FoldLeft(LAMBDA r, n : Entry(r, t, n), a, [n \in DOMAIN h.node[t] |-> n]), t)
    IN  FoldLeft(Table, h, list)

\* The elements that were put on a list after it was old.
Newer(list, old) == SubSeq(list, 1, Len(list) - Len(old))

-----------------------------------------------------------------------------
(* A cycle. *)

PropagatePhase(h) == PropagateWeak(MarkObj([h EXCEPT !.state = "propagate"], Root))

AtomicClearing(h) ==
    LET a1 == PropagateWeak(MarkAll([h EXCEPT !.state = "atomic", !.grayagain = <<>>], h.stack))
        a2 == Converge(PropagateWeak([a1 EXCEPT !.gray = h.grayagain]), FALSE)
        a3 == ClearByVals(ClearByVals(a2, a2.weak), a2.allweak)
        tobefnz == SelectSeq(h.finobj, LAMBDA o : IsWhite(a3, o))
        a4 == Converge(PropagateWeak(MarkAll(a3, tobefnz)), FALSE)
        a5 == ClearByKeys(ClearByKeys(a4, a4.ephemeron), a4.allweak)
    IN  ClearByVals(ClearByVals(a5, Newer(a5.weak, a2.weak)), Newer(a5.allweak, a2.allweak))

Cycle(h) == AtomicClearing(PropagatePhase(h))

-----------------------------------------------------------------------------
(* What a cycle should do (the meaning of weak tables in the manual).       *)

\* What a table keeps alive when the objects of S are.
Keeps(h, t, S) ==
    LET e == {h.node[t][n] : n \in Full(h.node[t])}
    IN  CASE h.kind[t] = "strong" -> ToSet(h.array[t]) \cup UNION {{x.key, x.val} : x \in e}
          [] h.kind[t] = "weakvalue" -> {x.key : x \in e}
          [] h.kind[t] = "ephemeron" ->
               ToSet(h.array[t]) \cup {x.val : x \in {y \in e : y.key = None_ \/ y.key \in S \/ h.kind[y.key] = "string"}}
          [] OTHER -> {}

RECURSIVE Accessible(_, _)
Accessible(h, S) ==
    LET T == S \cup (UNION {Keeps(h, t, S) : t \in S} \cap Objects(h)) IN IF T = S THEN S ELSE Accessible(h, T)

\* Strongly accessible objects, and those that finalizers see as well.
StronglyAccessible(h) == Accessible(h, {Root} \cup ToSet(h.stack))
WithResurrected(h) == Accessible(h, StronglyAccessible(h) \cup ToSet(h.finobj))

\* A value goes before finalizers run, a key after.
StaysIn(h, o, S) == o \in {None_, Empty} \/ o \in S \/ h.kind[o] = "string"
WeakenedValue(h, t, v) ==
    IF StaysIn(h, v, IF t \in StronglyAccessible(h) THEN StronglyAccessible(h) ELSE WithResurrected(h)) THEN v ELSE Empty
MeantArray(h, t) ==
    IF h.kind[t] \in {"strong", "ephemeron"} THEN h.array[t]
    ELSE [i \in DOMAIN h.array[t] |-> WeakenedValue(h, t, h.array[t][i])]
MeantEntry(h, t, e) ==
    LET val == IF e.val = Empty THEN Empty
               ELSE IF h.kind[t] \in {"ephemeron", "allweak"} /\ ~StaysIn(h, e.key, WithResurrected(h)) THEN Empty
               ELSE IF h.kind[t] \in {"weakvalue", "allweak"} THEN WeakenedValue(h, t, e.val)
               ELSE e.val
    IN  [key |-> IF val = Empty /\ e.key # None_ THEN Empty ELSE e.key, val |-> val]

\* After a cycle the objects that are accessible, or that finalizers see, are marked, and no
\* table or other object is; their tables have lost exactly the entries that their mode lets
\* go, and what remains in a table is marked.
CycleExact(h) ==
    LET c == Cycle(h)
        alive == WithResurrected(h)
    IN  /\ \A o \in Objects(h) : h.kind[o] # "string" => (o \in alive <=> ~IsWhite(c, o))
        /\ \A t \in {o \in alive : h.kind[o] # "string"} :
             /\ c.array[t] = MeantArray(h, t)
             /\ \A n \in DOMAIN h.node[t] : c.node[t][n] = MeantEntry(h, t, h.node[t][n])
             /\ \A n \in DOMAIN c.node[t] : ~IsWhite(c, c.node[t][n].key) /\ ~IsWhite(c, c.node[t][n].val)
             /\ \A i \in DOMAIN c.array[t] : ~IsWhite(c, c.array[t][i])
        /\ c.gray = <<>>
=============================================================================
