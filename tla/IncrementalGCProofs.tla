------------------------ MODULE IncrementalGCProofs ------------------------
(***************************************************************************)
(* GCInv is an invariant of IncrementalGC, for any objects and any bounds,  *)
(* and with it every object the program can reach is kept.                  *)
(***************************************************************************)
EXTENDS IncrementalGC, TLAPS

-----------------------------------------------------------------------------
(* Trace. *)

\* Marking stays inside any set that holds where it starts and is closed.
LEMMA TraceWithin ==
    ASSUME NEW S, NEW M, NEW K, S \subseteq K, K \subseteq Object,
           \A x \in K : Succ(x) \subseteq K
    PROVE  Trace(S, M) \subseteq K
<1> DEFINE V == (S \cup SuccSet(Object)) \ M
<1> SUFFICES ASSUME NEW o \in Trace(S, M) PROVE o \in K  OBVIOUS
<1>1. K \cap V \in SUBSET V  OBVIOUS
<1>2. S \ M \subseteq K \cap V  OBVIOUS
<1>3. \A x \in K \cap V : Succ(x) \ M \subseteq K \cap V
  <2> SUFFICES ASSUME NEW x \in K \cap V, NEW y \in Succ(x) \ M PROVE y \in V  OBVIOUS
  <2> QED  BY DEF SuccSet
<1> QED  BY <1>1, <1>2, <1>3 DEF Trace

\* Marking reaches where it starts and what each object it reaches refers to.
LEMMA TraceClosed ==
    ASSUME NEW S, NEW M, TypeOK, S \subseteq Object
    PROVE  /\ Trace(S, M) \subseteq Object \ M
           /\ S \ M \subseteq Trace(S, M)
           /\ \A x \in Trace(S, M) : Succ(x) \ M \subseteq Trace(S, M)
<1>1. \A x \in Object : Succ(x) \subseteq Object
  BY DEF TypeOK, Succ, OpenUpVals, Object
<1>2. Trace(S, M) \subseteq Object \ M  BY <1>1 DEF Trace, SuccSet
<1>3. S \ M \subseteq Trace(S, M)  BY DEF Trace
<1>4. ASSUME NEW x \in Trace(S, M), NEW y \in Succ(x) \ M PROVE y \in Trace(S, M)
  BY <1>2, <1>4 DEF Trace, SuccSet
<1> QED  BY <1>2, <1>3, <1>4

\* Everything the program can reach is kept.
LEMMA ReachableKept == HeapKept => NoDangling
<1> SUFFICES ASSUME HeapKept PROVE Reachable \subseteq Kept  BY DEF NoDangling, Kept
<1> QED  BY TraceWithin DEF HeapKept, Reachable, Kept

-----------------------------------------------------------------------------
(* Initial states, and types. *)

LEMMA GCInit == Init => GCInv
<1> SUFFICES ASSUME Init PROVE GCInv  OBVIOUS
<1> USE KindsAssumption DEF Init
<1>1. TypeOK
  <2>1. gcstate \in GCState /\ currentwhite \in Whites  BY DEF GCState, Whites
  <2>2. color \in [Object -> Whites \cup {"gray", "black", "none"}]  BY DEF Whites
  <2>3. where \in [Object -> {"allgc", "finobj", "tobefnz", "free"}]  OBVIOUS
  <2>4. refs \in [Object -> SUBSET Object] /\ owner \in [UpVals -> Threads \cup {Closed}]
    OBVIOUS
  <2>5. targets \in Seq(GCState) /\ emergency \in 0..3  OBVIOUS
  <2> QED  BY <2>1, <2>2, <2>3, <2>4, <2>5 DEF TypeOK
<1>2. RefsOK  BY DEF RefsOK, Object, Threads
<1>3. \A o \in Object : Succ(o) = {}  BY DEF Succ, OpenUpVals, Threads, Object
<1>4. HeapKept
  BY <1>3 DEF HeapKept, Kept, In, IsDead, OtherWhite, Object, Threads
<1>5. UpValsOK /\ UpValOwnerAlive
  BY DEF UpValsOK, UpValOwnerAlive, Object, Threads
<1>6. SweepOK
  BY DEF SweepOK, Allocated, IsDead, OtherWhite, NonWhite, Whites
<1>7. ListsOK /\ TriColor /\ GrayIsListed
  BY DEF ListsOK, TriColor, GrayIsListed, KeepInvariant
<1> QED  BY <1>1, <1>2, <1>4, <1>5, <1>6, <1>7 DEF GCInv

-----------------------------------------------------------------------------
(* Facts about a state in which GCInv holds. *)

LEMMA RefsKept ==
    ASSUME GCInv, NEW o \in Kept
    PROVE  refs[o] \subseteq Kept
BY DEF GCInv, HeapKept, Succ

LEMMA RunningKept ==
    ASSUME GCInv, NEW L \in Running
    PROVE  L \in Threads /\ L \in Kept /\ refs[L] \subseteq Kept \cap Value
<1>1. Main \in Kept /\ Main \in Threads /\ \A t \in Threads : t \in Object \ Closures
  BY KindsAssumption DEF GCInv, HeapKept, Threads, Object
<1>2. L \in Threads /\ L \in Kept  BY <1>1, RefsKept DEF Running, Threads
<1>3. refs[L] \subseteq Value  BY <1>1, <1>2 DEF GCInv, RefsOK
<1> QED  BY <1>2, <1>3, RefsKept

-----------------------------------------------------------------------------
(* The program changes references only. *)

\* Values that are kept are pushed on the stack of a thread that is.
LEMMA StackGrows ==
    ASSUME GCInv, TypeOK', NEW L \in Threads \cap Kept, NEW V \in SUBSET (Kept \cap Value),
           refs' = [refs EXCEPT ![L] = @ \cup V],
           UNCHANGED <<gcstate, currentwhite, color, where, owner, roots>>,
           UNCHANGED <<gray, grayagain, twups, tosweep>>
    PROVE  GCInv'
<1> USE DEF GCInv
<1>1. \A o \in Object : refs'[o] = IF o = L THEN refs[L] \cup V ELSE refs[o]
  BY DEF TypeOK
<1>2. Kept' = Kept  BY DEF Kept, IsDead, OtherWhite
<1>3. \A o \in Object : o # L /\ o \notin Threads => Succ(o)' = Succ(o)
  BY <1>1 DEF Succ
<1>4. \A o \in Threads : Succ(o)' = Succ(o) \cup (IF o = L THEN V ELSE {})
  BY <1>1, KindsAssumption DEF Succ, OpenUpVals, Threads, Object
<1>5. RefsOK'  BY <1>1, KindsAssumption DEF RefsOK, Kept, Threads, Object
<1>6. HeapKept'  BY <1>2, <1>3, <1>4 DEF HeapKept, In, Kept
<1>7. UpValsOK' /\ UpValOwnerAlive'
  BY DEF UpValsOK, UpValOwnerAlive, IsDead, OtherWhite
<1>8. SweepOK'
  BY DEF SweepOK, Allocated, IsDead, OtherWhite, NonWhite, KeepInvariant
<1>9. ListsOK' /\ GrayIsListed'
  BY DEF ListsOK, GrayIsListed, KeepInvariant, Allocated
<1>10. TriColor'
  BY <1>3, KindsAssumption DEF TriColor, ListsOK, IsWhite, KeepInvariant, Threads, Object
<1> QED  BY <1>5, <1>6, <1>7, <1>8, <1>9, <1>10

\* A reference is dropped by an object that is not an upvalue.
LEMMA RefDropped ==
    ASSUME GCInv, TypeOK', NEW x \in Object \ UpVals, NEW v,
           refs' = [refs EXCEPT ![x] = @ \ {v}],
           UNCHANGED <<gcstate, currentwhite, color, where, owner, roots>>,
           UNCHANGED <<gray, grayagain, twups, tosweep>>
    PROVE  GCInv'
<1> USE DEF GCInv
<1>1. \A o \in Object : refs'[o] \subseteq refs[o]  BY DEF TypeOK
<1>2. Kept' = Kept  BY DEF Kept, IsDead, OtherWhite
<1>3. \A o \in Object : Succ(o)' \subseteq Succ(o)
  BY <1>1, KindsAssumption DEF Succ, OpenUpVals, Object
<1>4. RefsOK'  BY <1>1 DEF RefsOK
<1>5. HeapKept'  BY <1>2, <1>3 DEF HeapKept, In, Kept
<1>6. UpValsOK' /\ UpValOwnerAlive'
  BY DEF UpValsOK, UpValOwnerAlive, IsDead, OtherWhite
<1>7. SweepOK'
  BY DEF SweepOK, Allocated, IsDead, OtherWhite, NonWhite, KeepInvariant
<1>8. ListsOK' /\ GrayIsListed'
  BY DEF ListsOK, GrayIsListed, KeepInvariant, Allocated
<1>9. TriColor'  BY <1>3 DEF TriColor, IsWhite, KeepInvariant
<1> QED  BY <1>4, <1>5, <1>6, <1>7, <1>8, <1>9

\* The roots change, among tables that are kept.
LEMMA RootsChange ==
    ASSUME GCInv, TypeOK', roots' \subseteq Kept,
           UNCHANGED <<gcstate, currentwhite, color, where, refs, owner>>,
           UNCHANGED <<gray, grayagain, twups, tosweep>>
    PROVE  GCInv'
<1> USE DEF GCInv
<1>1. Kept' = Kept  BY DEF Kept, IsDead, OtherWhite
<1>2. \A o \in Object : Succ(o)' = Succ(o)  BY DEF Succ, OpenUpVals
<1>3. RefsOK' /\ UpValsOK' /\ UpValOwnerAlive'
  BY DEF RefsOK, UpValsOK, UpValOwnerAlive, IsDead, OtherWhite
<1>4. HeapKept'  BY <1>1, <1>2 DEF HeapKept, In, Kept
<1>5. SweepOK'
  BY DEF SweepOK, Allocated, IsDead, OtherWhite, NonWhite, KeepInvariant
<1>6. ListsOK' /\ GrayIsListed'
  BY DEF ListsOK, GrayIsListed, KeepInvariant, Allocated
<1>7. TriColor'  BY <1>2 DEF TriColor, IsWhite, KeepInvariant
<1> QED  BY <1>3, <1>4, <1>5, <1>6, <1>7

-----------------------------------------------------------------------------
(* Births. *)

LEMMA NewObjectStep ==
    ASSUME GCInv, TypeOK', NEW L, NEW o \in Value, NewObject(L, o)
    PROVE  GCInv'
<1> USE DEF GCInv
<1>1. L \in Threads /\ L \in Kept  BY RunningKept DEF NewObject
<1>2. /\ o \in Object /\ where[o] = "free" /\ color[o] = "none" /\ refs[o] = {}
      /\ refs' = [refs EXCEPT ![L] = @ \cup {o}]
      /\ color' = [color EXCEPT ![o] = currentwhite]
      /\ where' = [where EXCEPT ![o] = "allgc"]
      /\ UNCHANGED <<gcstate, currentwhite, owner, roots, gray, grayagain, twups, tosweep>>
  BY DEF NewObject, RefsOK, cycle, Value
<1>3. /\ \A x \in Object : refs'[x] = IF x = L THEN refs[L] \cup {o} ELSE refs[x]
      /\ \A x \in Object : color'[x] = IF x = o THEN currentwhite ELSE color[x]
      /\ \A x \in Object : where'[x] = IF x = o THEN "allgc" ELSE where[x]
  BY <1>2 DEF TypeOK
<1>4. Kept' = Kept \cup {o}
  BY <1>2, <1>3 DEF Kept, IsDead, OtherWhite, TypeOK, Whites
<1>5. o # L /\ \A u \in UpVals : owner[u] # o
  BY <1>1, <1>2, KindsAssumption DEF Kept, UpValOwnerAlive, Value
<1>6. Succ(o)' = {}
  BY <1>2, <1>3, <1>5 DEF Succ, OpenUpVals
<1>7. \A x \in Object \ {o} : Succ(x)' = Succ(x) \cup (IF x = L THEN {o} ELSE {})
  BY <1>1, <1>2, <1>3, KindsAssumption DEF Succ, OpenUpVals, Threads, Object
<1>8. RefsOK'
  <2>1. currentwhite # "none" /\ where[L] # "free" /\ L \notin Strings
    BY <1>1, KindsAssumption DEF TypeOK, Whites, Kept
  <2> QED  BY <1>1, <1>2, <1>3, <2>1 DEF RefsOK
<1>9. HeapKept'
  <2>1. \A x \in Kept' : Succ(x)' \subseteq Kept'
    BY <1>1, <1>4, <1>6, <1>7 DEF HeapKept, Kept
  <2> QED  BY <1>2, <1>3, <1>4, <2>1 DEF HeapKept, In
<1>10. UpValsOK' /\ UpValOwnerAlive'
  BY <1>2, <1>3, <1>5 DEF UpValsOK, UpValOwnerAlive, IsDead, OtherWhite, Value, TypeOK, Whites
<1>11. SweepOK'
  BY <1>2, <1>3 DEF SweepOK, Allocated, IsDead, OtherWhite, NonWhite, KeepInvariant, TypeOK, Whites
<1>12. ListsOK' /\ GrayIsListed'
  BY <1>2, <1>3 DEF ListsOK, GrayIsListed, KeepInvariant, Allocated, TypeOK, Whites
<1>13. TriColor'
  <2> SUFFICES ASSUME KeepInvariant, NEW b \in Object, color'[b] = "black",
                      NEW x \in Succ(b)', IsWhite(x)'
               PROVE  FALSE
    BY <1>2 DEF TriColor, KeepInvariant
  <2>1. b # o /\ color[b] = "black" /\ b \notin Threads
    BY <1>2, <1>3 DEF TypeOK, Whites, ListsOK
  <2>2. x \in Succ(b) /\ b \in Kept
    BY <1>1, <1>2, <1>7, <2>1 DEF Kept, RefsOK, IsDead, OtherWhite, TypeOK, Whites
  <2>3. x \in Kept /\ x # o  BY <1>2, <2>2 DEF HeapKept, Kept
  <2> QED  BY <1>3, <2>1, <2>2, <2>3 DEF TriColor, IsWhite, Kept
<1> QED  BY <1>8, <1>9, <1>10, <1>11, <1>12, <1>13

LEMMA NewUpValStep ==
    ASSUME GCInv, TypeOK', NEW L, NEW u, NEW v, NewUpVal(L, u, v)
    PROVE  GCInv'
<1> USE DEF GCInv
<1>1. L \in Threads /\ L \in Kept /\ v \in Kept \cap Value
  BY RunningKept DEF NewUpVal
<1>2. /\ u \in UpVals /\ u \in Object /\ where[u] = "free" /\ color[u] = "none"
      /\ refs' = [refs EXCEPT ![u] = {v}]
      /\ color' = [color EXCEPT ![u] = currentwhite]
      /\ where' = [where EXCEPT ![u] = "allgc"]
      /\ owner' = [owner EXCEPT ![u] = L]
      /\ twups' = twups \cup {L}
      /\ UNCHANGED <<gcstate, currentwhite, roots, gray, grayagain, tosweep>>
  BY DEF NewUpVal, RefsOK, cycle, Object, Twups
<1>3. /\ \A x \in Object : refs'[x] = IF x = u THEN {v} ELSE refs[x]
      /\ \A x \in Object : color'[x] = IF x = u THEN currentwhite ELSE color[x]
      /\ \A x \in Object : where'[x] = IF x = u THEN "allgc" ELSE where[x]
      /\ \A x \in UpVals : owner'[x] = IF x = u THEN L ELSE owner[x]
  BY <1>2 DEF TypeOK
<1>4. Kept' = Kept \cup {u}
  BY <1>2, <1>3 DEF Kept, IsDead, OtherWhite, TypeOK, Whites
<1>5. u # L /\ owner[u] = Closed /\ u \notin Threads \cup Closures \cup Strings
  BY <1>1, <1>2, KindsAssumption DEF Kept, UpValOwnerAlive, Threads
<1>6. Succ(u)' = {v}
  BY <1>2, <1>3, <1>5 DEF Succ
<1>7. \A x \in Object \ {u} : Succ(x)' = Succ(x) \cup (IF x = L THEN {u, v} ELSE {})
  <2>1. \A x \in Object \ {u} : x \notin Threads => Succ(x)' = Succ(x)
    BY <1>3 DEF Succ
  <2>2. \A x \in Threads \ {L} : OpenUpVals(x)' = OpenUpVals(x)
    BY <1>3, <1>5, KindsAssumption DEF OpenUpVals, Threads, Object
  <2>3. OpenUpVals(L)' = OpenUpVals(L) \cup {u}
    BY <1>2, <1>3 DEF OpenUpVals
  <2>4. \A x \in Threads : refs'[x] = refs[x] /\ u \notin OpenUpVals(x)
    BY <1>2, <1>3, <1>5, KindsAssumption DEF Threads, Object, OpenUpVals
  <2>5. \A w \in UpVals : refs'[w] = IF w = u THEN {v} ELSE refs[w]
    BY <1>3 DEF Object
  <2>6. \A x \in Threads \ {L} : Succ(x)' = Succ(x)
    BY <2>2, <2>4, <2>5 DEF Succ, OpenUpVals
  <2>7. Succ(L)' = Succ(L) \cup {u, v}
    BY <1>1, <2>3, <2>4, <2>5 DEF Succ, OpenUpVals
  <2> QED  BY <1>1, <2>1, <2>6, <2>7
<1>8. RefsOK'
  <2>1. currentwhite # "none"  BY DEF TypeOK, Whites
  <2> QED  BY <1>1, <1>2, <1>3, <1>5, <2>1 DEF RefsOK
<1>9. HeapKept'
  <2>1. \A x \in Kept' : Succ(x)' \subseteq Kept'
    BY <1>1, <1>4, <1>6, <1>7 DEF HeapKept, Kept
  <2> QED  BY <1>2, <1>3, <1>4, <2>1 DEF HeapKept, In
<1>10. UpValsOK' /\ UpValOwnerAlive'
  <2>1. currentwhite # "gray" /\ where[L] # "free"  BY <1>1 DEF TypeOK, Whites, Kept
  <2>2. \A t \in Threads : t \in Object /\ t # u  BY <1>5 DEF Object
  <2> QED
    BY <1>1, <1>2, <1>3, <1>5, <2>1, <2>2 DEF UpValsOK, UpValOwnerAlive, IsDead, OtherWhite, TypeOK
<1>11. SweepOK'
  BY <1>2, <1>3 DEF SweepOK, Allocated, IsDead, OtherWhite, NonWhite, KeepInvariant, TypeOK, Whites
<1>12. ListsOK' /\ GrayIsListed'
  BY <1>2, <1>3 DEF ListsOK, GrayIsListed, KeepInvariant, Allocated, TypeOK, Whites
<1>13. TriColor'
  <2> SUFFICES ASSUME KeepInvariant, NEW b \in Object, color'[b] = "black",
                      NEW x \in Succ(b)', IsWhite(x)'
               PROVE  FALSE
    BY <1>2 DEF TriColor, KeepInvariant
  <2>1. b # u /\ color[b] = "black" /\ b \notin Threads
    BY <1>2, <1>3 DEF TypeOK, Whites, ListsOK
  <2>2. x \in Succ(b) /\ b \in Kept
    BY <1>1, <1>2, <1>7, <2>1 DEF Kept, RefsOK, IsDead, OtherWhite, TypeOK, Whites
  <2>3. x \in Kept /\ x # u  BY <1>2, <2>2 DEF HeapKept, Kept
  <2> QED  BY <1>3, <2>1, <2>2, <2>3 DEF TriColor, IsWhite, Kept
<1> QED  BY <1>8, <1>9, <1>10, <1>11, <1>12, <1>13

-----------------------------------------------------------------------------
(* Barriers. *)

\* reallymarkobject on kept objects.
LEMMA Marking ==
    ASSUME GCInv, NEW S \in SUBSET Kept
    PROVE  /\ \A o \in Object : \/ Marked(S)[o] = color[o]
                                \/ IsWhite(o) /\ o \in Kept /\ Marked(S)[o] \in {"gray", "black"}
           /\ \A o \in S : Marked(S)[o] \notin Whites
           /\ \A o \in Object : Marked(S)[o] = "black" /\ color[o] # "black" =>
                  /\ o \notin Threads \cup Closures \cup Tables
                  /\ o \in UpVals => owner[o] = Closed
                  /\ \A x \in Succ(o) : Marked(S)[x] \notin Whites
           /\ \A o \in Object : Marked(S)[o] = "gray" /\ color[o] # "gray" =>
                  o \in Linked(S) \/ (o \in UpVals /\ owner[o] # Closed)
           /\ Linked(S) \subseteq HasGCList \cap Allocated
<1> USE DEF GCInv
<1>1. S \subseteq Object  BY DEF Kept
<1>2. \A u \in UpVals : refs[u] \subseteq Value
  BY KindsAssumption DEF RefsOK, Object
<1>3. ToMark(S) \subseteq Kept
  BY <1>1, RefsKept DEF ToMark
<1>4. \A o \in ToMark(S) : IsWhite(o) /\ o \in Object  BY <1>3 DEF ToMark, Kept
<1>5. \A o \in Object : Marked(S)[o] = IF o \in ToMark(S) THEN MarkColor(o) ELSE color[o]
  BY DEF Marked
<1>6. \A o \in S : Marked(S)[o] \notin Whites
  BY <1>1, <1>5 DEF ToMark, IsWhite, MarkColor, Whites
<1>7. ASSUME NEW o \in Object, Marked(S)[o] = "black", color[o] # "black"
      PROVE  /\ o \notin Threads \cup Closures \cup Tables
             /\ o \in UpVals => owner[o] = Closed
             /\ \A x \in Succ(o) : Marked(S)[x] \notin Whites
  <2>1. o \in ToMark(S) /\ (o \in Strings \/ (o \in UpVals /\ owner[o] = Closed))
    BY <1>5, <1>7 DEF MarkColor
  <2>2. o \notin Threads \cup Closures \cup Tables
    BY <2>1, KindsAssumption
  <2>3. CASE o \in Strings
    BY <2>2, <2>3, KindsAssumption DEF Succ, RefsOK
  <2>4. CASE o \in UpVals /\ owner[o] = Closed
    <3>1. Succ(o) = refs[o] /\ refs[o] \subseteq Object
      BY <2>2 DEF Succ, TypeOK
    <3>2. o \in S  BY <1>2, <2>1, <2>4 DEF ToMark, Value
    <3>3. \A x \in refs[o] : IsWhite(x) => x \in ToMark(S)
      BY <2>1, <2>4, <3>2, <1>4 DEF ToMark
    <3> QED  BY <2>2, <2>4, <3>1, <3>3, <1>5 DEF MarkColor, IsWhite, Whites
  <2> QED  BY <2>1, <2>3, <2>4
<1>8. ASSUME NEW o \in Object, Marked(S)[o] = "gray", color[o] # "gray"
      PROVE  o \in Linked(S) \/ (o \in UpVals /\ owner[o] # Closed)
  BY <1>5, <1>8 DEF MarkColor, Linked, HasGCList, Object
<1>9. Linked(S) \subseteq HasGCList \cap Allocated
  BY <1>3 DEF Linked, Kept, Allocated
<1> QED  BY <1>3, <1>4, <1>5, <1>6, <1>7, <1>8, <1>9 DEF MarkColor

\* How a barrier may change the color of an object: one that is white and kept is
\* marked, and only while marking; one that is not white may turn white, and only
\* in a sweep.
Recolored(o) ==
    \/ color'[o] = color[o]
    \/ KeepInvariant /\ IsWhite(o) /\ o \in Kept /\ color'[o] \in {"gray", "black"}
    \/ o \in NonWhite /\ color'[o] \in {"gray", "black"}
    \/ o \in NonWhite /\ ~KeepInvariant /\ color'[o] = currentwhite

LEMMA RecoloredKeeps ==
    ASSUME GCInv, TypeOK', \A o \in Object : Recolored(o),
           UNCHANGED <<gcstate, currentwhite, where, tosweep>>
    PROVE  /\ Kept' = Kept
           /\ \A o \in Object : IsDead(o)' <=> IsDead(o)
           /\ \A o \in Object : color'[o] = "none" <=> color[o] = "none"
           /\ \A o \in Object : KeepInvariant /\ IsWhite(o)' => IsWhite(o)
           /\ SweepOK'
<1> USE DEF GCInv, Recolored
<1>1. \A o \in Object : IsDead(o)' <=> IsDead(o)
  BY DEF IsDead, OtherWhite, IsWhite, Kept, TypeOK, Whites, NonWhite
<1>2. Kept' = Kept  BY <1>1 DEF Kept
<1>3. \A o \in Object : color'[o] = "none" <=> color[o] = "none"
  BY DEF IsWhite, Whites, NonWhite, TypeOK
<1>4. \A o \in Object : KeepInvariant /\ IsWhite(o)' => IsWhite(o)
  BY DEF IsWhite, Whites, NonWhite
<1>5. \A o \in NonWhite' : KeepInvariant \/ o \in NonWhite
  BY DEF NonWhite
<1>6. SweepOK'
  BY <1>1, <1>5 DEF SweepOK, Allocated, KeepInvariant, NonWhite
<1> QED  BY <1>1, <1>2, <1>3, <1>4, <1>6

\* A field of 'x' is assigned the kept value 'v', and the barriers see to colors.
LEMMA FieldAssigned ==
    ASSUME GCInv, TypeOK', NEW x \in Kept \ (Threads \cup Strings), NEW v \in Kept,
           NEW R \in SUBSET (refs[x] \cup {v}), x \notin Closures => v \in Value,
           refs' = [refs EXCEPT ![x] = R],
           \A o \in Object : Recolored(o),
           \A u \in UpVals : color'[u] = "gray" => color[u] = "gray" \/ owner[u] # Closed,
           UNCHANGED <<gcstate, currentwhite, where, owner, roots, twups, tosweep>>
    PROVE  RefsOK' /\ HeapKept' /\ UpValsOK' /\ UpValOwnerAlive' /\ SweepOK'
<1> USE DEF GCInv
<1>1. /\ Kept' = Kept /\ SweepOK'
      /\ \A o \in Object : IsDead(o)' <=> IsDead(o)
      /\ \A o \in Object : color'[o] = "none" <=> color[o] = "none"
  BY RecoloredKeeps
<1>2. x \in Object /\ refs[x] \subseteq Kept /\ where[x] # "free"  BY RefsKept DEF Kept
<1>3. \A o \in Object : refs'[o] = IF o = x THEN R ELSE refs[o]
  BY DEF TypeOK
<1>4. RefsOK'
  BY <1>1, <1>2, <1>3 DEF RefsOK
<1>5. \A o \in Kept : Succ(o)' \subseteq Kept
  <2>1. ASSUME NEW o \in Kept \ Threads PROVE Succ(o)' \subseteq Kept
    BY <1>2, <1>3, <2>1, RefsKept DEF Succ, Kept
  <2>2. ASSUME NEW o \in Kept \cap Threads PROVE Succ(o)' \subseteq Kept
    <3>1. refs'[o] \subseteq Kept  BY <1>3, <2>2, RefsKept DEF Kept
    <3>2. OpenUpVals(o)' = OpenUpVals(o) /\ OpenUpVals(o) \subseteq Object
      BY DEF OpenUpVals, Object
    <3>3. \A u \in OpenUpVals(o) : u \in Kept /\ refs[u] \subseteq Kept
      BY <2>2, RefsKept DEF HeapKept, Succ
    <3>4. \A u \in OpenUpVals(o) : refs'[u] \subseteq Kept
      BY <1>2, <1>3, <3>2, <3>3
    <3> QED  BY <2>2, <3>1, <3>2, <3>3, <3>4 DEF Succ
  <2> QED  BY <2>1, <2>2
<1>6. HeapKept'  BY <1>1, <1>5 DEF HeapKept, In, Kept
<1>7. UpValsOK' /\ UpValOwnerAlive'
  <2>1. \A u \in UpVals : owner[u] # Closed => owner[u] \in Object
    BY DEF TypeOK, Object
  <2> QED  BY <1>1, <2>1 DEF UpValsOK, UpValOwnerAlive
<1> QED  BY <1>1, <1>4, <1>6, <1>7

LEMMA StoreStep ==
    ASSUME GCInv, TypeOK', NEW L, NEW t, NEW v, Store(L, t, v)
    PROVE  GCInv'
<1> USE DEF GCInv
<1>1. /\ L \in Threads /\ t \in Tables /\ t \in Kept /\ v \in Kept \cap Value
      /\ t \notin Threads \cup Strings \cup UpVals
  BY RunningKept, KindsAssumption DEF Store, HeapKept
<1>2. /\ refs' = [refs EXCEPT ![t] = @ \cup {v}]
      /\ BarrierBack(t, v)
      /\ UNCHANGED <<gcstate, currentwhite, where, owner, roots, twups, gray, tosweep>>
  BY DEF Store, cycle
<1>3. \A o \in Object : refs'[o] = IF o = t THEN refs[t] \cup {v} ELSE refs[o]
  BY <1>2 DEF TypeOK
<1>4. \A o \in Object : \/ color'[o] = color[o]
                        \/ o = t /\ color[t] = "black" /\ color'[t] = "gray"
  BY <1>2 DEF BarrierBack, TypeOK
<1>5. RefsOK' /\ HeapKept' /\ UpValsOK' /\ UpValOwnerAlive' /\ SweepOK'
  <2>1. \A o \in Object : Recolored(o)  BY <1>4 DEF Recolored, NonWhite
  <2>2. \A u \in UpVals : u \in Object /\ u # t  BY <1>1 DEF Object
  <2> QED  BY <1>1, <1>2, <1>4, <2>1, <2>2, FieldAssigned
<1>6. ListsOK' /\ GrayIsListed'
  <2>1. \A o \in Object : color'[o] # color[o] => o \in grayagain'
    BY <1>2 DEF BarrierBack, TypeOK
  <2>2. grayagain \subseteq grayagain' /\ grayagain' \subseteq grayagain \cup {t}
    BY <1>2 DEF BarrierBack
  <2>3. \A th \in Threads : th \in Object /\ color'[th] = color[th]
    BY <1>1, <1>4, KindsAssumption DEF Object
  <2> QED
    BY <1>1, <1>2, <2>1, <2>2, <2>3 DEF ListsOK, GrayIsListed, KeepInvariant, Allocated, Kept
<1>7. TriColor'
  <2> SUFFICES ASSUME KeepInvariant, NEW b \in Object, color'[b] = "black",
                      NEW x \in Succ(b)', IsWhite(x)'
               PROVE  FALSE
    BY <1>2 DEF TriColor, KeepInvariant
  <2>1. color[b] = "black" /\ b \notin Threads
    BY <1>4 DEF ListsOK
  <2>2. Succ(b)' = refs'[b] /\ Succ(b) = refs[b]  BY <2>1 DEF Succ
  <2>3. x \in Object /\ IsWhite(x)
    BY <1>1, <1>3, <1>4, <2>2 DEF TypeOK, IsWhite, Whites
  <2>4. CASE x \in refs[b]  BY <2>1, <2>2, <2>3, <2>4 DEF TriColor
  <2>5. CASE b = t /\ x = v
    BY <1>1, <1>2, <2>1, <2>3, <2>5 DEF BarrierBack, TypeOK
  <2> QED  BY <1>3, <2>2, <2>4, <2>5
<1> QED  BY <1>5, <1>6, <1>7

\* What was marked in a step that keeps the gray lists is in them.
LEMMA MarkedListed ==
    ASSUME GCInv, KeepInvariant, NEW S \in SUBSET Kept, NEW X,
           \A o \in Object \ X : color'[o] = Marked(S)[o],
           \A o \in X : o \in Object /\ color'[o] # "gray",
           gray' = gray \cup Linked(S),
           UNCHANGED <<gcstate, where, grayagain, twups>>,
           \A u \in UpVals \ X : owner'[u] = owner[u],
           \A t \in Threads : t \notin X
    PROVE  GrayIsListed' /\ ListsOK'
<1> USE DEF GCInv
<1>1. \A o \in Object : color'[o] = "gray" => color[o] = "gray" \/ o \in Linked(S)
                                              \/ (o \in UpVals /\ owner[o] # Closed)
  BY Marking
<1>2. \A u \in UpVals : owner[u] # Closed => owner[u] \in twups
  BY DEF UpValsOK, SweepOK, KeepInvariant, TypeOK, Object
<1>3. GrayIsListed'
  BY <1>1, <1>2 DEF GrayIsListed, KeepInvariant, Object
<1>4. \A t \in Threads : color'[t] # "black"
  BY Marking DEF ListsOK, Object
<1>5. ListsOK'
  BY <1>4, Marking DEF ListsOK, KeepInvariant, Allocated
<1> QED  BY <1>3, <1>5

\* An assignment that goes through the forward barrier.
LEMMA ForwardStep ==
    ASSUME GCInv, TypeOK', NEW x \in Kept \ (Threads \cup Strings), NEW v \in Kept,
           NEW R \in SUBSET (refs[x] \cup {v}), x \notin Closures => v \in Value,
           refs' = [refs EXCEPT ![x] = R],
           IF color[x] = "black" /\ IsWhite(v) THEN Barrier(x, v)
           ELSE UNCHANGED <<color, gray>>,
           UNCHANGED <<gcstate, currentwhite, where, owner, roots, grayagain, twups, tosweep>>
    PROVE  GCInv'
<1> USE DEF GCInv
<1>1. x \in Object /\ \A o \in Object : refs'[o] = IF o = x THEN R ELSE refs[o]
  BY DEF TypeOK, Kept
<1>2. CASE KeepInvariant /\ color[x] = "black" /\ IsWhite(v)
  <2>1. color' = Marked({v}) /\ gray' = gray \cup Linked({v})
    BY <1>2 DEF Barrier
  <2>2. \A o \in Object : Recolored(o)  BY <1>2, <2>1, Marking DEF Recolored
  <2>3. \A u \in UpVals : color'[u] = "gray" => color[u] = "gray" \/ owner[u] # Closed
    BY <2>1, Marking, KindsAssumption DEF Linked, HasGCList, Object
  <2>4. RefsOK' /\ HeapKept' /\ UpValsOK' /\ UpValOwnerAlive' /\ SweepOK'
    BY <2>2, <2>3, FieldAssigned
  <2>5. GrayIsListed' /\ ListsOK'
    <3> DEFINE X == {}
    <3>1. /\ \A o \in Object \ X : color'[o] = Marked({v})[o]
          /\ \A o \in X : o \in Object /\ color'[o] # "gray"
          /\ \A u \in UpVals \ X : owner'[u] = owner[u]
          /\ \A t \in Threads : t \notin X
      BY <2>1
    <3> HIDE DEF X
    <3> QED  BY <1>2, <2>1, <3>1, MarkedListed
  <2>6. TriColor'
    <3> SUFFICES ASSUME NEW b \in Object, color'[b] = "black",
                        NEW y \in Succ(b)', IsWhite(y)'
                 PROVE  FALSE
      BY DEF TriColor
    <3>1. b \notin Threads  BY <1>2, <2>5, KindsAssumption DEF ListsOK, KeepInvariant
    <3>2. Succ(b)' = refs'[b] /\ Succ(b) = refs[b]  BY <3>1 DEF Succ
    <3>3. y \in Object  BY <3>2 DEF TypeOK
    <3>4. IsWhite(y) /\ y # v /\ Marked({v})[y] = color[y]
      BY <1>2, <2>1, <3>3, Marking DEF IsWhite, Whites
    <3>5. y \in refs[b]  BY <1>1, <3>2, <3>4
    <3>6. CASE color[b] = "black"  BY <1>2, <3>2, <3>4, <3>5, <3>6 DEF TriColor
    <3>7. CASE color[b] # "black"
      BY <2>1, <3>2, <3>4, <3>5, <3>7, Marking DEF IsWhite
    <3> QED  BY <3>6, <3>7
  <2> QED  BY <2>4, <2>5, <2>6
<1>3. CASE ~KeepInvariant /\ color[x] = "black" /\ IsWhite(v)
  <2>1. color' = [color EXCEPT ![x] = currentwhite]  BY <1>3 DEF Barrier
  <2>5. \A o \in Object : color'[o] = IF o = x THEN currentwhite ELSE color[o]
    BY <2>1 DEF TypeOK
  <2>2. \A o \in Object : Recolored(o)
    BY <1>1, <1>3, <2>5 DEF Recolored, NonWhite
  <2>3. \A u \in UpVals : color'[u] = "gray" => color[u] = "gray" \/ owner[u] # Closed
    <3>1. \A u \in UpVals : u \in Object  BY DEF Object
    <3> QED  BY <2>5, <3>1 DEF TypeOK, Whites
  <2>4. RefsOK' /\ HeapKept' /\ UpValsOK' /\ UpValOwnerAlive' /\ SweepOK'
    BY <2>2, <2>3, FieldAssigned
  <2> QED  BY <1>3, <2>4 DEF KeepInvariant, ListsOK, GrayIsListed, TriColor
<1>4. CASE ~(color[x] = "black" /\ IsWhite(v))
  <2>1. UNCHANGED <<color, gray>>  BY <1>4
  <2>2. RefsOK' /\ HeapKept' /\ UpValsOK' /\ UpValOwnerAlive' /\ SweepOK'
    BY <2>1, FieldAssigned DEF Recolored
  <2>3. GrayIsListed' /\ ListsOK'
    BY <2>1 DEF GrayIsListed, ListsOK, KeepInvariant, Allocated
  <2>4. TriColor'
    <3> SUFFICES ASSUME KeepInvariant, NEW b \in Object, color[b] = "black",
                        NEW y \in Succ(b)', IsWhite(y)
                 PROVE  FALSE
      BY <2>1 DEF TriColor, KeepInvariant, IsWhite
    <3>1. b \notin Threads  BY DEF ListsOK
    <3>2. Succ(b)' = refs'[b] /\ Succ(b) = refs[b]  BY <3>1 DEF Succ
    <3> QED  BY <1>1, <1>4, <3>2 DEF TriColor
  <2> QED  BY <2>2, <2>3, <2>4
<1> QED  BY <1>2, <1>3, <1>4

LEMMA SetFieldStep ==
    ASSUME GCInv, TypeOK', NEW L, NEW x, NEW v, SetField(L, x, v)
    PROVE  GCInv'
<1> USE DEF GCInv
<1>1. L \in Threads /\ L \in Kept /\ x \in Kept /\ x \notin Threads \cup Strings
  BY RunningKept, KindsAssumption DEF SetField
<1>2. v \in Kept /\ (x \notin Closures => v \in Value)
  <2>1. CASE v \in refs[L]  BY <2>1, RunningKept DEF SetField
  <2>2. CASE v \in OpenUpVals(L) /\ x \in Closures  BY <1>1, <2>2 DEF HeapKept, Succ
  <2>3. ASSUME NEW c \in refs[L], v \in refs[c], x \in Closures
        PROVE  v \in Kept
    BY <1>1, <2>3, RefsKept
  <2> QED  BY <2>1, <2>2, <2>3 DEF SetField
<1> QED  BY <1>1, <1>2, ForwardStep DEF SetField, cycle

LEMMA SetUpValStep ==
    ASSUME GCInv, TypeOK', NEW L, NEW c, NEW u, NEW v, SetUpVal(L, c, u, v)
    PROVE  GCInv'
<1>1. L \in Threads /\ c \in Kept /\ v \in Kept \cap Value
  BY RunningKept DEF SetUpVal
<1>2. u \in Kept /\ u \notin Threads \cup Strings
  BY <1>1, RefsKept, KindsAssumption DEF SetUpVal
<1> QED  BY <1>1, <1>2, ForwardStep DEF SetUpVal, cycle

LEMMA CloseUpValStep ==
    ASSUME GCInv, TypeOK', NEW L, NEW u, CloseUpVal(L, u)
    PROVE  GCInv'
<1> USE DEF GCInv
<1> DEFINE whites == {v \in refs[u] : IsWhite(v)}
<1>1. /\ L \in Threads /\ L \in Kept /\ u \in UpVals /\ u \in Object /\ u \in Kept
      /\ owner[u] = L /\ u \notin Threads /\ L # Closed
      /\ owner' = [owner EXCEPT ![u] = Closed] /\ CloseBarrier(u)
      /\ UNCHANGED <<gcstate, currentwhite, where, refs, roots, twups, grayagain, tosweep>>
  BY RunningKept, KindsAssumption DEF CloseUpVal, OpenUpVals, cycle, Object, HeapKept, Succ, Threads
<1>2. \A x \in UpVals : owner'[x] = IF x = u THEN Closed ELSE owner[x]
  BY <1>1 DEF TypeOK
<1>3. whites \subseteq Kept /\ whites \subseteq Value
  BY <1>1, RefsKept, KindsAssumption DEF RefsOK
<1>4. /\ color'[u] # "gray"
      /\ \/ \A o \in Object \ {u} : color'[o] = color[o]
         \/ KeepInvariant /\ \A o \in Object \ {u} : color'[o] = Marked(whites)[o]
      /\ \A v \in refs[u] : color'[u] = "black" /\ KeepInvariant => color'[v] \notin Whites
      /\ \/ color'[u] = color[u]
         \/ u \in NonWhite /\ (color'[u] = "black" \/ (color'[u] = currentwhite /\ ~KeepInvariant))
  <2>1. CASE IsWhite(u)
    BY <1>1, <2>1 DEF CloseBarrier, IsWhite, Whites
  <2>2. CASE ~IsWhite(u) /\ whites # {} /\ ~KeepInvariant
    <3>1. color' = [color EXCEPT ![u] = currentwhite]  BY <1>1, <2>2 DEF CloseBarrier
    <3>2. currentwhite \notin {"gray", "black"} /\ u \in NonWhite
      BY <1>1, <2>2 DEF TypeOK, Whites, NonWhite, RefsOK, Kept, IsWhite
    <3> QED  BY <1>1, <2>2, <3>1, <3>2 DEF TypeOK
  <2>3. CASE ~IsWhite(u) /\ (whites = {} \/ KeepInvariant)
    <3>1. color' = [Marked(whites) EXCEPT ![u] = "black"]  BY <1>1, <2>3 DEF CloseBarrier
    <3>2. color'[u] = "black" /\ \A o \in Object \ {u} : color'[o] = Marked(whites)[o]
      BY <1>1, <3>1 DEF Marked
    <3>3. u \in NonWhite
      BY <1>1, <2>3 DEF TypeOK, Whites, NonWhite, RefsOK, Kept, IsWhite
    <3>4. whites = {} => \A o \in Object : Marked(whites)[o] = color[o]
      BY DEF Marked, ToMark
    <3>5. \A v \in refs[u] : color'[v] \notin Whites
      <4> TAKE v \in refs[u]
      <4>1. v \in Object /\ v # u
        BY <1>1, KindsAssumption DEF RefsOK, Value
      <4>2. CASE v \in whites  BY <1>3, <3>2, <4>1, <4>2, Marking
      <4>3. CASE ~IsWhite(v)  BY <1>3, <3>2, <4>1, <4>3, Marking DEF IsWhite, Whites
      <4> QED  BY <4>2, <4>3
    <3> QED  BY <2>3, <3>2, <3>3, <3>4, <3>5
  <2> QED  BY <2>1, <2>2, <2>3
<1>5. \A o \in Object : Recolored(o)
  BY <1>3, <1>4, Marking DEF Recolored
<1>6. /\ Kept' = Kept /\ SweepOK'
      /\ \A o \in Object : IsDead(o)' <=> IsDead(o)
      /\ \A o \in Object : color'[o] = "none" <=> color[o] = "none"
  BY <1>1, <1>5, RecoloredKeeps
<1>7. \A o \in Object : Succ(o)' \subseteq Succ(o) /\ (o \notin Threads => Succ(o)' = refs[o])
  <2>1. \A o \in Threads : OpenUpVals(o)' \subseteq OpenUpVals(o)
    BY <1>1, <1>2, KindsAssumption DEF OpenUpVals, Threads, Object
  <2> QED  BY <1>1, <2>1 DEF Succ
<1>8. RefsOK'  BY <1>1, <1>6 DEF RefsOK
<1>9. HeapKept'  BY <1>1, <1>6, <1>7 DEF HeapKept, In, Kept
<1>10. UpValsOK' /\ UpValOwnerAlive'
  <2>1. \A w \in UpVals : owner[w] # Closed => owner[w] \in Object
    BY DEF TypeOK, Object
  <2>2. \A w \in UpVals \ {u} : color'[w] = "gray" => color[w] = "gray" \/ owner[w] # Closed
    BY <1>3, <1>4, Marking, KindsAssumption DEF Linked, HasGCList, Object
  <2> QED  BY <1>1, <1>2, <1>4, <1>6, <2>1, <2>2 DEF UpValsOK, UpValOwnerAlive
<1>11. ListsOK' /\ GrayIsListed'
  <2>1. CASE ~KeepInvariant
    BY <1>1, <2>1 DEF ListsOK, GrayIsListed, KeepInvariant
  <2>2. CASE KeepInvariant /\ IsWhite(u)
    BY <1>1, <1>2, <2>2 DEF CloseBarrier, ListsOK, GrayIsListed, KeepInvariant, Allocated, IsWhite, Whites
  <2>3. CASE KeepInvariant /\ ~IsWhite(u)
    <3>1. color' = [Marked(whites) EXCEPT ![u] = "black"] /\ gray' = gray \cup Linked(whites)
      BY <1>1, <2>3 DEF CloseBarrier
    <3> DEFINE X == {u}
    <3>2. /\ \A o \in Object \ X : color'[o] = Marked(whites)[o]
          /\ \A o \in X : o \in Object /\ color'[o] # "gray"
          /\ \A w \in UpVals \ X : owner'[w] = owner[w]
          /\ \A t \in Threads : t \notin X
      BY <1>1, <1>2, <1>4, <3>1 DEF Marked
    <3>3. whites \in SUBSET Kept  BY <1>3
    <3> HIDE DEF X, whites
    <3> QED  BY <1>1, <2>3, <3>1, <3>2, <3>3, MarkedListed
  <2> QED  BY <2>1, <2>2, <2>3
<1>12. TriColor'
  <2> SUFFICES ASSUME KeepInvariant, NEW b \in Object, color'[b] = "black",
                      NEW x \in Succ(b)', IsWhite(x)'
               PROVE  FALSE
    BY <1>1 DEF TriColor, KeepInvariant
  <2>1. b \notin Threads  BY <1>1, <1>11 DEF ListsOK, KeepInvariant
  <2>2. x \in refs[b] /\ x \in Object /\ Succ(b) = refs[b]
    BY <1>7, <2>1 DEF TypeOK, Succ
  <2>3. b # u  BY <1>4, <2>2 DEF IsWhite
  <2>4. IsWhite(x)  BY <1>1, <1>5, <2>2, RecoloredKeeps
  <2>5. CASE color[b] = "black"  BY <2>2, <2>4, <2>5 DEF TriColor
  <2>6. CASE color[b] # "black"
    <3>1. Marked(whites)[b] = "black"  BY <1>4, <2>3, <2>6
    <3>2. Marked(whites)[x] \notin Whites  BY <1>3, <2>2, <2>6, <3>1, Marking
    <3>3. b \in Strings \/ b \in UpVals
      BY <1>3, <2>6, <3>1, Marking DEF Object
    <3>4. x # u  BY <2>2, <3>3, <1>1, KindsAssumption DEF RefsOK, Value
    <3> QED  BY <1>4, <2>2, <2>3, <2>6, <3>2, <3>4 DEF IsWhite
  <2> QED  BY <2>5, <2>6
<1> QED  BY <1>8, <1>9, <1>6, <1>10, <1>11, <1>12

-----------------------------------------------------------------------------
(* Finalizers. *)

LEMMA CheckFinalizerStep ==
    ASSUME GCInv, TypeOK', NEW L, NEW o, CheckFinalizer(L, o)
    PROVE  GCInv'
<1> USE DEF GCInv
<1>1. /\ o \in Tables /\ o \in Object /\ o \in Kept /\ o \notin UpVals \cup Threads
      /\ where[o] = "allgc" /\ where' = [where EXCEPT ![o] = "finobj"]
      /\ UNCHANGED <<gcstate, currentwhite, refs, owner, roots, twups, gray, grayagain>>
  BY RunningKept, KindsAssumption DEF CheckFinalizer, heap, Object
<1>2. \A x \in Object : where'[x] = IF x = o THEN "finobj" ELSE where[x]
  BY <1>1 DEF TypeOK
<1>3. /\ \A x \in Object : color'[x] = IF x = o /\ SweepPhase THEN currentwhite ELSE color[x]
      /\ tosweep' \in {tosweep, tosweep \ {o}}
      /\ SweepPhase => tosweep' = tosweep \ {o}
  BY <1>1 DEF CheckFinalizer, TypeOK
<1>4. color[o] # "none" /\ currentwhite \in Whites /\ ~IsDead(o)
  BY <1>1 DEF RefsOK, TypeOK, Kept
<1>5. \A x \in Object : IsDead(x)' <=> IsDead(x)
  BY <1>1, <1>3, <1>4 DEF IsDead, OtherWhite, Whites
<1>6. Kept' = Kept  BY <1>2, <1>1, <1>5 DEF Kept
<1>7. \A x \in Object : Succ(x)' = Succ(x)  BY <1>1 DEF Succ, OpenUpVals
<1>8. RefsOK'  BY <1>1, <1>2, <1>3, <1>4 DEF RefsOK, Whites
<1>9. HeapKept'  BY <1>1, <1>2, <1>6, <1>7 DEF HeapKept, In, Kept
<1>10. UpValsOK' /\ UpValOwnerAlive'
  <2>1. \A w \in UpVals : w \in Object /\ w # o /\ (owner[w] # Closed => owner[w] \in Object)
    BY <1>1 DEF TypeOK, Object
  <2> QED  BY <1>1, <1>2, <1>3, <1>5, <2>1 DEF UpValsOK, UpValOwnerAlive
<1>11. SweepOK'
  <2>1. tosweep' \subseteq Allocated'
    BY <1>2, <1>3 DEF SweepOK, Allocated
  <2>2. \A x \in Object : IsDead(x)' => gcstate' = "swpallgc" /\ where'[x] = "allgc" /\ x \in tosweep'
    BY <1>1, <1>2, <1>3, <1>4, <1>5 DEF SweepOK
  <2>3. \A x \in NonWhite' : x \in NonWhite /\ (SweepPhase => x # o)
    BY <1>3, <1>4 DEF NonWhite, Whites
  <2>4. \A x \in NonWhite : KeepInvariant \/ SweepPhase
    BY DEF SweepOK, SweepPhase
  <2> QED
    BY <1>1, <1>2, <1>3, <2>1, <2>2, <2>3, <2>4 DEF SweepOK, KeepInvariant, NonWhite, SweepPhase
<1>12. ListsOK' /\ GrayIsListed' /\ TriColor'
  <2> SUFFICES ASSUME KeepInvariant PROVE ListsOK' /\ GrayIsListed' /\ TriColor'
    BY <1>1 DEF ListsOK, GrayIsListed, TriColor, KeepInvariant
  <2>1. \A x \in Object : color'[x] = color[x]  BY <1>3 DEF KeepInvariant, SweepPhase
  <2>2. \A x \in Object : Succ(x) \subseteq Object
    BY DEF TypeOK, Succ, OpenUpVals, Object
  <2>3. ListsOK' /\ GrayIsListed'
    BY <1>1, <1>2, <2>1 DEF ListsOK, GrayIsListed, KeepInvariant, Allocated, Object
  <2> QED  BY <1>7, <2>1, <2>2, <2>3, <1>1 DEF TriColor, KeepInvariant, IsWhite
<1> QED  BY <1>8, <1>9, <1>10, <1>11, <1>12

LEMMA CallFinalizerStep ==
    ASSUME GCInv, TypeOK', NEW o, NEW hastm, CallFinalizer(o, hastm)
    PROVE  GCInv'
<1> USE DEF GCInv
<1>1. /\ gcstate = "callfin" /\ o \in Tables /\ o \in Object /\ o \in Kept
      /\ where[o] = "tobefnz" /\ where' = [where EXCEPT ![o] = "allgc"]
      /\ refs' = IF hastm THEN [refs EXCEPT ![Main] = @ \cup {o}] ELSE refs
      /\ UNCHANGED <<gcstate, currentwhite, color, owner, roots, twups, gray, grayagain, tosweep>>
  BY DEF CallFinalizer, marks, cycle, In, HeapKept
<1>2. /\ \A x \in Object : where'[x] = IF x = o THEN "allgc" ELSE where[x]
      /\ \A x \in Object : refs'[x] = IF x = Main /\ hastm THEN refs[x] \cup {o} ELSE refs[x]
  BY <1>1 DEF TypeOK
<1>3. /\ Main \in Threads /\ Main \in Object /\ Main \in Kept
      /\ Main \notin UpVals \cup Strings /\ o \in Value
  BY <1>1, KindsAssumption DEF Threads, Object, HeapKept, Value
<1>4. \A x \in Object : IsDead(x)' <=> IsDead(x)
  BY <1>1 DEF IsDead, OtherWhite
<1>5. Kept' = Kept  BY <1>1, <1>2, <1>4 DEF Kept
<1>6. \A x \in Object : Succ(x)' \subseteq Succ(x) \cup (IF x = Main THEN {o} ELSE {})
  <2>1. \A u \in UpVals : refs'[u] = refs[u]  BY <1>2, <1>3 DEF Object
  <2> QED  BY <1>1, <1>2, <2>1 DEF Succ, OpenUpVals
<1>7. RefsOK'
  BY <1>1, <1>2, <1>3 DEF RefsOK, Kept
<1>8. HeapKept'  BY <1>1, <1>2, <1>5, <1>6 DEF HeapKept, In, Kept
<1>9. UpValsOK' /\ UpValOwnerAlive'
  <2>1. \A w \in UpVals : w \in Object /\ (owner[w] # Closed => owner[w] \in Object)
    BY DEF TypeOK, Object
  <2> QED  BY <1>1, <1>2, <1>4, <2>1 DEF UpValsOK, UpValOwnerAlive
<1>10. SweepOK'
  BY <1>1, <1>2, <1>4 DEF SweepOK, Allocated, NonWhite, KeepInvariant
<1>11. ListsOK' /\ GrayIsListed' /\ TriColor'
  BY <1>1 DEF ListsOK, GrayIsListed, TriColor, KeepInvariant
<1> QED  BY <1>7, <1>8, <1>9, <1>10, <1>11

-----------------------------------------------------------------------------
(* Steps that change the state of the collector only. *)

\* The heap, its colors and the gray lists being the same, what remains is that
\* marking starts with nothing new and that the sweep is sound.
LEMMA ControlStep ==
    ASSUME GCInv, TypeOK', UNCHANGED heap, UNCHANGED marks, UNCHANGED <<where, currentwhite>>,
           KeepInvariant' => KeepInvariant, SweepOK'
    PROVE  GCInv'
<1> USE DEF GCInv
<1>1. /\ Kept' = Kept /\ \A o \in Object : Succ(o)' = Succ(o)
      /\ \A o : IsDead(o)' <=> IsDead(o)
  BY DEF Kept, IsDead, OtherWhite, Succ, OpenUpVals, heap, marks
<1>2. RefsOK' /\ HeapKept'
  BY <1>1 DEF RefsOK, HeapKept, In, Kept, heap, marks
<1>3. UpValsOK' /\ UpValOwnerAlive'
  BY <1>1 DEF UpValsOK, UpValOwnerAlive, heap, marks
<1>4. ListsOK' /\ GrayIsListed' /\ TriColor'
  BY <1>1 DEF ListsOK, GrayIsListed, TriColor, Allocated, IsWhite, heap, marks
<1> QED  BY <1>2, <1>3, <1>4

LEMMA EnterAtomicStep == ASSUME GCInv, TypeOK', EnterAtomic PROVE GCInv'
<1>1. SweepOK'
  BY DEF GCInv, EnterAtomic, SweepOK, KeepInvariant, Allocated, NonWhite, IsDead, OtherWhite, marks
<1> QED  BY <1>1, ControlStep DEF EnterAtomic, KeepInvariant

LEMMA EndCycleStep == ASSUME GCInv, TypeOK', EndCycle PROVE GCInv'
<1>1. SweepOK'
  BY DEF GCInv, EndCycle, SweepOK, KeepInvariant, Allocated, NonWhite, IsDead, OtherWhite, marks
<1> QED  BY <1>1, ControlStep DEF EndCycle, KeepInvariant

LEMMA SweepNextListStep == ASSUME GCInv, TypeOK', SweepNextList PROVE GCInv'
<1> USE DEF GCInv, NextList
<1>1. UNCHANGED heap /\ UNCHANGED marks /\ UNCHANGED <<where, currentwhite>>
  BY DEF SweepNextList
<1>2. /\ \A o \in Object : ~IsDead(o) \/ o \in tosweep
      /\ \A o : IsDead(o)' <=> IsDead(o)
      /\ NonWhite' = NonWhite /\ Allocated' = Allocated
  BY <1>1 DEF SweepOK, IsDead, OtherWhite, NonWhite, Allocated, marks
<1>3. \A o \in NonWhite : where[o] \in {"allgc", "finobj", "tobefnz"}
  BY DEF NonWhite, RefsOK, TypeOK
<1>4. SweepOK' /\ ~KeepInvariant'
  <2>1. CASE NextList("swpallgc", "swpfinobj", In("finobj"))
    BY <1>1, <1>2, <1>3, <2>1 DEF SweepOK, KeepInvariant, In, Allocated, NonWhite
  <2>2. CASE NextList("swpfinobj", "swptobefnz", In("tobefnz"))
    BY <1>1, <1>2, <1>3, <2>2 DEF SweepOK, KeepInvariant, In, Allocated, NonWhite
  <2>3. CASE NextList("swptobefnz", "swpend", {})
    BY <1>1, <1>2, <1>3, <2>3 DEF SweepOK, KeepInvariant
  <2>4. CASE NextList("swpend", "callfin", {})
    BY <1>1, <1>2, <1>3, <2>4 DEF SweepOK, KeepInvariant
  <2> QED  BY <2>1, <2>2, <2>3, <2>4 DEF SweepNextList
<1> QED  BY <1>1, <1>4, ControlStep

LEMMA FullGCStep ==
    ASSUME GCInv, TypeOK', NEW e, FullGC(e)
    PROVE  GCInv'
<1>1. UNCHANGED heap /\ UNCHANGED marks /\ UNCHANGED <<where, currentwhite>>
  BY DEF FullGC
<1>2. SweepOK'
  <2>1. NonWhite' = NonWhite /\ Allocated' = Allocated /\ \A o : IsDead(o)' <=> IsDead(o)
    BY <1>1 DEF IsDead, OtherWhite, NonWhite, Allocated, marks
  <2>2. CASE KeepInvariant
    BY <1>1, <2>1, <2>2 DEF FullGC, GCInv, SweepOK, KeepInvariant, In, Allocated, NonWhite
  <2>3. CASE ~KeepInvariant
    BY <1>1, <2>1, <2>3 DEF FullGC, GCInv, SweepOK, KeepInvariant
  <2> QED  BY <2>2, <2>3
<1>3. KeepInvariant' => KeepInvariant  BY DEF FullGC, KeepInvariant
<1> QED  BY <1>1, <1>2, <1>3, ControlStep

\* Steps that change nothing of the heap and nothing of the cycle.
LEMMA DriverStep ==
    ASSUME GCInv, TypeOK', UNCHANGED heap, UNCHANGED marks, UNCHANGED cycle, UNCHANGED where
    PROVE  GCInv'
<1>1. SweepOK' /\ KeepInvariant' = KeepInvariant
  BY DEF GCInv, SweepOK, KeepInvariant, Allocated, NonWhite, IsDead, OtherWhite, marks, cycle
<1> QED  BY <1>1, ControlStep DEF cycle

-----------------------------------------------------------------------------
(* Marking. *)

LEMMA RestartStep == ASSUME GCInv, TypeOK', Restart PROVE GCInv'
<1> USE DEF GCInv
<1> DEFINE S == {Main} \cup roots \cup In("tobefnz")
<1>1. /\ gcstate = "pause" /\ gcstate' = "propagate"
      /\ color' = Marked(S) /\ gray' = Linked(S) /\ grayagain' = {}
      /\ UNCHANGED <<currentwhite, tosweep, where, refs, owner, roots, twups>>
  BY DEF Restart, heap
<1>2. S \in SUBSET Kept /\ NonWhite = {} /\ \A o \in Object : ~IsDead(o)
  BY <1>1 DEF HeapKept, SweepOK, KeepInvariant
<1> HIDE DEF S
<1>3. \A o \in Object : color[o] \notin {"gray", "black"}
  BY <1>2 DEF NonWhite
<1>4. \A o \in Object : color'[o] = color[o] \/ (IsWhite(o) /\ o \in Kept /\ color'[o] \in {"gray", "black"})
  BY <1>1, <1>2, Marking
<1>5. \A o \in Object : ~IsDead(o)' /\ (color'[o] = "none" <=> color[o] = "none")
  BY <1>1, <1>2, <1>4 DEF IsDead, OtherWhite, IsWhite, Whites
<1>6. Kept' = Kept  BY <1>1, <1>2, <1>5 DEF Kept
<1>7. \A o \in Object : Succ(o)' = Succ(o)  BY <1>1 DEF Succ, OpenUpVals
<1>8. RefsOK' /\ HeapKept'
  BY <1>1, <1>5, <1>6, <1>7 DEF RefsOK, HeapKept, In, Kept
<1>9. /\ \A u \in UpVals : owner[u] # Closed => owner[u] \in twups
      /\ \A o \in Object : color'[o] = "gray" => o \in Linked(S) \/ (o \in UpVals /\ owner[o] # Closed)
  <2>1. \A u \in UpVals : owner[u] # Closed => owner[u] \in Object
    BY DEF TypeOK, Object
  <2> QED  BY <1>1, <1>2, <1>3, <2>1, Marking DEF UpValsOK
<1>10. UpValsOK' /\ UpValOwnerAlive'
  <2>1. \A u \in UpVals : u \in Object /\ u \notin HasGCList
    BY KindsAssumption DEF Object, HasGCList, Threads
  <2> QED  BY <1>1, <1>9, <2>1 DEF UpValsOK, UpValOwnerAlive, Linked
<1>11. SweepOK'
  BY <1>1, <1>5 DEF SweepOK, KeepInvariant, Allocated
<1>12. ListsOK' /\ GrayIsListed'
  <2>1. \A t \in Threads : color'[t] # "black"
    BY <1>1, <1>2, <1>3, Marking DEF Object
  <2>2. gray' \subseteq Allocated'  BY <1>1, <1>2, Marking DEF Allocated
  <2>3. ListsOK'  BY <1>1, <2>1, <2>2 DEF ListsOK
  <2> QED  BY <1>1, <1>9, <2>3 DEF GrayIsListed
<1>13. TriColor'
  BY <1>1, <1>2, <1>3, <1>7, Marking DEF TriColor, IsWhite
<1> QED  BY <1>8, <1>10, <1>11, <1>12, <1>13

LEMMA PropagateMarkStep ==
    ASSUME GCInv, TypeOK', NEW o, PropagateMark(o)
    PROVE  GCInv'
<1> USE DEF GCInv
<1>1. /\ gcstate = "propagate" /\ o \in gray /\ o \in HasGCList
      /\ color' = [Marked(Succ(o)) EXCEPT ![o] = IF o \in Threads THEN "gray" ELSE "black"]
      /\ gray' = (gray \ {o}) \cup Linked(Succ(o))
      /\ grayagain' = grayagain \cup ({o} \cap Threads)
      /\ UNCHANGED <<gcstate, currentwhite, tosweep, where, refs, owner, roots, twups>>
  BY DEF PropagateMark, heap, cycle, TypeOK
<1>2. /\ KeepInvariant /\ KeepInvariant' /\ \A x \in Object : ~IsDead(x)
      /\ o \in Object /\ o \in Kept /\ o \notin UpVals \cup Strings
  BY <1>1, KindsAssumption DEF KeepInvariant, SweepOK, ListsOK, Kept, Allocated, HasGCList, Object
<1>3. Succ(o) \in SUBSET Kept  BY <1>2 DEF HeapKept
<1> DEFINE S == Succ(o)
<1>4. /\ \A x \in Object \ {o} : color'[x] = Marked(S)[x]
      /\ color'[o] = IF o \in Threads THEN "gray" ELSE "black"
  BY <1>1, <1>2 DEF Marked
<1>5. S \in SUBSET Kept  BY <1>3
<1>6. gray' = (gray \ {o}) \cup Linked(S)  BY <1>1
<1> HIDE DEF S
<1>7. /\ \A x \in Object : ~IsDead(x)'
      /\ \A x \in Object : color'[x] = "none" <=> color[x] = "none"
  BY <1>1, <1>2, <1>4, <1>5, Marking
     DEF IsDead, OtherWhite, IsWhite, Whites, Kept, RefsOK
<1>8. Kept' = Kept  BY <1>1, <1>2, <1>7 DEF Kept
<1>9. \A x \in Object : Succ(x)' = Succ(x)  BY <1>1 DEF Succ, OpenUpVals
<1>10. RefsOK' /\ HeapKept'
  BY <1>1, <1>7, <1>8, <1>9 DEF RefsOK, HeapKept, In, Kept
<1>11. \A x \in Object : color'[x] = "gray" =>
          color[x] = "gray" \/ x = o \/ x \in Linked(S) \/ (x \in UpVals /\ owner[x] # Closed)
  BY <1>4, <1>5, Marking
<1>12. \A u \in UpVals : owner[u] # Closed => owner[u] \in twups
  <2>1. \A u \in UpVals : owner[u] # Closed => owner[u] \in Object
    BY DEF TypeOK, Object
  <2> QED  BY <1>2, <2>1 DEF UpValsOK
<1>13. UpValsOK' /\ UpValOwnerAlive'
  <2>1. \A u \in UpVals : u \in Object /\ u \notin HasGCList
    BY KindsAssumption DEF Object, HasGCList, Threads
  <2> QED  BY <1>1, <1>11, <1>12, <2>1 DEF UpValsOK, UpValOwnerAlive, Linked
<1>14. SweepOK'
  BY <1>1, <1>2, <1>7 DEF SweepOK, KeepInvariant, Allocated
<1>15. GrayIsListed'
  <2> SUFFICES ASSUME NEW x \in Object, color'[x] = "gray"
               PROVE  x \in gray' \cup grayagain' \/ (x \in UpVals /\ owner'[x] \in twups')
    BY DEF GrayIsListed
  <2>1. CASE x = o  BY <1>1, <1>4, <2>1
  <2>2. CASE x # o /\ color[x] = "gray"
    BY <1>1, <1>2, <1>6, <2>2 DEF GrayIsListed
  <2>3. CASE x \in Linked(S)  BY <1>6, <2>3
  <2>4. CASE x \in UpVals /\ owner[x] # Closed  BY <1>1, <1>12, <2>4
  <2> QED  BY <1>11, <2>1, <2>2, <2>3, <2>4
<1>16. ListsOK'
  <2>1. \A t \in Threads : color'[t] # "black"
    <3> TAKE t \in Threads
    <3>1. t \in Object /\ color[t] # "black"  BY <1>2 DEF ListsOK, Object
    <3> QED  BY <1>4, <1>5, <3>1, Marking
  <2>2. gray' \cup grayagain' \subseteq Allocated'
    BY <1>1, <1>2, <1>5, <1>6, Marking DEF ListsOK, Allocated, Kept
  <2> QED  BY <2>1, <2>2 DEF ListsOK
<1>17. TriColor'
  <2> SUFFICES ASSUME NEW b \in Object, color'[b] = "black",
                      NEW x \in Succ(b), IsWhite(x)'
               PROVE  FALSE
    BY <1>9 DEF TriColor
  <2>1. x \in Object  BY DEF TypeOK, Succ, OpenUpVals, Object
  <2>2. x # o /\ Marked(S)[x] \in Whites  BY <1>4, <2>1 DEF IsWhite, Whites
  <2>3. IsWhite(x) /\ x \notin S  BY <1>5, <2>1, <2>2, Marking DEF IsWhite, Whites
  <2>4. CASE b = o  BY <2>3, <2>4 DEF S
  <2>5. CASE b # o /\ color[b] = "black"  BY <1>2, <2>3, <2>5 DEF TriColor
  <2>6. CASE b # o /\ color[b] # "black"  BY <1>4, <1>5, <2>2, <2>6, Marking
  <2> QED  BY <2>4, <2>5, <2>6
<1> QED  BY <1>10, <1>13, <1>14, <1>15, <1>16, <1>17

\* atomic(), before the finalizers are separated, marks what the program starts
\* from and whatever an object it marked refers to, and nothing that is dead.
LEMMA AtomicMarks ==
    ASSUME GCInv, gcstate = "enteratomic"
    PROVE  LET M0 == NonWhite \cup Trace(Anchors \cup Grays, NonWhite)
               M1 == M0 \cup Trace(RemarkedValues(M0), M0)
               M2 == M1 \cup Trace(Again, M1)
           IN  /\ NonWhite \cup Anchors \subseteq M2 /\ M2 \subseteq Kept
               /\ \A x \in M2 : Succ(x) \subseteq M2
<1> USE DEF GCInv
<1> DEFINE M0 == NonWhite \cup Trace(Anchors \cup Grays, NonWhite)
           M1 == M0 \cup Trace(RemarkedValues(M0), M0)
           M2 == M1 \cup Trace(Again, M1)
<1>1. KeepInvariant /\ \A o \in Object : o \in Kept <=> color[o] # "none"
  BY DEF KeepInvariant, SweepOK, Kept, RefsOK
<1>2. /\ NonWhite \subseteq Kept /\ gray \cup grayagain \subseteq Kept /\ Kept \subseteq Object
      /\ \A x \in Kept : Succ(x) \subseteq Kept
  BY <1>1 DEF NonWhite, ListsOK, Allocated, Kept, HeapKept, SweepOK

(* What each phase marks is kept. *)
<1>3. Anchors \cup Grays \subseteq Kept /\ Again \subseteq Kept
  BY <1>2 DEF Anchors, Grays, Again, SuccSet, HeapKept
<1>4. M0 \subseteq Kept  BY <1>2, <1>3, TraceWithin
<1> HIDE DEF M0
<1>5. RemarkedValues(M0) \subseteq Kept
  BY <1>4, RefsKept DEF RemarkedValues
<1>6. M1 \subseteq Kept  BY <1>2, <1>4, <1>5, TraceWithin
<1> HIDE DEF M1
<1>7. M2 \subseteq Kept  BY <1>2, <1>3, <1>6, TraceWithin
<1> HIDE DEF M2

(* Each phase marks what it starts from and what the objects it marks refer to. *)
<1>8. M0 \subseteq M1 /\ M1 \subseteq M2 /\ NonWhite \subseteq M0
  BY DEF M0, M1, M2
<1>9. /\ Anchors \cup Grays \subseteq M0
      /\ \A x \in M0 : x \in NonWhite \/ Succ(x) \subseteq M0
  BY <1>2, <1>3, TraceClosed DEF M0
<1>10. /\ RemarkedValues(M0) \subseteq M1
       /\ \A x \in M1 : x \in M0 \/ Succ(x) \subseteq M1
  BY <1>2, <1>5, TraceClosed DEF M1
<1>11. /\ Again \subseteq M2
       /\ \A x \in M2 : x \in M1 \/ Succ(x) \subseteq M2
  BY <1>2, <1>3, TraceClosed DEF M2
<1>12. ASSUME NEW x \in gray \cup grayagain PROVE Succ(x) \subseteq M2
  BY <1>8, <1>9, <1>11 DEF Grays, Again, SuccSet
<1>13. ASSUME NEW x \in NonWhite PROVE Succ(x) \subseteq M2
  <2>1. CASE color[x] = "black"
    <3>1. \A y \in Succ(x) : y \in Kept /\ ~IsWhite(y)
      BY <1>1, <1>2, <1>13, <2>1 DEF TriColor
    <3>2. \A y \in Succ(x) : y \in NonWhite
      BY <1>1, <1>2, <3>1 DEF NonWhite, IsWhite, TypeOK
    <3> QED  BY <1>8, <3>2
  <2>2. CASE x \in gray \cup grayagain  BY <1>12, <2>2
  <2>3. CASE x \in UpVals /\ owner[x] \in twups
    <3> DEFINE t == owner[x]
    <3>1. t \in Threads /\ x \in OpenUpVals(t) /\ x \notin Threads
      BY <2>3, KindsAssumption DEF TypeOK, OpenUpVals
    <3>2. Succ(x) = refs[x] /\ refs[x] \subseteq Succ(t)  BY <3>1 DEF Succ
    <3>3. CASE t \notin M0
      BY <1>8, <1>10, <1>13, <2>3, <3>2, <3>3 DEF RemarkedValues
    <3>4. CASE t \in M0 /\ t \notin NonWhite  BY <1>8, <1>9, <3>2, <3>4
    <3>5. CASE t \in NonWhite
      <4>1. t \in gray \cup grayagain
        BY <1>1, <3>1, <3>5, KindsAssumption DEF NonWhite, ListsOK, GrayIsListed
      <4> QED  BY <1>12, <3>2, <4>1
    <3> QED  BY <3>3, <3>4, <3>5
  <2> QED  BY <1>1, <1>13, <2>1, <2>2, <2>3 DEF NonWhite, GrayIsListed
<1>14. \A x \in M2 : Succ(x) \subseteq M2
  BY <1>8, <1>9, <1>10, <1>11, <1>13
<1>15. NonWhite \cup Anchors \subseteq M2 /\ M2 \subseteq Kept
  BY <1>7, <1>8, <1>9
<1> QED  BY <1>14, <1>15 DEF M0, M1, M2

LEMMA AtomicStep == ASSUME GCInv, TypeOK', Atomic PROVE GCInv'
<1> USE DEF GCInv
<1> DEFINE M0 == NonWhite \cup Trace(Anchors \cup Grays, NonWhite)
           M1 == M0 \cup Trace(RemarkedValues(M0), M0)
           M2 == M1 \cup Trace(Again, M1)
           F  == Separated(M2)
           M3 == M2 \cup Trace(In("tobefnz") \cup F, M2)
<1>1. /\ gcstate = "enteratomic" /\ gcstate' = "swpallgc" /\ currentwhite' = OtherWhite
      /\ color' = [o \in Object |->
                     IF o \notin M3 THEN color[o]
                     ELSE IF o \in UpVals /\ owner[o] # Closed THEN "gray" ELSE "black"]
      /\ where' = [o \in Object |-> IF o \in F THEN "tobefnz" ELSE where[o]]
      /\ twups' = {t \in Threads \cap M3 : OpenUpVals(t) # {}}
      /\ tosweep' = In("allgc")
      /\ UNCHANGED <<refs, owner, roots>>
  BY DEF Atomic
<1>2. /\ KeepInvariant /\ \A o \in Object : ~IsDead(o)
      /\ \A o \in Object : o \in Kept <=> color[o] # "none"
  BY <1>1 DEF KeepInvariant, SweepOK, Kept, RefsOK
<1>3. Kept \subseteq Object /\ \A x \in Kept : Succ(x) \subseteq Kept
  BY <1>2 DEF Kept, HeapKept
<1>4. /\ NonWhite \cup Anchors \subseteq M2 /\ M2 \subseteq Kept
      /\ \A x \in M2 : Succ(x) \subseteq M2
  BY <1>1, AtomicMarks
<1> HIDE DEF M2
<1>5. In("tobefnz") \cup F \subseteq Kept
  BY <1>2 DEF HeapKept, Separated, In, Kept
<1> HIDE DEF F
<1>6. M3 \subseteq Kept  BY <1>3, <1>4, <1>5, TraceWithin
<1>7. M2 \cup NonWhite \cup Anchors \subseteq M3  BY <1>4
<1>8. /\ In("tobefnz") \cup F \subseteq M3
       /\ \A x \in M3 : x \in M2 \/ Succ(x) \subseteq M3
  BY <1>3, <1>5, TraceClosed
<1>9. \A x \in M3 : Succ(x) \subseteq M3
  BY <1>4, <1>8
<1> HIDE DEF M3

(* Hence, with the whites exchanged, what is kept is what was marked. *)
<1>10. /\ \A o \in Object : color'[o] = IF o \notin M3 THEN color[o]
                             ELSE IF o \in UpVals /\ owner[o] # Closed THEN "gray" ELSE "black"
       /\ \A o \in Object : where'[o] = IF o \in F THEN "tobefnz" ELSE where[o]
       /\ F \subseteq M3 /\ M3 \subseteq Object
  BY <1>1, <1>3, <1>6, <1>8
<1>11. \A o \in Object : IsDead(o)' <=> o \notin M3 /\ color[o] = currentwhite
  BY <1>1, <1>10 DEF IsDead, OtherWhite, TypeOK, Whites
<1>12. \A o \in Object : color[o] = "none" \/ o \in M3 \/ IsDead(o)'
  BY <1>2, <1>7, <1>11 DEF NonWhite, IsDead, OtherWhite, TypeOK, Whites
<1>13. \A o \in Object : where'[o] = "free" <=> color[o] = "none"
  BY <1>2, <1>6, <1>10 DEF RefsOK, Kept
<1>14. Kept' = M3
  BY <1>2, <1>6, <1>10, <1>11, <1>12, <1>13 DEF Kept
<1>15. \A o \in Object : Succ(o)' = Succ(o)  BY <1>1 DEF Succ, OpenUpVals
<1>16. RefsOK'
  BY <1>1, <1>2, <1>6, <1>10, <1>13 DEF RefsOK, Kept
<1>17. HeapKept'
  <2>1. {Main} \cup roots \cup In("tobefnz")' \subseteq M3
    BY <1>7, <1>8, <1>10 DEF Anchors, In
  <2>2. In("finobj")' \cup In("tobefnz")' \subseteq Tables
    BY <1>10 DEF HeapKept, In, F, Separated
  <2> QED  BY <1>1, <1>9, <1>10, <1>14, <1>15, <2>1, <2>2 DEF HeapKept
<1>18. UpValsOK' /\ UpValOwnerAlive'
  <2>1. \A u \in UpVals : owner[u] # Closed =>
            u \in OpenUpVals(owner[u]) /\ owner[u] \in Threads /\ owner[u] \in Object
    BY DEF TypeOK, OpenUpVals, Object
  <2>2. \A u \in UpVals : u \in Object  BY DEF Object
  <2>3. \A u \in UpVals, t \in Threads : owner[u] = t => IsDead(t)' \/ t \in twups'
    <3> SUFFICES ASSUME NEW u \in UpVals, NEW t \in Threads, owner[u] = t, ~IsDead(t)'
                 PROVE  t \in twups'
      OBVIOUS
    <3>1. t \in Object /\ t # Closed /\ u \in OpenUpVals(t)
      BY KindsAssumption DEF Object, OpenUpVals
    <3>2. color[t] # "none"
      BY <3>1 DEF UpValOwnerAlive, RefsOK
    <3>3. t \in M3  BY <1>12, <3>1, <3>2
    <3> QED  BY <1>1, <3>1, <3>3
  <2>4. \A u \in UpVals : owner[u] = Closed => color'[u] # "gray"
    BY <1>10, <2>2 DEF UpValsOK
  <2>5. UpValOwnerAlive'
    BY <1>1, <1>13, <2>1, <2>2 DEF UpValOwnerAlive, RefsOK
  <2> QED  BY <1>1, <2>1, <2>3, <2>4, <2>5 DEF UpValsOK
<1>19. SweepOK'
  <2>1. tosweep' \subseteq Allocated'
    BY <1>1, <1>10 DEF In, Allocated
  <2>2. ASSUME NEW o \in Object, IsDead(o)'
        PROVE  where'[o] = "allgc" /\ o \in tosweep'
    <3>1. o \notin M3 /\ color[o] = currentwhite  BY <1>11, <2>2
    <3>2. where[o] # "free"  BY <3>1 DEF RefsOK, TypeOK, Whites
    <3>3. where[o] \notin {"finobj", "tobefnz"}
      BY <1>7, <1>8, <3>1 DEF In, F, Separated
    <3> QED  BY <1>1, <1>10, <3>1, <3>2, <3>3 DEF TypeOK, In
  <2>3. \A o \in NonWhite' : where'[o] = "allgc" => o \in tosweep'
    BY <1>1, <1>10 DEF NonWhite, In
  <2> QED  BY <1>1, <2>1, <2>2, <2>3 DEF SweepOK
<1>20. ListsOK' /\ GrayIsListed' /\ TriColor'
  BY <1>1 DEF ListsOK, GrayIsListed, TriColor, KeepInvariant
<1> QED  BY <1>16, <1>17, <1>18, <1>19, <1>20

-----------------------------------------------------------------------------
(* Sweeping. *)

LEMMA SweepObjectStep ==
    ASSUME GCInv, TypeOK', NEW o, SweepObject(o)
    PROVE  GCInv'
<1> USE DEF GCInv
<1>1. /\ ~KeepInvariant /\ ~KeepInvariant' /\ o \in tosweep /\ o \in Object
      /\ where[o] # "free" /\ tosweep' = tosweep \ {o}
      /\ UNCHANGED <<roots, twups, gray, grayagain, gcstate, currentwhite>>
  BY DEF SweepObject, SweepPhase, KeepInvariant, SweepOK, Allocated
<1>2. currentwhite \in Whites /\ OtherWhite' = OtherWhite /\ OtherWhite \in Whites
      /\ OtherWhite # currentwhite
  BY <1>1 DEF TypeOK, Whites, OtherWhite
<1>3. CASE IsDead(o)
  <2>1. /\ o \notin Kept /\ color[o] \in Whites /\ gcstate = "swpallgc"
        /\ o \notin {Main} \cup roots \cup In("tobefnz")
    BY <1>1, <1>2, <1>3 DEF SweepOK, HeapKept, IsDead, Kept
  <2> DEFINE closing == OpenUpVals(o) \cap NonWhite
             whitened == {u \in closing : \E v \in refs[u] : IsWhite(v)}
  <2>2. /\ color' = [x \in Object |-> IF x = o THEN "none"
                                      ELSE IF x \in whitened THEN currentwhite
                                      ELSE IF x \in closing THEN "black" ELSE color[x]]
        /\ where' = [where EXCEPT ![o] = "free"]
        /\ refs' = [refs EXCEPT ![o] = {}]
        /\ owner' = ClosedWith(o)
    BY <1>3 DEF SweepObject
  <2>3. /\ \A x \in Object \ {o} : \/ color'[x] = color[x] /\ x \notin closing
                                   \/ x \in closing /\ color'[x] \in {currentwhite, "black"}
        /\ color'[o] = "none"
        /\ \A x \in Object : where'[x] = IF x = o THEN "free" ELSE where[x]
        /\ \A x \in Object : refs'[x] = IF x = o THEN {} ELSE refs[x]
        /\ \A u \in UpVals : owner'[u] = IF u = o \/ owner[u] = o THEN Closed ELSE owner[u]
    BY <1>1, <2>2 DEF TypeOK, ClosedWith
  <2>4. \A x \in closing : x \in UpVals /\ x \in NonWhite /\ owner[x] = o
    BY DEF OpenUpVals
  <2> HIDE DEF closing
  <2>5. \A x \in Object \ {o} : /\ IsDead(x)' <=> IsDead(x)
                                /\ color'[x] = "none" <=> color[x] = "none"
    BY <1>2, <2>3, <2>4 DEF IsDead, NonWhite, Whites
  <2>6. ~IsDead(o)'  BY <1>2, <2>3 DEF IsDead, Whites
  <2>7. Kept' = Kept  BY <2>1, <2>3, <2>5 DEF Kept
  <2>8. \A x \in Kept : Succ(x)' \subseteq Kept
    <3> TAKE x \in Kept
    <3>1. x # o /\ x \in Object /\ refs'[x] = refs[x]  BY <2>1, <2>3 DEF Kept
    <3>2. OpenUpVals(x)' \subseteq OpenUpVals(x)
      BY <1>1, <2>3, <3>1, KindsAssumption DEF OpenUpVals
    <3>3. \A u \in OpenUpVals(x) : refs'[u] \subseteq refs[u]
      BY <2>3 DEF OpenUpVals, Object
    <3>4. Succ(x)' \subseteq Succ(x)  BY <3>1, <3>2, <3>3 DEF Succ
    <3> QED  BY <3>4 DEF HeapKept
  <2>9. RefsOK'  BY <2>3, <2>5 DEF RefsOK
  <2>10. HeapKept'
    BY <1>1, <2>1, <2>3, <2>7, <2>8 DEF HeapKept, In
  <2>11. UpValsOK' /\ UpValOwnerAlive'
    <3>1. \A u \in UpVals : u \in Object /\ (owner[u] # Closed => owner[u] \in Object)
      BY DEF TypeOK, Object
    <3>2. \A u \in UpVals : owner'[u] # Closed => u # o /\ owner[u] # o /\ owner'[u] = owner[u]
      BY <2>3
    <3>3. UpValOwnerAlive'
      BY <2>3, <3>1, <3>2 DEF UpValOwnerAlive
    <3>4. \A u \in UpVals : owner'[u] = Closed => color'[u] # "gray"
      <4> SUFFICES ASSUME NEW u \in UpVals, owner'[u] = Closed, u # o, u \notin closing
                   PROVE  color[u] # "gray"
        BY <1>2, <2>3, <3>1 DEF Whites
      <4>1. CASE owner[u] = Closed  BY <4>1 DEF UpValsOK
      <4>2. CASE owner[u] = o
        BY <3>1, <4>2 DEF closing, OpenUpVals, NonWhite
      <4> QED  BY <2>3, <4>1, <4>2
    <3>5. ASSUME NEW u \in UpVals, NEW t \in Object, owner'[u] = t, t # Closed
          PROVE  IsDead(t)' \/ t \in twups'
      BY <1>1, <2>5, <3>2, <3>5 DEF UpValsOK
    <3> QED  BY <3>1, <3>2, <3>3, <3>4, <3>5 DEF UpValsOK
  <2>12. SweepOK'
    <3>1. tosweep' \subseteq Allocated'
      BY <1>1, <2>3 DEF SweepOK, Allocated
    <3>2. \A x \in NonWhite' : x \in NonWhite /\ x # o
      BY <1>2, <2>3, <2>4 DEF NonWhite, Whites
    <3>3. \A x \in Object : IsDead(x)' => where'[x] = "allgc" /\ x \in tosweep'
      BY <1>1, <2>3, <2>5, <2>6 DEF SweepOK
    <3>4. \A x \in NonWhite' : where'[x] = "allgc" => x \in tosweep'
      BY <1>1, <2>1, <2>3, <3>2 DEF SweepOK, NonWhite, KeepInvariant
    <3> QED  BY <1>1, <2>1, <3>1, <3>3, <3>4 DEF SweepOK
  <2> QED
    BY <1>1, <2>9, <2>10, <2>11, <2>12 DEF ListsOK, GrayIsListed, TriColor, KeepInvariant
<1>4. CASE ~IsDead(o)
  <2>1. /\ color' = [color EXCEPT ![o] = currentwhite]
        /\ UNCHANGED <<where, refs, owner>>
    BY <1>4 DEF SweepObject
  <2>2. \A x \in Object : color'[x] = IF x = o THEN currentwhite ELSE color[x]
    BY <2>1 DEF TypeOK
  <2>3. color[o] # "none"  BY <1>1 DEF RefsOK
  <2>4. \A x \in Object : /\ IsDead(x)' <=> IsDead(x)
                          /\ color'[x] = "none" <=> color[x] = "none"
    BY <1>2, <1>4, <2>2, <2>3 DEF IsDead, Whites
  <2>5. Kept' = Kept /\ \A x \in Object : Succ(x)' = Succ(x)
    BY <2>1, <2>4 DEF Kept, Succ, OpenUpVals
  <2>6. RefsOK' /\ HeapKept'
    BY <1>1, <2>1, <2>4, <2>5 DEF RefsOK, HeapKept, In, Kept
  <2>7. UpValsOK' /\ UpValOwnerAlive'
    <3>1. \A u \in UpVals : u \in Object /\ (owner[u] # Closed => owner[u] \in Object)
      BY DEF TypeOK, Object
    <3> QED  BY <1>1, <1>2, <2>1, <2>2, <2>4, <3>1 DEF UpValsOK, UpValOwnerAlive, Whites
  <2>8. SweepOK'
    <3>1. \A x \in NonWhite' : x \in NonWhite /\ x # o
      BY <1>2, <2>2 DEF NonWhite, Whites
    <3> QED
      BY <1>1, <1>4, <2>1, <2>4, <3>1 DEF SweepOK, Allocated, KeepInvariant, NonWhite
  <2> QED
    BY <1>1, <2>6, <2>7, <2>8 DEF ListsOK, GrayIsListed, TriColor, KeepInvariant
<1> QED  BY <1>3, <1>4

-----------------------------------------------------------------------------
(* Types. *)

LEMMA MarkedType ==
    ASSUME TypeOK, NEW S
    PROVE  /\ Marked(S) \in [Object -> Whites \cup {"gray", "black", "none"}]
           /\ Linked(S) \subseteq HasGCList
BY DEF TypeOK, Marked, MarkColor, Linked

LEMMA BarrierType ==
    ASSUME TypeOK, NEW o, NEW v, Barrier(o, v)
    PROVE  /\ color' \in [Object -> Whites \cup {"gray", "black", "none"}]
           /\ gray' \subseteq HasGCList
<1>1. CASE KeepInvariant  BY <1>1, MarkedType DEF TypeOK, Barrier
<1>2. CASE ~KeepInvariant  BY <1>2 DEF TypeOK, Barrier
<1> QED  BY <1>1, <1>2

LEMMA CloseBarrierType ==
    ASSUME TypeOK, NEW u, CloseBarrier(u)
    PROVE  /\ color' \in [Object -> Whites \cup {"gray", "black", "none"}]
           /\ gray' \subseteq HasGCList
<1> DEFINE whites == {v \in refs[u] : IsWhite(v)}
<1>1. /\ Marked(whites) \in [Object -> Whites \cup {"gray", "black", "none"}]
      /\ Linked(whites) \subseteq HasGCList
  BY MarkedType
<1> QED  BY <1>1 DEF TypeOK, CloseBarrier

\* A step that pushes the objects of V on the stack of a thread.
LEMMA PushType ==
    ASSUME TypeOK, NEW L, NEW V, V \subseteq Object, refs' = [refs EXCEPT ![L] = @ \cup V],
           UNCHANGED <<where, owner, roots, twups>>,
           UNCHANGED marks, UNCHANGED cycle, UNCHANGED driver
    PROVE  TypeOK'
BY DEF TypeOK, marks, cycle, driver

LEMMA MutatorType == ASSUME TypeOK, Mutator PROVE TypeOK'
<1> USE DEF cycle, driver, marks, heap
<1>1. ASSUME NEW t, ClearRoot(t) PROVE TypeOK'
  BY <1>1 DEF TypeOK, ClearRoot
<1>2. ASSUME NEW L \in Threads, NEW o \in Value, NewObject(L, o) PROVE TypeOK'
  BY <1>2 DEF TypeOK, NewObject, Value
<1>3. ASSUME NEW L \in Threads, NEW o, Pop(L, o) PROVE TypeOK'
  BY <1>3 DEF TypeOK, Pop
<1>4. ASSUME NEW L \in Threads, NEW t, LoadRoot(L, t) PROVE TypeOK'
  BY <1>4, PushType DEF TypeOK, LoadRoot, Object
<1>5. ASSUME NEW L \in Threads, NEW t, SetRoot(L, t) PROVE TypeOK'
  BY <1>5, KindsAssumption DEF TypeOK, SetRoot
<1>6. ASSUME NEW L \in Threads, NEW t, CheckFinalizer(L, t) PROVE TypeOK'
  BY <1>6 DEF TypeOK, CheckFinalizer
<1>7. ASSUME NEW L \in Threads, NEW t, NEW v, Store(L, t, v) PROVE TypeOK'
  <2>1. refs' \in [Object -> SUBSET Object]
    BY <1>7 DEF TypeOK, Store, Object, Threads
  <2>2. color' \in [Object -> Whites \cup {"gray", "black", "none"}]
        /\ grayagain' \subseteq HasGCList
    BY <1>7 DEF TypeOK, Store, BarrierBack, HasGCList
  <2> QED  BY <1>7, <2>1, <2>2 DEF TypeOK, Store
<1>8. ASSUME NEW L \in Threads, NEW x, NEW v \in Value, Load(L, x, v) PROVE TypeOK'
  <2>1. {v} \subseteq Object  BY DEF Value
  <2> QED  BY <1>8, <2>1, PushType DEF Load
<1>9. ASSUME NEW L \in Threads, NEW th, NEW v \in Value, XMove(L, th, v) PROVE TypeOK'
  <2>1. {v} \subseteq Object  BY DEF Value
  <2> QED  BY <1>9, <2>1, PushType DEF XMove
<1>10. ASSUME NEW L \in Threads, NEW x, NEW v \in Object, SetField(L, x, v) PROVE TypeOK'
  <2>1. refs' \in [Object -> SUBSET Object]  BY <1>10 DEF TypeOK, SetField
  <2>2. /\ color' \in [Object -> Whites \cup {"gray", "black", "none"}]
        /\ gray' \subseteq HasGCList
    BY <1>10, BarrierType DEF TypeOK, SetField
  <2> QED  BY <1>10, <2>1, <2>2 DEF TypeOK, SetField
<1>11. ASSUME NEW L \in Threads, NEW x, NEW v, ClearField(L, x, v) PROVE TypeOK'
  BY <1>11 DEF TypeOK, ClearField
<1>12. ASSUME NEW L \in Threads, NEW u, CloseUpVal(L, u) PROVE TypeOK'
  <2>1. owner' \in [UpVals -> Threads \cup {Closed}]  BY <1>12 DEF TypeOK, CloseUpVal
  <2> QED  BY <1>12, <2>1, CloseBarrierType DEF TypeOK, CloseUpVal
<1>13. ASSUME NEW L \in Threads, NEW u, NEW v \in Value, NewUpVal(L, u, v) PROVE TypeOK'
  BY <1>13 DEF TypeOK, NewUpVal, Twups, Value
<1>14. ASSUME NEW L \in Threads, NEW c \in Closures, NEW u \in UpVals, GetUpVal(L, c, u)
       PROVE  TypeOK'
  <2>1. refs[u] \subseteq Object  BY DEF TypeOK, Object
  <2> QED  BY <1>14, <2>1, PushType DEF GetUpVal
<1>15. ASSUME NEW L \in Threads, NEW c, NEW u, NEW v \in Value, SetUpVal(L, c, u, v)
       PROVE  TypeOK'
  <2>1. refs' \in [Object -> SUBSET Object]  BY <1>15 DEF TypeOK, SetUpVal, Value
  <2>2. /\ color' \in [Object -> Whites \cup {"gray", "black", "none"}]
        /\ gray' \subseteq HasGCList
    BY <1>15, BarrierType DEF TypeOK, SetUpVal
  <2> QED  BY <1>15, <2>1, <2>2 DEF TypeOK, SetUpVal
<1> QED
  BY <1>1, <1>2, <1>3, <1>4, <1>5, <1>6, <1>7, <1>8, <1>9, <1>10, <1>11, <1>12, <1>13,
     <1>14, <1>15 DEF Mutator

LEMMA CollectorType == ASSUME TypeOK, Collector PROVE TypeOK'
<1> USE DEF cycle, driver, marks, heap
<1>1. CASE Restart
  BY <1>1, MarkedType DEF TypeOK, Restart, GCState
<1>2. ASSUME NEW o, PropagateMark(o) PROVE TypeOK'
  <2>1. color' \in [Object -> Whites \cup {"gray", "black", "none"}]
    BY <1>2, MarkedType DEF PropagateMark
  <2>2. gray' \subseteq HasGCList /\ grayagain' \subseteq HasGCList
    BY <1>2, MarkedType DEF TypeOK, PropagateMark, HasGCList
  <2> QED  BY <1>2, <2>1, <2>2 DEF TypeOK, PropagateMark
<1>3. CASE EnterAtomic  BY <1>3 DEF TypeOK, EnterAtomic, GCState
<1>4. CASE Atomic
  <2>1. color' \in [Object -> Whites \cup {"gray", "black", "none"}]
    BY <1>4 DEF TypeOK, Atomic
  <2>2. where' \in [Object -> {"allgc", "finobj", "tobefnz", "free"}]
    BY <1>4 DEF TypeOK, Atomic
  <2>3. /\ currentwhite' \in Whites /\ gcstate' \in GCState /\ tosweep' \subseteq Object
        /\ gray' = {} /\ grayagain' = {} /\ tolive' \in BOOLEAN
    BY <1>4 DEF Atomic, OtherWhite, Whites, GCState, In
  <2>4. twups' \subseteq Threads  BY <1>4 DEF Atomic
  <2> QED  BY <1>4, <2>1, <2>2, <2>3, <2>4 DEF TypeOK, Atomic
<1>5. ASSUME NEW o, SweepObject(o) PROVE TypeOK'
  <2>1. o \in Object /\ currentwhite \in Whites  BY <1>5 DEF TypeOK, SweepObject
  <2>2. CASE IsDead(o)
    <3>1. color' \in [Object -> Whites \cup {"gray", "black", "none"}]
      BY <1>5, <2>1, <2>2 DEF TypeOK, SweepObject
    <3>2. owner' \in [UpVals -> Threads \cup {Closed}]
      BY <1>5, <2>2 DEF TypeOK, SweepObject, ClosedWith
    <3>3. /\ where' \in [Object -> {"allgc", "finobj", "tobefnz", "free"}]
          /\ refs' \in [Object -> SUBSET Object]
      BY <1>5, <2>1, <2>2 DEF TypeOK, SweepObject
    <3>4. tolive' \in BOOLEAN /\ tosweep' \subseteq Object
      BY <1>5, <2>2 DEF TypeOK, SweepObject
    <3> QED  BY <1>5, <2>2, <3>1, <3>2, <3>3, <3>4 DEF TypeOK, SweepObject
  <2>3. CASE ~IsDead(o)
    BY <1>5, <2>1, <2>3 DEF TypeOK, SweepObject
  <2> QED  BY <2>2, <2>3
<1>6. CASE SweepNextList
  BY <1>6 DEF TypeOK, SweepNextList, NextList, GCState, In
<1>7. ASSUME NEW o, NEW hastm \in BOOLEAN, CallFinalizer(o, hastm) PROVE TypeOK'
  <2>1. o \in Object  BY <1>7 DEF CallFinalizer, In
  <2> QED  BY <1>7, <2>1 DEF TypeOK, CallFinalizer
<1>8. CASE EndCycle  BY <1>8 DEF TypeOK, EndCycle, GCState
<1>9. CASE TargetReached
  <2>1. targets' \in Seq(GCState) /\ emergency' \in 0..3
    BY <1>9 DEF TypeOK, TargetReached
  <2> QED  BY <1>9, <2>1 DEF TypeOK, TargetReached
<1> QED
  BY <1>1, <1>2, <1>3, <1>4, <1>5, <1>6, <1>7, <1>8, <1>9 DEF Collector

LEMMA FullGCType ==
    ASSUME TypeOK, NEW e, FullGC(e)
    PROVE  TypeOK'
<1>1. targets' \in Seq(GCState) /\ emergency' \in 0..3
  <2>1. FullInc \in Seq(GCState) /\ Len(FullInc) = 3  BY DEF FullInc, GCState
  <2> QED  BY <2>1 DEF TypeOK, FullGC
<1>2. gcstate' \in GCState /\ tosweep' \subseteq Object /\ tolive' \in BOOLEAN
  BY DEF TypeOK, FullGC, GCState, In
<1> QED  BY <1>1, <1>2 DEF TypeOK, FullGC, marks, heap

LEMMA TypeStep == TypeOK /\ [Next]_vars => TypeOK'
<1> SUFFICES ASSUME TypeOK, [Next]_vars PROVE TypeOK'  OBVIOUS
<1>1. CASE FinalizerReturns
  BY <1>1 DEF TypeOK, FinalizerReturns, marks, cycle, heap
<1>2. CASE UNCHANGED vars  BY <1>2 DEF TypeOK, vars
<1> QED
  BY <1>1, <1>2, MutatorType, CollectorType, FullGCType DEF Next

-----------------------------------------------------------------------------
(* Finalizers. *)

\* What atomic() puts up for finalization it had not marked, so it is garbage.
LEMMA AtomicFinalizes ==
    ASSUME GCInv, Atomic, NEW o \in Object, where'[o] = "tobefnz", where[o] # "tobefnz"
    PROVE  o \notin Reachable
<1> DEFINE M0 == NonWhite \cup Trace(Anchors \cup Grays, NonWhite)
           M1 == M0 \cup Trace(RemarkedValues(M0), M0)
           M2 == M1 \cup Trace(Again, M1)
<1>1. /\ gcstate = "enteratomic"
      /\ where' = [x \in Object |-> IF x \in Separated(M2) THEN "tobefnz" ELSE where[x]]
  BY DEF Atomic
<1>2. /\ Anchors \subseteq M2 /\ M2 \subseteq Object
      /\ \A x \in M2 : Succ(x) \subseteq M2
  BY <1>1, AtomicMarks DEF Kept
<1> HIDE DEF M2
<1>3. o \notin M2  BY <1>1 DEF Separated
<1>4. Reachable \subseteq M2  BY <1>2, TraceWithin DEF Reachable, Anchors
<1> QED  BY <1>3, <1>4

\* No other step puts an object up for finalization.
LEMMA OthersFinalizeNothing ==
    ASSUME TypeOK, [Next]_vars, ~Atomic, NEW o \in Object, where'[o] = "tobefnz"
    PROVE  where[o] = "tobefnz"
<1>1. where \in [Object -> {"allgc", "finobj", "tobefnz", "free"}]  BY DEF TypeOK
<1>2. CASE UNCHANGED where  BY <1>2
<1>3. ASSUME NEW x, NEW w \in {"allgc", "finobj", "free"}, where' = [where EXCEPT ![x] = w]
      PROVE  where[o] = "tobefnz"
  BY <1>1, <1>3
<1>4. CASE Mutator
  <2>1. ASSUME NEW L, NEW x, NewObject(L, x) \/ \E v : NewUpVal(L, x, v)
        PROVE  where' = [where EXCEPT ![x] = "allgc"]
    BY <2>1 DEF NewObject, NewUpVal
  <2>2. ASSUME NEW L, NEW x, CheckFinalizer(L, x)
        PROVE  where' = [where EXCEPT ![x] = "finobj"]
    BY <2>2 DEF CheckFinalizer
  <2>3. ASSUME NEW L, NEW x, NEW v,
               \/ Pop(L, v) \/ LoadRoot(L, x) \/ SetRoot(L, x) \/ Store(L, x, v)
               \/ Load(L, x, v) \/ XMove(L, x, v) \/ SetField(L, x, v)
               \/ ClearField(L, x, v) \/ GetUpVal(L, x, v) \/ ClearRoot(x)
        PROVE  UNCHANGED where
    BY <2>3 DEF Pop, LoadRoot, SetRoot, Store, Load, XMove, SetField, ClearField,
                GetUpVal, ClearRoot
  <2>4. ASSUME NEW L, NEW c, NEW u, NEW v, SetUpVal(L, c, u, v) \/ CloseUpVal(L, u)
        PROVE  UNCHANGED where
    BY <2>4 DEF SetUpVal, CloseUpVal
  <2>5. CASE \E t \in Tables : ClearRoot(t)  BY <1>2, <2>3, <2>5
  <2>6. ASSUME NEW L \in Threads,
               \/ \E x \in Value : NewObject(L, x)
               \/ \E t \in Tables : CheckFinalizer(L, t)
               \/ \E u \in UpVals, v \in Value : NewUpVal(L, u, v)
        PROVE  where[o] = "tobefnz"
    BY <1>3, <2>1, <2>2, <2>6
  <2>7. ASSUME NEW L \in Threads,
               \/ \E v \in Value : Pop(L, v)
               \/ \E t \in Tables : LoadRoot(L, t) \/ SetRoot(L, t)
               \/ \E t \in Tables, v \in Value : Store(L, t, v)
               \/ \E x \in Value \ Strings, v \in Value : Load(L, x, v)
               \/ \E th \in Threads, v \in Value : XMove(L, th, v)
               \/ \E x \in Tables \cup Closures, v \in Object :
                      SetField(L, x, v) \/ ClearField(L, x, v)
               \/ \E c \in Closures, u \in UpVals : GetUpVal(L, c, u)
        PROVE  where[o] = "tobefnz"
    BY <1>2, <2>3, <2>7
  <2>8. ASSUME NEW L \in Threads,
               \/ \E u \in UpVals : CloseUpVal(L, u)
               \/ \E c \in Closures, u \in UpVals, v \in Value : SetUpVal(L, c, u, v)
        PROVE  where[o] = "tobefnz"
    BY <1>2, <2>4, <2>8
  <2> QED  BY <1>4, <2>5, <2>6, <2>7, <2>8 DEF Mutator
<1>5. CASE Collector
  <2>1. \/ UNCHANGED where
        \/ \E x : where' = [where EXCEPT ![x] = "allgc"]
        \/ \E x : where' = [where EXCEPT ![x] = "free"]
    BY <1>5 DEF Collector, Restart, EnterAtomic, SweepNextList, NextList, EndCycle,
                TargetReached, PropagateMark, SweepObject, CallFinalizer
  <2> QED  BY <1>2, <1>3, <2>1
<1>6. CASE FinalizerReturns \/ \E e \in FullGCs : FullGC(e)
  BY <1>2, <1>6 DEF FinalizerReturns, FullGC
<1>7. CASE UNCHANGED vars  BY <1>2, <1>7 DEF vars
<1> QED  BY <1>4, <1>5, <1>6, <1>7 DEF Next

-----------------------------------------------------------------------------
(* The theorems. *)

LEMMA MutatorStep == ASSUME GCInv, TypeOK', Mutator PROVE GCInv'
<1>1. ASSUME NEW t, ClearRoot(t) PROVE GCInv'
  BY <1>1, RootsChange DEF GCInv, HeapKept, ClearRoot, marks, cycle
<1>2. ASSUME NEW L, NEW t, SetRoot(L, t) PROVE GCInv'
  BY <1>2, RunningKept, RootsChange DEF GCInv, HeapKept, SetRoot, marks, cycle
<1>3. ASSUME NEW L, NEW o, Pop(L, o) PROVE GCInv'
  <2>1. L \in Object \ UpVals
    BY <1>3, RunningKept, KindsAssumption DEF Pop, Object
  <2> QED  BY <1>3, <2>1, RefDropped DEF Pop, marks, cycle
<1>4. ASSUME NEW L, NEW x, NEW v, ClearField(L, x, v) PROVE GCInv'
  <2>1. x \in Object \ UpVals
    BY <1>4, KindsAssumption DEF ClearField, Object
  <2> QED  BY <1>4, <2>1, RefDropped DEF ClearField, marks, cycle
<1>5. ASSUME NEW L, NEW t \in Tables, LoadRoot(L, t) PROVE GCInv'
  <2>1. L \in Threads \cap Kept /\ {t} \in SUBSET (Kept \cap Value)
    BY <1>5, RunningKept, KindsAssumption DEF LoadRoot, GCInv, HeapKept, Value, Object
  <2> QED  BY <1>5, <2>1, StackGrows DEF LoadRoot, marks, cycle
<1>6. ASSUME NEW L, NEW x, NEW v, Load(L, x, v) PROVE GCInv'
  <2>1. L \in Threads \cap Kept /\ x \in Kept
    BY <1>6, RunningKept DEF Load, GCInv, HeapKept
  <2>2. {v} \in SUBSET (Kept \cap Value)  BY <1>6, <2>1, RefsKept DEF Load
  <2> QED  BY <1>6, <2>1, <2>2, StackGrows DEF Load, marks, cycle
<1>7. ASSUME NEW L, NEW th, NEW v, XMove(L, th, v) PROVE GCInv'
  <2>1. th \in Threads \cap Kept /\ {v} \in SUBSET (Kept \cap Value)
    BY <1>7, RunningKept DEF XMove
  <2> QED  BY <1>7, <2>1, StackGrows DEF XMove, marks, cycle
<1>8. ASSUME NEW L, NEW c \in Closures, NEW u \in UpVals, GetUpVal(L, c, u) PROVE GCInv'
  <2>1. L \in Threads \cap Kept /\ u \in Kept
    BY <1>8, RunningKept, RefsKept DEF GetUpVal
  <2>2. refs[u] \in SUBSET (Kept \cap Value)
    BY <2>1, RefsKept, KindsAssumption DEF GCInv, RefsOK, Kept
  <2> QED  BY <1>8, <2>1, <2>2, StackGrows DEF GetUpVal, marks, cycle
<1> QED
  BY <1>1, <1>2, <1>3, <1>4, <1>5, <1>6, <1>7, <1>8, NewObjectStep, NewUpValStep,
     StoreStep, SetFieldStep, SetUpValStep, CloseUpValStep, CheckFinalizerStep DEF Mutator

LEMMA CollectorStep == ASSUME GCInv, TypeOK', Collector PROVE GCInv'
<1>1. CASE TargetReached  BY <1>1, DriverStep DEF TargetReached
<1> QED
  BY <1>1, RestartStep, EnterAtomicStep, AtomicStep, SweepNextListStep, EndCycleStep,
     PropagateMarkStep, SweepObjectStep, CallFinalizerStep DEF Collector

LEMMA GCStep == GCInv /\ [Next]_vars => GCInv'
<1> SUFFICES ASSUME GCInv, [Next]_vars PROVE GCInv'  OBVIOUS
<1>1. TypeOK'  BY TypeStep DEF GCInv
<1>2. CASE FinalizerReturns  BY <1>1, <1>2, DriverStep DEF FinalizerReturns
<1>3. CASE UNCHANGED vars
  BY <1>1, <1>3, DriverStep DEF vars, heap, marks, cycle
<1> QED
  BY <1>1, <1>2, <1>3, MutatorStep, CollectorStep, FullGCStep DEF Next

\* Types are preserved by every step of the program and of the collector.
THEOREM GCTypes == Spec => []TypeOK
<1>1. Init => TypeOK  BY GCInit DEF GCInv
<1> QED  BY <1>1, TypeStep, PTL DEF Spec

\* The inductive invariant, of which the following are consequences.
THEOREM GCInvariant == Spec => []GCInv
<1> QED  BY GCInit, GCStep, PTL DEF Spec

\* For any objects, stacks and finalizers, at any point of a collection: a thread
\* or a table reachable from the main thread, the registry or the metatables has
\* not been freed and is not going to be swept as dead.
THEOREM GCSafe == Spec => []NoDangling
<1>1. GCInv => NoDangling  BY ReachableKept DEF GCInv
<1> QED  BY GCInit, GCStep, <1>1, PTL DEF Spec

\* The invariants of the mark phase that lgc.h states.
THEOREM GCMarks == Spec => [](TriColor /\ GrayIsListed)
<1>1. GCInv => TriColor /\ GrayIsListed  BY DEF GCInv
<1> QED  BY GCInit, GCStep, <1>1, PTL DEF Spec

\* An open upvalue never points into the stack of a freed thread.
THEOREM GCUpVals == Spec => []UpValOwnerAlive
<1>1. GCInv => UpValOwnerAlive  BY DEF GCInv
<1> QED  BY GCInit, GCStep, <1>1, PTL DEF Spec

\* When a sweep has finished nothing is left gray or black.
THEOREM GCSwept == Spec => []NothingBlackAfterSweep
<1>1. GCInv => NothingBlackAfterSweep
  BY DEF GCInv, SweepOK, NothingBlackAfterSweep, KeepInvariant
<1> QED  BY GCInit, GCStep, <1>1, PTL DEF Spec

\* For any objects and finalizers: an object whose finalizer is going to be
\* called (separatetobefnz moves it to 'tobefnz') could not be reached by the
\* program, whatever the barriers and the stacks did while it was being marked.
THEOREM GCFinalizes == Spec => FinalizeOnlyGarbage
<1> DEFINE Finalized(o) == where'[o] = "tobefnz" /\ where[o] # "tobefnz"
           OnlyGarbage  == \A o \in Object : Finalized(o) => o \notin Reachable
<1>1. GCInv /\ [Next]_vars => [OnlyGarbage]_vars
  <2> SUFFICES ASSUME GCInv, [Next]_vars, NEW o \in Object, Finalized(o)
               PROVE  o \notin Reachable
    OBVIOUS
  <2>1. Atomic  BY OthersFinalizeNothing DEF GCInv
  <2> QED  BY <2>1, AtomicFinalizes
<1>2. [][OnlyGarbage]_vars <=> FinalizeOnlyGarbage  BY DEF FinalizeOnlyGarbage
<1> QED  BY <1>1, <1>2, GCInvariant, PTL DEF Spec

=============================================================================
