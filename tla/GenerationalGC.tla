--------------------------- MODULE GenerationalGC ---------------------------
(***************************************************************************)
(* The generational mode of the collector (lgc.c): ages, touched objects,  *)
(* young collections, and the ways into and out of the mode, with the      *)
(* major collections that it makes incrementally.                          *)
(*                                                                         *)
(* A table (strong, or weak in keys and values) and a C closure have one   *)
(* field, a userdata none; a store into a table uses the back barrier,     *)
(* into a closure the forward one, into the stack of the thread none.  The *)
(* order of a gray list is left out.  Objects are numbered in the order    *)
(* of their creation; a freed one is not used again.                       *)
(***************************************************************************)
EXTENDS Integers, Sequences, FiniteSets, SequencesExt, FiniteSetsExt

CONSTANTS
    GenTypes,       \* the types that the objects may have: sequences of "table", "weak", "closure", "udata"
    AtStart,        \* how many of them exist before the program runs
    Finalizable,    \* the tables that may get a finalizer
    Work,           \* how many single steps an incremental step may have to do
    Modes,          \* the modes that the program asks for, "inc" or "minor"
    Collect(_, _, _),   \* Collected below, which TLC shall not unfold for its statistics
    MaxLive         \* how many objects the stack holds, without the argument of a finalizer

VARIABLES
    g,          \* the global state and the objects
    todo,       \* what the function of the collector that waits for a finalizer has still to do
    finalizing  \* whether a finalizer is running (gcstp has GCSTPGC)

genVars == <<g, todo, finalizing>>

MainThread == 0
NULL == -1

-----------------------------------------------------------------------------
(* Colors, ages and lists; "dead" is the white that is not the current one. *)

Ages == <<"new", "survival", "old0", "old1", "old", "touched1", "touched2">>
AgeNumber(age) == CHOOSE n \in DOMAIN Ages : Ages[n] = age

White(h, o) == h.color[o] \in {"white", "dead"}
IsOldIn(h, o) == h.age[o] \notin {"new", "survival"}
KeepsInvariant(h) == h.state \in {"propagate", "enteratomic", "atomic"}
InSweepPhase(h) == h.state \in {"swpallgc", "swpfinobj", "swptobefnz", "swpend"}

Asserted(h, holds) == [h EXCEPT !.bad = @ \/ ~holds]

\* A function changed to v on a set.
SetOn(f, S, v) == [o \in DOMAIN f |-> IF o \in S THEN v ELSE f[o]]

\* The elements of a list from a pointer on, NULL being its end, and those before it.
From(list, ptr) ==
    IF \E n \in DOMAIN list : list[n] = ptr
    THEN SubSeq(list, CHOOSE n \in DOMAIN list : list[n] = ptr, Len(list)) ELSE <<>>
UpTo(list, ptr) == SubSeq(list, 1, Len(list) - Len(From(list, ptr)))
First(list) == IF list = <<>> THEN NULL ELSE list[1]
Without(list, S) == SelectSeq(list, LAMBDA o : o \notin S)
Within(list, S) == SelectSeq(list, LAMBDA o : o \in S)

-----------------------------------------------------------------------------
(* Marking. *)

\* linkgclist.
LinkGray(h, S, list) ==
    [h EXCEPT ![list] = @ \cup S, !.color = SetOn(@, S, "gray"), !.bad = @ \/ \E o \in S : h.color[o] = "gray"]

\* reallymarkobject: a userdata without user values or metatable has nothing to visit.
ReallyMark(h, S) ==
    LET leaves == {o \in S : h.type[o] = "udata"}
    IN  [LinkGray(h, S \ leaves, "gray") EXCEPT !.color = SetOn(@, leaves, "black")]

MarkObjects(h, S) == ReallyMark(h, {o \in S : White(h, o)})

\* propagatemark of the objects of S: traversestrongtable with genlink, traversetable of a
\* table that is all weak, traverseCclosure and traversethread.
PropagateMarks(h, S) ==
    LET Typed(type) == {o \in S : h.type[o] = type}
        strong == {o \in Typed("table") : h.age[o] = "touched1"}
        threads == {o \in Typed("thread") : IsOldIn(h, o) \/ h.state = "propagate"}
        black == [h EXCEPT !.gray = @ \ S, !.color = SetOn(@, S, "black"),
                           !.age = SetOn(@, {o \in Typed("table") : h.age[o] = "touched2"}, "old")]
        linked == LinkGray(LinkGray(black, strong \cup threads, "grayagain"), Typed("weak"), "allweak")
    IN  MarkObjects(linked, UNION {h.refs[o] : o \in S \ Typed("weak")})

RECURSIVE PropagateAll(_)
PropagateAll(h) == IF h.gray = {} THEN h ELSE PropagateAll(PropagateMarks(h, h.gray))

ClearGrayLists(h) == [h EXCEPT !.gray = {}, !.grayagain = {}, !.allweak = {}]

RestartCollection(h) ==
    [MarkObjects(ClearGrayLists(h), {MainThread} \cup ToSet(h.tobefnz)) EXCEPT !.state = "propagate"]

\* The weak tables lose their values that are white.
ClearByValues(h, tables) ==
    [h EXCEPT !.refs = [o \in DOMAIN @ |-> IF o \in tables THEN {v \in @[o] : ~White(h, v)} ELSE @[o]]]

\* Mutant: only the new ones.
SeparateNew(h) ==
    LET moved == {o \in ToSet(UpTo(h.finobj, h.finobjsur)) : White(h, o)}
    IN  [h EXCEPT !.finobj = Without(@, moved), !.tobefnz = @ \o Within(h.finobj, moved)]

\* The unreachable objects with a finalizer, up to finobjold1, go to the end of tobefnz.
SeparateToBeFnz(h) ==
    LET moved == {o \in ToSet(UpTo(h.finobj, h.finobjold1)) : White(h, o)}
    IN  [h EXCEPT !.finobj = Without(@, moved),
                  !.finobjsur = First(Without(From(h.finobj, @), moved)),
                  !.tobefnz = @ \o Within(h.finobj, moved)]

AtomicPhase(h) ==
    LET a1 == PropagateAll(MarkObjects([h EXCEPT !.state = "atomic", !.grayagain = {}], {MainThread}))
        a2 == PropagateAll([a1 EXCEPT !.gray = h.grayagain])
        a3 == SeparateToBeFnz(ClearByValues(a2, a2.allweak))
        a4 == PropagateAll(MarkObjects(a3, ToSet(a3.tobefnz)))
        a5 == ClearByValues(a4, a4.allweak \ a2.allweak)
        Flipped(c) == CASE c = "white" -> "dead" [] c = "dead" -> "white" [] OTHER -> c
    IN  [Asserted(a5, ~White(h, MainThread)) EXCEPT !.color = [o \in DOMAIN @ |-> Flipped(@[o])]]

-----------------------------------------------------------------------------
(* Sweeping. *)

Freed(h, S) ==
    [h EXCEPT !.allgc = Without(@, S), !.finobj = Without(@, S), !.tobefnz = Without(@, S),
              !.color = SetOn(@, S, "freed"), !.age = SetOn(@, S, "new"), !.refs = SetOn(@, S, {})]

\* sweeplist of the first n objects of sweep, what is left of the current list.
SweepList(h, n) ==
    LET swept == ToSet(SubSeq(h.sweep, 1, n))
        dead == {o \in swept : h.color[o] = "dead"}
    IN  [Freed(h, dead) EXCEPT !.color = SetOn(@, swept \ dead, "white"), !.age = SetOn(@, swept \ dead, "new"),
                               !.sweep = SubSeq(@, n + 1, Len(@))]

SweepToLive(h) ==
    SweepList(h, CHOOSE n \in 0 .. Len(h.sweep) :
                   /\ n = Len(h.sweep) \/ (n > 0 /\ h.color[h.sweep[n]] # "dead")
                   /\ \A m \in 1 .. n - 1 : h.color[h.sweep[m]] = "dead")

EnterSweep(h) == SweepToLive([Asserted(h, h.sweep = <<>>) EXCEPT !.state = "swpallgc", !.sweep = h.allgc])

\* sweepstep: the rest of the list when fast, else one object (GCSWEEPMAX).
SweepStep(h, next, list, fast) ==
    IF h.sweep = <<>> THEN [h EXCEPT !.state = next, !.sweep = list]
    ELSE SweepList(h, IF fast THEN Len(h.sweep) ELSE 1)

Sweep2Old(h, list) ==
    LET dead == {o \in ToSet(list) : White(h, o)}
        kept == ToSet(list) \ dead
        old == [Freed(h, dead) EXCEPT !.age = SetOn(@, kept, "old"), !.bad = @ \/ \E o \in dead : h.color[o] # "dead"]
        black == [old EXCEPT !.color = SetOn(@, kept \ {MainThread}, "black")]
    IN  LinkGray(black, kept \cap {MainThread}, "grayagain")

\* Mutant: what survives a second time is old at once.
NextAgeOld(age) ==
    CASE age = "new" -> "survival" [] age \in {"survival", "old1", "old"} -> "old"
      [] age = "old0" -> "old1" [] OTHER -> age

NextAge(age) ==
    CASE age = "new" -> "survival" [] age \in {"survival", "old0"} -> "old1"
      [] age \in {"old1", "old"} -> "old" [] OTHER -> age

\* isallgc: whether the first OLD1 object is to be remembered.
SweepGen(h, list, isallgc) ==
    LET dead == {o \in ToSet(list) : White(h, o)}
        kept == ToSet(list) \ dead
        old1 == {o \in kept : NextAge(h.age[o]) = "old1"}
    IN  [Freed(h, dead) EXCEPT
           !.color = SetOn(@, {o \in kept : h.age[o] = "new"}, "white"),
           !.age = [o \in DOMAIN @ |-> IF o \in kept THEN NextAge(@[o]) ELSE @[o]],
           !.firstold1 = IF isallgc /\ @ = NULL THEN First(Within(list, old1)) ELSE @,
           !.bad = \/ @ \/ \E o \in dead : IsOldIn(h, o) \/ h.color[o] # "dead"
                   \/ \E o \in kept : h.age[o] = "old1"]

-----------------------------------------------------------------------------
(* Young collections. *)

MarkOld(h, list) ==
    LET old1 == {o \in ToSet(list) : h.age[o] = "old1"}
        old == [h EXCEPT !.age = SetOn(@, old1, "old"), !.bad = @ \/ \E o \in old1 : White(h, o)]
    IN  ReallyMark(old, {o \in old1 : h.color[o] = "black"})

\* The objects of the gray lists that are touched, or threads, remain in one of them.
CorrectGrayLists(h) ==
    LET listed == {o \in h.grayagain \cup h.allweak : ~White(h, o)}
        touched == {o \in listed : h.age[o] = "touched1"}
        threads == listed \cap {MainThread}
        rest == listed \ (touched \cup threads)
    IN  [h EXCEPT !.grayagain = touched \cup threads, !.allweak = {},
                  !.color = SetOn(@, touched \cup rest, "black"),
                  !.age = [o \in DOMAIN @ |-> IF o \in touched THEN "touched2"
                                              ELSE IF o \in rest /\ @[o] = "touched2" THEN "old" ELSE @[o]],
                  !.bad = \/ @ \/ \E o \in touched \cup threads : h.color[o] # "gray"
                          \/ \E o \in rest : ~IsOldIn(h, o)]

\* finishgencycle, up to the finalizers.
FinishGenCycle(h) == [CorrectGrayLists(h) EXCEPT !.state = "propagate"]

Minor2Inc(h, kind) ==
    EnterSweep([h EXCEPT !.kind = kind, !.reallyold = NULL, !.old1 = NULL, !.survival = NULL,
                         !.finobjrold = NULL, !.finobjold1 = NULL, !.finobjsur = NULL])

\* youngcollection: OLD1 objects are marked, and marks are propagated.
MarkedYoung(h) ==
    LET m1 == IF h.firstold1 = NULL THEN h
              ELSE [MarkOld(h, UpTo(From(h.allgc, h.firstold1), h.reallyold)) EXCEPT !.firstold1 = NULL]
        m2 == MarkOld(MarkOld(m1, UpTo(m1.finobj, m1.finobjrold)), m1.tobefnz)
    IN  [AtomicPhase(m2) EXCEPT !.state = "swpallgc"]

\* youngcollection: the sweep of nursery and survivals, and the new pointers into the lists.
SweptYoung(h) ==
    LET Survivals(list, sur, old1) == UpTo(From(list, sur), old1)
        Old1(list, survivals, old1) == First(Within(list, ToSet(survivals \o From(list, old1))))
        sur == Survivals(h.allgc, h.survival, h.old1)
        s1 == SweepGen(SweepGen(h, UpTo(h.allgc, h.survival), TRUE), sur, TRUE)
        finsur == Survivals(s1.finobj, s1.finobjsur, s1.finobjold1)
        s2 == SweepGen(SweepGen(s1, UpTo(s1.finobj, s1.finobjsur), FALSE), finsur, FALSE)
        s3 == [s2 EXCEPT !.reallyold = h.old1, !.old1 = Old1(s2.allgc, sur, h.old1), !.survival = First(s2.allgc),
                         !.finobjrold = h.finobjold1, !.finobjold1 = Old1(s2.finobj, finsur, h.finobjold1),
                         !.finobjsur = First(s2.finobj)]
    IN  SweepGen(s3, s3.tobefnz, FALSE)

\* checkminormajor depends on sizes: it may decide anything.
YoungCollected(h, shift) ==
    LET swept == SweptYoung(MarkedYoung(h)) IN IF shift THEN Minor2Inc(swept, "major") ELSE FinishGenCycle(swept)

Atomic2Gen(h) ==
    LET s1 == Sweep2Old([ClearGrayLists(h) EXCEPT !.state = "swpallgc"], h.allgc)
        s2 == Sweep2Old(s1, s1.finobj)
        s3 == Sweep2Old(s2, s2.tobefnz)
        all == First(s3.allgc)
        fin == First(s3.finobj)
    IN  FinishGenCycle([s3 EXCEPT !.kind = "minor", !.reallyold = all, !.old1 = all, !.survival = all, !.firstold1 = NULL,
                                  !.finobjrold = fin, !.finobjold1 = fin, !.finobjsur = fin])

-----------------------------------------------------------------------------
(* Control. *)

\* singlestep, but for the call of a finalizer.  checkmajorminor depends on sizes, too.
SingleStep(h, fast, tominor) ==
    CASE h.state = "pause" -> RestartCollection(h)
      [] h.state = "propagate" ->
           IF fast \/ h.gray = {} THEN [h EXCEPT !.state = "enteratomic"]
           ELSE PropagateMarks(h, {CHOOSE o \in h.gray : TRUE})
      [] h.state = "enteratomic" -> IF h.kind = "major" /\ tominor THEN Atomic2Gen(AtomicPhase(h)) ELSE EnterSweep(AtomicPhase(h))
      [] h.state = "swpallgc" -> SweepStep(h, "swpfinobj", h.finobj, fast)
      [] h.state = "swpfinobj" -> SweepStep(h, "swptobefnz", h.tobefnz, fast)
      [] h.state = "swptobefnz" -> SweepStep(h, "swpend", <<>>, fast)
      [] h.state = "swpend" -> [h EXCEPT !.state = "callfin"]
      [] h.state = "callfin" -> [h EXCEPT !.state = "pause"]

\* What is to be done until it is done or a finalizer has to be called, which an emergency
\* collection never does: vmkC_runtilstate, entergen, fullinc and callallpendingfinalizers.
RECURSIVE Run(_, _, _)
Run(h, tasks, emergency) ==
    LET Pending(s) == s.tobefnz # <<>> /\ ~emergency
        t == Head(tasks)
    IN  IF tasks = <<>> THEN [g |-> h, todo |-> tasks]
        ELSE IF t = "finalizers"
        THEN IF Pending(h) THEN [g |-> h, todo |-> tasks] ELSE Run(h, Tail(tasks), emergency)
        ELSE IF t = "atomic2gen"
        THEN Run(Atomic2Gen(AtomicPhase(h)), <<"finalizers">> \o Tail(tasks), emergency)
        ELSE IF t = "major" THEN Run([h EXCEPT !.kind = "major"], Tail(tasks), emergency)
        ELSE IF h.state = t THEN Run(h, Tail(tasks), emergency)
        ELSE IF h.state = "callfin" /\ Pending(h) THEN [g |-> h, todo |-> tasks]
        ELSE Run(SingleStep(Asserted(h, h.kind = "inc"), TRUE, FALSE), tasks, emergency)

EnterGen(h, emergency) == Run(h, <<"pause", "propagate", "atomic2gen">>, emergency)

\* vmkC_fullgc.
FullCollection(h, emergency) ==
    LET swept == IF KeepsInvariant(h) THEN EnterSweep(h) ELSE h
    IN  CASE h.kind = "minor" -> EnterGen(Minor2Inc(h, "inc"), emergency)
          [] h.kind = "inc" -> Run(swept, <<"pause", "callfin", "pause">>, emergency)
          [] h.kind = "major" -> Run([swept EXCEPT !.kind = "inc"], <<"pause", "callfin", "pause", "major">>, emergency)

ChangeMode(h, newmode) ==
    LET i == IF h.kind = "major" THEN [h EXCEPT !.kind = "inc"] ELSE h
    IN  IF newmode = i.kind THEN [g |-> i, todo |-> <<>>]
        ELSE IF newmode = "inc" THEN [g |-> Minor2Inc(i, "inc"), todo |-> <<>>]
        ELSE EnterGen(i, FALSE)

\* incstep: single steps until the work is done, or after the atomic phase, the end of the
\* cycle or the return to young collections; the call of a finalizer is a step of its own.
MayFinalize(h) == h.state = "callfin" /\ h.tobefnz # <<>>
RECURSIVE IncStep(_, _, _)
IncStep(h, work, tominor) ==
    LET s == SingleStep(h, FALSE, tominor)
    IN  IF MayFinalize(h) THEN h
        ELSE IF work = 1 \/ h.state = "enteratomic" \/ s.state = "pause" THEN s
        ELSE IncStep(s, work - 1, tominor)

\* The functions of the collector that the program calls: the state they leave, and what
\* they have still to do when they call a finalizer.
Collected(h, call, with) ==
    LET young == YoungCollected(h, with)
        step == IncStep(h, with[1], with[2])
    IN  CASE call = "young" -> Run(young, IF with THEN <<>> ELSE <<"finalizers">>, FALSE)
          [] call = "step" -> Run(step, IF step.kind = "minor" THEN <<"finalizers">> ELSE <<>>, FALSE)
          [] call = "full" -> FullCollection(h, FALSE)
          [] call = "emergency" -> FullCollection(h, TRUE)
          [] call = "changemode" -> ChangeMode(h, with)
          [] call = "resume" -> Run(h, with, FALSE)

\* udata2finalize.
ToFinalize(h) ==
    LET o == Head(h.tobefnz)
        moved == [h EXCEPT !.tobefnz = Tail(@), !.allgc = <<o>> \o @]
    IN  IF InSweepPhase(h) THEN [moved EXCEPT !.color[o] = "white"]
        ELSE IF h.age[o] = "old1" THEN [moved EXCEPT !.firstold1 = o]
        ELSE moved

\* vmkC_checkfinalizer of an object of allgc whose metatable has __gc.
CheckFinalizer(h, o) ==
    LET next == First(Tail(From(h.allgc, o)))
        Next(ptr) == IF ptr = o THEN next ELSE ptr
        iscursor == h.sweep # <<>> /\ next = h.sweep[1]
        swept == IF ~InSweepPhase(h) THEN [h EXCEPT !.survival = Next(@), !.old1 = Next(@), !.reallyold = Next(@), !.firstold1 = Next(@)]
                 ELSE LET w == [h EXCEPT !.color[o] = "white", !.sweep = Without(@, {o})]
                      IN  IF h.state = "swpallgc" /\ iscursor THEN SweepToLive(w) ELSE w
    IN  [swept EXCEPT !.allgc = Without(@, {o}), !.finobj = <<o>> \o @]

\* The barriers for a store of v into o.
Barrier(h, o, v) ==
    IF ~(h.color[o] = "black" /\ White(h, v)) THEN h
    ELSE LET a == Asserted(h, h.color[v] = "white")
         IN  IF KeepsInvariant(h)
             THEN IF IsOldIn(h, o) THEN [ReallyMark(a, {v}) EXCEPT !.age[v] = "old0", !.bad = @ \/ IsOldIn(h, v)]
                  ELSE ReallyMark(a, {v})
             ELSE IF h.kind # "minor" THEN [Asserted(a, InSweepPhase(h)) EXCEPT !.color[o] = "white"]
             ELSE Asserted(a, InSweepPhase(h))

BarrierBack(h, o, v) ==
    IF ~(h.color[o] = "black" /\ White(h, v)) THEN h
    ELSE LET a == Asserted(h, h.kind # "minor" \/ (IsOldIn(h, o) /\ h.age[o] # "touched1"))
             gray == IF h.age[o] = "touched2" THEN [a EXCEPT !.color[o] = "gray"] ELSE LinkGray(a, {o}, "grayagain")
         IN  IF IsOldIn(h, o) THEN [gray EXCEPT !.age[o] = "touched1"] ELSE gray

-----------------------------------------------------------------------------
(* The program, which runs when the collector does not. *)

Stack_ == g.refs[MainThread]
ProgramRuns == (todo = <<>> \/ finalizing) /\ UNCHANGED <<todo, finalizing>>

GenNew ==
    /\ ProgramRuns /\ Cardinality(Stack_) < MaxLive
    /\ \E o \in DOMAIN g.color :
         /\ g.color[o] = "free" /\ (o = 1 \/ g.color[o - 1] # "free")
         /\ g' = [g EXCEPT !.allgc = <<o>> \o @, !.color[o] = "white", !.refs[MainThread] = @ \cup {o}]

GenStore ==
    /\ ProgramRuns
    /\ \E o, v \in Stack_ :
         /\ g.type[o] # "udata"
         /\ g' = [IF g.type[o] = "closure" THEN Barrier(g, o, v) ELSE BarrierBack(g, o, v) EXCEPT !.refs[o] = {v}]

GenClear ==
    /\ ProgramRuns
    /\ \E o \in Stack_ : g.refs[o] # {} /\ g' = [g EXCEPT !.refs[o] = {}]

GenLoad ==
    /\ ProgramRuns /\ Cardinality(Stack_) < MaxLive
    /\ \E o \in Stack_ : \E v \in g.refs[o] : g' = [g EXCEPT !.refs[MainThread] = @ \cup {v}]

GenPop ==
    /\ ProgramRuns
    /\ \E o \in Stack_ : g' = [g EXCEPT !.refs[MainThread] = @ \ {o}]

GenSetFinalizer ==
    /\ ProgramRuns
    /\ \E o \in Stack_ \cap Finalizable : Contains(g.allgc, o) /\ g' = CheckFinalizer(g, o)

Program == GenNew \/ GenStore \/ GenClear \/ GenLoad \/ GenPop \/ GenSetFinalizer

-----------------------------------------------------------------------------
(* The collector. *)

Idle == todo = <<>> /\ ~finalizing

Call(name, with) == LET r == Collect(g, name, with) IN g' = r.g /\ todo' = r.todo

GenYoung ==
    /\ Idle /\ g.kind = "minor"
    /\ \E shift \in BOOLEAN : Call("young", shift)
    /\ UNCHANGED finalizing

GenStep ==
    /\ Idle /\ g.kind # "minor" /\ ~MayFinalize(g)
    /\ \E tominor \in BOOLEAN, work \in Work : Call("step", <<work, tominor>>)
    /\ UNCHANGED finalizing

\* GCTM, from the call of the finalizer with its object to its return.
GenFinalizer ==
    /\ ~finalizing
    /\ todo # <<>> \/ (g.kind # "minor" /\ MayFinalize(g))
    /\ g' = [ToFinalize(g) EXCEPT !.refs[MainThread] = @ \cup {Head(g.tobefnz)}]
    /\ finalizing' = TRUE
    /\ UNCHANGED todo

GenFinalizerReturns ==
    /\ finalizing
    /\ Call("resume", todo)
    /\ finalizing' = FALSE

\* A full collection that the program asks for.
GenFull == Idle /\ Call("full", 0) /\ UNCHANGED finalizing

\* An allocation that fails, in the program or in a finalizer.
GenEmergency == ProgramRuns /\ g' = Collect(g, "emergency", 0).g

GenChangeMode ==
    /\ Idle
    /\ \E newmode \in Modes : Call("changemode", newmode)
    /\ UNCHANGED finalizing

Collector == GenYoung \/ GenStep \/ GenFinalizer \/ GenFinalizerReturns \/ GenFull \/ GenEmergency \/ GenChangeMode

\* vmk_newstate, and objects that the program starts with; vmk.c changes the mode before it
\* runs a program.
Fresh(types) ==
    LET Objects == 0 .. Len(types)
        All(v) == [o \in Objects |-> v]
    IN  [type |-> [o \in Objects |-> IF o = MainThread THEN "thread" ELSE types[o]],
         allgc |-> [n \in 1 .. AtStart + 1 |-> AtStart + 1 - n], finobj |-> <<>>, tobefnz |-> <<>>,
         survival |-> NULL, old1 |-> NULL, reallyold |-> NULL, firstold1 |-> NULL,
         finobjsur |-> NULL, finobjold1 |-> NULL, finobjrold |-> NULL,
         color |-> SetOn(All("free"), 0 .. AtStart, "white"), age |-> All("new"),
         refs |-> SetOn(All({}), {MainThread}, 1 .. AtStart),
         gray |-> {}, grayagain |-> {}, allweak |-> {}, sweep |-> <<>>,
         kind |-> "inc", state |-> "pause", bad |-> FALSE]

GenInit ==
    /\ \E types \in GenTypes : g = Collect(Fresh(types), "changemode", "minor").g
    /\ todo = <<>>
    /\ finalizing = FALSE

GenNext == Program \/ Collector

GenSpec == GenInit /\ [][GenNext]_genVars

-----------------------------------------------------------------------------
(* Properties. *)

Listed == ToSet(g.allgc \o g.finobj \o g.tobefnz)

RECURSIVE ReachedFrom(_)
ReachedFrom(S) ==
    LET T == S \cup UNION {g.refs[o] : o \in S} IN IF T = S THEN S ELSE ReachedFrom(T)

\* What the program can reach, and what finalizers will, exists and is not about to be freed.
Alive == \A o \in ReachedFrom({MainThread} \cup ToSet(g.finobj \o g.tobefnz)) : o \in Listed

\* checkobject and testobjref1 of ltests.c, which the repository's tests run with.
ObjectSound(o, listage) ==
    g.color[o] # "dead" =>
      /\ g.state = "pause" => White(g, o)
      /\ g.kind = "minor" =>
           /\ AgeNumber(g.age[o]) >= AgeNumber(listage)
           /\ IsOldIn(g, o) => ~White(g, o)
           /\ IsOldIn(g, o) => g.color[o] = "black" \/ g.age[o] \in {"touched1", "old0"} \/ g.type[o] = "thread"
           /\ g.age[o] = "touched1" => g.color[o] = "gray"
      /\ \A v \in g.refs[o] :
           /\ g.color[v] \notin {"dead", "free"}
           /\ g.type[o] = "thread" \/ InSweepPhase(g)
              \/ IF g.kind = "minor"
                 THEN /\ g.age[o] = "old" /\ g.color[o] = "black" => IsOldIn(g, v)
                      /\ g.age[o] \in {"old1", "touched2"} => g.age[v] # "new"
                 ELSE ~(g.color[o] = "black" /\ White(g, v))

\* checklist: the objects of a list have the ages of its parts.
ListSound(list, survival, old, reallyold) ==
    \A n \in DOMAIN list :
        LET In(ptr) == Contains(From(list, ptr), list[n])
        IN  ObjectSound(list[n], IF In(reallyold) THEN "old" ELSE IF In(old) THEN "old1" ELSE IF In(survival) THEN "survival" ELSE "new")

\* checkgrays: what is gray or touched in the last cycle is in one gray list, and nothing else is.
GraysSound ==
    KeepsInvariant(g) =>
        /\ g.gray \cap g.grayagain = {} /\ (g.gray \cup g.grayagain) \cap g.allweak = {}
        /\ g.gray \cup g.grayagain \cup g.allweak = {o \in Listed : g.color[o] = "gray" \/ g.age[o] = "touched2"}

\* Whatever the program stores between the collections, and wherever they start, are shifted to
\* major ones or are interrupted by finalizers: no object that can be reached is freed, no
\* assertion of the collector fails, and the invariants of ltests.c hold.
GenerationsSound ==
    /\ ~g.bad
    /\ Alive
    /\ ListSound(g.allgc, g.survival, g.old1, g.reallyold)
    /\ ListSound(g.finobj, g.finobjsur, g.finobjold1, g.finobjrold)
    /\ ListSound(g.tobefnz, NULL, NULL, NULL)
    /\ GraysSound

\* An object with a finalizer is not freed before the finalizer was called.
FinalizersKept == [][ToSet(g.finobj \o g.tobefnz) \subseteq Listed']_genVars
=============================================================================
