---------------------------- MODULE IncrementalGC ----------------------------
(***************************************************************************)
(* The incremental tri-color collector of lgc.c (KGC_INC), interleaved     *)
(* with the program that changes the heap under it.                        *)
(*                                                                         *)
(* An object is white (one of two whites), gray or black.  singlestep      *)
(* advances the collector by one unit of work; between two units the       *)
(* program allocates, stores references (through the write barriers),      *)
(* opens and closes upvalues and asks for finalizers.  vmkC_fullgc, called *)
(* by the program or by an allocation that failed, runs units back to back *)
(* while the program waits.                                                *)
(*                                                                         *)
(* Lists whose order no property here depends on (allgc, finobj, tobefnz,  *)
(* gray, grayagain, twups) are sets; sweeping takes one object per step,   *)
(* finer than the code's batches of GCSWEEPMAX.  Weak tables and the order *)
(* of finalizers are not modelled here.                                    *)
(***************************************************************************)
EXTENDS Naturals, Sequences, FiniteSets

CONSTANTS
    Main,       \* the main thread
    Coroutines, \* the other threads
    Tables,     \* tables: stores go through the backward barrier
    Closures,   \* closures, prototypes: stores go through the forward barrier
    UpVals,     \* upvalues, open or closed
    Strings,    \* objects with no reference to visit
    Registry,   \* the table g->l_registry starts with
    Closed,     \* the "owner" of a closed upvalue (no thread)
    MaxStack,   \* bound: values on the stack of each thread
    MaxFields,  \* bound: references each table or closure holds
    RootTables, \* bound: tables that may become the registry or a basic metatable
    Finalizable,\* bound: tables that may be given a __gc metamethod
    FullGCs     \* bound: full collections asked for, TRUE for an emergency one

Threads == {Main} \cup Coroutines
Object == Threads \cup Tables \cup Closures \cup UpVals \cup Strings
Value == Object \ UpVals            \* what a stack slot or a field may hold
HasGCList == Threads \cup Tables \cup Closures   \* kinds with a 'gclist' field

ASSUME KindsAssumption ==
    /\ IsFiniteSet(Object)
    /\ Main \notin Coroutines
    /\ Registry \in Tables
    /\ Closed \notin Object
    /\ Threads \cap (Tables \cup Closures \cup UpVals \cup Strings) = {}
    /\ Tables \cap (Closures \cup UpVals \cup Strings) = {}
    /\ Closures \cap (UpVals \cup Strings) = {}
    /\ UpVals \cap Strings = {}
    /\ MaxStack \in [Threads -> Nat] /\ MaxFields \in [Tables \cup Closures -> Nat]
    /\ RootTables \subseteq Tables /\ Finalizable \subseteq Tables
    /\ FullGCs \subseteq BOOLEAN

Whites == {"white0", "white1"}
GCState == {"propagate", "enteratomic", "swpallgc", "swpfinobj", "swptobefnz",
            "swpend", "callfin", "pause"}

VARIABLES
    gcstate,      \* g->gcstate ("atomic" lasts one indivisible step)
    currentwhite, \* g->currentwhite
    color,        \* the color bits of every object, "none" if not allocated
    where,        \* the list that holds it: "allgc", "finobj", "tobefnz" or "free"
    refs,         \* the references an object holds (a thread: its stack)
    owner,        \* the thread whose stack an open upvalue points into, or Closed
    roots,        \* what g->l_registry and g->mt refer to
    gray, grayagain, twups,   \* the lists of global_State
    tosweep,      \* objects from g->sweepgc to the end of its list
    tolive,       \* sweeptolive is running: the next live object ends it
    finalizing,   \* GCTM is running a __gc metamethod (GCSTPGC set)
    targets,      \* states that pending calls of vmkC_runtilstate must reach
    emergency     \* how many of them belong to an emergency collection

heap == <<refs, owner, roots, twups>>
marks == <<color, gray, grayagain>>
cycle == <<gcstate, currentwhite, tosweep, tolive>>
driver == <<finalizing, targets, emergency>>
vars == <<gcstate, currentwhite, color, where, refs, owner, roots, gray,
          grayagain, twups, tosweep, tolive, finalizing, targets, emergency>>

-----------------------------------------------------------------------------
(* Colors and reachability. *)

IsWhite(o) == color[o] \in Whites
OtherWhite == IF currentwhite = "white0" THEN "white1" ELSE "white0"
IsDead(o) == color[o] = OtherWhite
NonWhite == {o \in Object : color[o] \in {"gray", "black"}}
Allocated == {o \in Object : where[o] # "free"}
In(list) == {o \in Object : where[o] = list}
OpenUpVals(t) == {u \in UpVals : owner[u] = t}

KeepInvariant == gcstate \in {"propagate", "enteratomic"}
SweepPhase == gcstate \in {"swpallgc", "swpfinobj", "swptobefnz", "swpend"}

\* What traversing 'o' visits.  The slots open upvalues point to are part of
\* their thread's stack.
Succ(o) == IF o \in Threads
           THEN refs[o] \cup OpenUpVals(o)
                        \cup UNION {refs[u] : u \in OpenUpVals(o)}
           ELSE refs[o]
SuccSet(S) == UNION {Succ(o) : o \in S}

\* The objects outside M that marking from S reaches, stopping at M: the least
\* set that holds S and is closed under Succ.
Trace(S, M) ==
    LET Visitable == (S \cup SuccSet(Object)) \ M
        Closures_ == {T \in SUBSET Visitable :
                         S \ M \subseteq T /\ \A x \in T : Succ(x) \ M \subseteq T}
    IN {o \in Visitable : \A T \in Closures_ : o \in T}

\* The objects the program can still get at.
Reachable == Trace({Main} \cup roots, {})

\* reallymarkobject on the white objects of S: an upvalue's value is marked
\* with it; upvalues and strings need no visit, the rest is queued in 'gray'.
ToMark(S) ==
    LET W == {o \in S : IsWhite(o)}
    IN W \cup {o \in UNION {refs[u] : u \in W \cap UpVals} : IsWhite(o)}
MarkColor(o) == IF o \in Strings \/ (o \in UpVals /\ owner[o] = Closed)
                THEN "black" ELSE "gray"
Marked(S) == [o \in Object |-> IF o \in ToMark(S) THEN MarkColor(o) ELSE color[o]]

\* linkgclist: the marked objects to be queued.
Linked(S) == ToMark(S) \cap HasGCList

-----------------------------------------------------------------------------
(* vmk_newstate: the main thread and the registry exist, no cycle has begun. *)

Init ==
    /\ gcstate = "pause"
    /\ currentwhite = "white0"
    /\ color = [o \in Object |-> IF o \in {Main, Registry} THEN "white0" ELSE "none"]
    /\ where = [o \in Object |-> IF o \in {Main, Registry} THEN "allgc" ELSE "free"]
    /\ refs = [o \in Object |-> {}]
    /\ owner = [u \in UpVals |-> Closed]
    /\ roots = {Registry}
    /\ gray = {} /\ grayagain = {} /\ twups = {}
    /\ tosweep = {} /\ tolive = FALSE
    /\ finalizing = FALSE /\ targets = <<>> /\ emergency = 0

-----------------------------------------------------------------------------
(* The program.  It runs unless the collector holds the processor: during a *)
(* full collection only a finalizer called by it runs, and an emergency     *)
(* collection calls none.  A running coroutine is anchored in the stack of  *)
(* the thread that resumed it.                                              *)

Mutating == ~tolive /\ (targets = <<>> \/ (finalizing /\ emergency = 0))
Running == {Main} \cup (Coroutines \cap refs[Main])
Fits(L, S) == Cardinality(S) <= MaxStack[L]
FieldsFit(x, S) == Cardinality(S) <= MaxFields[x]

\* vmkC_newobjdt: a new object has the current white, heads 'allgc' and is
\* anchored in the creator's stack.
NewObject(L, o) ==
    /\ Mutating /\ L \in Running
    /\ o \in Value /\ where[o] = "free"
    /\ Fits(L, refs[L] \cup {o})
    /\ color' = [color EXCEPT ![o] = currentwhite]
    /\ where' = [where EXCEPT ![o] = "allgc"]
    /\ refs' = [refs EXCEPT ![L] = @ \cup {o}]
    /\ UNCHANGED <<owner, roots, twups, gray, grayagain>>
    /\ UNCHANGED cycle /\ UNCHANGED driver

\* Stacks have no barrier: values come from an object's fields ...
Load(L, x, o) ==
    /\ Mutating /\ L \in Running
    /\ x \in refs[L] \cup roots /\ o \in refs[x] \cap Value
    /\ o \notin refs[L] /\ Fits(L, refs[L] \cup {o})
    /\ refs' = [refs EXCEPT ![L] = @ \cup {o}]
    /\ UNCHANGED <<where, owner, roots, twups>>
    /\ UNCHANGED marks /\ UNCHANGED cycle /\ UNCHANGED driver

\* ... from a root, or from the stack of another thread (vmk_xmove) ...
LoadRoot(L, o) ==
    /\ Mutating /\ L \in Running
    /\ o \in roots \ refs[L] /\ Fits(L, refs[L] \cup {o})
    /\ refs' = [refs EXCEPT ![L] = @ \cup {o}]
    /\ UNCHANGED <<where, owner, roots, twups>>
    /\ UNCHANGED marks /\ UNCHANGED cycle /\ UNCHANGED driver

XMove(L, th, o) ==
    /\ Mutating /\ L \in Running
    /\ th \in refs[L] \cap Threads
    /\ o \in refs[L] \ refs[th] /\ Fits(th, refs[th] \cup {o})
    /\ refs' = [refs EXCEPT ![th] = @ \cup {o}]
    /\ UNCHANGED <<where, owner, roots, twups>>
    /\ UNCHANGED marks /\ UNCHANGED cycle /\ UNCHANGED driver

\* ... and leave it when they are popped.
Pop(L, o) ==
    /\ Mutating /\ L \in Running
    /\ o \in refs[L]
    /\ refs' = [refs EXCEPT ![L] = @ \ {o}]
    /\ UNCHANGED <<where, owner, roots, twups>>
    /\ UNCHANGED marks /\ UNCHANGED cycle /\ UNCHANGED driver

\* vmkC_barrierback_: the black table 't', which now refers to the white 'v',
\* is turned gray again.  Mutant: no barrier.
NoBarrierBack(t, v) == UNCHANGED <<color, grayagain>>

BarrierBack(t, v) ==
    IF color[t] = "black" /\ IsWhite(v)
    THEN /\ color' = [color EXCEPT ![t] = "gray"]
         /\ grayagain' = grayagain \cup {t}
    ELSE UNCHANGED <<color, grayagain>>

\* A table store.
Store(L, t, v) ==
    /\ Mutating /\ L \in Running
    /\ t \in Tables \cap (refs[L] \cup roots) /\ v \in refs[L]
    /\ v \notin refs[t] /\ FieldsFit(t, refs[t] \cup {v})
    /\ refs' = [refs EXCEPT ![t] = @ \cup {v}]
    /\ BarrierBack(t, v)
    /\ UNCHANGED <<where, owner, roots, twups, gray>>
    /\ UNCHANGED cycle /\ UNCHANGED driver

\* vmkC_barrier_: 'o' is black and now refers to the white 'v'.
Barrier(o, v) ==
    IF KeepInvariant
    THEN color' = Marked({v}) /\ gray' = gray \cup Linked({v})
    ELSE color' = [color EXCEPT ![o] = currentwhite] /\ UNCHANGED gray

\* A store that goes through the forward barrier: a metatable, a C closure's
\* upvalue, a prototype's constant, an upvalue joined to a closure.
SetField(L, x, v) ==
    /\ Mutating /\ L \in Running
    /\ x \in (Tables \cup Closures) \cap refs[L]
    /\ \/ v \in refs[L]
       \/ \* vmk_upvaluejoin
          \E c \in Closures \cap refs[L] : x \in Closures /\ v \in refs[c] \cap UpVals
       \/ \* pushclosure
          x \in Closures /\ v \in OpenUpVals(L)
    /\ v \notin refs[x] /\ FieldsFit(x, refs[x] \cup {v})
    /\ refs' = [refs EXCEPT ![x] = @ \cup {v}]
    /\ IF color[x] = "black" /\ IsWhite(v) THEN Barrier(x, v) ELSE UNCHANGED <<color, gray>>
    /\ UNCHANGED <<where, owner, roots, twups, grayagain>>
    /\ UNCHANGED cycle /\ UNCHANGED driver

\* Overwriting a field with nil needs no barrier.
ClearField(L, x, v) ==
    /\ Mutating /\ L \in Running
    /\ x \in (Tables \cup Closures) \cap (refs[L] \cup roots)
    /\ v \in refs[x]
    /\ refs' = [refs EXCEPT ![x] = @ \ {v}]
    /\ UNCHANGED <<where, owner, roots, twups>>
    /\ UNCHANGED marks /\ UNCHANGED cycle /\ UNCHANGED driver

\* g->mt[] and the registry slot are written with no barrier.
SetRoot(L, t) ==
    /\ Mutating /\ L \in Running
    /\ t \in RootTables \cap (refs[L] \ roots)
    /\ roots' = roots \cup {t}
    /\ UNCHANGED <<where, refs, owner, twups>>
    /\ UNCHANGED marks /\ UNCHANGED cycle /\ UNCHANGED driver

ClearRoot(t) ==
    /\ Mutating
    /\ t \in RootTables \cap roots
    /\ roots' = roots \ {t}
    /\ UNCHANGED <<where, refs, owner, twups>>
    /\ UNCHANGED marks /\ UNCHANGED cycle /\ UNCHANGED driver

\* newupval links its thread in 'twups'.
Twups(L) == twups \cup {L}

\* vmkF_findupval that finds none: newupval opens one over a slot holding 'v'.
NewUpVal(L, u, v) ==
    /\ Mutating /\ L \in Running
    /\ u \in UpVals /\ where[u] = "free" /\ v \in refs[L]
    /\ color' = [color EXCEPT ![u] = currentwhite]
    /\ where' = [where EXCEPT ![u] = "allgc"]
    /\ refs' = [refs EXCEPT ![u] = {v}]
    /\ owner' = [owner EXCEPT ![u] = L]
    /\ twups' = Twups(L)
    /\ UNCHANGED <<roots, gray, grayagain>>
    /\ UNCHANGED cycle /\ UNCHANGED driver

\* OP_SETUPVAL; a write to the slot of an open upvalue is the same assignment.
SetUpVal(L, c, u, v) ==
    /\ Mutating /\ L \in Running
    /\ c \in Closures \cap refs[L] /\ u \in refs[c] \cap UpVals
    /\ v \in refs[L] /\ refs[u] # {v}
    /\ refs' = [refs EXCEPT ![u] = {v}]
    /\ IF color[u] = "black" /\ IsWhite(v) THEN Barrier(u, v) ELSE UNCHANGED <<color, gray>>
    /\ UNCHANGED <<where, owner, roots, twups, grayagain>>
    /\ UNCHANGED cycle /\ UNCHANGED driver

\* OP_GETUPVAL.
GetUpVal(L, c, u) ==
    /\ Mutating /\ L \in Running
    /\ c \in Closures \cap refs[L] /\ u \in refs[c] \cap UpVals
    /\ ~(refs[u] \subseteq refs[L]) /\ Fits(L, refs[L] \cup refs[u])
    /\ refs' = [refs EXCEPT ![L] = @ \cup refs[u]]
    /\ UNCHANGED <<where, owner, roots, twups>>
    /\ UNCHANGED marks /\ UNCHANGED cycle /\ UNCHANGED driver

\* Mutant: no barrier.
NoCloseBarrier(u) ==
    /\ color' = [color EXCEPT ![u] = IF IsWhite(u) THEN @ ELSE "black"]
    /\ UNCHANGED gray

\* vmkF_closeupval: a closed upvalue cannot be gray, so it turns black, with a
\* barrier for its value.
CloseBarrier(u) ==
    LET whites == {v \in refs[u] : IsWhite(v)}
    IN IF IsWhite(u) THEN UNCHANGED <<color, gray>>
       ELSE IF whites # {} /\ ~KeepInvariant
       THEN color' = [color EXCEPT ![u] = currentwhite] /\ UNCHANGED gray
       ELSE /\ color' = [Marked(whites) EXCEPT ![u] = "black"]
            /\ gray' = gray \cup Linked(whites)

\* vmkF_closeupval on one upvalue.
CloseUpVal(L, u) ==
    /\ Mutating /\ L \in Running
    /\ u \in OpenUpVals(L)
    /\ owner' = [owner EXCEPT ![u] = Closed]
    /\ CloseBarrier(u)
    /\ UNCHANGED <<where, refs, roots, twups, grayagain>>
    /\ UNCHANGED cycle /\ UNCHANGED driver

\* vmkC_checkfinalizer: setting a metatable with __gc moves 'o' from allgc to
\* finobj.  If 'o' precedes the sweep pointer, sweeptolive moves the pointer.
CheckFinalizer(L, o) ==
    /\ Mutating /\ L \in Running
    /\ o \in Finalizable \cap refs[L] /\ where[o] = "allgc"
    /\ where' = [where EXCEPT ![o] = "finobj"]
    /\ IF SweepPhase
       THEN /\ color' = [color EXCEPT ![o] = currentwhite]
            /\ tosweep' = tosweep \ {o}
            /\ tolive' \in {b \in BOOLEAN : b => /\ gcstate = "swpallgc"
                                                 /\ o \notin tosweep /\ tosweep # {}}
       ELSE UNCHANGED <<color, tosweep, tolive>>
    /\ UNCHANGED <<gray, grayagain, gcstate, currentwhite>>
    /\ UNCHANGED heap /\ UNCHANGED driver

Mutator ==
    \/ \E t \in Tables : ClearRoot(t)
    \/ \E L \in Threads :
        \/ \E o \in Value : NewObject(L, o) \/ Pop(L, o)
        \/ \E t \in Tables : LoadRoot(L, t) \/ SetRoot(L, t) \/ CheckFinalizer(L, t)
        \/ \E t \in Tables, v \in Value : Store(L, t, v)
        \/ \E x \in Value \ Strings, v \in Value : Load(L, x, v)
        \/ \E th \in Threads, v \in Value : XMove(L, th, v)
        \/ \E x \in Tables \cup Closures, v \in Object : SetField(L, x, v) \/ ClearField(L, x, v)
        \/ \E u \in UpVals : CloseUpVal(L, u)
        \/ \E u \in UpVals, v \in Value : NewUpVal(L, u, v)
        \/ \E c \in Closures, u \in UpVals : GetUpVal(L, c, u)
        \/ \E c \in Closures, u \in UpVals, v \in Value : SetUpVal(L, c, u, v)

-----------------------------------------------------------------------------
(* The collector: singlestep, one action per state. *)

\* A unit of work may start: no sweeptolive under way, and GC steps are not
\* stopped by a running finalizer, unless an emergency collection is on.
Stepping ==
    /\ ~tolive
    /\ targets # <<>> => Head(targets) # gcstate
    /\ finalizing => emergency > 0
Fast == targets # <<>>

\* GCSpause: restartcollection.
Restart ==
    /\ Stepping /\ gcstate = "pause"
    /\ LET S == {Main} \cup roots \cup In("tobefnz")
       IN color' = Marked(S) /\ gray' = Linked(S)
    /\ grayagain' = {}
    /\ gcstate' = "propagate"
    /\ UNCHANGED <<currentwhite, tosweep, tolive, where>>
    /\ UNCHANGED heap /\ UNCHANGED driver

\* GCSpropagate: propagatemark traverses one gray object.  A thread goes to
\* 'grayagain', still gray.
PropagateMark(o) ==
    /\ Stepping /\ ~Fast /\ gcstate = "propagate"
    /\ o \in gray
    /\ color' = [Marked(Succ(o)) EXCEPT ![o] = IF o \in Threads THEN "gray" ELSE "black"]
    /\ gray' = (gray \ {o}) \cup Linked(Succ(o))
    /\ grayagain' = grayagain \cup ({o} \cap Threads)
    /\ UNCHANGED <<where>> /\ UNCHANGED cycle
    /\ UNCHANGED heap /\ UNCHANGED driver

EnterAtomic ==
    /\ Stepping /\ gcstate = "propagate"
    /\ Fast \/ gray = {}
    /\ gcstate' = "enteratomic"
    /\ UNCHANGED <<currentwhite, tosweep, tolive, where>>
    /\ UNCHANGED marks /\ UNCHANGED heap /\ UNCHANGED driver

\* remarkupvals: values of visited upvalues whose thread is not marked.
RemarkedValues(M) ==
    UNION {refs[u] : u \in {u \in UpVals \cap M : owner[u] \in twups \ M}}

\* Mutant: separatetobefnz called for all objects.
AllSeparated(M) == In("finobj")

\* separatetobefnz: the objects with a finalizer that are not marked.
Separated(M) == In("finobj") \ M

\* What atomic marks first: the program's own references, which the API changes
\* without barriers, and the gray list.
Anchors == {Main} \cup roots
Grays == SuccSet(gray)

\* Then, again, the objects that barriers turned gray.  Mutant: none.
NoneAgain == {}
Again == SuccSet(grayagain)

\* GCSenteratomic: atomic, then entersweep.
Atomic ==
    /\ Stepping /\ gcstate = "enteratomic"
    /\ LET M0 == NonWhite \cup Trace(Anchors \cup Grays, NonWhite)
           M1 == M0 \cup Trace(RemarkedValues(M0), M0)
           M2 == M1 \cup Trace(Again, M1)
           F  == Separated(M2)
           M3 == M2 \cup Trace(In("tobefnz") \cup F, M2)
           visited == {t \in Threads \cap M3 : OpenUpVals(t) # {}}
       IN /\ color' = [o \in Object |->
                         IF o \notin M3 THEN color[o]
                         ELSE IF o \in UpVals /\ owner[o] # Closed THEN "gray" ELSE "black"]
          /\ where' = [o \in Object |-> IF o \in F THEN "tobefnz" ELSE where[o]]
          /\ twups' = visited
    /\ currentwhite' = OtherWhite
    /\ gray' = {} /\ grayagain' = {}
    /\ gcstate' = "swpallgc" /\ tosweep' = In("allgc") /\ tolive' = TRUE
    /\ UNCHANGED <<refs, owner, roots>> /\ UNCHANGED driver

\* vmkE_freethread closes the upvalues of a freed thread.
ClosedWith(o) ==
    [u \in UpVals |-> IF u = o \/ owner[u] = o THEN Closed ELSE owner[u]]

\* sweeplist on one object.  A dead object is freed; freeing a thread closes
\* its upvalues (vmkE_freethread), whose barrier whitens one that holds a
\* white value.  A live object goes back to white.
SweepObject(o) ==
    /\ (Stepping \/ tolive) /\ SweepPhase
    /\ o \in tosweep
    /\ tosweep' = tosweep \ {o}
    /\ IF IsDead(o)
       THEN LET closing == OpenUpVals(o) \cap NonWhite
                whitened == {u \in closing : \E v \in refs[u] : IsWhite(v)}
            IN /\ color' = [x \in Object |->
                              IF x = o THEN "none"
                              ELSE IF x \in whitened THEN currentwhite
                              ELSE IF x \in closing THEN "black" ELSE color[x]]
               /\ where' = [where EXCEPT ![o] = "free"]
               /\ refs' = [refs EXCEPT ![o] = {}]
               /\ owner' = ClosedWith(o)
               /\ tolive' = (tolive /\ tosweep' # {})
       ELSE /\ color' = [color EXCEPT ![o] = currentwhite]
            /\ tolive' = FALSE
            /\ UNCHANGED <<where, refs, owner>>
    /\ UNCHANGED <<roots, twups, gray, grayagain, gcstate, currentwhite>>
    /\ UNCHANGED driver

\* sweepstep with the current list exhausted: go to the next one.
NextList(from, to, list) ==
    /\ Stepping /\ gcstate = from /\ tosweep = {}
    /\ gcstate' = to
    /\ tosweep' = list
    /\ UNCHANGED <<currentwhite, tolive, where>>
    /\ UNCHANGED marks /\ UNCHANGED heap /\ UNCHANGED driver

\* Mutant: 'finobj' is not swept.
SweepNoFinobj ==
    \/ NextList("swpallgc", "swptobefnz", In("tobefnz"))
    \/ NextList("swptobefnz", "swpend", {})
    \/ NextList("swpend", "callfin", {})

SweepNextList ==
    \/ NextList("swpallgc", "swpfinobj", In("finobj"))
    \/ NextList("swpfinobj", "swptobefnz", In("tobefnz"))
    \/ NextList("swptobefnz", "swpend", {})
    \/ NextList("swpend", "callfin", {})

\* GCScallfin: GCTM takes an object from 'tobefnz' (udata2finalize) and calls
\* its finalizer, if it still has one, with GC steps stopped.
CallFinalizer(o, hastm) ==
    /\ Stepping /\ gcstate = "callfin" /\ emergency = 0
    /\ o \in In("tobefnz")
    /\ where' = [where EXCEPT ![o] = "allgc"]
    /\ finalizing' = hastm
    /\ refs' = IF hastm THEN [refs EXCEPT ![Main] = @ \cup {o}] ELSE refs
    /\ UNCHANGED <<owner, roots, twups, targets, emergency>>
    /\ UNCHANGED marks /\ UNCHANGED cycle

FinalizerReturns ==
    /\ finalizing /\ Mutating
    /\ finalizing' = FALSE
    /\ UNCHANGED <<targets, emergency, where>>
    /\ UNCHANGED marks /\ UNCHANGED cycle /\ UNCHANGED heap

EndCycle ==
    /\ Stepping /\ gcstate = "callfin"
    /\ In("tobefnz") = {} \/ emergency > 0
    /\ gcstate' = "pause"
    /\ UNCHANGED <<currentwhite, tosweep, tolive, where>>
    /\ UNCHANGED marks /\ UNCHANGED heap /\ UNCHANGED driver

\* The states fullinc runs the collector to.  Mutant: the cycle under way is taken
\* for the full one.
OnePass == <<"callfin", "pause">>
FullInc == <<"pause", "callfin", "pause">>

\* vmkC_fullgc, called by vmk_gc (refused inside a finalizer) or by an
\* allocation that failed.  fullinc first abandons a mark phase: entersweep
\* turns black objects white again, the current white not having changed.
FullGC(isemergency) ==
    /\ Mutating /\ (finalizing => isemergency)
    /\ targets' = FullInc \o targets
    /\ emergency' = IF isemergency THEN Len(FullInc) ELSE 0
    /\ IF KeepInvariant
       THEN gcstate' = "swpallgc" /\ tosweep' = In("allgc") /\ tolive' = TRUE
       ELSE UNCHANGED <<gcstate, tosweep, tolive>>
    /\ UNCHANGED <<currentwhite, where, finalizing>>
    /\ UNCHANGED marks /\ UNCHANGED heap

\* vmkC_runtilstate returns.
TargetReached ==
    /\ ~tolive /\ targets # <<>> /\ Head(targets) = gcstate
    /\ finalizing => emergency > 0
    /\ targets' = Tail(targets)
    /\ emergency' = IF emergency > 0 THEN emergency - 1 ELSE 0
    /\ UNCHANGED <<finalizing, where>>
    /\ UNCHANGED marks /\ UNCHANGED cycle /\ UNCHANGED heap

Collector ==
    \/ Restart \/ EnterAtomic \/ Atomic \/ SweepNextList \/ EndCycle \/ TargetReached
    \/ \E o \in Object : \/ PropagateMark(o) \/ SweepObject(o)
                         \/ \E hastm \in BOOLEAN : CallFinalizer(o, hastm)

Next == Mutator \/ Collector \/ FinalizerReturns \/ \E e \in FullGCs : FullGC(e)

Spec == Init /\ [][Next]_vars

\* Allocation debt keeps calling vmkC_step in a program that goes on allocating,
\* and finalizers return.  The second conjunct is WF_vars(Collector), spelled out
\* because ENABLED Collector, always true but in a finalizer, is slow to evaluate.
FairSpec ==
    /\ Spec
    /\ <>[](finalizing => emergency > 0) => []<><<Collector>>_vars
    /\ WF_vars(FinalizerReturns)

-----------------------------------------------------------------------------
(* Properties. *)

TypeOK ==
    /\ gcstate \in GCState /\ currentwhite \in Whites
    /\ color \in [Object -> Whites \cup {"gray", "black", "none"}]
    /\ where \in [Object -> {"allgc", "finobj", "tobefnz", "free"}]
    /\ refs \in [Object -> SUBSET Object]
    /\ owner \in [UpVals -> Threads \cup {Closed}]
    /\ roots \subseteq Tables /\ twups \subseteq Threads
    /\ gray \subseteq HasGCList /\ grayagain \subseteq HasGCList
    /\ tosweep \subseteq Object /\ tolive \in BOOLEAN
    /\ finalizing \in BOOLEAN /\ targets \in Seq(GCState) /\ emergency \in 0..3

\* lgc.h: while marking, a black object never points to a white one.
TriColor ==
    KeepInvariant => \A o \in Object : color[o] = "black" => \A x \in Succ(o) : ~IsWhite(x)

\* lgc.h: while marking, a gray object is in a gray list; open upvalues are not,
\* and depend on their thread being in 'twups'.
GrayIsListed ==
    KeepInvariant =>
        \A o \in Object : color[o] = "gray" =>
            \/ o \in gray \cup grayagain
            \/ o \in UpVals /\ owner[o] \in twups

\* No object the program can reach has been freed or is waiting to be swept as
\* dead (the '!isdead' assertions of checkliveness and of the barriers).
NoDangling ==
    \A o \in Reachable : where[o] # "free" /\ ~IsDead(o)

\* No upvalue points into the stack of a freed thread.
UpValOwnerAlive ==
    \A u \in UpVals : owner[u] # Closed => where[u] # "free" /\ where[owner[u]] # "free"

\* vmkC_barrier_ asserts a sweep phase when the invariant is not being kept:
\* after a sweep nothing is left black.
NothingBlackAfterSweep ==
    gcstate \in {"swpend", "callfin", "pause"} => NonWhite = {}

\* Only an object out of the program's reach is put up for finalization.
FinalizeOnlyGarbage ==
    [][\A o \in Object : where'[o] = "tobefnz" /\ where[o] # "tobefnz" => o \notin Reachable]_vars

\* What a finished full collection called by the program leaves allocated is
\* what can be reached from the roots or waits for its finalizer ('allgc' has no
\* floating garbage when the collector reaches its last state).
FullGCIsPrecise ==
    [][ (TargetReached /\ targets' = <<"pause">>) =>
        \A o \in Allocated : o \in Trace({Main} \cup roots \cup In("tobefnz"), {}) ]_vars

\* What the program can no longer reach is freed, unless a finalizer makes it
\* reachable again.
GarbageIsFreed ==
    \A o \in Object : (o \in Allocated /\ o \notin Reachable)
                        ~> (o \notin Allocated \/ o \in Reachable)

-----------------------------------------------------------------------------
(* The invariant that makes NoDangling, UpValOwnerAlive and the invariants of *)
(* the mark phase inductive (IncrementalGCProofs).                            *)

Kept == {o \in Object : where[o] # "free" /\ ~IsDead(o)}

\* Only closures refer to upvalues, and strings to nothing; what is free is empty.
RefsOK ==
    \A o \in Object : /\ o \notin Closures => refs[o] \subseteq Value
                      /\ o \in Strings \/ where[o] = "free" => refs[o] = {}
                      /\ where[o] = "free" <=> color[o] = "none"

\* What the program starts from, and whatever is kept refers to, is kept.
HeapKept ==
    /\ {Main} \cup roots \cup In("tobefnz") \subseteq Kept
    /\ \A o \in Kept : Succ(o) \subseteq Kept
    /\ In("finobj") \cup In("tobefnz") \subseteq Tables

\* An upvalue is gray only while open, and the thread it points into is in 'twups'.
UpValsOK ==
    \A u \in UpVals :
        /\ owner[u] = Closed => color[u] # "gray"
        /\ owner[u] # Closed => IsDead(owner[u]) \/ owner[u] \in twups

\* Dead objects wait in 'allgc' for the sweep; marked ones are still to be swept.
SweepOK ==
    /\ tosweep \subseteq Allocated
    /\ \A o \in Object : IsDead(o) => /\ gcstate = "swpallgc"
                                      /\ where[o] = "allgc" /\ o \in tosweep
    /\ \A o \in NonWhite :
           \/ KeepInvariant
           \/ gcstate = "swpallgc" /\ (where[o] = "allgc" => o \in tosweep)
           \/ gcstate = "swpfinobj" /\ (where[o] = "tobefnz" \/ o \in tosweep)
           \/ gcstate = "swptobefnz" /\ o \in tosweep

\* While marking, threads are never black and the gray lists hold live objects.
ListsOK ==
    KeepInvariant => /\ \A t \in Threads : color[t] # "black"
                     /\ gray \cup grayagain \subseteq Allocated

GCInv ==
    /\ TypeOK /\ RefsOK /\ HeapKept /\ UpValsOK /\ UpValOwnerAlive /\ SweepOK /\ ListsOK
    /\ TriColor /\ GrayIsListed

=============================================================================
