-------------------------------- MODULE Stack --------------------------------
(***************************************************************************)
(* The stack of a thread (ldo.c): frames, open upvalues and the list of    *)
(* to-be-closed variables (lfunc.c) point into a block of memory that      *)
(* calls, API requests and the collector reallocate.  A pointer is a block *)
(* and an offset; after a reallocation the other block is the stack.       *)
(***************************************************************************)
EXTENDS Integers, Sequences, SequencesExt, FiniteSets

CONSTANTS
    BasicSize,      \* BASIC_STACK_SIZE
    MinStack,       \* VMK_MINSTACK
    Extra,          \* EXTRA_STACK
    MaxStack,       \* MAXSTACK
    ErrorSpace,     \* STACKERRSPACE
    MaxDelta,       \* MAXDELTA, the longest distance that a delta of tbclist holds
    FrameSizes,     \* maxstacksize of the functions
    Requests,       \* what C functions ask of vmk_checkstack
    MaxFrames,      \* bound: frames at a time
    MaxPush,        \* bound: values that a C function pushes
    MaxMarks        \* bound: open upvalues, and to-be-closed variables, at a time

ASSUME StackAssumption ==
    /\ {BasicSize, MinStack, Extra, MaxStack, ErrorSpace, MaxDelta} \subseteq Nat \ {0}
    /\ {MaxFrames, MaxPush, MaxMarks} \subseteq Nat \ {0}
    /\ FrameSizes \cup Requests \subseteq Nat
    /\ BasicSize <= MaxStack /\ MinStack < BasicSize

ErrorSize == MaxStack + ErrorSpace

VARIABLES
    L,          \* the thread: [size, top, tbclist, delta, open, ci]
    err,        \* the error being raised, or ""
    marked      \* the to-be-closed variables, innermost last

stackVars == <<L, err, marked>>

NotClosing == [level |-> -1, next |-> "none"]
Slot(at) == [at |-> at, freed |-> FALSE]      \* restorestack
Freed(p) == [p EXCEPT !.freed = TRUE]
Mapped(s, Op(_)) == FoldLeft(LAMBDA all, e : Append(all, Op(e)), <<>>, s)

\* func and top as in CallInfo; base is the copy in vmkV_execute; oldtop is where a pcall
\* that the frame is making puts its result, or -1; closing is the vmkF_close it is in.
Frame(func, top, vmk) ==
    [func |-> func, top |-> top, vmk |-> vmk, trap |-> FALSE, base |-> IF vmk THEN func ELSE Slot(0),
     oldtop |-> -1, closing |-> NotClosing, handler |-> FALSE]

Current == Last(L.ci)
WithCurrent(l, f) == [l EXCEPT !.ci = Append(Front(@), f)]

-----------------------------------------------------------------------------
(* Reallocation. *)

\* Mutant: the open upvalues are forgotten.
CorrectedButOpen(l, moved) ==
    LET Correct(p) == IF p.freed THEN p ELSE Slot(p.at)
        CorrectFrame(f) == [f EXCEPT !.func = Correct(@), !.top = Correct(@), !.trap = @ \/ f.vmk,
                                     !.base = IF f.vmk /\ moved THEN Freed(@) ELSE @]
    IN  [l EXCEPT !.top = Correct(@), !.tbclist = Correct(@),
                  !.open = IF moved THEN Mapped(@, Freed) ELSE @, !.ci = Mapped(@, CorrectFrame)]

\* relstack turns the pointers into offsets and correctstack turns them back, around a
\* reallocation that moves the stack or leaves it; what they do not correct is freed.
Corrected(l, moved) ==
    LET Correct(p) == IF p.freed THEN p ELSE Slot(p.at)
        CorrectFrame(f) == [f EXCEPT !.func = Correct(@), !.top = Correct(@), !.trap = @ \/ f.vmk,
                                     !.base = IF f.vmk /\ moved THEN Freed(@) ELSE @]
    IN  [l EXCEPT !.top = Correct(@), !.tbclist = Correct(@),
                  !.open = Mapped(@, Correct), !.ci = Mapped(@, CorrectFrame)]

Checked(status, l) == [status |-> status, L |-> l]

\* vmkD_reallocstack: the allocation may fail.
ReallocStack(l, newsize) ==
    {Checked("ok", [Corrected(l, TRUE) EXCEPT !.size = newsize]), Checked("errmem", Corrected(l, FALSE))}

Lesser(a, b) == IF a < b THEN a ELSE b
Greatest(a, b) == IF a < b THEN b ELSE a

\* vmkD_growstack.
GrowStack(l, n) ==
    LET newsize == Greatest(Lesser(2 * l.size, MaxStack), l.top.at + n)
    IN  IF l.size > MaxStack THEN {Checked("errerr", l)}
        ELSE IF n < MaxStack /\ newsize <= MaxStack THEN ReallocStack(l, newsize)
        ELSE {IF r.status = "ok" THEN Checked("overflow", r.L) ELSE r : r \in ReallocStack(l, ErrorSize)}

CheckStack(l, n) == IF l.size - l.top.at > n THEN {Checked("ok", l)} ELSE GrowStack(l, n)

\* stackinuse and vmkD_shrinkstack.
StackInUse(l) ==
    LET lim == FoldLeft(LAMBDA m, f : Greatest(m, f.top.at), l.top.at, l.ci)
    IN  Greatest(lim + 1, MinStack)

ShrinkStack(l) ==
    LET inuse == StackInUse(l)
        max == IF inuse > MaxStack \div 3 THEN MaxStack ELSE inuse * 3
        nsize == IF inuse > MaxStack \div 2 THEN MaxStack ELSE inuse * 2
    IN  IF inuse <= MaxStack /\ l.size > max THEN {r.L : r \in ReallocStack(l, nsize)} ELSE {l}

-----------------------------------------------------------------------------
(* Open upvalues and to-be-closed variables (lfunc.c). *)

\* vmkF_findupval.
FindUpval(l, level) ==
    LET above == SelectSeq(l.open, LAMBDA p : p.at >= level)
    IN  IF above # <<>> /\ Last(above).at = level THEN l
        ELSE [l EXCEPT !.open = above \o <<Slot(level)>> \o SubSeq(@, Len(above) + 1, Len(@))]

\* vmkF_closeupval.
CloseUpval(l, level) == [l EXCEPT !.open = SelectSeq(@, LAMBDA p : p.at < level)]

\* vmkF_newtbcupval: the slots of the dummy nodes, at the longest distance from each other.
NewTbc(l, level) ==
    LET from == l.tbclist.at
        dummies == {from + n * MaxDelta : n \in 1 .. (level - from - 1) \div MaxDelta}
        last == from + Cardinality(dummies) * MaxDelta
        delta == [s \in DOMAIN l.delta \cup dummies \cup {level} |->
                    IF s = level THEN level - last ELSE IF s \in dummies THEN 0 ELSE l.delta[s]]
    IN  [l EXCEPT !.delta = delta, !.tbclist = Slot(level)]

\* poptbclist: the node before that of slot tbc, without the dummies between them.
RECURSIVE SkipDummies(_, _)
SkipDummies(l, tbc) ==
    IF tbc > 0 /\ tbc \in DOMAIN l.delta /\ l.delta[tbc] = 0 THEN SkipDummies(l, tbc - MaxDelta) ELSE tbc
Before(l, tbc) == SkipDummies(l, tbc - l.delta[tbc])

PopTbc(l) ==
    LET tbc == Before(l, l.tbclist.at)
    IN  [l EXCEPT !.tbclist = Slot(tbc), !.delta = [s \in {s \in DOMAIN @ : s <= tbc} |-> @[s]]]

-----------------------------------------------------------------------------
(* Steps of the running function. *)

\* stack_init; the host calls in protected mode.
StackInit ==
    /\ L = [size |-> BasicSize, top |-> Slot(1), tbclist |-> Slot(0),
            delta |-> <<>>, open |-> <<>>,
            ci |-> <<[Frame(Slot(0), Slot(1 + MinStack), FALSE) EXCEPT !.oldtop = 1]>>]
    /\ err = "" /\ marked = <<>>

Running == err = "" /\ Current.closing = NotClosing

\* vmfetch and savestate of a Vmk function: base is corrected when trap asks for it.
Fetch(l) ==
    LET f == Last(l.ci)
    IN  IF ~f.vmk THEN l
        ELSE LET base == IF f.trap THEN f.func ELSE f.base
             IN  [WithCurrent(l, [f EXCEPT !.base = base, !.trap = FALSE]) EXCEPT !.top = f.top]

\* The part of a call that precall does once func and its arguments, n slots, are at slot
\* func: check the stack, then a new frame.
Precall(l, func, n, vmk, size) ==
    LET called == [l EXCEPT !.top = Slot(func + n)]
        Entered(r) == Append(r.L.ci, Frame(Slot(func),
                                           Slot(IF vmk THEN func + 1 + size ELSE func + n + MinStack), vmk))
    IN  \E r \in CheckStack(called, IF vmk THEN size ELSE MinStack) :
            IF r.status = "ok" THEN L' = [r.L EXCEPT !.ci = Entered(r)] /\ err' = ""
            ELSE L' = r.L /\ err' = r.status

\* Where a function puts the function that it calls: in a register (the last one), or above
\* the registers for a metamethod with its two operands; a C function pushes it.
Callable(l) ==
    LET f == Last(l.ci)
    IN  IF f.vmk THEN {[func |-> f.top.at - 1, n |-> 1], [func |-> f.top.at, n |-> 3]}
        ELSE IF l.top.at < f.top.at THEN {[func |-> l.top.at, n |-> 1]} ELSE {}

\* A call, of a Vmk function with a frame of some size or of a C function (size 0); a C
\* function may make it in protected mode.
CallFunction ==
    /\ Running /\ Len(L.ci) < MaxFrames
    /\ \E size \in FrameSizes \cup {0}, protect \in BOOLEAN, c \in Callable(Fetch(L)) :
         /\ protect => ~Current.vmk /\ Len(L.ci) > 1
         /\ LET l == Fetch(L)
                caller == IF protect THEN [Last(l.ci) EXCEPT !.oldtop = c.func] ELSE Last(l.ci)
            IN  Precall(WithCurrent(l, caller), c.func, c.n, size # 0, size)
    /\ UNCHANGED marked

\* A C function pushes a value.
Push ==
    /\ Running /\ ~Current.vmk /\ L.top.at <= Current.func.at + MaxPush /\ L.top.at < Current.top.at
    /\ L' = [L EXCEPT !.top.at = @ + 1]
    /\ UNCHANGED <<err, marked>>

\* vmk_checkstack: it raises no error.
ApiCheckStack ==
    /\ Running /\ ~Current.vmk
    /\ \E n \in Requests, r \in UNION {CheckStack(L, m) : m \in Requests} :
         /\ r \in CheckStack(L, n)
         /\ LET f == Last(r.L.ci)
            IN  L' = IF r.status = "ok" /\ f.top.at < r.L.top.at + n
                     THEN WithCurrent(r.L, [f EXCEPT !.top = Slot(r.L.top.at + n)])
                     ELSE r.L
    /\ UNCHANGED <<err, marked>>

\* A Vmk function makes a closure over a register, or marks one to be closed.
Capture ==
    /\ Running /\ Current.vmk /\ Len(L.open) < MaxMarks
    /\ \E s \in Current.func.at + 1 .. Current.top.at - 1 : L' = FindUpval(Fetch(L), s)
    /\ UNCHANGED <<err, marked>>

Mark ==
    /\ Running /\ Len(marked) < MaxMarks
    /\ LET s == (IF Current.vmk THEN Current.top.at ELSE L.top.at) - 1
       IN  /\ s > L.tbclist.at /\ s > Current.func.at
           /\ L' = NewTbc(Fetch(L), s)
           /\ marked' = Append(marked, s)
    /\ UNCHANGED err

\* The collector, while the function runs.
Collect ==
    /\ Running
    /\ \E l \in ShrinkStack(Fetch(L)) : L' = l
    /\ UNCHANGED <<err, marked>>

-----------------------------------------------------------------------------
(* Closing, returning and errors. *)

\* The start of vmkF_close, in the frame f on top of l: it keeps the level as an offset.
Closing(l, f, level, next) ==
    CloseUpval(WithCurrent(l, [f EXCEPT !.closing = [level |-> level, next |-> next]]), level)

\* The end of a block, or of the function.
StartClose ==
    /\ Running
    /\ LET l == Fetch(L)
           f == Last(l.ci)
       IN  \/ f.vmk /\ f.top.at > f.base.at + 1 /\ L' = Closing(l, f, f.base.at + 1, "block")
           \/ Len(l.ci) > 1 /\ L' = Closing(l, f, f.func.at + 1, "return")
    /\ UNCHANGED <<err, marked>>

\* Where the closing method of variable tbc is called: above the stack, or right after the
\* variable and the error object when there is an error.
MethodAt(l, tbc, next) == IF next = "error" THEN tbc + 2 ELSE l.top.at

CloseOne ==
    /\ err = "" /\ Current.closing # NotClosing /\ L.tbclist.at >= Current.closing.level
    /\ Precall(PopTbc(L), MethodAt(L, L.tbclist.at, Current.closing.next), 3, FALSE, 0)
    /\ marked' = Front(marked)

\* The frame returns to its caller, which wanted no results.
Returned(l, f) ==
    LET back == [l EXCEPT !.ci = Front(@), !.top = f.func]
        caller == Last(back.ci)
    IN  CASE caller.vmk -> [back EXCEPT !.top = caller.top]
          [] ~caller.vmk /\ Len(back.ci) > 1 /\ caller.closing = NotClosing ->
               WithCurrent(back, [caller EXCEPT !.oldtop = -1])
          [] OTHER -> back

EndClose ==
    /\ err = "" /\ Current.closing # NotClosing /\ L.tbclist.at < Current.closing.level
    /\ LET f == [Current EXCEPT !.closing = NotClosing]
           l == WithCurrent(L, f)
       IN  CASE Current.closing.next = "block" -> L' = l /\ err' = err
             [] Current.closing.next = "return" ->
                  L' = Returned(l, f) /\ err' = IF f.handler THEN "thrown" ELSE ""
             [] OTHER ->    \* vmkD_pcall: the error object, and a stack of a regular size
                  /\ \E s \in ShrinkStack([l EXCEPT !.top = Slot(f.oldtop + 1)]) :
                       L' = IF Len(s.ci) = 1 THEN s ELSE WithCurrent(s, [Last(s.ci) EXCEPT !.oldtop = -1])
                  /\ err' = ""
    /\ UNCHANGED marked

Handling == \E c \in DOMAIN L.ci : L.ci[c].handler

\* vmkG_errormsg calls the message handler on a stack overflow, in the space for errors.
CallHandler ==
    /\ err = "overflow" /\ ~Handling
    /\ \E r \in CheckStack([L EXCEPT !.top.at = @ + 2], MinStack) :
         IF r.status = "ok"
         THEN /\ LET f == Frame(Slot(r.L.top.at - 2), Slot(r.L.top.at + MinStack), FALSE)
                 IN  L' = [r.L EXCEPT !.ci = Append(@, [f EXCEPT !.handler = TRUE])]
              /\ err' = ""
         ELSE L' = r.L /\ err' = r.status
    /\ UNCHANGED marked

\* vmkD_throw, to the innermost protected call, which starts to close.
Throw ==
    /\ err # "" /\ (err = "overflow" => Handling)
    /\ LET k == CHOOSE k \in DOMAIN L.ci : /\ L.ci[k].oldtop # -1
                                           /\ \A m \in k + 1 .. Len(L.ci) : L.ci[m].oldtop = -1
       IN  L' = Closing([L EXCEPT !.ci = SubSeq(@, 1, k)], L.ci[k], L.ci[k].oldtop, "error")
    /\ err' = ""
    /\ UNCHANGED marked

\* Any other error of the running function.
RaiseError ==
    /\ Running /\ Len(L.ci) > 1
    /\ L' = Fetch(L) /\ err' = "error"
    /\ UNCHANGED marked

StackNext ==
    \/ CallFunction \/ Push \/ ApiCheckStack \/ Capture \/ Mark \/ Collect
    \/ StartClose \/ CloseOne \/ EndClose \/ CallHandler \/ Throw \/ RaiseError

StackSpec == StackInit /\ [][StackNext]_stackVars

-----------------------------------------------------------------------------
(* Properties. *)

\* After any sequence of reallocations, the failed ones included, every pointer into the
\* stack is into the block that the stack is in now, and inside it; a copy of a base that is
\* not will be corrected before its function uses it.
PointersCurrent ==
    /\ \A p \in {L.top, L.tbclist} \cup ToSet(L.open) \cup UNION {{f.func, f.top} : f \in ToSet(L.ci)} :
         ~p.freed /\ p.at \in 0 .. L.size + Extra
    /\ \A c \in DOMAIN L.ci : L.ci[c].vmk => ~L.ci[c].base.freed \/ L.ci[c].trap

\* The nodes of tbclist are the variables marked and not closed yet, in order, whatever the
\* distance between them.
RECURSIVE Nodes(_)
Nodes(tbc) == IF tbc <= 0 THEN <<>> ELSE Append(Nodes(Before(L, tbc)), tbc)
TbcListExact == Nodes(L.tbclist.at) = marked

\* The open upvalues are in the order of their levels, at most one for each, and none is
\* above the frames that may use it.
UpvaluesOrdered ==
    /\ \A u, v \in DOMAIN L.open : u < v => L.open[u].at > L.open[v].at
    /\ L.open # <<>> => \E c \in DOMAIN L.ci : L.ci[c].func.at < L.open[1].at /\ L.open[1].at < L.ci[c].top.at

\* A stack is larger than the limit only by the space for errors, and an overflow leaves the
\* message handler that space.
OverflowHasSpace ==
    /\ L.size <= MaxStack \/ L.size = ErrorSize
    /\ err = "overflow" => L.size - L.top.at >= ErrorSpace - Extra

\* All of it: what a thread may rely on after any sequence of reallocations.
StackSound == PointersCurrent /\ TbcListExact /\ UpvaluesOrdered /\ OverflowHasSpace
=============================================================================
