----------------------------- MODULE MCLibraries -----------------------------
(***************************************************************************)
(* Instances of the components that the rest of the system uses only       *)
(* through their operations.  A behaviour runs one of them: a machine that *)
(* takes steps (table.sort, a stack, the hooks of a coroutine, the line    *)
(* information of a function), or one job of a library.                    *)
(***************************************************************************)
EXTENDS TableSort, Stack, Hooks, PatternMeaning, StringPack, BinaryChunk, TableLibrary,
        WeakTables, TLC

\* Operators that TLC shall not unfold for its statistics (JobHolds, PackArguments below).
CONSTANTS
    Holds(_),       \* whether a job does what it should
    Arguments(_)    \* the lists of arguments for a format of string.pack

VARIABLES machine, job, held

libVars == <<machine, job, held>>

-----------------------------------------------------------------------------
(* table.sort: every array of up to 5 elements of 3 values under orders, one *)
(* of them with equivalent values, and an order function that answers        *)
(* anything on up to 6 elements.                                             *)

SortOrders == {{<<1, 2>>, <<1, 3>>, <<2, 3>>}, {<<1, 3>>, <<2, 3>>}}
SortInputs ==
    {[array |-> a, order |-> o] : a \in UNION {[1 .. n -> 1 .. 3] : n \in 0 .. 5}, o \in SortOrders}
    \cup {[array |-> [k \in 1 .. n |-> k], order |-> AnyOrder] : n \in 1 .. 6}

(* Hooks: a function that sets hooks, calls and jumps, and a vararg one.     *)

Code_(isvararg, lines, code) ==
    [fs |-> FoldLeft(CodeLine, Open(1), lines), isvararg |-> isvararg, code |-> code]
HookFunctions ==
    <<Code_(FALSE, <<1, 2, 2, 3, 3, 4>>, <<"sethook", "call", "move", "jump", "tailcall", "return0">>),
      Code_(TRUE, <<1, 1, 2, 2>>, <<"varargprep", "move", "sethook", "return">>)>>
HookMasks == {{}, {"line"}, {"count"}, {"line", "count"}, {"call", "ret"}, {"call", "line"}}

(* Line information: functions of up to 6 instructions on lines 1, 2 and 4.  *)

LineNumbers == {1, 2, 4}
MaxInstructions == 6
LinesNext ==
    \E line \in LineNumbers :
        \/ Len(job.lineOf) < MaxInstructions /\ job' = CodeLine(job, line)
        \/ job.lineOf # <<>> /\ job' = FixLine(job, line)

(* Patterns: items in sequences of up to two, or three of a few.             *)

Items_ == {<<"a">>, <<"b", "*">>, <<".", "-">>, <<"a", "?">>, <<"(">>, <<")">>, <<"(", ")">>, <<"%", "1">>,
           <<"$">>, <<"^">>, <<"[", "^", "a", "]", "+">>, <<"[", "a", "-", "b", "]">>, <<"%", "f", "[", "b", "]">>,
           <<"%", "b", "a", "b">>, <<"%">>, <<"[", "a">>, <<".">>, <<"%", "a">>, <<"%", "d", "*">>}
FewItems == {<<"a">>, <<"b", "*">>, <<".", "-">>, <<"(">>, <<")">>, <<"(", ")">>, <<"%", "1">>, <<"$">>,
             <<"[", "^", "a", "]", "+">>, <<"%", "f", "[", "b", "]">>, <<".">>}
Subjects == UNION {[1 .. n -> {"a", "b"}] : n \in 0 .. 2}
            \cup {<<"a", "a", "b">>, <<"b", "a", "b">>, <<"a", "b", "a", "b">>, <<"1", "a">>}
PatternJob ==
    \E n \in 0 .. 3 : \E f \in [1 .. n -> IF n = 3 THEN FewItems ELSE Items_],
                        src \in IF n = 3 THEN {<<"a", "b", "a">>} ELSE Subjects :
        job' = <<"pattern", FlattenSeq(f), src>>

\* The matcher and its meaning fail together, or their results are the same.
Agree(r, m) == IF r.error # "" THEN m.error # "" ELSE r = m
GSubCall(pat, src) ==
    [src |-> src, pat |-> pat, max |-> Len(src) + 1,
     repl |-> [kind |-> "string", text |-> <<"x", "%", "1", "%", "%">>, false |-> {}]]
PatternHolds(pat, src) ==
    /\ Agree(StrFind(src, pat, 1, FALSE, TRUE), FindMeaning(src, pat, 1, NoSpecials(pat), TRUE))
    /\ Agree(StrFind(src, pat, -2, FALSE, FALSE), FindMeaning(src, pat, -2, FALSE, FALSE))
    /\ Agree(GMatch(src, pat, 1), GMatchMeaning(src, pat, 1))
    /\ Agree(StrGSub(GSubCall(pat, src)), GSubMeaning(GSubCall(pat, src)))

(* string.pack: formats of up to two options, or three of a few.                          *)

NoNumeral == {"b", "B", "h", "j", "J", "I", "c", "s", "z", "x", "X", "<", ">", "!", " ", "?", "f"}
Numeral == {<<"i", 1>>, <<"i", 3>>, <<"I", 3>>, <<"i", 4>>, <<"i", 5>>, <<"I", 0>>, <<"c", 1>>, <<"c", 2>>,
            <<"s", 1>>, <<"!", 2>>, <<"!", 4>>}
Opts == {[opt |-> o, n |-> None] : o \in NoNumeral} \cup {[opt |-> o[1], n |-> o[2]] : o \in Numeral}
Few == {[opt |-> "!", n |-> 2], [opt |-> "X", n |-> None], [opt |-> "b", n |-> None], [opt |-> "i", n |-> 3],
        [opt |-> "s", n |-> 1], [opt |-> ">", n |-> None], [opt |-> "z", n |-> None]}
ArgumentsOf(o) ==
    IF o.kind \in {"int", "uint"} THEN {MinInteger, -3, 0, 5, MaxInteger}
    ELSE IF o.kind = "float" THEN {<<1, 2>>} ELSE {<<>>, <<1>>, <<0, 3>>, <<1, 2, 3, 1>>}
PackArguments(f) ==
    LET Extend(all, k) == {Append(args, a) : args \in all, a \in ArgumentsOf(GetOption(f[k]))}
    IN  FoldLeft(Extend, {<<>>}, Fields(f))
PackJob ==
    \E n \in 1 .. 3 : \E f \in [1 .. n -> IF n = 3 THEN Few ELSE Opts] :
        \/ \E args \in Arguments(f) : job' = <<"pack", f, args>>
        \/ n <= 2 /\ \E size \in 0 .. 3 : \E data \in [1 .. size -> {0, 1, MC}] : job' = <<"unpack", f, data>>

(* Binary chunks: a main function with up to two constants, functions inside *)
(* it, and all the debug information or none.                                *)

Name(n) == [k \in 1 .. n |-> n]
Constants == {[tag |-> t, v |-> <<>>] : t \in {VNIL, VFALSE, VTRUE}}
             \cup {[tag |-> VNUMINT, v |-> <<5>>], [tag |-> VNUMFLT, v |-> <<7>>], [tag |-> VSHRSTR, v |-> Name(1)],
                   [tag |-> VLNGSTR, v |-> Name(3)], [tag |-> VSHRSTR, v |-> <<>>]}
Leaf == [linedefined |-> 3, lastlinedefined |-> 4, numparams |-> 1, flag |-> PF_ISVARARG, maxstacksize |-> 2,
         code |-> <<11>>, k |-> <<>>, upvalues |-> <<>>, p |-> <<>>, source |-> NoString, lineinfo |-> <<1>>,
         abslineinfo |-> <<>>, locvars |-> <<>>]
Upvalue(n) == [instack |-> 1, idx |-> 0, kind |-> 2, name |-> Name(n)]
Local(n) == [varname |-> Name(n), startpc |-> 0, endpc |-> 7]
MainFunction(k, inside, code) ==
    [Leaf EXCEPT !.linedefined = 0, !.k = k, !.p = inside, !.source = Name(3), !.flag = PF_FIXED, !.code = code, !.lineinfo = code]
Nested == <<Leaf, [Leaf EXCEPT !.k = <<[tag |-> VLNGSTR, v |-> Name(3)]>>]>>
DebugInfo(f) ==
    [f EXCEPT !.upvalues = <<Upvalue(1), Upvalue(3)>>, !.locvars = <<Local(1), Local(2)>>,
              !.abslineinfo = <<[pc |-> 1, line |-> 2], [pc |-> 3, line |-> 5]>>]
ChunkJob ==
    \/ \E n \in 0 .. 2 : \E k \in [1 .. n -> Constants], inside \in {<<>>, Nested}, code \in {<<11>>, <<11, 12>>},
          debug \in BOOLEAN :
          LET main == MainFunction(k, inside, code)
              f == IF debug THEN DebugInfo(main) ELSE main
          IN  \/ \E strip \in BOOLEAN, piece \in {0, 3} : job' = <<"chunk", f, strip, piece>>
              \/ n = 1 /\ k[1].tag \in {VNUMINT, VSHRSTR} /\ \E room \in 0 .. 60, piece \in {0, 1} :
                     job' = <<"part of a chunk", f, room, piece>>
    \/ \E at \in 1 .. 30 : job' = <<"foreign chunk", Leaf, at>>
    \/ \E x \in 0 .. 300, limit \in {7, 15, 31, 127} : job' = <<"varint", x, limit>>

(* The table library: tables t1 and t2 with keys all over the integers.      *)

Heap(n) == [t1 |-> [k \in Integer |-> IF k \in 1 .. n THEN k ELSE nil],
            t2 |-> [k \in Integer |-> IF k # 2 THEN 10 + k ELSE nil]]
Strings_ == 1 .. 5 \cup 11 .. 15
Maybe(S) == {<<>>} \cup {<<x>> : x \in S}
TableJob ==
    \E n \in {0, 1, 4, MAXINTEGER}, t \in {"t1", "t2"} :
        \/ \E pos \in Maybe(Integer) : job' = <<"insert", n, t, pos>> \/ job' = <<"remove", n, t, pos>>
        \/ \E from, to \in Maybe(Integer) : job' = <<"concat", n, t, from, to>> \/ job' = <<"unpack table", n, t, from, to>>
        \/ \E from, to, at \in Integer, b \in Maybe({"t1", "t2"}) : n = 4 /\ job' = <<"move", n, t, from, to, at, b>>
        \/ \E size \in 0 .. 4 : \E args \in [1 .. size -> {1, nil}] : job' = <<"pack table", n, t, args>>

(* Weak tables: two of them, with one entry each in any modes, or ephemerons *)
(* with two and one.                                                         *)

WeakModes == {"weakvalue", "ephemeron", "allweak"}
Pairs(S) == {[key |-> k, val |-> v] : k \in S, v \in S}
WeakHeap(kinds, roots, array3, node2, node3, finobj, stack) ==
    LET PutAt(o, list, part) == [n \in 1 .. 5 |-> IF n = o THEN part ELSE list[n]]
        nothing == [o \in 1 .. 5 |-> <<>>]
    IN  [kind |-> <<"strong">> \o kinds, array |-> PutAt(1, PutAt(3, nothing, array3), roots),
         node |-> PutAt(2, PutAt(3, nothing, node3), node2), finobj |-> finobj, stack |-> stack,
         color |-> [o \in 1 .. 5 |-> "white"], state |-> "pause",
         gray |-> <<>>, grayagain |-> <<>>, weak |-> <<>>, ephemeron |-> <<>>, allweak |-> <<>>]
WeakExtras == {[array |-> a, finobj |-> <<>>, stack |-> s] : a \in Maybe({4}), s \in Maybe({4})}
              \cup {[array |-> <<>>, finobj |-> <<o>>, stack |-> <<>>] : o \in {3, 4}}
WeakJob ==
    \E roots \in {<<2>>, <<2, 3>>} :
        \/ \E x \in WeakExtras, a, b \in WeakModes, c \in {"strong", "string"},
              e2 \in Pairs({3, 4, 5}), e3 \in Pairs({None_, 2, 4, 5}) :
              job' = <<"weak", WeakHeap(<<a, b, "strong", c>>, roots, x.array, <<e2>>, <<e3>>, x.finobj, x.stack)>>
        \/ \E finobj \in Maybe({4}), e, e2, e3 \in Pairs(2 .. 5) :
              /\ e.key # e2.key
              /\ job' = <<"weak", WeakHeap(<<"ephemeron", "ephemeron", "strong", "strong">>, roots, <<>>,
                                           <<e, e2>>, <<e3>>, finobj, <<>>)>>

-----------------------------------------------------------------------------

JobHolds(a) ==
    LET kind == a[1]
    IN  CASE kind = "pattern" -> PatternHolds(a[2], a[3])
          [] kind = "pack" -> PackRoundTrip(a[2], a[3])
          [] kind = "unpack" -> UnpackRoundTrip(a[2], a[3])
          [] kind = "chunk" -> ChunkSurvives(a[2], a[3], a[4])
          [] kind = "part of a chunk" -> PartRefused(a[2], FALSE, a[3], a[4])
          [] kind = "foreign chunk" -> ForeignRefused(a[2], a[3])
          [] kind = "varint" -> VarintExact(a[2], a[3])
          [] kind = "insert" -> InsertAgrees(Heap(a[2]), a[3], a[2], a[4], 99)
          [] kind = "remove" -> RemoveAgrees(Heap(a[2]), a[3], a[2], a[4])
          [] kind = "concat" -> ConcatAgrees(Heap(a[2]), a[3], a[2], 99, a[4], a[5])
          [] kind = "unpack table" -> UnpackAgrees(Heap(a[2]), a[3], a[2], a[4], a[5])
          [] kind = "move" -> MoveAgrees(Heap(a[2]), a[3], a[4], a[5], a[6], a[7])
          [] kind = "weak" -> CycleExact(a[2])
          [] kind = "pack table" -> PackAgrees(Heap(a[2]), a[3], a[4])

Machines == {"sort", "stack", "hooks", "lines", "job"}

LibInit ==
    /\ machine \in Machines
    /\ IF machine = "sort" THEN Init
       ELSE /\ input = [array |-> <<>>, order |-> AnyOrder] /\ array = <<>> /\ lo = 1 /\ up = 0 /\ rnd = FALSE
            /\ p = 1 /\ i = 1 /\ j = 1 /\ calls = <<>> /\ pc = "done"
    /\ StackInit
    /\ HookInit
    /\ job = IF machine = "lines" THEN Open(1) ELSE <<>>
    /\ held = TRUE

LibNext ==
    \/ machine = "sort" /\ Next /\ UNCHANGED <<libVars, stackVars, hookVars>>
    \/ machine = "stack" /\ StackNext /\ UNCHANGED <<libVars, vars, hookVars>>
    \/ machine = "hooks" /\ HookNext /\ UNCHANGED <<libVars, vars, stackVars>>
    \/ machine = "lines" /\ LinesNext /\ UNCHANGED <<machine, held, vars, stackVars, hookVars>>
    \/ /\ machine = "job" /\ job = <<>> /\ (PatternJob \/ PackJob \/ ChunkJob \/ TableJob \/ WeakJob)
       /\ held' = Holds(job')
       /\ UNCHANGED <<machine, vars, stackVars, hookVars>>

\* Only the sort runs by itself: its caller waits for it.
LibSpec == LibInit /\ [][LibNext]_<<libVars, vars, stackVars, hookVars>> /\ WF_vars(Next)

-----------------------------------------------------------------------------
(* Properties of the jobs. *)

Asked(kinds) == machine = "job" /\ job # <<>> /\ job[1] \in kinds

\* find, match, gmatch and gsub give what the patterns mean, and fail when they mean nothing.
PatternsAgree == Asked({"pattern"}) => held

\* What pack makes, unpack reads back, and what unpack accepts, pack makes.
PackAgreesWithUnpack == Asked({"pack", "unpack"}) => held

\* A dumped function comes back, whatever the pieces it is read in; a chunk cut off, or with
\* another header, is refused.
ChunksSurvive == Asked({"chunk", "part of a chunk", "foreign chunk", "varint"}) => held

\* The assertion of dumpAlign holds in every call of vmkU_dump, whatever the writer returns.
DumpAligned == Asked({"part of a chunk"}) => AlignedWhenFailed(job[2], FALSE, job[3])

\* table.sort sorts, and the other table functions do what they promise about the table
\* before the call.
TablesAgree == Sorted /\ (Asked({"insert", "remove", "concat", "unpack table", "move", "pack table"}) => held)

\* A cycle of the collector keeps what is accessible, ephemerons included, and clears from
\* weak tables exactly the entries that their modes let go.
WeakTablesExact == Asked({"weak"}) => held

\* Every instruction has the line that it was coded with, after corrections and removals.
LinesSound == machine = "lines" => LinesExact(job) /\ EstimateIsLow(job)
=============================================================================
