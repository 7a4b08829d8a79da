# A TLA+ verification of VMK

VMK is a dialect of Lua (5.4/5.5 code base) written in C: a compiler to
bytecode, a register machine, a tri-color garbage collector with an incremental
and a generational mode, coroutines, and a C API with its libraries.  This
directory models the parts of `src/` whose correctness rests on the order of
things: the collector against the program that changes the heap, errors and
yields against the frames they cross, resizes against the collections they
start, and one pass of code generation against the jumps and registers it
leaves open.  TLC checks the models on small instances, and TLAPS proves the main
invariants for every value of the constants.

`PROJECT.json` lists the components, the runs, for each property a plausible bug
of the code that violates it (the mutant), the hazards, the theorems, and for each
definition the lines of `src/` it models.

## 1. The system

| Component | State it keeps | Operations | What makes it correct |
|---|---|---|---|
| Incremental collector (`lgc.c`) | colors, `allgc`/`finobj`/`tobefnz`, gray lists, `twups`, sweep cursor, `gcstate` | `singlestep`, `vmkC_fullgc`, barriers, `vmkC_checkfinalizer`, finalizers | nothing reachable is freed, garbage is freed, only garbage is finalized, the tri-color invariant |
| Generational collector (`lgc.c`) | ages, touched lists, `survival`/`old1`/`reallyold` | `youngcollection`, `entergen`, `minor2inc`, `fullgen` | an old object that points to a young one is in a list |
| Weak tables (`lgc.c`) | `weak`, `ephemeron`, `allweak` lists | `traverseephemeron`, `convergeephemerons`, `clearbykeys`, `clearbyvalues` | an entry goes exactly when its key or value is collected |
| Calls and errors (`ldo.c`, `lapi.c`) | the `CallInfo` list, `nCcalls`, the C stack with its `setjmp`s | call, return, `vmkD_throw`, `pcall`, `callk`, `pcallk`, `finishCcall`, `unroll` | an error reaches the innermost pcall, continuations are run, counts are restored |
| Coroutines (`ldo.c`, `lcorolib.c`, `lstate.c`) | `status`, frames of each thread | resume, wrap, yield, close, status | the life cycle of the manual, refusal of what is not resumable |
| To-be-closed variables, upvalues (`lfunc.c`) | `tbclist`, `openupval` | `vmkF_newtbcupval`, `vmkF_close`, `vmkF_findupval`, `vmkF_closeupval` | each variable is closed once, in order, also under errors and yields |
| Strings (`lstring.c`) | the hash table of short strings, the API cache | `internshrstr`, `vmkS_remove`, `vmkS_resize`, `vmkS_new` | equal short strings are one object |
| Tables (`ltable.c`) | array part, node vector, `lastfree`, length hint | get, set, next, length, rehash, resize | a finite map, traversed once per entry; the length is a border |
| Memory (`lmem.c`) | `GCdebt` | realloc, `tryagain` (emergency collection), `growaux` | a failed allocation leaves the structures as they were |
| Lexer, parser, code generator | token, blocks, labels, registers, jump lists | the compilation of a chunk | jumps and registers, scopes, gotos |
| Interpreter (`lvm.c`, `ltm.c`) | the frame's registers | the instructions, metamethods, arithmetic | the semantics of the manual at the limits of the integers |
| C API (`lapi.c`), auxiliary library (`lauxlib.c`) | the C function's part of the stack; buffers | push, pop, get, set, load; buffers, references | stack discipline, barriers on every store |
| Debug interface (`ldebug.c`), libraries, binary chunks, standalone interpreter, transpilers | mostly none | | sequential |

How they interact.  The interpreter and the API allocate through `lmem.c`, which
may start a collection when memory is short; the collector traverses what all
the others hold and calls back into the interpreter for finalizers; stores tell
it of new references (barriers).  The collector frees strings by
`vmkS_remove` and resizes their table in `checkSizes`.  Calls, errors, yields
and to-be-closed variables share the C stack, `nCcalls` and the frames.
A traversal of a table keeps no state in the table: it goes on from the last
key, which the collector may have killed meanwhile.

There is one OS thread: what interleaves is the program with the steps of the
collector, coroutines with each other, and callbacks (finalizers, `__close`
metamethods, continuations, emergency collections) with the code that called
them.  These are the behaviours the models are about; the hazards of
`PROJECT.json` name them line by line.

## 2. The modules

| Module | Models | Composes or refines |
|---|---|---|
| `IncrementalGC` | `lgc.c` in incremental mode, with the stores of `lapi.c`/`lvm.c`, and upvalues of `lfunc.c` | |
| `IncrementalGCProofs` | | proofs about `IncrementalGC` |
| `GenerationalGC` | `lgc.c` in generational mode: ages, young and major collections, shifts of mode | |
| `WeakTables` | `lgc.c`: the three kinds of weak tables in one cycle | compared with what the manual says of them |
| `Calls` | `ldo.c`, closing in `lfunc.c`, `lcorolib.c`, `vmkE_resetthread` | implements `CoroutineLife` |
| `CallsInvariant` | | the inductive invariants of `Calls` |
| `CallsLemmas`, `CallsProofs`, `CallsClosing` | | proofs about `Calls` |
| `CallsLife` | | the proof that `Calls` implements `CoroutineLife` |
| `CoroutineLife` | what `lcorolib.c` promises: the life of coroutines | abstract |
| `CoroutineLifeProofs` | | proofs about `CoroutineLife` |
| `Stack` | `ldo.c`, `lfunc.c`: the reallocation of a thread's stack and what points into it | |
| `Hooks` | `ldebug.c`, `ldo.c`, `lvm.c`: hooks and the trap | uses `LineInfo` |
| `LineInfo` | `lcode.c`, `ldebug.c`: line information, saved and read | |
| `StringTable` | `lstring.c` with `checkSizes`, `tryagain` and the marking of strings | |
| `StringTableProofs` | | proofs about `StringTable` |
| `Table` | `ltable.c`, with `clearbyvalues` | implements `FiniteMap` |
| `FiniteMap` | what a table is for the program | abstract |
| `CodeGen` | `lcode.c`: expressions, registers, constants, jump lists | |
| `Compiler` | `lparser.c`: variables, constructors, calls, assignments | uses `CodeGen` |
| `Blocks` | `lparser.c`: blocks, scopes, labels and gotos, loops, the function as a whole | uses `Compiler` |
| `Semantics` | what a program means, computed from its tree | abstract |
| `Interpreter` | `lvm.c`: the instructions | runs `Blocks`, agrees with `Semantics` |
| `TableSort` | `ltablib.c`: `table.sort`, one step for each comparison | |
| `TableSortProofs` | | proofs about `TableSort` |
| `TableLibrary` | `ltablib.c`: insert, remove, move, concat, pack, unpack | compared with what they promise |
| `StringPatterns` | `lstrlib.c`: the matcher, find, match, gmatch, gsub | compared with `PatternMeaning` |
| `PatternMeaning` | what a pattern means, without backtracking | abstract |
| `StringPack` | `lstrlib.c`: pack, packsize, unpack | one the inverse of the other |
| `BinaryChunk` | `ldump.c`, `lundump.c`, `lzio.c` | one the inverse of the other |
| `MCIncrementalGC`, `MCGenerations`, `MCCalls`, `MCStringTable`, `MCTable`, `MCInterpreter`, `MCLibraries` | | instances for TLC |

### IncrementalGC

The state is the `global_State` of the collector (`gcstate`, `currentwhite`,
`gray`, `grayagain`, `twups`, the sweep cursor as the set `tosweep` of what is
left of the list), and the heap: a color, a list and a set of references for each
object.  Objects are threads (their stack is a set of references), tables,
closures, upvalues and strings.  `Mutator` has an action for each way in which
the program changes the heap (`NewObject`, `Load`, `Store` with the backward
barrier, `SetField` with the forward barrier, `SetUpVal`, `CloseUpVal`,
`CheckFinalizer`, ...), `Collector` has one for each state of `singlestep`, and
`FullGC` starts `vmkC_fullgc` at any state; a stack `targets` holds what
the calls of `vmkC_runtilstate` wait for, so an emergency collection can run
inside a full one's finalizer.  The atomic phase is one action, as in the code,
which is not interruptible there.  Marking an object may give it any of the
colors that `reallymarkobject` gives to its kind; sets stand for the lists,
since no property depends on their order.  Sweeping takes one object per step,
which is finer than the code.

### Calls

Each thread has its list of frames; all share one C stack, whose elements are
`vmkD_rawrunprotected` (the setjmp, with the counts that it restores), `ccall` and
`vmkF_close`; each has the index of the frame it works for (`depth`), as the C code
has it in a local variable.  `Throw` cuts the C stack to the last setjmp of the
thread and does what the code after that setjmp does; `Unroll` continues a
coroutine's frames (`finishCcall`, `finishpcallk`, `vmkV_finishOp`).  The program
is arbitrary: it calls, marks variables, fails, yields, returns, resumes, wraps
and closes at any place where a function runs.  `nCcalls` is its two halves,
`cc` and `nny`.

### StringTable

Strings are objects with a content; `hash` is the vector of buckets.
`InternShrStr` and `Resize` are split where they allocate: the allocation may
fail, and before it does `tryagain` runs an emergency collection unless
`gcstopem` is set.  The steps of the collector that matter to strings (marking,
`vmkS_clearcache`, sweep, `checkSizes`, and a young collection) are actions.

### Table

The nodes, their `next` offsets, `lastfree`, the array and its length hint are
kept as the code keeps them.  `Set` is `vmkH_set`; when no free position is left
it computes the sizes as `rehash` does and `NewHash` and `NewArray` are the two
halves of `vmkH_resize`, each of which may fail or collect.  `VmkHNext` is
`vmkH_next`; the program obeys the manual, and assigns only to existing fields
during a traversal.  `Border` is what `vmkH_getn` returns; `GetN` changes the hint.

### GenerationalGC

The state is one record `g`, the `global_State`: the three lists with the
pointers into them that divide generations (`survival`, `old1`, `reallyold`,
`firstold1` and their twins for objects with finalizers), colors, ages and the gray
lists; `todo` is what the function of the collector that waits for a finalizer
has still to do, and `finalizing` is `GCSTPGC`.  Between the actions of the
program (`GenNew`, `GenStore` with either barrier, `GenLoad`, `GenPop`, `GenSetFinalizer`, ...)
the collector does a young collection, an incremental step of a major one, a full or
an emergency collection, or a change of mode, each up to its next call of a finalizer;
in a finalizer the program acts again.  An assertion of the code becomes a
conjunct of `~g.bad`.  What is abstract: an object has at most one field; the
order of a gray list; objects are not reused once freed; `checkminormajor` and
`checkmajorminor`, which compare sizes, may answer anything; metatables are
fixed.  A behaviour starts, as `pmain` does, by changing to the mode.
`GenerationsSound` is what `ltests.c` checks in the repository's debug build
(`checkobject`, `testobjref1`, `checklist`, `checkgrays`), the assertions, and that
nothing reachable is freed.

### WeakTables

A pure function: a heap, with weak tables, strings and objects with
finalizers, goes through one cycle; the program may take an object to its stack between the
propagation and the atomic phase.  `CycleExact` compares the marks and what is left in
every table with a definition by reachability alone.  In the code the number
and order of visits depend on the order of the lists and of the nodes; the lists are sequences here.

### Stack, Hooks, LineInfo

`Stack` keeps pointers as pairs of a block and an offset, so a pointer into
the old block can be told from one into the new one; calls, requests for
space, overflows, the shrinking by the collector, marks of to-be-closed
variables (distances of at most `MaxDelta`, with dummy nodes) and open upvalues are actions.
`Hooks` runs functions whose instructions are known by what they do to
the trap; hooks are set by a C function, by another hook, or by a signal, and may
yield.  Its history variables note which lines and counts were due.
`LineInfo` codes, corrects and removes instructions and reads their lines back.

### CodeGen, Compiler, Blocks, Semantics, Interpreter

A behaviour takes one function, compiles it in one step, and executes its
instructions one at a time.  `CodeGen`, `Compiler` and `Blocks` have one operator per C
function, on a record that is the `FuncState` (the code, the constants, `freereg`,
`lasttarget`, `maxstacksize`, the blocks with their labels and pending gotos, the variables)
and an `expdesc` with its two jump lists, which are
chained through the offsets of the jumps as in the code.  An assertion of the
code generator becomes a conjunct of `fs.ok` (`Require`).  The source is a tree:
reading tokens is left out.  `Interpreter` has one action for each group of instructions,
with open upvalues, closures and to-be-closed variables.
`Semantics` evaluates the tree with no registers and no jumps; a store
includes a log of every call to the host and to a metamethod, so that the order of evaluation
is compared too, and the compiler refuses exactly the functions that break the manual's rules
(`RefusesExactly`: gotos into scopes, missing labels, assignments to constants).

What a metamethod or the host does is fixed: every missing operation has a
metamethod, which returns a constant (comparisons: true), and the host function
returns its arguments.  `__eq` is left out, and so are the operators
`//`, `%`, `/`, `^`, `|`, `~` and `#`, which are generated like `*`, `&` and `-`.  Floats
are integral.

`Interpreter` takes `Compiled` and `Meaning` as constant operators; the
configurations set them to `CompileFunction` and `RunBody`, so that TLC does not collect
coverage inside the compiler, which would not fit in memory.  `GenerationalGC`
(`Collect`) and `MCLibraries` (`Holds`) do the same.

### The libraries

`TableSort` is the quicksort with an explicit stack of activations; the order function
answers each comparison, by an order or with anything.  `StringPatterns` has one
operator per C function of the matcher; `PatternMeaning` splits a pattern into items and
lists all the ways to match in order of preference.  `TableLibrary` makes each `vmk_geti` and
`vmk_seti` a step of a fold, over integers of a small width whose ends are reached.
Its tables have no metamethods for access.
`StringPack` and `BinaryChunk` write and read; the writer may fail, with what the assertion of
`dumpAlign` found kept in the state (`asserts`), and the reader gets the chunk in pieces.

## 3. The runs

| Run | Instance | Shows | States |
|---|---|---|---|
| `gc_tables` | registry, 2 tables with finalizers, 2-slot main stack, full and emergency collections | the tri-color invariant, nothing black after the sweep, no dangling reference, finalizers only for garbage, full collections are precise | 923 k |
| `gc_upvalues` | a coroutine, a closure, an upvalue | the inductive invariant `GCInv`, of which "no upvalue points into a freed stack" is a conjunct | 249 k |
| `gc_live` | registry, a table with a finalizer, changing roots, full collections; fair | garbage is freed in the end | 202 k |
| `coroutines` | calls in main and 2 coroutines, 3 and 4 frames, `MaxCCalls = 4`, either with 2 variables and one coroutine in use at a time, or with both and one marked variable at a time; or, instead, the generational collector with an old closure or an old weak table, a table that may get a finalizer and a userdata | each variable is closed once, errors reach the innermost pcall, yields their resume, counts and frames are right, the C-stack limit, the life cycle; ages, colors and lists, nothing reachable is freed, no object is freed before its finalizer | 290 k |
| `strings` | 3 strings, 4 contents, sizes 8 and 4 | canonical strings, resurrection, removal | 345 k |
| `strings_gen` | the same with failing allocations in young collections | **violation**, see below | |
| `tables` | 4 integer keys and a collectable one, 2 values | a finite map, borders, the main invariant, rehash sizes, the control variable of a traversal | 153 k |
| `tables_weak` | the same, with collections while the array shrinks | **violation**, see below | |
| `codegen` | some 30 k functions over 3 parameters, 2 upvalues | compiled code does what its source means; exactly the ill-formed functions are refused; no assertion fails; the code is well formed | 287 k |
| `codegen_float` | integer literals against `x or 1.0` | **violation**, see below | |
| `libraries` | one machine (`table.sort`, a stack, hooks, line information) or one job (patterns, pack, chunks, tables, weak tables) | each component does what it promises | 418 k |
| `chunk_writer` | the chunks of `libraries`, with a writer that fails after 0 to 60 pieces | **violation**, see below | |

Two runs hold several components that have nothing in common: a behaviour
chooses one at its start (`part`, `machine`) and the others do not move.

Why the bounds are enough, and what they are:

* Generations: `MaxLive = 2` objects on the stack with one old object, one
  that is created and grows old and a third that is new: an object passes
  all ages (new, survival, old1, old, touched1, touched2, old0) while others of every
  other age refer to it.  An incremental step does all that it may without a pause
  (`Work = 100`), so in a major collection the program runs before and after the atomic phase and between
  finalizers; finer interleavings are those of `gc_tables`.  The program asks for the
  mode `minor` only (`Modes`); the change to `inc` is what a full collection does.
* Weak tables: 2 weak tables in every combination of modes, with one entry each (two
  for ephemerons) over the tables themselves, an object with a finalizer, and a string: chains of ephemerons through
  both tables, in both orders of nodes, keys that only finalizers see, cycles from a value to its own key.
* Collector: each table holds one reference and the main stack two, so chains
  of three objects, cycles, sharing and the loss of the only reference between two
  steps all occur.  `MaxStack`, `MaxFields`, `RootTables`, `Finalizable` and
  `FullGCs` bound what the program may do, and the proofs hold for all of them.
* Calls: four frames in a coroutine are two nested C calls with a Vmk function in
  each, so an error can find a pcall below a pcall, through a frame that is
  closing.  Two bounds on the states (`MCCalls`) share the work: `OneCoroutine`, with two
  variables, leaves one of the two coroutines unused at any time, and `OneVariable` has
  both at work, but while a variable is marked each thread has at most two frames, a function and the C
  function that it called: a variable that is pending in one coroutine is crossed by the error, the yield or the
  close of the other.  `MaxCCalls` is 4 instead of 200; the second limit, `ErrCCalls`, is two
  above it as in the code it is a tenth.
* Strings: three objects for two buckets that collide after a shrink; the
  minimum size of the table is 8 and the instance shrinks to 4.
* Tables: keys 1, 2, 8 and 9 (the least powers of two around a gap) and one object that
  collides with 1 give arrays of sizes 0 to 8 with holes and hash parts of sizes 0 to 4,
  with and without `lastfree` (`LimForLast = 4`; 8 in the code).
  `MaxVicinity` is 1 (4 in the code) so that the binary searches are reached.
  The last doubling of `hash_search`, at the largest integer, is not reached.
* Compiler: operands have 3 bits, an index of a constant 1 bit (`MaxC`, `MaxB`, `MaxBx`) and
  integers 6 (`Width`), so that immediates and constants that do not fit are as common as
  those that do; a constructor keeps 2 items (`MaxToStore`; 50 in the code).
  The families of `MCInterpreter` are all operators with all kinds of operands,
  nested; all conditions with two operators and some with three, as a value, as an argument
  and in an `if`; all pairs of assignment targets; argument lists, constructors
  and returns with open and closed ends; every three statements of a block in six contexts, with gotos,
  labels, breaks, closures and variables to close; and numeric loops at the limits of the integers.
* Stack: sizes 4 to 8 with an error space of 7, and distances of at most 2 (`MaxDelta`;
  65535 in the code): growth, shrinking, overflow, overflow while an overflow is handled.
* Hooks: a function with a call, a jump back and a tail call, and a vararg one; all the masks that differ.
* Sort: arrays of up to 5 elements of 3 values; arrays of up to 6 with an order function that
  answers anything (the unguarded scan needs 4, the random pivot `RanLimit = 4` elements, 100 in the code).
* Patterns: every sequence of up to two of 19 items on 11 subjects and of three of 11 items on one.
* Pack: formats of up to two of 28 options, or three of 7; bytes have `NB = 2` bits, an integer 2 bytes.
* Chunks: a main function with up to two constants and nested functions; numbers in
  groups of 3 bits; writers that fail at every piece; chunks cut off there, by the end of the input or by an
  empty piece, and read in pieces of 1, 3 or all bytes.
* Table functions: integers from -6 to 5, all positions and bounds, lengths 0, 1, 4 and the largest.
* `SYMMETRY` permutes only interchangeable objects; it is not used where
  liveness is checked.  `VIEW`s forget only what nothing reads again (the gray
  lists outside the mark phase, which white is the current one, the counters of
  threads that are not on the C stack).

Fairness (`gc_live`).  The code has no scheduler: the collector runs because
allocation increases the debt and `vmkC_step` is called when it is positive.  A program
that goes on allocating therefore runs every step of the collector again and again, which
is weak fairness of the collector's actions; finalizers are assumed to
return.  A program that stops allocating has no such guarantee.  Emergency
collections are left out of this run: repeated for ever, they may keep finalizers
from being called.

## 4. What the violations show

* `strings_gen`: `youngcollection` ends in `checkSizes`, which shrinks the string
  table without the flag `gcstopem` that a step of the incremental mode sets
  (`lgc.c:1601`).  If the allocator refuses to shrink the vector, the emergency
  collection in `tryagain` frees strings that are already chained by the smaller
  size, and `vmkS_remove` looks for them by the larger one.  The comments of
  `vmkS_resize` and `cantryagain` promise that this is safe.
* `tables_weak`: `vmkH_resize` copies the slice that the array loses to the new
  hash part before it allocates the new array; an emergency collection in this
  allocation clears a weak table's old array but not the copy, so the resized table
  refers to freed values.
* `codegen_float`: `isSCnumber` sets `*isfloat` for a numeral even when it then refuses
  the operand because it has pending jumps, and `codeorder` uses the same flag for the
  other operand.  In `1 < (x or 1.0)` the metamethod of `x` gets `1.0`, although the
  source has the integer `1` (`lcode.c:1261`, `1576`).

* `chunk_writer`: once the writer has failed, `dumpBlock` does nothing and the position
  stays where it is, but the dump of the function goes on; the next `dumpAlign` asserts that the position
  is a multiple of the alignment (`ldump.c:73`), and it seldom is.  Only a build with assertions stops there; without them
  nothing more is written and `vmkU_dump` returns the error, which is what `ChunksSurvive` says of a
  failing writer.  As long as the writer does not fail the assertion holds, and that is in `ChunksSurvive`, too.

The first two need an allocator that refuses to shrink a block, or, for the second, a
shrinking reallocation that fails once.  

Observations that have no run of their own, met while modelling:

* The comment at `ltable.c:17-19` says "more than half the slots" where
  `computesizes` asks for a third (`arrayXhash`).
* A stack that overflowed stays at `ERRORSTACKSIZE` until a collection shrinks it. An
  overflow before that, with no handler running, is reported as an error in the error
  handling (`ldo.c:303-308`). `Stack` has this behaviour; `OverflowHasSpace` allows it.
* A line hook that yields makes the instruction be traced again: the count goes down twice, so the next
  count hook comes one instruction early, or is lost if it falls on that
  instruction (`ldebug.c:931-939`). `CountEventsExact` allows for the instructions traced twice.
  `CIST_HOOKYIELD` stays set if the hooks are turned off between the yield and the
  resume, and then swallows the first event of a later hook.
* After an error inside the iterator of `gmatch`, which a caller may catch and go on, `matchdepth` keeps
  the depth of the error (`lstrlib.c`, `gmatch_aux`); the next call fails its
  debug assertion.
* `table.remove` of an object whose `__len` is the largest integer accepts the smallest integer as a
  position, and `table.insert` wraps the position (`ltablib.c:85`, `107`): their unsigned comparison is off at that length.

## 5. What is proved

`IncrementalGCProofs`.  `NoDangling` is not inductive: a step that frees needs to
know that what is dead cannot be reached, which needs the tri-color
invariant when the atomic phase starts, which needs the gray lists to be
complete, and after it that the dead objects are those still to be swept.  `GCInv`
joins these: `TypeOK`, `RefsOK` (which kinds refer to which), `HeapKept` (what is
reachable from the roots is neither free nor dead, and closed under references),
`UpValsOK`, `UpValOwnerAlive`, `SweepOK` (dead objects wait in `allgc` for the
sweep; what is not yet white is still to be swept), `ListsOK`, `TriColor` and
`GrayIsListed`.  The lemma of the atomic phase shows that marking, as the least
closed set (`Trace`), marks all that is reachable; the rest is one lemma for each
action.  From `GCInv` follow `GCSafe`, `GCMarks`, `GCUpVals` and `GCSwept`.
`GCFinalizes` is the action property `FinalizeOnlyGarbage`: only `Atomic` moves objects to
`tobefnz`, and what it has marked by then (`AtomicMarks`) holds the roots and is
closed under references, so an object it did not mark is unreachable.

`StringTableProofs`.  `StringInv` says where each string is in every state of a
resize and that no other string has the content that is being created.  It holds,
with `Canonical`, `HeldSurvives` and `RemoveFinds` (`StringsSafe`, `HeldAlwaysSurvives`,
`RemoveFound`), under `GenShrinks`: shrinking does not fail in a young collection.  `strings_gen` refutes what
that hypothesis excludes.

`TableSortProofs`.  For every array, every order function, consistent or not, and
every choice of random pivots, `table.sort` reads and writes only inside the table
(`SortInside`).  The inductive invariant `SortInv` says that the intervals of the
current and the waiting activations lie inside the array, that a pivot is sought only in intervals of
three and a partition made only in intervals of four elements or more, and that each scan stays strictly between the ends,
since it raises "invalid order function" one element before it would leave them.

`CallsProofs`.  None of the properties of calls is inductive: where an error lands
depends on which setjmps are on the C stack, what they restore on what was counted
when they were pushed, and whether a yield can leave a frame on whether the C code
of that frame is still on the C stack.  `CallsInv` (module `CallsInvariant`) joins:

* `Shape`: which activation can be over which, that those of a thread are next to each
  other, with a setjmp under each, and work for higher and higher frames;
* `Frames` and `Linked`: which functions can be where in a thread, and that the
  frame of an activation is the one its C code expects (a setjmp that is not of a
  resume is for a `pcall`, a `ccall` for a frame that entered `vmkV_execute`);
* `BlockingHeld`: a frame that only its own C code can go on with (`Blocking`: no
  continuation) has that C code on the C stack (`Held`);
* `ThreadsFit`: what the status of a thread tells of its frames and of its place;
* `Exact`: what each setjmp restores is what is counted up to it, and the counters of each
  thread on the C stack are what is counted up to its last activation;
* `CCallsUpTo(...) < ErrCCalls`, because `vmk_resume` adds a C call without
  `vmkE_checkcstack`, and would break the bound if its own test were weaker;
* `Unmarked`: the frames of a thread that `vmkE_resetthread` closes hold no `pcall`
  without a setjmp.  Without it an error there would pass by such a `pcall`, since
  the close of a thread does not look for marks (`vmkD_closeprotected`).

All but the last are `Core`.  The parts are operators of a C stack and of frames, not of the
variables, because an action of `Calls` makes several steps (a throw cuts the stack, trims the
frames, restores the counters and starts a close) and the states between them are in no behaviour.
`CallsLemmas` says what each part keeps when a stack grows by one activation or is cut, and
when frames are added, trimmed or go on.  Its second half uses `Mid` (a sound state in
which the running thread is in the middle of an action) and `Under` (the C stack under the setjmp that an
error reaches, with what is restored there) and proves each shared step: `Throw`, `Enter`, `Finish`,
`CloseProtected`, `CloseThread`, and the entry and exit of a thread.  `CallsProofs` then
has a lemma for each action.  That a setjmp exists under every activation, that
it is the last one, and that the counts of stacks that start alike agree, rest on least and
greatest elements of sets of indices and on cardinalities (`CallsLemmas`).

From `CallsInv`, for any number of coroutines, any variables and any limits: `FramesAlwaysSound` (the
assertion of `finishCcall`), `NCcallsAlwaysExact`, `CStackAlwaysBounded`,
`YieldAlwaysReachesResume`, and the action property `ErrorAlwaysReachesPcall`.  For the last, a
`pcall` with a setjmp is held and so at or under the handler (`HeldRaw`); a mark is never under a frame
that blocks (`Frames`), so it is over every such `pcall`, and only the handler of a
coroutine, which calls `precover`, can have one over it.
TLC checked `CallsInv` on a smaller instance before it was proved; the run itself keeps the
properties a reader cares about.

`CallsClosing`.  `ClosedExactlyOnce` (`ClosedAlwaysOnce`) says that no variable marked as
to-be-closed is forgotten and none is closed twice.  It needs `Core` and `TbcInv`, which says:

* `Levels`: the level of each running `vmkF_close` is that of the frame it works for, so a close
  reaches all that its frame marked (for a `pcall`, all that is above it);
* `Bases` and `Rising`: the frames of a thread, and its pending variables, are in the order
  of their positions.  A frame that ends takes with it what is above its base, and
  `vmkF_close` meets the variables from the last one down, so that one of a low level leaves nothing behind;
* `Covered`: each pending variable has one that will close it.  Either the frame that
  marked it is still there (`Owned`), or a close on the C stack that no yield can interrupt goes
  down to it (`Cleared`), or a `pcall` beneath it was marked by `precover` (`Recovered`).  The
  case that makes this hard is an error: the frames that own the variables are cut off before their
  variables are closed, so the throw must leave the close, or the mark, that takes over;
* `Once`: no variable is pending twice, and none that is pending was closed.

The lemma of `vmkD_throw` (`ThrowClosable`) and that of a frame that ends (`FinishClosable`) do the work;
there is one more lemma for each action.

`CoroutineLifeProofs`.  For any number of coroutines, the chain of resumers has no
thread twice and agrees with the status of each coroutine, and the dead ones stay
dead.

`CallsLife`.  `Calls` implements `CoroutineLife` (`CallsImplementLife`), with the refinement
mapping that TLC checks: `ActiveChain` and `LifeOf`, which read the chain of resumers and the status
of each coroutine from the C stack, the statuses and the frames.  The proof needs only `Core`:

* `Entered` keeps of the C stack the activations that entered a coroutine (a `vmk_resume`, or the
  close of one that was out of the C stack), each with its thread and whether it is closing.  In a sound
  state no thread is entered twice (`ShapeEntries`), the chain and the lives are functions of `Entered`, the
  statuses and the functions not yet started (`LivesAre`), and a status `normal` without an
  entry is impossible;
* `Moves` lists what an action may do to those: nothing, add an entry on top (`Begins`), take the last one
  off and leave its coroutine suspended (`Yields`) or ended (`Ends`), or turn it from active
  to closing (`Fails`, an error in a coroutine that `auxwrap` closes).  The statuses of the other coroutines stay
  (`Outside`);
* `ThrowMoves` is the heart of it: an error or a yield cuts many activations, and the cut must
  take off at most one entry, the one of the thread that throws, since the setjmp of a
  `vmk_resume` is under everything its coroutine does.  The other actions have a lemma each, joined in `LivingNext`;
* `MovesLive` turns each move into a step of `CoroutineLife`.  The chain is a sequence that numbers the entries
  in order, so it rests on the ranks of the elements of a finite set (`RankNext`, `NthFound`).

What was proved of `CoroutineLife` then holds of `Calls`: `NeverReentered` (`NoReentry` and
`LifeAgrees`) and `EndedForever` (`DeadStaysDead`), by an instance of `CoroutineLifeProofs`.

The assumptions are those on the constants (`KindsAssumption`,
`CallsAssumption`, `StringsAssumption`, `LifeAssumption`, `InputsAssumption`, `LimitsAssumption`): disjoint kinds,
finite sets, positive sizes, arrays that are sequences, `RanLimit` of at least 4.

## 6. What is only model-checked, and what is not modelled

Only TLC: `GarbageIsFreed` and `Terminates` (liveness), `FullGCIsPrecise`, all of `Table`, with its refinement of `FiniteMap`, `Stack`, `Hooks` and `GenerationalGC`, the
compiler, whose operators are recursive over the tree, and the algorithms of the
libraries, which are recursive or folds.  What a recursive function or a fold computes for
every input is an induction over data that the provers at hand cannot do.

Not modelled:

* of the collector: the pace (debt), memory sizes and the decisions that rest on them; the closing of the state; threads, upvalues
  and ephemerons in the generational mode; errors inside finalizers;
* of calls: message handlers, memory errors outside the stack, `close_state`;
* of the language: the lexer and numerals, the operators named above, comparisons of large integers with floats,
  metatables that change, and with them the cache of absent metamethods;
* the discipline of the API's indices, `lauxlib.c` (buffers, references), symbolic execution in
  `ldebug.c`, mathematics, utf8, `string.format`, `require`.
* Input and output, the operating system, the command line, the test library and the
  transpilers stay out: they are I/O, or sequential code that tests reach well.

## 7. Plan

In the order of what it would be worst to have wrong:

1. *(done)* The incremental collector, calls and coroutines, the string table, tables, the
   compiler with statements and blocks, against a semantics; the invariants of the
   collector and of the string table proved.
2. *(done)* The stack and what points into it, hooks, line information, the generational mode,
   weak tables; `table.sort`, patterns, pack, chunks and the table library against
   what they promise; `table.sort` proved to stay inside its table.
3. *(done)* The invariant of calls over any number of coroutines, and what follows from it.
   So are `ClosedExactlyOnce` and the refinement of `CoroutineLife`.  Next: `StackSound` and
   `NoDanglingValue`.
4. Metatables with the cache of absent metamethods; ephemerons and threads in the generational mode;
   buffers of `lauxlib.c`; numerals and their conversions.
