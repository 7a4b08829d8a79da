----------------------------- MODULE StringTable -----------------------------
(***************************************************************************)
(* The string table of lstring.c: short strings are internalized, so that  *)
(* equal strings are the same object, while the collector frees those the  *)
(* program dropped and an allocation that fails starts a collection in the *)
(* middle of vmkS_resize or of internshrstr.                               *)
(*                                                                         *)
(* The table is a vector of buckets, each the set of the strings chained   *)
(* there.  What reaches a string is reduced to 'held'; marking, sweeping   *)
(* and emergency collections do what IncrementalGC shows them to do.  Long *)
(* strings and the strings that are never collected are left out, but for  *)
(* g->memerrmsg, which fills the unused entries of the cache.              *)
(***************************************************************************)
EXTENDS Naturals, FiniteSets

CONSTANTS
    Str,        \* string objects
    Content,    \* what a string may hold
    Hash,       \* vmkS_hash
    MemErrMsg,  \* the string object that is never collected
    None,       \* the content of an object that is not allocated
    MinSize,    \* MINSTRTABSIZE
    MaxSize,    \* MAXSTRTB
    ShrinkFails \* bound: the modes in which shrinking the vector may fail

ASSUME StringsAssumption ==
    /\ IsFiniteSet(Str)
    /\ MemErrMsg \notin Str /\ None \notin Content
    /\ Hash \in [Content -> Nat]
    /\ MinSize \in Nat \ {0} /\ MaxSize \in Nat
    /\ ShrinkFails \subseteq {"inc", "gen"}

VARIABLES
    content,  \* what each object holds, None if not allocated
    color,    \* "white" (the current one), "dead" (the other white) or "black"; in
              \* generational mode "white", then "survival", then "black" (old)
    held,     \* the strings the program can reach
    cache,    \* a line of g->strcache (STRCACHE_M = 2)
    hash,     \* tb->hash, the buckets
    size,     \* tb->size
    nuse,     \* tb->nuse
    gckind,   \* "inc" or "gen" (KGC_GENMINOR)
    gcstate,  \* "mark", "sweep" or "swpend"
    tosweep,  \* what is left to sweep
    pc,       \* "run", or where internshrstr or vmkS_resize is
    wanted,   \* the string internshrstr is creating: its content ...
    list,     \* ... its bucket ...
    tocache   \* ... and is it to enter the cache?

strings == <<content, color, held>>
table == <<hash, size, nuse>>
gc == <<gckind, gcstate, tosweep>>
interning == <<wanted, list, tocache>>
vars == <<content, color, held, cache, hash, size, nuse, gckind, gcstate, tosweep,
          pc, wanted, list, tocache>>

Allocated == {s \in Str : content[s] # None}
Dead == {s \in Allocated : color[s] = "dead"}

\* lmod: the sizes are powers of two, so the mask is a remainder.
Bucket(c, n) == Hash[c] % n

\* tablerehash: the strings in the first 'osize' buckets of 'vect', chained in
\* those of a table of size 'nsize'; the vector has 'len' buckets.
Rehashed(vect, osize, nsize, len) ==
    LET chained == UNION {vect[i] : i \in 0..(osize - 1)}
    IN [i \in 0..(len - 1) |-> {s \in chained : Bucket(content[s], nsize) = i}]

\* vmkS_remove, for all the strings in S: each is looked for where its hash and
\* tb->size say.
Removed(S) ==
    [i \in DOMAIN hash |-> hash[i] \ {s \in S : Bucket(content[s], size) = i}]

Init ==
    /\ content = [s \in Str |-> None]
    /\ color = [s \in Str |-> "white"]
    /\ held = {}
    /\ cache = [j \in {0, 1} |-> MemErrMsg]
    /\ hash = [i \in 0..(MinSize - 1) |-> {}]
    /\ size = MinSize /\ nuse = 0
    /\ gckind \in {"inc", "gen"} /\ gcstate = "mark" /\ tosweep = {}
    /\ pc = "run" /\ wanted = None /\ list = 0 /\ tocache = FALSE

-----------------------------------------------------------------------------
(* The program. *)

Drop(s) ==
    /\ pc = "run" /\ s \in held
    /\ held' = held \ {s}
    /\ UNCHANGED <<content, color, cache, pc>>
    /\ UNCHANGED table /\ UNCHANGED gc /\ UNCHANGED interning

\* The strings internshrstr finds equal to c.  Mutant: not the dead ones.
FoundLive(c) == {s \in hash[Bucket(c, size)] \ Dead : content[s] = c}
Found(c) == {s \in hash[Bucket(c, size)] : content[s] = c}

\* A string that was found: a dead one is resurrected.  Mutant: it is not.
LeftDead(s) == color
Resurrected(s) == [color EXCEPT ![s] = IF @ = "dead" THEN "white" ELSE @]

\* internshrstr until it allocates something.  vmkS_new ('cached') has first
\* moved out the last entry of the cache.
InternShrStr(c, cached) ==
    /\ cache' = IF cached
                THEN [j \in {0, 1} |-> IF j = 0 /\ Found(c) # {}
                                       THEN CHOOSE s \in Found(c) : TRUE ELSE cache[0]]
                ELSE cache
    /\ \/ \E s \in Found(c) : held' = held \cup {s} /\ color' = Resurrected(s)
       \/ Found(c) = {} /\ UNCHANGED <<held, color>>
    /\ IF Found(c) # {} THEN UNCHANGED pc /\ UNCHANGED interning
       ELSE /\ pc' = IF nuse >= size THEN "growing" ELSE "creating"
            /\ wanted' = c /\ list' = Bucket(c, size) /\ tocache' = cached
    /\ UNCHANGED content /\ UNCHANGED table /\ UNCHANGED gc

NewLstr(c) == pc = "run" /\ InternShrStr(c, FALSE)

Hit(c) == {j \in {0, 1} : cache[j] # MemErrMsg /\ content[cache[j]] = c}

\* vmkS_new.
New(c) ==
    /\ pc = "run"
    /\ IF Hit(c) # {}
       THEN /\ \E j \in Hit(c) : held' = held \cup {cache[j]}
            /\ UNCHANGED <<content, color, cache, pc>>
            /\ UNCHANGED table /\ UNCHANGED gc /\ UNCHANGED interning
       ELSE InternShrStr(c, TRUE)

\* growstrtab: vmkS_resize to the double, or no change if it fails.  The bucket
\* of the new string is looked for again.
NewList == Bucket(wanted, size')

Grow(fails) ==
    /\ pc = "growing"
    /\ IF size <= MaxSize \div 2 /\ ~fails
       THEN hash' = Rehashed(hash, size, 2 * size, 2 * size) /\ size' = 2 * size
       ELSE UNCHANGED <<hash, size>>
    /\ pc' = "creating" /\ list' = NewList
    /\ UNCHANGED <<nuse, cache, wanted, tocache>>
    /\ UNCHANGED strings /\ UNCHANGED gc

\* createstrobj, and the new string is chained.
Create(s) ==
    /\ pc = "creating" /\ s \notin Allocated
    /\ content' = [content EXCEPT ![s] = wanted]
    /\ color' = [color EXCEPT ![s] = "white"]
    /\ held' = held \cup {s}
    /\ hash' = [hash EXCEPT ![list] = @ \cup {s}]
    /\ nuse' = nuse + 1
    /\ cache' = IF tocache THEN [cache EXCEPT ![0] = s] ELSE cache
    /\ pc' = "run" /\ wanted' = None /\ list' = 0 /\ tocache' = FALSE
    /\ UNCHANGED size /\ UNCHANGED gc

\* createstrobj raises a memory error.
CreateFails ==
    /\ pc = "creating"
    /\ pc' = "run" /\ wanted' = None /\ list' = 0 /\ tocache' = FALSE
    /\ UNCHANGED cache /\ UNCHANGED strings /\ UNCHANGED table /\ UNCHANGED gc

-----------------------------------------------------------------------------
(* The collector. *)

Mark(s) ==
    /\ pc = "run" /\ gckind = "inc" /\ gcstate = "mark"
    /\ s \in held /\ color[s] = "white"
    /\ color' = [color EXCEPT ![s] = "black"]
    /\ UNCHANGED <<content, held, cache, pc>>
    /\ UNCHANGED table /\ UNCHANGED gc /\ UNCHANGED interning

\* vmkS_clearcache, when the strings of S are going to be collected.
ClearCache(S) == [j \in {0, 1} |-> IF cache[j] \in S THEN MemErrMsg ELSE cache[j]]

\* atomic: what is held is marked, the cache cleared and the white flipped.
Atomic ==
    /\ pc = "run" /\ gckind = "inc" /\ gcstate = "mark"
    /\ LET dying == {s \in Allocated \ held : color[s] = "white"}
       IN /\ color' = [s \in Str |-> IF s \in dying THEN "dead"
                                     ELSE IF s \in Allocated THEN "black" ELSE color[s]]
          /\ cache' = ClearCache(dying)
    /\ gcstate' = "sweep" /\ tosweep' = Allocated
    /\ UNCHANGED <<content, held, gckind, pc>>
    /\ UNCHANGED table /\ UNCHANGED interning

\* freeobj on the strings of S.
Free(S) ==
    /\ hash' = Removed(S)
    /\ nuse' = nuse - Cardinality(S)
    /\ content' = [s \in Str |-> IF s \in S THEN None ELSE content[s]]

\* sweeplist on one string.
Sweep(s) ==
    /\ pc = "run" /\ gcstate = "sweep" /\ s \in tosweep
    /\ tosweep' = tosweep \ {s}
    /\ IF s \in Dead THEN Free({s}) ELSE UNCHANGED <<content, hash, nuse>>
    /\ color' = [color EXCEPT ![s] = "white"]
    /\ UNCHANGED <<held, cache, size, gckind, gcstate, pc>> /\ UNCHANGED interning

SweepEnds ==
    /\ pc = "run" /\ gcstate = "sweep" /\ tosweep = {}
    /\ gcstate' = "swpend"
    /\ UNCHANGED <<cache, gckind, tosweep, pc>>
    /\ UNCHANGED strings /\ UNCHANGED table /\ UNCHANGED interning

\* The vector while vmkS_resize shrinks it: its upper half is emptied before the
\* reallocation.
TooBig(n) == n < size \div 4
Depopulated(vect) == Rehashed(vect, size, size \div 2, size)

\* checkSizes in singlestep.
CheckSizes ==
    /\ pc = "run" /\ gcstate = "swpend"
    /\ gcstate' = "mark"
    /\ IF TooBig(nuse) THEN pc' = "shrinking" /\ hash' = Depopulated(hash)
       ELSE UNCHANGED <<pc, hash>>
    /\ UNCHANGED <<cache, size, nuse, gckind, tosweep>>
    /\ UNCHANGED strings /\ UNCHANGED interning

\* youngcollection: frees what is neither held nor old, the others age, and
\* finishgencycle calls checkSizes.
Aged(c) == IF c = "white" THEN "survival" ELSE "black"
YoungCollection ==
    /\ pc = "run" /\ gckind = "gen"
    /\ LET dying == {s \in Allocated \ held : color[s] # "black"}
       IN /\ content' = [s \in Str |-> IF s \in dying THEN None ELSE content[s]]
          /\ nuse' = nuse - Cardinality(dying)
          /\ cache' = ClearCache(dying)
          /\ IF TooBig(nuse') THEN pc' = "shrinking" /\ hash' = Depopulated(Removed(dying))
             ELSE UNCHANGED pc /\ hash' = Removed(dying)
          /\ color' = [s \in Str |-> IF s \in Allocated \ dying THEN Aged(color[s]) ELSE "white"]
    /\ UNCHANGED <<held, size>> /\ UNCHANGED gc /\ UNCHANGED interning

\* What vmkS_resize leaves when the reallocation fails: the strings go back to
\* the buckets of the whole vector.
Restored == Rehashed(hash, size \div 2, size, size)

Resize(fails) ==
    /\ pc = "shrinking" /\ (fails => gckind \in ShrinkFails)
    /\ IF fails
       THEN hash' = Restored /\ UNCHANGED size
       ELSE hash' = [i \in 0..(size \div 2 - 1) |-> hash[i]] /\ size' = size \div 2
    /\ pc' = "run"
    /\ UNCHANGED <<nuse, cache>>
    /\ UNCHANGED strings /\ UNCHANGED gc /\ UNCHANGED interning

\* cantryagain: may an allocation that failed start an emergency collection?
\* singlestep sets 'gcstopem' while it shrinks the table; youngcollection does
\* not.  Mutant: no 'gcstopem'.
AlwaysTryAgain == pc # "run"
CanTryAgain ==
    \/ pc \in {"growing", "creating"}
    \/ pc = "shrinking" /\ gckind \in ShrinkFails \ {"inc"}

\* tryagain: a full collection frees what is not held, and does not resize.
EmergencyGC ==
    /\ CanTryAgain
    /\ Free(Allocated \ held)
    /\ cache' = ClearCache(Allocated \ held)
    /\ color' = [s \in Str |-> IF s \in held /\ gckind = "gen" THEN "black" ELSE "white"]
    /\ gcstate' = "mark" /\ tosweep' = {}
    /\ UNCHANGED <<held, size, gckind, pc>> /\ UNCHANGED interning

Next ==
    \/ CreateFails \/ Atomic \/ SweepEnds \/ CheckSizes \/ YoungCollection \/ EmergencyGC
    \/ \E s \in Str : Drop(s) \/ Create(s) \/ Mark(s) \/ Sweep(s)
    \/ \E c \in Content : NewLstr(c) \/ New(c)
    \/ \E fails \in BOOLEAN : Grow(fails) \/ Resize(fails)

Spec == Init /\ [][Next]_vars

-----------------------------------------------------------------------------
(* Properties. *)

TypeOK ==
    /\ content \in [Str -> Content \cup {None}]
    /\ color \in [Str -> {"white", "survival", "dead", "black"}]
    /\ held \subseteq Allocated
    /\ cache \in [{0, 1} -> Str \cup {MemErrMsg}]
    /\ size \in Nat \ {0} /\ nuse \in Nat
    /\ hash \in [0..(size - 1) -> SUBSET Str]
    /\ gckind \in {"inc", "gen"} /\ gcstate \in {"mark", "sweep", "swpend"} /\ tosweep \subseteq Allocated
    /\ pc \in {"run", "growing", "creating", "shrinking"}
    /\ wanted \in Content \cup {None} /\ list \in Nat /\ tocache \in BOOLEAN

\* Two short strings with the same content are the same object: 'eqshrstr' and
\* the table lookups of the interpreter compare addresses.
Canonical ==
    \A s, t \in Allocated : content[s] = content[t] => s = t

\* A string the program or the cache can get at is allocated and is not going to
\* be collected by the sweep under way.
HeldSurvives ==
    \A s \in held \cup {cache[0], cache[1]} : s # MemErrMsg => s \in Allocated \ Dead

\* Every string is in the bucket where internshrstr and vmkS_remove look for it,
\* and the table holds no other; a shrinking table already has them in the part
\* of the vector that will remain.
TableSize == IF pc = "shrinking" THEN size \div 2 ELSE size
InBucket ==
    /\ \A i \in DOMAIN hash :
           hash[i] = {s \in Allocated : Bucket(content[s], TableSize) = i}
    /\ nuse = Cardinality(Allocated)

\* vmkS_remove finds the string it removes: its loop has no test for the end of
\* the chain.  (lstring.c promises of vmkS_resize that when the allocation fails
\* "any non-zero size should work correctly".)
RemoveFinds ==
    [][\A s \in Allocated : content'[s] = None => s \in hash[Bucket(content[s], size)]]_vars

-----------------------------------------------------------------------------
(* The invariant that makes them inductive (StringTableProofs). *)

\* While a string is being created, no other has its content, and 'list' is its
\* bucket.
CreatingOK ==
    pc \in {"growing", "creating"} =>
        /\ wanted \in Content
        /\ \A s \in Allocated : content[s] # wanted
        /\ list = Bucket(wanted, size)

\* Dead strings are waiting to be swept, which young collections do not leave.
DeadSwept ==
    /\ \A s \in Dead : gckind = "inc" /\ gcstate = "sweep" /\ s \in tosweep
    /\ gckind = "gen" => gcstate = "mark" /\ tosweep = {}

\* A vector is shrunk only if its half is not empty.
ShrinkOK == pc = "shrinking" => size >= 4

StringInv ==
    /\ TypeOK /\ Canonical /\ HeldSurvives /\ InBucket
    /\ CreatingOK /\ DeadSwept /\ ShrinkOK

=============================================================================
