-------------------------- MODULE StringTableProofs --------------------------
(***************************************************************************)
(* StringInv is an invariant of StringTable, for any strings, contents and *)
(* hash function, when a table that shrinks in generational mode is not    *)
(* refused the smaller vector.                                             *)
(***************************************************************************)
EXTENDS StringTable, FiniteSetTheorems, TLAPS

\* What the run strings_gen refutes: see RemoveFinds.
GenShrinks == "gen" \notin ShrinkFails

-----------------------------------------------------------------------------
(* The hash table. *)

LEMMA BucketRange ==
    ASSUME NEW c \in Content, NEW n \in Nat \ {0}
    PROVE  Bucket(c, n) \in 0..(n - 1)
BY StringsAssumption DEF Bucket

\* The strings of S that a table of size n chains in the bucket i, and all the
\* buckets of a vector of length len.
Chain(S, n, i) == {s \in S : Bucket(content[s], n) = i}
Chains(S, n, len) == [i \in 0..(len - 1) |-> Chain(S, n, i)]

\* tablerehash moves every string to the bucket of the new size, whatever the
\* size m it was chained for.
LEMMA RehashedAll ==
    ASSUME NEW vect, NEW S \in SUBSET Str, NEW m \in Nat \ {0}, NEW osize \in Nat,
           NEW nsize, NEW len, m <= osize,
           \A s \in S : content[s] \in Content,
           \A i \in 0..(osize - 1) : vect[i] = Chain(S, m, i)
    PROVE  Rehashed(vect, osize, nsize, len) = Chains(S, nsize, len)
<1>1. UNION {vect[i] : i \in 0..(osize - 1)} = S
  <2>1. ASSUME NEW s \in S PROVE \E i \in 0..(osize - 1) : s \in vect[i]
    <3>1. Bucket(content[s], m) \in 0..(m - 1)  BY BucketRange
    <3>2. Bucket(content[s], m) \in 0..(osize - 1)  BY <3>1
    <3> QED  BY <3>2 DEF Chain
  <2> QED  BY <2>1 DEF Chain
<1> QED  BY <1>1 DEF Rehashed, Chains, Chain

LEMMA CardinalityLess ==
    ASSUME NEW S \in SUBSET Allocated, TypeOK
    PROVE  /\ IsFiniteSet(Allocated) /\ IsFiniteSet(S)
           /\ Cardinality(Allocated) \in Nat
           /\ Cardinality(Allocated \ S) = Cardinality(Allocated) - Cardinality(S)
           /\ Cardinality(Allocated \ S) \in Nat
<1>1. IsFiniteSet(Allocated)
  BY StringsAssumption, FS_Subset DEF Allocated
<1>2. IsFiniteSet(S) /\ IsFiniteSet(Allocated \ S)  BY <1>1, FS_Subset
<1>3. Allocated \cap S = S  OBVIOUS
<1>4. Cardinality(Allocated \ S) = Cardinality(Allocated) - Cardinality(S)
  BY <1>1, <1>3, FS_Difference
<1>5. Cardinality(Allocated) \in Nat /\ Cardinality(Allocated \ S) \in Nat
  BY <1>1, <1>2, FS_CardinalityType
<1> QED  BY <1>1, <1>2, <1>4, <1>5

\* Freeing the strings of S leaves the others in their buckets.
LEMMA FreeKeeps ==
    ASSUME StringInv, NEW S \in SUBSET Allocated, pc # "shrinking",
           content' = [s \in Str |-> IF s \in S THEN None ELSE content[s]]
    PROVE  /\ Allocated' = Allocated \ S
           /\ content' \in [Str -> Content \cup {None}]
           /\ \A s \in Allocated' : content'[s] = content[s] /\ content[s] \in Content
           /\ DOMAIN hash = 0..(size - 1)
           /\ Removed(S) = [i \in 0..(size - 1) |->
                              {s \in Allocated' : Bucket(content[s], size) = i}]
           /\ nuse - Cardinality(S) = Cardinality(Allocated')
           /\ nuse - Cardinality(S) \in Nat
<1>1. Allocated' = Allocated \ S  BY DEF Allocated, StringInv, TypeOK
<1>2. \A s \in Allocated : content[s] \in Content  BY DEF Allocated, StringInv, TypeOK
<1>3. DOMAIN hash = 0..(size - 1)  BY DEF StringInv, TypeOK
<1>4. Removed(S) = [i \in 0..(size - 1) |-> {s \in Allocated' : Bucket(content[s], size) = i}]
  BY <1>1, <1>3 DEF Removed, StringInv, InBucket, TableSize
<1>5. nuse - Cardinality(S) = Cardinality(Allocated') /\ nuse - Cardinality(S) \in Nat
  BY <1>1, CardinalityLess DEF StringInv, InBucket
<1>6. content' \in [Str -> Content \cup {None}]  BY DEF StringInv, TypeOK
<1>7. \A s \in Allocated' : content'[s] = content[s] /\ content[s] \in Content
  BY <1>1, <1>2 DEF Allocated
<1> QED  BY <1>1, <1>3, <1>4, <1>5, <1>6, <1>7

\* Steps that neither allocate nor free nor resize.
LEMMA SameTable ==
    ASSUME StringInv, UNCHANGED <<content, hash, size, nuse>>,
           pc' = "shrinking" <=> pc = "shrinking"
    PROVE  Allocated' = Allocated /\ Canonical' /\ InBucket' /\ ShrinkOK'
<1> USE DEF StringInv
<1>1. Allocated' = Allocated  BY DEF Allocated
<1>2. Canonical'  BY <1>1 DEF Canonical
<1>3. InBucket'  BY <1>1 DEF InBucket, TableSize, Bucket
<1>4. ShrinkOK'  BY DEF ShrinkOK
<1> QED  BY <1>1, <1>2, <1>3, <1>4

-----------------------------------------------------------------------------
(* Initial states. *)

LEMMA StringsInit == Init => StringInv
<1> SUFFICES ASSUME Init PROVE StringInv  OBVIOUS
<1> USE StringsAssumption DEF Init
<1>1. Allocated = {}  BY DEF Allocated
<1>2. TypeOK  BY <1>1 DEF TypeOK
<1>3. InBucket  BY <1>1, FS_EmptySet DEF InBucket, TableSize
<1>4. Canonical /\ HeldSurvives  BY <1>1 DEF Canonical, HeldSurvives
<1>5. CreatingOK /\ DeadSwept /\ ShrinkOK  BY <1>1 DEF CreatingOK, DeadSwept, Dead, ShrinkOK
<1> QED  BY <1>2, <1>3, <1>4, <1>5 DEF StringInv

-----------------------------------------------------------------------------
(* The program. *)

LEMMA DropStep == ASSUME StringInv, NEW s \in Str, Drop(s) PROVE StringInv'
<1> USE DEF Drop, table, gc, interning
<1>1. Allocated' = Allocated /\ Canonical' /\ InBucket' /\ ShrinkOK'  BY SameTable
<1>2. Dead' = Dead  BY <1>1 DEF Dead
<1>3. TypeOK'  BY <1>1 DEF StringInv, TypeOK
<1>4. HeldSurvives'  BY <1>1, <1>2 DEF StringInv, HeldSurvives
<1>5. CreatingOK' /\ DeadSwept'  BY <1>1, <1>2 DEF StringInv, CreatingOK, DeadSwept
<1> QED  BY <1>1, <1>3, <1>4, <1>5 DEF StringInv

\* What internshrstr and vmkS_new find is allocated and has the right content.
LEMMA FoundAllocated ==
    ASSUME StringInv, NEW c \in Content, pc = "run"
    PROVE  Found(c) = {s \in Allocated : content[s] = c}
<1>1. Bucket(c, size) \in 0..(size - 1)  BY BucketRange DEF StringInv, TypeOK
<1>2. Bucket(c, size) \in DOMAIN hash  BY <1>1 DEF StringInv, TypeOK
<1>3. hash[Bucket(c, size)] = {s \in Allocated : Bucket(content[s], size) = Bucket(c, size)}
  BY <1>2 DEF StringInv, InBucket, TableSize
<1> QED  BY <1>3 DEF Found

LEMMA InternStep ==
    ASSUME StringInv, NEW c \in Content, NEW cached \in BOOLEAN, pc = "run",
           InternShrStr(c, cached)
    PROVE  StringInv'
<1> USE DEF InternShrStr, table, gc, interning
<1>1. pc' # "shrinking"  OBVIOUS
<1>2. Allocated' = Allocated /\ Canonical' /\ InBucket' /\ ShrinkOK'  BY <1>1, SameTable
<1>3. Found(c) = {s \in Allocated : content[s] = c}  BY FoundAllocated
<1>4. CASE Found(c) = {}
  <2>1. UNCHANGED <<held, color>> /\ cache'[0] = cache[0] /\ cache'[1] \in {cache[0], cache[1]}
    BY <1>4 DEF StringInv, TypeOK
  <2>2. Dead' = Dead  BY <2>1, <1>2 DEF Dead
  <2>3. list' = Bucket(c, size) /\ wanted' = c /\ tocache' = cached  BY <1>4
  <2>4. list' \in Nat  BY <2>3, BucketRange DEF StringInv, TypeOK
  <2>5. cache' \in [{0, 1} -> Str \cup {MemErrMsg}]  BY <1>4 DEF StringInv, TypeOK
  <2>6. TypeOK'  BY <2>1, <2>3, <2>4, <2>5, <1>2, <1>4 DEF StringInv, TypeOK
  <2>7. HeldSurvives'  BY <2>1, <2>2, <1>2 DEF StringInv, HeldSurvives
  <2>8. CreatingOK'
    <3>1. Bucket(c, size)' = Bucket(c, size)  BY DEF Bucket
    <3> QED  BY <2>3, <3>1, <1>2, <1>3, <1>4 DEF CreatingOK, Bucket
  <2>9. DeadSwept'  BY <2>2 DEF StringInv, DeadSwept
  <2> QED  BY <1>2, <2>6, <2>7, <2>8, <2>9 DEF StringInv
<1>5. CASE Found(c) # {}
  <2>1. PICK s \in Found(c) : held' = held \cup {s} /\ color' = Resurrected(s)
    BY <1>5
  <2>2. s \in Allocated  BY <1>3
  <2>3. \A t \in Found(c) : t = s  BY <1>3 DEF StringInv, Canonical
  <2>4. cache'[0] \in {s, cache[0]} /\ cache'[1] \in {cache[0], cache[1]}
    BY <1>5, <2>3 DEF StringInv, TypeOK
  <2>5. color' \in [Str -> {"white", "survival", "dead", "black"}]
    BY <2>1 DEF Resurrected, StringInv, TypeOK
  <2>6. Dead' = Dead \ {s}
    BY <2>1, <2>2, <1>2 DEF Dead, Resurrected, StringInv, TypeOK, Allocated
  <2>7. cache' \in [{0, 1} -> Str \cup {MemErrMsg}]
    BY <1>5, <2>2, <2>3, <2>4 DEF StringInv, TypeOK, Allocated
  <2>8. TypeOK'  BY <2>1, <2>2, <2>5, <2>7, <1>2, <1>5 DEF StringInv, TypeOK
  <2>9. HeldSurvives'
    <3>1. \A t \in held' \cup {cache'[0], cache'[1]} :
              t = s \/ t \in held \cup {cache[0], cache[1]}
      BY <2>1, <2>4
    <3>2. \A t \in held \cup {cache[0], cache[1]} : t # MemErrMsg => t \in Allocated' \ Dead'
      BY <2>6, <1>2 DEF StringInv, HeldSurvives
    <3>3. s \in Allocated' \ Dead'  BY <2>2, <2>6, <1>2
    <3> HIDE DEF InternShrStr
    <3> QED  BY <3>1, <3>2, <3>3 DEF HeldSurvives
  <2>10. CreatingOK' /\ DeadSwept'  BY <2>6, <1>5 DEF StringInv, CreatingOK, DeadSwept
  <2> QED  BY <1>2, <2>8, <2>9, <2>10 DEF StringInv
<1> QED  BY <1>4, <1>5

LEMMA NewLstrStep == ASSUME StringInv, NEW c \in Content, NewLstr(c) PROVE StringInv'
BY InternStep DEF NewLstr

LEMMA NewStep == ASSUME StringInv, NEW c \in Content, New(c) PROVE StringInv'
<1>1. CASE Hit(c) = {}  BY <1>1, InternStep DEF New
<1>2. CASE Hit(c) # {}
  <2> USE DEF table, gc, interning
  <2>1. PICK j \in Hit(c) : held' = held \cup {cache[j]}  BY <1>2 DEF New
  <2>2. UNCHANGED <<content, color, cache, hash, size, nuse, gckind, gcstate, tosweep, pc,
                    wanted, list, tocache>> /\ pc = "run"
    BY <1>2 DEF New
  <2>3. Allocated' = Allocated /\ Canonical' /\ InBucket' /\ ShrinkOK'  BY <2>2, SameTable
  <2>4. Dead' = Dead  BY <2>2, <2>3 DEF Dead
  <2>5. cache[j] \in {cache[0], cache[1]} /\ cache[j] \in Allocated
    BY DEF Hit, StringInv, HeldSurvives
  <2>6. TypeOK'  BY <2>1, <2>2, <2>3, <2>5 DEF StringInv, TypeOK
  <2>7. HeldSurvives'  BY <2>1, <2>2, <2>3, <2>4, <2>5 DEF StringInv, HeldSurvives
  <2>8. CreatingOK' /\ DeadSwept'  BY <2>2, <2>4 DEF StringInv, CreatingOK, DeadSwept
  <2> QED  BY <2>3, <2>6, <2>7, <2>8 DEF StringInv
<1> QED  BY <1>1, <1>2

LEMMA GrowStep ==
    ASSUME StringInv, NEW fails \in BOOLEAN, Grow(fails)
    PROVE  StringInv'
<1> USE DEF Grow, strings, gc
<1>1. Allocated' = Allocated /\ Dead' = Dead  BY DEF Allocated, Dead
<1>2. pc = "growing" /\ pc' = "creating"  OBVIOUS
<1>3. size' \in Nat \ {0} /\ hash' \in [0..(size' - 1) -> SUBSET Str] /\ InBucket'
  <2>1. CASE UNCHANGED <<hash, size>>
    BY <2>1, <1>1, <1>2 DEF StringInv, TypeOK, InBucket, TableSize, Bucket
  <2>2. CASE hash' = Rehashed(hash, size, 2 * size, 2 * size) /\ size' = 2 * size
    <3>1. size \in Nat \ {0} /\ DOMAIN hash = 0..(size - 1)  BY DEF StringInv, TypeOK
    <3>2. \A i \in 0..(size - 1) : hash[i] = Chain(Allocated, size, i)
      BY <3>1, <1>2 DEF StringInv, InBucket, TableSize, Chain
    <3>3. \A s \in Allocated : content[s] \in Content  BY DEF Allocated, StringInv, TypeOK
    <3>4. Allocated \in SUBSET Str  BY DEF Allocated
    <3>5. hash' = Chains(Allocated, 2 * size, 2 * size)
      <4> HIDE DEF Grow
      <4> QED  BY <2>2, <3>1, <3>2, <3>3, <3>4, RehashedAll
    <3>6. size' \in Nat \ {0}  BY <2>2, <3>1
    <3>7. InBucket'
      BY <2>2, <3>5, <1>1, <1>2 DEF StringInv, InBucket, TableSize, Bucket, Chains, Chain
    <3> QED  BY <2>2, <3>4, <3>5, <3>6, <3>7 DEF Chains, Chain
  <2> QED  BY <2>1, <2>2
<1>4. wanted \in Content /\ wanted' = wanted  BY <1>2 DEF StringInv, CreatingOK
<1>5. list' = Bucket(wanted, size)' /\ list' \in Nat
  BY <1>3, <1>4, BucketRange DEF NewList, Bucket
<1>6. TypeOK'  BY <1>1, <1>2, <1>3, <1>5 DEF StringInv, TypeOK
<1>7. Canonical' /\ HeldSurvives'  BY <1>1 DEF StringInv, Canonical, HeldSurvives
<1>8. CreatingOK'  BY <1>1, <1>2, <1>4, <1>5 DEF StringInv, CreatingOK
<1>9. DeadSwept' /\ ShrinkOK'  BY <1>1, <1>2 DEF StringInv, DeadSwept, ShrinkOK
<1> QED  BY <1>3, <1>6, <1>7, <1>8, <1>9 DEF StringInv

LEMMA CreateStep == ASSUME StringInv, NEW s \in Str, Create(s) PROVE StringInv'
<1> USE DEF Create, gc
<1>1. pc = "creating" /\ pc' = "run" /\ s \notin Allocated  OBVIOUS
<1>2. wanted \in Content /\ wanted # None
  BY <1>1, StringsAssumption DEF StringInv, CreatingOK
<1>3. content' \in [Str -> Content \cup {None}] /\ content'[s] = wanted
      /\ \A t \in Str \ {s} : content'[t] = content[t]
  BY <1>2 DEF StringInv, TypeOK
<1>4. Allocated' = Allocated \cup {s}  BY <1>2, <1>3 DEF Allocated
<1>5. color' \in [Str -> {"white", "survival", "dead", "black"}] /\ color'[s] = "white"
      /\ \A t \in Str \ {s} : color'[t] = color[t]
  BY DEF StringInv, TypeOK
<1>6. Dead' = Dead  BY <1>1, <1>4, <1>5 DEF Dead, Allocated
<1>7. Canonical'
  BY <1>1, <1>2, <1>3, <1>4 DEF StringInv, Canonical, CreatingOK, Allocated
<1>8. list = Bucket(wanted, size) /\ list \in 0..(size - 1)
  BY <1>1, <1>2, BucketRange DEF StringInv, CreatingOK, TypeOK
<1>9. hash' \in [0..(size - 1) -> SUBSET Str]  BY <1>8 DEF StringInv, TypeOK
<1>10. InBucket'
  <2>1. DOMAIN hash' = 0..(size - 1)  BY <1>9
  <2>2. ASSUME NEW i \in 0..(size - 1)
        PROVE  hash'[i] = {t \in Allocated' : Bucket(content'[t], size) = i}
    <3>1. hash[i] = {t \in Allocated : Bucket(content[t], size) = i}
      BY <1>1 DEF StringInv, InBucket, TypeOK, TableSize
    <3>2. hash'[i] = IF i = list THEN hash[i] \cup {s} ELSE hash[i]
      BY <1>8 DEF StringInv, TypeOK
    <3>3. \A t \in Allocated : Bucket(content'[t], size) = Bucket(content[t], size)
      BY <1>1, <1>3 DEF Allocated
    <3>4. Bucket(content'[s], size) = list  BY <1>3, <1>8
    <3> QED  BY <3>1, <3>2, <3>3, <3>4, <1>1, <1>4
  <2>3. nuse' = Cardinality(Allocated')
    BY <1>1, <1>4, CardinalityLess, FS_AddElement DEF StringInv, InBucket
  <2> QED  BY <2>1, <2>2, <2>3, <1>1 DEF InBucket, TableSize, Bucket
<1>11. cache' \in [{0, 1} -> Str \cup {MemErrMsg}]
       /\ cache'[0] \in {s, cache[0]} /\ cache'[1] = cache[1]
  BY DEF StringInv, TypeOK
<1>12. TypeOK'
  <2>1. nuse' \in Nat  BY DEF StringInv, TypeOK
  <2> QED  BY <2>1, <1>3, <1>4, <1>5, <1>9, <1>11 DEF StringInv, TypeOK
<1>13. HeldSurvives'
  <2>1. s \in Allocated' \ Dead'  BY <1>1, <1>4, <1>6 DEF Dead
  <2>2. \A t \in held' \cup {cache'[0], cache'[1]} :
            t = s \/ t \in held \cup {cache[0], cache[1]}
    BY <1>11
  <2>3. \A t \in held \cup {cache[0], cache[1]} : t # MemErrMsg => t \in Allocated' \ Dead'
    BY <1>4, <1>6 DEF StringInv, HeldSurvives
  <2> HIDE DEF Create
  <2> QED  BY <2>1, <2>2, <2>3 DEF HeldSurvives
<1>14. CreatingOK' /\ DeadSwept' /\ ShrinkOK'
  BY <1>1, <1>6 DEF StringInv, CreatingOK, DeadSwept, ShrinkOK
<1> QED  BY <1>7, <1>10, <1>12, <1>13, <1>14 DEF StringInv

LEMMA CreateFailsStep == ASSUME StringInv, CreateFails PROVE StringInv'
<1> USE DEF CreateFails, strings, table, gc
<1>1. Allocated' = Allocated /\ Canonical' /\ InBucket' /\ ShrinkOK'  BY SameTable
<1>2. Dead' = Dead  BY <1>1 DEF Dead
<1>3. TypeOK'  BY <1>1 DEF StringInv, TypeOK
<1>4. HeldSurvives' /\ CreatingOK' /\ DeadSwept'
  BY <1>1, <1>2 DEF StringInv, HeldSurvives, CreatingOK, DeadSwept
<1> QED  BY <1>1, <1>3, <1>4 DEF StringInv

-----------------------------------------------------------------------------
(* The collector. *)

LEMMA MarkStep == ASSUME StringInv, NEW s \in Str, Mark(s) PROVE StringInv'
<1> USE DEF Mark, table, gc, interning
<1>1. Allocated' = Allocated /\ Canonical' /\ InBucket' /\ ShrinkOK'  BY SameTable
<1>2. Dead' = Dead /\ color' \in [Str -> {"white", "survival", "dead", "black"}]
  BY <1>1 DEF Dead, StringInv, TypeOK
<1>3. TypeOK'  BY <1>1, <1>2 DEF StringInv, TypeOK
<1>4. HeldSurvives' /\ CreatingOK' /\ DeadSwept'
  BY <1>1, <1>2 DEF StringInv, HeldSurvives, CreatingOK, DeadSwept
<1> QED  BY <1>1, <1>3, <1>4 DEF StringInv

LEMMA AtomicStep == ASSUME StringInv, Atomic PROVE StringInv'
<1> USE DEF Atomic, table, interning
<1> DEFINE dying == {s \in Allocated \ held : color[s] = "white"}
<1>1. Allocated' = Allocated /\ Canonical' /\ InBucket' /\ ShrinkOK'  BY SameTable
<1>2. color' \in [Str -> {"white", "survival", "dead", "black"}]
      /\ \A s \in Allocated : color'[s] = IF s \in dying THEN "dead" ELSE "black"
  BY DEF StringInv, TypeOK, Allocated
<1>3. Dead' = dying  BY <1>1, <1>2 DEF Dead
<1>4. cache' \in [{0, 1} -> Str \cup {MemErrMsg}]
      /\ \A j \in {0, 1} : cache'[j] = MemErrMsg \/ (cache'[j] = cache[j] /\ cache[j] \notin dying)
  BY DEF ClearCache, StringInv, TypeOK
<1>5. TypeOK'  BY <1>1, <1>2, <1>4 DEF StringInv, TypeOK
<1>6. HeldSurvives'
  BY <1>1, <1>3, <1>4 DEF StringInv, HeldSurvives
<1>7. CreatingOK' /\ DeadSwept'  BY <1>1, <1>3 DEF StringInv, CreatingOK, DeadSwept
<1> QED  BY <1>1, <1>5, <1>6, <1>7 DEF StringInv

LEMMA SweepStep == ASSUME StringInv, NEW s \in Str, Sweep(s) PROVE StringInv'
<1> USE DEF Sweep, interning
<1>1. CASE s \notin Dead
  <2>1. Allocated' = Allocated /\ Canonical' /\ InBucket' /\ ShrinkOK'  BY <1>1, SameTable
  <2>2. Dead' = Dead /\ color' \in [Str -> {"white", "survival", "dead", "black"}]
    BY <1>1, <2>1 DEF Dead, StringInv, TypeOK
  <2>3. TypeOK'  BY <1>1, <2>1, <2>2 DEF StringInv, TypeOK
  <2>4. HeldSurvives' /\ CreatingOK' /\ DeadSwept'
    BY <1>1, <2>1, <2>2 DEF StringInv, HeldSurvives, CreatingOK, DeadSwept
  <2> QED  BY <2>1, <2>3, <2>4 DEF StringInv
<1>2. CASE s \in Dead
  <2>1. pc = "run" /\ pc' = "run" /\ size' = size  OBVIOUS
  <2>2. {s} \in SUBSET Allocated  BY <1>2 DEF Dead
  <2>3. content' = [t \in Str |-> IF t \in {s} THEN None ELSE content[t]]
        /\ hash' = Removed({s}) /\ nuse' = nuse - Cardinality({s})
    BY <1>2 DEF Free
  <2>4. /\ Allocated' = Allocated \ {s}
        /\ content' \in [Str -> Content \cup {None}]
        /\ \A t \in Allocated' : content'[t] = content[t] /\ content[t] \in Content
        /\ hash' = [i \in 0..(size - 1) |-> {t \in Allocated' : Bucket(content[t], size) = i}]
        /\ nuse' = Cardinality(Allocated') /\ nuse' \in Nat
    BY <2>1, <2>2, <2>3, FreeKeeps
  <2>5. Dead' = Dead \ {s} /\ color' \in [Str -> {"white", "survival", "dead", "black"}]
    BY <2>4 DEF Dead, Allocated, StringInv, TypeOK
  <2>6. \A t \in held \cup {cache[0], cache[1]} : t # s \/ t = MemErrMsg
    BY <1>2 DEF StringInv, HeldSurvives
  <2>7. HeldSurvives'
    BY <2>4, <2>5, <2>6 DEF StringInv, HeldSurvives
  <2>8. TypeOK'
    <3>1. hash' \in [0..(size' - 1) -> SUBSET Str]  BY <2>1, <2>4 DEF Allocated
    <3>2. held' \subseteq Allocated' /\ tosweep' \subseteq Allocated'
      BY <2>4, <2>6, StringsAssumption DEF StringInv, TypeOK
    <3> QED  BY <3>1, <3>2, <2>4, <2>5 DEF StringInv, TypeOK
  <2>9. Canonical'  BY <2>4 DEF StringInv, Canonical
  <2>10. InBucket'  BY <2>1, <2>4 DEF InBucket, TableSize, Bucket
  <2>11. CreatingOK' /\ DeadSwept' /\ ShrinkOK'
    BY <2>1, <2>5 DEF StringInv, CreatingOK, DeadSwept, ShrinkOK
  <2> QED  BY <2>7, <2>8, <2>9, <2>10, <2>11 DEF StringInv
<1> QED  BY <1>1, <1>2

LEMMA SweepEndsStep == ASSUME StringInv, SweepEnds PROVE StringInv'
<1> USE DEF SweepEnds, strings, table, interning
<1>1. Allocated' = Allocated /\ Canonical' /\ InBucket' /\ ShrinkOK'  BY SameTable
<1>2. Dead' = Dead /\ Dead = {}  BY <1>1 DEF Dead, StringInv, DeadSwept
<1>3. TypeOK'  BY <1>1 DEF StringInv, TypeOK
<1>4. HeldSurvives' /\ CreatingOK' /\ DeadSwept'
  BY <1>1, <1>2 DEF StringInv, HeldSurvives, CreatingOK, DeadSwept
<1> QED  BY <1>1, <1>3, <1>4 DEF StringInv


LEMMA CheckSizesStep == ASSUME StringInv, CheckSizes PROVE StringInv'
<1> USE DEF CheckSizes, strings, interning
<1>1. Allocated' = Allocated /\ Dead' = Dead /\ pc = "run" /\ size \in Nat \ {0} /\ nuse \in Nat
  BY DEF Allocated, Dead, StringInv, TypeOK
<1>2. Dead = {}  BY DEF StringInv, DeadSwept
<1>3. hash' \in [0..(size - 1) -> SUBSET Str] /\ InBucket' /\ ShrinkOK'
  <2>1. CASE ~TooBig(nuse)
    <3>1. pc' = "run" /\ hash' = hash  BY <1>1, <2>1
    <3>2. InBucket' /\ ShrinkOK'  BY <3>1, SameTable, <1>1
    <3> QED  BY <3>1, <3>2 DEF StringInv, TypeOK
  <2>2. CASE TooBig(nuse)
    <3>1. DOMAIN hash = 0..(size - 1)  BY DEF StringInv, TypeOK
    <3>2. \A i \in 0..(size - 1) : hash[i] = Chain(Allocated, size, i)
      BY <3>1, <1>1 DEF StringInv, InBucket, TableSize, Chain
    <3>3. \A s \in Allocated : content[s] \in Content  BY DEF Allocated, StringInv, TypeOK
    <3>4. Allocated \in SUBSET Str  BY DEF Allocated
    <3>5. Rehashed(hash, size, size \div 2, size) = Chains(Allocated, size \div 2, size)
      <4> HIDE DEF CheckSizes
      <4> QED  BY <1>1, <3>1, <3>2, <3>3, <3>4, RehashedAll
    <3>6. hash' = Chains(Allocated, size \div 2, size) /\ pc' = "shrinking"
      BY <2>2, <3>5 DEF Depopulated
    <3>7. InBucket'
      BY <3>6, <1>1 DEF StringInv, InBucket, TableSize, Bucket, Chains, Chain
    <3>8. size >= 4  BY <2>2, <1>1 DEF TooBig
    <3> QED  BY <3>4, <3>6, <3>7, <3>8 DEF Chains, Chain, ShrinkOK
  <2> QED  BY <2>1, <2>2
<1>4. TypeOK'  BY <1>1, <1>3 DEF StringInv, TypeOK
<1>5. Canonical' /\ HeldSurvives'  BY <1>1 DEF StringInv, Canonical, HeldSurvives
<1>6. CreatingOK' /\ DeadSwept'
  BY <1>1, <1>2 DEF StringInv, CreatingOK, DeadSwept
<1> QED  BY <1>3, <1>4, <1>5, <1>6 DEF StringInv

LEMMA YoungCollectionStep == ASSUME StringInv, YoungCollection PROVE StringInv'
<1> DEFINE dying == {s \in Allocated \ held : color[s] # "black"}
           alive == Allocated \ dying
<1>1. /\ pc = "run" /\ gckind = "gen" /\ dying \in SUBSET Allocated
      /\ size \in Nat \ {0} /\ Allocated \in SUBSET Str
  BY DEF YoungCollection, StringInv, TypeOK, Allocated
<1>2. /\ content' = [s \in Str |-> IF s \in dying THEN None ELSE content[s]]
      /\ nuse' = nuse - Cardinality(dying)
      /\ cache' = ClearCache(dying)
      /\ color' = [s \in Str |-> IF s \in alive THEN Aged(color[s]) ELSE "white"]
      /\ UNCHANGED <<held, size, gckind, gcstate, tosweep, wanted, list, tocache>>
      /\ IF TooBig(nuse') THEN pc' = "shrinking" /\ hash' = Depopulated(Removed(dying))
         ELSE pc' = "run" /\ hash' = Removed(dying)
  BY DEF YoungCollection, gc, interning
<1> HIDE DEF dying
<1>3. /\ Allocated' = alive
      /\ content' \in [Str -> Content \cup {None}]
      /\ \A s \in alive : content'[s] = content[s] /\ content[s] \in Content
      /\ Removed(dying) = Chains(alive, size, size)
      /\ nuse' = Cardinality(Allocated') /\ nuse' \in Nat
  BY <1>1, <1>2, FreeKeeps DEF Chains, Chain
<1>4. /\ hash' = Chains(alive, TableSize', size)
      /\ ShrinkOK' /\ pc' \in {"run", "shrinking"}
  <2>1. CASE ~TooBig(nuse')  BY <1>2, <1>3, <2>1 DEF TableSize, ShrinkOK
  <2>2. CASE TooBig(nuse')
    <3>1. hash' = Rehashed(Chains(alive, size, size), size, size \div 2, size)
      BY <1>2, <1>3, <2>2 DEF Depopulated
    <3>2. \A i \in 0..(size - 1) : Chains(alive, size, size)[i] = Chain(alive, size, i)
      BY DEF Chains
    <3>3. Rehashed(Chains(alive, size, size), size, size \div 2, size)
            = Chains(alive, size \div 2, size)
      <4>1. alive \in SUBSET Str /\ size \in Nat /\ size <= size  BY <1>1
      <4> HIDE DEF alive
      <4> QED  BY <4>1, <1>1, <1>3, <3>2, RehashedAll
    <3>4. size >= 4 /\ pc' = "shrinking"  BY <2>2, <1>1, <1>2, <1>3 DEF TooBig
    <3> QED  BY <1>2, <3>1, <3>3, <3>4 DEF TableSize, ShrinkOK
  <2> QED  BY <2>1, <2>2
<1>5. InBucket'
  <2>1. DOMAIN hash' = 0..(size - 1)  BY <1>4 DEF Chains
  <2>2. ASSUME NEW i \in 0..(size - 1)
        PROVE  hash'[i] = {s \in Allocated' : Bucket(content'[s], TableSize') = i}
    BY <1>3, <1>4 DEF Chains, Chain
  <2> QED  BY <2>1, <2>2, <1>3 DEF InBucket, Bucket
<1>6. \A j \in {0, 1} : /\ cache'[j] \in Str \cup {MemErrMsg}
                        /\ cache'[j] = MemErrMsg \/ (cache'[j] = cache[j] /\ cache[j] \notin dying)
  BY <1>2 DEF ClearCache, StringInv, TypeOK
<1>7. Dead = {}  BY <1>1 DEF StringInv, DeadSwept
<1>8. color' \in [Str -> {"white", "survival", "dead", "black"}] /\ Dead' = {}
  BY <1>1, <1>2, <1>3 DEF Aged, Dead
<1>9. held \subseteq alive  BY DEF dying, StringInv, TypeOK
<1>10. tosweep = {}  BY <1>1 DEF StringInv, DeadSwept
<1>11. TypeOK'
  <2>1. hash' \in [0..(size' - 1) -> SUBSET Str]  BY <1>1, <1>2, <1>4 DEF Chains, Chain
  <2>2. cache' \in [{0, 1} -> Str \cup {MemErrMsg}]  BY <1>2, <1>6 DEF ClearCache
  <2> QED  BY <2>1, <2>2, <1>2, <1>3, <1>4, <1>8, <1>9, <1>10 DEF StringInv, TypeOK
<1>12. Canonical'  BY <1>3 DEF StringInv, Canonical
<1>13. HeldSurvives'  BY <1>2, <1>3, <1>6, <1>8, <1>9 DEF StringInv, HeldSurvives
<1>14. CreatingOK' /\ DeadSwept'
  BY <1>1, <1>2, <1>4, <1>8, <1>10 DEF StringInv, CreatingOK, DeadSwept
<1> QED  BY <1>4, <1>5, <1>11, <1>12, <1>13, <1>14 DEF StringInv

LEMMA ResizeStep ==
    ASSUME StringInv, NEW fails \in BOOLEAN, Resize(fails)
    PROVE  StringInv'
<1> USE DEF Resize, strings, gc, interning
<1>1. Allocated' = Allocated /\ Dead' = Dead /\ pc = "shrinking" /\ pc' = "run"
  BY DEF Allocated, Dead
<1>2. size \in Nat /\ size >= 4  BY <1>1 DEF StringInv, TypeOK, ShrinkOK
<1>3. size \div 2 \in Nat \ {0} /\ size \div 2 <= size  BY <1>2
<1>4. DOMAIN hash = 0..(size - 1) /\ Allocated \in SUBSET Str
      /\ \A s \in Allocated : content[s] \in Content
  BY DEF StringInv, TypeOK, Allocated
<1>5. \A i \in 0..(size - 1) : hash[i] = Chain(Allocated, size \div 2, i)
  BY <1>1, <1>4 DEF StringInv, InBucket, TableSize, Chain
<1>6. size' \in Nat \ {0} /\ hash' = Chains(Allocated, size', size')
  <2>1. CASE fails
    <3>1. \A i \in 0..(size \div 2 - 1) : hash[i] = Chain(Allocated, size \div 2, i)
      BY <1>2, <1>3, <1>5
    <3>2. Rehashed(hash, size \div 2, size, size) = Chains(Allocated, size, size)
      <4> DEFINE half == size \div 2
      <4> HIDE DEF Resize
      <4>1. half <= half /\ half \in Nat \ {0} /\ half \in Nat  BY <1>3
      <4>2. \A i \in 0..(half - 1) : hash[i] = Chain(Allocated, half, i)  BY <3>1
      <4>3. Rehashed(hash, half, size, size) = Chains(Allocated, size, size)
        <5> HIDE DEF half
        <5>1. Allocated \in SUBSET Str /\ \A s \in Allocated : content[s] \in Content
          BY <1>4
        <5> QED  BY <4>1, <4>2, <5>1, RehashedAll
      <4> QED  BY <4>3
    <3> QED  BY <2>1, <3>2, <1>2 DEF Restored
  <2>2. CASE ~fails
    <3>1. hash' = [i \in 0..(size \div 2 - 1) |-> hash[i]] /\ size' = size \div 2
      BY <2>2
    <3> HIDE DEF Resize
    <3>2. \A i \in 0..(size \div 2 - 1) : hash[i] = Chain(Allocated, size \div 2, i)
      BY <1>2, <1>3, <1>5
    <3> QED  BY <3>1, <3>2, <1>3 DEF Chains
  <2> QED  BY <2>1, <2>2
<1>7. InBucket'
  <2>1. DOMAIN hash' = 0..(size' - 1)  BY <1>6 DEF Chains
  <2>2. ASSUME NEW i \in 0..(size' - 1)
        PROVE  hash'[i] = {s \in Allocated' : Bucket(content'[s], size') = i}
    BY <1>1, <1>6 DEF Chains, Chain
  <2> QED  BY <2>1, <2>2, <1>1 DEF InBucket, TableSize, Bucket, StringInv
<1>8. TypeOK'
  <2>1. hash' \in [0..(size' - 1) -> SUBSET Str]  BY <1>4, <1>6 DEF Chains, Chain
  <2> QED  BY <2>1, <1>1, <1>6 DEF StringInv, TypeOK
<1>9. Canonical' /\ HeldSurvives'  BY <1>1 DEF StringInv, Canonical, HeldSurvives
<1>10. CreatingOK' /\ DeadSwept' /\ ShrinkOK'
  BY <1>1 DEF StringInv, CreatingOK, DeadSwept, ShrinkOK
<1> QED  BY <1>7, <1>8, <1>9, <1>10 DEF StringInv

\* Under the hypothesis an emergency collection finds no table being shrunk.
LEMMA NotShrinking ==
    ASSUME GenShrinks, CanTryAgain PROVE pc \in {"growing", "creating"}
BY StringsAssumption DEF GenShrinks, CanTryAgain

LEMMA EmergencyGCStep == ASSUME GenShrinks, StringInv, EmergencyGC PROVE StringInv'
<1> DEFINE dying == Allocated \ held
<1>1. pc \in {"growing", "creating"} /\ dying \in SUBSET Allocated /\ Allocated \in SUBSET Str
  BY NotShrinking DEF EmergencyGC, Allocated
<1>2. /\ content' = [s \in Str |-> IF s \in dying THEN None ELSE content[s]]
      /\ hash' = Removed(dying) /\ nuse' = nuse - Cardinality(dying)
      /\ cache' = ClearCache(dying)
      /\ color' = [s \in Str |-> IF s \in held /\ gckind = "gen" THEN "black" ELSE "white"]
      /\ gcstate' = "mark" /\ tosweep' = {}
      /\ UNCHANGED <<held, size, gckind, pc, wanted, list, tocache>>
  BY DEF EmergencyGC, Free, interning
<1> HIDE DEF dying
<1>3. /\ Allocated' = Allocated \ dying
      /\ content' \in [Str -> Content \cup {None}]
      /\ \A s \in Allocated' : content'[s] = content[s] /\ content[s] \in Content
      /\ hash' = [i \in 0..(size - 1) |-> {s \in Allocated' : Bucket(content[s], size) = i}]
      /\ nuse' = Cardinality(Allocated') /\ nuse' \in Nat
  BY <1>1, <1>2, FreeKeeps
<1>4. Allocated' \subseteq Str  BY <1>1, <1>3
<1>5. color' \in [Str -> {"white", "survival", "dead", "black"}] /\ Dead' = {}
  BY <1>2, <1>4 DEF Dead
<1>6. \A j \in {0, 1} : /\ cache'[j] \in Str \cup {MemErrMsg}
                        /\ cache'[j] = MemErrMsg \/ (cache'[j] = cache[j] /\ cache[j] \notin dying)
  BY <1>2 DEF ClearCache, StringInv, TypeOK
<1>7. held \subseteq Allocated'  BY <1>3 DEF dying, StringInv, TypeOK
<1>8. TypeOK'
  <2>1. hash' \in [0..(size' - 1) -> SUBSET Str]  BY <1>2, <1>3, <1>4
  <2>2. cache' \in [{0, 1} -> Str \cup {MemErrMsg}]  BY <1>2, <1>6 DEF ClearCache
  <2> QED  BY <2>1, <2>2, <1>2, <1>3, <1>5, <1>7 DEF StringInv, TypeOK
<1>9. Canonical'  BY <1>3 DEF StringInv, Canonical
<1>10. HeldSurvives'  BY <1>2, <1>3, <1>5, <1>6, <1>7 DEF StringInv, HeldSurvives
<1>11. InBucket'
  <2>1. TableSize' = size  BY <1>1, <1>2 DEF TableSize
  <2> QED  BY <2>1, <1>3 DEF InBucket, Bucket
<1>12. CreatingOK'
  BY <1>1, <1>2, <1>3 DEF StringInv, CreatingOK, Bucket
<1>13. DeadSwept' /\ ShrinkOK'  BY <1>1, <1>2, <1>5 DEF DeadSwept, ShrinkOK
<1> QED  BY <1>8, <1>9, <1>10, <1>11, <1>12, <1>13 DEF StringInv

-----------------------------------------------------------------------------
(* The theorems. *)

LEMMA StringsStep ==
    ASSUME GenShrinks, StringInv, [Next]_vars PROVE StringInv'
<1>1. CASE CreateFails  BY <1>1, CreateFailsStep
<1>2. CASE Atomic  BY <1>2, AtomicStep
<1>3. CASE SweepEnds  BY <1>3, SweepEndsStep
<1>4. CASE CheckSizes  BY <1>4, CheckSizesStep
<1>5. CASE YoungCollection  BY <1>5, YoungCollectionStep
<1>6. CASE EmergencyGC  BY <1>6, EmergencyGCStep
<1>7. CASE \E s \in Str : Drop(s) \/ Create(s) \/ Mark(s) \/ Sweep(s)
  BY <1>7, DropStep, CreateStep, MarkStep, SweepStep
<1>8. CASE \E c \in Content : NewLstr(c) \/ New(c)
  BY <1>8, NewLstrStep, NewStep
<1>9. CASE \E fails \in BOOLEAN : Grow(fails) \/ Resize(fails)
  BY <1>9, GrowStep, ResizeStep
<1>10. CASE UNCHANGED vars
  <2> USE <1>10 DEF vars
  <2>1. Allocated' = Allocated /\ Canonical' /\ InBucket' /\ ShrinkOK'  BY SameTable
  <2>2. Dead' = Dead  BY <2>1 DEF Dead
  <2>3. TypeOK'  BY <2>1 DEF StringInv, TypeOK
  <2>4. HeldSurvives' /\ CreatingOK' /\ DeadSwept'
    BY <2>1, <2>2 DEF StringInv, HeldSurvives, CreatingOK, DeadSwept
  <2> QED  BY <2>1, <2>3, <2>4 DEF StringInv
<1> QED
  BY <1>1, <1>2, <1>3, <1>4, <1>5, <1>6, <1>7, <1>8, <1>9, <1>10 DEF Next

\* Equal short strings are the same object and no string in use is collected,
\* and the table is well formed, in every state: an object that a collection
\* frees is unchained where vmkS_remove looks, whatever vmkS_resize was doing.
THEOREM StringsSafe ==
    GenShrinks => (Spec => [](StringInv /\ Canonical /\ HeldSurvives))
<1> SUFFICES ASSUME GenShrinks PROVE Spec => [](StringInv /\ Canonical /\ HeldSurvives)
  OBVIOUS
<1>1. Init => StringInv  BY StringsInit
<1>2. StringInv /\ [Next]_vars => StringInv'  BY StringsStep
<1>3. StringInv => Canonical /\ HeldSurvives  BY DEF StringInv
<1> QED  BY <1>1, <1>2, <1>3, PTL DEF Spec

\* A string that the program or a C function still holds is neither freed nor
\* dead: internshrstr takes a dead string it finds back to life (changewhite),
\* and no collection in the middle of a resize loses it.
THEOREM HeldAlwaysSurvives == GenShrinks => (Spec => []HeldSurvives)
<1>1. StringInv /\ Canonical /\ HeldSurvives => HeldSurvives  OBVIOUS
<1> QED  BY <1>1, StringsSafe, PTL

\* A string that is freed was in the bucket of its hash, so that vmkS_remove
\* stops: only collections free, and none does while the table is shrinking.
LEMMA FreedIsFound ==
    ASSUME GenShrinks, StringInv, [Next]_vars, NEW s \in Allocated, content'[s] = None
    PROVE  s \in hash[Bucket(content[s], size)]
<1>1. s \in Str /\ content[s] \in Content /\ content[s] # None
  BY DEF Allocated, StringInv, TypeOK
<1>2. pc # "shrinking"
  <2>1. CASE UNCHANGED content  BY <2>1, <1>1
  <2>2. CASE content' # content
    <3>1. CASE EmergencyGC  BY <3>1, NotShrinking DEF EmergencyGC
    <3>2. CASE YoungCollection  BY <3>2 DEF YoungCollection
    <3>3. CASE \E t \in Str : Create(t) \/ Sweep(t)  BY <3>3 DEF Create, Sweep
    <3>4. CASE CreateFails \/ Atomic \/ SweepEnds \/ CheckSizes
      BY <2>2, <3>4 DEF CreateFails, Atomic, SweepEnds, CheckSizes, strings
    <3>5. CASE \E t \in Str : Drop(t) \/ Mark(t)  BY <2>2, <3>5 DEF Drop, Mark
    <3>6. CASE \E c \in Content : NewLstr(c) \/ New(c)
      BY <2>2, <3>6 DEF NewLstr, New, InternShrStr
    <3>7. CASE \E fails \in BOOLEAN : Grow(fails) \/ Resize(fails)
      BY <2>2, <3>7 DEF Grow, Resize, strings
    <3>8. CASE UNCHANGED vars  BY <2>2, <3>8 DEF vars
    <3> QED  BY <3>1, <3>2, <3>3, <3>4, <3>5, <3>6, <3>7, <3>8 DEF Next
  <2> QED  BY <2>1, <2>2
<1>3. Bucket(content[s], size) \in 0..(size - 1)
  BY <1>1, BucketRange DEF StringInv, TypeOK
<1>4. Bucket(content[s], size) \in DOMAIN hash  BY <1>3 DEF StringInv, TypeOK
<1> QED  BY <1>2, <1>4 DEF StringInv, InBucket, TableSize

THEOREM RemoveFound == GenShrinks => (Spec => RemoveFinds)
<1> SUFFICES ASSUME GenShrinks PROVE Spec => RemoveFinds  OBVIOUS
<1>1. Init => StringInv  BY StringsInit
<1>2. StringInv /\ [Next]_vars => StringInv'  BY StringsStep
<1>3. StringInv /\ [Next]_vars
        => [\A s \in Allocated : content'[s] = None => s \in hash[Bucket(content[s], size)]]_vars
  BY FreedIsFound
<1> QED  BY <1>1, <1>2, <1>3, PTL DEF Spec, RemoveFinds
==============================================================================
