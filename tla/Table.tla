-------------------------------- MODULE Table --------------------------------
(***************************************************************************)
(* One table of ltable.c: the array part, the hash part (a chained scatter *)
(* table with Brent's variation), the traversal by vmkH_next and the       *)
(* border that vmkH_getn looks for, while the collector clears entries and *)
(* kills keys under it.                                                    *)
(*                                                                         *)
(* The keys are positive integers and collectable objects (short strings); *)
(* the values are objects that the collector may remove from the table if  *)
(* it is weak; it removes none if it is not.  vmkH_resize is split where   *)
(* it allocates, since each allocation may fail or run an emergency        *)
(* collection.  Metamethods and barriers are not modelled here.            *)
(***************************************************************************)
EXTENDS Integers, Sequences, FiniteSets, FiniteSetsExt

CONSTANTS
    IntKey,      \* the integer keys in use
    ObjKey,      \* the collectable keys
    Hash,        \* the hash of each of them
    Value,       \* objects
    Nil, NoKey,  \* an empty value; the key of a free node
    MaxInteger,  \* VMK_MAXINTEGER
    MaxASize,    \* MAXASIZE
    LimForLast,  \* hash parts with at least so many nodes have 'lastfree' (2^LIMFORLAST)
    MaxVicinity, \* maxvicinity, in vmkH_getn
    ShrinkClears \* bound: may a collection clear values while the array shrinks?

Key == IntKey \cup ObjKey

ASSUME TableAssumption ==
    /\ IntKey \subseteq 1..MaxInteger
    /\ ObjKey \cap IntKey = {} /\ NoKey \notin Key /\ Nil \notin Value
    /\ Hash \in [ObjKey -> Nat]
    /\ MaxASize \in 0..MaxInteger
    /\ LimForLast \in Nat /\ MaxVicinity \in Nat
    /\ ShrinkClears \in BOOLEAN

VARIABLES
    array,      \* the array part, t->array[1..t->asize]
    hint,       \* lenhint
    hash,       \* the hash part: its nodes and 'lastfree'
    alloc,      \* the values that are allocated
    traversing, control, seen,  \* a traversal, the last key it returned and them all
    pc,         \* "run", or "newhash" and "newarray" in vmkH_resize
    pending,    \* the key and the value being inserted meanwhile ...
    nasize, nhsize, \* ... the sizes asked for ...
    newt        \* ... and the new hash part

loop == <<traversing, control, seen>>
resizing == <<pc, pending, nasize, nhsize, newt>>
vars == <<array, hint, hash, alloc, traversing, control, seen, pc, pending, nasize,
          nhsize, newt>>

-----------------------------------------------------------------------------
(* The hash part. *)

\* setnodevector, for a power of two; the shared dummy node is a vector of none.
FreeNode == [key |-> NoKey, dead |-> FALSE, val |-> Nil, next |-> 0]
NodeVector(n) == [node |-> [i \in 0..(n - 1) |-> FreeNode], size |-> n, lastfree |-> n]

\* mainpositionTV: hashint and hashpow2, in a vector of n nodes.
MainPosition(k, n) ==
    IF k \in IntKey THEN k % (IF n = 1 THEN 1 ELSE n - 1) ELSE Hash[k] % n

\* equalkey.  Mutant: dead keys are never equal to one.
AliveOnly(n, k, deadok) == n.key = k /\ ~n.dead
EqualKey(n, k, deadok) == n.key = k /\ (n.dead => deadok)

\* getgeneric, getintfromhash and vmkH_Hgetshortstr: the node of k, -1 if absent.
Search(h, k, deadok) ==
    LET s[i \in DOMAIN h.node] ==
            LET n == h.node[i]
            IN IF EqualKey(n, k, deadok) THEN i ELSE IF n.next = 0 THEN -1 ELSE s[i + n.next]
    IN IF h.size = 0 THEN -1 ELSE s[MainPosition(k, h.size)]

\* getfreepos, -1 if there is none, and 'lastfree' after it.
HasLastFree(h) == h.size >= LimForLast
FreePos(h) ==
    LET Free == {i \in DOMAIN h.node : h.node[i].key = NoKey
                                       /\ (HasLastFree(h) => i < h.lastfree)}
    IN IF Free = {} THEN -1 ELSE Max(Free)
AfterFree(h, f) == IF ~HasLastFree(h) THEN h.lastfree ELSE IF f = -1 THEN 0 ELSE f

\* insertkey when the main position mp of k holds another key, and f is free: a
\* colliding node that is out of its own main position moves to f.  Mutant: the
\* new key goes to f whatever the colliding node is.
Linked(h, k, v, mp, f) ==
    LET old == h.node[mp]
        new == [key |-> k, dead |-> FALSE, val |-> v,
                next |-> IF old.next = 0 THEN 0 ELSE mp + old.next - f]
    IN [h.node EXCEPT ![mp].next = f - mp, ![f] = new]
Moved(h, k, v, mp, f) ==
    LET old == h.node[mp]
        other == MainPosition(old.key, h.size)
        prev[i \in DOMAIN h.node] ==
            IF i + h.node[i].next = mp THEN i ELSE prev[i + h.node[i].next]
        p == prev[other]
    IN IF other = mp THEN Linked(h, k, v, mp, f)
       ELSE [h.node EXCEPT ![p].next = f - p,
                           ![f] = [old EXCEPT !.next = IF @ = 0 THEN 0 ELSE @ + mp - f],
                           ![mp] = [key |-> k, dead |-> FALSE, val |-> v, next |-> 0]]

\* insertkey: the hash part after it, and could it insert the key?
InsertKey(h, k, v) ==
    LET n == h.size
        mp == MainPosition(k, n)
        f == FreePos(h)
    IN IF n # 0 /\ h.node[mp].val = Nil
       THEN [ok |-> TRUE,
             h |-> [h EXCEPT !.node[mp] = [@ EXCEPT !.key = k, !.dead = FALSE, !.val = v]]]
       ELSE [ok |-> f # -1,
             h |-> [h EXCEPT !.node = IF f = -1 THEN @ ELSE Moved(h, k, v, mp, f),
                             !.lastfree = AfterFree(h, f)]]

-----------------------------------------------------------------------------
(* Reading. *)

InArray(k) == k \in IntKey /\ k <= Len(array)

\* vmkH_get.
Get(k) ==
    IF InArray(k) THEN array[k]
    ELSE LET p == Search(hash, k, FALSE) IN IF p = -1 THEN Nil ELSE hash.node[p].val

\* hashkeyisempty and arraykeyisempty.
HashEmpty(i) ==
    LET p == Search(hash, i, FALSE) IN i \notin IntKey \/ p = -1 \/ hash.node[p].val = Nil
ArrayEmpty(i) == array[i] = Nil

\* The binary search of binsearch and hash_search between i (present, or zero)
\* and j (absent), if 'absent' are the absent keys.
BinSearch(absent, i0, j0) ==
    LET b[i \in i0..j0, j \in i0..j0] ==
            IF j - i <= 1 THEN i
            ELSE LET m == (i + j) \div 2 IN IF m \in absent THEN b[i, m] ELSE b[m, j]
    IN b[i0, j0]

\* hash_search.  Mutant: it goes on doubling.
Doubled(j) == IF j <= MaxInteger \div 2 THEN 2 * j ELSE MaxInteger
HashSearch(j0) ==
    LET s[j \in 1..MaxInteger] ==
            LET next == Doubled(j)
            IN IF HashEmpty(next) THEN BinSearch({m \in j..next : HashEmpty(m)}, j, next)
               ELSE IF j > MaxInteger \div 2 THEN next ELSE s[next]
    IN s[IF j0 = 0 THEN 1 ELSE j0]

\* The part of vmkH_getn that looks in the array: a border in it, or its size.
Hint == IF hint = 0 THEN 1 ELSE hint
Below == {i \in (Hint - MaxVicinity)..(Hint - 1) : i >= 1 /\ ~ArrayEmpty(i)}
Holes == {i \in 1..Len(array) : ArrayEmpty(i)}
Above == {i \in (Hint + 1)..(Hint + MaxVicinity) : i <= Len(array) /\ ArrayEmpty(i)}
ArrayBorder ==
    IF ArrayEmpty(Hint)
    THEN IF Below # {} THEN Max(Below)
         ELSE BinSearch(Holes, 0, Max({1, Hint - MaxVicinity}))
    ELSE IF Above # {} THEN Min(Above) - 1
         ELSE IF ArrayEmpty(Len(array))
              THEN BinSearch(Holes, Min({Hint + MaxVicinity, Len(array)}), Len(array))
              ELSE Len(array)

\* vmkH_getn.  Mutant: the array is full, so its size is a border.
BorderInArray == IF array = <<>> THEN 0 ELSE ArrayBorder
Border ==
    LET asize == Len(array)
        b == IF asize = 0 THEN 0 ELSE ArrayBorder
    IN IF b < asize \/ HashEmpty(asize + 1) THEN b ELSE HashSearch(asize)

-----------------------------------------------------------------------------
(* rehash: the sizes for the keys in use and a new one. *)

Sizes == {s \in 1..MaxASize : \E i \in 0..MaxASize : s = 2^i}

HashKeys == {hash.node[i].key : i \in {i \in DOMAIN hash.node : hash.node[i].val # Nil}}
ArrayKeys == {i \in 1..Len(array) : ~ArrayEmpty(i)}

\* countint, numusehash, numusearray: the array indices among the keys.
ArrayIndices(k) == {i \in HashKeys \cup ArrayKeys \cup {k} : i \in IntKey /\ i <= MaxASize}

\* computesizes: the largest size that takes no more memory than hash nodes would
\* and has a key in its upper half.
ArrayXHash(na, nh) == na <= nh * 3
Optimal(N) ==
    LET Upto(s) == {i \in N : i <= s}
        Good == {s \in Sizes : /\ ArrayXHash(s, Cardinality(Upto(s)))
                               /\ \E i \in N : s \div 2 < i /\ i <= s}
    IN IF Good = {} THEN 0 ELSE Max(Good)

ToArray(k) ==
    IF \E i \in HashKeys \cup {k} : i \in IntKey /\ i <= MaxASize
    THEN Optimal(ArrayIndices(k)) ELSE Len(array)

\* The other keys go to the hash part, a quarter more if it has deleted entries (the
\* dummy node looks like one).  Mutant: the new key is not counted.
Deleted == hash.size = 0 \/ \E i \in DOMAIN hash.node : hash.node[i].val = Nil
InOldHash(k) == {i \in HashKeys \cup ArrayKeys : ~(i \in IntKey /\ i <= ToArray(k))}
InHash(k) == {i \in HashKeys \cup ArrayKeys \cup {k} : ~(i \in IntKey /\ i <= ToArray(k))}
ToHash(k) ==
    LET n == Cardinality(InHash(k)) IN IF Deleted THEN n + n \div 4 ELSE n

\* vmkO_ceillog2, as a size.
CeilSize(n) == IF n = 0 THEN 0 ELSE CHOOSE s \in {2^i : i \in 0..n} : s >= n /\ s \div 2 < n

-----------------------------------------------------------------------------
(* The program. *)

Init ==
    /\ array = <<>> /\ hint = 0 /\ hash = NodeVector(0)
    /\ alloc = {}
    /\ traversing = FALSE /\ control = NoKey /\ seen = {}
    /\ pc = "run" /\ pending = <<NoKey, Nil>> /\ nasize = 0 /\ nhsize = 0
    /\ newt = NodeVector(0)

Allocate(v) ==
    /\ pc = "run" /\ v \notin alloc
    /\ alloc' = alloc \cup {v}
    /\ UNCHANGED <<array, hint, hash>> /\ UNCHANGED loop /\ UNCHANGED resizing

\* vmkH_set (vmkH_pset and vmkH_finishset), up to the allocations of a rehash.
Set(k, v) ==
    /\ pc = "run"
    /\ traversing => Get(k) # Nil   \* what the manual asks of the program
    /\ LET p == Search(hash, k, FALSE)
           r == InsertKey(hash, k, v)
       IN IF InArray(k) THEN array' = [array EXCEPT ![k] = v] /\ UNCHANGED <<hash, resizing>>
          ELSE IF p # -1
          THEN hash' = [hash EXCEPT !.node[p].val = v] /\ UNCHANGED <<array, resizing>>
          ELSE IF v = Nil THEN UNCHANGED <<array, hash, resizing>>
          ELSE /\ hash' = r.h
               /\ IF r.ok THEN UNCHANGED resizing
                  ELSE /\ pc' = "newhash" /\ pending' = <<k, v>> /\ UNCHANGED newt
                       /\ nasize' = ToArray(k) /\ nhsize' = ToHash(k)
               /\ UNCHANGED array
    /\ UNCHANGED <<hint, alloc>> /\ UNCHANGED loop

\* vmkH_resize is over.
Resized ==
    /\ pc' = "run" /\ pending' = <<NoKey, Nil>> /\ nasize' = 0 /\ nhsize' = 0
    /\ newt' = NodeVector(0)

\* insertkey on each key of a sequence, an empty value being no key.
InsertAll(h, ks, vs) ==
    LET r[i \in 0..Len(ks)] ==
            IF i = 0 THEN h ELSE IF vs[i] = Nil THEN r[i - 1] ELSE InsertKey(r[i - 1], ks[i], vs[i]).h
    IN r[Len(ks)]

\* reinsertOldSlice: what the array loses goes to the new hash part.  Mutant: it is
\* dropped.
NoSlice(h) == h
OldSlice(h) ==
    LET n == Max({0, Len(array) - nasize})
    IN InsertAll(h, [i \in 1..n |-> nasize + i], [i \in 1..n |-> array[nasize + i]])

\* The new hash part is allocated, or not.
NewHash(fails) ==
    /\ pc = "newhash"
    /\ fails => nhsize > 0
    /\ IF fails THEN Resized
       ELSE /\ newt' = OldSlice(NodeVector(CeilSize(nhsize)))
            /\ pc' = "newarray"
            /\ UNCHANGED <<pending, nasize, nhsize>>
    /\ UNCHANGED <<array, hint, hash, alloc>> /\ UNCHANGED loop

\* newcheckedkey.
NewCheckedKey(t, k, v) ==
    IF k \in IntKey /\ k <= Len(t.array) THEN [t EXCEPT !.array[k] = v]
    ELSE [t EXCEPT !.hash = InsertKey(@, k, v).h]

\* reinserthash.
Reinserted(t, old) ==
    LET r[i \in 0..old.size] ==
            IF i = 0 THEN t
            ELSE IF old.node[i - 1].val = Nil THEN r[i - 1]
            ELSE NewCheckedKey(r[i - 1], old.node[i - 1].key, old.node[i - 1].val)
    IN r[old.size]

\* The table after resizearray, clearNewSlice, reinserthash and, at last, the new key.
NewTable ==
    LET wide == [i \in 1..nasize |-> IF i <= Len(array) THEN array[i] ELSE Nil]
    IN NewCheckedKey(Reinserted([array |-> wide, hash |-> newt], hash), pending[1], pending[2])

\* The hint of a new array.
InitialHint == nasize \div 2

\* The new array is allocated, or not: the rest of vmkH_resize.
NewArray(fails) ==
    /\ pc = "newarray"
    /\ fails => nasize \notin {0, Len(array)}
    /\ IF fails THEN UNCHANGED <<array, hint, hash>>
       ELSE array' = NewTable.array /\ hash' = NewTable.hash /\ hint' = InitialHint
    /\ Resized
    /\ UNCHANGED alloc /\ UNCHANGED loop

\* The length operator.
GetN ==
    /\ pc = "run" /\ array # <<>>
    /\ hint' = ArrayBorder
    /\ UNCHANGED <<array, hash, alloc>> /\ UNCHANGED loop /\ UNCHANGED resizing

-----------------------------------------------------------------------------
(* Traversals. *)

StartTraversal ==
    /\ pc = "run" /\ ~traversing
    /\ traversing' = TRUE
    /\ UNCHANGED <<array, hint, hash, alloc, control, seen>> /\ UNCHANGED resizing

\* findindex: -1 stands for "invalid key to 'next'".
FindIndex ==
    IF control = NoKey THEN 0 ELSE IF InArray(control) THEN control
    ELSE LET p == Search(hash, control, TRUE)
         IN IF p = -1 THEN -1 ELSE Len(array) + p + 1

\* vmkH_next.
EntryKey(i) == IF i < Len(array) THEN i + 1 ELSE hash.node[i - Len(array)].key
EntryVal(i) == IF i < Len(array) THEN array[i + 1] ELSE hash.node[i - Len(array)].val
VmkHNext ==
    /\ pc = "run" /\ traversing /\ FindIndex # -1
    /\ LET More == {i \in FindIndex..(Len(array) + hash.size - 1) : EntryVal(i) # Nil}
       IN IF More = {} THEN traversing' = FALSE /\ control' = NoKey /\ seen' = {}
          ELSE /\ control' = EntryKey(Min(More))
               /\ seen' = seen \cup {control'}
               /\ UNCHANGED traversing
    /\ UNCHANGED <<array, hint, hash, alloc>> /\ UNCHANGED resizing

-----------------------------------------------------------------------------
(* The collector: clearbyvalues, and clearkey on the nodes that are empty. *)

TableValues == {array[i] : i \in 1..Len(array)} \cup {hash.node[i].val : i \in DOMAIN hash.node}

\* Mutant: only the hash part is traversed.
Uncleared(dying) == array
ClearedArray(dying) ==
    [i \in DOMAIN array |-> IF array[i] \in dying THEN Nil ELSE array[i]]

\* The objects of 'dying' are collected.  The keys in use are kept by the table; the
\* new hash part of a resize is not seen.
Clear(dying) ==
    /\ pending[2] \notin dying
    /\ alloc' = alloc \ dying
    /\ array' = ClearedArray(dying)
    /\ hash' = [hash EXCEPT !.node =
                  [i \in DOMAIN @ |->
                      LET v == IF @[i].val \in dying THEN Nil ELSE @[i].val
                      IN [@[i] EXCEPT !.val = v,
                                      !.dead = @ \/ (v = Nil /\ hash.node[i].key \in ObjKey)]]]
    /\ UNCHANGED hint /\ UNCHANGED loop /\ UNCHANGED resizing

Collect(dying) == pc = "run" /\ Clear(dying)

\* The first try of an allocation of vmkH_resize failed.
EmergencyGC(dying) ==
    /\ \/ pc = "newhash" /\ nhsize > 0
       \/ /\ pc = "newarray" /\ nasize \notin {0, Len(array)}
          /\ nasize < Len(array) => ShrinkClears \/ dying \cap TableValues = {}
    /\ Clear(dying)

Next ==
    \/ GetN \/ StartTraversal \/ VmkHNext
    \/ \E v \in Value : Allocate(v)
    \/ \E k \in Key : \E v \in alloc \cup {Nil} : Set(k, v)
    \/ \E fails \in BOOLEAN : NewHash(fails) \/ NewArray(fails)
    \/ \E dying \in SUBSET alloc : Collect(dying) \/ EmergencyGC(dying)

Spec == Init /\ [][Next]_vars

-----------------------------------------------------------------------------
(* Properties. *)

HashPart(h) ==
    /\ h.size \in Nat /\ DOMAIN h.node = 0..(h.size - 1)
    /\ h.lastfree \in 0..h.size
    /\ \A i \in DOMAIN h.node :
          h.node[i] \in [key : Key \cup {NoKey}, dead : BOOLEAN, val : Value \cup {Nil},
                         next : (-i)..(h.size - 1 - i)]

TypeOK ==
    /\ array \in Seq(Value \cup {Nil}) /\ Len(array) <= MaxASize
    /\ hint \in 0..Len(array)
    /\ HashPart(hash) /\ HashPart(newt)
    /\ alloc \subseteq Value
    /\ traversing \in BOOLEAN /\ control \in Key \cup {NoKey} /\ seen \subseteq Key
    /\ pc \in {"run", "newhash", "newarray"}
    /\ pending \in (Key \cup {NoKey}) \X (Value \cup {Nil})
    /\ nasize \in 0..MaxASize /\ nhsize \in Nat

\* The "main invariant" of ltable.c:19-22: if an element is not in its main
\* position, the element there is in its own.  And the chain from there leads to it,
\* without which no search finds it.
MainInvariant == TypeOK /\
    \A i \in {i \in DOMAIN hash.node : hash.node[i].val # Nil} :
        LET k == hash.node[i].key
            mp == MainPosition(k, hash.size)
        IN /\ ~hash.node[i].dead
           /\ mp # i => /\ hash.node[mp].key # NoKey
                        /\ hash.node[mp].val # Nil =>
                              MainPosition(hash.node[mp].key, hash.size) = mp
           /\ Search(hash, k, FALSE) = i

\* The sizes of a rehash fit: the old keys and the new one all find a node in the new
\* parts ("vmk_assert(done);  /* it cannot fail */").
RehashFits ==
    pc = "newarray" =>
        \A k \in HashKeys \cup ArrayKeys \cup {pending[1]} :
            \/ k \in IntKey /\ k <= nasize
            \/ Search(NewTable.hash, k, FALSE) # -1

\* vmkH_getn returns a border (manual, 3.4.7) whatever the hint and the holes.
BorderFound ==
    pc = "run" =>
        /\ Border = 0 \/ (Border \in IntKey /\ Get(Border) # Nil)
        /\ Border = MaxInteger \/ Border + 1 \notin IntKey \/ Get(Border + 1) = Nil

\* A traversal never fails with "invalid key to 'next'", though its control key may
\* have been removed from the table and be dead ("in a regular traversal, this
\* situation should never happen").
ControlFound == traversing => FindIndex # -1

\* The values of a weak table that are collected are removed from it (manual, 2.5.4:
\* "if either the key or the value is collected, the whole pair is removed").
NoDanglingValue == TableValues \subseteq alloc \cup {Nil}

\* The table is a function from keys to values through every insertion, rehash,
\* failed resize and collection, and its traversals visit each entry once.
Map == INSTANCE FiniteMap WITH map <- [k \in Key |-> Get(k)]
ImplementsMap == Map!Spec

=============================================================================
