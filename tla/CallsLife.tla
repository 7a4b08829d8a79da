------------------------------ MODULE CallsLife -------------------------------
(***************************************************************************)
(* Calls implements CoroutineLife: whatever the calls, errors, yields and  *)
(* closes of a program do to the C stack, to a coroutine they are steps of *)
(* the life that lcorolib.c promises.  The proof goes through what the     *)
(* threads were entered with, the part of the C stack that 'auxstatus'     *)
(* can see.                                                                *)
(***************************************************************************)
EXTENDS CallsProofs

-----------------------------------------------------------------------------
(* Sets of indices. *)

\* The place of i among the elements of S, and the element at place m.
Rank(S, i) == Cardinality({j \in S : j <= i})
Nth(S, m) == CHOOSE i \in S : Rank(S, i) = m

\* A set of indices is finite, and so is each part of it.
LEMMA IndexSet ==
  ASSUME NEW n \in Nat, NEW S \in SUBSET (1..n)
  PROVE  /\ IsFiniteSet(S) /\ Cardinality(S) \in Nat
         /\ \A i : Rank(S, i) \in Nat /\ Rank(S, i) <= Cardinality(S)
         /\ \A i \in S : i \in Nat /\ 0 < i /\ i <= n
  <1>0. \A i \in S : i \in 1..n
    OBVIOUS
  <1>1. IsFiniteSet(1..n)
    BY FS_Interval
  <1>2. IsFiniteSet(S)
    BY <1>1, FS_Subset
  <1>3. \A i : {j \in S : j <= i} \in SUBSET S
    OBVIOUS
  <1>4. \A i : IsFiniteSet({j \in S : j <= i}) /\ Cardinality({j \in S : j <= i}) <= Cardinality(S)
    BY <1>2, <1>3, FS_Subset
  <1>5. \A i : Rank(S, i) \in Nat /\ Rank(S, i) <= Cardinality(S)
    BY <1>4, FS_CardinalityType DEF Rank
  <1>6. \A i \in S : i \in Nat /\ 0 < i /\ i <= n
    BY <1>0
  <1> QED BY <1>2, <1>5, <1>6, FS_CardinalityType

\* One index more counts itself, if it is in the set.
LEMMA RankNext ==
  ASSUME NEW n \in Nat, NEW S \in SUBSET (1..n), NEW k \in Nat \ {0}
  PROVE  Rank(S, k) = Rank(S, k - 1) + IF k \in S THEN 1 ELSE 0
  <1> DEFINE A == {j \in S : j <= k - 1}
             B == {j \in S : j <= k}
  <1>0. \A j \in S : j \in Nat /\ (j <= k <=> j <= k - 1 \/ j = k) /\ (j = k => ~(j <= k - 1))
    BY IndexSet
  <1>1. k \notin A /\ B = IF k \in S THEN A \cup {k} ELSE A
    BY <1>0
  <1>2. A \in SUBSET S
    OBVIOUS
  <1> HIDE DEF A, B
  <1>3. IsFiniteSet(A)
    BY <1>2, IndexSet, FS_Subset
  <1>4. Cardinality(A \cup {k}) = Cardinality(A) + 1 /\ Cardinality(A) \in Nat
    BY <1>1, <1>3, FS_AddElement, FS_CardinalityType
  <1>5. Cardinality(B) = Cardinality(A) + IF k \in S THEN 1 ELSE 0
    BY <1>1, <1>4
  <1> QED BY <1>5 DEF Rank, A, B

\* The places grow with the elements.
LEMMA RankGrows ==
  ASSUME NEW n \in Nat, NEW S \in SUBSET (1..n), NEW k \in S, NEW i \in Nat, i < k
  PROVE  Rank(S, i) < Rank(S, k)
  <1>1. k \in Nat \ {0} /\ i <= k - 1
    BY IndexSet
  <1>2. Rank(S, k) = Rank(S, k - 1) + 1
    BY <1>1, RankNext
  <1>3. Rank(S, i) <= Rank(S, k - 1)
    <2> DEFINE A == {j \in S : j <= k - 1}
               B == {j \in S : j <= i}
    <2>0. \A j \in S : j \in Nat /\ (j <= i => j <= k - 1)
      BY <1>1, IndexSet
    <2>1. B \in SUBSET A /\ A \in SUBSET S
      BY <2>0
    <2> HIDE DEF A, B
    <2>2. Cardinality(B) <= Cardinality(A)
      BY <2>1, IndexSet, FS_Subset
    <2> QED BY <2>2 DEF Rank, A, B
  <1>4. Rank(S, i) \in Nat /\ Rank(S, k - 1) \in Nat
    BY IndexSet
  <1> QED BY <1>2, <1>3, <1>4

\* The first and the last place.
LEMMA RankEnds ==
  ASSUME NEW n \in Nat, NEW S \in SUBSET (1..n)
  PROVE  Rank(S, 0) = 0 /\ \A m \in Nat : (\A i \in S : i <= m) => Rank(S, m) = Cardinality(S)
  <1>0. \A j \in S : ~(j <= 0)
    BY IndexSet
  <1>1. {j \in S : j <= 0} = {}
    BY <1>0
  <1>2. \A m \in Nat : (\A i \in S : i <= m) => {j \in S : j <= m} = S
    OBVIOUS
  <1>3. Cardinality({}) = 0
    BY FS_EmptySet
  <1> QED BY <1>1, <1>2, <1>3 DEF Rank

\* Each place has an element.
LEMMA NthFound ==
  ASSUME NEW n \in Nat, NEW S \in SUBSET (1..n), NEW m \in 1..Cardinality(S)
  PROVE  Nth(S, m) \in S /\ Rank(S, Nth(S, m)) = m
  <1> DEFINE T == {k \in Nat : Rank(S, k) >= m}
  <1>1. Cardinality(S) \in Nat /\ \A i : Rank(S, i) \in Nat
    BY IndexSet
  <1>2. n \in T
    <2>1. Rank(S, n) = Cardinality(S)
      BY IndexSet, RankEnds
    <2> QED BY <1>1, <2>1
  <1>3. PICK k \in T : \A j \in T : k <= j
    BY <1>2, LeastNatural
  <1>4. k \in Nat /\ Rank(S, k) >= m /\ k # 0
    <2>1. Rank(S, 0) = 0
      BY RankEnds
    <2> QED BY <1>3, <2>1
  <1>5. Rank(S, k - 1) < m
    <2>1. k - 1 \notin T /\ k - 1 \in Nat
      BY <1>3, <1>4
    <2> QED BY <2>1, <1>1
  <1>6. k \in S /\ Rank(S, k) = m
    <2>1. Rank(S, k) = Rank(S, k - 1) + IF k \in S THEN 1 ELSE 0
      BY <1>4, RankNext
    <2>2. Rank(S, k) \in Nat /\ Rank(S, k - 1) \in Nat
      BY <1>1
    <2> HIDE DEF T
    <2> QED BY <2>1, <2>2, <1>4, <1>5
  <1> QED BY <1>6 DEF Nth

\* And each element is the one at its place.
LEMMA NthIs ==
  ASSUME NEW n \in Nat, NEW S \in SUBSET (1..n), NEW i \in S
  PROVE  Rank(S, i) \in 1..Cardinality(S) /\ Nth(S, Rank(S, i)) = i
  <1> DEFINE k == Nth(S, Rank(S, i))
  <1>1. /\ Cardinality(S) \in Nat
        /\ \A j : Rank(S, j) \in Nat /\ Rank(S, j) <= Cardinality(S)
    BY IndexSet
  <1>2. Rank(S, i) # 0
    <2>1. Rank(S, 0) < Rank(S, i)
      BY IndexSet, RankGrows
    <2> QED BY <2>1, <1>1, RankEnds
  <1>3. Rank(S, i) \in 1..Cardinality(S)
    BY <1>1, <1>2
  <1>4. k \in S /\ Rank(S, k) = Rank(S, i)
    BY <1>3, NthFound
  <1> HIDE DEF k
  <1>5. ~(k < i) /\ ~(i < k)
    <2>0. k \in Nat /\ i \in Nat /\ Rank(S, i) \in Nat
      BY <1>1, <1>4, IndexSet
    <2>1. k < i => Rank(S, k) < Rank(S, i)
      BY <2>0, RankGrows
    <2>2. i < k => Rank(S, i) < Rank(S, k)
      BY ONLY <1>4, <2>0, n \in Nat, S \in SUBSET (1..n), RankGrows
    <2> QED BY <1>4, <2>0, <2>1, <2>2
  <1>6. k = i
    BY <1>4, <1>5, IndexSet
  <1> QED BY <1>3, <1>6 DEF k

-----------------------------------------------------------------------------
(* What the threads of a C stack were entered with. *)

\* The activations that entered a coroutine, and what 'auxstatus' can tell of each.
EnteredIn(C) == {i \in DOMAIN C : Entering(C[i])}
Entered(C) == [i \in EnteredIn(C) |->
                 [th |-> C[i].th, life |-> IF C[i].job = "close" THEN "closing" ELSE "active"]]

\* ActiveChain and LifeOf, of what the threads were entered with.
ChainOf(E) == [m \in 1..(Cardinality(DOMAIN E) + 1) |->
                 IF m = 1 THEN Main ELSE E[Nth(DOMAIN E, m - 1)].th]
Suspended(st, bd, co) == st[co] = "yield" \/ (st[co] = "ok" /\ bd[co])
LifeIn(E, st, bd, co) ==
    IF \E i \in DOMAIN E : E[i].th = co /\ E[i].life = "closing" THEN "closing"
    ELSE IF \E i \in DOMAIN E : E[i].th = co THEN "active"
    ELSE IF Suspended(st, bd, co) THEN "suspended" ELSE "dead"
LivesIn(E, st, bd) == [co \in Cos |-> LifeIn(E, st, bd, co)]

\* A coroutine is entered at one place at most.
Entries(E) ==
    /\ \E n \in Nat : DOMAIN E \subseteq 1..n
    /\ \A i \in DOMAIN E : E[i].th \in Cos /\ E[i].life \in {"closing", "active"}
    /\ \A i, j \in DOMAIN E : E[i].th = E[j].th => i = j

\* E2 is E with one entry more, over the others.
Grows(E, E2, h) ==
    /\ DOMAIN E2 = DOMAIN E \cup {h}
    /\ \A i \in DOMAIN E : i < h /\ E2[i] = E[i]

\* The statuses and the functions of the coroutines that are not entered stay.
Outside(E, st, bd, st2, bd2) ==
    \A co \in Cos : (\A i \in DOMAIN E : E[i].th # co) => st2[co] = st[co] /\ bd2[co] = bd[co]

\* The steps of a coroutine's life: it is resumed or is to be closed, yields or
\* ends, or fails and is to be closed.
Begins(E, st, bd, E2, st2, bd2, h) ==
    /\ Grows(E, E2, h) /\ Outside(E2, st, bd, st2, bd2)
    /\ E2[h].life = "active" => Suspended(st, bd, E2[h].th)
Yields(E, st, bd, E2, st2, bd2, h) ==
    /\ Grows(E2, E, h) /\ Outside(E, st, bd, st2, bd2)
    /\ E[h].life = "active" /\ st2[E[h].th] = "yield"
Ends(E, st, bd, E2, st2, bd2, h) ==
    /\ Grows(E2, E, h) /\ Outside(E, st, bd, st2, bd2)
    /\ LET co == E[h].th IN st2[co] = "err" \/ (st2[co] = "ok" /\ ~bd2[co])
Fails(E, st, bd, E2, st2, bd2, h) ==
    /\ h \in DOMAIN E /\ DOMAIN E2 = DOMAIN E /\ Outside(E, st, bd, st2, bd2)
    /\ \A i \in DOMAIN E : i <= h /\ (i # h => E2[i] = E[i])
    /\ E2[h].th = E[h].th /\ E[h].life = "active" /\ E2[h].life = "closing"
Moves(E, st, bd, E2, st2, bd2) ==
    \/ E2 = E /\ Outside(E, st, bd, st2, bd2)
    \/ \E h \in Nat : \/ Begins(E, st, bd, E2, st2, bd2, h)
                      \/ Yields(E, st, bd, E2, st2, bd2, h)
                      \/ Ends(E, st, bd, E2, st2, bd2, h)
                      \/ Fails(E, st, bd, E2, st2, bd2, h)

\* The chain is a sequence that has each entry at its place.
LEMMA ChainAt ==
  ASSUME NEW E, Entries(E)
  PROVE  /\ ChainOf(E) \in Seq(Threads) /\ Len(ChainOf(E)) = Cardinality(DOMAIN E) + 1
         /\ Cardinality(DOMAIN E) \in Nat /\ IsFiniteSet(DOMAIN E)
         /\ ChainOf(E)[1] = Main
         /\ \A i \in DOMAIN E : /\ Rank(DOMAIN E, i) \in 1..Cardinality(DOMAIN E)
                                 /\ ChainOf(E)[Rank(DOMAIN E, i) + 1] = E[i].th
         /\ \A m \in 1..Cardinality(DOMAIN E) :
               \E i \in DOMAIN E : Rank(DOMAIN E, i) = m
  <1> DEFINE S == DOMAIN E
  <1>1. PICK n \in Nat : S \subseteq 1..n
    BY DEF Entries
  <1>2. Cardinality(S) \in Nat /\ IsFiniteSet(S)
    BY <1>1, IndexSet
  <1>3. \A m \in 1..Cardinality(S) : Nth(S, m) \in S /\ Rank(S, Nth(S, m)) = m
    BY <1>1, NthFound
  <1>4. \A i \in S : Rank(S, i) \in 1..Cardinality(S) /\ Nth(S, Rank(S, i)) = i
    BY <1>1, NthIs
  <1>5. \A i \in S : E[i].th \in Threads
    BY DEF Entries, Threads
  <1>6. ChainOf(E) = [m \in 1..(Cardinality(S) + 1) |-> IF m = 1 THEN Main ELSE E[Nth(S, m - 1)].th]
    BY DEF ChainOf
  <1> HIDE DEF S
  <1>7. \A m \in 1..(Cardinality(S) + 1) : (IF m = 1 THEN Main ELSE E[Nth(S, m - 1)].th) \in Threads
    <2> SUFFICES ASSUME NEW m \in 1..(Cardinality(S) + 1), m # 1 PROVE E[Nth(S, m - 1)].th \in Threads
      BY DEF Threads
    <2>1. m - 1 \in 1..Cardinality(S)
      BY <1>2
    <2> QED BY <2>1, <1>3, <1>5
  <1>8. ChainOf(E) \in Seq(Threads) /\ Len(ChainOf(E)) = Cardinality(S) + 1 /\ ChainOf(E)[1] = Main
    BY <1>2, <1>6, <1>7
  <1>9. \A i \in S : ChainOf(E)[Rank(S, i) + 1] = E[i].th
    <2> SUFFICES ASSUME NEW i \in S PROVE ChainOf(E)[Rank(S, i) + 1] = E[i].th
      OBVIOUS
    <2>1. /\ Rank(S, i) + 1 \in 1..(Cardinality(S) + 1) /\ Rank(S, i) + 1 # 1
          /\ (Rank(S, i) + 1) - 1 = Rank(S, i) /\ Nth(S, Rank(S, i)) = i
      BY <1>2, <1>4
    <2> QED BY <2>1, <1>6
  <1> QED BY <1>2, <1>3, <1>4, <1>8, <1>9 DEF S

\* An entry more is a thread more in the chain.
LEMMA ChainGrows ==
  ASSUME NEW E, Entries(E), NEW E2, Entries(E2), NEW h, Grows(E, E2, h)
  PROVE  ChainOf(E2) = Append(ChainOf(E), E2[h].th)
  <1> DEFINE S == DOMAIN E
             T == DOMAIN E2
             c == ChainOf(E)
             d == ChainOf(E2)
             k == Cardinality(S)
  <1>1. T = S \cup {h} /\ \A i \in S : i < h /\ E2[i] = E[i]
    BY DEF Grows
  <1>2. PICK n \in Nat : T \subseteq 1..n
    BY DEF Entries
  <1>3. /\ c \in Seq(Threads) /\ Len(c) = k + 1 /\ k \in Nat /\ IsFiniteSet(S) /\ c[1] = Main
        /\ \A i \in S : Rank(S, i) \in 1..k /\ c[Rank(S, i) + 1] = E[i].th
        /\ \A m \in 1..k : \E i \in S : Rank(S, i) = m
    BY ChainAt
  <1>4. /\ d \in Seq(Threads) /\ Len(d) = Cardinality(T) + 1 /\ d[1] = Main
        /\ \A i \in T : d[Rank(T, i) + 1] = E2[i].th
    BY ChainAt
  <1> HIDE DEF S, T, c, d, k
  <1>5. \A i \in T : i \in Nat /\ i <= h /\ (i \in S => i # h)
    <2>1. \A i \in T : i \in Nat
      BY <1>2, IndexSet
    <2> QED BY <2>1, <1>1
  <1>6. Cardinality(T) = k + 1
    BY <1>1, <1>3, <1>5, FS_AddElement DEF k
  <1>7. Rank(T, h) = k + 1
    BY <1>1, <1>2, <1>5, <1>6, RankEnds
  <1>8. \A i \in S : Rank(T, i) = Rank(S, i)
    <2> SUFFICES ASSUME NEW i \in S PROVE Rank(T, i) = Rank(S, i)
      OBVIOUS
    <2>1. {j \in T : j <= i} = {j \in S : j <= i}
      BY <1>1, <1>5
    <2> QED BY <2>1 DEF Rank
  <1>9. d[k + 2] = E2[h].th
    <2>1. h \in T /\ (k + 1) + 1 = k + 2
      BY <1>1, <1>3
    <2> QED BY <2>1, <1>4, <1>7
  <1>10. \A m \in 1..(k + 1) : d[m] = c[m]
    <2> SUFFICES ASSUME NEW m \in 1..(k + 1), m # 1 PROVE d[m] = c[m]
      BY <1>3, <1>4
    <2>1. m - 1 \in 1..k
      BY <1>3
    <2>2. PICK i \in S : Rank(S, i) = m - 1
      BY <2>1, <1>3
    <2>3. Rank(S, i) + 1 = m /\ Rank(T, i) + 1 = m
      BY <2>1, <2>2, <1>8
    <2>4. i \in T /\ E2[i] = E[i]
      BY <1>1
    <2>5. d[m] = E2[i].th /\ c[m] = E[i].th
      BY <2>3, <2>4, <1>3, <1>4
    <2> QED BY <2>4, <2>5
  <1>11. E2[h].th \in Threads
    BY <1>1 DEF Entries, T, Threads
  <1>12. d = Append(c, E2[h].th)
    BY <1>3, <1>4, <1>6, <1>9, <1>10, <1>11
  <1> QED BY <1>12 DEF c, d

\* The last entry is the last of the chain.
LEMMA ChainLast ==
  ASSUME NEW E, Entries(E), NEW h \in DOMAIN E, \A i \in DOMAIN E : i <= h
  PROVE  Len(ChainOf(E)) > 1 /\ ChainOf(E)[Len(ChainOf(E))] = E[h].th
  <1> DEFINE S == DOMAIN E
  <1>1. /\ Len(ChainOf(E)) = Cardinality(S) + 1 /\ Cardinality(S) \in Nat
        /\ Rank(S, h) \in 1..Cardinality(S) /\ ChainOf(E)[Rank(S, h) + 1] = E[h].th
    BY ChainAt
  <1>2. PICK n \in Nat : S \subseteq 1..n
    BY DEF Entries
  <1>3. h \in Nat
    BY <1>2, IndexSet
  <1>4. Rank(S, h) = Cardinality(S)
    BY <1>2, <1>3, RankEnds
  <1> QED BY <1>1, <1>4

\* The life of a coroutine that is entered.
LEMMA LifeEntered ==
  ASSUME NEW E, Entries(E), NEW st, NEW bd, NEW i \in DOMAIN E
  PROVE  LifeIn(E, st, bd, E[i].th) = E[i].life
  <1>1. \A j \in DOMAIN E : E[j].th = E[i].th => j = i
    BY DEF Entries
  <1>2. E[i].life \in {"closing", "active"}
    BY DEF Entries
  <1>3. CASE E[i].life = "closing"
    BY <1>3 DEF LifeIn
  <1>4. CASE E[i].life = "active"
    BY <1>1, <1>4 DEF LifeIn
  <1> QED BY <1>2, <1>3, <1>4

\* The life of one that is not.
LEMMA LifeFree ==
  ASSUME NEW E, NEW st, NEW bd, NEW co, \A i \in DOMAIN E : E[i].th # co
  PROVE  LifeIn(E, st, bd, co) = IF Suspended(st, bd, co) THEN "suspended" ELSE "dead"
  BY DEF LifeIn

\* What is not entered and did not change has the life it had.
LEMMA LifeKept ==
  ASSUME NEW E, Entries(E), NEW E2, Entries(E2), NEW st, NEW bd, NEW st2, NEW bd2, NEW c \in Cos,
         \/ /\ \A i \in DOMAIN E : E[i].th # c
            /\ \A i \in DOMAIN E2 : E2[i].th # c
            /\ st2[c] = st[c] /\ bd2[c] = bd[c]
         \/ \E i \in DOMAIN E : E[i].th = c /\ i \in DOMAIN E2 /\ E2[i] = E[i]
  PROVE  LifeIn(E2, st2, bd2, c) = LifeIn(E, st, bd, c)
  <1>1. CASE /\ \A i \in DOMAIN E : E[i].th # c
             /\ \A i \in DOMAIN E2 : E2[i].th # c
             /\ st2[c] = st[c] /\ bd2[c] = bd[c]
    <2>1. LifeIn(E, st, bd, c) = IF Suspended(st, bd, c) THEN "suspended" ELSE "dead"
      BY <1>1, LifeFree
    <2>2. LifeIn(E2, st2, bd2, c) = IF Suspended(st2, bd2, c) THEN "suspended" ELSE "dead"
      BY <1>1, LifeFree
    <2>3. Suspended(st2, bd2, c) <=> Suspended(st, bd, c)
      BY <1>1 DEF Suspended
    <2> QED BY <2>1, <2>2, <2>3
  <1>2. CASE \E i \in DOMAIN E : E[i].th = c /\ i \in DOMAIN E2 /\ E2[i] = E[i]
    <2>1. PICK i \in DOMAIN E : E[i].th = c /\ i \in DOMAIN E2 /\ E2[i] = E[i]
      BY <1>2
    <2>2. LifeIn(E, st, bd, E[i].th) = E[i].life
      BY LifeEntered
    <2>3. LifeIn(E2, st2, bd2, E2[i].th) = E2[i].life
      BY <2>1, LifeEntered
    <2> QED BY <2>1, <2>2, <2>3
  <1> QED BY <1>1, <1>2

\* The lives when one changes.
LEMMA LivesChange ==
  ASSUME NEW E, NEW st, NEW bd, NEW E2, NEW st2, NEW bd2, NEW co \in Cos,
         \A c \in Cos : c # co => LifeIn(E2, st2, bd2, c) = LifeIn(E, st, bd, c)
  PROVE  LivesIn(E2, st2, bd2) = [LivesIn(E, st, bd) EXCEPT ![co] = LifeIn(E2, st2, bd2, co)]
  BY DEF LivesIn

\* What an entry more or less leaves alone.
LEMMA OthersLive ==
  ASSUME NEW E, Entries(E), NEW E2, Entries(E2), NEW h, Grows(E, E2, h),
         NEW st, NEW bd, NEW st2, NEW bd2, Outside(E2, st, bd, st2, bd2)
  PROVE  /\ E2[h].th \in Cos /\ E2[h].life \in {"closing", "active"}
         /\ \A i \in DOMAIN E : E[i].th # E2[h].th
         /\ \A c \in Cos : c # E2[h].th => LifeIn(E2, st2, bd2, c) = LifeIn(E, st, bd, c)
         /\ \A c \in Cos : c # E2[h].th => LifeIn(E2, st, bd, c) = LifeIn(E, st2, bd2, c)
  <1>1. /\ h \in DOMAIN E2 /\ \A i \in DOMAIN E : i \in DOMAIN E2 /\ i < h /\ E2[i] = E[i]
        /\ DOMAIN E2 = DOMAIN E \cup {h}
    BY DEF Grows
  <1>2. E2[h].th \in Cos /\ E2[h].life \in {"closing", "active"}
    BY <1>1 DEF Entries
  <1>3. PICK n \in Nat : DOMAIN E2 \subseteq 1..n
    BY DEF Entries
  <1>4. h \in Nat
    BY <1>1, <1>3, IndexSet
  <1>5. \A i \in DOMAIN E : E[i].th # E2[h].th
    <2> SUFFICES ASSUME NEW i \in DOMAIN E, E[i].th = E2[h].th PROVE FALSE
      OBVIOUS
    <2>1. E2[i].th = E2[h].th /\ i \in DOMAIN E2 /\ i < h
      BY <1>1
    <2>2. i = h
      BY <1>1, <2>1 DEF Entries
    <2> QED BY <2>1, <2>2, <1>4
  <1>6. ASSUME NEW c \in Cos, c # E2[h].th
        PROVE  \/ /\ \A i \in DOMAIN E : E[i].th # c
                  /\ \A i \in DOMAIN E2 : E2[i].th # c
                  /\ st2[c] = st[c] /\ bd2[c] = bd[c]
               \/ \E i \in DOMAIN E : E[i].th = c /\ i \in DOMAIN E2 /\ E2[i] = E[i]
    <2>1. CASE \E i \in DOMAIN E : E[i].th = c
      BY <1>1, <2>1
    <2>2. CASE \A i \in DOMAIN E : E[i].th # c
      <3>1. \A i \in DOMAIN E2 : E2[i].th # c
        BY <1>1, <1>6, <2>2
      <3> QED BY <2>2, <3>1 DEF Outside
    <2> QED BY <2>1, <2>2
  <1>7. ASSUME NEW c \in Cos, c # E2[h].th
        PROVE  /\ LifeIn(E2, st2, bd2, c) = LifeIn(E, st, bd, c)
               /\ LifeIn(E2, st, bd, c) = LifeIn(E, st2, bd2, c)
    BY <1>6, <1>7, LifeKept
  <1> QED BY <1>2, <1>5, <1>7

\* What the steps of CoroutineLife say of its variables a and l.
Lives(a, l, a2, l2) ==
    \/ a2 = a /\ l2 = l
    \/ \E co \in Cos : /\ a2 = Append(a, co)
                      /\ \/ l[co] = "suspended" /\ l2 = [l EXCEPT ![co] = "active"]
                         \/ l[co] \in {"suspended", "dead"} /\ l2 = [l EXCEPT ![co] = "closing"]
    \/ /\ Len(a) > 1 /\ a2 = SubSeq(a, 1, Len(a) - 1)
       /\ \/ /\ l[a[Len(a)]] = "active" /\ l2 = [l EXCEPT ![a[Len(a)]] = "suspended"]
          \/ l2 = [l EXCEPT ![a[Len(a)]] = "dead"]
    \/ /\ Len(a) > 1 /\ l[a[Len(a)]] = "active"
       /\ a2 = a /\ l2 = [l EXCEPT ![a[Len(a)]] = "closing"]

\* A coroutine that is entered was resumed or closed.
LEMMA BeginsLives ==
  ASSUME NEW E, Entries(E), NEW E2, Entries(E2), NEW st, NEW bd, NEW st2, NEW bd2, NEW h \in Nat,
         Begins(E, st, bd, E2, st2, bd2, h)
  PROVE  Lives(ChainOf(E), LivesIn(E, st, bd), ChainOf(E2), LivesIn(E2, st2, bd2))
  <1> DEFINE co == E2[h].th
             l == LivesIn(E, st, bd)
             l2 == LivesIn(E2, st2, bd2)
  <1>1. Grows(E, E2, h) /\ Outside(E2, st, bd, st2, bd2)
    BY DEF Begins
  <1>2. /\ co \in Cos /\ E2[h].life \in {"closing", "active"} /\ \A i \in DOMAIN E : E[i].th # co
        /\ \A c \in Cos : c # co => LifeIn(E2, st2, bd2, c) = LifeIn(E, st, bd, c)
    BY <1>1, OthersLive
  <1>3. ChainOf(E2) = Append(ChainOf(E), co)
    BY <1>1, ChainGrows
  <1>4. LifeIn(E2, st2, bd2, co) = E2[h].life
    BY <1>1, LifeEntered DEF Grows
  <1>5. l2 = [l EXCEPT ![co] = E2[h].life]
    <2>1. l2 = [l EXCEPT ![co] = LifeIn(E2, st2, bd2, co)]
      BY <1>2, LivesChange
    <2> QED BY <1>4, <2>1
  <1>6. l[co] = IF Suspended(st, bd, co) THEN "suspended" ELSE "dead"
    <2>1. l[co] = LifeIn(E, st, bd, co)
      BY <1>2 DEF LivesIn
    <2> QED BY <1>2, <2>1, LifeFree
  <1>7. E2[h].life = "active" => l[co] = "suspended"
    <2>1. E2[h].life = "active" => Suspended(st, bd, co)
      BY DEF Begins
    <2> QED BY <1>6, <2>1
  <1>8. l[co] \in {"suspended", "dead"}
    BY <1>6
  <1> HIDE DEF co, l, l2
  <1>9. CASE E2[h].life = "active"
    BY <1>2, <1>3, <1>5, <1>7, <1>9 DEF Lives, l, l2
  <1>10. CASE E2[h].life = "closing"
    BY <1>2, <1>3, <1>5, <1>8, <1>10 DEF Lives, l, l2
  <1> QED BY <1>2, <1>9, <1>10

\* A coroutine that is left yielded or ended.
LEMMA LeavesLives ==
  ASSUME NEW E, Entries(E), NEW E2, Entries(E2), NEW st, NEW bd, NEW st2, NEW bd2, NEW h \in Nat,
         Yields(E, st, bd, E2, st2, bd2, h) \/ Ends(E, st, bd, E2, st2, bd2, h)
  PROVE  Lives(ChainOf(E), LivesIn(E, st, bd), ChainOf(E2), LivesIn(E2, st2, bd2))
  <1> DEFINE co == E[h].th
             l == LivesIn(E, st, bd)
             l2 == LivesIn(E2, st2, bd2)
             a == ChainOf(E)
             a2 == ChainOf(E2)
  <1>1. Grows(E2, E, h) /\ Outside(E, st, bd, st2, bd2)
    BY DEF Yields, Ends
  <1>2. /\ co \in Cos /\ \A i \in DOMAIN E2 : E2[i].th # co
        /\ \A c \in Cos : c # co => LifeIn(E2, st2, bd2, c) = LifeIn(E, st, bd, c)
    BY <1>1, OthersLive
  <1>3. a = Append(a2, co) /\ a2 \in Seq(Threads) /\ Len(a2) \in Nat \ {0}
    <2>1. ChainOf(E2) \in Seq(Threads) /\ Len(ChainOf(E2)) = Cardinality(DOMAIN E2) + 1
          /\ Cardinality(DOMAIN E2) \in Nat
      BY ChainAt
    <2> QED BY <1>1, <2>1, ChainGrows
  <1>4. LifeIn(E, st, bd, co) = E[h].life
    BY <1>1, LifeEntered DEF Grows
  <1>5. l2 = [l EXCEPT ![co] = LifeIn(E2, st2, bd2, co)]
    BY <1>2, LivesChange
  <1>6. LifeIn(E2, st2, bd2, co) = IF Suspended(st2, bd2, co) THEN "suspended" ELSE "dead"
    BY <1>2, LifeFree
  <1>7. l[co] = E[h].life
    BY <1>2, <1>4 DEF LivesIn
  <1>8. \/ l[co] = "active" /\ l2 = [l EXCEPT ![co] = "suspended"]
        \/ l2 = [l EXCEPT ![co] = "dead"]
    <2>1. CASE Yields(E, st, bd, E2, st2, bd2, h)
      <3>1. E[h].life = "active" /\ Suspended(st2, bd2, co)
        BY <2>1 DEF Yields, Suspended
      <3> QED BY <1>5, <1>6, <1>7, <3>1
    <2>2. CASE Ends(E, st, bd, E2, st2, bd2, h)
      <3>1. ~Suspended(st2, bd2, co)
        BY <2>2 DEF Ends, Suspended
      <3> QED BY <1>5, <1>6, <3>1
    <2> QED BY <2>1, <2>2
  <1> HIDE DEF co, l, l2, a, a2
  <1>9. Len(a) > 1 /\ a[Len(a)] = co /\ a2 = SubSeq(a, 1, Len(a) - 1)
    <2>1. co \in Threads
      BY <1>2 DEF Threads
    <2>2. Len(a) = Len(a2) + 1 /\ a[Len(a)] = co /\ Front(a) = a2 /\ a \in Seq(Threads) /\ a # <<>>
      BY <1>3, <2>1, Appended
    <2>3. Front(a) = SubSeq(a, 1, Len(a) - 1)
      BY <2>2, Shortened
    <2> QED BY <1>3, <2>2, <2>3
  <1> QED BY <1>8, <1>9 DEF Lives, l, l2, a, a2

\* A coroutine that fails in 'wrap' is closed, still at its place.
LEMMA FailsLives ==
  ASSUME NEW E, Entries(E), NEW E2, Entries(E2), NEW st, NEW bd, NEW st2, NEW bd2, NEW h \in Nat,
         Fails(E, st, bd, E2, st2, bd2, h)
  PROVE  Lives(ChainOf(E), LivesIn(E, st, bd), ChainOf(E2), LivesIn(E2, st2, bd2))
  <1> DEFINE co == E[h].th
             l == LivesIn(E, st, bd)
             l2 == LivesIn(E2, st2, bd2)
             a == ChainOf(E)
  <1>1. /\ h \in DOMAIN E /\ DOMAIN E2 = DOMAIN E /\ Outside(E, st, bd, st2, bd2)
        /\ \A i \in DOMAIN E : i <= h /\ (i # h => E2[i] = E[i])
        /\ E2[h].th = co /\ E[h].life = "active" /\ E2[h].life = "closing" /\ co \in Cos
    BY DEF Fails, Entries
  <1>2. ChainOf(E2) = a
    <2>1. PICK n \in Nat : DOMAIN E \subseteq 1..n
      BY DEF Entries
    <2>2. \A m \in 1..Cardinality(DOMAIN E) : E2[Nth(DOMAIN E, m)].th = E[Nth(DOMAIN E, m)].th
      BY <1>1, <2>1, NthFound
    <2>3. Cardinality(DOMAIN E) \in Nat
      BY <2>1, IndexSet
    <2>4. \A m \in 1..(Cardinality(DOMAIN E) + 1) : m # 1 => m - 1 \in 1..Cardinality(DOMAIN E)
      BY <2>3
    <2> QED BY <1>1, <2>2, <2>4 DEF ChainOf
  <1>3. Len(a) > 1 /\ a[Len(a)] = co
    BY <1>1, ChainLast
  <1>4. LifeIn(E, st, bd, E[h].th) = E[h].life /\ LifeIn(E2, st2, bd2, E2[h].th) = E2[h].life
    BY <1>1, LifeEntered
  <1>5. ASSUME NEW c \in Cos, c # co PROVE LifeIn(E2, st2, bd2, c) = LifeIn(E, st, bd, c)
    <2>1. CASE \E i \in DOMAIN E : E[i].th = c
      <3>1. \E i \in DOMAIN E : E[i].th = c /\ i \in DOMAIN E2 /\ E2[i] = E[i]
        BY <1>1, <1>5, <2>1
      <3> QED BY <3>1, LifeKept
    <2>2. CASE \A i \in DOMAIN E : E[i].th # c
      <3>1. /\ \A i \in DOMAIN E2 : E2[i].th # c
            /\ st2[c] = st[c] /\ bd2[c] = bd[c]
        BY <1>1, <1>5, <2>2 DEF Outside
      <3> QED BY <2>2, <3>1, LifeKept
    <2> QED BY <2>1, <2>2
  <1>6. l2 = [l EXCEPT ![co] = "closing"] /\ l[co] = "active"
    <2>0. co \in Cos /\ \A c \in Cos : c # co => LifeIn(E2, st2, bd2, c) = LifeIn(E, st, bd, c)
      BY <1>1, <1>5
    <2>1. l2 = [l EXCEPT ![co] = LifeIn(E2, st2, bd2, co)]
      BY ONLY <2>0, LivesChange
    <2> QED BY <1>1, <1>4, <2>1 DEF LivesIn
  <1> HIDE DEF l, l2, a
  <1> QED BY <1>2, <1>3, <1>6 DEF Lives, l, l2, a

\* Every move is a step of a coroutine's life, or none.
LEMMA MovesLive ==
  ASSUME NEW E, Entries(E), NEW E2, Entries(E2), NEW st, NEW bd, NEW st2, NEW bd2,
         Moves(E, st, bd, E2, st2, bd2)
  PROVE  Lives(ChainOf(E), LivesIn(E, st, bd), ChainOf(E2), LivesIn(E2, st2, bd2))
  <1>1. CASE E2 = E /\ Outside(E, st, bd, st2, bd2)
    <2>1. ASSUME NEW c \in Cos PROVE LifeIn(E2, st2, bd2, c) = LifeIn(E, st, bd, c)
      <3>1. CASE \E i \in DOMAIN E : E[i].th = c
        BY <1>1, <3>1, LifeKept
      <3>2. CASE \A i \in DOMAIN E : E[i].th # c
        <4>1. st2[c] = st[c] /\ bd2[c] = bd[c]
          BY <1>1, <3>2 DEF Outside
        <4> QED BY <1>1, <3>2, <4>1, LifeKept
      <3> QED BY <3>1, <3>2
    <2>2. LivesIn(E2, st2, bd2) = LivesIn(E, st, bd)
      BY <2>1 DEF LivesIn
    <2> QED BY <1>1, <2>2 DEF Lives
  <1>2. CASE \E h \in Nat : \/ Begins(E, st, bd, E2, st2, bd2, h)
                           \/ Yields(E, st, bd, E2, st2, bd2, h)
                           \/ Ends(E, st, bd, E2, st2, bd2, h)
                           \/ Fails(E, st, bd, E2, st2, bd2, h)
    BY <1>2, BeginsLives, LeavesLives, FailsLives
  <1> QED BY <1>1, <1>2 DEF Moves

-----------------------------------------------------------------------------
(* What a C stack entered. *)

\* Each entry of a C stack is of a coroutine, and none is entered twice.
LEMMA ShapeEntries ==
  ASSUME NEW C \in Seq(Activation), Shape(C)
  PROVE  /\ Entries(Entered(C)) /\ DOMAIN Entered(C) = EnteredIn(C)
         /\ \A i \in EnteredIn(C) : i \in 1..Len(C) /\ i > 1 /\ C[i].th \in Cos
         /\ \A i \in EnteredIn(C) : \A j \in 1..Len(C) : j < i => C[j].th # C[i].th
         /\ \A co \in Cos : InC(C, co) <=> \E i \in EnteredIn(C) : C[i].th = co
  <1>1. /\ Len(C) \in Nat /\ DOMAIN C = 1..Len(C)
        /\ \A i \in 1..Len(C) : /\ i = 1 => Bottom(C[i])
                                /\ i > 1 => i - 1 \in 1..Len(C) /\ Over(C[i-1], C[i])
        /\ \A i, j \in 1..Len(C) : i < j /\ Entering(C[j]) => C[i].th # C[j].th
    BY ShapeParts
  <1>2. EnteredIn(C) = {i \in 1..Len(C) : Entering(C[i])}
    BY <1>1 DEF EnteredIn
  <1>3. DOMAIN Entered(C) = EnteredIn(C)
        /\ \A i \in EnteredIn(C) : /\ Entered(C)[i].th = C[i].th
                                   /\ Entered(C)[i].life = IF C[i].job = "close" THEN "closing" ELSE "active"
    BY DEF Entered
  <1>4. ASSUME NEW i \in EnteredIn(C)
        PROVE  i \in 1..Len(C) /\ i > 1 /\ C[i].th \in Cos /\ Entering(C[i])
    <2>1. i \in 1..Len(C) /\ Entering(C[i])
      BY <1>2
    <2>2. i # 1
      BY <1>1, <2>1 DEF Bottom, Protected, Entering, Coroutined
    <2>3. i > 1 /\ Over(C[i-1], C[i]) /\ i - 1 \in 1..Len(C) /\ i - 1 < i
      BY <1>1, <2>1, <2>2
    <2>4. C[i-1].th # C[i].th
      BY <1>1, <2>1, <2>3
    <2>5. Enters(C[i-1], C[i])
      BY <2>3, <2>4 DEF Over
    <2> QED BY <2>1, <2>3, <2>5 DEF Enters
  <1>5. \A i \in EnteredIn(C) : \A j \in 1..Len(C) : j < i => C[j].th # C[i].th
    BY <1>1, <1>4
  <1>6. Entries(Entered(C))
    <2>1. \E n \in Nat : DOMAIN Entered(C) \subseteq 1..n
      BY <1>1, <1>3, <1>4
    <2>2. \A i, j \in EnteredIn(C) : C[i].th = C[j].th => i = j
      <3> SUFFICES ASSUME NEW i \in EnteredIn(C), NEW j \in EnteredIn(C), C[i].th = C[j].th PROVE i = j
        OBVIOUS
      <3>1. ~(i < j) /\ ~(j < i) /\ i \in 1..Len(C) /\ j \in 1..Len(C)
        BY <1>4, <1>5
      <3> QED BY <3>1, <1>1
    <2> QED BY <1>3, <1>4, <2>1, <2>2 DEF Entries
  <1>7. ASSUME NEW co \in Cos, InC(C, co) PROVE \E i \in EnteredIn(C) : C[i].th = co
    <2> DEFINE T == {i \in 1..Len(C) : C[i].th = co}
    <2>1. T \in SUBSET Nat /\ T # {}
      BY <1>1, <1>7 DEF InC
    <2>2. PICK i \in T : \A j \in T : i <= j
      BY <2>1, LeastNatural
    <2>3. i \in 1..Len(C) /\ C[i].th = co
      OBVIOUS
    <2>4. i # 1
      <3>1. co # Main
        BY CallsAssumption
      <3> QED BY <1>1, <2>3, <3>1 DEF Bottom
    <2>5. i > 1 /\ i - 1 \in 1..Len(C) /\ Over(C[i-1], C[i])
      BY <1>1, <2>3, <2>4
    <2>6. C[i-1].th # co
      <3>1. i - 1 \notin T
        BY <2>1, <2>2, <2>5, <1>1
      <3> QED BY <2>5, <3>1
    <2>7. Entering(C[i])
      BY <2>3, <2>5, <2>6 DEF Over, Enters
    <2> QED BY <1>2, <2>3, <2>7
  <1>8. \A i \in EnteredIn(C) : InC(C, C[i].th)
    BY <1>1, <1>4 DEF InC
  <1> QED BY <1>3, <1>4, <1>5, <1>6, <1>7, <1>8

\* Two C stacks that agree on their entries.
LEMMA EnteredSame ==
  ASSUME NEW C, NEW D, EnteredIn(D) = EnteredIn(C),
         \A i \in EnteredIn(C) : C[i].th = D[i].th /\ (C[i].job = "close" <=> D[i].job = "close")
  PROVE  Entered(D) = Entered(C)
  <1> DEFINE f(B, i) == [th |-> B[i].th, life |-> IF B[i].job = "close" THEN "closing" ELSE "active"]
  <1>1. \A i \in EnteredIn(C) : f(C, i) = f(D, i)
    OBVIOUS
  <1>2. Entered(C) = [i \in EnteredIn(C) |-> f(C, i)] /\ Entered(D) = [i \in EnteredIn(C) |-> f(D, i)]
    BY DEF Entered
  <1> HIDE DEF f
  <1> QED BY <1>1, <1>2

\* What a C stack is cut to.
LEMMA EnteredPrefix ==
  ASSUME NEW C \in Seq(Activation), NEW n \in 0..Len(C)
  PROVE  /\ EnteredIn(SubSeq(C, 1, n)) = {i \in EnteredIn(C) : i <= n}
         /\ \A i \in 1..n : SubSeq(C, 1, n)[i] = C[i]
  <1>1. DOMAIN SubSeq(C, 1, n) = 1..n /\ \A i \in 1..n : SubSeq(C, 1, n)[i] = C[i]
    BY Prefix
  <1>2. DOMAIN C = 1..Len(C) /\ Len(C) \in Nat
    OBVIOUS
  <1>3. \A i : i \in 1..n <=> i \in 1..Len(C) /\ i <= n
    BY <1>2
  <1> QED BY <1>1, <1>2, <1>3 DEF EnteredIn

\* An activation more.
LEMMA EnteredAppend ==
  ASSUME NEW C \in Seq(Activation), NEW a \in Activation
  PROVE  /\ ~Entering(a) => Entered(Append(C, a)) = Entered(C)
         /\ Entering(a) => EnteredIn(Append(C, a)) = EnteredIn(C) \cup {Len(C) + 1}
         /\ \A i \in EnteredIn(C) : i \in 1..Len(C) /\ Append(C, a)[i] = C[i]
         /\ Append(C, a)[Len(C) + 1] = a
  <1> DEFINE D == Append(C, a)
             n == Len(C)
  <1>1. /\ n \in Nat /\ DOMAIN C = 1..n /\ DOMAIN D = 1..(n + 1) /\ D[n + 1] = a
        /\ \A i \in 1..n : D[i] = C[i]
    BY Appended
  <1> HIDE DEF D, n
  <1>2. EnteredIn(D) = IF Entering(a) THEN EnteredIn(C) \cup {n + 1} ELSE EnteredIn(C)
    <2>1. \A i : i \in 1..(n + 1) <=> i \in 1..n \/ i = n + 1
      BY <1>1
    <2> QED BY <1>1, <2>1 DEF EnteredIn
  <1>3. \A i \in EnteredIn(C) : i \in 1..n /\ D[i] = C[i]
    BY <1>1 DEF EnteredIn
  <1>4. ~Entering(a) => Entered(D) = Entered(C)
    BY <1>2, <1>3, EnteredSame
  <1> QED BY <1>1, <1>2, <1>3, <1>4 DEF D, n

\* The last entry taken off, with all that is over it.
LEMMA EnteredCut ==
  ASSUME NEW C \in Seq(Activation), Shape(C), NEW h \in 1..Len(C),
         \A j \in (h+1)..Len(C) : ~Entering(C[j])
  PROVE  /\ ~Entering(C[h]) => Entered(SubSeq(C, 1, h - 1)) = Entered(C)
         /\ Entering(C[h]) => /\ Grows(Entered(SubSeq(C, 1, h - 1)), Entered(C), h)
                              /\ Entered(C)[h].th = C[h].th /\ h \in EnteredIn(C)
                              /\ Entered(C)[h].life = IF C[h].job = "close" THEN "closing" ELSE "active"
         /\ \A i \in EnteredIn(C) : i <= h
  <1> DEFINE D == SubSeq(C, 1, h - 1)
  <1>1. Len(C) \in Nat /\ h - 1 \in 0..Len(C) /\ DOMAIN C = 1..Len(C)
    OBVIOUS
  <1>2. EnteredIn(D) = {i \in EnteredIn(C) : i <= h - 1} /\ \A i \in 1..(h-1) : D[i] = C[i]
    BY <1>1, EnteredPrefix
  <1>3. \A i \in EnteredIn(C) : i \in 1..Len(C) /\ Entering(C[i])
    BY <1>1 DEF EnteredIn
  <1>4. \A i \in EnteredIn(C) : i <= h
    <2> SUFFICES ASSUME NEW i \in EnteredIn(C), ~(i <= h) PROVE FALSE
      OBVIOUS
    <2>1. i \in (h+1)..Len(C)
      BY <1>1, <1>3
    <2> QED BY <2>1, <1>3
  <1>5. Entering(C[h]) <=> h \in EnteredIn(C)
    BY <1>1 DEF EnteredIn
  <1> HIDE DEF D
  <1>6. CASE ~Entering(C[h])
    <2>1. \A i \in EnteredIn(C) : i <= h - 1 /\ i \in 1..(h-1)
      BY <1>1, <1>3, <1>4, <1>5, <1>6
    <2>2. EnteredIn(D) = EnteredIn(C)
      BY <1>2, <2>1
    <2>3. Entered(D) = Entered(C)
      BY <1>2, <2>1, <2>2, EnteredSame
    <2> QED BY <1>4, <1>6, <2>3 DEF D
  <1>7. CASE Entering(C[h])
    <2>1. EnteredIn(C) = EnteredIn(D) \cup {h} /\ \A i \in EnteredIn(D) : i \in 1..(h-1) /\ i < h
      BY <1>1, <1>2, <1>3, <1>4, <1>5, <1>7
    <2>2. \A i \in EnteredIn(D) : Entered(C)[i] = Entered(D)[i]
      <3> SUFFICES ASSUME NEW i \in EnteredIn(D) PROVE Entered(C)[i] = Entered(D)[i]
        OBVIOUS
      <3>1. i \in EnteredIn(C) /\ D[i] = C[i]
        BY <1>2, <2>1
      <3> QED BY <3>1 DEF Entered
    <2>3. DOMAIN Entered(C) = EnteredIn(C) /\ DOMAIN Entered(D) = EnteredIn(D)
      BY DEF Entered
    <2>4. Grows(Entered(D), Entered(C), h)
      BY <2>1, <2>2, <2>3 DEF Grows
    <2>5. h \in EnteredIn(C)
      BY <1>5, <1>7
    <2>6. /\ Entered(C)[h].th = C[h].th
          /\ Entered(C)[h].life = IF C[h].job = "close" THEN "closing" ELSE "active"
      BY <2>5 DEF Entered
    <2> QED BY <1>4, <1>7, <2>4, <2>5, <2>6 DEF D
  <1> QED BY <1>6, <1>7

\* C with the activation at h, and all over it, replaced by a.
Replaced(C, h, a) == Append(SubSeq(C, 1, h - 1), a)

\* The last entry replaced by another.
LEMMA EnteredReplaced ==
  ASSUME NEW C \in Seq(Activation), Shape(C), NEW h \in 1..Len(C),
         \A j \in (h+1)..Len(C) : ~Entering(C[j]),
         NEW a \in Activation, Entering(a) <=> Entering(C[h])
  PROVE  /\ Replaced(C, h, a) \in Seq(Activation) /\ EnteredIn(Replaced(C, h, a)) = EnteredIn(C)
         /\ \A i \in EnteredIn(C) : i <= h /\ (i # h => Replaced(C, h, a)[i] = C[i])
         /\ Replaced(C, h, a)[h] = a
  <1> DEFINE B == SubSeq(C, 1, h - 1)
             D == Replaced(C, h, a)
  <1>1. Len(C) \in Nat /\ h - 1 \in 0..Len(C) /\ DOMAIN C = 1..Len(C)
    OBVIOUS
  <1>2. B \in Seq(Activation) /\ Len(B) = h - 1 /\ (h - 1) + 1 = h
    BY <1>1, Prefix
  <1>3. EnteredIn(B) = {i \in EnteredIn(C) : i <= h - 1} /\ \A i \in 1..(h-1) : B[i] = C[i]
    BY <1>1, EnteredPrefix
  <1>4. D = Append(B, a)
    BY DEF Replaced
  <1> HIDE DEF B, D
  <1>5. /\ D \in Seq(Activation) /\ D[h] = a /\ DOMAIN D = 1..h /\ \A i \in 1..(h-1) : D[i] = B[i]
    BY <1>2, <1>4, Appended
  <1>6. \A i \in EnteredIn(C) : i <= h /\ i \in 1..Len(C)
    BY EnteredCut DEF EnteredIn
  <1>7. ASSUME NEW i \in EnteredIn(C), i # h PROVE i \in 1..(h-1) /\ D[i] = C[i]
    BY <1>1, <1>3, <1>5, <1>6, <1>7
  <1>8. EnteredIn(D) = EnteredIn(C)
    <2>1. \A i : i \in 1..h <=> i \in 1..(h-1) \/ i = h
      BY <1>1
    <2>2. \A i \in 1..(h-1) : D[i] = C[i] /\ i \in 1..Len(C)
      BY <1>1, <1>3, <1>5
    <2>3. \A i \in EnteredIn(D) : i \in EnteredIn(C)
      BY <1>1, <1>5, <2>1, <2>2 DEF EnteredIn
    <2>4. \A i \in EnteredIn(C) : i \in EnteredIn(D)
      BY <1>1, <1>5, <1>7, <2>1, <2>2 DEF EnteredIn
    <2> QED BY <2>3, <2>4
  <1> QED BY <1>5, <1>6, <1>7, <1>8 DEF D

-----------------------------------------------------------------------------
(* The steps that several actions share. *)

\* The state as the statuses and the functions of the coroutines see it.
Living == Moves(Entered(cs), status, body, Entered(cs'), status', body')

\* What stays as it is, apart from the running thread, stays outside of the entries.
LEMMA OutsideRunning ==
  ASSUME NEW C \in Seq(Activation), Shape(C), NEW t, InC(C, t),
         NEW st, NEW bd, NEW st2, NEW bd2,
         \A co \in Cos : co # t => st2[co] = st[co] /\ bd2[co] = bd[co]
  PROVE  Outside(Entered(C), st, bd, st2, bd2)
  <1> SUFFICES ASSUME NEW co \in Cos, \A i \in DOMAIN Entered(C) : Entered(C)[i].th # co
               PROVE  st2[co] = st[co] /\ bd2[co] = bd[co]
    BY DEF Outside
  <1>1. \A i \in EnteredIn(C) : C[i].th # co
    BY DEF Entered
  <1>2. ~InC(C, co)
    BY <1>1, ShapeEntries
  <1> QED BY <1>2

\* A throw yields, ends or fails the coroutine of its setjmp, or stays in it.
LEMMA ThrowMoves ==
  ASSUME NEW t, NEW s, NEW C, ci \in FrameMap, Mid(C, [ci EXCEPT ![t] = s], status, cc, nny, t),
         NEW x, Throw(t, s, C, x), Entered(C) = Entered(cs),
         \A co \in Cos : co # t => body'[co] = body[co]
  PROVE  Living
  <1> DEFINE F == [ci EXCEPT ![t] = s]
             h == Handler(t, C)
             a == C[h]
             D == SubSeq(C, 1, h - 1)
             from == Last(D).th
  <1>h. h = Handler(t, C) /\ a = C[h] /\ D = SubSeq(C, 1, h - 1) /\ from = Last(D).th
    OBVIOUS
  <1>m. Mid(C, F, status, cc, nny, t)
    OBVIOUS
  <1>1. /\ t \in Threads /\ F[t] = s /\ s \in Seq(Frame) /\ C \in Seq(Activation) /\ Shape(C)
        /\ status \in Statuses /\ cc \in Counters /\ InC(C, t) /\ t = Last(C).th /\ C # <<>>
    <2>1. t \in Threads /\ F[t] \in Seq(Frame) /\ F \in FrameMap /\ C \in Seq(Activation) /\ Shape(C) /\ InC(C, t)
      BY <1>m, RunningFacts
    <2> QED BY <2>1, <1>m DEF FrameMap, Mid
  <1>2. /\ a.depth \in 0..Len(s) /\ a \in Activation /\ a.op = "raw" /\ a.th = t
        /\ Coroutined(a.job) => Entering(a)
        /\ Entering(a) => from \in Threads
        /\ ~Entering(a) => a.depth > 0
    <2>1. Under(C, F, t, a, D)
      BY <1>m, ThrowUnder
    <2> QED BY <2>1, <1>1 DEF Under
  <1>3. a.cc \in Nat /\ a.nny \in Nat /\ a.job \in {"pcall", "close", "resume", "unroll"} /\ a.depth \in Nat
    BY <1>2, ActivationFields
  <1>4. /\ h \in 1..Len(C) /\ \A j \in (h+1)..Len(C) : ~Entering(C[j])
    BY <1>1, HandlerFound DEF Entering
  <1>5. \/ /\ a.job \in {"pcall", "close"}
           /\ CloseProtected(t, a.depth, IF a.depth = 0 THEN 1 ELSE s[a.depth].base + 1,
                             D, a.cc, a.nny)
           /\ status' = status
        \/ /\ Coroutined(a.job) /\ cs' = D
           /\ \E y \in {"yield", "err"} : status' = [status EXCEPT ![t] = y]
        \/ /\ Coroutined(a.job)
           /\ cs' = Append(D, Raw(t, "unroll", 0, a.cc, a.nny))
           /\ status' = status
        \/ /\ Coroutined(a.job)
           /\ CloseThread(t, from, ci[from])
           /\ CloseProtected(t, 0, 1, D, cc[from], 0)
    BY DEF Throw
  <1>o. ASSUME \E y : status' = [status EXCEPT ![t] = y]
        PROVE  Outside(Entered(C), status, body, status', body')
    <2>1. \A co \in Cos : co # t => status'[co] = status[co] /\ body'[co] = body[co]
      BY <1>o, <1>1 DEF Statuses, Threads
    <2> QED BY <1>1, <2>1, OutsideRunning
  <1>s. status = [status EXCEPT ![t] = status[t]]
    BY <1>1 DEF Statuses
  <1> HIDE DEF F, h, a, D, from
  <1>6. CASE /\ a.job \in {"pcall", "close"}
             /\ CloseProtected(t, a.depth, IF a.depth = 0 THEN 1 ELSE s[a.depth].base + 1,
                               D, a.cc, a.nny)
             /\ status' = status
    <2> DEFINE lvl == IF a.depth = 0 THEN 1 ELSE s[a.depth].base + 1
               r == Raw(t, "close", a.depth, a.cc, a.nny)
               B == Append(D, r)
               e == FClose(t, a.depth, lvl, FALSE)
    <2>1. lvl \in Nat \ {0}
      <3>1. CASE a.depth = 0
        BY <3>1
      <3>2. CASE a.depth # 0
        <4>1. s[a.depth] \in Frame
          BY <3>2, <1>1, <1>2
        <4> QED BY <3>2, <4>1 DEF Frame
      <3> QED BY <3>1, <3>2
    <2>2. cs' = Append(B, e)
      BY <1>6 DEF CloseProtected
    <2> HIDE DEF lvl
    <2>3. r \in Activation /\ r.th = t /\ r.job = "close" /\ (Entering(r) <=> a.depth = 0)
      BY <1>1, <1>3 DEF Raw, Activation, Entering, Coroutined
    <2>4. e \in Activation /\ ~Entering(e)
      BY <1>1, <1>3, <2>1 DEF FClose, Activation, Entering
    <2>5. Entering(r) <=> Entering(a)
      BY <1>2, <1>3, <1>6, <2>3 DEF Entering, Coroutined
    <2> HIDE DEF r, e
    <2>6. /\ B \in Seq(Activation) /\ EnteredIn(B) = EnteredIn(C) /\ B[h] = r
          /\ \A i \in EnteredIn(C) : i # h => B[i] = C[i]
      <3>1. /\ r \in Activation /\ (Entering(r) <=> Entering(C[h])) /\ B = Replaced(C, h, r)
        BY <1>h, <2>3, <2>5 DEF Replaced
      <3> HIDE DEF B
      <3>2. C \in Seq(Activation) /\ Shape(C)
        BY <1>1
      <3> QED BY ONLY <1>4, <3>1, <3>2, EnteredReplaced
    <2> HIDE DEF B
    <2>7. h \in EnteredIn(C) => a.job = "close"
      BY <1>6, <1>h DEF EnteredIn, Entering, Coroutined
    <2>8. Entered(B) = Entered(C)
      <3>1. \A i \in EnteredIn(C) : C[i].th = B[i].th /\ (C[i].job = "close" <=> B[i].job = "close")
        BY <1>h, <1>2, <2>3, <2>6, <2>7
      <3> QED BY <2>6, <3>1, EnteredSame
    <2>9. Entered(cs') = Entered(C)
      BY <2>2, <2>4, <2>6, <2>8, EnteredAppend
    <2>10. Outside(Entered(C), status, body, status', body')
      BY <1>6, <1>o, <1>s
    <2> QED BY <2>9, <2>10 DEF Living, Moves
  <1>7. CASE /\ Coroutined(a.job) /\ cs' = D
             /\ \E y \in {"yield", "err"} : status' = [status EXCEPT ![t] = y]
    <2>1. /\ Grows(Entered(D), Entered(C), h) /\ Entered(C)[h].th = t /\ Entered(C)[h].life = "active"
      <3>1. a.job # "close" /\ Entering(a)
        BY <1>2, <1>7 DEF Coroutined
      <3> QED BY <3>1, <1>h, <1>1, <1>2, <1>4, EnteredCut
    <2>2. Outside(Entered(C), status, body, status', body')
      BY <1>7, <1>o
    <2>3. status'[t] \in {"yield", "err"}
      BY <1>7, <1>1 DEF Statuses
    <2>4. h \in Nat
      BY <1>1, <1>4
    <2>5. \/ Yields(Entered(C), status, body, Entered(D), status', body', h)
          \/ Ends(Entered(C), status, body, Entered(D), status', body', h)
      BY <2>1, <2>2, <2>3 DEF Yields, Ends
    <2> QED BY <1>7, <2>4, <2>5 DEF Living, Moves
  <1>8. CASE /\ Coroutined(a.job)
             /\ cs' = Append(D, Raw(t, "unroll", 0, a.cc, a.nny))
             /\ status' = status
    <2> DEFINE r == Raw(t, "unroll", 0, a.cc, a.nny)
    <2>1. r \in Activation /\ Entering(r) /\ r.th = t /\ r.job # "close"
      BY <1>1, <1>3 DEF Raw, Activation, Entering, Coroutined
    <2>2. cs' = Append(D, r) /\ Entering(a) /\ a.job # "close"
      BY <1>2, <1>8 DEF Coroutined
    <2> HIDE DEF r
    <2>3. /\ EnteredIn(cs') = EnteredIn(C) /\ cs'[h] = r
          /\ \A i \in EnteredIn(C) : i # h => cs'[i] = C[i]
      <3>1. /\ r \in Activation /\ (Entering(r) <=> Entering(C[h])) /\ cs' = Replaced(C, h, r)
        BY <1>h, <2>1, <2>2 DEF Replaced
      <3>2. C \in Seq(Activation) /\ Shape(C)
        BY <1>1
      <3> QED BY ONLY <1>4, <3>1, <3>2, EnteredReplaced
    <2>4. Entered(cs') = Entered(C)
      <3>1. \A i \in EnteredIn(C) : C[i].th = cs'[i].th /\ (C[i].job = "close" <=> cs'[i].job = "close")
        BY <1>h, <1>2, <2>1, <2>2, <2>3
      <3> QED BY <2>3, <3>1, EnteredSame
    <2>5. Outside(Entered(C), status, body, status', body')
      BY <1>8, <1>o, <1>s
    <2> QED BY <2>4, <2>5 DEF Living, Moves
  <1>9. CASE /\ Coroutined(a.job)
             /\ CloseThread(t, from, ci[from])
             /\ CloseProtected(t, 0, 1, D, cc[from], 0)
    <2> DEFINE r == Raw(t, "close", 0, cc[from], 0)
               B == Append(D, r)
               e == FClose(t, 0, 1, FALSE)
    <2>1. Entering(a) /\ a.job # "close" /\ cc[from] \in Nat
      BY <1>1, <1>2, <1>9 DEF Coroutined, Counters
    <2>2. r \in Activation /\ Entering(r) /\ r.th = t /\ r.job = "close"
      BY <1>1, <2>1 DEF Raw, Activation, Entering, Coroutined
    <2>3. e \in Activation /\ ~Entering(e)
      BY <1>1 DEF FClose, Activation, Entering
    <2>4. cs' = Append(B, e) /\ status' = [status EXCEPT ![t] = "ok"]
      BY <1>9 DEF CloseProtected, CloseThread
    <2> HIDE DEF r, e
    <2>5. /\ B \in Seq(Activation) /\ EnteredIn(B) = EnteredIn(C) /\ B[h] = r
          /\ \A i \in EnteredIn(C) : i <= h /\ (i # h => B[i] = C[i])
      <3>1. /\ r \in Activation /\ (Entering(r) <=> Entering(C[h])) /\ B = Replaced(C, h, r)
        BY <1>h, <2>1, <2>2 DEF Replaced
      <3> HIDE DEF B
      <3>2. C \in Seq(Activation) /\ Shape(C)
        BY <1>1
      <3> QED BY ONLY <1>4, <3>1, <3>2, EnteredReplaced
    <2> HIDE DEF B
    <2>6. Entered(cs') = Entered(B)
      BY <2>3, <2>4, <2>5, EnteredAppend
    <2>7. h \in EnteredIn(C) /\ h \in Nat
      BY <1>h, <1>1, <1>4, <2>1 DEF EnteredIn
    <2>8. Outside(Entered(C), status, body, status', body')
      BY <2>4, <1>o
    <2>9. \A i \in EnteredIn(C) : i # h => Entered(B)[i] = Entered(C)[i]
      BY <2>5 DEF Entered
    <2>10. /\ Entered(B)[h].th = t /\ Entered(B)[h].life = "closing"
           /\ Entered(C)[h].th = t /\ Entered(C)[h].life = "active"
      BY <1>h, <1>2, <2>1, <2>2, <2>5, <2>7 DEF Entered
    <2>11. DOMAIN Entered(B) = EnteredIn(C) /\ DOMAIN Entered(C) = EnteredIn(C)
      BY <2>5 DEF Entered
    <2>12. Fails(Entered(C), status, body, Entered(B), status', body', h)
      BY <2>5, <2>7, <2>8, <2>9, <2>10, <2>11 DEF Fails
    <2> QED BY <2>6, <2>7, <2>12 DEF Living, Moves
  <1> QED BY <1>5, <1>6, <1>7, <1>8, <1>9

\* What leaves the entries, the statuses and the functions alone is no step of a life.
LEMMA StaysLiving ==
  ASSUME Entered(cs') = Entered(cs), status' = status, body' = body
  PROVE  Living
  BY DEF Living, Moves, Outside

\* An activation more that is not an entry.
LEMMA PushesLiving ==
  ASSUME cs \in Seq(Activation), NEW a \in Activation, ~Entering(a), cs' = Append(cs, a),
         status' = status, body' = body
  PROVE  Living
  BY EnteredAppend, StaysLiving

\* ccall enters no coroutine.
LEMMA EnterMoves ==
  ASSUME NEW t, NEW s, NEW C, ci \in FrameMap, Mid(C, [ci EXCEPT ![t] = s], status, cc, nny, t),
         NEW b, NEW inc \in {0, 1}, Enter(t, s, C, b, inc), Entered(C) = Entered(cs), body' = body
  PROVE  Living
  <1>1. CASE CStackError(cc[t] + 1)
    <2>1. Throw(t, s, C, "err")
      BY <1>1 DEF Enter
    <2>2. \A co \in Cos : co # t => body'[co] = body[co]
      OBVIOUS
    <2> QED BY <2>1, <2>2, ThrowMoves
  <1>2. CASE ~CStackError(cc[t] + 1)
    <2> DEFINE F == [ci EXCEPT ![t] = s]
               a == CCall(t, Len(s) + 1, inc)
    <2>1. C \in Seq(Activation) /\ t \in Threads /\ s \in Seq(Frame)
      <3>1. t \in Threads /\ C \in Seq(Activation) /\ F[t] \in Seq(Frame)
        BY RunningFacts
      <3> QED BY <3>1 DEF FrameMap
    <2>2. a \in Activation /\ ~Entering(a)
      BY <2>1 DEF CCall, Activation, Entering
    <2>3. cs' = Append(C, a) /\ status' = status
      BY <1>2 DEF Enter
    <2> HIDE DEF a
    <2>4. Entered(cs') = Entered(cs)
      BY <2>1, <2>2, <2>3, EnteredAppend
    <2> QED BY <2>3, <2>4, StaysLiving
  <1> QED BY <1>1, <1>2

\* The last activation, if it is not an entry, is not missed.
LEMMA EnteredFront ==
  ASSUME NEW C \in Seq(Activation), Shape(C), C # <<>>, ~Entering(Last(C))
  PROVE  Entered(Front(C)) = Entered(C) /\ Front(C) \in Seq(Activation) /\ Shape(Front(C))
  <1>1. /\ Len(C) \in 1..Len(C) /\ Last(C) = C[Len(C)] /\ Front(C) = SubSeq(C, 1, Len(C) - 1)
        /\ Front(C) \in Seq(Activation) /\ Len(C) - 1 \in 0..Len(C) /\ Len(C) \in Nat
    BY Shortened
  <1>2. \A j \in (Len(C)+1)..Len(C) : ~Entering(C[j])
    BY <1>1
  <1>3. Entered(SubSeq(C, 1, Len(C) - 1)) = Entered(C)
    BY <1>1, <1>2, EnteredCut
  <1>4. Shape(SubSeq(C, 1, Len(C) - 1))
    BY <1>1, ShapePrefix
  <1> QED BY <1>1, <1>3, <1>4

\* A function that returns leaves no coroutine.
LEMMA FinishEntered ==
  ASSUME NEW C \in Seq(Activation), Shape(C), C # <<>>, NEW t, NEW s, Finish(t, s, C)
  PROVE  Entered(cs') = Entered(C)
  <1> DEFINE B == Front(C)
  <1>1. CASE cs' = C
    BY <1>1
  <1>2. CASE cs' # C
    <2>1. /\ Last(C).op # "raw"
          /\ cs' = IF Last(B).op = "raw" /\ Last(B).job = "pcall" THEN Front(B) ELSE B
      BY <1>2 DEF Finish
    <2>2. ~Entering(Last(C))
      BY <2>1 DEF Entering
    <2>3. Entered(B) = Entered(C) /\ B \in Seq(Activation) /\ Shape(B)
      BY <2>2, EnteredFront
    <2>4. B # <<>>
      <3>1. Len(C) \in 1..Len(C) /\ Last(C) = C[Len(C)] /\ Len(C) \in Nat
        BY Shortened
      <3>2. Len(C) > 1
        BY <2>1, <3>1, NotFirst
      <3> QED BY <3>2, Shortened
    <2> HIDE DEF B
    <2>5. CASE Last(B).op = "raw" /\ Last(B).job = "pcall"
      <3>1. ~Entering(Last(B))
        BY <2>5 DEF Entering, Coroutined
      <3> QED BY <2>1, <2>3, <2>4, <2>5, <3>1, EnteredFront
    <2>6. CASE ~(Last(B).op = "raw" /\ Last(B).job = "pcall")
      BY <2>1, <2>3, <2>6
    <2> QED BY <2>5, <2>6
  <1> QED BY <1>1, <1>2

\* An entry more: the coroutine is resumed, or is to be closed.
LEMMA EntersLiving ==
  ASSUME cs \in Seq(Activation), NEW a \in Activation, Entering(a),
         Entered(cs') = Entered(Append(cs, a)),
         \A co \in Cos : co # a.th => status'[co] = status[co] /\ body'[co] = body[co],
         a.job # "close" => Suspended(status, body, a.th)
  PROVE  Living
  <1> DEFINE D == Append(cs, a)
             h == Len(cs) + 1
  <1>1. /\ EnteredIn(D) = EnteredIn(cs) \cup {h} /\ D[h] = a
        /\ \A i \in EnteredIn(cs) : i \in 1..Len(cs) /\ D[i] = cs[i]
    BY EnteredAppend
  <1>2. h \in Nat /\ \A i \in 1..Len(cs) : i < h
    OBVIOUS
  <1> HIDE DEF D, h
  <1>3. /\ DOMAIN Entered(D) = EnteredIn(D) /\ DOMAIN Entered(cs) = EnteredIn(cs)
        /\ \A i \in EnteredIn(cs) : Entered(D)[i] = Entered(cs)[i]
        /\ Entered(D)[h].th = a.th
        /\ Entered(D)[h].life = "active" => a.job # "close"
    BY <1>1 DEF Entered
  <1>4. Grows(Entered(cs), Entered(D), h)
    BY <1>1, <1>2, <1>3 DEF Grows
  <1>5. Outside(Entered(D), status, body, status', body')
    <2>1. \A co \in Cos : (\A i \in DOMAIN Entered(D) : Entered(D)[i].th # co) => co # a.th
      BY <1>1, <1>3
    <2> QED BY <2>1 DEF Outside
  <1>6. Begins(Entered(cs), status, body, Entered(D), status', body', h)
    BY <1>3, <1>4, <1>5 DEF Begins
  <1>7. Entered(cs') = Entered(D)
    BY DEF D
  <1> QED BY <1>2, <1>6, <1>7 DEF Living, Moves

\* The last entry is left: its coroutine has ended.
LEMMA EndsLiving ==
  ASSUME cs \in Seq(Activation), Shape(cs), NEW h \in 1..Len(cs), Entering(cs[h]),
         \A j \in (h+1)..Len(cs) : ~Entering(cs[j]), cs' = SubSeq(cs, 1, h - 1),
         status' = status, status[cs[h].th] = "ok", ~body'[cs[h].th],
         \A co \in Cos : co # cs[h].th => body'[co] = body[co]
  PROVE  Living
  <1>1. /\ Grows(Entered(cs'), Entered(cs), h) /\ Entered(cs)[h].th = cs[h].th
    BY EnteredCut
  <1>2. InC(cs, cs[h].th) /\ h \in Nat
    BY DEF InC
  <1>3. Outside(Entered(cs), status, body, status', body')
    BY <1>2, OutsideRunning
  <1>4. Ends(Entered(cs), status, body, Entered(cs'), status', body', h)
    BY <1>1, <1>3 DEF Ends
  <1> QED BY <1>2, <1>4 DEF Living, Moves

-----------------------------------------------------------------------------
(* The actions. *)

\* The host enters no coroutine.
LEMMA StartChunkLiving ==
  ASSUME StartChunk
  PROVE  Living
  <1> DEFINE a == Raw(Main, "pcall", 1, cc[Main], nny[Main])
             b == CCall(Main, 2, 1)
  <1>1. cs = <<>> /\ cs' = <<a, b>> /\ status' = status /\ body' = body
    BY DEF StartChunk
  <1>2. ~Entering(a) /\ ~Entering(b)
    BY DEF Raw, CCall, Entering, Coroutined
  <1> HIDE DEF a, b
  <1>3. EnteredIn(cs) = {} /\ EnteredIn(cs') = {}
    <2>1. DOMAIN <<a, b>> = {1, 2} /\ <<a, b>>[1] = a /\ <<a, b>>[2] = b
      OBVIOUS
    <2>2. \A i \in DOMAIN cs' : ~Entering(cs'[i])
      BY <1>1, <1>2, <2>1
    <2>3. DOMAIN cs = {}
      BY <1>1
    <2> QED BY <2>2, <2>3 DEF EnteredIn
  <1>4. Entered(cs') = Entered(cs)
    BY <1>3, EnteredSame
  <1> QED BY <1>1, <1>4, StaysLiving

\* The running thread throws from its own frames.
LEMMA ThrowLiving ==
  ASSUME Core, cs # <<>>, NEW t, t = Last(cs).th, NEW x, Throw(t, ci[t], cs, x), body' = body
  PROVE  Living
  <1>1. Mid(cs, ci, status, cc, nny, t)
    BY SoundMid DEF Core
  <1>2. ci \in FrameMap
    BY <1>1, RunningFacts
  <1>3. [ci EXCEPT ![t] = ci[t]] = ci
    BY <1>2 DEF FrameMap
  <1>4. Mid(cs, [ci EXCEPT ![t] = ci[t]], status, cc, nny, t)
    BY <1>1, <1>3
  <1>5. \A co \in Cos : co # t => body'[co] = body[co]
    OBVIOUS
  <1> QED BY ONLY <1>2, <1>4, <1>5, Throw(t, ci[t], cs, x), ThrowMoves

\* vmkB_pcall, by a setjmp or by a mark.
LEMMA PCallLiving ==
  ASSUME Core, NEW t, PCall(t)
  PROVE  Living
  <1> DEFINE g == CFrame(NextBase(t), "pcall")
             s == WithC(t, "pcall")
             b == NextBase(t) + 1
  <1>1. /\ cs # <<>> /\ t = Last(cs).th /\ Last(cs).op # "close" /\ t \in Threads
        /\ ci \in FrameMap /\ ci[t] # <<>> /\ Last(ci[t]).fn = "vmk" /\ ci[t] \in Seq(Frame)
        /\ Runner(Last(cs)) /\ NextBase(t) \in Nat \ {0} /\ Interp(t) /\ s = WithCall(ci[t], g)
    BY InterpFacts DEF PCall
  <1>2. Sound(cs, ci, status, cc, nny)
    BY DEF Core
  <1>3. g \in Frame /\ PcOf(g) /\ ~g.fresh /\ ~g.ypcall /\ g.fn = "pcall"
    BY <1>1, CFrameFacts
  <1>4. /\ IF Yieldable(t) THEN Enter(t, [s EXCEPT ![Len(s)].ypcall = TRUE], cs, b, 0)
           ELSE Enter(t, s, Append(cs, Raw(t, "pcall", Len(s), cc[t], nny[t])), b, 1)
        /\ body' = body
    BY DEF PCall
  <1> HIDE DEF g, s, b
  <1>5. CASE Yieldable(t)
    <2> DEFINE f == [g EXCEPT !.ypcall = TRUE]
               r == [s EXCEPT ![Len(s)].ypcall = TRUE]
    <2>1. f \in Frame /\ PcOf(f) /\ ~f.fresh /\ f.fn = "pcall"
      BY <1>3 DEF Frame, PcOf
    <2>2. \A k \in DOMAIN ci[t] : ~Blocking(ci[t][k])
      <3>1. nny[t] = 0
        BY <1>5 DEF Yieldable
      <3> QED BY ONLY <3>1, <1>1, <1>2, YieldableFree
    <2>3. r = WithCall(ci[t], f)
      <3>1. Waits(ci[t]) \in Seq(Frame)
        BY <1>1, LastAt DEF Waits, Trimmed
      <3>2. s = Append(Waits(ci[t]), g)
        BY <1>1 DEF WithCall
      <3>3. r = Append(Waits(ci[t]), f)
        <4>1. f \in Frame /\ g \in Frame /\ s = Append(Waits(ci[t]), g) /\ Waits(ci[t]) \in Seq(Frame)
          BY <1>3, <2>1, <3>1, <3>2
        <4> QED BY ONLY <4>1, LastMarked DEF f, r
      <3> QED BY <3>3 DEF WithCall
    <2>4. Enter(t, r, cs, b, 0)
      BY <1>4, <1>5
    <2> HIDE DEF f, r
    <2>5. Mid(cs, [ci EXCEPT ![t] = r], status, cc, nny, t)
      <3>1. f.ypcall => f.fn = "pcall" /\ \A k \in DOMAIN ci[t] : ~Blocking(ci[t][k])
        BY <2>1, <2>2
      <3> QED BY ONLY <1>1, <1>2, <2>1, <3>1, <2>3, MidCalls
    <2>6. 0 \in {0, 1} /\ Entered(cs) = Entered(cs)
      OBVIOUS
    <2> QED BY ONLY <1>1, <1>4, <2>4, <2>5, <2>6, EnterMoves
  <1>6. CASE ~Yieldable(t)
    <2> DEFINE G == [ci EXCEPT ![t] = s]
               a == Raw(t, "pcall", Len(s), cc[t], nny[t])
               D == Append(cs, a)
    <2>1. /\ Mid(cs, G, status, cc, nny, t) /\ Last(s) = g /\ s # <<>> /\ Len(s) > Last(cs).depth
          /\ s \in Seq(Frame)
      <3>1. g.ypcall => g.fn = "pcall" /\ \A k \in DOMAIN ci[t] : ~Blocking(ci[t][k])
        BY <1>3
      <3> QED BY ONLY <1>1, <1>2, <1>3, <3>1, MidCalls
    <2>2. G[t] = s
      BY <1>1 DEF FrameMap
    <2>3. Mid(D, G, status, cc, nny, t)
      <3>1. D = Append(cs, Raw(t, "pcall", Len(G[t]), cc[t], nny[t]))
        BY <2>2
      <3>2. /\ Runner(Last(cs)) /\ Len(G[t]) > Last(cs).depth
            /\ G[t] # <<>> /\ Last(G[t]).fn = "pcall" /\ ~Last(G[t]).ypcall
        BY <1>1, <1>3, <2>1, <2>2
      <3> HIDE DEF D, G
      <3> QED BY ONLY <2>1, <3>1, <3>2, MidPcall
    <2>4. Entered(D) = Entered(cs)
      <3>1. cs \in Seq(Activation) /\ Len(s) \in Nat /\ cc[t] \in Nat /\ nny[t] \in Nat
        BY <1>1, <2>1 DEF Core, TypeOK
      <3>2. a \in Activation /\ ~Entering(a)
        BY <3>1, <1>1 DEF Raw, Activation, Entering, Coroutined
      <3> HIDE DEF a
      <3> QED BY <3>1, <3>2, EnteredAppend
    <2>5. Enter(t, s, D, b, 1) /\ 1 \in {0, 1}
      BY <1>4, <1>6
    <2> HIDE DEF D
    <2> QED BY ONLY <1>1, <1>4, <2>3, <2>4, <2>5, EnterMoves
  <1> QED BY <1>5, <1>6

\* The running function calls, raises an error, or yields.
LEMMA RunsLiving ==
  ASSUME Core, NEW t,
         \/ CallVmk(t) \/ Error(t) \/ Yield(t)
         \/ \E v : NewTbc(t, v)
         \/ \E vs : CallC(t, vs)
  PROVE  Living
  <1>1. Interp(t)
    BY DEF CallVmk, Error, Yield, NewTbc, CallC
  <1>2. cs # <<>> /\ t = Last(cs).th
    BY <1>1, InterpFacts
  <1>3. CASE CallVmk(t)
    BY <1>3, StaysLiving DEF CallVmk
  <1>4. CASE \E v : NewTbc(t, v)
    BY <1>4, StaysLiving DEF NewTbc
  <1>5. CASE Error(t)
    <2>1. Throw(t, ci[t], cs, "err") /\ body' = body
      BY <1>5 DEF Error
    <2> QED BY <1>2, <2>1, ThrowLiving
  <1>6. CASE Yield(t)
    <2> DEFINE s == WithC(t, "yield")
               x == IF Yieldable(t) THEN "yield" ELSE "err"
    <2>1. Throw(t, s, cs, x) /\ body' = body
      BY <1>6 DEF Yield
    <2>2. ci \in FrameMap /\ Mid(cs, [ci EXCEPT ![t] = s], status, cc, nny, t)
      BY <1>1, PlainWithC
    <2> HIDE DEF s, x
    <2>3. Entered(cs) = Entered(cs) /\ \A co \in Cos : co # t => body'[co] = body[co]
      BY <2>1
    <2> QED BY ONLY <2>1, <2>2, <2>3, ThrowMoves
  <1>7. CASE \E vs : CallC(t, vs)
    <2>1. PICK vs : CallC(t, vs)
      BY <1>7
    <2> DEFINE s == WithC(t, "call")
               b == NextBase(t) + Len(vs) + 1
    <2>2. Enter(t, s, cs, b, 1) /\ 1 \in {0, 1} /\ body' = body
      BY <2>1 DEF CallC
    <2>3. ci \in FrameMap /\ Mid(cs, [ci EXCEPT ![t] = s], status, cc, nny, t)
      BY <1>1, PlainWithC
    <2> HIDE DEF s, b
    <2>4. Entered(cs) = Entered(cs)
      OBVIOUS
    <2> QED BY ONLY <2>2, <2>3, <2>4, EnterMoves
  <1> QED BY <1>3, <1>4, <1>5, <1>6, <1>7

\* A vmkF_close is on top of the C stack.
LEMMA ClosesLiving ==
  ASSUME Core, NEW t \in Threads, NEW d \in Nat, NEW lvl \in Nat \ {0},
         cs' = Append(cs, FClose(t, d, lvl, TRUE)), status' = status, body' = body
  PROVE  Living
  <1> DEFINE e == FClose(t, d, lvl, TRUE)
  <1>1. e \in Activation /\ ~Entering(e) /\ cs' = Append(cs, e)
    BY DEF FClose, Activation, Entering
  <1> HIDE DEF e
  <1>2. cs \in Seq(Activation)
    BY DEF Core, TypeOK
  <1> QED BY <1>1, <1>2, PushesLiving

\* Blocks and functions end.
LEMMA BlocksLiving ==
  ASSUME Core, NEW t, CloseBlock(t) \/ Return(t)
  PROVE  Living
  <1>1. /\ Interp(t) /\ t \in Threads /\ ci[t] \in Seq(Frame) /\ ci[t] # <<>> /\ cs # <<>>
        /\ status' = status /\ body' = body
    BY InterpFacts DEF CloseBlock, Return
  <1>2. Len(ci[t]) \in Nat /\ Cur(t).base \in Nat \ {0}
    BY <1>1, Shortened, FrameFields DEF Cur
  <1>3. cs \in Seq(Activation) /\ Shape(cs)
    BY DEF Core, Sound, Good
  <1>4. CASE cs' = Append(cs, FClose(t, Len(ci[t]), Cur(t).base, TRUE))
    BY <1>1, <1>2, <1>4, ClosesLiving
  <1>5. CASE Finish(t, ci[t], cs)
    <2>1. Entered(cs') = Entered(cs)
      BY <1>1, <1>3, <1>5, FinishEntered
    <2> QED BY <1>1, <2>1, StaysLiving
  <1> QED BY <1>4, <1>5 DEF CloseBlock, Return

\* A coroutine goes on with a frame that was interrupted, or its C function returns.
LEMMA GoesOnLiving ==
  ASSUME Core, cs # <<>>, NEW t, t = Last(cs).th, Unroll(t) \/ ReturnFromC(t) \/ Raise(t)
  PROVE  Living
  <1>1. Last(cs).op # "close" /\ ~Base(t) /\ body' = body
    BY DEF Unroll, ReturnFromC, Raise, Top
  <1>2. /\ t \in Threads /\ ci[t] \in Seq(Frame) /\ Last(ci[t]).base \in Nat \ {0}
    BY <1>1, RunsFacts
  <1>3. /\ Len(ci[t]) \in Nat /\ Cur(t).base \in Nat \ {0} /\ Cur(t).base + 1 \in Nat \ {0}
    BY <1>2 DEF Cur
  <1>4. CASE Raise(t)
    <2>1. Throw(t, ci[t], cs, "err")
      BY <1>4 DEF Raise
    <2> QED BY <1>1, <2>1, ThrowLiving
  <1>5. CASE /\ status' = status
             /\ \/ cs' = cs
                \/ cs' = Append(cs, FClose(t, Len(ci[t]), Cur(t).base, TRUE))
                \/ cs' = Append(cs, FClose(t, Len(ci[t]), Cur(t).base + 1, TRUE))
    <2>1. CASE cs' = cs
      BY <1>1, <1>5, <2>1, StaysLiving
    <2>2. CASE cs' # cs
      BY <1>1, <1>2, <1>3, <1>5, <2>2, ClosesLiving
    <2> QED BY <2>1, <2>2
  <1>6. Unroll(t) \/ ReturnFromC(t) => \/ cs' = cs
                \/ cs' = Append(cs, FClose(t, Len(ci[t]), Cur(t).base, TRUE))
                \/ cs' = Append(cs, FClose(t, Len(ci[t]), Cur(t).base + 1, TRUE))
    BY DEF Unroll, ReturnFromC
  <1>7. Unroll(t) \/ ReturnFromC(t) => status' = status
    BY DEF Unroll, ReturnFromC
  <1> QED BY <1>4, <1>5, <1>6, <1>7

\* A new coroutine calls its function, or has no room for it.
LEMMA StartLiving ==
  ASSUME Core, cs # <<>>, NEW co, Start(co)
  PROVE  Living
  <1>1. Last(cs).th = co /\ ci[co] = <<>> /\ body' = [body EXCEPT ![co] = FALSE]
    BY DEF Start, Top, Raw, Base
  <1>2. Mid(cs, ci, status, cc, nny, co)
    BY <1>1, SoundMid DEF Core
  <1>3. ci \in FrameMap /\ cs \in Seq(Activation) /\ Shape(cs) /\ InC(cs, co) /\ co \in Threads
    BY <1>2, RunningFacts
  <1>4. \A u \in Cos : u # co => body'[u] = body[u]
    BY <1>1 DEF Core, TypeOK, Threads
  <1>5. CASE CStackError(cc[co])
    <2>1. Throw(co, <<>>, cs, "err")
      BY <1>5 DEF Start
    <2>2. [ci EXCEPT ![co] = <<>>] = ci
      BY <1>1, <1>3 DEF FrameMap
    <2>3. Mid(cs, [ci EXCEPT ![co] = <<>>], status, cc, nny, co) /\ Entered(cs) = Entered(cs)
      BY <1>2, <2>2
    <2> QED BY ONLY <1>3, <1>4, <2>1, <2>3, ThrowMoves
  <1>6. CASE ~CStackError(cc[co])
    <2>1. cs' = cs /\ status' = status
      BY <1>6 DEF Start
    <2>2. \A u \in Cos : u # co => status'[u] = status[u] /\ body'[u] = body[u]
      BY <1>4, <2>1
    <2>3. Outside(Entered(cs), status, body, status', body')
      BY <1>3, <2>2, OutsideRunning
    <2> QED BY <2>1, <2>3 DEF Living, Moves
  <1> QED BY <1>5, <1>6

\* vmk_resume returns: the coroutine has ended.
LEMMA ResumeReturnsLiving ==
  ASSUME Core, cs # <<>>, NEW t, ResumeReturns(t)
  PROVE  Living
  <1> DEFINE n == Len(cs)
  <1>1. cs \in Seq(Activation) /\ Shape(cs)
    BY DEF Core, Sound, Good
  <1>2. /\ n \in 1..Len(cs) /\ Last(cs) = cs[n] /\ Front(cs) = SubSeq(cs, 1, n - 1)
        /\ \A j \in (n+1)..Len(cs) : ~Entering(cs[j])
    BY <1>1, Shortened
  <1>3. /\ t = Last(cs).th /\ cs[n].th = t /\ Entering(cs[n]) /\ cs' = SubSeq(cs, 1, n - 1)
        /\ status' = status /\ body' = body /\ ~body[t]
    BY <1>2 DEF ResumeReturns, Top, Entering
  <1>4. Mid(cs, ci, status, cc, nny, t)
    BY <1>3, SoundMid DEF Core
  <1>5. status[t] = "ok"
    BY <1>4, RunningFacts
  <1>6. status[cs[n].th] = "ok" /\ ~body'[cs[n].th] /\ \A co \in Cos : co # cs[n].th => body'[co] = body[co]
    BY <1>3, <1>5
  <1> HIDE DEF n
  <1> QED BY ONLY <1>1, <1>2, <1>3, <1>6, EndsLiving

\* vmkF_close calls the next method.
LEMMA CallCloseLiving ==
  ASSUME Core, cs # <<>>, NEW t, CallClose(t)
  PROVE  Living
  <1> DEFINE b == Last(tbclist[t]).at + 1
             s == ci[t]
             inc == CloseInc
  <1>1. t = Last(cs).th /\ Enter(t, s, cs, b, inc) /\ inc \in {0, 1} /\ body' = body
    BY DEF CallClose, Top, CloseInc
  <1>2. Mid(cs, ci, status, cc, nny, t)
    BY <1>1, SoundMid DEF Core
  <1>3. ci \in FrameMap
    BY <1>2, RunningFacts
  <1>4. [ci EXCEPT ![t] = s] = ci
    BY <1>3 DEF FrameMap
  <1>5. Mid(cs, [ci EXCEPT ![t] = s], status, cc, nny, t) /\ Entered(cs) = Entered(cs)
    BY <1>2, <1>4
  <1> HIDE DEF b, s, inc
  <1> QED BY ONLY <1>1, <1>3, <1>5, EnterMoves

\* vmkF_close is done, and its caller goes on, or the coroutine has ended.
LEMMA CloseReturnsLiving ==
  ASSUME Core, cs # <<>>, NEW t, CloseReturns(t)
  PROVE  Living
  <1> DEFINE C == Front(cs)
             a == Last(C)
             n == Len(cs) - 1
  <1>1. t = Last(cs).th /\ Last(cs).op = "close" /\ ~Entering(Last(cs)) /\ status' = status
    BY DEF CloseReturns, Top, Entering
  <1>2. cs \in Seq(Activation) /\ Shape(cs) /\ Sound(cs, ci, status, cc, nny)
    BY DEF Core, Sound, Good
  <1>3. Len(cs) \in Nat \ {0} /\ Last(cs) = cs[Len(cs)] /\ DOMAIN cs = 1..Len(cs)
    BY <1>2, Shortened
  <1>4. Len(cs) > 1 /\ n \in 1..Len(cs)
    <2>1. cs[Len(cs)].op # "raw" /\ Len(cs) \in 1..Len(cs)
      BY <1>1, <1>3
    <2> QED BY <1>2, <2>1, NotFirst
  <1>5. /\ C = SubSeq(cs, 1, n) /\ a = cs[n] /\ C # <<>> /\ C \in Seq(Activation) /\ Len(C) = n
        /\ Shape(C) /\ Entered(C) = Entered(cs)
    <2>1. C = SubSeq(cs, 1, n) /\ a = cs[n] /\ C # <<>> /\ C \in Seq(Activation) /\ Len(C) = n
      BY <1>2, <1>4, Shortened
    <2>2. Shape(C) /\ Entered(C) = Entered(cs)
      BY <1>1, <1>2, EnteredFront
    <2> QED BY <2>1, <2>2
  <1>6. CASE a.op = "raw" /\ a.job = "close"
    <2>1. cs' = Front(C) /\ IF a.depth > 0 THEN body' = body ELSE body' = [body EXCEPT ![t] = FALSE]
      BY <1>6 DEF CloseReturns
    <2>2. a.th = t /\ t \in Threads /\ status[t] = "ok" /\ a.depth \in Nat
      <3>1. a = cs[Len(cs) - 1]
        BY <1>5
      <3> HIDE DEF a
      <3> QED BY ONLY cs # <<>>, <1>1, <1>2, <1>6, <3>1, ProtectsClose
    <2> HIDE DEF C, a
    <2>3. CASE a.depth > 0
      <3>1. ~Entering(a)
        BY <1>6, <2>2, <2>3 DEF Entering, Coroutined
      <3>2. Entered(Front(C)) = Entered(C)
        BY <1>5, <3>1, EnteredFront DEF a
      <3> QED BY <1>1, <1>5, <2>1, <2>3, <3>2, StaysLiving
    <2>4. CASE ~(a.depth > 0)
      <3>1. Entering(cs[n]) /\ cs[n].th = t
        BY <1>5, <1>6, <2>2, <2>4 DEF Entering
      <3>2. \A j \in (n+1)..Len(cs) : ~Entering(cs[j])
        <4>1. Len(cs) \in Nat /\ n + 1 = Len(cs) /\ n \in Nat
          BY <1>3, <1>4
        <4> HIDE DEF n
        <4>2. \A j \in (n+1)..Len(cs) : j = Len(cs)
          BY <4>1
        <4> QED BY <4>2, <1>1, <1>3
      <3>3. cs' = SubSeq(cs, 1, n - 1)
        <4>1. Front(C) = SubSeq(C, 1, n - 1)
          BY <1>5, Shortened
        <4>2. SubSeq(SubSeq(cs, 1, n), 1, n - 1) = SubSeq(cs, 1, n - 1)
          BY <1>2, <1>4
        <4> QED BY <2>1, <4>1, <4>2, <1>5
      <3>4. ~body'[t] /\ \A co \in Cos : co # t => body'[co] = body[co]
        BY <2>1, <2>2, <2>4 DEF Core, TypeOK, Threads
      <3>5. status[cs[n].th] = "ok" /\ ~body'[cs[n].th] /\ \A co \in Cos : co # cs[n].th => body'[co] = body[co]
        BY <2>2, <3>1, <3>4
      <3> HIDE DEF n
      <3> QED BY ONLY <1>1, <1>2, <1>4, <3>1, <3>2, <3>3, <3>5, EndsLiving
    <2> QED BY <2>3, <2>4
  <1>7. CASE ~(a.op = "raw" /\ a.job = "close")
    <2>1. body' = body /\ (cs' = C \/ Finish(t, ci[t], C))
      BY <1>7 DEF CloseReturns
    <2> HIDE DEF C, a, n
    <2>2. Entered(cs') = Entered(C)
      BY <1>5, <2>1, FinishEntered
    <2> QED BY <1>1, <1>5, <2>1, <2>2, StaysLiving
  <1> QED BY <1>6, <1>7

\* vmk_resume of a suspended coroutine.
LEMMA ResumeLiving ==
  ASSUME Core, NEW t, NEW co \in Threads, NEW f \in {"resume", "wrap"}, Resume(t, co, f)
  PROVE  Living
  <1> DEFINE a == Raw(co, "resume", 0, ResumeCount(t), 0)
  <1>1. /\ Interp(t) /\ ~NotResumable(co) /\ cs' = Append(cs, a) /\ status' = [status EXCEPT ![co] = "ok"]
        /\ body' = body
    BY DEF Resume
  <1>2. t \in Threads /\ cs \in Seq(Activation)
    <2>1. t \in Threads
      BY <1>1, InterpFacts
    <2> QED BY <2>1 DEF Core, TypeOK
  <1>3. a \in Activation /\ Entering(a) /\ a.th = co
    <2>1. ResumeCount(t) \in Nat
      BY <1>2 DEF Core, TypeOK, ResumeCount
    <2> QED BY <2>1 DEF Raw, Activation, Entering, Coroutined
  <1> HIDE DEF a
  <1>4. Suspended(status, body, co)
    <2>1. status[co] \in {"ok", "yield", "err"}
      BY DEF Core, TypeOK
    <2> QED BY <1>1, <2>1 DEF NotResumable, Suspended
  <1>5. \A u \in Cos : u # a.th => status'[u] = status[u] /\ body'[u] = body[u]
    BY <1>1, <1>3 DEF Core, TypeOK, Threads
  <1>6. Entered(cs') = Entered(Append(cs, a)) /\ (a.job # "close" => Suspended(status, body, a.th))
    BY <1>1, <1>3, <1>4
  <1> QED BY ONLY <1>2, <1>3, <1>5, <1>6, EntersLiving

\* A coroutine out of the C stack is to be closed.
LEMMA ClosesCoLiving ==
  ASSUME Core, NEW t \in Threads, NEW co \in Threads,
         status' = [status EXCEPT ![co] = "ok"], body' = body, CloseProtected(co, 0, 1, cs, cc[t], 0)
  PROVE  Living
  <1> DEFINE a == Raw(co, "close", 0, cc[t], 0)
             e == FClose(co, 0, 1, FALSE)
  <1>1. cs \in Seq(Activation) /\ cc[t] \in Nat
    BY DEF Core, TypeOK
  <1>2. a \in Activation /\ Entering(a) /\ a.th = co /\ a.job = "close"
    BY <1>1 DEF Raw, Activation, Entering
  <1>3. e \in Activation /\ ~Entering(e)
    BY DEF FClose, Activation, Entering
  <1>4. cs' = Append(Append(cs, a), e)
    BY DEF CloseProtected
  <1> HIDE DEF a, e
  <1>5. Append(cs, a) \in Seq(Activation)
    BY <1>1, <1>2
  <1>6. Entered(cs') = Entered(Append(cs, a))
    BY <1>3, <1>4, <1>5, EnteredAppend
  <1>7. \A u \in Cos : u # a.th => status'[u] = status[u] /\ body'[u] = body[u]
    BY <1>2 DEF Core, TypeOK, Threads
  <1>8. a.job # "close" => Suspended(status, body, a.th)
    BY <1>2
  <1> QED BY ONLY <1>1, <1>2, <1>6, <1>7, <1>8, EntersLiving

\* vmkB_close, and vmkB_auxwrap of a coroutine that cannot be resumed.
LEMMA CloseCoLiving ==
  ASSUME Core, NEW t, NEW co \in Threads, CloseCo(t, co) \/ WrapRefused(t, co)
  PROVE  Living
  <1>1. Interp(t) /\ body' = body
    BY DEF CloseCo, WrapRefused
  <1>2. cs # <<>> /\ t = Last(cs).th /\ t \in Threads
    BY <1>1, InterpFacts
  <1>3. CASE CloseCo(t, co)
    <2>1. status' = [status EXCEPT ![co] = "ok"] /\ CloseProtected(co, 0, 1, cs, cc[t], 0)
      BY <1>3 DEF CloseCo, CloseThread
    <2> QED BY <1>1, <1>2, <2>1, ClosesCoLiving
  <1>4. CASE WrapRefused(t, co) /\ status[co] = "err"
    <2>1. status' = [status EXCEPT ![co] = "ok"] /\ CloseProtected(co, 0, 1, cs, cc[t], 0)
      BY <1>4 DEF WrapRefused, CloseThread
    <2> QED BY <1>1, <1>2, <2>1, ClosesCoLiving
  <1>5. CASE WrapRefused(t, co) /\ status[co] # "err"
    <2>1. Throw(t, ci[t], cs, "err")
      BY <1>5 DEF WrapRefused
    <2> QED BY <1>1, <1>2, <2>1, ThrowLiving
  <1> QED BY <1>3, <1>4, <1>5

\* Every step is a step of a life, or of none.
LEMMA LivingNext == Core /\ [Next]_vars => Living
  <1> SUFFICES ASSUME Core, [Next]_vars PROVE Living
    OBVIOUS
  <1> DEFINE t == Running
  <1>1. cs # <<>> => t = Last(cs).th
    BY DEF Running, Top
  <1> HIDE DEF t
  <1>2. CASE UNCHANGED vars
    BY <1>2, StaysLiving DEF vars
  <1>3. CASE StartChunk
    BY <1>3, StartChunkLiving
  <1>4. CASE Next /\ cs # <<>> /\ ~StartChunk
    <2>1. CASE PCall(t)
      BY <2>1, PCallLiving
    <2>2. CASE \/ CallVmk(t) \/ Error(t) \/ Yield(t)
               \/ \E v \in Free : NewTbc(t, v)
               \/ \E vs \in {<<>>} \cup {<<v>> : v \in Free} : CallC(t, vs)
      <3>1. \/ CallVmk(t) \/ Error(t) \/ Yield(t)
            \/ \E v : NewTbc(t, v)
            \/ \E vs : CallC(t, vs)
        BY <2>2
      <3> QED BY <3>1, RunsLiving
    <2>3. CASE CloseBlock(t) \/ Return(t)
      BY <2>3, BlocksLiving
    <2>4. CASE Start(t)
      BY <1>4, <2>4, StartLiving
    <2>5. CASE Unroll(t) \/ ReturnFromC(t) \/ Raise(t)
      BY <1>1, <1>4, <2>5, GoesOnLiving
    <2>6. CASE ResumeReturns(t)
      BY <1>4, <2>6, ResumeReturnsLiving
    <2>7. CASE CallClose(t)
      BY <1>4, <2>7, CallCloseLiving
    <2>8. CASE CloseReturns(t)
      BY <1>4, <2>8, CloseReturnsLiving
    <2>9. CASE \E co \in Threads : WrapRefused(t, co) \/ CloseCo(t, co)
      BY <2>9, CloseCoLiving
    <2>10. CASE \E co \in Threads : \E f \in {"resume", "wrap"} : Resume(t, co, f)
      BY <2>10, ResumeLiving
    <2> QED BY <1>4, <2>1, <2>2, <2>3, <2>4, <2>5, <2>6, <2>7, <2>8, <2>9, <2>10 DEF Next, t
  <1> QED BY <1>2, <1>3, <1>4 DEF Next

-----------------------------------------------------------------------------
(* The refinement. *)

\* The chain and the lives of a state, in the words of Calls.
ChainIn(C) == [n \in 1..(Cardinality(EnteredIn(C)) + 1) |->
                 IF n = 1 THEN Main ELSE C[Nth(EnteredIn(C), n - 1)].th]
LivesOf(C, F, st, bd) ==
    [co \in Cos |->
       IF \E i \in EnteredIn(C) : C[i].th = co /\ C[i].job = "close" THEN "closing"
       ELSE IF \E i \in EnteredIn(C) : C[i].th = co THEN "active"
       ELSE IF st[co] = "yield" \/ (st[co] = "ok" /\ F[co] = <<>> /\ bd[co]) THEN "suspended"
       ELSE IF st[co] = "err" \/ F[co] = <<>> THEN "dead" ELSE "normal"]

\* They are those of what the threads were entered with.
LEMMA LivesAre ==
  ASSUME NEW C \in Seq(Activation), Shape(C), NEW F, NEW st \in Statuses, ThreadsFit(C, F, st), NEW bd
  PROVE  ChainOf(Entered(C)) = ChainIn(C) /\ LivesIn(Entered(C), st, bd) = LivesOf(C, F, st, bd)
  <1> DEFINE E == Entered(C)
             S == EnteredIn(C)
  <1>1. /\ DOMAIN E = S
        /\ \A i \in S : /\ E[i].th = C[i].th
                        /\ E[i].life = "closing" <=> C[i].job = "close"
    BY DEF Entered
  <1>2. S \in SUBSET (1..Len(C)) /\ Len(C) \in Nat
    BY DEF EnteredIn
  <1>3. Cardinality(S) \in Nat /\ \A m \in 1..Cardinality(S) : Nth(S, m) \in S
    BY <1>2, IndexSet, NthFound
  <1>4. ChainOf(E) = ChainIn(C)
    <2> DEFINE f(m) == IF m = 1 THEN Main ELSE E[Nth(S, m - 1)].th
               g(m) == IF m = 1 THEN Main ELSE C[Nth(S, m - 1)].th
               I == 1..(Cardinality(S) + 1)
    <2>1. ChainOf(E) = [m \in I |-> f(m)] /\ ChainIn(C) = [m \in I |-> g(m)]
      BY <1>1 DEF ChainOf, ChainIn
    <2>2. ASSUME NEW m \in I PROVE f(m) = g(m)
      <3>1. m # 1 => m - 1 \in 1..Cardinality(S)
        BY <1>3
      <3> QED BY <3>1, <1>1, <1>3
    <2> HIDE DEF f, g, I
    <2> QED BY <2>1, <2>2
  <1>5. ASSUME NEW co \in Cos PROVE LifeIn(E, st, bd, co) = LivesOf(C, F, st, bd)[co]
    <2>1. st[co] \in {"ok", "yield", "err"} /\ co \in Threads
      BY DEF Statuses, Threads
    <2>2. ThreadFits(InC(C, co), co = RunningIn(C), F[co], st[co])
      BY <2>1 DEF ThreadsFit
    <2>3. InC(C, co) <=> \E i \in S : C[i].th = co
      BY ShapeEntries
    <2>4. (\A i \in S : C[i].th # co) /\ st[co] = "ok" => F[co] = <<>>
      BY <2>2, <2>3 DEF ThreadFits
    <2>5. /\ (\E i \in DOMAIN E : E[i].th = co /\ E[i].life = "closing")
               <=> \E i \in S : C[i].th = co /\ C[i].job = "close"
          /\ (\E i \in DOMAIN E : E[i].th = co) <=> \E i \in S : C[i].th = co
      BY <1>1
    <2> HIDE DEF E, S
    <2>6. LivesOf(C, F, st, bd)[co] =
            IF \E i \in S : C[i].th = co /\ C[i].job = "close" THEN "closing"
            ELSE IF \E i \in S : C[i].th = co THEN "active"
            ELSE IF st[co] = "yield" \/ (st[co] = "ok" /\ F[co] = <<>> /\ bd[co]) THEN "suspended"
            ELSE IF st[co] = "err" \/ F[co] = <<>> THEN "dead" ELSE "normal"
      BY DEF LivesOf, S
    <2> QED BY <2>1, <2>4, <2>5, <2>6 DEF LifeIn, Suspended
  <1>6. LivesIn(E, st, bd) = LivesOf(C, F, st, bd)
    <2>1. LivesIn(E, st, bd) = [co \in Cos |-> LivesOf(C, F, st, bd)[co]]
      BY <1>5 DEF LivesIn
    <2>2. LivesOf(C, F, st, bd) = [co \in Cos |-> LivesOf(C, F, st, bd)[co]]
      BY DEF LivesOf
    <2> QED BY <2>1, <2>2
  <1> QED BY <1>4, <1>6

\* The chain and the lives that Calls shows in a sound state.
LEMMA LifeNow ==
  ASSUME Core
  PROVE  /\ Entries(Entered(cs)) /\ ActiveChain = ChainOf(Entered(cs))
         /\ [co \in Cos |-> LifeOf(co)] = LivesIn(Entered(cs), status, body)
  <1>1. cs \in Seq(Activation) /\ Shape(cs) /\ status \in Statuses /\ ThreadsFit(cs, ci, status)
    BY DEF Core, Sound, Good
  <1>2. ActiveChain = ChainIn(cs) /\ [co \in Cos |-> LifeOf(co)] = LivesOf(cs, ci, status, body)
    BY DEF ActiveChain, ChainIn, NthEntered, Nth, Rank, EnteredAt, EnteredIn, LifeOf, LivesOf, Base
  <1> QED BY <1>1, <1>2, LivesAre, ShapeEntries

\* The same, a step later.
LEMMA LifeThen ==
  ASSUME Core'
  PROVE  /\ Entries(Entered(cs')) /\ ActiveChain' = ChainOf(Entered(cs'))
         /\ [co \in Cos |-> LifeOf(co)'] = LivesIn(Entered(cs'), status', body')
  <1>1. cs' \in Seq(Activation) /\ Shape(cs') /\ status' \in Statuses /\ ThreadsFit(cs', ci', status')
    BY DEF Core, Sound, Good
  <1>2. ActiveChain' = ChainIn(cs') /\ [co \in Cos |-> LifeOf(co)'] = LivesOf(cs', ci', status', body')
    BY DEF ActiveChain, ChainIn, NthEntered, Nth, Rank, EnteredAt, EnteredIn, LifeOf, LivesOf, Base
  <1> QED BY <1>1, <1>2, LivesAre, ShapeEntries

\* At first every coroutine is suspended.
LEMMA LifeInit == Init => Life!Init
  <1> SUFFICES ASSUME Init PROVE Life!Init
    OBVIOUS
  <1>1. Core
    BY CoreInit
  <1>2. EnteredIn(cs) = {}
    BY DEF Init, EnteredIn
  <1>3. ActiveChain = <<Main>>
    <2>1. EnteredAt = {}
      BY <1>2 DEF EnteredAt, EnteredIn
    <2>2. Cardinality(EnteredAt) = 0
      BY <2>1, FS_EmptySet
    <2>3. ActiveChain \in Seq(Threads) /\ Len(ActiveChain) = 1 /\ ActiveChain[1] = Main
      <3>1. Entries(Entered(cs)) /\ ActiveChain = ChainOf(Entered(cs))
        BY <1>1, LifeNow
      <3>2. Cardinality(DOMAIN Entered(cs)) = 0
        BY <1>2, FS_EmptySet DEF Entered
      <3>3. /\ ChainOf(Entered(cs)) \in Seq(Threads) /\ ChainOf(Entered(cs))[1] = Main
            /\ Len(ChainOf(Entered(cs))) = Cardinality(DOMAIN Entered(cs)) + 1
        BY <3>1, ChainAt
      <3> QED BY <3>1, <3>2, <3>3
    <2> QED BY <2>3
  <1>4. \A co \in Cos : LifeOf(co) = "suspended"
    <2>1. EnteredAt = {}
      BY <1>2 DEF EnteredAt, EnteredIn
    <2>2. \A co \in Cos : status[co] = "ok" /\ ci[co] = <<>> /\ body[co]
      BY DEF Init, Threads
    <2> QED BY <2>1, <2>2 DEF LifeOf, Base
  <1>5. [co \in Cos |-> LifeOf(co)] = [co \in Cos |-> "suspended"]
    BY <1>4
  <1> QED BY <1>3, <1>5 DEF Life!Init

\* Each step is one that lcorolib.c promises.
LEMMA LifeNext == Core /\ Core' /\ [Next]_vars => [Life!Next]_(Life!vars)
  <1> SUFFICES ASSUME Core, Core', [Next]_vars PROVE [Life!Next]_(Life!vars)
    OBVIOUS
  <1> DEFINE a == ActiveChain
             l == [co \in Cos |-> LifeOf(co)]
             a2 == ActiveChain'
             l2 == [co \in Cos |-> LifeOf(co)']
  <1>1. Lives(a, l, a2, l2)
    <2>1. Living
      BY LivingNext
    <2>2. Entries(Entered(cs)) /\ a = ChainOf(Entered(cs)) /\ l = LivesIn(Entered(cs), status, body)
      BY LifeNow
    <2>3. Entries(Entered(cs')) /\ a2 = ChainOf(Entered(cs')) /\ l2 = LivesIn(Entered(cs'), status', body')
      BY LifeThen
    <2> HIDE DEF a, l, a2, l2
    <2> QED BY <2>1, <2>2, <2>3, MovesLive DEF Living
  <1>2. CASE a2 = a /\ l2 = l
    BY <1>2 DEF Life!vars
  <1>3. ASSUME NEW co \in Cos, a2 = Append(a, co), l[co] = "suspended", l2 = [l EXCEPT ![co] = "active"]
        PROVE  Life!Next
    <2>1. Life!Resume(co)
      BY <1>3 DEF Life!Resume
    <2> QED BY <2>1 DEF Life!Next
  <1>4. ASSUME NEW co \in Cos, a2 = Append(a, co), l[co] \in {"suspended", "dead"},
               l2 = [l EXCEPT ![co] = "closing"]
        PROVE  Life!Next
    <2>1. Life!Close(co)
      BY <1>4 DEF Life!Close
    <2> QED BY <2>1 DEF Life!Next
  <1>5. CASE /\ Len(a) > 1 /\ a2 = SubSeq(a, 1, Len(a) - 1)
             /\ l[a[Len(a)]] = "active" /\ l2 = [l EXCEPT ![a[Len(a)]] = "suspended"]
    <2>1. Life!Yield
      BY <1>5 DEF Life!Yield, Life!Running, Life!Resumer
    <2> QED BY <2>1 DEF Life!Next
  <1>6. CASE /\ Len(a) > 1 /\ a2 = SubSeq(a, 1, Len(a) - 1)
             /\ l2 = [l EXCEPT ![a[Len(a)]] = "dead"]
    <2>1. Life!End
      BY <1>6 DEF Life!End, Life!Running, Life!Resumer
    <2> QED BY <2>1 DEF Life!Next
  <1>7. CASE /\ Len(a) > 1 /\ l[a[Len(a)]] = "active"
             /\ a2 = a /\ l2 = [l EXCEPT ![a[Len(a)]] = "closing"]
    <2>1. Life!Fail
      BY <1>7 DEF Life!Fail, Life!Running
    <2> QED BY <2>1 DEF Life!Next
  <1> HIDE DEF a, l, a2, l2
  <1>8. CASE \E co \in Cos :
               /\ a2 = Append(a, co)
               /\ \/ l[co] = "suspended" /\ l2 = [l EXCEPT ![co] = "active"]
                  \/ l[co] \in {"suspended", "dead"} /\ l2 = [l EXCEPT ![co] = "closing"]
    BY <1>3, <1>4, <1>8
  <1>9. CASE \/ a2 = a /\ l2 = l
             \/ Life!Next
    BY <1>2, <1>9
  <1> QED BY <1>1, <1>5, <1>6, <1>7, <1>8, <1>9 DEF Lives

\* What the calls, errors, yields and closes of ldo.c and lcorolib.c do is what
\* the coroutine library promises of the life of each coroutine.
THEOREM CallsImplementLife == Spec => ImplementsLife
  <1>1. Core /\ [Next]_vars => Core'
    BY CoreNext
  <1>2. Spec => []Core
    BY CoreInit, <1>1, PTL DEF Spec
  <1>3. Init => Life!Init
    BY LifeInit
  <1>4. Core /\ Core' /\ [Next]_vars => [Life!Next]_(Life!vars)
    BY LifeNext
  <1> QED BY <1>2, <1>3, <1>4, PTL DEF Spec, ImplementsLife, Life!Spec

\* What was proved of every such life.
Promised == INSTANCE CoroutineLifeProofs
                WITH active <- ActiveChain, life <- [co \in Cos |-> LifeOf(co)]

\* Calls has the behaviours those theorems are about.
LEMMA PromisedSpec == Spec => Promised!Spec
  <1>1. Spec => Life!Init /\ [][Life!Next]_(Life!vars)
    BY CallsImplementLife DEF ImplementsLife, Life!Spec
  <1>2. Life!Init => Promised!Init
    BY DEF Life!Init, Promised!Init
  <1>3. [Life!Next]_(Life!vars) => [Promised!Next]_(Promised!vars)
    BY DEF Life!Next, Life!Resume, Life!Yield, Life!End, Life!Close, Life!Fail, Life!Running, Life!Resumer,
           Life!vars, Promised!Next, Promised!Resume, Promised!Yield, Promised!End, Promised!Close,
           Promised!Fail, Promised!Running, Promised!Resumer, Promised!vars
  <1> QED BY <1>1, <1>2, <1>3, PTL DEF Promised!Spec

\* No thread is resumed or closed while it is on the C stack, and 'auxstatus'
\* tells the threads that are on it from the others.
THEOREM NeverReentered == Spec => [](Life!NoReentry /\ Life!LifeAgrees)
  <1>1. Promised!LifeAssumption
    BY CallsAssumption DEF Promised!LifeAssumption
  <1>2. Promised!LifeAssumption =>
          (Promised!Spec => [](Promised!TypeOK /\ Promised!NoReentry /\ Promised!LifeAgrees))
    BY Promised!LifeSafe
  <1>3. Promised!NoReentry => Life!NoReentry
    BY DEF Promised!NoReentry, Life!NoReentry
  <1>4. Promised!LifeAgrees => Life!LifeAgrees
    BY DEF Promised!LifeAgrees, Promised!InChain, Life!LifeAgrees, Life!InChain
  <1> QED BY <1>1, <1>2, <1>3, <1>4, PromisedSpec, PTL

\* A coroutine that returned, failed or is being closed is never suspended again.
THEOREM EndedForever == Spec => Life!DeadStaysDead
  <1>1. Promised!LifeAssumption
    BY CallsAssumption DEF Promised!LifeAssumption
  <1>2. Promised!LifeAssumption => (Promised!Spec => Promised!DeadStaysDead)
    BY Promised!DeadForever
  <1>3. Promised!DeadStaysDead => Life!DeadStaysDead
    BY PTL DEF Promised!DeadStaysDead, Life!DeadStaysDead, Promised!vars, Life!vars
  <1> QED BY <1>1, <1>2, <1>3, PromisedSpec, PTL

==============================================================================
