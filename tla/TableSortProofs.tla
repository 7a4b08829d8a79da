--------------------------- MODULE TableSortProofs ---------------------------
(***************************************************************************)
(* table.sort never indexes outside its interval, for every array, every   *)
(* order function (consistent or not) and every choice of random pivots.   *)
(*                                                                         *)
(* IndicesInside is not inductive.  What makes it so: the interval of the  *)
(* current activation and those of the waiting ones lie inside the array;  *)
(* a pivot is looked for in intervals of three elements or more, and a     *)
(* partition happens in those of four or more; and the two scans of the    *)
(* partition stay between the ends that the first three comparisons put in *)
(* order, because each of them raises an error one element before it would *)
(* leave them.                                                             *)
(***************************************************************************)
EXTENDS TableSort, TLAPS

\* An activation of auxsort that waits.
Activation == [lo : 1 .. Bound, up : 1 .. Bound, n : Int, rnd : BOOLEAN]

\* The interval and the waiting activations.
IntervalInside ==
    /\ input \in Inputs
    /\ lo \in Int /\ up \in Int /\ lo >= 1 /\ up <= Bound
    /\ rnd \in BOOLEAN
    /\ calls \in Seq(Activation)

\* What holds before each comparison.
PivotInside ==
    /\ pc = "ends" => lo < up
    /\ pc \in {"low", "high"} => up - lo >= 2 /\ p \in lo + 1 .. up - 1
    /\ pc \in {"left", "right"} => up - lo >= 3 /\ i \in lo + 1 .. up - 1
    /\ pc = "left" => j \in lo + 1 .. up - 1
    /\ pc = "right" => j \in lo .. up - 2

SortInv == IntervalInside /\ PivotInside

-----------------------------------------------------------------------------

\* The array of a call has a length.
LEMMA BoundIsNat == ASSUME input \in Inputs PROVE Bound \in Nat
BY InputsAssumption DEF Bound

\* A pivot, random or not, lies strictly between the ends.
LEMMA PivotBetween ==
    ASSUME lo \in Int, up \in Int, up - lo >= 2, NEW q \in ChosenPivots
    PROVE  q \in lo + 1 .. up - 1
<1>1. CASE up - lo < RanLimit \/ ~rnd
  BY <1>1 DEF ChosenPivots
<1>2. CASE ~(up - lo < RanLimit \/ ~rnd)
  <2> DEFINE r4 == (up - lo) \div 4
  <2>1. RanLimit \in Nat /\ RanLimit >= 4
    BY LimitsAssumption
  <2>2. r4 \in Int /\ r4 >= 1 /\ 4 * r4 <= up - lo
    BY <1>2, <2>1
  <2>3. PICK k \in 0 .. 2 * r4 - 1 : q = lo + r4 + k
    BY <1>2 DEF ChosenPivots
  <2> QED BY <2>2, <2>3
<1> QED BY <1>1, <1>2

\* The recursive call and the rest, after a partition that ends strictly inside the interval.
LEMMA RecurInside ==
    ASSUME IntervalInside, up - lo >= 3, NEW q \in lo + 1 .. up - 1, Recur(q)
    PROVE  /\ lo' \in Int /\ up' \in Int /\ lo' >= 1 /\ up' <= Bound
           /\ calls' \in Seq(Activation)
           /\ pc' \in {"ends", "next"} /\ (pc' = "ends" => lo' < up')
<1> DEFINE n == IF q - lo < up - q THEN q - lo ELSE up - q
           lower == [lo |-> lo, up |-> q - 1, n |-> n, rnd |-> rnd]
           upper == [lo |-> q + 1, up |-> up, n |-> n, rnd |-> rnd]
           first == IF q - lo < up - q THEN lower ELSE upper
           rest  == IF q - lo < up - q THEN upper ELSE lower
<1>1. Bound \in Nat
  BY BoundIsNat DEF IntervalInside
<1>2. lower \in Activation /\ upper \in Activation
  BY <1>1 DEF IntervalInside, Activation
<1>3. first \in Activation /\ rest \in Activation
  BY <1>2
<1>4. calls' = <<rest>> \o calls /\ lo' = first.lo /\ up' = first.up
      /\ pc' = IF first.lo < first.up THEN "ends" ELSE "next"
  BY DEF Recur
<1> HIDE DEF n, lower, upper, first, rest
<1>5. calls' \in Seq(Activation)
  BY <1>3, <1>4 DEF IntervalInside
<1>6. first.lo \in 1 .. Bound /\ first.up \in 1 .. Bound
  BY <1>3 DEF Activation
<1> QED BY <1>1, <1>4, <1>5, <1>6

-----------------------------------------------------------------------------

LEMMA SortInit == Init => SortInv
<1> SUFFICES ASSUME Init PROVE SortInv OBVIOUS
<1>1. Bound \in Nat /\ up = Bound
  BY BoundIsNat DEF Init, Bound
<1>2. calls \in Seq(Activation)
  BY DEF Init
<1>a. input \in Inputs /\ lo = 1 /\ rnd = FALSE
  BY DEF Init
<1>b. rnd \in BOOLEAN
  BY <1>a, Zenon
<1>3. IntervalInside
  BY <1>1, <1>2, <1>a, <1>b DEF IntervalInside
<1>4. PivotInside
  BY <1>1 DEF Init, PivotInside
<1> QED BY <1>3, <1>4 DEF SortInv

LEMMA SortStep == SortInv /\ [Next]_vars => SortInv'
<1> SUFFICES ASSUME SortInv, [Next]_vars PROVE SortInv'
  OBVIOUS
<1>0. Bound \in Nat /\ IntervalInside /\ PivotInside
  BY BoundIsNat DEF SortInv, IntervalInside
<1>s. ASSUME UNCHANGED <<input, lo, up, rnd, calls>> PROVE IntervalInside'
  BY <1>0, <1>s DEF IntervalInside, Activation, Bound
<1>1. CASE CompareEnds
  <2>1. IntervalInside'
    BY <1>1, <1>s DEF CompareEnds
  <2>2. CASE up - lo = 1
    BY <1>1, <2>1, <2>2 DEF CompareEnds, PivotInside, SortInv
  <2>3. CASE up - lo # 1
    <3>1. lo \in Int /\ up \in Int /\ up - lo >= 2
      BY <1>0, <1>1, <2>3 DEF CompareEnds, IntervalInside, PivotInside
    <3>2. pc' = "low" /\ p' \in ChosenPivots /\ lo' = lo /\ up' = up
      BY <1>1, <2>3 DEF CompareEnds
    <3>3. p' \in lo + 1 .. up - 1
      BY <3>1, <3>2, PivotBetween
    <3> QED BY <2>1, <3>1, <3>2, <3>3 DEF PivotInside, SortInv
  <2> QED BY <2>2, <2>3
<1>2. ASSUME NEW a, StartPartition(a), up - lo >= 2, UNCHANGED <<input, lo, up, rnd, p, calls>>
      PROVE  SortInv'
  <2>1. IntervalInside'
    BY <1>2, <1>s
  <2>2. CASE up - lo = 2
    BY <1>2, <2>1, <2>2 DEF StartPartition, PivotInside, SortInv
  <2>3. CASE up - lo # 2
    <3>1. pc' = "left" /\ i' = lo + 1 /\ j' = up - 1 /\ lo' = lo /\ up' = up
      BY <1>2, <2>3 DEF StartPartition
    <3>2. lo \in Int /\ up \in Int /\ up - lo >= 3
      BY <1>0, <1>2, <2>3 DEF IntervalInside
    <3> QED BY <2>1, <3>1, <3>2 DEF PivotInside, SortInv
  <2> QED BY <2>2, <2>3
<1>3. CASE CompareLow
  <2>1. up - lo >= 2 /\ UNCHANGED <<input, lo, up, rnd, p, calls>> /\ pc = "low"
    BY <1>0, <1>3 DEF CompareLow, PivotInside
  <2>2. PICK less \in Less(p, lo) :
          IF less THEN StartPartition(Swap(p, lo)) ELSE pc' = "high" /\ UNCHANGED <<array, i, j>>
    BY <1>3 DEF CompareLow
  <2>3. CASE less
    <3>1. StartPartition(Swap(p, lo))
      BY <2>2, <2>3
    <3> QED BY <1>2, <2>1, <3>1
  <2>4. CASE ~less
    <3>1. IntervalInside'
      BY <1>s, <2>1
    <3> QED BY <1>0, <2>1, <2>2, <2>4, <3>1 DEF PivotInside, SortInv
  <2> QED BY <2>3, <2>4
<1>4. CASE CompareHigh
  <2>1. up - lo >= 2 /\ UNCHANGED <<input, lo, up, rnd, p, calls>>
    BY <1>0, <1>4 DEF CompareHigh, PivotInside
  <2>2. PICK less \in Less(up, p) : StartPartition(IF less THEN Swap(p, up) ELSE array)
    BY <1>4 DEF CompareHigh
  <2> QED BY <1>2, <2>1, <2>2
<1>5. CASE ScanLeft
  <2>1. IntervalInside'
    BY <1>5, <1>s DEF ScanLeft
  <2>2. PivotInside'
    BY <1>0, <1>5 DEF ScanLeft, PivotInside, IntervalInside
  <2> QED BY <2>1, <2>2 DEF SortInv
<1>6. CASE ScanRight
  <2>1. /\ pc = "right" /\ up - lo >= 3 /\ i \in lo + 1 .. up - 1 /\ j \in lo .. up - 2
        /\ lo \in Int /\ up \in Int /\ UNCHANGED <<input, rnd, p>>
    BY <1>0, <1>6 DEF ScanRight, PivotInside, IntervalInside
  <2>2. PICK less \in Less(up - 1, j) :
          IF less
          THEN /\ IF j < i THEN pc' = "error" /\ j' = j ELSE j' = j - 1 /\ pc' = pc
               /\ UNCHANGED <<array, lo, up, i, calls>>
          ELSE IF j < i
          THEN array' = Swap(up - 1, i) /\ Recur(i) /\ UNCHANGED <<i, j>>
          ELSE array' = Swap(i, j) /\ i' = i + 1 /\ pc' = "left" /\ UNCHANGED <<lo, up, j, calls>>
    BY <1>6 DEF ScanRight
  <2>3. CASE less
    <3>1. IntervalInside'
      BY <1>s, <2>1, <2>2, <2>3
    <3>2. PivotInside'
      BY <2>1, <2>2, <2>3 DEF PivotInside
    <3> QED BY <3>1, <3>2 DEF SortInv
  <2>4. CASE ~less /\ j < i
    <3>1. Recur(i)
      BY <2>2, <2>4
    <3>2. /\ lo' \in Int /\ up' \in Int /\ lo' >= 1 /\ up' <= Bound
          /\ calls' \in Seq(Activation)
          /\ pc' \in {"ends", "next"} /\ (pc' = "ends" => lo' < up')
      BY <1>0, <2>1, <3>1, RecurInside
    <3>3. input' = input /\ rnd' = rnd
      BY <2>1
    <3>4. IntervalInside'
      BY <1>0, <3>2, <3>3 DEF IntervalInside, Activation, Bound
    <3>5. PivotInside'
      BY <3>2 DEF PivotInside
    <3> QED BY <3>4, <3>5 DEF SortInv
  <2>5. CASE ~less /\ ~(j < i)
    <3>1. IntervalInside'
      BY <1>s, <2>1, <2>2, <2>5
    <3>2. PivotInside'
      BY <2>1, <2>2, <2>5 DEF PivotInside
    <3> QED BY <3>1, <3>2 DEF SortInv
  <2> QED BY <2>3, <2>4, <2>5
<1>7. CASE SortReturn
  <2>1. CASE calls = <<>>
    <3>1. IntervalInside'
      BY <1>7, <1>s, <2>1 DEF SortReturn
    <3> QED BY <1>7, <2>1, <3>1 DEF SortReturn, PivotInside, SortInv
  <2>2. CASE calls # <<>>
    <3> DEFINE c == calls[1]
    <3>1. c \in Activation /\ Tail(calls) \in Seq(Activation)
      BY <1>0, <2>2 DEF IntervalInside
    <3>2. /\ lo' = c.lo /\ up' = c.up /\ calls' = Tail(calls) /\ input' = input
          /\ pc' = IF c.lo < c.up THEN "ends" ELSE "next"
      BY <1>7, <2>2 DEF SortReturn
    <3>3. rnd' \in BOOLEAN
      BY <1>7, <2>2, <3>1 DEF SortReturn, Activation
    <3>4. c.lo \in 1 .. Bound /\ c.up \in 1 .. Bound
      BY <3>1 DEF Activation
    <3> HIDE DEF c
    <3>5. IntervalInside'
      BY <1>0, <3>1, <3>2, <3>3, <3>4 DEF IntervalInside, Activation, Bound
    <3>6. PivotInside'
      BY <3>2 DEF PivotInside
    <3> QED BY <3>5, <3>6 DEF SortInv
  <2> QED BY <2>1, <2>2
<1>8. CASE UNCHANGED vars
  BY <1>0, <1>8, <1>s DEF vars, PivotInside, SortInv
<1> QED BY <1>1, <1>3, <1>4, <1>5, <1>6, <1>7, <1>8 DEF Next, Compare

\* The elements that a comparison reads are inside.
LEMMA SortInvInside == SortInv => IndicesInside
<1> SUFFICES ASSUME SortInv PROVE IndicesInside OBVIOUS
<1>0. Bound \in Nat
  BY BoundIsNat DEF SortInv, IntervalInside
<1>1. Read \subseteq lo .. up
  BY DEF SortInv, IntervalInside, PivotInside, Read
<1>2. lo .. up \subseteq 1 .. Bound
  BY <1>0 DEF SortInv, IntervalInside
<1>3. pc \in {"low", "high"} => lo < p /\ p < up
  BY DEF SortInv, IntervalInside, PivotInside
<1> QED BY <1>1, <1>2, <1>3 DEF IndicesInside

\* Whatever the order function answers, and wherever the random pivots fall, the quicksort of
\* ltablib.c reads and writes only elements of the array that it was given.
THEOREM SortInside == Spec => []IndicesInside
<1>1. Init => SortInv
  BY SortInit
<1>2. SortInv /\ [Next]_vars => SortInv'
  BY SortStep
<1>3. SortInv => IndicesInside
  BY SortInvInside
<1> QED BY <1>1, <1>2, <1>3, PTL DEF Spec
=============================================================================
