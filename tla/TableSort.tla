------------------------------ MODULE TableSort ------------------------------
(***************************************************************************)
(* table.sort (ltablib.c): the quicksort, one step for each call of the    *)
(* order function, whose answers may follow an order or be anything.       *)
(***************************************************************************)
EXTENDS Integers, Sequences, FiniteSets

CONSTANTS
    Values,     \* what the array holds
    AnyOrder,        \* an order function that answers as it likes
    Inputs,     \* the calls: [array, order], an order being a set of pairs or AnyOrder
    RanLimit,   \* RANLIMIT: intervals below it never get a random pivot
    Imbalance   \* how many times larger the other interval may be (128)

ASSUME InputsAssumption ==
    Inputs \subseteq [array : Seq(Values), order : {AnyOrder} \cup SUBSET (Values \X Values)]
ASSUME LimitsAssumption == RanLimit \in Nat \ {0, 1, 2, 3} /\ Imbalance \in Nat \ {0}

VARIABLES
    input,      \* the call
    array,      \* the table
    lo, up,     \* the interval that auxsort is sorting
    rnd,        \* whether its pivots are random (rnd # 0)
    p,          \* the index of the pivot
    i, j,       \* the indices of partition
    calls,      \* the activations of auxsort that wait for the current one
    pc          \* the comparison to make, "next", "done" or "error"

vars == <<input, array, lo, up, rnd, p, i, j, calls, pc>>

-----------------------------------------------------------------------------
(* The order function. *)

\* sort_comp: what it may answer to a[x] < a[y].
Less(x, y) == IF input.order = AnyOrder THEN BOOLEAN ELSE {(<<array[x], array[y]>> \in input.order)}

\* set2 on the values of x and y exchanges them.
Swap(x, y) == [array EXCEPT ![x] = array[y], ![y] = array[x]]

-----------------------------------------------------------------------------
(* The steps of auxsort. *)

Init ==
    /\ input \in Inputs
    /\ array = input.array
    /\ lo = 1 /\ up = Len(array)
    /\ rnd = FALSE
    /\ p = 1 /\ i = 1 /\ j = 1
    /\ calls = <<>>
    /\ pc = IF lo < up THEN "ends" ELSE "next"

\* choosePivot: a quarter of the interval is left out at each end.
ChosenPivots ==
    IF up - lo < RanLimit \/ ~rnd THEN {(lo + up) \div 2}
    ELSE LET r4 == (up - lo) \div 4
         IN  {lo + r4 + k : k \in 0 .. 2 * r4 - 1}

\* a[up] < a[lo]?  With two elements that is all.
CompareEnds ==
    /\ pc = "ends"
    /\ \E less \in Less(up, lo) : array' = IF less THEN Swap(lo, up) ELSE array
    /\ IF up - lo = 1 THEN pc' = "next" /\ p' = p
       ELSE pc' = "low" /\ p' \in ChosenPivots
    /\ UNCHANGED <<input, lo, up, rnd, i, j, calls>>

\* What follows the three comparisons, with the array that they leave: three elements
\* are sorted; otherwise the pivot goes to up - 1 and the partition starts.
StartPartition(a) ==
    IF up - lo = 2 THEN array' = a /\ pc' = "next" /\ UNCHANGED <<i, j>>
    ELSE /\ array' = [a EXCEPT ![p] = a[up - 1], ![up - 1] = a[p]]
         /\ pc' = "left"
         /\ i' = lo + 1 /\ j' = up - 1

\* a[p] < a[lo]?
CompareLow ==
    /\ pc = "low"
    /\ \E less \in Less(p, lo) :
         IF less THEN StartPartition(Swap(p, lo))
         ELSE pc' = "high" /\ UNCHANGED <<array, i, j>>
    /\ UNCHANGED <<input, lo, up, rnd, p, calls>>

\* a[up] < a[p]?
CompareHigh ==
    /\ pc = "high"
    /\ \E less \in Less(up, p) : StartPartition(IF less THEN Swap(p, up) ELSE array)
    /\ UNCHANGED <<input, lo, up, rnd, p, calls>>

\* Mutants: the loop does not look for the end of the interval, or does not go on.
ScanLeftUnchecked ==
    /\ pc = "left"
    /\ \E less \in Less(i, up - 1) :
         IF ~less THEN pc' = "right" /\ j' = j - 1 /\ i' = i
         ELSE IF i = Len(array) THEN pc' = "error" /\ UNCHANGED <<i, j>>
         ELSE i' = i + 1 /\ UNCHANGED <<j, pc>>
    /\ UNCHANGED <<input, array, lo, up, rnd, p, calls>>
ScanLeftStays ==
    /\ pc = "left"
    /\ \E less \in Less(i, up - 1) :
         IF ~less THEN pc' = "right" /\ j' = j - 1 /\ i' = i
         ELSE IF i = up - 1 THEN pc' = "error" /\ UNCHANGED <<i, j>>
         ELSE UNCHANGED <<i, j, pc>>
    /\ UNCHANGED <<input, array, lo, up, rnd, p, calls>>

\* partition, the loop while a[i] < P: the pivot P is a[up - 1].
ScanLeft ==
    /\ pc = "left"
    /\ \E less \in Less(i, up - 1) :
         IF ~less THEN pc' = "right" /\ j' = j - 1 /\ i' = i
         ELSE IF i = up - 1 THEN pc' = "error" /\ UNCHANGED <<i, j>>
         ELSE i' = i + 1 /\ UNCHANGED <<j, pc>>
    /\ UNCHANGED <<input, array, lo, up, rnd, p, calls>>

\* The end of the partition at q and the recursive call for the smaller interval; n is its size.
Recur(q) ==
    LET n == IF q - lo < up - q THEN q - lo ELSE up - q
        lower == [lo |-> lo, up |-> q - 1, n |-> n, rnd |-> rnd]
        upper == [lo |-> q + 1, up |-> up, n |-> n, rnd |-> rnd]
        first == IF q - lo < up - q THEN lower ELSE upper
        rest  == IF q - lo < up - q THEN upper ELSE lower
    IN  /\ calls' = <<rest>> \o calls
        /\ lo' = first.lo /\ up' = first.up
        /\ pc' = IF first.lo < first.up THEN "ends" ELSE "next"

\* partition, the loop while P < a[j], and the exchange that follows both loops.
ScanRight ==
    /\ pc = "right"
    /\ \E less \in Less(up - 1, j) :
         IF less
         THEN /\ IF j < i THEN pc' = "error" /\ j' = j ELSE j' = j - 1 /\ pc' = pc
              /\ UNCHANGED <<array, lo, up, i, calls>>
         ELSE IF j < i
         THEN array' = Swap(up - 1, i) /\ Recur(i) /\ UNCHANGED <<i, j>>
         ELSE array' = Swap(i, j) /\ i' = i + 1 /\ pc' = "left" /\ UNCHANGED <<lo, up, j, calls>>
    /\ UNCHANGED <<input, rnd, p>>

\* auxsort returns to the activation that called it, which goes on with the rest of
\* its interval; an unbalanced partition draws a new rnd, which may be any number.
SortReturn ==
    /\ pc = "next"
    /\ IF calls = <<>> THEN pc' = "done" /\ UNCHANGED <<lo, up, rnd, calls>>
       ELSE LET c == calls[1] IN
            /\ lo' = c.lo /\ up' = c.up
            /\ calls' = Tail(calls)
            /\ rnd' \in IF (c.up - c.lo) \div Imbalance > c.n THEN BOOLEAN ELSE {c.rnd}
            /\ pc' = IF c.lo < c.up THEN "ends" ELSE "next"
    /\ UNCHANGED <<input, array, p, i, j>>

Compare == CompareEnds \/ CompareLow \/ CompareHigh \/ ScanLeft \/ ScanRight

Next == Compare \/ SortReturn

Spec == Init /\ [][Next]_vars

-----------------------------------------------------------------------------
(* Properties. *)

Bound == Len(input.array)

\* The elements that a comparison reads.
Read == CASE pc = "ends" -> {lo, up}
          [] pc = "low" -> {lo, p}
          [] pc = "high" -> {p, up}
          [] pc = "left" -> {i, up - 1}
          [] pc = "right" -> {j, up - 1, i}
          [] OTHER -> {}

\* Whatever the order function answers, the sort reads and writes inside its interval, and
\* so inside the array (the two "invalid order fn" errors of partition are in time); a random
\* pivot is where choosePivot asserts that it is.
IndicesInside ==
    /\ Read \subseteq lo .. up /\ Read \subseteq 1 .. Bound
    /\ pc \in {"low", "high"} => lo < p /\ p < up

\* The elements are those of the call, each as often as in it.
Permuted ==
    \E f \in [1 .. Bound -> 1 .. Bound] :
        /\ \A x \in 1 .. Bound : array[x] = input.array[f[x]]
        /\ \A x, y \in 1 .. Bound : f[x] = f[y] => x = y

\* With an order that is one, sort raises no error and leaves no element before a smaller one.
Sorted ==
    input.order # AnyOrder =>
        /\ pc # "error"
        /\ pc = "done" => /\ Permuted
                          /\ \A x, y \in 1 .. Bound : x < y => <<array[y], array[x]>> \notin input.order

\* Whatever the order function answers, sort ends.
Terminates == <>(pc \in {"done", "error"})
=============================================================================
