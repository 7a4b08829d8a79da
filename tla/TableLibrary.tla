---------------------------- MODULE TableLibrary ----------------------------
(***************************************************************************)
(* table.insert, remove, move, concat, pack and unpack (ltablib.c).  The   *)
(* heap maps each table to a function from the integers to values; every   *)
(* vmk_geti and vmk_seti of the loops is one step of a fold.  The tables   *)
(* have no metamethods for access.                                         *)
(***************************************************************************)
EXTENDS Integers, Sequences, SequencesExt

CONSTANTS
    MAXINTEGER,     \* VMK_MAXINTEGER
    IntMax,         \* INT_MAX
    StackSpace,     \* the values that vmk_checkstack can still make room for
    Concatenable,   \* the values that are strings or numbers
    nil

MININTEGER == -MAXINTEGER - 1
Integer == MININTEGER .. MAXINTEGER
Unsigned(n) == n % (2 * (MAXINTEGER + 1))
Signed(n) == ((n - MININTEGER) % (2 * (MAXINTEGER + 1))) + MININTEGER

\* vmkL_optinteger: an optional argument is a sequence of at most one value.
Opt(arg, default) == IF arg = <<>> THEN default ELSE arg[1]

\* What a call leaves: the heap and its results, or an error.
Done(heap, results) == [error |-> FALSE, heap |-> heap, results |-> results]
ArgError(heap) == [error |-> TRUE, heap |-> heap, results |-> <<>>]

\* vmk_seti, and vmk_geti with the vmk_seti after it, on tables without metamethods.
SetI(heap, t, k, v) == [heap EXCEPT ![t][k] = v]
CopyI(heap, from, k, to, l) == SetI(heap, to, l, heap[from][k])

\* The indices of the loops, upwards and downwards.
Upto(a, b) == IF a > b THEN <<>> ELSE [k \in 1 .. b - a + 1 |-> a + k - 1]
Downto(a, b) == Reverse(Upto(b, a))

\* tinsert: insert(t, [pos,] v), n being the length of t; pos is a sequence of at most one integer.
TInsert(heap, t, n, pos, v) ==
    LET e == Signed(n + 1)
        at == Opt(pos, e)
        moved == IF pos = <<>> THEN heap
                 ELSE FoldLeft(LAMBDA h, k : CopyI(h, t, k - 1, t, k), heap, Downto(e, at + 1))
    IN  IF pos # <<>> /\ Unsigned(at - 1) >= Unsigned(e) THEN ArgError(heap)
        ELSE Done(SetI(moved, t, at, v), <<>>)

\* tremove: remove(t [, pos]).
TRemove(heap, t, size, pos) ==
    LET at == Opt(pos, size)
        moved == FoldLeft(LAMBDA h, k : CopyI(h, t, k + 1, t, k), heap, Upto(at, size - 1))
        last == IF at < size THEN size ELSE at
    IN  IF at # size /\ Unsigned(at - 1) > Unsigned(size) THEN ArgError(heap)
        ELSE Done(SetI(moved, t, last, nil), <<heap[t][at]>>)

\* Mutant: always upwards.
TMoveUp(heap, a, f, e, t, b) ==
    LET tt == Opt(b, a)
        n == e - f + 1
    IN  IF e < f THEN Done(heap, <<tt>>)
        ELSE IF ~(f > 0 \/ e < MAXINTEGER + f) \/ t > MAXINTEGER - n + 1 THEN ArgError(heap)
        ELSE Done(FoldLeft(LAMBDA h, k : CopyI(h, a, f + k, tt, t + k), heap, Upto(0, n - 1)), <<tt>>)

\* tmove: move(a, f, e, t [, b]); b is a sequence of at most one table.
TMove(heap, a, f, e, t, b) ==
    LET tt == Opt(b, a)
        n == e - f + 1
        offsets == IF t > e \/ t <= f \/ tt # a THEN Upto(0, n - 1) ELSE Downto(n - 1, 0)
    IN  IF e < f THEN Done(heap, <<tt>>)
        ELSE IF ~(f > 0 \/ e < MAXINTEGER + f) \/ t > MAXINTEGER - n + 1 THEN ArgError(heap)
        ELSE Done(FoldLeft(LAMBDA h, k : CopyI(h, a, f + k, tt, t + k), heap, offsets), <<tt>>)

\* tconcat: concat(t, sep, i, j), addfield failing at the first value that is no string.
TConcat(heap, t, n, sep, i, j) ==
    LET first == Opt(i, 1)
        last == Opt(j, n)
        add(r, k) == IF r.error \/ heap[t][k] \notin Concatenable THEN ArgError(heap)
                     ELSE Done(heap, Append(r.results, heap[t][k]))
        loop == FoldLeft(LAMBDA r, k : IF add(r, k).error THEN ArgError(heap)
                                       ELSE Done(heap, Append(add(r, k).results, sep)),
                         Done(heap, <<>>), Upto(first, last - 1))
    IN  IF (IF first < last THEN last ELSE first) = last THEN add(loop, last) ELSE loop

\* tpack: pack(...), the new table being t.
TPack(heap, t, args) ==
    Done(FoldLeft(LAMBDA h, k : SetI(h, t, k, args[k]),
                  [heap EXCEPT ![t] = [k \in DOMAIN heap[t] |-> nil]], Downto(Len(args), 1)),
         <<t, Len(args)>>)

\* tunpack: unpack(t, i, j).
TUnpack(heap, t, len, i, j) ==
    LET first == Opt(i, 1)
        e == Opt(j, len)
        n == Unsigned(e - first)
    IN  IF first > e THEN Done(heap, <<>>)
        ELSE IF n >= IntMax \/ n + 1 > StackSpace THEN ArgError(heap)
        ELSE Done(heap, FoldLeft(LAMBDA r, k : Append(r, heap[t][k]), <<>>, Upto(first, e - 1))
                        \o <<heap[t][e]>>)

-----------------------------------------------------------------------------
(* What they promise, in terms of the table before the call. *)

\* insert opens a place at pos; only positions from 1 to n + 1 are valid.
InsertAgrees(heap, t, n, pos, v) ==
    LET at == Opt(pos, n + 1)
        inserted == [k \in DOMAIN heap[t] |-> IF k = at THEN v
                                              ELSE IF at < k /\ k <= n + 1 THEN heap[t][k - 1] ELSE heap[t][k]]
    IN  n \in 0 .. MAXINTEGER - 1 =>
            TInsert(heap, t, n, pos, v) =
                IF at \in 1 .. n + 1 THEN Done([heap EXCEPT ![t] = inserted], <<>>) ELSE ArgError(heap)

\* remove closes the place at pos; valid positions are 1 to n + 1, and 0 when n is 0.  (An
\* object whose __len is MAXINTEGER accepts MININTEGER as well: n + 1 wraps.)
RemoveAgrees(heap, t, n, pos) ==
    LET at == Opt(pos, n)
        last == IF at < n THEN n ELSE at
        removed == [k \in DOMAIN heap[t] |-> IF k \in at .. n - 1 THEN heap[t][k + 1]
                                             ELSE IF k = last THEN nil ELSE heap[t][k]]
    IN  n \in 0 .. MAXINTEGER - 1 =>
            TRemove(heap, t, n, pos) =
                IF at \in 1 .. n + 1 \/ at = n THEN Done([heap EXCEPT ![t] = removed], <<heap[t][at]>>)
                ELSE ArgError(heap)

\* move is a parallel assignment, also when the ranges overlap in one table; it refuses the
\* ranges whose size or end is no integer, and no index leaves the integers.
MoveAgrees(heap, a, f, e, t, b) ==
    LET tt == Opt(b, a)
        assigned == [k \in DOMAIN heap[tt] |-> IF t <= k /\ k <= t + e - f THEN heap[a][k - t + f] ELSE heap[tt][k]]
    IN  TMove(heap, a, f, e, t, b) =
            IF e >= f /\ (e - f + 1 > MAXINTEGER \/ t + e - f > MAXINTEGER) THEN ArgError(heap)
            ELSE Done([heap EXCEPT ![tt] = assigned], <<tt>>)

\* concat joins the values of i to j, every one of which must be a string or a number.
ConcatAgrees(heap, t, n, sep, i, j) ==
    LET first == Opt(i, 1)
        last == Opt(j, n)
    IN  TConcat(heap, t, n, sep, i, j) =
            IF \E k \in first .. last : heap[t][k] \notin Concatenable THEN ArgError(heap)
            ELSE Done(heap, [k \in 1 .. (IF first > last THEN 0 ELSE 2 * (last - first) + 1) |->
                                IF k % 2 = 0 THEN sep ELSE heap[t][first + (k \div 2)]])

\* unpack returns the values of i to j, and unpack of what pack made returns its arguments.
UnpackAgrees(heap, t, n, i, j) ==
    LET first == Opt(i, 1)
        last == Opt(j, n)
        size == IF first > last THEN 0 ELSE last - first + 1
    IN  TUnpack(heap, t, n, i, j) =
            IF size > IntMax \/ size > StackSpace THEN ArgError(heap)
            ELSE Done(heap, [k \in 1 .. size |-> heap[t][first + k - 1]])

PackAgrees(heap, t, args) ==
    LET packed == TPack(heap, t, args)
    IN  Len(args) <= StackSpace =>
            TUnpack(packed.heap, t, -1, <<>>, <<packed.results[2]>>).results = args
=============================================================================
