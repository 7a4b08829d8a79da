------------------------------ MODULE FiniteMap ------------------------------
(***************************************************************************)
(* What a table is for the program (manual, 2.1 and the function 'next'):  *)
(* a function from keys to values, and traversals that visit each entry    *)
(* once, in any order.                                                     *)
(***************************************************************************)
CONSTANTS Key, Value, Nil

VARIABLES
    map,        \* the value of each key, Nil if it has none
    traversing, \* is a traversal under way?
    seen        \* the keys it has visited

vars == <<map, traversing, seen>>

Present(m) == {k \in Key : m[k] # Nil}
Altered(m, m1) == {k \in Key : m1[k] # m[k]}

Init == map = [k \in Key |-> Nil] /\ traversing = FALSE /\ seen = {}

\* An assignment t[k] = v; a traversal allows it for existing fields only.
Set(m, altered) ==
    /\ \E k \in Key : altered = {k} /\ (traversing => k \in Present(m))
    /\ UNCHANGED <<traversing, seen>>

\* A weak table loses the entries whose values are collected.
Collected(m, m1, altered) ==
    /\ \A k \in altered : m1[k] = Nil
    /\ \A k \in Key \ altered : m[k] \notin {m[j] : j \in altered}
    /\ UNCHANGED <<traversing, seen>>

Start == ~traversing /\ traversing' = TRUE /\ seen' = {}

Visit(m) ==
    /\ traversing /\ UNCHANGED traversing
    /\ \E k \in Present(m) \ seen : seen' = seen \cup {k}

End(m) ==
    /\ traversing /\ Present(m) \subseteq seen
    /\ traversing' = FALSE /\ seen' = {}

Next ==
    LET m == map
        m1 == map'
        altered == Altered(m, m1)
    IN IF altered = {} THEN Start \/ Visit(m) \/ End(m) \/ UNCHANGED <<traversing, seen>>
       ELSE Set(m, altered) \/ Collected(m, m1, altered)

Spec == Init /\ [][Next]_vars
=============================================================================
