--------------------------- MODULE PatternMeaning ---------------------------
(***************************************************************************)
(* What a pattern promises (manual, section 6.4.1), with no pointers and   *)
(* no backtracking: a pattern is a sequence of items, and all the ways in  *)
(* which it matches at a place are listed in order of preference.          *)
(***************************************************************************)
EXTENDS StringPatterns

Drop(str, n) == SubSeq(str, n + 1, Len(str))

-----------------------------------------------------------------------------
(* The items of a pattern; an ill-formed rest is one item "bad".           *)

ClassOf(cl) ==
    CASE cl = "A" -> Chars \ Class["a"]
      [] cl \in DOMAIN Class -> Class[cl]
      [] OTHER -> {cl}

Between(c, d) == {x \in Chars : Code[c] <= Code[x] /\ Code[x] <= Code[d]}

\* The union of the elements of a set and what follows its ']', which cannot be the first.
RECURSIVE Elements(_, _)
Elements(str, first) ==
    IF str = <<>> THEN [bad |-> TRUE, set |-> {}, rest |-> <<>>]
    ELSE IF str[1] = "]" /\ ~first THEN [bad |-> FALSE, set |-> {}, rest |-> Tail(str)]
    ELSE LET range == Len(str) >= 3 /\ str[2] = "-" /\ str[3] # "]"
             n == IF str[1] = "%" /\ Len(str) > 1 THEN 2 ELSE IF range THEN 3 ELSE 1
             one == CASE n = 2 -> ClassOf(str[2]) [] n = 3 -> Between(str[1], str[3]) [] OTHER -> {str[1]}
             more == Elements(Drop(str, n), FALSE)
         IN  [more EXCEPT !.set = @ \cup one]

\* The set that a single class stands for, and what follows it.
SingleClass(str) ==
    CASE str[1] = "." -> [bad |-> FALSE, set |-> Chars, rest |-> Tail(str)]
      [] str[1] = "%" -> IF Len(str) = 1 THEN [bad |-> TRUE, set |-> {}, rest |-> <<>>]
                         ELSE [bad |-> FALSE, set |-> ClassOf(str[2]), rest |-> Drop(str, 2)]
      [] str[1] = "[" -> IF At(str, 2) = "^"
                         THEN LET e == Elements(Drop(str, 2), TRUE) IN [e EXCEPT !.set = Chars \ @]
                         ELSE Elements(Tail(str), TRUE)
      [] OTHER -> [bad |-> FALSE, set |-> {str[1]}, rest |-> Tail(str)]

Item(t, set, x) == [t |-> t, set |-> set, x |-> x]
Bad == <<Item("bad", {}, 0)>>

RECURSIVE Items(_)
Items(pat) ==
    IF pat = <<>> THEN <<>>
    ELSE LET c == pat[1]
             next == At(pat, 2)
             suffixes == {"*", "+", "-", "?"}
         IN  CASE c = "(" /\ next = ")" -> <<Item("here", {}, 0)>> \o Items(Drop(pat, 2))
               [] c = "(" /\ next # ")" -> <<Item("open", {}, 0)>> \o Items(Drop(pat, 1))
               [] c = ")" -> <<Item("close", {}, 0)>> \o Items(Drop(pat, 1))
               [] pat = <<"$">> -> <<Item("end", {}, 0)>>
               [] c = "%" /\ next = "b" ->
                    IF Len(pat) < 4 THEN Bad
                    ELSE <<Item("balance", {}, <<pat[3], pat[4]>>)>> \o Items(Drop(pat, 4))
               [] c = "%" /\ next = "f" ->
                    IF At(pat, 3) # "[" THEN Bad
                    ELSE LET k == SingleClass(Drop(pat, 2)) IN
                         IF k.bad THEN Bad ELSE <<Item("frontier", k.set, 0)>> \o Items(k.rest)
               [] c = "%" /\ next \in Digits -> <<Item("back", {}, Code[next] - Code["0"])>> \o Items(Drop(pat, 2))
               [] OTHER ->
                    LET k == SingleClass(pat)
                        repeats == k.rest # <<>> /\ k.rest[1] \in suffixes
                    IN  IF k.bad THEN Bad
                        ELSE <<Item("class", k.set, IF repeats THEN k.rest[1] ELSE "1")>>
                                \o Items(IF repeats THEN Tail(k.rest) ELSE k.rest)

-----------------------------------------------------------------------------
(* The ways to match, in order of preference: the end and the captures     *)
(* [from, to], where to is 0 while the capture is open and -1 in a         *)
(* position; an error is the end 0.                                        *)

\* The end of the balanced string that starts at s, or 0.
BalancedEnd(src, s, x, y) ==
    LET count(k, c) == Cardinality({i \in s .. k : src[i] = c})
        ends == {k \in s + 1 .. Len(src) : src[k] = y /\ (x = y \/ count(k, x) = count(k, y))}
    IN  IF s > Len(src) \/ src[s] # x THEN 0
        ELSE IF ends = {} THEN 0 ELSE Min(ends) + 1

RECURSIVE Ways(_, _, _, _)
Ways(items, src, s, caps) ==
    IF items = <<>> THEN <<[e |-> s, caps |-> caps]>>
    ELSE LET it == items[1]
             rest == Tail(items)
             On(e) == Ways(rest, src, e, caps)
             error == <<[e |-> 0, caps |-> caps]>>
             open == {k \in 1 .. Len(caps) : caps[k].to = 0}
             longest == Max({k \in 0 .. Len(src) + 1 - s : \A i \in s .. s + k - 1 : src[i] \in it.set})
             counts == CASE it.x = "1" -> IF longest > 0 THEN <<1>> ELSE <<>>
                         [] it.x = "?" -> IF longest > 0 THEN <<1, 0>> ELSE <<0>>
                         [] it.x = "*" -> [i \in 1 .. longest + 1 |-> longest + 1 - i]
                         [] it.x = "+" -> [i \in 1 .. longest |-> longest + 1 - i]
                         [] it.x = "-" -> [i \in 1 .. longest + 1 |-> i - 1]
         IN  CASE it.t = "class" -> FlattenSeq([i \in 1 .. Len(counts) |-> On(s + counts[i])])
               [] it.t \in {"open", "here"} ->
                    IF Len(caps) = MaxCaptures THEN error
                    ELSE Ways(rest, src, s, Append(caps, [from |-> s, to |-> IF it.t = "open" THEN 0 ELSE -1]))
               [] it.t = "close" ->
                    IF open = {} THEN error ELSE Ways(rest, src, s, [caps EXCEPT ![Max(open)].to = s])
               [] it.t = "end" -> IF s > Len(src) THEN On(s) ELSE <<>>
               [] it.t = "balance" ->
                    LET e == BalancedEnd(src, s, it.x[1], it.x[2]) IN IF e = 0 THEN <<>> ELSE On(e)
               [] it.t = "frontier" ->
                    IF At(src, s) \in it.set /\ (IF s = 1 THEN "\\0" ELSE src[s - 1]) \notin it.set
                    THEN On(s) ELSE <<>>
               [] it.t = "back" ->
                    IF it.x \notin 1 .. Len(caps) \/ it.x \in open THEN error
                    ELSE LET c == caps[it.x]
                             n == c.to - c.from
                         IN  IF /\ c.to # -1 /\ s + n <= Len(src) + 1
                                /\ \A i \in 0 .. n - 1 : src[c.from + i] = src[s + i]
                             THEN On(s + n) ELSE <<>>
               [] it.t = "bad" -> error

\* The first match of the items at or after s, or at s only: its start, 0 if there is none.
FirstMatch(items, src, s, anchored) ==
    LET places == {k \in s .. (IF anchored THEN s ELSE Len(src) + 1) :
                      Ways(items, src, k, <<>>) # <<>>}
    IN  IF places = {} THEN [s |-> 0, way |-> <<>>]
        ELSE [s |-> Min(places), way |-> Ways(items, src, Min(places), <<>>)[1]]

-----------------------------------------------------------------------------
(* The functions of the library. *)

Captured(src, c) ==
    CASE c.to = 0 -> Raise("unfinished")
      [] c.to = -1 -> Pushed(<<Position(c.from)>>)
      [] OTHER -> Pushed(<<SubSeq(src, c.from, c.to - 1)>>)

AllCaptured(src, caps) == FoldLeft(LAMBDA v, c : Both(v, Captured(src, c)), Pushed(<<>>), caps)

\* The captures of the match, or the whole match if there are none.
Gives(src, m) ==
    IF m.way.caps = <<>> THEN Pushed(<<SubSeq(src, m.s, m.way.e - 1)>>) ELSE AllCaptured(src, m.way.caps)

FindMeaning(src, pat, pos, plain, find) ==
    LET init == IF pos > 0 THEN pos ELSE IF pos = 0 \/ -pos > Len(src) THEN 1 ELSE Len(src) + 1 + pos
        same == {k \in init .. Len(src) + 1 - Len(pat) : SubSeq(src, k, k + Len(pat) - 1) = pat}
        m == FirstMatch(Items(Unanchored(pat)), src, init, Anchored(pat))
    IN  IF init > Len(src) + 1 THEN Fail
        ELSE IF find /\ plain
        THEN IF same = {} THEN Fail
             ELSE Pushed(<<Position(Min(same)), Position(Min(same) + Len(pat) - 1)>>)
        ELSE IF m.s = 0 THEN Fail
        ELSE IF m.way.e = 0 THEN Raise("error")
        ELSE IF find
        THEN Both(Pushed(<<Position(m.s), Position(m.way.e - 1)>>), AllCaptured(src, m.way.caps))
        ELSE Gives(src, m)

\* The matches one after another: each starts where the one before ended, last, and an
\* empty one does not touch it.
RECURSIVE Matches(_, _, _, _, _)
Matches(items, src, s, last, anchored) ==
    LET m == FirstMatch(items, src, s, anchored) IN
    IF m.s = 0 THEN <<>>
    ELSE IF m.way.e # 0 /\ m.way.e = last
    THEN IF anchored \/ m.s > Len(src) THEN <<>> ELSE Matches(items, src, m.s + 1, last, anchored)
    ELSE <<m>> \o (IF m.way.e = 0 \/ anchored THEN <<>> ELSE Matches(items, src, m.way.e, m.way.e, FALSE))

Collected(v, w) == IF v.error # "" THEN v ELSE IF w.error # "" THEN w ELSE Both(v, Pushed(<<w.values>>))

GMatchMeaning(src, pat, pos) ==
    LET init == IF pos > 0 THEN pos ELSE IF pos = 0 \/ -pos > Len(src) THEN 1 ELSE Len(src) + 1 + pos
        One(m) == IF m.way.e = 0 THEN Raise("error") ELSE Gives(src, m)
    IN  IF init > Len(src) + 1 THEN Pushed(<<>>)
        ELSE FoldLeft(LAMBDA v, m : Collected(v, One(m)), Pushed(<<>>), Matches(Items(pat), src, init, 0, FALSE))

\* What replaces a match.
Replacement(src, m, repl) ==
    LET first == IF m.way.caps = <<>> THEN Gives(src, m) ELSE Captured(src, m.way.caps[1])
        caps == IF repl.kind = "function" THEN Gives(src, m) ELSE first
        capture(k) == IF k = 0 \/ (k = 1 /\ m.way.caps = <<>>)
                      THEN Pushed(<<SubSeq(src, m.s, m.way.e - 1)>>)
                      ELSE IF k > Len(m.way.caps) THEN Raise("invalid capture") ELSE Captured(src, m.way.caps[k])
        escaped == {k \in 1 .. Len(repl.text) : repl.text[k] = "%" /\ \* an escape, not an escaped "%"
                      Cardinality({i \in 1 .. k - 1 : \A n \in i .. k - 1 : repl.text[n] = "%"}) % 2 = 0}
        piece(k) == IF k - 1 \in escaped
                    THEN IF repl.text[k] = "%" THEN Pushed(<<"%">>)
                         ELSE IF repl.text[k] \notin Digits THEN Raise("invalid use")
                         ELSE LET c == capture(Code[repl.text[k]] - Code["0"])
                              IN  IF c.error # "" THEN c ELSE Pushed(Text(c.values[1]))
                    ELSE IF k \in escaped THEN (IF k = Len(repl.text) THEN Raise("invalid use") ELSE Pushed(<<>>))
                    ELSE Pushed(<<repl.text[k]>>)
    IN  IF m.way.e = 0 THEN Raise("error")
        ELSE IF repl.kind = "string"
        THEN FoldLeft(Both, Pushed(<<>>), [k \in 1 .. Len(repl.text) |-> piece(k)])
        ELSE IF caps.error # "" THEN caps
        ELSE IF caps.values \in repl.false THEN Pushed(SubSeq(src, m.s, m.way.e - 1))
        ELSE Pushed(<<caps.values>>)

\* The subject with its first matches, at most max, replaced.
GSubMeaning(call) ==
    LET all == Matches(Items(Unanchored(call.pat)), call.src, 1, 0, Anchored(call.pat))
        n == Max({0, Min({call.max, Len(all)})})
        from(k) == IF k = 1 THEN 1 ELSE all[k - 1].way.e
        parts == [k \in 1 .. n |-> Both(Pushed(SubSeq(call.src, from(k), all[k].s - 1)),
                                        Replacement(call.src, all[k], call.repl))]
        v == FoldLeft(Both, Pushed(<<>>), parts)
    IN  IF v.error # "" THEN v
        ELSE Pushed(<<v.values \o SubSeq(call.src, from(n + 1), Len(call.src)), n>>)
=============================================================================
