--------------------------- MODULE StringPatterns ---------------------------
(***************************************************************************)
(* Pattern matching (lstrlib.c): the backtracking matcher, one operator    *)
(* for each of its functions, with find, match, gmatch and gsub.  Strings  *)
(* are sequences of characters; positions count from 1, so the end of a    *)
(* string is Len + 1, and 0 is a null pointer.                             *)
(***************************************************************************)
EXTENDS Integers, Sequences, SequencesExt, FiniteSetsExt

CONSTANTS
    MaxCaptures,    \* VMK_MAXCAPTURES
    MaxDepth        \* MAXCCALLS: the depth of the recursion of match

NULL == 0
UNFINISHED == -1    \* CAP_UNFINISHED
POSITION == -2      \* CAP_POSITION

-----------------------------------------------------------------------------
(* Characters. *)

\* The codes of the characters in use; "\0" ends every string of C.
Code == [c \in {"\\0", "$", "%", "(", ")", "*", "+", "-", ".", "0", "1", "2", "?", "A", "[", "]", "^",
                "a", "b", "d", "f", "u", "w", "x"} |->
    CASE c = "\\0" -> 0   [] c = "$" -> 36  [] c = "%" -> 37  [] c = "(" -> 40  [] c = ")" -> 41
      [] c = "*" -> 42    [] c = "+" -> 43  [] c = "-" -> 45  [] c = "." -> 46  [] c = "0" -> 48
      [] c = "1" -> 49    [] c = "2" -> 50  [] c = "?" -> 63  [] c = "A" -> 65  [] c = "[" -> 91
      [] c = "]" -> 93    [] c = "^" -> 94  [] c = "a" -> 97  [] c = "b" -> 98  [] c = "d" -> 100
      [] c = "f" -> 102   [] c = "u" -> 117 [] c = "w" -> 119 [] c = "x" -> 120]
Chars == DOMAIN Code

Digits == {"0", "1", "2"}
Uppers == {"A"}
Lowers == {"a", "b", "d", "f", "u", "w", "x"}
Specials == {"^", "$", "*", "+", "?", ".", "(", "[", "%", "-"}

\* What the pointer s reads in str.
At(str, s) == IF s <= Len(str) THEN str[s] ELSE "\\0"

\* The classes of match_class that the instances use.
Class == [a |-> Uppers \cup Lowers, d |-> Digits, u |-> Uppers, w |-> Uppers \cup Lowers \cup Digits]

-----------------------------------------------------------------------------
(* MatchState: the subject, the pattern, the captures and the remaining    *)
(* depth.  An error sets a message and unwinds.                            *)

PrepState(src, pat) ==
    [src |-> src, pat |-> pat, level |-> 0, matchdepth |-> MaxDepth, error |-> "",
     capture |-> [k \in 1 .. MaxCaptures |-> [init |-> NULL, len |-> 0]]]

\* reprepstate, before each try.
ReprepState(ms) == [ms EXCEPT !.level = 0]

\* The result of a function: the state, and the end of the match or NULL.
Result(ms, s) == [ms |-> ms, s |-> s]
Error(ms, message) == Result([ms EXCEPT !.error = message], NULL)
Failed(r) == r.s = NULL /\ r.ms.error = ""

\* The pointer after the set that starts at p (p is past '[' and '^'), or NULL.
RECURSIVE SetEnd(_, _)
SetEnd(pat, p) ==
    IF p > Len(pat) THEN NULL
    ELSE LET q == IF pat[p] = "%" /\ p < Len(pat) THEN p + 2 ELSE p + 1
         IN  IF At(pat, q) = "]" THEN q + 1 ELSE SetEnd(pat, q)

\* classend: the pointer after the single class at p, or NULL with an error.
ClassEnd(pat, p) ==
    CASE pat[p] = "%" -> IF p = Len(pat) THEN NULL ELSE p + 2
      [] pat[p] = "[" -> SetEnd(pat, IF At(pat, p + 1) = "^" THEN p + 2 ELSE p + 1)
      [] OTHER -> p + 1

ClassError(pat, p) ==
    IF pat[p] = "%" THEN "malformed pattern (ends with '%')" ELSE "malformed pattern (missing ']')"

Lower(c) == IF c = "A" THEN "a" ELSE c

\* match_class: %x stands for a class, for its complement if x is a capital, or for x.
MatchClass(c, cl) ==
    IF Lower(cl) \in DOMAIN Class THEN (c \in Class[Lower(cl)]) = (cl \in Lowers) ELSE c = cl

\* matchbracketclass from the element at q, without the '^'; ec is the closing ']'.
RECURSIVE InSet(_, _, _, _)
InSet(pat, c, q, ec) ==
    /\ q < ec
    /\ IF pat[q] = "%" THEN MatchClass(c, pat[q + 1]) \/ InSet(pat, c, q + 2, ec)
       ELSE IF pat[q + 1] = "-" /\ q + 2 < ec
       THEN (Code[pat[q]] <= Code[c] /\ Code[c] <= Code[pat[q + 2]]) \/ InSet(pat, c, q + 3, ec)
       ELSE c = pat[q] \/ InSet(pat, c, q + 1, ec)

MatchBracketClass(pat, c, p, ec) ==
    IF pat[p + 1] = "^" THEN ~InSet(pat, c, p + 2, ec) ELSE InSet(pat, c, p + 1, ec)

\* singlematch of the character at s with the class from p to ep.
SingleMatch(ms, s, p, ep) ==
    /\ s <= Len(ms.src)
    /\ LET c == ms.src[s] IN
       CASE ms.pat[p] = "." -> TRUE
         [] ms.pat[p] = "%" -> MatchClass(c, ms.pat[p + 1])
         [] ms.pat[p] = "[" -> MatchBracketClass(ms.pat, c, p, ep - 1)
         [] OTHER -> c = ms.pat[p]

\* matchbalance: where the count of unclosed openings becomes zero, or NULL.
RECURSIVE Balance(_, _, _, _, _)
Balance(src, s, b, e, cont) ==
    IF s > Len(src) THEN NULL
    ELSE IF src[s] = e THEN IF cont = 1 THEN s + 1 ELSE Balance(src, s + 1, b, e, cont - 1)
    ELSE Balance(src, s + 1, b, e, IF src[s] = b THEN cont + 1 ELSE cont)

MatchBalance(ms, s, p) ==
    IF p >= Len(ms.pat) THEN Error(ms, "malformed pattern (missing arguments to '%b')")
    ELSE IF At(ms.src, s) # ms.pat[p] THEN Result(ms, NULL)
    ELSE Result(ms, Balance(ms.src, s + 1, ms.pat[p], ms.pat[p + 1], 1))

\* check_capture and match_capture: the subject repeats what capture l holds.
MatchCapture(ms, s, l) ==
    IF l < 1 \/ l > ms.level \/ ms.capture[l].len = UNFINISHED THEN Error(ms, "invalid capture index")
    ELSE LET c == ms.capture[l] IN
         IF /\ c.len >= 0 /\ Len(ms.src) + 1 - s >= c.len
            /\ SubSeq(ms.src, c.init, c.init + c.len - 1) = SubSeq(ms.src, s, s + c.len - 1)
         THEN Result(ms, s + c.len) ELSE Result(ms, NULL)

\* capture_to_close: the last capture that is open, or NULL.
CaptureToClose(ms) == Max({k \in 1 .. ms.level : ms.capture[k].len = UNFINISHED} \cup {NULL})

\* How often the class at p matches from s on (the first loop of max_expand).
RECURSIVE Repetitions(_, _, _, _)
Repetitions(ms, s, p, ep) == IF SingleMatch(ms, s, p, ep) THEN 1 + Repetitions(ms, s + 1, p, ep) ELSE 0

RECURSIVE Match(_, _, _), DoMatch(_, _, _), MaxExpand(_, _, _, _), MinExpand(_, _, _, _)

\* max_expand with i repetitions, then with fewer.
MaxExpand(ms, s, i, ep) ==
    LET r == Match(ms, s + i, ep + 1) IN
    IF Failed(r) /\ i > 0 THEN MaxExpand(r.ms, s, i - 1, ep) ELSE r

MinExpand(ms, s, p, ep) ==
    LET r == Match(ms, s, ep + 1) IN
    IF Failed(r) /\ SingleMatch(r.ms, s, p, ep) THEN MinExpand(r.ms, s + 1, p, ep) ELSE r

\* Mutant: a failed match keeps the capture.
StartCaptureKept(ms, s, p, what) ==
    IF ms.level >= MaxCaptures THEN Error(ms, "too many captures")
    ELSE Match([ms EXCEPT !.level = @ + 1, !.capture[ms.level + 1] = [init |-> s, len |-> what]], s, p)

\* A failed match undoes the capture.
StartCapture(ms, s, p, what) ==
    IF ms.level >= MaxCaptures THEN Error(ms, "too many captures")
    ELSE LET r == Match([ms EXCEPT !.level = @ + 1, !.capture[ms.level + 1] = [init |-> s, len |-> what]], s, p)
         IN  IF Failed(r) THEN [r EXCEPT !.ms.level = @ - 1] ELSE r

EndCapture(ms, s, p) ==
    LET l == CaptureToClose(ms) IN
    IF l = NULL THEN Error(ms, "invalid pattern capture")
    ELSE LET r == Match([ms EXCEPT !.capture[l].len = s - ms.capture[l].init], s, p)
         IN  IF Failed(r) THEN [r EXCEPT !.ms.capture[l].len = UNFINISHED] ELSE r

\* %f: the transition from a character outside the set to one inside.
Frontier(ms, s, p) ==
    IF At(ms.pat, p) # "[" THEN Error(ms, "missing '[' after '%f' in pattern")
    ELSE LET ep == ClassEnd(ms.pat, p)
             previous == IF s = 1 THEN "\\0" ELSE ms.src[s - 1]
         IN  IF ep = NULL THEN Error(ms, ClassError(ms.pat, p))
             ELSE IF ~MatchBracketClass(ms.pat, previous, p, ep - 1)
                     /\ MatchBracketClass(ms.pat, At(ms.src, s), p, ep - 1)
             THEN DoMatch(ms, s, ep) ELSE Result(ms, NULL)

\* A class with its suffix.
MatchDefault(ms, s, p) ==
    LET ep == ClassEnd(ms.pat, p)
        suffix == At(ms.pat, ep)
    IN  IF ep = NULL THEN Error(ms, ClassError(ms.pat, p))
        ELSE IF ~SingleMatch(ms, s, p, ep)
        THEN IF suffix \in {"*", "?", "-"} THEN DoMatch(ms, s, ep + 1) ELSE Result(ms, NULL)
        ELSE CASE suffix = "?" -> LET r == Match(ms, s + 1, ep + 1)
                                  IN  IF Failed(r) THEN DoMatch(r.ms, s, ep + 1) ELSE r
               [] suffix = "+" -> MaxExpand(ms, s + 1, Repetitions(ms, s + 1, p, ep), ep)
               [] suffix = "*" -> MaxExpand(ms, s, Repetitions(ms, s, p, ep), ep)
               [] suffix = "-" -> MinExpand(ms, s, p, ep)
               [] OTHER -> DoMatch(ms, s + 1, ep)

\* The body of match after its label 'init', to which "goto init" comes back.
DoMatch(ms, s, p) ==
    LET c == At(ms.pat, p)
        next == At(ms.pat, p + 1)
    IN  CASE p > Len(ms.pat) -> Result(ms, s)
          [] c = "(" -> IF next = ")" THEN StartCapture(ms, s, p + 2, POSITION)
                        ELSE StartCapture(ms, s, p + 1, UNFINISHED)
          [] c = ")" -> EndCapture(ms, s, p + 1)
          [] c = "$" /\ p = Len(ms.pat) -> Result(ms, IF s = Len(ms.src) + 1 THEN s ELSE NULL)
          [] c = "%" /\ next = "b" -> LET r == MatchBalance(ms, s, p + 2)
                                      IN  IF r.s = NULL THEN r ELSE DoMatch(ms, r.s, p + 4)
          [] c = "%" /\ next = "f" -> Frontier(ms, s, p + 2)
          [] c = "%" /\ next \in Digits -> LET r == MatchCapture(ms, s, Code[next] - Code["0"])
                                           IN  IF r.s = NULL THEN r ELSE DoMatch(ms, r.s, p + 2)
          [] OTHER -> MatchDefault(ms, s, p)

\* The state comes back with the depth it had, unless an error unwound the recursion.
Match(ms, s, p) ==
    IF ms.matchdepth = 0 THEN Error([ms EXCEPT !.matchdepth = @ - 1], "pattern too complex")
    ELSE LET r == DoMatch([ms EXCEPT !.matchdepth = @ - 1], s, p)
         IN  IF r.ms.error = "" THEN [r EXCEPT !.ms.matchdepth = @ + 1] ELSE r

-----------------------------------------------------------------------------
(* The functions of the library.  A result is an error or a sequence of    *)
(* values: strings, positions as <<"pos", n>>, or the result fail.         *)

Raise(message) == [error |-> message, values |-> <<>>]
Pushed(v) == [error |-> "", values |-> v]
Fail == Pushed(<<"fail">>)
Position(n) == <<"pos", n>>

\* posrelatI: a position counted from the end if it is negative, at least 1.
PosRelatI(pos, len) == IF pos > 0 THEN pos ELSE IF pos = 0 \/ pos < -len THEN 1 ELSE len + pos + 1

\* get_onecapture: capture i, or the whole match from s to e if there is none and i is 1.
GetOneCapture(ms, i, s, e) ==
    IF i > ms.level
    THEN IF i # 1 THEN Raise("invalid capture index") ELSE Pushed(<<SubSeq(ms.src, s, e - 1)>>)
    ELSE LET c == ms.capture[i] IN
         CASE c.len = UNFINISHED -> Raise("unfinished capture")
           [] c.len = POSITION -> Pushed(<<Position(c.init)>>)
           [] OTHER -> Pushed(<<SubSeq(ms.src, c.init, c.init + c.len - 1)>>)

\* What one call after another adds to the results, up to the first error.
Both(v, w) == IF v.error # "" THEN v ELSE IF w.error # "" THEN w ELSE Pushed(v.values \o w.values)

\* push_captures; whole says whether a match without captures gives itself.
PushCaptures(ms, s, e, whole) ==
    LET n == IF ms.level = 0 /\ whole THEN 1 ELSE ms.level
    IN  FoldLeft(LAMBDA v, i : Both(v, GetOneCapture(ms, i, s, e)), Pushed(<<>>), [i \in 1 .. n |-> i])

\* lmemfind: the first place of pat in src from s on, by its first character, or NULL.
RECURSIVE MemFind(_, _, _)
MemFind(src, s, pat) ==
    IF Len(pat) = 0 THEN s
    ELSE LET starts == {k \in s .. Len(src) - Len(pat) + 1 : src[k] = pat[1]}
             k == Min(starts)
         IN  IF starts = {} THEN NULL
             ELSE IF SubSeq(src, k + 1, k + Len(pat) - 1) = Tail(pat) THEN k
             ELSE MemFind(src, k + 1, pat)

NoSpecials(pat) == \A k \in 1 .. Len(pat) : pat[k] \notin Specials

\* The loop of str_find_aux: tries from s on, once if the pattern is anchored.
RECURSIVE FindFrom(_, _, _, _)
FindFrom(ms, s, anchor, find) ==
    LET r == Match(ReprepState(ms), s, 1) IN
    IF r.ms.error # "" THEN Raise(r.ms.error)
    ELSE IF r.s # NULL
    THEN IF find THEN Both(Pushed(<<Position(s), Position(r.s - 1)>>), PushCaptures(r.ms, s, r.s, FALSE))
         ELSE PushCaptures(r.ms, s, r.s, TRUE)
    ELSE IF s <= Len(ms.src) /\ ~anchor THEN FindFrom(r.ms, s + 1, anchor, find)
    ELSE Fail

Anchored(pat) == At(pat, 1) = "^"
Unanchored(pat) == IF Anchored(pat) THEN Tail(pat) ELSE pat

\* str_find_aux.
StrFind(src, pat, pos, plain, find) ==
    LET init == PosRelatI(pos, Len(src)) IN
    IF init > Len(src) + 1 THEN Fail
    ELSE IF find /\ (plain \/ NoSpecials(pat))
    THEN LET s == MemFind(src, init, pat) IN
         IF s = NULL THEN Fail ELSE Pushed(<<Position(s), Position(s + Len(pat) - 1)>>)
    ELSE FindFrom(PrepState(src, Unanchored(pat)), init, Anchored(pat), find)

\* gmatch_aux: the iterator gm = [src, ms, lastmatch] gives its next match, from s on.
RECURSIVE GMatchAux(_, _)
GMatchAux(gm, s) ==
    IF s > Len(gm.ms.src) + 1 THEN [gm |-> gm, result |-> Pushed(<<>>)]
    ELSE LET r == Match(ReprepState(gm.ms), s, 1) IN
         IF r.ms.error # "" THEN [gm |-> [gm EXCEPT !.ms = r.ms], result |-> Raise(r.ms.error)]
         ELSE IF r.s # NULL /\ r.s # gm.lastmatch
         THEN [gm |-> [src |-> r.s, lastmatch |-> r.s, ms |-> r.ms], result |-> PushCaptures(r.ms, s, r.s, TRUE)]
         ELSE GMatchAux([gm EXCEPT !.ms = r.ms], s + 1)

\* All results of the iterator of gmatch, one after another; an anchor is not special in gmatch.
RECURSIVE AllMatches(_)
AllMatches(gm) ==
    LET next == GMatchAux(gm, gm.src) IN
    IF next.result.error # "" THEN next.result
    ELSE IF next.result.values = <<>> THEN Pushed(<<>>)
    ELSE Both(Pushed(<<next.result.values>>), AllMatches(next.gm))

GMatch(src, pat, pos) ==
    LET init == PosRelatI(pos, Len(src)) IN
    AllMatches([src |-> IF init > Len(src) + 1 THEN Len(src) + 2 ELSE init,
                lastmatch |-> NULL, ms |-> PrepState(src, pat)])

\* A captured value as text: a position is one token.
Text(v) == IF Len(v) = 2 /\ v[1] = "pos" THEN <<v>> ELSE v

\* add_s: the replacement string with its captures.
RECURSIVE AddS(_, _, _, _)
AddS(ms, repl, s, e) ==
    IF repl = <<>> THEN Pushed(<<>>)
    ELSE IF repl[1] # "%" THEN Both(Pushed(<<repl[1]>>), AddS(ms, Tail(repl), s, e))
    ELSE LET c == At(repl, 2)
             rest == AddS(ms, SubSeq(repl, 3, Len(repl)), s, e)
             cap == GetOneCapture(ms, Code[c] - Code["0"], s, e)
         IN  CASE c = "%" -> Both(Pushed(<<"%">>), rest)
               [] c = "0" -> Both(Pushed(SubSeq(ms.src, s, e - 1)), rest)
               [] c \in Digits \ {"0"} ->
                    IF cap.error # "" THEN cap ELSE Both(Pushed(Text(cap.values[1])), rest)
               [] OTHER -> Raise("invalid use of '%' in replacement string")

\* add_value: a string replaces; a function or a table, of which only the answer to the
\* captures matters, replaces or, with false, keeps the match.
AddValue(ms, repl, s, e) ==
    IF repl.kind = "string" THEN AddS(ms, repl.text, s, e)
    ELSE LET caps == IF repl.kind = "function" THEN PushCaptures(ms, s, e, TRUE)
                     ELSE GetOneCapture(ms, 1, s, e)
         IN  IF caps.error # "" THEN caps
             ELSE IF caps.values \in repl.false THEN Pushed(SubSeq(ms.src, s, e - 1))
             ELSE Pushed(<<caps.values>>)

\* The loop of str_gsub: b is the buffer, n counts the replacements.
RECURSIVE GSubFrom(_, _, _, _, _, _)
GSubFrom(ms, s, lastmatch, b, n, call) ==
    LET rest == Pushed(<<b \o SubSeq(ms.src, s, Len(ms.src)), n>>) IN
    IF n >= call.max THEN rest
    ELSE LET r == Match(ReprepState(ms), s, 1)
             matched == r.s # NULL /\ r.s # lastmatch
             v == AddValue(r.ms, call.repl, s, r.s)
             end == IF matched THEN r.s ELSE s + 1
             last == IF matched THEN r.s ELSE lastmatch
             count == IF matched THEN n + 1 ELSE n
             buffer == IF matched THEN b \o v.values ELSE Append(b, ms.src[s])
         IN  IF r.ms.error # "" THEN Raise(r.ms.error)
             ELSE IF matched /\ v.error # "" THEN v
             ELSE IF ~matched /\ s > Len(ms.src) THEN rest
             ELSE IF Anchored(call.pat)
             THEN Pushed(<<buffer \o SubSeq(ms.src, end, Len(ms.src)), count>>)
             ELSE GSubFrom(r.ms, end, last, buffer, count, call)

\* str_gsub: the new string and the number of replacements.
StrGSub(call) == GSubFrom(PrepState(call.src, Unanchored(call.pat)), 1, NULL, <<>>, 0, call)
=============================================================================
