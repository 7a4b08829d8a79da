------------------------------ MODULE Semantics ------------------------------
(***************************************************************************)
(* What a program means: its value computed from the tree, with no code,   *)
(* no registers and no jumps.  This is the reference the compiled code is  *)
(* compared with.                                                          *)
(*                                                                         *)
(* A store is [env, cells, clos, heap, log]: the variables in scope, the   *)
(* contents of all variables there ever were, the closures, the tables,    *)
(* and the calls made to the outside so far.  The host function FN notes   *)
(* its arguments in the log and returns them; an operation that has no     *)
(* meaning on its operands is a call to a metamethod, which notes the      *)
(* event and its arguments, in order, and returns MMResult (the host can   *)
(* give any type a metatable).  COUNT is an iterator: it counts up to its  *)
(* state.  A closure notes the variables it uses and adds one to those     *)
(* that may be assigned.                                                   *)
(***************************************************************************)
EXTENDS CodeGen

CONSTANTS Varargs        \* the extra arguments of a vararg function

FN == <<"fn">>
COUNT == <<"count">>
MMResult == <<"mm">>
Str(s) == <<"str", <<s>>>>

----------------------------------------------------------------------------
(* Operations on values, shared with the interpreter.                      *)

\* vmkT_callTMres
Meta(event, args, log) == [v |-> MMResult, log |-> Append(log, <<event>> \o args)]

\* arithmetic, with the metamethod when there is no primitive result
Arith(op, a, b, log) ==
  LET raw == RawArith(op, a, b)
  IN  IF raw # <<>> THEN [v |-> raw[1], log |-> log] ELSE Meta(op, <<a, b>>, log)

\* vmkV_lessthan, vmkV_lessequal on numbers; a metamethod answers true
Order(op, a, b, log) ==
  IF IsNumber(a) /\ IsNumber(b)
  THEN [b |-> IF op = "lt" THEN a[2] < b[2] ELSE a[2] <= b[2], log |-> log]
  ELSE [b |-> TRUE, log |-> Meta(op, <<a, b>>, log).log]

\* vmkV_rawequalobj
RawEqual(a, b) == a = b \/ (IsNumber(a) /\ IsNumber(b) /\ a[2] = b[2])

\* a float key with an integral value is the integer
NormalKey(k) == IF k[1] = "flt" THEN Integer(k[2]) ELSE k

Get(heap, t, key, log) ==
  LET k == NormalKey(key)
  IN  IF t[1] # "tab" THEN Meta("index", <<t, key>>, log)
      ELSE [v |-> IF k \in DOMAIN heap[t[2]] THEN heap[t[2]][k] ELSE Nil, log |-> log]

Set(heap, t, key, v, log) ==
  LET k == NormalKey(key)
      old == heap[t[2]]
      new == IF v = Nil THEN [x \in DOMAIN old \ {k} |-> old[x]] ELSE (k :> v) @@ old
  IN  IF t[1] # "tab" THEN [heap |-> heap, log |-> Meta("newindex", <<t, key, v>>, log).log]
      ELSE [heap |-> [heap EXCEPT ![t[2]] = new], log |-> log]

\* one step of vmkV_concat
IsStringy(v) == v[1] \in {"str", "int", "flt"}
AsString(v) == CASE v[1] = "str" -> v[2]
                 [] v[1] = "int" -> <<ToString(v[2])>>
                 [] v[1] = "flt" -> <<ToString(v[2]) \o ".0">>
Join(a, b, log) ==
  IF IsStringy(a) /\ IsStringy(b)
  THEN [v |-> <<"str", AsString(a) \o AsString(b)>>, log |-> log]
  ELSE Meta("concat", <<a, b>>, log)

----------------------------------------------------------------------------
(* Evaluation.  V(v, s) is one value and the store after it.               *)

V(v, s) == [v |-> v, s |-> s]
Logged(r, s) == V(r.v, [s EXCEPT !.log = r.log])
FirstOf(vs) == IF vs = <<>> THEN Nil ELSE Head(vs)
Adjust(vs, n) == [i \in 1 .. n |-> IF i <= Len(vs) THEN vs[i] ELSE Nil]

RECURSIVE Eval(_, _), EvalOpen(_, _), EvalList(_, _)

\* the values of a list of expressions, the last of which may have many
EvalList(es, s) ==
  IF es = <<>> THEN [vs |-> <<>>, s |-> s]
  ELSE IF Len(es) = 1 THEN EvalOpen(es[1], s)
  ELSE LET h == Eval(Head(es), s)
           t == EvalList(Tail(es), h.s)
       IN  [vs |-> <<h.v>> \o t.vs, s |-> t.s]

\* the innermost variable of that name
Lookup(env, n) == env[Max({i \in DOMAIN env : env[i].name = n})]

Bumped(v) == Integer(IF v[1] = "int" THEN Wrap(v[2] + 1) ELSE 0)

CallClosure(n, s) ==
  LET c == s.clos[n]
      noted == [s EXCEPT !.log = Append(@, <<"closure", n>>
                                             \o [i \in DOMAIN c |-> s.cells[c[i].cell]])]
      bump(st, var) == IF var.kind = "reg" THEN [st EXCEPT !.cells[var.cell] = Bumped(@)]
                       ELSE st
  IN  [vs |-> <<>>, s |-> FoldLeft(bump, noted, c)]

\* COUNT(limit, control): the next number, and the one before it
NextCount(limit, control) ==
  LET n == IF control = Nil THEN 0 ELSE control[2]
  IN  IF n < limit[2] THEN <<Integer(n + 1), Integer(n)>> ELSE <<>>

NotedCall(args, log) == Append(log, <<"call">> \o args)

Invoke(f, args, s) ==
  CASE f[1] = "closure" -> CallClosure(f[2], s)
    [] f = COUNT -> [vs |-> NextCount(args[1], args[2]), s |-> s]
    [] OTHER -> [vs |-> args, s |-> [s EXCEPT !.log = NotedCall(args, @)]]

\* the values of an expression in a position that takes many
EvalOpen(a, s) ==
  CASE a.op = "dots" -> [vs |-> Varargs, s |-> s]
    [] a.op = "call" ->
         LET f == Eval(a.a, s)
             x == EvalList(a.args, f.s)
         IN  Invoke(f.v, x.vs, x.s)
    [] a.op = "self" ->
         LET o == Eval(a.a, s)
             m == Get(o.s.heap, o.v, a.name, o.s.log)
             x == EvalList(a.args, [o.s EXCEPT !.log = m.log])
         IN  Invoke(m.v, <<o.v>> \o x.vs, x.s)
    [] OTHER -> LET r == Eval(a, s) IN [vs |-> <<r.v>>, s |-> r.s]

Store(t, key, v, s) ==
  LET w == Set(s.heap, t, key, v, s.log) IN [s EXCEPT !.heap = w.heap, !.log = w.log]

\* the items of a constructor for table t; positional ones count from n + 1
RECURSIVE EvalItems(_, _, _, _)
EvalItems(items, t, n, s) ==
  IF items = <<>> THEN s
  ELSE LET i == Head(items)
           x == IF Len(items) = 1 THEN EvalOpen(i.e, s)
                ELSE LET r == Eval(i.e, s) IN [vs |-> <<r.v>>, s |-> r.s]
           k == Eval(i.key, s)
           v == Eval(i.e, k.s)
       IN  IF i.op = "field"
           THEN EvalItems(Tail(items), t, n, Store(t, k.v, v.v, v.s))
           ELSE EvalItems(Tail(items), t, n + 1,
                          FoldLeft(LAMBDA st, j : Store(t, Integer(n + j), x.vs[j], st),
                                   x.s, [j \in DOMAIN x.vs |-> j]))

Compared(op, a, b, s) ==
  LET o == CASE op \in {"lt", "le"} -> Order(op, a, b, s.log)
             [] op = "gt" -> Order("lt", b, a, s.log)
             [] op = "ge" -> Order("le", b, a, s.log)
  IN  V(Bool(o.b), [s EXCEPT !.log = o.log])

Eval(a, s) ==
  CASE a.op = "nil" -> V(Nil, s)
    [] a.op = "true" -> V(Bool(TRUE), s)
    [] a.op = "false" -> V(Bool(FALSE), s)
    [] a.op = "int" -> V(Integer(a.v), s)
    [] a.op = "flt" -> V(Float(a.v), s)
    [] a.op = "str" -> V(a.v, s)
    [] a.op = "name" -> V(s.cells[Lookup(s.env, a.v).cell], s)
    [] a.op = "fun" ->
         V(<<"closure", Len(s.clos) + 1>>,
           [s EXCEPT !.clos = Append(@, [i \in DOMAIN a.names |-> Lookup(s.env, a.names[i])])])
    [] a.op = "paren" -> Eval(a.a, s)
    [] a.op \in {"call", "self", "dots"} ->
         LET r == EvalOpen(a, s) IN V(FirstOf(r.vs), r.s)
    [] a.op = "table" ->
         LET t == <<"tab", Len(s.heap) + 1>>
         IN  V(t, EvalItems(a.items, t, 0, [s EXCEPT !.heap = Append(@, <<>>)]))
    [] a.op = "not" -> LET x == Eval(a.a, s) IN V(Bool(IsFalse(x.v)), x.s)
    [] a.op = "unm" ->
         LET x == Eval(a.a, s) IN Logged(Arith("unm", x.v, x.v, x.s.log), x.s)
    [] a.op = "and" ->
         LET x == Eval(a.a, s) IN IF IsFalse(x.v) THEN x ELSE Eval(a.b, x.s)
    [] a.op = "or" ->
         LET x == Eval(a.a, s) IN IF IsFalse(x.v) THEN Eval(a.b, x.s) ELSE x
    [] OTHER ->
         LET x == Eval(a.a, s)
             y == Eval(a.b, x.s)
         IN  CASE a.op = "index" -> Logged(Get(y.s.heap, x.v, y.v, y.s.log), y.s)
               [] a.op = "concat" -> Logged(Join(x.v, y.v, y.s.log), y.s)
               [] a.op \in {"eq", "ne"} ->
                    V(Bool(RawEqual(x.v, y.v) = (a.op = "eq")), y.s)
               [] a.op \in {"lt", "le", "gt", "ge"} -> Compared(a.op, x.v, y.v, y.s)
               [] OTHER -> Logged(Arith(a.op, x.v, y.v, y.s.log), y.s)

----------------------------------------------------------------------------
(* Assignments.                                                            *)

\* a place: what a target denotes before any of the values is stored
EvalPlace(st, a) ==
  IF a.op = "name"
  THEN [st EXCEPT !.places = Append(@, [op |-> "cell", cell |-> Lookup(st.s.env, a.v).cell])]
  ELSE LET t == Eval(a.a, st.s)
           k == Eval(a.b, t.s)
       IN  [s |-> k.s, places |-> Append(st.places, [op |-> "index", t |-> t.v, k |-> k.v])]

Put(p, v, s) ==
  IF p.op = "cell" THEN [s EXCEPT !.cells[p.cell] = v] ELSE Store(p.t, p.k, v, s)

\* all targets and all values are evaluated before anything is stored
RunAssign(vs, es, s) ==
  LET p == FoldLeft(EvalPlace, [s |-> s, places |-> <<>>], vs)
      x == EvalList(es, p.s)
      v == Adjust(x.vs, Len(vs))
  IN  FoldRight(LAMBDA i, st : Put(p.places[i], v[i], st),
                [i \in DOMAIN vs |-> i], x.s)

----------------------------------------------------------------------------
(* Scopes.  A variable is a new cell each time its declaration runs.       *)

Declare(vs, values, s) ==
  LET cell(i) == Len(s.cells) + i
  IN  [s EXCEPT !.cells = @ \o values,
                !.env = @ \o [i \in DOMAIN vs |-> [name |-> vs[i].name, kind |-> vs[i].kind,
                                                   cell |-> cell(i)]]]

\* the metamethod __close of a function calls it; a false value has nothing to
\* close
CloseValue(v, s) ==
  CASE IsFalse(v) -> s
    [] v[1] = "closure" -> CallClosure(v[2], s).s
    [] OTHER -> [s EXCEPT !.log = Append(@, <<"close", v>>)]

\* leave all but the first n variables, closing the last ones first
Leave(n, s) ==
  LET gone == SubSeq(s.env, n + 1, Len(s.env))
      close(var, st) == IF var.kind = "close" THEN CloseValue(st.cells[var.cell], st) ELSE st
  IN  [FoldRight(close, gone, s) EXCEPT !.env = SubSeq(s.env, 1, n)]

\* what a statement declares in its block
Declared(st) ==
  CASE st.st = "local" -> st.vs
    [] st.st = "localfunc" -> <<[name |-> st.name, kind |-> "reg"]>>
    [] OTHER -> <<>>

\* what the statements before the p-th one declare
DeclaredBefore(stats, p) == FlattenSeq([i \in 1 .. p - 1 |-> Declared(stats[i])])

\* the positions of a label
LabelsAt(stats, name) == {i \in DOMAIN stats : stats[i].st = "label" /\ stats[i].name = name}

----------------------------------------------------------------------------
(* Statements.  The result is the store and how the statement ended:       *)
(* <<"next">>, <<"goto", label>>, <<"break">> or <<"return", values>>.     *)

Ended(c, s) == [c |-> c, s |-> s]
NEXT == <<"next">>
BREAK == <<"break">>

RECURSIVE Run(_, _), RunFrom(_, _, _, _), RunBranches(_, _, _), RunWhile(_, _, _),
          RunRepeat(_, _, _), RunNumeric(_, _, _, _, _), RunGeneric(_, _, _, _, _)

\* a block from its p-th statement on; n variables were in scope before it
RunFrom(stats, p, n, s) ==
  LET r == Run(stats[p], s)
      target == IF r.c[1] = "goto" THEN LabelsAt(stats, r.c[2]) ELSE {}
      q == Min(target)
      kept == Min({n + Len(DeclaredBefore(stats, q)), Len(r.s.env)})
  IN  CASE p > Len(stats) -> Ended(NEXT, s)
        [] p <= Len(stats) /\ r.c = NEXT -> RunFrom(stats, p + 1, n, r.s)
        [] p <= Len(stats) /\ target # {} -> RunFrom(stats, q + 1, n, Leave(kept, r.s))
        [] OTHER -> r

RunBlock(stats, s) ==
  LET n == Len(s.env)
      r == RunFrom(stats, 1, n, s)
  IN  Ended(r.c, Leave(n, r.s))

RunBranches(branches, else, s) ==
  LET c == Eval(Head(branches).c, s)
  IN  CASE branches = <<>> /\ else = <<>> -> Ended(NEXT, s)
        [] branches = <<>> /\ else # <<>> -> RunBlock(else[1], s)
        [] branches # <<>> /\ ~IsFalse(c.v) -> RunBlock(Head(branches).body, c.s)
        [] OTHER -> RunBranches(Tail(branches), else, c.s)

\* how a loop goes on after a turn of its body
AfterTurn(r, again) ==
  CASE r.c = NEXT -> again
    [] r.c = BREAK -> Ended(NEXT, r.s)
    [] OTHER -> r

RunWhile(c, body, s) ==
  LET x == Eval(c, s)
      r == RunBlock(body, x.s)
  IN  IF IsFalse(x.v) THEN Ended(NEXT, x.s) ELSE AfterTurn(r, RunWhile(c, body, r.s))

\* the condition sees the variables of the body
RunRepeat(body, c, s) ==
  LET n == Len(s.env)
      r == RunFrom(body, 1, n, s)
      x == Eval(c, r.s)
      next == Leave(n, x.s)
  IN  IF r.c # NEXT THEN AfterTurn(Ended(r.c, Leave(n, r.s)), r)
      ELSE IF IsFalse(x.v) THEN RunRepeat(body, c, next) ELSE Ended(NEXT, next)

\* the numbers from i to the limit: those an integer can hold, if the loop is
\* one of integers
RunNumeric(name, v, limit, step, body) ==
  LET in(n) == v.v[1] = "flt" \/ Wrap(n) = n
      more(n) == in(n) /\ IF step > 0 THEN n <= limit ELSE n >= limit
      i == v.v[2]
      var == <<[name |-> name, kind |-> "const"]>>
      n == Len(v.s.env)
      r == RunBlock(body, Declare(var, <<v.v>>, v.s))
      left == Leave(n, r.s)
      next == [v |-> <<v.v[1], i + step>>, s |-> left]
  IN  IF ~more(i) THEN Ended(NEXT, v.s)
      ELSE AfterTurn(Ended(r.c, left), RunNumeric(name, next, limit, step, body))

\* f, state and control value, until the control value is nil
RunGeneric(names, f, control, body, s) ==
  LET n == Len(s.env)
      x == Invoke(f.f, <<f.state, control>>, s)
      vs == [i \in DOMAIN names |-> [name |-> names[i],
                                     kind |-> IF i = 1 THEN "const" ELSE "reg"]]
      values == Adjust(x.vs, Len(names))
      r == RunBlock(body, Declare(vs, values, x.s))
      left == Leave(n, r.s)
  IN  IF values[1] = Nil THEN Ended(NEXT, x.s)
      ELSE AfterTurn(Ended(r.c, left), RunGeneric(names, f, values[1], body, left))

RunNumericFor(st, s) ==
  LET x == EvalList(st.es, s)
      v == IF Len(x.vs) = 3 THEN x.vs ELSE Append(x.vs, Integer(1))
      whole == v[1][1] = "int" /\ v[3][1] = "int"
      first == <<IF whole THEN "int" ELSE "flt", v[1][2]>>
  IN  RunNumeric(st.name, [v |-> first, s |-> x.s], v[2][2], v[3][2], st.body)

\* the fourth value is closed when the loop ends, whichever way it does
RunGenericFor(st, s) ==
  LET x == EvalList(st.es, s)
      v == Adjust(x.vs, 4)
      hidden == Declare(<<[name |-> "(for state)", kind |-> "close"]>>, <<v[4]>>, x.s)
      r == RunGeneric(st.names, [f |-> v[1], state |-> v[2]], v[3], st.body, hidden)
  IN  Ended(r.c, Leave(Len(s.env), r.s))

Run(st, s) ==
  CASE st.st = "label" -> Ended(NEXT, s)
    [] st.st = "goto" -> Ended(<<"goto", st.name>>, s)
    [] st.st = "break" -> Ended(BREAK, s)
    [] st.st = "assign" -> Ended(NEXT, RunAssign(st.vs, st.es, s))
    [] st.st = "call" -> Ended(NEXT, EvalOpen(st.e, s).s)
    [] st.st = "return" ->
         LET x == EvalList(st.es, s) IN Ended(<<"return", x.vs>>, x.s)
    [] st.st = "local" ->
         LET x == EvalList(st.es, s)
         IN  Ended(NEXT, Declare(st.vs, Adjust(x.vs, Len(st.vs)), x.s))
    [] st.st = "localfunc" ->
         LET d == Declare(Declared(st), <<Nil>>, s)
             f == Eval([op |-> "fun", names |-> st.names], d)
         IN  Ended(NEXT, [f.s EXCEPT !.cells[Len(d.cells)] = f.v])
    [] st.st = "do" -> RunBlock(st.body, s)
    [] st.st = "if" -> RunBranches(st.branches, st.else, s)
    [] st.st = "while" -> RunWhile(st.c, st.body, s)
    [] st.st = "repeat" -> RunRepeat(st.body, st.c, s)
    [] st.st = "fornum" -> RunNumericFor(st, s)
    [] st.st = "forlist" -> RunGenericFor(st, s)

\* a function body, started with the values of its upvalues and parameters;
\* the values it returns, and the store it leaves
RunBody(body, init) ==
  LET names == Upvalues \o Params
      start == [env |-> <<>>, cells |-> <<>>, clos |-> <<>>, heap |-> init.heap,
                log |-> <<>>]
      vs == [i \in DOMAIN names |-> [name |-> names[i], kind |-> "reg"]]
      r == RunBlock(body, Declare(vs, init.up \o init.loc, start))
  IN  [ret |-> IF r.c[1] = "return" THEN r.c[2] ELSE <<>>, s |-> r.s]

----------------------------------------------------------------------------
(* Which programs are refused.                                             *)

\* 'around' are the blocks around a statement, the innermost last, each with
\* the statement's position in it and whether it is the body of a repeat

\* a goto meets the innermost visible label of its name, and does not enter the
\* scope of a variable; there is no such scope at the end of a block
GotoLegal(name, around) ==
  LET with == {i \in DOMAIN around : LabelsAt(around[i].stats, name) # {}}
      b == around[Max(with)]
      q == Min(LabelsAt(b.stats, name))
      declared(p) == Len(DeclaredBefore(b.stats, p))
  IN  /\ with # {}
      /\ \/ declared(q) <= declared(b.p)
         \/ ~b.repeat /\ \A i \in q .. Len(b.stats) : b.stats[i].st = "label"

LabelLegal(name, around) ==
  \A i \in DOMAIN around : \A q \in LabelsAt(around[i].stats, name) : q >= around[i].p

AssignLegal(vs, scope) ==
  \A i \in DOMAIN vs : vs[i].op = "name" => Lookup(scope, vs[i].v).kind = "reg"

RECURSIVE StatLegal(_, _, _, _), BlockLegal(_, _, _, _, _)

BlockLegal(stats, repeat, around, scope, inloop) ==
  \A p \in DOMAIN stats :
    StatLegal(stats[p], Append(around, [stats |-> stats, p |-> p, repeat |-> repeat]),
              scope \o DeclaredBefore(stats, p), inloop)

StatLegal(st, around, scope, inloop) ==
  LET block(stats, vs, loop) == BlockLegal(stats, FALSE, around, scope \o vs, loop)
      named(names, i) == [name |-> names[i], kind |-> IF i = 1 THEN "const" ELSE "reg"]
  IN  CASE st.st = "goto" -> GotoLegal(st.name, around)
        [] st.st = "label" -> LabelLegal(st.name, around)
        [] st.st = "break" -> inloop
        [] st.st = "assign" -> AssignLegal(st.vs, scope)
        [] st.st = "local" -> Cardinality({i \in DOMAIN st.vs : st.vs[i].kind = "close"}) <= 1
        [] st.st = "do" -> block(st.body, <<>>, inloop)
        [] st.st = "if" ->
             /\ \A i \in DOMAIN st.branches : block(st.branches[i].body, <<>>, inloop)
             /\ \A i \in DOMAIN st.else : block(st.else[i], <<>>, inloop)
        [] st.st = "while" -> block(st.body, <<>>, TRUE)
        [] st.st = "repeat" -> BlockLegal(st.body, TRUE, around, scope, TRUE)
        [] st.st = "fornum" -> block(st.body, <<named(<<st.name>>, 1)>>, TRUE)
        [] st.st = "forlist" ->
             block(st.body, [i \in DOMAIN st.names |-> named(st.names, i)], TRUE)
        [] OTHER -> TRUE

Legal(body) ==
  LET names == Upvalues \o Params
  IN  BlockLegal(body, FALSE, <<>>, [i \in DOMAIN names |-> [name |-> names[i], kind |-> "reg"]],
                 FALSE)
=============================================================================
