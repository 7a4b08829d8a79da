---------------------------- MODULE MCInterpreter ----------------------------
(***************************************************************************)
(* The programs TLC compiles and runs.  The function has three parameters: *)
(* x, a table t (with fields a and m) and the host function f; and two     *)
(* upvalues: u and a table g.  What a program is to show of its variables  *)
(* it returns.                                                             *)
(***************************************************************************)
EXTENDS Interpreter

N(n) == [op |-> "int", v |-> n]
D(n) == [op |-> "flt", v |-> n]
S(s) == [op |-> "str", v |-> Str(s)]
NIL == [op |-> "nil"]
Name(n) == [op |-> "name", v |-> n]
x == Name("x")
t == Name("t")
f == Name("f")
u == Name("u")
g == Name("g")
a == Name("a")
b == Name("b")
dots == [op |-> "dots"]
Un(op, e) == [op |-> op, a |-> e]
Bin(op, e1, e2) == [op |-> op, a |-> e1, b |-> e2]
Ix(e1, e2) == Bin("index", e1, e2)
Call(args) == [op |-> "call", a |-> f, args |-> args]
Method(o, m, args) == [op |-> "self", a |-> o, name |-> Str(m), args |-> args]
Item(e) == [op |-> "item", e |-> e]
Field(k, e) == [op |-> "field", key |-> k, e |-> e]
Table(items) == [op |-> "table", items |-> items]

Var(name, kind) == [name |-> name, kind |-> kind]
Names == <<"a", "b", "c">>
Local(n, es) == [st |-> "local", vs |-> [j \in 1 .. n |-> Var(Names[j], "reg")], es |-> es]
LocalAs(name, kind, e) == [st |-> "local", vs |-> <<Var(name, kind)>>, es |-> <<e>>]
FunctionStat(name, names) == [st |-> "localfunc", name |-> name, names |-> names]
Fun(names) == [op |-> "fun", names |-> names]
Assign(vs, es) == [st |-> "assign", vs |-> vs, es |-> es]
CallStat(e) == [st |-> "call", e |-> e]
Return(es) == [st |-> "return", es |-> es]
Branch(c, body) == [c |-> c, body |-> body]
IfElse(branches, else) == [st |-> "if", branches |-> branches, else |-> else]
When(c, body) == IfElse(<<Branch(c, body)>>, <<>>)
If(c, then, else) == IfElse(<<Branch(c, <<then>>)>>, IF else = <<>> THEN <<>> ELSE <<else>>)
Do(body) == [st |-> "do", body |-> body]
While(c, body) == [st |-> "while", c |-> c, body |-> body]
Repeat(body, c) == [st |-> "repeat", c |-> c, body |-> body]
ForNumStat(name, es, body) == [st |-> "fornum", name |-> name, es |-> es, body |-> body]
ForListStat(names, es, body) == [st |-> "forlist", names |-> names, es |-> es, body |-> body]
Goto(l) == [st |-> "goto", name |-> l]
Label(l) == [st |-> "label", name |-> l]
Break == [st |-> "break"]

World(x0, u0) ==
  [loc |-> <<x0, <<"tab", 1>>, FN>>,
   up |-> <<u0, <<"tab", 2>>>>,
   heap |-> << (Str("a") :> Integer(1)) @@ (Str("m") :> FN) @@ (Integer(1) :> Integer(2)),
               (Str("a") :> Str("b")) >>,
   log |-> <<>>]

Program(body, x0, u0) ==
  [vararg |-> TRUE, body |-> body, init |-> World(x0, u0)]
Plain(body, x0, u0) ==
  [vararg |-> FALSE, body |-> body, init |-> World(x0, u0)]

----------------------------------------------------------------------------
\* arithmetic and comparison: immediate, constant and register operands, with
\* and without a primitive result
Operands == {x, u, N(1), N(4), N(9), D(1), D(9), Call(<<x>>), Un("unm", x)}
Operators == {"add", "sub", "mul", "band", "shl", "shr",
              "eq", "ne", "lt", "le", "gt", "ge"}
ArithmeticPrograms ==
  { Plain(<<Local(1, <<Bin(op, e1, e2)>>), Return(<<a>>)>>, x0, Float(2)) :
      op \in Operators, e1 \in Operands, e2 \in Operands, x0 \in {Integer(3), Nil} }

Nested(op1, op2, e1, e2, e3) ==
  {Bin(op1, Bin(op2, e1, e2), e3), Bin(op1, e1, Bin(op2, e2, e3))}
NestedPrograms ==
  { Plain(<<Return(<<e>>)>>, Integer(2), Nil) :
      e \in UNION { Nested(op1, op2, e1, e2, e3) :
                      op1 \in {"add", "sub", "concat", "lt", "eq"},
                      op2 \in {"sub", "mul", "concat", "gt", "or"},
                      e1 \in {x, N(1)}, e2 \in {u, S("a")}, e3 \in {x, N(9), Call(<<u>>)} } }

\* short-circuit operators, as a value and as a condition
Atoms == {x, u, Bin("lt", x, N(1)), NIL}
Logic1 == Atoms \cup { Un("not", e) : e \in Atoms }
          \cup { Bin(op, e1, e2) : op \in {"and", "or"}, e1 \in Atoms, e2 \in Atoms }
Logic2 == { Un("not", e) : e \in Logic1 }
          \cup { Bin(op, e1, e2) : op \in {"and", "or"}, e1 \in Logic1, e2 \in Atoms }
          \cup { Bin(op, e1, e2) : op \in {"and", "or"}, e1 \in Atoms, e2 \in Logic1 }
Logic3 == { Bin(op, e1, Un("not", e2)) : op \in {"and", "or", "eq", "lt"},
                                        e1 \in Logic1, e2 \in Logic1 }
Use(n, e) ==
  CASE n = 1 -> Local(1, <<e>>)
    [] n = 2 -> Assign(<<x>>, <<e>>)
    [] n = 3 -> CallStat(Call(<<e>>))
    [] n = 4 -> If(e, Assign(<<x>>, <<NIL>>), <<Assign(<<u>>, <<e>>)>>)
LogicPrograms ==
  { Plain(<<Use(n, e), Return(<<IF n = 1 THEN a ELSE x>>)>>, x0, Integer(0)) :
      n \in 1 .. 4, e \in Logic2, x0 \in {Nil, Integer(0)} }
Logic3Programs == { Plain(<<Local(1, <<e>>), Return(<<a>>)>>, Nil, Bool(FALSE)) : e \in Logic3 }

\* assignments: every pair and some triples of targets, too many and too few
\* values
Targets == {x, u, t, g, Ix(t, x), Ix(t, S("a")), Ix(t, N(1)), Ix(g, S("a")),
            Ix(g, x), Ix(t, Ix(t, S("a")))}
ValueLists == {<<Call(<<x, u>>)>>, <<N(7), Call(<<x>>)>>, <<x, t, N(9)>>, <<dots>>, <<t, x>>}
Assigned(vs, es) ==
  Program(<<Assign(vs, es), Return(<<x, t>>)>>, Integer(1), Nil)
AssignPrograms ==
  { Assigned(<<e>>, vs) : e \in Targets, vs \in ValueLists }
  \cup { Assigned(<<e1, e2>>, vs) : e1 \in Targets, e2 \in Targets, vs \in ValueLists }
  \cup { Assigned(<<e1, e2, e3>>, vs) :
           e1 \in {Ix(t, x), Ix(g, S("a"))}, e2 \in {t, g, x}, e3 \in {x, t, g},
           vs \in ValueLists }

\* reading tables: constant, integer and register keys, of variables and upvalues
Reads == {Ix(t, x), Ix(t, S("a")), Ix(t, N(1)), Ix(t, D(1)), Ix(t, N(9)), Ix(g, S("a")),
          Ix(g, x), Ix(u, NIL), Ix(t, Ix(t, S("a"))), Ix(Ix(g, x), S("a")),
          Ix(t, Bin("or", NIL, x)), Ix(Bin("and", x, t), S("a")), Ix(t, Un("not", x))}
ReadPrograms ==
  { Plain(<<Return(<<Bin(op, e1, e2)>>)>>, Integer(1), Integer(3)) :
      op \in {"concat", "sub", "eq", "and"}, e1 \in Reads, e2 \in Reads }

\* calls, methods, varargs and constructors, alone and in lists
ArgLists == {<<>>, <<x>>, <<dots>>, <<x, dots>>, <<dots, x>>, <<Un("paren", dots)>>,
             <<Call(<<x, u>>)>>, <<Call(<<x>>), Call(<<u, x>>)>>}
Calls == { Call(as) : as \in ArgLists } \cup { Method(t, "m", as) : as \in ArgLists }
         \cup {Method(Ix(t, S("a")), "m", <<x>>)}
Tables == { Table(items) : items \in
              {<<>>, <<Item(x)>>, <<Item(x), Item(u), Item(N(9))>>,
               <<Item(x), Item(dots)>>, <<Item(u), Item(x), Item(Call(<<x, u>>))>>,
               <<Field(S("a"), x), Item(dots), Field(x, u)>>,
               <<Item(N(1)), Field(S("b"), Call(<<x, u>>)), Item(S("a"))>>} }
CallPrograms ==
  UNION { { Program(<<Local(n, <<e>>), Return(SubSeq(<<a, b, Name("c")>>, 1, n))>>,
                    Str("k"), Integer(5)) : n \in 1 .. 3 }
          \cup { Program(<<Return(es)>>, Str("k"), Nil) : es \in {<<e>>, <<e, e>>, <<x, e>>} }
          \cup { Program(<<Local(2, <<e, x, N(1)>>), Return(<<a, b>>)>>, Str("k"), Nil) }
          : e \in Calls \cup Tables }
  \cup { Program(<<CallStat(e)>>, Str("k"), Nil) : e \in Calls }

\* several statements: constants that do not fit, runs of nil, jumps around
\* them
Lines == {Local(1, <<>>), Local(2, <<NIL>>), Assign(<<x>>, <<NIL>>),
          Assign(<<u>>, <<S("b")>>), Assign(<<x>>, <<S("c")>>),
          CallStat(Method(t, "m", <<x>>)), Local(1, <<Bin("sub", x, N(9))>>),
          If(x, Assign(<<x>>, <<NIL>>), <<>>),
          If(Bin("eq", x, S("c")), Assign(<<x>>, <<NIL>>), <<Assign(<<u>>, <<NIL>>)>>)}
LinePrograms ==
  { Program(<<Local(1, <<u>>), s1, s2, s3, Return(<<a, x>>)>>, Integer(1), Nil) :
      s1 \in Lines, s2 \in Lines, s3 \in Lines }

----------------------------------------------------------------------------
\* blocks: what can be between the beginning and the end of a block.  t is a
\* number here, which every jump back counts down, so that every program ends;
\* x is a parameter the closures of the block share.
Dec == Assign(<<t>>, <<Bin("sub", t, N(1))>>)
Positive == Bin("lt", N(0), t)
CallU == CallStat([op |-> "call", a |-> u, args |-> <<>>])
Pieces == { Local(1, <<x>>),
            LocalAs("a", "close", x),
            LocalAs("a", "close", Fun(<<"a", "x">>)),
            LocalAs("a", "const", N(5)),
            FunctionStat("a", <<"a">>),
            Assign(<<u>>, <<Fun(<<"a", "x">>)>>),
            Assign(<<a>>, <<x>>),
            CallU,
            When(Positive, <<Dec, Goto("l")>>),
            Label("l"),
            When(Bin("le", t, N(0)), <<Break>>),
            Do(<<Local(1, <<x>>), Assign(<<u>>, <<Fun(<<"a">>)>>),
                 When(Positive, <<Dec, Goto("l")>>)>>),
            When(Positive, <<Return(<<Call(<<a>>)>>)>>) }
Context(n, body) ==
  CASE n = 1 -> <<While(Positive, <<Dec>> \o body)>>
    [] n = 2 -> <<Repeat(<<Dec>> \o body, Bin("le", t, N(0)))>>
    [] n = 3 -> <<ForNumStat("a", <<N(1), N(2)>>, body)>>
    [] n = 4 -> <<ForListStat(<<"a", "b">>, <<g, N(2), NIL, x>>, body)>>
    [] n = 5 -> <<Do(body), Label("l")>>
    [] n = 6 -> body
In(n, body) ==
  [vararg |-> FALSE,
   body |-> <<Local(1, <<N(3)>>)>> \o Context(n, body)
            \o <<CallU, CallU, Return(IF n <= 4 THEN <<a, x>> ELSE <<a>>)>>,
   init |-> [World(Integer(2), Nil) EXCEPT !.loc[2] = Integer(2), !.up[2] = COUNT]]
BlockPrograms ==
  { In(n, <<s1, s2, s3>>) : n \in 1 .. 6, s1 \in Pieces, s2 \in Pieces, s3 \in Pieces }

\* numeric loops at the limits of the integers
ForPrograms ==
  { Plain(<<ForNumStat("a", <<from, to, by>>, <<CallStat(Call(<<a>>))>>)>>, Nil, Nil) :
      from \in {N(-32), N(-3), N(0), N(31), D(2)},
      to \in {N(-32), N(30), N(31), D(3), D(40), D(-40)},
      by \in {N(1), N(-1), N(7), N(31), N(-32), D(20)} }

MCPrograms == <<ArithmeticPrograms, NestedPrograms, LogicPrograms, Logic3Programs,
                AssignPrograms, ReadPrograms, CallPrograms, LinePrograms,
                BlockPrograms, ForPrograms>>

\* an integer literal compared with an expression that may be a float literal
FloatPrograms ==
  << { Plain(<<Return(<<Bin(op, N(n), Bin("or", x, D(m)))>>)>>, x0, Nil) :
         op \in {"lt", "ge", "add"}, n \in {1, 2}, m \in {1, 2},
         x0 \in {<<"tab", 1>>, Nil, Integer(1)} } >>

MCParams == <<"x", "t", "f">>
MCUpvalues == <<"u", "g">>
MCVarargs == <<Str("v"), Nil>>
=============================================================================
