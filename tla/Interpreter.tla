---------------------------- MODULE Interpreter ----------------------------
(***************************************************************************)
(* The interpreter loop (lvm.c, vmkV_execute) running what the compiler    *)
(* made of one function: one action per group of instructions.             *)
(*                                                                         *)
(* 'regs' are the registers of the running function, 'top' is L->top where *)
(* an instruction with many results leaves it, and 'store' is what is      *)
(* outside the registers: the UpVal objects, [reg, v] with reg = -1 when   *)
(* closed; the function's own upvalues; the closures; tbclist, as          *)
(* registers; the tables and the log.  A register that was never written   *)
(* holds Junk.  Calls are to the host, or to closures that do what         *)
(* Semantics says: the frames of a call are the business of module Calls.  *)
(***************************************************************************)
EXTENDS Blocks, Semantics

CONSTANTS Programs,      \* families (sets) of functions to compile and run, each
                         \* [vararg, body, init]
          NRegs,         \* size of the stack frame
          Compiled(_, _),   \* the compiler, on [vararg] and [body]
          Meaning(_, _),    \* the reference, on [body] and [init]
          Accepted(_)       \* what the language allows, on [body]

ASSUME RegisterFile == NRegs \in Nat /\ NRegs > NParams

VARIABLES prog,     \* the source
          fs,       \* what the compiler made of it
          pc, regs, top,
          store,    \* [up, cells, clos, tbc, heap, log]
          ret       \* the values returned
vars == <<prog, fs, pc, regs, top, store, ret>>

NoFunction == [code |-> <<>>, refused |-> FALSE, ok |-> TRUE]
Junk == <<"junk">>
Running == pc \in 0 .. Pc(fs) - 1
Done == fs # NoFunction /\ ~Running

Init ==
  /\ \E family \in DOMAIN Programs : prog \in Programs[family]
  /\ fs = NoFunction /\ pc = 0 /\ top = 0 /\ ret = <<>>
  /\ regs = [r \in 0 .. NRegs - 1 |->
               IF r < NParams THEN prog.init.loc[r + 1] ELSE Junk]
  /\ store = [up |-> [j \in DOMAIN Upvalues |-> j],
              cells |-> [j \in DOMAIN Upvalues |-> [reg |-> -1, v |-> prog.init.up[j]]],
              clos |-> <<>>, tbc |-> <<>>, heap |-> prog.init.heap, log |-> <<>>]

\* vmkY_parser
Compile ==
  /\ fs = NoFunction
  /\ fs' = Compiled(prog.vararg, prog.body)
  /\ UNCHANGED <<prog, pc, regs, top, store, ret>>

----------------------------------------------------------------------------
(* Operands.                                                               *)

i == At(fs, pc)                 \* the instruction to execute
RA == regs[i.A]
RB == regs[i.B]
RC == regs[i.C]
KonstB == fs.k[i.B + 1]
KonstC == fs.k[i.C + 1]
RKC == IF i.k = 1 THEN KonstC ELSE RC
Op(ops) == Running /\ i.op \in ops
Frame == UNCHANGED <<prog, fs>>
Quiet == UNCHANGED <<top, store, ret>>

SetRA(v) == regs' = [regs EXCEPT ![i.A] = v]
Step(n) == pc' = pc + n

\* values put in consecutive registers of rs; n = -1 puts them all and sets top
PutMany(rs, from, vs, n) ==
  LET m == IF n < 0 THEN Len(vs) ELSE n
  IN  /\ regs' = [r \in DOMAIN rs |->
                    IF r \in from .. from + m - 1 THEN Adjust(vs, m)[r - from + 1]
                    ELSE rs[r]]
      /\ top' = IF n < 0 THEN from + m ELSE top

Between(lo, hi) == [j \in 1 .. hi - lo |-> regs[lo + j - 1]]

----------------------------------------------------------------------------
(* Upvalues, calls and closing, on m = [regs, store].                      *)

Machine == [regs |-> regs, store |-> store]

\* vmkF_findupval: the open upvalue of a register, a new one if there is none
OpenAt(cells, reg) == {c \in DOMAIN cells : cells[c].reg = reg}
FindUpval(s, reg) ==
  LET new == [s EXCEPT !.cells = Append(@, [reg |-> reg, v |-> Nil])]
  IN  IF OpenAt(s.cells, reg) = {} THEN [s |-> new, c |-> Len(new.cells)]
      ELSE [s |-> s, c |-> Min(OpenAt(s.cells, reg))]

\* the value an UpVal points to
ValueOf(m, c) == LET u == m.store.cells[c] IN IF u.reg = -1 THEN u.v ELSE m.regs[u.reg]
SetValue(m, c, v) ==
  LET u == m.store.cells[c]
  IN  IF u.reg = -1 THEN [m EXCEPT !.store.cells[c].v = v] ELSE [m EXCEPT !.regs[u.reg] = v]

\* pushclosure
PushClosure(s, proto) ==
  LET capture(acc, d) ==
        LET f == FindUpval(acc.s, d.idx)
            var(c) == [kind |-> d.kind, cell |-> c, v |-> d.v]
        IN  CASE d.in = "stack" -> [s |-> f.s, c |-> Append(acc.c, var(f.c))]
              [] d.in = "up" -> [acc EXCEPT !.c = Append(@, var(acc.s.up[d.idx + 1]))]
              [] d.in = "const" -> [acc EXCEPT !.c = Append(@, var(0))]
      all == FoldLeft(capture, [s |-> s, c |-> <<>>], proto)
  IN  [all.s EXCEPT !.clos = Append(@, all.c)]

Noted(m, c) == [j \in DOMAIN c |-> IF c[j].cell = 0 THEN c[j].v ELSE ValueOf(m, c[j].cell)]

\* a closure notes its variables and adds one to those it may assign
RunClosure(n, m) ==
  LET c == m.store.clos[n]
      bump(s, var) == IF var.kind = "reg" THEN SetValue(s, var.cell, Bumped(ValueOf(s, var.cell)))
                      ELSE s
  IN  FoldLeft(bump, [m EXCEPT !.store.log = Append(@, <<"closure", n>> \o Noted(m, c))], c)

\* vmkD_call
CallValue(f, args, m) ==
  CASE f[1] = "closure" -> [vs |-> <<>>, m |-> RunClosure(f[2], m)]
    [] f = COUNT -> [vs |-> NextCount(args[1], args[2]), m |-> m]
    [] OTHER -> [vs |-> args, m |-> [m EXCEPT !.store.log = NotedCall(args, @)]]

\* vmkF_closeupval
CloseUpvals(m, level) ==
  LET close(u) == IF u.reg >= level THEN [reg |-> -1, v |-> m.regs[u.reg]] ELSE u
  IN  [m EXCEPT !.store.cells = FoldLeft(LAMBDA done, u : Append(done, close(u)), <<>>, @)]

\* vmkF_close: first the upvalues, then the to-be-closed variables, the last first
CloseDown(m, level) ==
  LET call(reg, s) == LET v == s.regs[reg]
                      IN  IF v[1] = "closure" THEN RunClosure(v[2], s)
                          ELSE [s EXCEPT !.store.log = Append(@, <<"close", v>>)]
      gone == SelectSeq(m.store.tbc, LAMBDA reg : reg >= level)
      left == SelectSeq(m.store.tbc, LAMBDA reg : reg < level)
  IN  FoldRight(call, gone, [CloseUpvals(m, level) EXCEPT !.store.tbc = left])

Become(m) == regs' = m.regs /\ store' = m.store

----------------------------------------------------------------------------
(* Moves and loads.                                                        *)

ExecLoad ==
  /\ Op({"MOVE", "LOADI", "LOADF", "LOADK", "LOADFALSE", "LOADTRUE", "GETUPVAL"})
  /\ SetRA(CASE i.op = "MOVE" -> RB
             [] i.op = "LOADI" -> Integer(i.B)
             [] i.op = "LOADF" -> Float(i.B)
             [] i.op = "LOADK" -> KonstB
             [] i.op = "LOADFALSE" -> Bool(FALSE)
             [] i.op = "LOADTRUE" -> Bool(TRUE)
             [] i.op = "GETUPVAL" -> ValueOf(Machine, store.up[i.B + 1]))
  /\ Step(1) /\ Frame /\ Quiet

\* the loads that skip the next instruction
ExecLoadSkip ==
  /\ Op({"LFALSESKIP", "LOADKX"})
  /\ SetRA(IF i.op = "LFALSESKIP" THEN Bool(FALSE)
           ELSE fs.k[At(fs, pc + 1).A + 1])
  /\ Step(2) /\ Frame /\ Quiet

ExecLoadNil ==
  /\ Op({"LOADNIL"})
  /\ regs' = [r \in DOMAIN regs |-> IF r \in i.A .. i.A + i.B THEN Nil ELSE regs[r]]
  /\ Step(1) /\ Frame /\ Quiet

ExecSetUpval ==
  /\ Op({"SETUPVAL"})
  /\ Become(SetValue(Machine, store.up[i.B + 1], RA))
  /\ Step(1) /\ Frame /\ UNCHANGED <<top, ret>>

ExecVararg ==
  \/ /\ Op({"VARARGPREP"})
     /\ Step(1) /\ Frame /\ Quiet /\ UNCHANGED regs
  \/ /\ Op({"VARARG"})
     /\ PutMany(regs, i.A, Varargs, i.C - 1)
     /\ Step(1) /\ Frame /\ UNCHANGED <<store, ret>>

----------------------------------------------------------------------------
(* Tables.                                                                 *)

ExecGet ==
  /\ Op({"GETTABUP", "GETTABLE", "GETI", "GETFIELD", "SELF"})
  /\ LET t == IF i.op = "GETTABUP" THEN ValueOf(Machine, store.up[i.B + 1]) ELSE RB
         key == CASE i.op = "GETI" -> Integer(i.C)
                  [] i.op = "GETTABLE" -> RC
                  [] OTHER -> KonstC
         g == Get(store.heap, t, key, store.log)
         self == IF i.op = "SELF" THEN [regs EXCEPT ![i.A + 1] = t] ELSE regs
     IN  /\ regs' = [self EXCEPT ![i.A] = g.v]
         /\ store' = [store EXCEPT !.log = g.log]
  /\ Step(1) /\ Frame /\ UNCHANGED <<top, ret>>

ExecSet ==
  /\ Op({"SETTABUP", "SETTABLE", "SETI", "SETFIELD"})
  /\ LET t == IF i.op = "SETTABUP" THEN ValueOf(Machine, store.up[i.A + 1]) ELSE RA
         key == CASE i.op = "SETI" -> Integer(i.B)
                  [] i.op = "SETTABLE" -> RB
                  [] OTHER -> KonstB
     IN  store' = Store(t, key, RKC, store)
  /\ Step(1) /\ Frame /\ UNCHANGED <<regs, top, ret>>

\* the table is new: its index is one more than there are tables
ExecNewTable ==
  /\ Op({"NEWTABLE"})
  /\ SetRA(<<"tab", Len(store.heap) + 1>>)
  /\ store' = [store EXCEPT !.heap = Append(@, <<>>)]
  /\ Step(2) /\ Frame /\ UNCHANGED <<top, ret>>

ExecSetList ==
  /\ Op({"SETLIST"})
  /\ LET n == IF i.B = 0 THEN top - i.A - 1 ELSE i.B
     IN  store' = FoldLeft(LAMBDA s, j : Store(RA, Integer(i.C + j), regs[i.A + j], s),
                           store, [j \in 1 .. n |-> j])
  /\ Step(1) /\ Frame /\ UNCHANGED <<regs, top, ret>>

----------------------------------------------------------------------------
(* Operators.                                                              *)

\* what the arithmetic opcodes compute, and on which operands
Binary(op) ==
  CASE op \in {"ADD", "ADDK", "ADDI"} -> "add"
    [] op \in {"SUB", "SUBK"} -> "sub"
    [] op \in {"MUL", "MULK"} -> "mul"
    [] op \in {"BAND", "BANDK"} -> "band"
    [] op \in {"SHL", "SHLI"} -> "shl"
    [] op \in {"SHR", "SHRI"} -> "shr"

ArithOps == {"ADD", "ADDK", "ADDI", "SUB", "SUBK", "MUL", "MULK", "BAND",
             "BANDK", "SHL", "SHLI", "SHR", "SHRI"}

\* on success the metamethod call that follows is skipped; without a result
\* it is left to it
ExecArith ==
  /\ Op(ArithOps)
  /\ LET other == CASE i.op \in {"ADDI", "SHRI", "SHLI"} -> Integer(i.C)
                    [] i.op \in {"ADDK", "SUBK", "MULK", "BANDK"} -> KonstC
                    [] OTHER -> RC
         raw == IF i.op = "SHLI" THEN RawArith("shl", other, RB)
                ELSE RawArith(Binary(i.op), RB, other)
     IN  IF raw # <<>> THEN SetRA(raw[1]) /\ Step(2) ELSE Step(1) /\ UNCHANGED regs
  /\ Frame /\ Quiet

\* the result goes to the destination of the instruction before this one
ExecMetaBinary ==
  /\ Op({"MMBIN", "MMBINI", "MMBINK"})
  /\ LET p2 == CASE i.op = "MMBIN" -> RB
                 [] i.op = "MMBINI" -> Integer(i.B)
                 [] i.op = "MMBINK" -> KonstB
         m == Meta(i.C, IF i.k = 1 THEN <<p2, RA>> ELSE <<RA, p2>>, store.log)
     IN  /\ regs' = [regs EXCEPT ![At(fs, pc - 1).A] = m.v]
         /\ store' = [store EXCEPT !.log = m.log]
  /\ Step(1) /\ Frame /\ UNCHANGED <<top, ret>>

ExecUnary ==
  /\ Op({"UNM", "NOT"})
  /\ LET r == IF i.op = "NOT" THEN [v |-> Bool(IsFalse(RB)), log |-> store.log]
              ELSE Arith("unm", RB, RB, store.log)
     IN  SetRA(r.v) /\ store' = [store EXCEPT !.log = r.log]
  /\ Step(1) /\ Frame /\ UNCHANGED <<top, ret>>

\* vmkV_concat joins from the right; the intermediate values overwrite the
\* operands
ExecConcat ==
  /\ Op({"CONCAT"})
  /\ LET n == i.B
         joined == FoldRight(LAMBDA r, acc :
                               LET j == Join(regs[r], acc.v, acc.log)
                               IN  [v |-> j.v, log |-> j.log],
                             [j \in 1 .. n - 1 |-> i.A + j - 1],
                             [v |-> regs[i.A + n - 1], log |-> store.log])
     IN  SetRA(joined.v) /\ store' = [store EXCEPT !.log = joined.log]
  /\ Step(1) /\ Frame /\ UNCHANGED <<top, ret>>

----------------------------------------------------------------------------
(* Jumps.  A test either skips the jump after it or performs it.           *)

ExecJump ==
  /\ Op({"JMP"})
  /\ Step(1 + i.J) /\ Frame /\ Quiet /\ UNCHANGED regs

CondJumpTo(cond) ==
  IF cond # (i.k = 1) THEN Step(2) ELSE Step(2 + At(fs, pc + 1).J)

ExecEqual ==
  /\ Op({"EQ", "EQK", "EQI"})
  /\ CondJumpTo(RawEqual(RA, CASE i.op = "EQ" -> RB
                               [] i.op = "EQK" -> KonstB
                               [] i.op = "EQI" -> Integer(i.B)))
  /\ Frame /\ Quiet /\ UNCHANGED regs

\* an immediate operand reaches a metamethod with the type C says it had
ExecOrder ==
  /\ Op({"LT", "LE", "LTI", "LEI", "GTI", "GEI"})
  /\ LET im == IF i.C = 1 THEN Float(i.B) ELSE Integer(i.B)
         event == IF i.op \in {"LT", "LTI", "GTI"} THEN "lt" ELSE "le"
         o == CASE i.op \in {"LT", "LE"} -> Order(event, RA, RB, store.log)
                [] i.op \in {"LTI", "LEI"} -> Order(event, RA, im, store.log)
                [] i.op \in {"GTI", "GEI"} -> Order(event, im, RA, store.log)
     IN  CondJumpTo(o.b) /\ store' = [store EXCEPT !.log = o.log]
  /\ Frame /\ UNCHANGED <<regs, top, ret>>

ExecTest ==
  /\ Op({"TEST"})
  /\ CondJumpTo(~IsFalse(RA))
  /\ Frame /\ Quiet /\ UNCHANGED regs

ExecTestSet ==
  /\ Op({"TESTSET"})
  /\ IF IsFalse(RB) = (i.k = 1) THEN Step(2) /\ UNCHANGED regs
     ELSE SetRA(RB) /\ Step(2 + At(fs, pc + 1).J)
  /\ Frame /\ Quiet

----------------------------------------------------------------------------
(* Calls and returns.                                                      *)

Arguments == Between(i.A + 1, IF i.B = 0 THEN top ELSE i.A + i.B)

\* vmkD_precall, results adjusted by vmkD_poscall
ExecCall ==
  /\ Op({"CALL"})
  /\ LET c == CallValue(RA, Arguments, Machine)
     IN  PutMany(c.m.regs, i.A, c.vs, i.C - 1) /\ store' = c.m.store
  /\ Step(1) /\ Frame /\ UNCHANGED ret

\* the frame is reused, so its upvalues are closed before the call
ExecTailCall ==
  /\ Op({"TAILCALL"})
  /\ LET m == IF i.k = 1 THEN CloseUpvals(Machine, 0) ELSE Machine
         c == CallValue(RA, Arguments, m)
     IN  ret' = c.vs /\ Become(c.m)
  /\ pc' = Pc(fs) /\ Frame /\ UNCHANGED top

\* the values are moved to the caller after the variables are closed
ExecReturn ==
  /\ Op({"RETURN", "RETURN0", "RETURN1"})
  /\ LET m == IF i.k = 1 THEN CloseDown(Machine, 0) ELSE Machine
         n == CASE i.op = "RETURN0" -> 0
                [] i.op = "RETURN1" -> 1
                [] OTHER -> IF i.B = 0 THEN top - i.A ELSE i.B - 1
     IN  /\ ret' = [j \in 1 .. n |-> m.regs[i.A + j - 1]]
         /\ Become(m)
  /\ pc' = Pc(fs) /\ Frame /\ UNCHANGED top

----------------------------------------------------------------------------
(* Closures, closing, loops.                                               *)

ExecClosure ==
  /\ Op({"CLOSURE"})
  /\ store' = PushClosure(store, fs.p[i.B + 1])
  /\ SetRA(<<"closure", Len(store.clos) + 1>>)
  /\ Step(1) /\ Frame /\ UNCHANGED <<top, ret>>

ExecClose ==
  /\ Op({"CLOSE"})
  /\ Become(CloseDown(Machine, i.A))
  /\ Step(1) /\ Frame /\ UNCHANGED <<top, ret>>

\* vmkF_newtbcupval: false values don't need to be closed
MarkTbc(rs, reg) ==
  store' = IF IsFalse(rs[reg]) THEN store ELSE [store EXCEPT !.tbc = Append(@, reg)]

ExecTbc ==
  /\ Op({"TBC"})
  /\ MarkTbc(regs, i.A)
  /\ Step(1) /\ Frame /\ UNCHANGED <<regs, top, ret>>

MaxInteger == 2^(Width - 1) - 1
MinInteger == - 2^(Width - 1)
Unsigned(n) == n % 2^Width

\* forlimit: a float limit is clipped to the integers
Clip(n) ==
  CASE n > MaxInteger -> MaxInteger [] n < MinInteger -> MinInteger [] OTHER -> n
NoTurn(init, limit, step) ==
  \/ step < 0 /\ limit > MaxInteger
  \/ step > 0 /\ limit < MinInteger
  \/ IF step > 0 THEN init > Clip(limit) ELSE init < Clip(limit)

\* forprep: how many turns follow the first, without overflow of the counter
Turns(init, limit, step) ==
  IF step > 0 THEN Unsigned(Clip(limit) - init) \div Unsigned(step)
  ELSE Unsigned(init - Clip(limit)) \div (Wrap(- (step + 1)) + 1)

\* an integer loop keeps a counter, the step and the control variable; a float
\* loop the limit, the step and the control variable
ExecForPrep ==
  /\ Op({"FORPREP"})
  /\ LET init == RA
         limit == regs[i.A + 1]
         step == regs[i.A + 2]
         whole == init[1] = "int" /\ step[1] = "int"
         skip == IF whole THEN NoTurn(init[2], limit[2], step[2])
                 ELSE IF step[2] > 0 THEN limit[2] < init[2] ELSE init[2] < limit[2]
         state == IF whole
                  THEN <<Integer(Wrap(Turns(init[2], limit[2], step[2]))), step, init>>
                  ELSE <<Float(limit[2]), Float(step[2]), Float(init[2])>>
     IN  IF skip THEN Step(i.J + 2) /\ UNCHANGED <<regs, top>>
         ELSE Step(1) /\ PutMany(regs, i.A, state, 3)
  /\ Frame /\ UNCHANGED <<store, ret>>

\* OP_FORLOOP, floatforloop
ExecForLoop ==
  /\ Op({"FORLOOP"})
  /\ LET step == regs[i.A + 1]
         whole == step[1] = "int"
         next == regs[i.A + 2][2] + step[2]
         more == IF whole THEN Unsigned(RA[2]) > 0
                 ELSE IF step[2] > 0 THEN next <= RA[2] ELSE RA[2] <= next
         state == IF whole THEN <<Integer(Wrap(Unsigned(RA[2]) - 1)), step, Integer(Wrap(next))>>
                  ELSE <<RA, step, Float(next)>>
     IN  IF more THEN Step(1 - i.J) /\ PutMany(regs, i.A, state, 3)
         ELSE Step(1) /\ UNCHANGED <<regs, top>>
  /\ Frame /\ UNCHANGED <<store, ret>>

\* the control and the closing variable change places
ExecTForPrep ==
  /\ Op({"TFORPREP"})
  /\ LET swapped == [regs EXCEPT ![i.A + 2] = regs[i.A + 3], ![i.A + 3] = regs[i.A + 2]]
     IN  regs' = swapped /\ MarkTbc(swapped, i.A + 2)
  /\ Step(1 + i.J) /\ Frame /\ UNCHANGED <<top, ret>>

\* the call uses the registers above the control variable
ExecTForCall ==
  /\ Op({"TFORCALL"})
  /\ LET state == regs[i.A + 1]
         control == regs[i.A + 3]
         copied == [regs EXCEPT ![i.A + 3] = RA, ![i.A + 4] = state, ![i.A + 5] = control]
         c == CallValue(RA, <<state, control>>, [regs |-> copied, store |-> store])
     IN  PutMany(c.m.regs, i.A + 3, c.vs, i.C) /\ store' = c.m.store
  /\ Step(1) /\ Frame /\ UNCHANGED ret

ExecTForLoop ==
  /\ Op({"TFORLOOP"})
  /\ Step(IF regs[i.A + 3] # Nil THEN 1 - i.J ELSE 1)
  /\ Frame /\ Quiet /\ UNCHANGED regs

Next ==
  \/ Compile
  \/ ExecLoad \/ ExecLoadSkip \/ ExecLoadNil \/ ExecSetUpval \/ ExecVararg
  \/ ExecGet \/ ExecSet \/ ExecNewTable \/ ExecSetList
  \/ ExecArith \/ ExecMetaBinary \/ ExecUnary \/ ExecConcat
  \/ ExecJump \/ ExecEqual \/ ExecOrder \/ ExecTest \/ ExecTestSet
  \/ ExecCall \/ ExecTailCall \/ ExecReturn
  \/ ExecClosure \/ ExecClose \/ ExecTbc
  \/ ExecForPrep \/ ExecForLoop \/ ExecTForPrep \/ ExecTForCall \/ ExecTForLoop
  \/ Done /\ UNCHANGED vars

Spec == Init /\ [][Next]_vars

----------------------------------------------------------------------------
(* Properties.                                                             *)

\* A metamethod receives the operands the source wrote, with their types: "when
\* using an immediate operand, 'isfloat' tells whether the original value was a
\* float" (codeorder, lcode.c).
OperandsAgree == Done => store.log = Meaning(prog.body, prog.init).s.log

\* What the compiled function leaves behind is what its source means: the
\* values returned, the upvalues, the tables, what every closure holds, and
\* every call, closing and metamethod, with its arguments, in source order; and
\* nothing points into the frame it had.  One pass, with values kept unplaced as
\* long as possible, jumps threaded through the code, and gotos that learn later
\* what they have to close, must not show (vmkK_infix, vmkK_posfix, exp2reg,
\* check_conflict, closegoto, repeatstat).
ResultAgrees ==
  Done /\ ~fs.refused =>
    LET w == Meaning(prog.body, prog.init)
        value(c) == w.s.cells[c]
    IN  /\ ret = w.ret
        /\ store.heap = w.s.heap
        /\ store.log = w.s.log
        /\ \A n \in DOMAIN Upvalues : ValueOf(Machine, store.up[n]) = value(n)
        /\ \A n \in DOMAIN w.s.clos :
             LET c == w.s.clos[n]
             IN  Noted(Machine, store.clos[n]) = [j \in DOMAIN c |-> value(c[j].cell)]
        /\ store.tbc = <<>>
        /\ \A c \in DOMAIN store.cells : store.cells[c].reg = -1

\* The compiler refuses what the language forbids and nothing else: a goto that
\* sees no label or would enter the scope of a variable (not that of the last
\* label of a block), a label repeated where it is visible, a break outside
\* loops, an assignment to a constant (closegoto, createlabel, solvegotos,
\* undefgoto, checkrepeated, breakstat, check_readonly).  It decides when blocks
\* end, from counts of variables it adjusts on the way out.
RefusesExactly == fs # NoFunction => (fs.refused = ~Accepted(prog.body))

\* No vmk_assert of the code generator fails: registers are freed in the
\* order opposite to their allocation, only comparisons are negated, only
\* jumps are patched, a list closed by vmkK_infix is still closed in
\* vmkK_posfix, blocks start with no temporaries (lcode.c, lparser.c); nor of
\* the instructions that close: a CLOSE that runs is alive, a tail call leaves
\* no variable to be closed (lvm.c).
AssertsHold ==
  /\ fs # NoFunction => fs.ok
  /\ Op({"CLOSE"}) => i.B = 0
  /\ Op({"TAILCALL"}) => store.tbc = <<>>

\* the registers an instruction reads or writes, those above an open 'top'
\* excepted (vmkD_precall and vmkT_getvarargs check the stack for them)
Touches(ins) ==
  LET A == ins.A B == ins.B C == ins.C
  IN  CASE ins.op \in {"MOVE", "UNM", "NOT", "TESTSET", "EQ", "LT", "LE", "MMBIN",
                       "GETI", "GETFIELD", "ADDK", "SUBK", "MULK", "BANDK", "ADDI",
                       "SHRI", "SHLI"} -> {A, B}
        [] ins.op \in {"GETTABLE"} \cup (ArithOps \ {"ADDK", "SUBK", "MULK", "BANDK",
                       "ADDI", "SHRI", "SHLI"}) -> {A, B, C}
        [] ins.op \in {"SETI", "SETFIELD"} -> {A} \cup IF ins.k = 1 THEN {} ELSE {C}
        [] ins.op = "SETTABUP" -> IF ins.k = 1 THEN {} ELSE {C}
        [] ins.op = "SETTABLE" -> {A, B} \cup IF ins.k = 1 THEN {} ELSE {C}
        [] ins.op = "SELF" -> {A, A + 1, B}
        [] ins.op = "LOADNIL" -> A .. A + B
        [] ins.op = "CONCAT" -> A .. A + B - 1
        [] ins.op = "SETLIST" -> A .. A + ins.B
        [] ins.op = "VARARG" -> A .. A + C - 2
        [] ins.op = "CALL" -> {A} \cup (A .. A + B - 1) \cup (A .. A + C - 2)
        [] ins.op \in {"RETURN", "TAILCALL"} -> A .. A + B - 1 - Bit(ins.op = "RETURN")
        [] ins.op \in {"FORPREP", "FORLOOP"} -> A .. A + 2
        [] ins.op \in {"TFORPREP", "TFORLOOP"} -> A .. A + 3
        [] ins.op = "TFORCALL" -> (A .. A + 5) \cup (A + 3 .. A + 2 + C)
        [] ins.op \in {"JMP", "EXTRAARG", "VARARGPREP", "RETURN0"} -> {}
        [] OTHER -> {A}

OpensTop(ins) ==
  (ins.op \in {"CALL", "VARARG"} /\ ins.C = 0) \/ ins.op = "TAILCALL"
UsesTop(ins) ==
  ins.op \in {"CALL", "TAILCALL", "RETURN", "SETLIST"} /\ ins.B = 0

\* The code a function ends up with is code the interpreter can run: every
\* jump is patched and stays inside, every test is followed by a jump, every
\* register fits in the frame vmkK_checkstack measured, and an instruction
\* that leaves its results at the top is followed by one that takes them
\* (the assertion of vmkK_finish).
CodeWellFormed ==
  fs # NoFunction =>
    \A p \in 0 .. Pc(fs) - 1 :
      LET ins == At(fs, p)
      IN  /\ ins.op = "JMP" => ins.J # NO_JUMP /\ p + 1 + ins.J \in 0 .. Pc(fs) - 1
          /\ ins.op \in TModes => At(fs, p + 1).op = "JMP"
          /\ ins.op = "FORPREP" => At(fs, p + ins.J + 1).op = "FORLOOP"
          /\ ins.op = "TFORPREP" => At(fs, p + ins.J + 1).op = "TFORCALL"
          /\ ins.op = "TFORCALL" => At(fs, p + 1).op = "TFORLOOP"
          /\ ins.op \in {"FORLOOP", "TFORLOOP"} => p + 1 - ins.J \in 0 .. p
          /\ \A r \in Touches(ins) : r < fs.max
          /\ p > 0 => OpensTop(At(fs, p - 1)) = UsesTop(ins)
=============================================================================
