------------------------------- MODULE Blocks -------------------------------
(***************************************************************************)
(* Statements: blocks, the scope of variables and labels, loops, and the   *)
(* function as a whole (lparser.c).                                        *)
(*                                                                         *)
(* A goto is coded before its label may be known, and the variables it     *)
(* leaves may be captured after it: it is a jump followed by a place for a *)
(* CLOSE, and when the block of the label ends the two are swapped if the  *)
(* CLOSE is needed.  A label or a pending goto is [name, pc, nactvar,      *)
(* close], as Labeldesc.                                                   *)
(***************************************************************************)
EXTENDS Compiler

Refuse(fs, b) == [fs EXCEPT !.refused = @ \/ b]

----------------------------------------------------------------------------
(* Labels and gotos.                                                       *)

LabelDesc(fs, name, pc) ==
  [name |-> name, pc |-> pc, nactvar |-> Len(fs.vars), close |-> FALSE]

\* newgotoentry: the CLOSE is marked as dead by its B
NewGoto(fs, name) ==
  [CodeABC(Jump(fs), "CLOSE", 0, 1, 0) EXCEPT
     !.gotos = Append(@, LabelDesc(fs, name, Pc(fs)))]

\* mutant: a label at the end of a block keeps the block's variables in scope
CreateLabelInScope(fs, name, last) ==
  [GetLabel(fs) EXCEPT !.labels = Append(@, LabelDesc(fs, name, Pc(fs)))]

\* createlabel: the variables of the block are out of scope at its last label
CreateLabel(fs, name, last) ==
  LET lb == LabelDesc(fs, name, Pc(fs))
  IN  [GetLabel(fs) EXCEPT
         !.labels = Append(@, IF last THEN [lb EXCEPT !.nactvar = Last(fs.bl).nactvar]
                              ELSE lb)]

\* mutant: a goto to a label of its own block never closes
CloseGotoEscaping(fs, vars, gt, lb, bup) ==
  LET level == RegLevel(vars, lb.nactvar)
      moved == [fs EXCEPT !.code[gt.pc + 2] = At(fs, gt.pc),
                          !.code[gt.pc + 1] = Ins("CLOSE", level, 0, 0, 0)]
  IN  PatchList(IF gt.close THEN moved ELSE fs, gt.pc + Bit(gt.close), lb.pc)

\* closegoto; 'bup' tells that the block of the label has upvalues
CloseGoto(fs, vars, gt, lb, bup) ==
  LET needs == gt.close \/ (lb.nactvar < gt.nactvar /\ bup)
      level == RegLevel(vars, lb.nactvar)
      moved == [fs EXCEPT !.code[gt.pc + 2] = At(fs, gt.pc),
                          !.code[gt.pc + 1] = Ins("CLOSE", level, 0, 0, 0)]
  IN  PatchList(Refuse(IF needs THEN moved ELSE fs, gt.nactvar < lb.nactvar),
                gt.pc + Bit(needs), lb.pc)

\* solvegotos: the pending gotos of the block meet its labels; the others are
\* left to the outer block.  'vars' are the variables before the block's own
\* were removed.
SolveGotos(fs, vars, bl) ==
  LET mine(gt) == {i \in bl.firstlabel + 1 .. Len(fs.labels) : fs.labels[i].name = gt.name}
      outside(gt) ==
        [gt EXCEPT !.nactvar = bl.nactvar,
                   !.close = @ \/ (bl.upval /\ RegLevel(vars, gt.nactvar)
                                                 > RegLevel(vars, bl.nactvar))]
      solve(s, gt) ==
        IF mine(gt) = {} THEN [s EXCEPT !.gotos = Append(@, outside(gt))]
        ELSE CloseGoto(s, vars, gt, fs.labels[Min(mine(gt))], bl.upval)
  IN  [FoldLeft(solve, [fs EXCEPT !.gotos = SubSeq(@, 1, bl.firstgoto)],
                SubSeq(fs.gotos, bl.firstgoto + 1, Len(fs.gotos)))
       EXCEPT !.labels = SubSeq(@, 1, bl.firstlabel)]

----------------------------------------------------------------------------
(* Blocks.                                                                 *)

\* enterblock; isloop is 1 for a loop, 2 for one that has a break
EnterBlock(fs, isloop) ==
  [Require(fs, fs.fr = NVarStack(fs)) EXCEPT
     !.bl = Append(@, [nactvar |-> Len(fs.vars), firstlabel |-> Len(fs.labels),
                       firstgoto |-> Len(fs.gotos), upval |-> FALSE,
                       insidetbc |-> fs.bl # <<>> /\ Last(fs.bl).insidetbc,
                       isloop |-> isloop])]

\* leaveblock, removevars and undefgoto
LeaveBlock(fs) ==
  LET bl == Last(fs.bl)
      inner == Len(fs.bl) > 1
      level == RegLevel(fs.vars, bl.nactvar)
      closed == IF inner /\ bl.upval THEN CodeABC(fs, "CLOSE", level, 0, 0) ELSE fs
      out == [closed EXCEPT !.fr = level, !.vars = SubSeq(@, 1, bl.nactvar)]
      broken == IF bl.isloop = 2 THEN CreateLabel(out, "break", FALSE) ELSE out
      solved == SolveGotos(broken, fs.vars, bl)
  IN  [Refuse(solved, ~inner /\ Len(solved.gotos) > bl.firstgoto)
       EXCEPT !.bl = Front(@)]

InLoop(fs) == {i \in DOMAIN fs.bl : fs.bl[i].isloop > 0}

\* breakstat
BreakStat(fs) ==
  IF InLoop(fs) = {} THEN Refuse(fs, TRUE)
  ELSE NewGoto([fs EXCEPT !.bl[Max(InLoop(fs))].isloop = 2], "break")

\* checkrepeated and labelstat, for label names that follow one another: the
\* last one is created first
LabelStats(fs, names, last) ==
  LET create(n, s) == CreateLabel(Refuse(s, \E i \in DOMAIN s.labels :
                                                s.labels[i].name = n), n, last)
  IN  FoldRight(create, names, fs)

----------------------------------------------------------------------------
(* Simple statements.                                                      *)

\* marktobeclosed and checktoclose, for the i-th active variable
MarkToBeClosed(fs) ==
  LET b == Len(fs.bl)
  IN  [fs EXCEPT !.bl[b].upval = TRUE, !.bl[b].insidetbc = TRUE, !.needclose = TRUE]
CheckToClose(fs, i) ==
  CodeABC(MarkToBeClosed(fs), "TBC", RegLevel(fs.vars, i - 1), 0, 0)

\* vmkK_exp2const
IsConstant(e) ==
  ~HasJumps(e) /\ e.k \in {"VTRUE", "VFALSE", "VNIL", "VKINT", "VKFLT", "VKSTR", "VCONST"}
ConstantValue(e) == IF e.k = "VCONST" THEN e.info ELSE ConstantOf(e)

\* localstat: a constant bound to a literal needs no register
LocalStat(fs0, vs, es) ==
  LET fs == Refuse(fs0, Cardinality({i \in DOMAIN vs : vs[i].kind = "close"}) > 1)
      x == IF es = <<>> THEN R(fs, Exp("VVOID", 0)) ELSE ExpList(fs, es)
      ctc == Len(vs) = Len(es) /\ Last(vs).kind = "const" /\ IsConstant(x.e)
      bound == [AdjustLocalVars(x.fs, Front(vs)) EXCEPT
                  !.vars = Append(@, [name |-> Last(vs).name, kind |-> "ctc", ridx |-> 0,
                                      val |-> ConstantValue(x.e)])]
      held == AdjustLocalVars(AdjustAssign(x.fs, Len(vs), Len(es), x.e), vs)
      fs1 == IF ctc THEN bound ELSE held
      toclose == {i \in DOMAIN vs : vs[i].kind = "close"}
  IN  IF toclose = {} THEN fs1 ELSE CheckToClose(fs1, Len(fs.vars) + Max(toclose))

\* localfunc: the function is in the scope of its own variable
LocalFunc(fs, name, names) ==
  Closure(AdjustLocalVars(fs, <<[name |-> name, kind |-> "reg"]>>), names).fs

\* vmkK_ret
Ret(fs, first, n) ==
  CodeABC(fs, CASE n = 0 -> "RETURN0" [] n = 1 -> "RETURN1" [] OTHER -> "RETURN",
          first, n + 1, 0)

\* retstat: one value is returned from where it is; one call is a tail call,
\* unless a variable has to be closed after it
RetStat(fs, es) ==
  LET first == NVarStack(fs)
      x == ExpList(fs, es)
      open == SetReturns(x.fs, x.e, -1)
      tail == Require(SetAt(open, x.e.info, "op", "TAILCALL"),
                      At(open, x.e.info).A = first)
      one == Exp2AnyReg(x.fs, x.e)
      many == Exp2NextReg(x.fs, x.e).fs
      istail == x.e.k = "VCALL" /\ Len(es) = 1 /\ ~Last(fs.bl).insidetbc
  IN  CASE es = <<>> -> Ret(fs, first, 0)
        [] es # <<>> /\ HasMultRet(x.e) -> Ret(IF istail THEN tail ELSE open, first, -1)
        [] es # <<>> /\ ~HasMultRet(x.e) /\ Len(es) = 1 ->
             Ret(one.fs, one.e.info, 1)
        [] OTHER -> Ret(Require(many, Len(es) = many.fr - first), first, Len(es))

\* cond: the list of jumps taken when the condition is false
Cond(fs, a) ==
  LET x == Expr(fs, a)
      v == IF x.e.k = "VNIL" THEN [x.e EXCEPT !.k = "VFALSE"] ELSE x.e
      g == GoIfTrue(x.fs, v)
  IN  [fs |-> g.fs, l |-> g.e.f]

\* the end of every statement gives its temporary registers back
FreeTemporaries(fs) ==
  [Require(fs, fs.max >= fs.fr /\ fs.fr >= NVarStack(fs)) EXCEPT !.fr = NVarStack(fs)]

----------------------------------------------------------------------------
(* Statements that hold blocks.                                            *)

RECURSIVE Statement(_, _), StatList(_, _, _), TestThen(_, _, _)

\* statlist; the variables of a repeat's body live on in its condition, so no
\* label is the last statement of such a block
StatList(fs, stats, isrepeat) ==
  LET labels == {n \in 0 .. Len(stats) : \A i \in 1 .. n : stats[i].st = "label"}
      n == Max(labels)
      rest == SubSeq(stats, n + 1, Len(stats))
      here == LabelStats(fs, [i \in 1 .. n |-> stats[i].name], rest = <<>> /\ ~isrepeat)
  IN  IF rest = <<>> THEN here
      ELSE StatList(Statement(here, Head(rest)), Tail(rest), isrepeat)

Block(fs, stats) == LeaveBlock(StatList(EnterBlock(fs, 0), stats, FALSE))

WhileStat(fs, c, body) ==
  LET test == Cond(GetLabel(fs), c)
      done == Block(EnterBlock(test.fs, 1), body)
      back == PatchList(Jump(done), Pc(done), Pc(fs))
  IN  PatchToHere(LeaveBlock(back), test.l)

\* repeatstat: when the body has variables to close, so has the way back
RepeatStat(fs, body, c) ==
  LET test == Cond(StatList(EnterBlock(EnterBlock(GetLabel(fs), 1), 0), body, TRUE), c)
      scope == Last(test.fs.bl)
      out == LeaveBlock(test.fs)
      again == CodeABC(PatchToHere(Jump(out), test.l), "CLOSE",
                       RegLevel(test.fs.vars, scope.nactvar), 0, 0)
      fixed == PatchToHere(Jump(again), Pc(out))
  IN  LeaveBlock(IF scope.upval THEN PatchList(fixed, Pc(again), Pc(fs))
                 ELSE PatchList(out, test.l, Pc(fs)))

\* the offset of a loop instruction is in the J of its record.  fixforjump's
\* limit on the length of a loop is left out.
ForBody(fs, base, vs, isgen, body) ==
  LET prep == Pc(fs)
      opened == [CodeABC(fs, IF isgen THEN "TFORPREP" ELSE "FORPREP", base, 0, 0)
                 EXCEPT !.fr = @ - 1]
      scope == ReserveRegs(AdjustLocalVars(EnterBlock(opened, 0), vs), Len(vs))
      done == LeaveBlock(Block(scope, body))
      entry == SetAt(GetLabel(done), prep, "J", Pc(done) - (prep + 1))
      call == IF isgen THEN CodeABC(entry, "TFORCALL", base, 0, Len(vs)) ELSE entry
      loop == CodeABC(call, IF isgen THEN "TFORLOOP" ELSE "FORLOOP", base, 0, 0)
  IN  SetAt(loop, Pc(call), "J", Pc(call) - prep)

State(n) == [i \in 1 .. n |-> [name |-> "(for state)", kind |-> "reg"]]

\* fornum: the step is 1 when it is not given
ForNum(fs, name, es, body) ==
  LET put(s, e) == LET x == Expr(s, e) IN Exp2NextReg(x.fs, x.e).fs
      values == FoldLeft(put, fs, es)
      all == IF Len(es) = 3 THEN values
             ELSE ReserveRegs(CodeNumber(values, values.fr, Integer(1), "LOADI"), 1)
  IN  ForBody(AdjustLocalVars(all, State(2)), fs.fr,
              <<[name |-> name, kind |-> "const"]>>, FALSE, body)

\* forlist: function, state and closing value are hidden variables
ForList(fs, names, es, body) ==
  LET x == ExpList(fs, es)
      set == AdjustLocalVars(AdjustAssign(x.fs, 4, Len(es), x.e), State(3))
      vs == [i \in DOMAIN names |-> [name |-> names[i],
                                     kind |-> IF i = 1 THEN "const" ELSE "reg"]]
  IN  ForBody(CheckStack(MarkToBeClosed(set), 2), fs.fr, vs, TRUE, body)

\* forstat: the loop's block holds the hidden variables
ForStat(fs, s) ==
  LET in == EnterBlock(fs, 1)
  IN  LeaveBlock(IF s.st = "fornum" THEN ForNum(in, s.name, s.es, s.body)
                 ELSE ForList(in, s.names, s.es, s.body))

\* test_then_block, for the branches that are left, and the else part
TestThen(state, branches, else) ==
  LET test == Cond(state.fs, Head(branches).c)
      then == Block(test.fs, Head(branches).body)
      more == Len(branches) > 1 \/ else # <<>>
      j == Concat(Jump(then), state.l, Pc(then))
      escaped == IF more THEN j ELSE [fs |-> then, l |-> state.l]
      next == [escaped EXCEPT !.fs = PatchToHere(@, test.l)]
  IN  CASE Len(branches) > 1 -> TestThen(next, Tail(branches), else)
        [] Len(branches) = 1 /\ else # <<>> -> [next EXCEPT !.fs = Block(@, else[1])]
        [] OTHER -> next

IfStat(fs, s) ==
  LET all == TestThen([fs |-> fs, l |-> NO_JUMP], s.branches, s.else)
  IN  PatchToHere(all.fs, all.l)

\* statement.  Nothing is compiled after an error.
Statement(fs, s) ==
  IF fs.refused THEN fs
  ELSE FreeTemporaries(
    CASE s.st = "local" -> LocalStat(fs, s.vs, s.es)
      [] s.st = "localfunc" -> LocalFunc(fs, s.name, s.names)
      [] s.st = "assign" -> Assignment(fs, s.vs, s.es)
      [] s.st = "call" -> LET x == Expr(fs, s.e) IN SetAt(x.fs, x.e.info, "C", 1)
      [] s.st = "return" -> RetStat(fs, s.es)
      [] s.st = "goto" -> NewGoto(fs, s.name)
      [] s.st = "break" -> BreakStat(fs)
      [] s.st = "do" -> Block(fs, s.body)
      [] s.st = "if" -> IfStat(fs, s)
      [] s.st = "while" -> WhileStat(fs, s.c, s.body)
      [] s.st = "repeat" -> RepeatStat(fs, s.body, s.c)
      [] s.st \in {"fornum", "forlist"} -> ForStat(fs, s))

----------------------------------------------------------------------------
(* The function.                                                           *)

\* finaltarget: where a chain of jumps ends
RECURSIVE FinalTarget(_, _, _)
FinalTarget(code, pc, count) ==
  IF count = 100 \/ code[pc + 1].op # "JMP" THEN pc
  ELSE FinalTarget(code, pc + 1 + code[pc + 1].J, count + 1)

\* vmkK_finish
FinishIns(fs, pc) ==
  LET i == At(fs, pc)
      extra == fs.needclose \/ fs.vararg
      op == IF extra /\ i.op \in {"RETURN0", "RETURN1"} THEN "RETURN" ELSE i.op
      vararg == IF fs.vararg THEN NParams + 1 ELSE i.C
  IN  CASE i.op = "JMP" -> [i EXCEPT !.J = FinalTarget(fs.code, pc, 0) - (pc + 1)]
        [] op \in {"RETURN", "TAILCALL"} ->
             [i EXCEPT !.op = op, !.C = vararg, !.k = Bit(fs.needclose)]
        [] OTHER -> i

Finish(fs) ==
  [fs EXCEPT !.code = IF fs.refused THEN <<>>
                      ELSE [i \in DOMAIN @ |-> FinishIns(fs, i - 1)]]

\* open_func, parlist and setvararg
OpenFunc(vararg) ==
  LET fs == [code |-> <<>>, k |-> <<>>, fr |-> 0, vars |-> <<>>, lt |-> 0, max |-> 2,
             ok |-> TRUE, refused |-> FALSE, vararg |-> vararg, bl |-> <<>>,
             needclose |-> FALSE, p |-> <<>>, labels |-> <<>>, gotos |-> <<>>]
      in == EnterBlock(fs, 0)
      prep == IF vararg THEN CodeABC(in, "VARARGPREP", NParams, 0, 0) ELSE in
      pars == [i \in 1 .. NParams |-> [name |-> Params[i], kind |-> "reg"]]
  IN  ReserveRegs(AdjustLocalVars(prep, pars), NParams)

\* close_func
CompileFunction(vararg, body) ==
  LET fs == StatList(OpenFunc(vararg), body, FALSE)
      closed == LeaveBlock(Ret(fs, NVarStack(fs), 0))
  IN  Finish(closed)
=============================================================================
