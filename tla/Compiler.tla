------------------------------ MODULE Compiler ------------------------------
(***************************************************************************)
(* The parser's side of the code generator: variables, expressions, calls, *)
(* table constructors and assignments, each making the vmkK_ calls of      *)
(* lparser.c in its order.  Statements are in module Blocks.               *)
(*                                                                         *)
(*   fs.bl         the blocks being compiled, the innermost last           *)
(*   fs.needclose  the function has variables to close when it returns     *)
(*   fs.p          the prototypes of its inner functions                   *)
(***************************************************************************)
EXTENDS CodeGen

CONSTANTS MaxToStore     \* items a constructor holds in registers

NParams == Len(Params)

ASSUME FrameSizes == NParams \in Nat \ {0} /\ MaxToStore \in Nat \ {0}

----------------------------------------------------------------------------
(* Variables.                                                              *)

\* adjustlocalvars: the scope of these variables starts
AdjustLocalVars(fs, vs) ==
  FoldLeft(LAMBDA s, v : [s EXCEPT !.vars =
                            Append(@, [name |-> v.name, kind |-> v.kind,
                                       ridx |-> NVarStack(s), val |-> Nil])],
           fs, vs)

\* searchvar: the innermost of that name, 0 when there is none
SearchVar(fs, n) ==
  LET found == {i \in DOMAIN fs.vars : fs.vars[i].name = n}
  IN  IF found = {} THEN 0 ELSE Max(found)

UpvalueIndex(n) == (CHOOSE i \in DOMAIN Upvalues : Upvalues[i] = n) - 1

\* singlevar
SingleVar(fs, n) ==
  LET i == SearchVar(fs, n)
  IN  CASE i = 0 -> Exp("VUPVAL", UpvalueIndex(n))
        [] i # 0 /\ fs.vars[i].kind = "ctc" -> Exp("VCONST", fs.vars[i].val)
        [] OTHER -> Exp("VLOCAL", fs.vars[i].ridx)

\* check_readonly: the variable is not a regular one
ReadOnly(fs, n) == SearchVar(fs, n) # 0 /\ fs.vars[SearchVar(fs, n)].kind # "reg"

\* markupval: the block of the i-th variable has to close it
MarkUpval(fs, i) ==
  LET b == Max({j \in DOMAIN fs.bl : fs.bl[j].nactvar < i})
  IN  [fs EXCEPT !.bl[b].upval = TRUE, !.needclose = TRUE]

\* newupvalue: where the closure finds the variable, or the constant it is
UpvalDesc(fs, n) ==
  LET i == SearchVar(fs, n)
      in(k, idx, kind, v) == [in |-> k, idx |-> idx, kind |-> kind, v |-> v]
  IN  CASE i = 0 -> in("up", UpvalueIndex(n), "reg", Nil)
        [] i # 0 /\ fs.vars[i].kind = "ctc" -> in("const", 0, "const", fs.vars[i].val)
        [] OTHER -> in("stack", fs.vars[i].ridx, fs.vars[i].kind, Nil)

\* body and codeclosure, for an inner function that uses the variables 'names'
Closure(fs, names) ==
  LET capture(s, n) == LET i == SearchVar(s, n)
                       IN  IF i = 0 \/ s.vars[i].kind = "ctc" THEN s ELSE MarkUpval(s, i)
      marked == FoldLeft(capture, fs, names)
      proto == [i \in DOMAIN names |-> UpvalDesc(fs, names[i])]
      made == Reloc([marked EXCEPT !.p = Append(@, proto)],
                    Exp("VRELOC", 0), "CLOSURE", Len(fs.p), 0)
  IN  Exp2NextReg(made.fs, made.e)

RECURSIVE Expr(_, _), ExpList(_, _), AddItem(_, _, _)

----------------------------------------------------------------------------
(* Expressions.                                                            *)

\* explist: all but the last expression go to registers
ExpList(fs, es) ==
  LET h == Expr(fs, Head(es))
  IN  IF Len(es) = 1 THEN h
      ELSE ExpList(Exp2NextReg(h.fs, h.e).fs, Tail(es))

\* funcargs: the call leaves one result in the register of the function
FuncArgs(fs0, f, args) ==
  LET a == IF args = <<>> THEN R(fs0, Exp("VVOID", 0)) ELSE ExpList(fs0, args)
      open == HasMultRet(a.e)
      fs == CASE open -> SetReturns(a.fs, a.e, -1)
              [] a.e.k = "VVOID" -> a.fs
              [] OTHER -> Exp2NextReg(a.fs, a.e).fs
      nparams == IF open THEN -1 ELSE fs.fr - (f.info + 1)
      called == CodeABC(Require(fs, f.k = "VNONRELOC"),
                        "CALL", f.info, nparams + 1, 2)
  IN  R([called EXCEPT !.fr = f.info + 1], Exp("VCALL", Pc(fs)))

\* closelistfield: the pending item goes to a register, and a full batch to
\* the table
CloseListField(fs, cc) ==
  LET x == Exp2NextReg(fs, cc.v).fs
      flushed == [CodeABC(x, "SETLIST", cc.t, cc.tostore, cc.na)
                  EXCEPT !.fr = cc.t + 1]
      void == [cc EXCEPT !.v = Exp("VVOID", 0)]
  IN  CASE cc.v.k = "VVOID" -> [fs |-> fs, cc |-> cc]
        [] cc.v.k # "VVOID" /\ cc.tostore < MaxToStore -> [fs |-> x, cc |-> void]
        [] OTHER -> [fs |-> flushed,
                     cc |-> [void EXCEPT !.na = @ + cc.tostore, !.tostore = 0]]

\* lastlistfield
LastListField(fs, cc) ==
  LET open == HasMultRet(cc.v)
      x == CASE open -> SetReturns(fs, cc.v, -1)
             [] cc.v.k = "VVOID" -> fs
             [] OTHER -> Exp2NextReg(fs, cc.v).fs
  IN  IF cc.tostore = 0 THEN fs
      ELSE [CodeABC(x, "SETLIST", cc.t, IF open THEN 0 ELSE cc.tostore, cc.na)
            EXCEPT !.fr = cc.t + 1]

\* field: a positional item waits in cc.v; a keyed one is stored at once
AddItem(fs0, cc0, item) ==
  LET c == CloseListField(fs0, cc0)
      pos == Expr(c.fs, item.e)
      key == Expr(c.fs, item.key)
      k == Exp2Val(key.fs, key.e)
      tab == Indexed(k.fs, Exp("VNONRELOC", cc0.t), k.e)
      val == Expr(tab.fs, item.e)
  IN  IF item.op = "item"
      THEN [fs |-> pos.fs, cc |-> [c.cc EXCEPT !.v = pos.e, !.tostore = @ + 1]]
      ELSE [fs |-> [StoreVar(val.fs, tab.e, val.e) EXCEPT !.fr = c.fs.fr],
            cc |-> c.cc]

\* constructor
Constructor(fs0, items) ==
  LET fs1 == CodeABC(CodeABC(fs0, "NEWTABLE", fs0.fr, 0, 0), "EXTRAARG", 0, 0, 0)
      start == [fs |-> ReserveRegs(fs1, 1),
                cc |-> [v |-> Exp("VVOID", 0), t |-> fs0.fr, na |-> 0, tostore |-> 0]]
      all == FoldLeft(LAMBDA s, item : AddItem(s.fs, s.cc, item), start, items)
  IN  R(LastListField(all.fs, all.cc), Exp("VNONRELOC", fs0.fr))

\* simpleexp, suffixedexp and subexpr, on a tree that is already read
Expr(fs, a) ==
  CASE a.op = "nil" -> R(fs, Exp("VNIL", 0))
    [] a.op = "true" -> R(fs, Exp("VTRUE", 0))
    [] a.op = "false" -> R(fs, Exp("VFALSE", 0))
    [] a.op = "int" -> R(fs, Exp("VKINT", a.v))
    [] a.op = "flt" -> R(fs, Exp("VKFLT", a.v))
    [] a.op = "str" -> R(fs, Exp("VKSTR", a.v))
    [] a.op = "name" -> R(fs, SingleVar(fs, a.v))
    [] a.op = "fun" -> Closure(fs, a.names)
    [] a.op = "dots" -> R(CodeABC(fs, "VARARG", 0, 0, 1), Exp("VVARARG", Pc(fs)))
    [] a.op = "paren" -> LET x == Expr(fs, a.a) IN DischargeVars(x.fs, x.e)
    [] a.op = "index" ->
         LET t == Expr(fs, a.a)
             u == Exp2AnyRegUp(t.fs, t.e)
             k == Expr(u.fs, a.b)
             v == Exp2Val(k.fs, k.e)
         IN  Indexed(v.fs, u.e, v.e)
    [] a.op = "call" ->
         LET f == Expr(fs, a.a)
             r == Exp2NextReg(f.fs, f.e)
         IN  FuncArgs(r.fs, r.e, a.args)
    [] a.op = "self" ->
         LET o == Expr(fs, a.a)
             m == Self(o.fs, o.e, a.name)
         IN  FuncArgs(m.fs, m.e, a.args)
    [] a.op = "table" -> Constructor(fs, a.items)
    [] a.op \in {"not", "unm"} ->
         LET x == Expr(fs, a.a) IN Prefix(x.fs, a.op, x.e)
    [] OTHER ->
         LET x == Expr(fs, a.a)
             v == Infix(x.fs, a.op, x.e)
             y == Expr(v.fs, a.b)
         IN  Posfix(y.fs, a.op, v.e, y.e)
----------------------------------------------------------------------------
(* Assignments.                                                            *)

\* adjust_assign: as many values on the stack as there are variables
AdjustAssign(fs, nvars, nexps, e) ==
  LET needed == nvars - nexps
      open == SetReturns(fs, e, IF needed + 1 < 0 THEN 0 ELSE needed + 1)
      x == IF e.k = "VVOID" THEN fs ELSE Exp2NextReg(fs, e).fs
      closed == IF needed > 0 THEN CodeNil(x, x.fr, needed) ELSE x
      fs1 == IF HasMultRet(e) THEN open ELSE closed
  IN  IF needed > 0 THEN ReserveRegs(fs1, needed)
      ELSE [fs1 EXCEPT !.fr = @ + needed]

\* check_conflict: an earlier target that uses the variable assigned now gets
\* a copy of it, in the next register
UsesTable(lh, v) ==
  \/ lh.k = "VINDEXUP" /\ v.k = "VUPVAL" /\ lh.tr = v.info
  \/ lh.k \in {"VINDEXED", "VINDEXI", "VINDEXSTR"} /\ v.k = "VLOCAL" /\ lh.tr = v.info
UsesKey(lh, v) == lh.k = "VINDEXED" /\ v.k = "VLOCAL" /\ lh.idx = v.info

CheckConflict(fs, targets, v) ==
  LET extra == fs.fr
      safe(lh) == [lh EXCEPT !.tr = IF UsesTable(lh, v) THEN extra ELSE @,
                             !.idx = IF UsesKey(lh, v) THEN extra ELSE @,
                             !.k = IF @ = "VINDEXUP" /\ UsesTable(lh, v)
                                   THEN "VINDEXSTR" ELSE @]
      copy == IF v.k = "VLOCAL" THEN CodeABC(fs, "MOVE", extra, v.info, 0)
              ELSE CodeABC(fs, "GETUPVAL", extra, v.info, 0)
  IN  IF \E i \in DOMAIN targets : UsesTable(targets[i], v) \/ UsesKey(targets[i], v)
      THEN [fs |-> ReserveRegs(copy, 1),
            targets |-> [i \in DOMAIN targets |-> safe(targets[i])]]
      ELSE [fs |-> fs, targets |-> targets]

ReadTarget(s, a) ==
  LET v == Expr(s.fs, a)
      c == IF IsIndexed(v.e) THEN [fs |-> v.fs, targets |-> s.targets]
           ELSE CheckConflict(v.fs, s.targets, v.e)
  IN  [fs |-> c.fs, targets |-> Append(c.targets, v.e)]

StoreTop(fs, var) == StoreVar(fs, var, Exp("VNONRELOC", fs.fr - 1))

\* restassign: the values are stored from the last target to the first
StoreAll(fs0, vs, es) ==
  LET s == FoldLeft(ReadTarget, [fs |-> fs0, targets |-> <<>>], vs)
      x == ExpList(s.fs, es)
      one == SetOneRet(x.fs, x.e)
      last == IF Len(es) = Len(vs) THEN StoreVar(one.fs, Last(s.targets), one.e)
              ELSE StoreTop(AdjustAssign(x.fs, Len(vs), Len(es), x.e),
                            Last(s.targets))
  IN  FoldRight(LAMBDA var, fs : StoreTop(fs, var), Front(s.targets), last)

Assignment(fs, vs, es) ==
  IF \E i \in DOMAIN vs : vs[i].op = "name" /\ ReadOnly(fs, vs[i].v)
  THEN [fs EXCEPT !.refused = TRUE] ELSE StoreAll(fs, vs, es)
=============================================================================
