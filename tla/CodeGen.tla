------------------------------ MODULE CodeGen ------------------------------
(***************************************************************************)
(* The code generator: the expression half of lparser.c and lcode.c.       *)
(*                                                                         *)
(* The compiler is one pass: it emits code while it reads, and describes   *)
(* an expression whose value is not yet anywhere by an expdesc.  Every     *)
(* operator below is one C function; 'fs' is the FuncState it works on     *)
(* and [fs |-> ..., e |-> ...] what it leaves behind in its expdesc        *)
(* argument.  The source is a tree, [op, ...]: reading tokens is left out. *)
(*                                                                         *)
(*   fs.code  the instructions, pc 0 first     fs.k    the constants       *)
(*   fs.fr    freereg                          fs.vars the active variables *)
(*   fs.lt    lasttarget                       fs.max  maxstacksize        *)
(*   fs.ok    no vmk_assert of the code generator has failed               *)
(*   fs.refused  a semantic error was raised; what comes after is idle     *)
(*                                                                         *)
(* MaxC, MaxB and MaxBx are MAXARG_C, MAXARG_B and MAXARG_Bx, small here   *)
(* so that operands that do not fit are as easy to write as those that do. *)
(***************************************************************************)
EXTENDS Integers, Sequences, SequencesExt, Bitwise, TLC

CONSTANTS Params,     \* names of the fixed parameters of the function
          Upvalues,   \* and of its upvalues
          MaxC, MaxB, MaxBx,
          Width       \* bits of an integer

ASSUME ArgumentSizes == /\ {MaxC, MaxB, MaxBx} \subseteq Nat \ {0}
                        /\ Width \in Nat \ {0, 1}

----------------------------------------------------------------------------
(* Values, shared with the interpreter: a tag and a content.               *)

Nil == <<"nil">>
Bool(b) == <<"bool", b>>
Integer(n) == <<"int", n>>
Float(n) == <<"flt", n>>         \* the float n.0

IsFalse(v) == v \in {Nil, Bool(FALSE)}
IsNumber(v) == v[1] \in {"int", "flt"}

\* intop: integer arithmetic wraps around
Wrap(n) ==
  LET m == n % 2^Width IN IF m < 2^(Width - 1) THEN m ELSE m - 2^Width

\* vmkV_shiftl: a logical shift, to the right when the count is negative
ShiftLeft(x, y) ==
  LET u == x % 2^Width
  IN  CASE y >= Width \/ y <= -Width -> 0
        [] y >= 0 /\ y < Width -> Wrap(u * 2^y)
        [] y < 0 /\ y > -Width -> Wrap(u \div 2^(-y))

BitAnd(x, y) == Wrap((x % 2^Width) & (y % 2^Width))

\* vmkO_rawarith, and the fast path of the arithmetic instructions: <<v>>, or
\* <<>> when the operation has no meaning on these operands.  Floats have
\* integral values here, so bitwise operators accept them.
RawArith(op, a, b) ==
  IF ~(IsNumber(a) /\ IsNumber(b)) THEN <<>>
  ELSE LET n == CASE op = "add" -> a[2] + b[2]
                  [] op = "sub" -> a[2] - b[2]
                  [] op = "mul" -> a[2] * b[2]
                  [] op = "unm" -> - a[2]
                  [] op = "band" -> BitAnd(a[2], b[2])
                  [] op = "shl" -> ShiftLeft(a[2], b[2])
                  [] op = "shr" -> ShiftLeft(a[2], - b[2])
       IN  IF op \in {"add", "sub", "mul", "unm"} /\ "flt" \in {a[1], b[1]}
           THEN <<Float(n)>>
           ELSE <<Integer(Wrap(n))>>

----------------------------------------------------------------------------
(* Instructions and expression descriptions.                               *)

NO_JUMP == -1
NO_REG == 255

Ins(op, a, b, c, k) ==
  [op |-> op, A |-> a, B |-> b, C |-> c, k |-> k, J |-> NO_JUMP]

\* vmkP_opmodes: the opcodes with the T bit; a jump always follows them
TModes == {"EQ", "LT", "LE", "EQK", "EQI", "LTI", "LEI", "GTI", "GEI",
           "TEST", "TESTSET"}

Pc(fs) == Len(fs.code)
At(fs, pc) == fs.code[pc + 1]
R(fs, e) == [fs |-> fs, e |-> e]
Require(fs, p) == [fs EXCEPT !.ok = @ /\ (fs.refused \/ p)]

Exp(k, info) == [k |-> k, info |-> info, t |-> NO_JUMP, f |-> NO_JUMP,
                 tr |-> 0, idx |-> 0]

HasJumps(e) == e.t # e.f
HasMultRet(e) == e.k \in {"VCALL", "VVARARG"}
IsIndexed(e) == e.k \in {"VINDEXED", "VINDEXUP", "VINDEXI", "VINDEXSTR"}

Numerals == {"VKINT", "VKFLT"}
IsNumeral(e) == e.k \in Numerals /\ ~HasJumps(e)
NumeralValue(e) == IF e.k = "VKINT" THEN Integer(e.info) ELSE Float(e.info)

\* vmkK_code and its formats: emit at the end
Code(fs, i) == [fs EXCEPT !.code = Append(@, i)]
CodeABC(fs, op, a, b, c) == Code(fs, Ins(op, a, b, c, 0))
SetAt(fs, pc, field, v) == [fs EXCEPT !.code[pc + 1][field] = v]
\* an instruction whose destination is still open: 'A' is set by discharge2reg
Reloc(fs, e, op, b, c) ==
  R(CodeABC(fs, op, 0, b, c), [e EXCEPT !.k = "VRELOC", !.info = Pc(fs)])

OffsetC == MaxC \div 2
OffsetBx == MaxBx \div 2
FitsC(i) == i + OffsetC \in 0 .. MaxC
FitsBx(i) == i \in (- OffsetBx) .. (MaxBx - OffsetBx)

----------------------------------------------------------------------------
(* Jump lists: pending jumps are chained through their own offsets.        *)

Jump(fs) == Code(fs, Ins("JMP", 0, 0, 0, 0))

GetLabel(fs) == [fs EXCEPT !.lt = Pc(fs)]

GetJump(fs, pc) ==
  LET off == At(fs, pc).J IN IF off = NO_JUMP THEN NO_JUMP ELSE pc + 1 + off

FixJump(fs, pc, dest) ==
  SetAt(Require(fs, dest # NO_JUMP /\ At(fs, pc).op = "JMP"),
        pc, "J", dest - (pc + 1))

RECURSIVE ListEnd(_, _)
ListEnd(fs, l) ==
  LET next == GetJump(fs, l) IN IF next = NO_JUMP THEN l ELSE ListEnd(fs, next)

\* vmkK_concat: the list that is l1 followed by l2
Concat(fs, l1, l2) ==
  CASE l2 = NO_JUMP -> [fs |-> fs, l |-> l1]
    [] l2 # NO_JUMP /\ l1 = NO_JUMP -> [fs |-> fs, l |-> l2]
    [] l2 # NO_JUMP /\ l1 # NO_JUMP ->
         [fs |-> FixJump(fs, ListEnd(fs, l1), l2), l |-> l1]

\* getjumpcontrol: the pc of the test that governs the jump at pc
Control(fs, pc) ==
  IF pc >= 1 /\ At(fs, pc - 1).op \in TModes THEN pc - 1 ELSE pc

IsTestSet(fs, node) == At(fs, Control(fs, node)).op = "TESTSET"

\* mutant: a TESTSET whose value nobody wants keeps its open destination
PatchTestRegKept(fs, node, reg) ==
  LET c == Control(fs, node)
  IN  IF IsTestSet(fs, node) /\ reg # NO_REG THEN SetAt(fs, c, "A", reg) ELSE fs

PatchTestReg(fs, node, reg) ==
  LET c == Control(fs, node)
      i == At(fs, c)
  IN  IF ~IsTestSet(fs, node) THEN fs
      ELSE IF reg # NO_REG /\ reg # i.B THEN SetAt(fs, c, "A", reg)
      ELSE [fs EXCEPT !.code[c + 1] = Ins("TEST", i.B, 0, 0, i.k)]

RECURSIVE RemoveValues(_, _)
RemoveValues(fs, list) ==
  IF list = NO_JUMP THEN fs
  ELSE LET fs1 == PatchTestReg(fs, list, NO_REG)
       IN  RemoveValues(fs1, GetJump(fs1, list))

RECURSIVE PatchListAux(_, _, _, _, _)
PatchListAux(fs, list, vtarget, reg, dtarget) ==
  IF list = NO_JUMP THEN fs
  ELSE LET dest == IF IsTestSet(fs, list) THEN vtarget ELSE dtarget
           fs1 == FixJump(PatchTestReg(fs, list, reg), list, dest)
       IN  PatchListAux(fs1, GetJump(fs, list), vtarget, reg, dtarget)

PatchList(fs, list, target) ==
  PatchListAux(Require(fs, target <= Pc(fs)), list, target, NO_REG, target)

PatchToHere(fs, list) == PatchList(GetLabel(fs), list, Pc(fs))

RECURSIVE NeedValue(_, _)
NeedValue(fs, list) ==
  /\ list # NO_JUMP
  /\ ~IsTestSet(fs, list) \/ NeedValue(fs, GetJump(fs, list))

----------------------------------------------------------------------------
(* Registers and constants.                                                *)

\* reglevel: the register after those of the first n variables; a compile-time
\* constant ("ctc") has none
RegLevel(vars, n) ==
  LET held == {i \in 1 .. n : vars[i].kind # "ctc"}
  IN  IF held = {} THEN 0 ELSE vars[Max(held)].ridx + 1

\* vmkY_nvarstack
NVarStack(fs) == RegLevel(fs.vars, Len(fs.vars))

CheckStack(fs, n) == IF fs.fr + n > fs.max THEN [fs EXCEPT !.max = fs.fr + n]
                     ELSE fs

ReserveRegs(fs, n) == [CheckStack(fs, n) EXCEPT !.fr = @ + n]

FreeReg(fs, reg) ==
  IF reg >= NVarStack(fs)
  THEN Require([fs EXCEPT !.fr = @ - 1], reg = fs.fr - 1)
  ELSE fs

\* mutant: the registers of two operands freed in source order
FreeRegsInOrder(fs, r1, r2) == FreeReg(FreeReg(fs, r1), r2)

FreeRegs(fs, r1, r2) ==
  IF r1 > r2 THEN FreeReg(FreeReg(fs, r1), r2) ELSE FreeReg(FreeReg(fs, r2), r1)

RegOf(e) == IF e.k = "VNONRELOC" THEN e.info ELSE -1
FreeExp(fs, e) == IF e.k = "VNONRELOC" THEN FreeReg(fs, e.info) ELSE fs
FreeExps(fs, e1, e2) == FreeRegs(fs, RegOf(e1), RegOf(e2))

\* k2proto: a constant is entered once; integers and floats never share a key
K(fs, v) ==
  IF \E i \in DOMAIN fs.k : fs.k[i] = v
  THEN [fs |-> fs, i |-> (CHOOSE i \in DOMAIN fs.k : fs.k[i] = v) - 1]
  ELSE [fs |-> [fs EXCEPT !.k = Append(@, v)], i |-> Len(fs.k)]

\* vmkK_codek: the index of a LOADKX is in the instruction after it
CodeK(fs, reg, i) ==
  IF i <= MaxBx THEN CodeABC(fs, "LOADK", reg, i, 0)
  ELSE CodeABC(CodeABC(fs, "LOADKX", reg, 0, 0), "EXTRAARG", i, 0, 0)

\* vmkK_int, vmkK_float
CodeNumber(fs, reg, v, imm) ==
  IF FitsBx(v[2]) THEN CodeABC(fs, imm, reg, v[2], 0)
  ELSE LET k == K(fs, v) IN CodeK(k.fs, reg, k.i)

\* vmkK_nil: extends a LOADNIL that comes just before, unless a jump may land
\* between the two
CodeNil(fs, from, n) ==
  LET l == from + n - 1
      prev == At(fs, Pc(fs) - 1)
      pl == prev.A + prev.B
      lo == IF prev.A < from THEN prev.A ELSE from
      hi == IF pl > l THEN pl ELSE l
  IN  IF /\ Pc(fs) > fs.lt
         /\ prev.op = "LOADNIL"
         /\ \/ prev.A <= from /\ from <= pl + 1
            \/ from <= prev.A /\ prev.A <= l + 1
      THEN SetAt(SetAt(fs, Pc(fs) - 1, "A", lo), Pc(fs) - 1, "B", hi - lo)
      ELSE CodeABC(fs, "LOADNIL", from, n - 1, 0)

----------------------------------------------------------------------------
(* From a description to a value in a register.                            *)

\* vmkK_setreturns; n = -1 is VMK_MULTRET
SetReturns(fs, e, n) ==
  LET fs1 == SetAt(fs, e.info, "C", n + 1)
  IN  IF e.k = "VCALL" THEN fs1
      ELSE ReserveRegs(SetAt(fs1, e.info, "A", fs.fr), 1)

SetOneRet(fs, e) ==
  CASE e.k = "VCALL" ->
         R(Require(fs, At(fs, e.info).C = 2),
           [e EXCEPT !.k = "VNONRELOC", !.info = At(fs, e.info).A])
    [] e.k = "VVARARG" ->
         R(SetAt(fs, e.info, "C", 2), [e EXCEPT !.k = "VRELOC"])
    [] OTHER -> R(fs, e)

\* const2exp: a constant variable is the literal it was bound to
ConstExp(v) ==
  CASE v = Nil -> [k |-> "VNIL", info |-> 0]
    [] v[1] = "bool" -> [k |-> IF v[2] THEN "VTRUE" ELSE "VFALSE", info |-> 0]
    [] v[1] = "int" -> [k |-> "VKINT", info |-> v[2]]
    [] v[1] = "flt" -> [k |-> "VKFLT", info |-> v[2]]
    [] v[1] = "str" -> [k |-> "VKSTR", info |-> v]

DischargeVars(fs, e) ==
  CASE e.k = "VCONST" -> R(fs, ConstExp(e.info) @@ e)
    [] e.k = "VLOCAL" -> R(fs, [e EXCEPT !.k = "VNONRELOC"])
    [] e.k = "VUPVAL" -> Reloc(fs, e, "GETUPVAL", e.info, 0)
    [] e.k = "VINDEXUP" -> Reloc(fs, e, "GETTABUP", e.tr, e.idx)
    [] e.k = "VINDEXI" -> Reloc(FreeReg(fs, e.tr), e, "GETI", e.tr, e.idx)
    [] e.k = "VINDEXSTR" -> Reloc(FreeReg(fs, e.tr), e, "GETFIELD", e.tr, e.idx)
    [] e.k = "VINDEXED" ->
         Reloc(FreeRegs(fs, e.tr, e.idx), e, "GETTABLE", e.tr, e.idx)
    [] HasMultRet(e) -> SetOneRet(fs, e)
    [] OTHER -> R(fs, e)

\* str2K
StringToK(fs, e) == LET k == K(fs, e.info)
                    IN  R(k.fs, [e EXCEPT !.k = "VK", !.info = k.i])

Discharge2Reg(fs0, e0, reg) ==
  LET d == DischargeVars(fs0, e0)
      fs == d.fs
      e == d.e
      put == CASE e.k = "VNIL" -> CodeNil(fs, reg, 1)
               [] e.k = "VFALSE" -> CodeABC(fs, "LOADFALSE", reg, 0, 0)
               [] e.k = "VTRUE" -> CodeABC(fs, "LOADTRUE", reg, 0, 0)
               [] e.k = "VKSTR" -> LET k == K(fs, e.info) IN CodeK(k.fs, reg, k.i)
               [] e.k = "VK" -> CodeK(fs, reg, e.info)
               [] e.k = "VKFLT" -> CodeNumber(fs, reg, Float(e.info), "LOADF")
               [] e.k = "VKINT" -> CodeNumber(fs, reg, Integer(e.info), "LOADI")
               [] e.k = "VRELOC" -> SetAt(fs, e.info, "A", reg)
               [] e.k = "VNONRELOC" ->
                    IF reg = e.info THEN fs ELSE CodeABC(fs, "MOVE", reg, e.info, 0)
  IN  IF e.k = "VJMP" THEN d
      ELSE R(put, [e EXCEPT !.k = "VNONRELOC", !.info = reg])

Discharge2AnyReg(fs, e) ==
  IF e.k = "VNONRELOC" THEN R(fs, e)
  ELSE Discharge2Reg(ReserveRegs(fs, 1), e, fs.fr)

CodeLoadBool(fs, a, op) == CodeABC(GetLabel(fs), op, a, 0, 0)

\* exp2reg: a test without a value goes through one of two loads
Exp2Reg(fs0, e0, reg) ==
  LET d == Discharge2Reg(fs0, e0, reg)
      c == IF d.e.k = "VJMP" THEN Concat(d.fs, d.e.t, d.e.info)
           ELSE [fs |-> d.fs, l |-> d.e.t]
      e == [d.e EXCEPT !.t = c.l]
      needs == NeedValue(c.fs, e.t) \/ NeedValue(c.fs, e.f)
      skips == needs /\ e.k # "VJMP"
      fj == IF skips THEN Pc(c.fs) ELSE NO_JUMP
      fs1 == IF skips THEN Jump(c.fs) ELSE c.fs
      p_f == IF needs THEN Pc(fs1) ELSE NO_JUMP
      fs2 == IF ~needs THEN fs1
             ELSE LET f == CodeLoadBool(fs1, reg, "LFALSESKIP")
                  IN  PatchToHere(CodeLoadBool(f, reg, "LOADTRUE"), fj)
      p_t == IF needs THEN p_f + 1 ELSE NO_JUMP
      final == Pc(fs2)
      fs3 == PatchListAux(GetLabel(fs2), e.f, final, reg, p_f)
  IN  R(IF HasJumps(e) THEN PatchListAux(fs3, e.t, final, reg, p_t) ELSE c.fs,
        Exp("VNONRELOC", reg))

Exp2NextReg(fs, e) ==
  LET d == DischargeVars(fs, e)
      fs1 == ReserveRegs(FreeExp(d.fs, d.e), 1)
  IN  Exp2Reg(fs1, d.e, fs1.fr - 1)

Exp2AnyReg(fs, e) ==
  LET d == DischargeVars(fs, e)
  IN  CASE d.e.k = "VNONRELOC" /\ ~HasJumps(d.e) -> d
        [] d.e.k = "VNONRELOC" /\ HasJumps(d.e) /\ d.e.info >= NVarStack(d.fs) ->
             Exp2Reg(d.fs, d.e, d.e.info)
        [] OTHER -> Exp2NextReg(d.fs, d.e)

Exp2AnyRegUp(fs, e) ==
  IF e.k # "VUPVAL" \/ HasJumps(e) THEN Exp2AnyReg(fs, e) ELSE R(fs, e)

Exp2Val(fs, e) ==
  IF e.k = "VJMP" \/ HasJumps(e) THEN Exp2AnyReg(fs, e) ELSE DischargeVars(fs, e)

ConstantOf(e) ==
  CASE e.k = "VTRUE" -> Bool(TRUE)   [] e.k = "VFALSE" -> Bool(FALSE)
    [] e.k = "VNIL" -> Nil           [] e.k = "VKINT" -> Integer(e.info)
    [] e.k = "VKFLT" -> Float(e.info)  [] e.k = "VKSTR" -> e.info

\* vmkK_exp2K: 'isK' tells whether it succeeded; a constant is entered in the
\* list even when its index turns out not to fit
Exp2K(fs, e) ==
  LET constant == e.k \in {"VTRUE", "VFALSE", "VNIL", "VKINT", "VKFLT", "VKSTR"}
      k == IF e.k = "VK" THEN [fs |-> fs, i |-> e.info]
           ELSE K(fs, ConstantOf(e))
  IN  IF HasJumps(e) \/ ~(constant \/ e.k = "VK")
      THEN [fs |-> fs, e |-> e, isK |-> FALSE]
      ELSE IF k.i <= MaxB
      THEN [fs |-> k.fs, e |-> [e EXCEPT !.k = "VK", !.info = k.i], isK |-> TRUE]
      ELSE [fs |-> k.fs, e |-> e, isK |-> FALSE]

Exp2RK(fs, e) ==
  LET k == Exp2K(fs, e)
      r == Exp2AnyReg(k.fs, k.e)
  IN  IF k.isK THEN k ELSE [fs |-> r.fs, e |-> r.e, isK |-> FALSE]

----------------------------------------------------------------------------
(* Variables: storing and indexing.                                        *)

Bit(b) == IF b THEN 1 ELSE 0

CodeABRK(fs, op, a, b, ex) ==
  LET x == Exp2RK(fs, ex)
  IN  R(Code(x.fs, Ins(op, a, b, x.e.info, Bit(x.isK))), x.e)

\* vmkK_storevar
StoreVar(fs, var, ex) ==
  LET stored ==
        CASE var.k = "VUPVAL" ->
               LET x == Exp2AnyReg(fs, ex)
               IN  R(CodeABC(x.fs, "SETUPVAL", x.e.info, var.info, 0), x.e)
          [] var.k = "VINDEXUP" -> CodeABRK(fs, "SETTABUP", var.tr, var.idx, ex)
          [] var.k = "VINDEXI" -> CodeABRK(fs, "SETI", var.tr, var.idx, ex)
          [] var.k = "VINDEXSTR" -> CodeABRK(fs, "SETFIELD", var.tr, var.idx, ex)
          [] var.k = "VINDEXED" -> CodeABRK(fs, "SETTABLE", var.tr, var.idx, ex)
  IN  IF var.k = "VLOCAL" THEN Exp2Reg(FreeExp(fs, ex), ex, var.info).fs
      ELSE FreeExp(stored.fs, stored.e)

\* isKstr, isCint
IsKStr(fs, e) ==
  e.k = "VK" /\ ~HasJumps(e) /\ e.info <= MaxB /\ fs.k[e.info + 1][1] = "str"
IsKInt(e) == e.k = "VKINT" /\ ~HasJumps(e)
IsCInt(e) == IsKInt(e) /\ e.info \in 0 .. MaxC

\* vmkK_indexed: the variable t[key]
Indexed(fs0, t0, key0) ==
  LET s == IF key0.k = "VKSTR" THEN StringToK(fs0, key0) ELSE R(fs0, key0)
      key == s.e
      b == IF t0.k = "VUPVAL" /\ ~IsKStr(s.fs, key) THEN Exp2AnyReg(s.fs, t0)
           ELSE R(s.fs, t0)
      fs == Require(b.fs, ~HasJumps(t0) /\ t0.k \in {"VLOCAL", "VNONRELOC", "VUPVAL"})
      at(k, i) == [b.e EXCEPT !.k = k, !.tr = b.e.info, !.idx = i]
      r == Exp2AnyReg(fs, key)
  IN  CASE b.e.k = "VUPVAL" -> R(fs, at("VINDEXUP", key.info))
        [] b.e.k # "VUPVAL" /\ IsKStr(fs, key) -> R(fs, at("VINDEXSTR", key.info))
        [] b.e.k # "VUPVAL" /\ IsCInt(key) -> R(fs, at("VINDEXI", key.info))
        [] OTHER -> R(r.fs, at("VINDEXED", r.e.info))

\* vmkK_self
Self(fs0, e0, name) ==
  LET o == Exp2AnyReg(fs0, e0)
      ereg == o.e.info
      fs1 == FreeExp(o.fs, o.e)
      base == fs1.fr
      key == Exp2K(ReserveRegs(fs1, 2), Exp("VKSTR", name))
      kr == Exp2AnyReg(key.fs, key.e)
      moved == CodeABC(CodeABC(kr.fs, "MOVE", base + 1, ereg, 0),
                       "GETTABLE", base, ereg, kr.e.info)
  IN  R(IF key.isK THEN CodeABC(key.fs, "SELF", base, ereg, key.e.info)
        ELSE FreeExp(moved, kr.e),
        Exp("VNONRELOC", base))

----------------------------------------------------------------------------
(* Conditions.                                                             *)

CondJump(fs, op, a, b, c, k) == Jump(Code(fs, Ins(op, a, b, c, k)))

NegateCondition(fs, e) ==
  LET c == Control(fs, e.info)
  IN  SetAt(Require(fs, At(fs, c).op \in TModes \ {"TEST", "TESTSET"}),
            c, "k", 1 - At(fs, c).k)

\* jumponcond: R(fs, pc of the jump)
JumpOnCond(fs, e, cond) ==
  IF e.k = "VRELOC" /\ At(fs, e.info).op = "NOT"
  THEN LET fs1 == CondJump([fs EXCEPT !.code = Front(@)], "TEST",
                           At(fs, e.info).B, 0, 0, 1 - cond)
       IN  R(fs1, Pc(fs1) - 1)
  ELSE LET d == Discharge2AnyReg(fs, e)
           fs1 == CondJump(FreeExp(d.fs, d.e), "TESTSET", NO_REG, d.e.info, 0, cond)
       IN  R(fs1, Pc(fs1) - 1)

GoIfTrue(fs, e0) ==
  LET d == DischargeVars(fs, e0)
      e == d.e
      j == CASE e.k = "VJMP" -> R(NegateCondition(d.fs, e), e.info)
             [] e.k \in {"VK", "VKFLT", "VKINT", "VKSTR", "VTRUE"} ->
                  R(d.fs, NO_JUMP)
             [] OTHER -> JumpOnCond(d.fs, e, 0)
      c == Concat(j.fs, e.f, j.e)
  IN  R(PatchToHere(c.fs, e.t), [e EXCEPT !.f = c.l, !.t = NO_JUMP])

GoIfFalse(fs, e0) ==
  LET d == DischargeVars(fs, e0)
      e == d.e
      j == CASE e.k = "VJMP" -> R(d.fs, e.info)
             [] e.k \in {"VNIL", "VFALSE"} -> R(d.fs, NO_JUMP)
             [] OTHER -> JumpOnCond(d.fs, e, 1)
      c == Concat(j.fs, e.t, j.e)
  IN  R(PatchToHere(c.fs, e.f), [e EXCEPT !.t = c.l, !.f = NO_JUMP])

CodeNot(fs, e) ==
  LET d == Discharge2AnyReg(fs, e)
      n == CASE e.k \in {"VNIL", "VFALSE"} -> R(fs, [e EXCEPT !.k = "VTRUE"])
             [] e.k \in {"VK", "VKFLT", "VKINT", "VKSTR", "VTRUE"} ->
                  R(fs, [e EXCEPT !.k = "VFALSE"])
             [] e.k = "VJMP" -> R(NegateCondition(fs, e), e)
             [] e.k \in {"VRELOC", "VNONRELOC"} ->
                  Reloc(FreeExp(d.fs, d.e), d.e, "NOT", d.e.info, 0)
  IN  R(RemoveValues(RemoveValues(n.fs, e.t), e.f),
        [n.e EXCEPT !.t = e.f, !.f = e.t])

----------------------------------------------------------------------------
(* Operators.                                                              *)

IsSCInt(e) == IsKInt(e) /\ FitsC(e.info)
IsSCNumber(e) == IsNumeral(e) /\ FitsC(e.info)

\* constfolding: [ok, e]; zero is not folded to a float, because of -0.0
Fold(op, e1, e2) ==
  LET v == RawArith(op, NumeralValue(e1), NumeralValue(e2))[1]
  IN  IF ~(IsNumeral(e1) /\ IsNumeral(e2)) \/ v = Float(0)
      THEN [ok |-> FALSE, e |-> e1]
      ELSE [ok |-> TRUE, e |-> ConstExp(v) @@ e1]

CodeUnExpVal(fs, op, e) ==
  LET r == Exp2AnyReg(fs, e)
  IN  Reloc(FreeExp(r.fs, r.e), r.e, op, r.e.info, 0)

\* finishbinexpval: the operation, then the call of its metamethod, which the
\* interpreter skips when the operation succeeds.  mmB is the operand B of the
\* second (finishbinexpneg corrects it).
FinishBinExpVal(fs, e1, e2, op, v2, flip, mmop, mmB, event) ==
  LET a == Exp2AnyReg(fs, e1)
      v1 == a.e.info
      o == FreeExps(CodeABC(a.fs, op, 0, v1, v2), a.e, e2)
  IN  R(Code(o, Ins(mmop, v1, mmB, event, flip)),
        [a.e EXCEPT !.k = "VRELOC", !.info = Pc(a.fs)])

Opcode(op, suffix) ==
  (CASE op = "add" -> "ADD" [] op = "sub" -> "SUB" [] op = "mul" -> "MUL"
     [] op = "band" -> "BAND" [] op = "shl" -> "SHL" [] op = "shr" -> "SHR")
  \o suffix

CodeBinExpVal(fs, op, e1, e2) ==
  LET b == Exp2AnyReg(fs, e2)
      fs1 == Require(b.fs, e1.k \in {"VNIL", "VTRUE", "VFALSE", "VK", "VKFLT",
                                     "VKINT", "VKSTR", "VNONRELOC", "VRELOC"})
  IN  FinishBinExpVal(fs1, e1, b.e, Opcode(op, ""), b.e.info, 0,
                      "MMBIN", b.e.info, op)

\* the operands of codebini and finishbinexpneg are kept as the integers they
\* encode, int2sC and sC2int being inverse on what FitsC accepts
CodeBinI(fs, opc, e1, e2, flip, event) ==
  FinishBinExpVal(fs, e1, e2, opc, e2.info, flip, "MMBINI", e2.info, event)

CodeBinK(fs, op, e1, e2, flip) ==
  FinishBinExpVal(fs, e1, e2, Opcode(op, "K"), e2.info, flip,
                  "MMBINK", e2.info, op)

CanNegate(e) == IsKInt(e) /\ FitsC(e.info) /\ FitsC(- e.info)
FinishBinExpNeg(fs, e1, e2, opc, event) ==
  FinishBinExpVal(fs, e1, e2, opc, - e2.info, 0, "MMBINI", e2.info, event)

CodeBinNoK(fs, op, e1, e2, flip) ==
  IF flip = 1 THEN CodeBinExpVal(fs, op, e2, e1)
  ELSE CodeBinExpVal(fs, op, e1, e2)

CodeArith(fs, op, e1, e2, flip) ==
  LET k == Exp2K(fs, e2)
  IN  IF IsNumeral(e2) /\ k.isK THEN CodeBinK(k.fs, op, e1, k.e, flip)
      ELSE CodeBinNoK(IF IsNumeral(e2) THEN k.fs ELSE fs, op, e1, e2, flip)

CodeCommutative(fs, op, a, b) ==
  LET flip == Bit(IsNumeral(a))
      e1 == IF IsNumeral(a) THEN b ELSE a
      e2 == IF IsNumeral(a) THEN a ELSE b
  IN  IF op = "add" /\ IsSCInt(e2) THEN CodeBinI(fs, "ADDI", e1, e2, flip, "add")
      ELSE CodeArith(fs, op, e1, e2, flip)

CodeBitwise(fs, op, a, b) ==
  LET flip == Bit(a.k = "VKINT")
      e1 == IF a.k = "VKINT" THEN b ELSE a
      e2 == IF a.k = "VKINT" THEN a ELSE b
      k == Exp2K(fs, e2)
  IN  IF e2.k = "VKINT" /\ k.isK THEN CodeBinK(k.fs, op, e1, k.e, flip)
      ELSE CodeBinNoK(IF e2.k = "VKINT" THEN k.fs ELSE fs, op, e1, e2, flip)

\* a comparison is a test and a jump; C tells that the immediate was a float
Compare(fs, e1, e2, op, r1, r2, isfloat, k) ==
  LET fs1 == CondJump(FreeExps(fs, e1, e2), op, r1, r2, isfloat, k)
  IN  R(fs1, [e1 EXCEPT !.k = "VJMP", !.info = Pc(fs1) - 1])

\* codeorder, for "lt" and "le".  isSCnumber raises its 'isfloat' for a float
\* even when it goes on to refuse it, and nothing lowers it before the other
\* operand is tried.
CodeOrder(fs, op, e1, e2) ==
  LET a == Exp2AnyReg(fs, e1)
      b == Exp2AnyReg(fs, e2)
      ab == Exp2AnyReg(a.fs, e2)
      lt == op = "lt"
      both == Bit("VKFLT" \in {e1.k, e2.k})
  IN  CASE IsSCNumber(e2) ->
             Compare(a.fs, a.e, e2, IF lt THEN "LTI" ELSE "LEI",
                     a.e.info, e2.info, Bit(e2.k = "VKFLT"), 1)
        [] ~IsSCNumber(e2) /\ IsSCNumber(e1) ->
             Compare(b.fs, e1, b.e, IF lt THEN "GTI" ELSE "GEI",
                     b.e.info, e1.info, both, 1)
        [] OTHER ->
             Compare(ab.fs, a.e, ab.e, IF lt THEN "LT" ELSE "LE",
                     a.e.info, ab.e.info, both, 1)

\* codeeq, for "eq" and "ne"
CodeEq(fs, op, a, b) ==
  LET swap == a.k # "VNONRELOC"
      e2 == IF swap THEN a ELSE b
      r == Exp2AnyReg(Require(fs, swap => a.k \in {"VK", "VKINT", "VKFLT"}),
                      IF swap THEN b ELSE a)
      x == Exp2RK(r.fs, e2)
      isfloat == Bit(e2.k = "VKFLT")
      k == Bit(op = "eq")
  IN  IF IsSCNumber(e2)
      THEN Compare(r.fs, r.e, e2, "EQI", r.e.info, e2.info, isfloat, k)
      ELSE Compare(x.fs, r.e, x.e, IF x.isK THEN "EQK" ELSE "EQ",
                   r.e.info, x.e.info, isfloat, k)

\* vmkK_prefix
Prefix(fs0, op, e0) ==
  LET d == DischargeVars(fs0, e0)
      folded == Fold("unm", d.e, Exp("VKINT", 0))
  IN  CASE op = "not" -> CodeNot(d.fs, d.e)
        [] op = "unm" /\ folded.ok -> R(d.fs, folded.e)
        [] op = "unm" /\ ~folded.ok -> CodeUnExpVal(d.fs, "UNM", d.e)

Arithmetic == {"add", "sub", "mul", "band", "shl", "shr"}

\* vmkK_infix: what happens to the first operand before the second is read
Infix(fs0, op, v0) ==
  LET d == DischargeVars(fs0, v0)
      fs == d.fs
      v == d.e
  IN  CASE op = "and" -> GoIfTrue(fs, v)
        [] op = "or" -> GoIfFalse(fs, v)
        [] op = "concat" -> Exp2NextReg(fs, v)
        [] op \in Arithmetic -> IF IsNumeral(v) THEN d ELSE Exp2AnyReg(fs, v)
        [] op \in {"eq", "ne"} ->
             IF IsNumeral(v) THEN d
             ELSE LET x == Exp2RK(fs, v) IN R(x.fs, x.e)
        [] op \in {"lt", "le", "gt", "ge"} ->
             IF IsSCNumber(v) THEN d ELSE Exp2AnyReg(fs, v)

\* codeconcat: a .. (b .. c) is one instruction over three registers
CodeConcat(fs, e1, e2) ==
  LET pc == Pc(fs) - 1
      merged == SetAt(SetAt(fs, pc, "B", At(fs, pc).B + 1), pc, "A", e1.info)
  IN  IF Pc(fs) > fs.lt /\ At(fs, pc).op = "CONCAT"
      THEN R(Require(FreeExp(merged, e2), e1.info + 1 = At(fs, pc).A), e1)
      ELSE R(FreeExp(CodeABC(fs, "CONCAT", e1.info, 2, 0), e2), e1)

\* vmkK_posfix
Posfix(fs0, op, e1, e20) ==
  LET d == DischargeVars(fs0, e20)
      fs == d.fs
      e2 == d.e
      folded == Fold(op, e1, e2)
  IN  CASE op \in Arithmetic /\ folded.ok -> R(fs, folded.e)
        [] op = "and" ->
             LET c == Concat(Require(fs, e1.t = NO_JUMP), e2.f, e1.f)
             IN  R(c.fs, [e2 EXCEPT !.f = c.l])
        [] op = "or" ->
             LET c == Concat(Require(fs, e1.f = NO_JUMP), e2.t, e1.t)
             IN  R(c.fs, [e2 EXCEPT !.t = c.l])
        [] op = "concat" ->
             LET n == Exp2NextReg(fs, e2) IN CodeConcat(n.fs, e1, n.e)
        [] op \in {"add", "mul"} /\ ~folded.ok -> CodeCommutative(fs, op, e1, e2)
        [] op = "sub" /\ ~folded.ok ->
             IF CanNegate(e2) THEN FinishBinExpNeg(fs, e1, e2, "ADDI", "sub")
             ELSE CodeArith(fs, op, e1, e2, 0)
        [] op = "band" /\ ~folded.ok -> CodeBitwise(fs, op, e1, e2)
        [] op = "shl" /\ ~folded.ok ->
             IF IsSCInt(e1) THEN CodeBinI(fs, "SHLI", e2, e1, 1, "shl")
             ELSE IF CanNegate(e2) THEN FinishBinExpNeg(fs, e1, e2, "SHRI", "shl")
             ELSE CodeBinExpVal(fs, op, e1, e2)
        [] op = "shr" /\ ~folded.ok ->
             IF IsSCInt(e2) THEN CodeBinI(fs, "SHRI", e1, e2, 0, "shr")
             ELSE CodeBinExpVal(fs, op, e1, e2)
        [] op \in {"eq", "ne"} -> CodeEq(fs, op, e1, e2)
        [] op = "gt" -> CodeOrder(fs, "lt", e2, e1)
        [] op = "ge" -> CodeOrder(fs, "le", e2, e1)
        [] op \in {"lt", "le"} -> CodeOrder(fs, op, e1, e2)
=============================================================================
