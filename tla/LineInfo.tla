------------------------------ MODULE LineInfo ------------------------------
(***************************************************************************)
(* Line information: what the code generator saves for each instruction    *)
(* (lcode.c) and what the debug interface reads from it (ldebug.c).        *)
(* Positions of instructions start at 0, as in the code: lineinfo[pc + 1]  *)
(* is the entry of instruction pc.                                         *)
(***************************************************************************)
EXTENDS Integers, Sequences, SequencesExt, FiniteSets

CONSTANTS
    MaxIwthAbs,     \* MAXIWTHABS
    LimLineDiff     \* LIMLINEDIFF

ASSUME LineAssumption == {MaxIwthAbs, LimLineDiff} \subseteq Nat \ {0}

AbsLine == -LimLineDiff     \* ABSLINEINFO

-----------------------------------------------------------------------------
(* Saving (lcode.c).  A function being coded is fs: [linedefined, lineinfo, *)
(* abslineinfo] as in Proto, iwthabs and previousline as in FuncState, and  *)
(* lineOf, the lines that the code generator asked for.                     *)

\* open_func.
Open(linedefined) ==
    [linedefined |-> linedefined, lineinfo |-> <<>>, abslineinfo |-> <<>>,
     iwthabs |-> 0, previousline |-> linedefined, lineOf |-> <<>>]

Abs(n) == IF n < 0 THEN -n ELSE n

\* savelineinfo for the instruction that follows those of fs.
SaveLineInfo(fs, line) ==
    LET linedif == line - fs.previousline
        absolute == Abs(linedif) >= LimLineDiff \/ fs.iwthabs >= MaxIwthAbs
    IN  [fs EXCEPT !.lineinfo = Append(@, IF absolute THEN AbsLine ELSE linedif),
                   !.abslineinfo = IF absolute THEN Append(@, [pc |-> Len(fs.lineinfo), line |-> line]) ELSE @,
                   !.iwthabs = IF absolute THEN 1 ELSE @ + 1,
                   !.previousline = line,
                   !.lineOf = Append(@, line)]

\* removelastlineinfo.
Relative(fs) == Last(fs.lineinfo) # AbsLine
\* Mutant: the next line after a removed absolute one may be relative to it.
RemoveLastLineInfoKept(fs) ==
    LET shorter == [fs EXCEPT !.lineinfo = Front(@), !.lineOf = Front(@)]
    IN  IF Relative(fs)
        THEN [shorter EXCEPT !.iwthabs = @ - 1, !.previousline = @ - Last(fs.lineinfo)]
        ELSE [shorter EXCEPT !.abslineinfo = Front(@)]

RemoveLastLineInfo(fs) ==
    LET shorter == [fs EXCEPT !.lineinfo = Front(@), !.lineOf = Front(@)]
    IN  IF Relative(fs)
        THEN [shorter EXCEPT !.iwthabs = @ - 1, !.previousline = @ - Last(fs.lineinfo)]
        ELSE [shorter EXCEPT !.iwthabs = MaxIwthAbs + 1, !.abslineinfo = Front(@)]

\* vmkK_code; vmkK_fixline, or removelastinstruction with the instruction coded in its place.
CodeLine(fs, line) == SaveLineInfo(fs, line)
FixLine(fs, line) == SaveLineInfo(RemoveLastLineInfo(fs), line)

-----------------------------------------------------------------------------
(* Reading (ldebug.c). *)

InfoOf(f, pc) == f.lineinfo[pc + 1]

\* getbaseline: the last absolute line at or before pc, searched from an estimate of its index.
Estimate(pc) == pc \div MaxIwthAbs
BaseLine(f, pc) ==
    LET abs == f.abslineinfo
        reached == {n \in DOMAIN abs : n >= Estimate(pc) /\ \A m \in Estimate(pc) + 1 .. n : abs[m].pc <= pc}
        n == CHOOSE n \in reached : \A m \in reached : m <= n
    IN  IF abs = <<>> \/ pc < abs[1].pc THEN [pc |-> -1, line |-> f.linedefined] ELSE abs[n]

\* vmkG_getfuncline.
SumInfo(f, from, to) == FoldLeft(LAMBDA sum, d : sum + d, 0, SubSeq(f.lineinfo, from + 1, to + 1))
GetFuncLine(f, pc) ==
    IF f.lineinfo = <<>> THEN -1
    ELSE LET base == BaseLine(f, pc) IN base.line + SumInfo(f, base.pc + 1, pc)

\* nextline, and the lines that collectvalidlines enters in its table.
NextLine(f, currentline, pc) ==
    IF InfoOf(f, pc) # AbsLine THEN currentline + InfoOf(f, pc) ELSE GetFuncLine(f, pc)
ValidLines(f, isvararg) ==
    LET Step(s, pc) == [line |-> NextLine(f, s.line, pc),
                        lines |-> IF isvararg /\ pc = 0 THEN s.lines
                                  ELSE s.lines \cup {NextLine(f, s.line, pc)}]
    IN  FoldLeft(Step, [line |-> f.linedefined, lines |-> {}],
                 [n \in 1 .. Len(f.lineinfo) |-> n - 1]).lines

\* changedline: the differences between the two, unless they are far apart or one is absolute.
ChangedLine(f, oldpc, newpc) ==
    IF f.lineinfo = <<>> THEN FALSE
    ELSE IF newpc - oldpc < MaxIwthAbs \div 2 /\ \A pc \in oldpc + 1 .. newpc : InfoOf(f, pc) # AbsLine
    THEN SumInfo(f, oldpc + 1, newpc) # 0
    ELSE GetFuncLine(f, oldpc) # GetFuncLine(f, newpc)

-----------------------------------------------------------------------------
(* Properties. *)

\* The line that the debug interface finds for an instruction is the one that the code
\* generator asked for last, however often lines were fixed and instructions replaced.
LinesExact(fs) ==
    LET Coded == 0 .. Len(fs.lineOf) - 1 IN
    /\ \A pc \in Coded : GetFuncLine(fs, pc) = fs.lineOf[pc + 1]
    /\ \A old, new \in Coded : old < new =>
         (ChangedLine(fs, old, new) <=> fs.lineOf[old + 1] # fs.lineOf[new + 1])
    /\ ValidLines(fs, FALSE) = ToSet(fs.lineOf)
    /\ fs.lineOf # <<>> => ValidLines(fs, TRUE) = ToSet(Tail(fs.lineOf))

\* getbaseline's assertion: its estimate is an entry at or before the right one.
\* removelastlineinfo's: the last absolute line is that of the last instruction.
EstimateIsLow(fs) ==
    /\ \A pc \in 0 .. Len(fs.lineOf) - 1 : Estimate(pc) > 0 =>
         Estimate(pc) <= Len(fs.abslineinfo) /\ fs.abslineinfo[Estimate(pc)].pc <= pc
    /\ fs.lineOf # <<>> /\ ~Relative(fs) => Last(fs.abslineinfo).pc = Len(fs.lineOf) - 1
=============================================================================
