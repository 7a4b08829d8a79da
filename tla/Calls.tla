-------------------------------- MODULE Calls --------------------------------
(***************************************************************************)
(* Calls, protected calls, to-be-closed variables and coroutines (ldo.c,   *)
(* with vmkF_close of lfunc.c, vmk_pcallk of lapi.c, vmkE_resetthread of   *)
(* lstate.c, OP_RETURN, OP_CLOSE and vmkV_finishOp of lvm.c, and           *)
(* lcorolib.c).                                                            *)
(*                                                                         *)
(* Every thread has a list of CallInfo frames; all of them share one C     *)
(* stack.  An error or a yield is a longjmp that cuts the C stack down to  *)
(* the last setjmp of its thread.  What the C stack forgets has to be in   *)
(* the frames: a pcall of a coroutine is not a setjmp but a mark           *)
(* (CIST_YPCALL) that 'precover' looks for, and a function that yielded    *)
(* while closing its variables is resumed by repeating its instruction.    *)
(*                                                                         *)
(* The program is arbitrary.  Values, results, hooks, message handlers and *)
(* memory errors are left out; a C function that calls back with no        *)
(* continuation ("call") stands for all those of the libraries.            *)
(***************************************************************************)
EXTENDS Naturals, Sequences, SequencesExt

CONSTANTS
    Main,      \* the main thread
    Cos,       \* the coroutines
    Vars,      \* to-be-closed variables
    MaxCCalls, \* VMKI_MAXCCALLS
    ErrCCalls, \* VMKI_MAXCCALLS / 10 * 11, see vmkE_checkcstack
    MaxDepth,  \* bound: frames of each thread
    MaxLevel   \* bound: stack positions of to-be-closed variables

Threads == {Main} \cup Cos

ASSUME CallsAssumption ==
    /\ Main \notin Cos
    /\ MaxCCalls \in Nat \ {0} /\ ErrCCalls \in Nat /\ MaxDepth \in [Threads -> Nat]
    /\ MaxLevel \in Nat
    /\ MaxCCalls < ErrCCalls

VARIABLES
    ci,      \* ci[t]: the frames of thread t above its base frame
    tbclist, \* tbclist[t]: the pending variables of t, each with its position
             \* in the stack and the index of its frame
    status,  \* L->status: "ok", "yield" or "err"
    body,    \* body[t]: the function a new coroutine is to call is on its stack
    cc, nny, \* the two halves of L->nCcalls: C calls, non-yieldable calls
    cs,      \* the C stack, the last element is the running activation
    called   \* history: variables whose close method was called
vars == <<ci, tbclist, status, body, cc, nny, cs, called>>

\* A frame: 'pc' tells where a function is.  A Vmk function runs, waits in
\* OP_CALL, or is closing variables in OP_CLOSE or OP_RETURN; a C function
\* waits for what it called, returns, or is about to raise an error.
Frame == [fn : {"vmk", "pcall", "call", "resume", "wrap", "close", "yield"},
          pc : {"run", "wait", "closing", "returning", "raise"},
          base : Nat \ {0},               \* its position in the stack
          fresh : BOOLEAN,                \* CIST_FRESH
          ypcall : BOOLEAN,               \* CIST_YPCALL
          recst : BOOLEAN,                \* CIST_RECST holds an error
          clsret : BOOLEAN]               \* CIST_CLSRET
VmkFrame(b, fresh) == [fn |-> "vmk", pc |-> "run", base |-> b, fresh |-> fresh,
                       ypcall |-> FALSE, recst |-> FALSE, clsret |-> FALSE]
CFrame(b, f) == [fn |-> f, pc |-> "wait", base |-> b, fresh |-> FALSE,
                 ypcall |-> FALSE, recst |-> FALSE, clsret |-> FALSE]

\* An activation on the C stack: vmkD_rawrunprotected (a setjmp, with what it
\* restores), ccall, or vmkF_close down to a level.  'depth' is the index of the
\* frame it works for: the ci that vmkD_pcall saved (0 is the base frame), the
\* frame ccall entered vmkV_execute with, or the frame whose variables are closed.
Raw(t, job, depth, c, n) ==
    [op |-> "raw", th |-> t, job |-> job, depth |-> depth, cc |-> c, nny |-> n]
CCall(t, depth, n) == [op |-> "call", th |-> t, depth |-> depth, inc |-> n]
FClose(t, depth, level, yy) ==
    [op |-> "close", th |-> t, depth |-> depth, level |-> level, yy |-> yy]

-----------------------------------------------------------------------------
Top == Last(cs)
Running == IF cs = <<>> THEN Main ELSE Top.th
Cur(t) == Last(ci[t])
Base(t) == ci[t] = <<>>
Yieldable(t) == nny[t] = 0
Coroutined(job) == job \in {"resume", "unroll"}

\* The index in C of the last setjmp of thread t (L->errorJmp).
Handler(t, C) == SelectLastInSeq(C, LAMBDA a : a.op = "raw" /\ a.th = t)

\* findpcall: the innermost frame of s that can recover from an error.
FindPcallOutermost(s) == SelectInSeq(s, LAMBDA f : f.ypcall)   \* fault: searches from the base
FindPcall(s) == SelectLastInSeq(s, LAMBDA f : f.ypcall)

\* vmkE_checkcstack: is it an error to have n nested C calls?
CStackErrorOnce(n) == n = MaxCCalls                  \* fault: no second limit
CStackError(n) == n = MaxCCalls \/ n >= ErrCCalls

\* 's' with its last frame, a Vmk function, running again.
Rerun(s) == IF s = <<>> THEN s ELSE [s EXCEPT ![Len(s)].pc = "run"]
\* 's' after its last frame, a C function, returned to its caller.
ReturnC(s) == Rerun(Front(s))

Init ==
    /\ ci = [t \in Threads |-> <<>>]
    /\ tbclist = [t \in Threads |-> <<>>]
    /\ status = [t \in Threads |-> "ok"]
    /\ body = [t \in Threads |-> t \in Cos]
    /\ cc = [t \in Threads |-> 0]
    /\ nny = [t \in Threads |-> IF t = Main THEN 1 ELSE 0]
    /\ cs = <<>>
    /\ called = {}


-----------------------------------------------------------------------------
(* Entering and leaving C code. *)

\* The interpreter loop is running the last frame of t.
Interp(t) ==
    /\ cs # <<>> /\ Top.th = t /\ Top.op # "close"
    /\ ~Base(t) /\ Cur(t).fn = "vmk" /\ Cur(t).pc = "run"

\* What vmkD_rawrunprotected and vmk_resume restore.
SetCount(t, c, n) == cc' = [cc EXCEPT ![t] = c] /\ nny' = [nny EXCEPT ![t] = n]

\* vmkD_closeprotected down to 'level' of t, over the C stack C; what is
\* under the call is vmkD_pcall (depth > 0) or vmkE_resetthread.
CloseProtected(t, depth, level, C, c, n) ==
    /\ cs' = Append(Append(C, Raw(t, "close", depth, c, n)), FClose(t, depth, level, FALSE))
    /\ SetCount(t, c, n)

\* vmk_closethread(co) called by 'from', whose frames are s.
CloseThread(co, from, s) ==
    /\ ci' = [ci EXCEPT ![from] = s, ![co] = <<>>]
    /\ status' = [status EXCEPT ![co] = "ok"]

\* vmkD_throw by thread t, with frames s and C stack C: control is back in
\* the last setjmp of t, then vmkD_pcall, vmkD_closeprotected or vmk_resume.
Throw(t, s, C, st) ==
    LET h == Handler(t, C)
        a == C[h]
        below == SubSeq(C, 1, h - 1)
        from == Last(below).th
        pcalls == FindPcall(s)
    IN \/ /\ a.job \in {"pcall", "close"}
          /\ ci' = [ci EXCEPT ![t] = SubSeq(s, 1, a.depth)]
          /\ CloseProtected(t, a.depth, IF a.depth = 0 THEN 1 ELSE s[a.depth].base + 1,
                            below, a.cc, a.nny)
          /\ UNCHANGED status
       \/ \* the coroutine yields: vmk_resume returns
          /\ Coroutined(a.job) /\ st = "yield"
          /\ ci' = [ci EXCEPT ![t] = s, ![from] = ReturnC(@)]
          /\ cs' = below
          /\ SetCount(t, a.cc, a.nny)
          /\ status' = [status EXCEPT ![t] = "yield"]
       \/ \* precover: there is a pcall to recover the error
          /\ Coroutined(a.job) /\ st = "err" /\ pcalls # 0
          /\ ci' = [ci EXCEPT ![t] = [SubSeq(s, 1, pcalls) EXCEPT ![pcalls].recst = TRUE]]
          /\ cs' = Append(below, Raw(t, "unroll", 0, a.cc, a.nny))
          /\ SetCount(t, a.cc, a.nny)
          /\ UNCHANGED status
       \/ \* the coroutine dies; 'resume' leaves its frames as they are
          /\ Coroutined(a.job) /\ st = "err" /\ pcalls = 0
          /\ Last(ci[from]).fn = "resume"
          /\ ci' = [ci EXCEPT ![t] = s, ![from] = ReturnC(@)]
          /\ cs' = below
          /\ SetCount(t, a.cc, a.nny)
          /\ status' = [status EXCEPT ![t] = "err"]
       \/ \* the function of 'wrap' closes it before it propagates the error
          /\ Coroutined(a.job) /\ st = "err" /\ pcalls = 0
          /\ Last(ci[from]).fn = "wrap"
          /\ CloseThread(t, from, ci[from])
          /\ CloseProtected(t, 0, 1, below, cc[from], 0)

\* ccall of a Vmk function at position b by C code, 'inc' non-yieldable calls more.
Enter(t, s, C, b, inc) ==
    IF CStackError(cc[t] + 1) THEN Throw(t, s, C, "err")
    ELSE /\ ci' = [ci EXCEPT ![t] = Append(s, VmkFrame(b, TRUE))]
         /\ cs' = Append(C, CCall(t, Len(s) + 1, inc))
         /\ SetCount(t, cc[t] + 1, nny[t] + inc)
         /\ UNCHANGED status

\* The Vmk function of the last frame of s returned, its variables closed
\* (vmkD_poscall).  A fresh frame goes back to C code.
Finish(t, s, C) ==
    LET r == Front(s)
        below == Front(C)
    IN IF ~Last(s).fresh
       THEN ci' = [ci EXCEPT ![t] = Rerun(r)] /\ cs' = C /\ UNCHANGED <<cc, nny>>
       ELSE IF Last(C).op = "raw"                    \* back to unroll
       THEN ci' = [ci EXCEPT ![t] = r] /\ cs' = C /\ UNCHANGED <<cc, nny>>
       ELSE /\ ci' = [ci EXCEPT ![t] =
                  IF Last(below).op = "close" THEN r  \* back to vmkF_close
                  ELSE IF Last(r).fn = "call"
                  THEN [r EXCEPT ![Len(r)].pc = "returning"]
                  ELSE ReturnC(r)]                    \* back to vmk_pcallk
            /\ cs' = IF Last(below).op = "raw" /\ Last(below).job = "pcall"
                     THEN Front(below) ELSE below
            /\ SetCount(t, cc[t] - 1, nny[t] - Last(C).inc)

-----------------------------------------------------------------------------
(* The program: what the running function may do next. *)

HasPending(t, level) == tbclist[t] # <<>> /\ Last(tbclist[t]).at >= level
Waiting(t) == [ci[t] EXCEPT ![Len(ci[t])].pc = "wait"]
\* The first position above what the last frame of t uses.
NextBase(t) == 1 + (IF HasPending(t, Cur(t).base) THEN Last(tbclist[t]).at ELSE Cur(t).base)
WithC(t, f) == Append(Waiting(t), CFrame(NextBase(t), f))
Mark(v, at, frame) == [var |-> v, at |-> at, frame |-> frame]
Room(t) == Len(ci[t]) < MaxDepth[t]
Free == Vars \ UNION {{p.var : p \in ToSet(tbclist[t])} : t \in Threads}

\* The host calls vmk_pcall on a chunk.
StartChunk ==
    /\ cs = <<>>
    /\ ci' = [ci EXCEPT ![Main] = <<CFrame(1, "pcall"), VmkFrame(2, TRUE)>>]
    /\ cs' = <<Raw(Main, "pcall", 1, cc[Main], nny[Main]), CCall(Main, 2, 1)>>
    /\ SetCount(Main, cc[Main] + 1, nny[Main] + 1)
    /\ UNCHANGED <<tbclist, status, body, called>>

\* OP_CALL of a Vmk function: the same loop runs it.
CallVmk(t) ==
    /\ Interp(t) /\ Room(t)
    /\ ci' = [ci EXCEPT ![t] = Append(Waiting(t), VmkFrame(NextBase(t), FALSE))]
    /\ UNCHANGED <<tbclist, status, body, cc, nny, cs, called>>

\* vmkB_pcall, vmk_pcallk.
PCall(t) ==
    /\ Interp(t) /\ Room(t)
    /\ LET s == WithC(t, "pcall")
       IN IF Yieldable(t)
          THEN Enter(t, [s EXCEPT ![Len(s)].ypcall = TRUE], cs, NextBase(t) + 1, 0)
          ELSE Enter(t, s, Append(cs, Raw(t, "pcall", Len(s), cc[t], nny[t])), NextBase(t) + 1, 1)
    /\ UNCHANGED <<tbclist, body, called>>

\* A C function that marks the variables of vs (vmk_toclose) and calls back.
CallCYieldable(t, vs) ==             \* fault: the callee may yield
    /\ Interp(t) /\ Room(t)
    /\ vs # <<>> => NextBase(t) < MaxLevel
    /\ tbclist' = [tbclist EXCEPT ![t] =
                      @ \o [i \in 1..Len(vs) |-> Mark(vs[i], NextBase(t) + i, Len(ci[t]) + 1)]]
    /\ called' = called \ ToSet(vs)
    /\ Enter(t, WithC(t, "call"), cs, NextBase(t) + Len(vs) + 1, 0)
    /\ UNCHANGED body
CallC(t, vs) ==
    /\ Interp(t) /\ Room(t)
    /\ vs # <<>> => NextBase(t) < MaxLevel
    /\ tbclist' = [tbclist EXCEPT ![t] =
                      @ \o [i \in 1..Len(vs) |-> Mark(vs[i], NextBase(t) + i, Len(ci[t]) + 1)]]
    /\ called' = called \ ToSet(vs)
    /\ Enter(t, WithC(t, "call"), cs, NextBase(t) + Len(vs) + 1, 1)
    /\ UNCHANGED body

\* vmkF_newtbcupval.
NewTbc(t, v) ==
    /\ Interp(t) /\ NextBase(t) <= MaxLevel
    /\ tbclist' = [tbclist EXCEPT ![t] = Append(@, Mark(v, NextBase(t), Len(ci[t])))]
    /\ called' = called \ {v}
    /\ UNCHANGED <<ci, status, body, cc, nny, cs>>

\* vmkB_error, and every other error the running function may raise.
Error(t) ==
    /\ Interp(t)
    /\ Throw(t, ci[t], cs, "err")
    /\ UNCHANGED <<tbclist, body, called>>

\* vmkB_yield, vmk_yieldk.
Yield(t) ==
    /\ Interp(t) /\ Room(t)
    /\ IF Yieldable(t)
       THEN Throw(t, WithC(t, "yield"), cs, "yield")
       ELSE Throw(t, WithC(t, "yield"), cs, "err")
    /\ UNCHANGED <<tbclist, body, called>>

\* OP_CLOSE and OP_RETURN.
CloseBlock(t) ==
    /\ Interp(t) /\ HasPending(t, Cur(t).base)
    /\ ci' = [ci EXCEPT ![t][Len(ci[t])].pc = "closing"]
    /\ cs' = Append(cs, FClose(t, Len(ci[t]), Cur(t).base, TRUE))
    /\ UNCHANGED <<tbclist, status, body, cc, nny, called>>

Return(t) ==
    /\ Interp(t)
    /\ IF HasPending(t, Cur(t).base)
       THEN /\ ci' = [ci EXCEPT ![t][Len(ci[t])].pc = "returning"]
            /\ cs' = Append(cs, FClose(t, Len(ci[t]), Cur(t).base, TRUE))
            /\ UNCHANGED <<cc, nny>>
       ELSE Finish(t, ci[t], cs)
    /\ UNCHANGED <<tbclist, status, body, called>>

\* vmk_resume's checks.
NotResumableNoLevel(co) ==           \* fault: the base level is not checked
    \/ status[co] = "ok" /\ Base(co) /\ ~body[co]
    \/ status[co] = "err"
NotResumable(co) ==
    \/ status[co] = "ok" /\ (~Base(co) \/ ~body[co])
    \/ status[co] = "err"

\* The C calls a thread starts with when t resumes it.
ResumeCountFlat(t) == cc[t]          \* fault: the resume itself is not counted
ResumeCount(t) == cc[t] + 1

\* vmkB_coresume and vmkB_auxwrap ('f'), vmk_resume.
Resume(t, co, f) ==
    /\ Interp(t) /\ Room(t)
    /\ ~NotResumable(co) /\ cc[t] < MaxCCalls
    /\ ci' = [ci EXCEPT ![t] = WithC(t, f),
                        ![co] = IF status[co] = "yield" THEN ReturnC(@) ELSE @]
    /\ status' = [status EXCEPT ![co] = "ok"]
    /\ SetCount(co, ResumeCount(t), 0)
    /\ cs' = Append(cs, Raw(co, "resume", 0, ResumeCount(t), 0))
    /\ UNCHANGED <<tbclist, body, called>>

\* A refused 'resume' only returns false; the function of 'wrap' raises an
\* error, after closing a coroutine that has the status of an error.
WrapRefused(t, co) ==
    /\ Interp(t) /\ Room(t)
    /\ NotResumable(co) \/ cc[t] >= MaxCCalls
    /\ IF status[co] = "err"
       THEN /\ CloseThread(co, t, WithC(t, "wrap"))
            /\ CloseProtected(co, 0, 1, cs, cc[t], 0)
       ELSE Throw(t, ci[t], cs, "err")
    /\ UNCHANGED <<tbclist, body, called>>

\* vmkB_close on a dead or suspended coroutine.
CloseCo(t, co) ==
    /\ Interp(t) /\ Room(t) /\ co # t
    /\ status[co] # "ok" \/ Base(co)
    /\ CloseThread(co, t, WithC(t, "close"))
    /\ CloseProtected(co, 0, 1, cs, cc[t], 0)
    /\ UNCHANGED <<tbclist, body, called>>

-----------------------------------------------------------------------------
(* C code that goes on when what it called is done. *)

\* resume: a new coroutine calls its body with no increment in nCcalls.
Start(co) ==
    /\ Top = Raw(co, "resume", 0, cc[co], 0) /\ Base(co) /\ body[co]
    /\ body' = [body EXCEPT ![co] = FALSE]
    /\ IF CStackError(cc[co])
       THEN Throw(co, <<>>, cs, "err")
       ELSE /\ ci' = [ci EXCEPT ![co] = <<VmkFrame(1, TRUE)>>]
            /\ UNCHANGED <<status, cc, nny, cs>>
    /\ UNCHANGED <<tbclist, called>>

\* unroll: finish what the last frame was doing when it was interrupted
\* (vmkV_finishOp, finishCcall).
Unroll(t) ==
    /\ Top.op = "raw" /\ Coroutined(Top.job) /\ Top.th = t /\ ~Base(t)
    /\ \/ /\ Cur(t).fn = "vmk" /\ Cur(t).pc = "wait"
          /\ ci' = [ci EXCEPT ![t] = Rerun(@)] /\ UNCHANGED cs
       \/ /\ Cur(t).fn = "vmk" /\ Cur(t).pc \in {"closing", "returning"}
          /\ cs' = Append(cs, FClose(t, Len(ci[t]), Cur(t).base, TRUE)) /\ UNCHANGED ci
       \/ /\ Cur(t).ypcall /\ ~Cur(t).recst
          /\ ci' = [ci EXCEPT ![t] = ReturnC(@)] /\ UNCHANGED cs
       \/ \* finishpcallk after an error
          /\ Cur(t).ypcall /\ Cur(t).recst
          /\ cs' = Append(cs, FClose(t, Len(ci[t]), Cur(t).base + 1, TRUE)) /\ UNCHANGED ci
    /\ UNCHANGED <<tbclist, status, body, cc, nny, called>>

\* moveresults of a C function, also when finishCcall repeats it.
ReturnFromC(t) ==
    /\ Top.th = t /\ Top.op # "close" /\ ~Base(t)
    /\ Cur(t).fn = "call" /\ Cur(t).pc = "returning"
    /\ IF HasPending(t, Cur(t).base)
       THEN /\ ci' = [ci EXCEPT ![t][Len(ci[t])].clsret = TRUE]
            /\ cs' = Append(cs, FClose(t, Len(ci[t]), Cur(t).base, TRUE))
       ELSE ci' = [ci EXCEPT ![t] = ReturnC(@)] /\ UNCHANGED cs
    /\ UNCHANGED <<tbclist, status, body, cc, nny, called>>

\* vmk_resume returns: the coroutine has no more frames.
ResumeReturns(t) ==
    /\ Top.op = "raw" /\ Coroutined(Top.job) /\ Top.th = t /\ Base(t) /\ ~body[t]
    /\ ci' = [ci EXCEPT ![Last(Front(cs)).th] = ReturnC(@)]
    /\ cs' = Front(cs)
    /\ SetCount(t, Top.cc, Top.nny)
    /\ UNCHANGED <<tbclist, status, body, called>>

\* A method called by vmkD_closeprotected cannot yield.
CloseIncYieldable == 0               \* fault: it can
CloseInc == IF Top.yy THEN 0 ELSE 1

\* vmkF_close: the next pending variable is removed, then its method called.
CallCloseFirst(t) ==                 \* fault: removed only after the call
    /\ Top.op = "close" /\ Top.th = t /\ HasPending(t, Top.level)
    /\ called' = called \cup {Last(tbclist[t]).var}
    /\ Enter(t, ci[t], cs, Last(tbclist[t]).at + 1, CloseInc)
    /\ UNCHANGED <<tbclist, body>>
CallClose(t) ==
    /\ Top.op = "close" /\ Top.th = t /\ HasPending(t, Top.level)
    /\ called' = called \cup {Last(tbclist[t]).var}
    /\ tbclist' = [tbclist EXCEPT ![t] = Front(@)]
    /\ Enter(t, ci[t], cs, Last(tbclist[t]).at + 1, CloseInc)
    /\ UNCHANGED body

\* vmkF_close found no more variables: its caller goes on.
CloseReturns(t) ==
    /\ Top.op = "close" /\ Top.th = t /\ ~HasPending(t, Top.level)
    /\ LET C == Front(cs)
           a == Last(C)
           from == Last(Front(C)).th
       IN IF a.op = "raw" /\ a.job = "close"
          THEN /\ cs' = Front(C) /\ SetCount(t, a.cc, a.nny)
               /\ IF a.depth > 0                      \* vmkD_pcall
                  THEN ci' = [ci EXCEPT ![t] = ReturnC(@)] /\ UNCHANGED body
                  ELSE                                \* vmk_closethread
                    /\ body' = [body EXCEPT ![t] = FALSE]
                    /\ ci' = [ci EXCEPT ![from] =
                                IF Last(@).fn = "close" THEN ReturnC(@)
                                ELSE [@ EXCEPT ![Len(@)].pc = "raise"]]
          ELSE /\ UNCHANGED body
               /\ IF Cur(t).fn = "vmk" /\ Cur(t).pc = "returning"
                  THEN Finish(t, ci[t], C)
                  ELSE /\ ci' = [ci EXCEPT ![t] = IF Cur(t).fn = "vmk" THEN Rerun(@)
                                                  ELSE ReturnC(@)]
                       /\ cs' = C /\ UNCHANGED <<cc, nny>>
    /\ UNCHANGED <<tbclist, status, called>>

\* vmkB_auxwrap propagates the error of the coroutine it closed.
Raise(t) ==
    /\ Top.th = t /\ Top.op # "close" /\ ~Base(t)
    /\ Cur(t).fn = "wrap" /\ Cur(t).pc = "raise"
    /\ Throw(t, ci[t], cs, "err")
    /\ UNCHANGED <<tbclist, body, called>>

Next ==
    \/ StartChunk
    \/ /\ cs # <<>>
       /\ LET t == Running
          IN \/ CallVmk(t) \/ PCall(t) \/ Error(t) \/ Yield(t) \/ CloseBlock(t)
             \/ Return(t) \/ Start(t) \/ Unroll(t) \/ ReturnFromC(t) \/ ResumeReturns(t)
             \/ CallClose(t) \/ CloseReturns(t) \/ Raise(t)
             \/ \E v \in Free : NewTbc(t, v)
             \/ \E vs \in {<<>>} \cup {<<v>> : v \in Free} : CallC(t, vs)
             \/ \E co \in Threads : \/ WrapRefused(t, co) \/ CloseCo(t, co)
                                    \/ \E f \in {"resume", "wrap"} : Resume(t, co, f)

Spec == Init /\ [][Next]_vars

-----------------------------------------------------------------------------
(* Properties. *)

Activation ==
    [op : {"raw"}, th : Threads, job : {"pcall", "close", "resume", "unroll"},
     depth : Nat, cc : Nat, nny : Nat]
    \cup [op : {"call"}, th : Threads, depth : Nat, inc : {0, 1}]
    \cup [op : {"close"}, th : Threads, depth : Nat, level : Nat \ {0}, yy : BOOLEAN]

TypeOK ==
    /\ ci \in [Threads -> Seq(Frame)]
    /\ tbclist \in [Threads -> Seq([var : Vars, at : Nat \ {0}, frame : Nat \ {0}])]
    /\ status \in [Threads -> {"ok", "yield", "err"}]
    /\ body \in [Threads -> BOOLEAN]
    /\ cc \in [Threads -> Nat] /\ nny \in [Threads -> Nat]
    /\ cs \in Seq(Activation)
    /\ called \subseteq Vars

\* A pending variable always has the frame that will close it, or a vmkF_close
\* that covers it is on the C stack, or the pcall that recovers the error is
\* still in its thread.
NoTbcForgotten ==
    \A t \in Threads : \A p \in ToSet(tbclist[t]) :
        \/ p.frame <= Len(ci[t]) /\ ci[t][p.frame].base < p.at
        \/ \E a \in ToSet(cs) : a.op = "close" /\ a.th = t /\ a.level <= p.at
        \/ \E f \in ToSet(ci[t]) : f.ypcall /\ f.recst /\ f.base < p.at

\* A close method is called once for each time its variable is marked, although
\* an error or a yield in a method makes vmkF_close start again.
ClosedOnce == \A t \in Threads : \A p \in ToSet(tbclist[t]) : p.var \notin called

\* Each variable is closed, and only once, whatever fails or yields in between.
ClosedExactlyOnce == NoTbcForgotten /\ ClosedOnce

\* The throw of a yield lands in the vmk_resume of its thread: no setjmp of a
\* pcall or of a protected close is in the way of a thread that can yield.
YieldReachesResume ==
    Interp(Running) /\ Yieldable(Running) => Coroutined(cs[Handler(Running, cs)].job)

\* nCcalls of the running thread counts the C calls of the whole C stack, and
\* its non-yieldable half those of this thread alone.
Counted(a) == IF a.op = "raw" THEN Coroutined(a.job) ELSE a.op = "call"
NonYieldable(t, a) == a.op = "call" /\ a.th = t /\ a.inc = 1
CCallsUpTo(C, n) == Cardinality({i \in 1..n : Counted(C[i])})
NonYieldableUpTo(t, C, n) ==
    (IF t = Main THEN 1 ELSE 0) + Cardinality({i \in 1..n : NonYieldable(t, C[i])})
NCcallsExact ==
    /\ cc[Running] = CCallsUpTo(cs, Len(cs))
    /\ nny[Running] = NonYieldableUpTo(Running, cs, Len(cs))

\* The limit of nested C calls holds across coroutines, although each thread
\* checks only its own counter and an increment by vmk_resume is not checked
\* by vmkE_checkcstack.
CStackBounded ==
    CCallsUpTo(cs, Len(cs)) < ErrCCalls

\* finishCcall's assertion: a C function below a yield left a continuation, or
\* was closing its variables.
CFramesContinue ==
    \A t \in Threads : \A i \in DOMAIN ci[t] :
        ci[t][i].fn # "vmk" /\
        (\/ status[t] = "yield" /\ i < Len(ci[t])
         \/ cs # <<>> /\ Running = t /\ i = Len(ci[t]) /\ Top.op = "raw" /\ Coroutined(Top.job))
        => ci[t][i].ypcall \/ ci[t][i].pc \in {"returning", "raise"}

\* The stacks of frames of all threads are well formed, and each frame below a yield can go on.
FramesSound == TypeOK /\ CFramesContinue

\* An error is caught by the innermost pcall of its thread, be it a setjmp or a
\* mark; with none, the coroutine stops being run.
InnermostPcall(s) == SelectLastInSeq(s, LAMBDA f : f.fn = "pcall")
ReachesInnermostPcall(t) ==
    LET p == InnermostPcall(ci[t])
    IN IF p # 0 THEN Len(ci'[t]) = p /\ Last(cs').th = t
       ELSE ci'[t] = <<>> \/ (status'[t] = "err" /\ Last(cs').th # t)
ErrorReachesInnermostPcall ==
    [][\A t \in Threads : Error(t) => ReachesInnermostPcall(t)]_vars

\* auxstatus, completed for the running and the normal threads: the coroutines
\* in the C stack, in order, have been resumed or are being closed.
Entering(a) == /\ a.op = "raw"
               /\ Coroutined(a.job) \/ (a.job = "close" /\ a.depth = 0)
EnteredAt == {i \in DOMAIN cs : Entering(cs[i])}
NthEntered(n) == CHOOSE i \in EnteredAt : Cardinality({j \in EnteredAt : j <= i}) = n
ActiveChain == [n \in 1..(Cardinality(EnteredAt) + 1) |->
                  IF n = 1 THEN Main ELSE cs[NthEntered(n - 1)].th]
LifeOf(co) ==
    IF \E i \in EnteredAt : cs[i].th = co /\ cs[i].job = "close" THEN "closing"
    ELSE IF \E i \in EnteredAt : cs[i].th = co THEN "active"
    ELSE IF status[co] = "yield" \/ (status[co] = "ok" /\ Base(co) /\ body[co])
    THEN "suspended"
    ELSE IF status[co] = "err" \/ Base(co) THEN "dead" ELSE "normal"

\* Every step of the calls above is one of the steps of a coroutine's life.
Life == INSTANCE CoroutineLife
            WITH active <- ActiveChain, life <- [co \in Cos |-> LifeOf(co)]
ImplementsLife == Life!Spec

=============================================================================
