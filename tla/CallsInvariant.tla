--------------------------- MODULE CallsInvariant ---------------------------
(***************************************************************************)
(* The inductive invariant of Calls: how the C stack, the frames of the    *)
(* threads, their statuses and the counters of C calls agree.  Its parts   *)
(* are operators of a C stack C and of the frames F of all threads,        *)
(* because an action goes through states that no step shows.               *)
(***************************************************************************)
EXTENDS Calls

-----------------------------------------------------------------------------
(* The C stack alone. *)

\* An activation over which the functions of its thread run.
Runner(a) == a.op = "call" \/ (a.op = "raw" /\ Coroutined(a.job))
Protected(a) == a.op = "raw" /\ a.job \in {"pcall", "close"}

\* The host called Main with a pcall, the first of its frames.
Bottom(a) == Protected(a) /\ a.th = Main /\ a.depth = 1

\* What activation a, the one right over b in the C stack, can be.
Enters(b, a) == Entering(a) /\ Runner(b) /\ a.th \in Cos /\ a.depth = 0
Calls(b, a) ==
    /\ a.op = "call"
    /\ \/ b.op = "raw" /\ b.job = "pcall" /\ a.depth = b.depth + 1 /\ a.inc = 1
       \/ b.op = "close" /\ a.depth = b.depth + 1 /\ a.inc = (IF b.yy THEN 0 ELSE 1)
       \/ Runner(b) /\ a.depth > b.depth + 1
Closes(b, a) ==
    /\ a.op = "close"
    /\ \/ a.yy /\ Runner(b) /\ a.depth >= b.depth /\ a.depth > 0
       \/ ~a.yy /\ b.op = "raw" /\ b.job = "close" /\ a.depth = b.depth
Over(b, a) ==
    \/ Enters(b, a)
    \/ /\ a.th = b.th
       /\ \/ Protected(a) /\ Runner(b) /\ a.depth > b.depth
          \/ Calls(b, a)
          \/ Closes(b, a)

\* The activations of a thread are next to each other, from the one it is
\* entered with; under each there is a setjmp of its thread; and the deeper
\* in the C stack, the lower the frame.
Shape(C) ==
    /\ \A i \in DOMAIN C : IF i = 1 THEN Bottom(C[1]) ELSE Over(C[i-1], C[i])
    /\ \A i, j \in DOMAIN C : i < j /\ Entering(C[j]) => C[i].th # C[j].th
    /\ \A i, j \in DOMAIN C : i < j /\ C[i].th = C[j].th =>
          /\ \A k \in i..j : C[k].th = C[i].th
          /\ C[i].depth <= C[j].depth
          /\ C[j].op = "call" => C[i].depth < C[j].depth
    /\ \A j \in DOMAIN C : \E i \in 1..j :
          /\ C[i].op = "raw" /\ C[i].th = C[j].th
          /\ \A k \in (i+1)..j : C[k].op # "raw"

\* What runs is not a setjmp of a pcall or of a protected close: each calls at once.
Topped(C) == C # <<>> => ~Protected(Last(C))

-----------------------------------------------------------------------------
(* The frames of one thread alone. *)

Parked(f) == f.fn \in {"resume", "close", "yield"} \/ (f.fn = "wrap" /\ f.pc = "wait")

\* A C function that nothing but its own C code can go on with.
Blocking(f) == \/ f.fn = "call" /\ f.pc = "wait"
               \/ f.fn = "pcall" /\ ~f.ypcall

PcOf(f) == CASE f.fn = "vmk" -> f.pc \in {"run", "wait", "closing", "returning"}
             [] f.fn = "call" -> f.pc \in {"wait", "returning"}
             [] f.fn = "wrap" -> f.pc \in {"wait", "raise"}
             [] OTHER -> f.pc = "wait"

\* A C function is called by a Vmk function, or is the first; the ones that
\* switch threads are the last of theirs; a pcall that can be left by a yield
\* has no frame under it that cannot.
Frames(s) ==
    \A k \in DOMAIN s :
        /\ PcOf(s[k])
        /\ s[k].fn \in {"resume", "wrap", "close", "yield"} => k = Len(s)
        /\ s[k].fn # "vmk" => ~s[k].fresh /\ (k > 1 => s[k-1].fn = "vmk")
        /\ s[k].fn = "vmk" /\ ~s[k].fresh => k > 1 /\ s[k-1].fn = "vmk"
        /\ s[k].ypcall => s[k].fn = "pcall" /\ \A j \in 1..(k-1) : ~Blocking(s[j])

-----------------------------------------------------------------------------
(* The C stack and the frames. *)

\* A frame whose variables can be closed again from the start after a yield.
Closing(f) == \/ f.fn = "vmk" /\ f.pc \in {"closing", "returning"}
              \/ f.fn = "call" /\ f.pc = "returning"
              \/ f.ypcall /\ f.recst

\* What the frames s of its thread are for activation a.
Framed(a, s) ==
    /\ a.depth <= Len(s)
    /\ Protected(a) /\ a.depth > 0 => s[a.depth].fn = "pcall" /\ ~s[a.depth].ypcall
    /\ a.op = "call" => s[a.depth].fn = "vmk" /\ s[a.depth].fresh
    /\ a.op = "close" /\ a.yy => Closing(s[a.depth])

\* What the frames u of the thread of b are for activation a over b.
Caller(b, a, u) ==
    /\ Entering(a) =>
          /\ Len(u) > b.depth /\ Last(u).pc = "wait"
          /\ Last(u).fn \in (IF a.job = "close" THEN {"close", "wrap"} ELSE {"resume", "wrap"})
    /\ a.op = "call" /\ Runner(b) =>
          \/ u[a.depth - 1].fn = "call"
          \/ u[a.depth - 1].fn = "pcall" /\ u[a.depth - 1].ypcall /\ ~u[a.depth - 1].recst

Linked(C, F) ==
    \A i \in DOMAIN C : /\ Framed(C[i], F[C[i].th])
                        /\ i > 1 => Caller(C[i-1], C[i], F[C[i-1].th])

\* A frame the interpreter loop was entered with, over a frame that is so now.
FreshCalled(C, F) ==
    \A i \in DOMAIN C : \A k \in DOMAIN F[C[i].th] :
        C[i].op = "call" /\ k > C[i].depth /\ F[C[i].th][k].fresh =>
            \E j \in DOMAIN C : C[j].op = "call" /\ C[j].th = C[i].th /\ C[j].depth = k

\* The C code of frame k of t is on the C stack.
Held(C, t, k) ==
    \E j \in DOMAIN C :
        /\ C[j].th = t
        /\ \/ C[j].op = "call" /\ C[j].inc = 1 /\ C[j].depth = k + 1
           \/ C[j].op = "raw" /\ C[j].job = "close" /\ C[j].depth = k

BlockingHeld(C, t, s) == \A k \in DOMAIN s : Blocking(s[k]) => Held(C, t, k)

\* The close that runs works on the last frame; the thread that runs is not parked.
TopFrame(C, F) ==
    C # <<>> => LET s == F[Last(C).th]
                IN /\ Last(C).op = "close" => Len(s) = Last(C).depth
                   /\ s # <<>> => ~Parked(Last(s))

-----------------------------------------------------------------------------
(* The threads out of the C stack, and the ones in it. *)

InC(C, t) == \E i \in DOMAIN C : C[i].th = t

\* What the status x and the frames s of a thread tell of where it is.
ThreadFits(in, runs, s, x) ==
    /\ in => x = "ok"
    /\ in /\ ~runs => s # <<>>
    /\ ~in /\ x = "ok" => s = <<>>
    /\ x = "yield" => s # <<>> /\ Last(s).fn = "yield"

RunningIn(C) == IF C = <<>> THEN Main ELSE Last(C).th

ThreadsFit(C, F, st) ==
    /\ \A t \in Threads : ThreadFits(InC(C, t), t = RunningIn(C), F[t], st[t])
    /\ st[Main] = "ok"

-----------------------------------------------------------------------------
(* The counters. *)

\* What a setjmp restores is what is counted under it and for itself.
RawCounts(C) ==
    \A i \in DOMAIN C : C[i].op = "raw" =>
        /\ C[i].cc = CCallsUpTo(C, i)
        /\ C[i].nny = NonYieldableUpTo(C[i].th, C, i)

\* A thread counts the C stack up to its last activation.
EndCounts(C, c, n) ==
    /\ C = <<>> => c[Main] = 0 /\ n[Main] = 1
    /\ \A i \in DOMAIN C : i = Len(C) \/ C[i+1].th # C[i].th =>
          /\ c[C[i].th] = CCallsUpTo(C, i)
          /\ n[C[i].th] = NonYieldableUpTo(C[i].th, C, i)

\* The counters c and n, and the setjmps, agree with the C stack C.
Exact(C, c, n) == RawCounts(C) /\ EndCounts(C, c, n)

-----------------------------------------------------------------------------
(* The C stack, the frames, the statuses and the counters together. *)

FrameMap == [Threads -> Seq(Frame)]
Statuses == [Threads -> {"ok", "yield", "err"}]
Counters == [Threads -> Nat]

Good(C, F) == /\ C \in Seq(Activation) /\ F \in FrameMap
              /\ Shape(C) /\ Linked(C, F) /\ FreshCalled(C, F)

Sound(C, F, st, c, n) ==
    /\ Good(C, F) /\ Topped(C) /\ TopFrame(C, F)
    /\ st \in Statuses /\ ThreadsFit(C, F, st)
    /\ \A t \in Threads : Frames(F[t]) /\ (st[t] # "err" => BlockingHeld(C, t, F[t]))
    /\ c \in Counters /\ n \in Counters /\ Exact(C, c, n)
    /\ CCallsUpTo(C, Len(C)) < ErrCCalls

-----------------------------------------------------------------------------
(* Threads that are reset. *)

\* vmkE_resetthread of u is on the C stack.
Resets(C, u) ==
    \E i \in DOMAIN C : C[i].op = "raw" /\ C[i].job = "close" /\ C[i].depth = 0 /\ C[i].th = u

\* None of the frames s is a pcall without a setjmp.
Plain(s) == \A k \in DOMAIN s : ~s[k].ypcall

\* The close of a thread cannot yield, and so no pcall in it is a mark.
Unmarked(C, F) == \A u \in Threads : Resets(C, u) => Plain(F[u])

-----------------------------------------------------------------------------
(* The pending variables. *)

\* The lowest position that a vmkF_close for frame d of s closes (0: for all of s).
LevelOf(f) == IF f.fn = "pcall" THEN f.base + 1 ELSE f.base
Level(d, s) == IF d = 0 THEN 1 ELSE LevelOf(s[d])
Levels(C, F) ==
    \A i \in DOMAIN C : C[i].op = "close" => C[i].level = Level(C[i].depth, F[C[i].th])

Bases(s) == \A i, j \in DOMAIN s : i < j => s[i].base < s[j].base
Rising(l) == \A i, j \in DOMAIN l : i < j => l[i].at < l[j].at

\* Who closes the pending variable p of t: the frame that marked it, a close
\* that no yield interrupts, or the pcall that is to recover the error.
Owned(s, p) == /\ p.frame \in DOMAIN s
               /\ s[p.frame].fn \in {"vmk", "call"} /\ s[p.frame].base < p.at
Cleared(C, t, p) ==
    \E i \in DOMAIN C : C[i].op = "close" /\ ~C[i].yy /\ C[i].th = t /\ C[i].level <= p.at
Recovered(s, p) == \E k \in DOMAIN s : s[k].ypcall /\ s[k].recst /\ s[k].base < p.at
Covered(C, s, t, p) == Owned(s, p) \/ Cleared(C, t, p) \/ Recovered(s, p)

\* The pending variables l of t, whose frames are s.
Pending(C, s, l, t) == Bases(s) /\ Rising(l) /\ \A p \in ToSet(l) : Covered(C, s, t, p)

Closable(C, F, L) == Levels(C, F) /\ \A t \in Threads : Pending(C, F[t], L[t], t)

\* Each variable is pending once, and was not closed since it was marked.
Once(L, c) ==
    \A t, u \in Threads : \A i \in DOMAIN L[t] : \A j \in DOMAIN L[u] :
        /\ L[t][i].var \notin c
        /\ L[t][i].var = L[u][j].var => t = u /\ i = j

-----------------------------------------------------------------------------
(* The invariant. *)

Core == TypeOK /\ Sound(cs, ci, status, cc, nny)
CallsInv == Core /\ Unmarked(cs, ci)
TbcInv == Closable(cs, ci, tbclist) /\ Once(tbclist, called)

=============================================================================
