---------------------------- MODULE CallsProofs -----------------------------
(***************************************************************************)
(* CallsInv is an invariant of Calls, for any threads, variables and limits: *)
(* every action, with all the steps it makes, keeps it.  From it follow the *)
(* properties of the C stack, of the frames, of the counters and of errors. *)
(***************************************************************************)
EXTENDS CallsLemmas, SequenceTheorems

-----------------------------------------------------------------------------
(* The actions. *)

\* The first position over the variables and the base of a frame is a position.
LEMMA NextBaseType ==
  ASSUME TypeOK, NEW t \in Threads, ci[t] # <<>>
  PROVE  NextBase(t) \in Nat \ {0}
  <1>1. ci[t] \in Seq(Frame)
    BY DEF TypeOK
  <1>2. Cur(t) \in Frame
    BY <1>1, Shortened DEF Cur
  <1>3. Cur(t).base \in Nat
    BY <1>2, FrameFields
  <1>4. tbclist[t] \in Seq([var : Vars, at : Nat \ {0}, frame : Nat \ {0}])
    BY DEF TypeOK
  <1>5. tbclist[t] # <<>> => Last(tbclist[t]).at \in Nat
    <2> SUFFICES ASSUME tbclist[t] # <<>> PROVE Last(tbclist[t]).at \in Nat
      OBVIOUS
    <2>1. Last(tbclist[t]) \in [var : Vars, at : Nat \ {0}, frame : Nat \ {0}]
      BY <1>4, Shortened
    <2> QED BY <2>1
  <1> QED BY <1>3, <1>5 DEF NextBase, HasPending

\* The frame of a C function.
LEMMA CFrameFacts ==
  ASSUME NEW b \in Nat \ {0}, NEW f \in {"pcall", "call", "resume", "wrap", "close", "yield"}
  PROVE  /\ CFrame(b, f) \in Frame /\ PcOf(CFrame(b, f)) /\ ~CFrame(b, f).fresh
         /\ ~CFrame(b, f).ypcall /\ ~CFrame(b, f).recst
         /\ CFrame(b, f).fn = f /\ CFrame(b, f).pc = "wait"
  BY DEF CFrame, Frame, PcOf

\* What the state is when the interpreter loop runs a frame of t.
LEMMA InterpFacts ==
  ASSUME Core, NEW t, Interp(t)
  PROVE  /\ cs # <<>> /\ t = Last(cs).th /\ Last(cs).op # "close" /\ t \in Threads
         /\ ci \in FrameMap /\ ci[t] \in Seq(Frame) /\ ci[t] # <<>> /\ Len(ci[t]) \in Nat \ {0}
         /\ Last(ci[t]).fn = "vmk" /\ Last(ci[t]).pc = "run"
         /\ Mid(cs, ci, status, cc, nny, t) /\ Runner(Last(cs)) /\ ~Protected(Last(cs))
         /\ Last(cs).depth \in 0..Len(ci[t])
         /\ [ci EXCEPT ![t] = ci[t]] = ci
         /\ NextBase(t) \in Nat \ {0}
         /\ \A f : WithC(t, f) = WithCall(ci[t], CFrame(NextBase(t), f))
  <1>1. /\ cs # <<>> /\ t = Last(cs).th /\ Last(cs).op # "close"
        /\ ci[t] # <<>> /\ Last(ci[t]).fn = "vmk" /\ Last(ci[t]).pc = "run"
    BY DEF Interp, Top, Base, Cur
  <1>2. Sound(cs, ci, status, cc, nny)
    BY DEF Core
  <1>3. Mid(cs, ci, status, cc, nny, t)
    BY <1>1, <1>2, SoundMid
  <1>4. Runner(Last(cs)) /\ ~Protected(Last(cs))
    BY ONLY <1>1, <1>2, RunnerTop
  <1>5. t \in Threads /\ ci \in FrameMap /\ ci[t] \in Seq(Frame) /\ Last(cs).depth \in 0..Len(ci[t])
    BY <1>3, RunningFacts
  <1>6. [ci EXCEPT ![t] = ci[t]] = ci
    BY <1>5 DEF FrameMap
  <1>7. NextBase(t) \in Nat \ {0}
    BY <1>1, <1>5, NextBaseType DEF Core
  <1>8. \A f : WithC(t, f) = WithCall(ci[t], CFrame(NextBase(t), f))
    BY DEF WithC, Waiting, WithCall, Waits
  <1>9. Len(ci[t]) \in Nat \ {0}
    BY <1>1, <1>5, Shortened
  <1> QED BY <1>1, <1>3, <1>4, <1>5, <1>6, <1>7, <1>8, <1>9

\* A sequence of frames with the last one marked as a pcall that recovers.
LEMMA LastMarked ==
  ASSUME NEW w \in Seq(Frame), NEW g \in Frame, [g EXCEPT !.ypcall = TRUE] \in Frame
  PROVE  [Append(w, g) EXCEPT ![Len(Append(w, g))].ypcall = TRUE]
            = Append(w, [g EXCEPT !.ypcall = TRUE])
  <1> DEFINE f == [g EXCEPT !.ypcall = TRUE]
             A == Append(w, g)
             B == Append(w, f)
             n == Len(w) + 1
             E == [A EXCEPT ![n] = f]
  <1>1. /\ A \in Seq(Frame) /\ Len(A) = n /\ A[n] = g /\ n \in 1..Len(A)
        /\ \A j \in 1..Len(w) : A[j] = w[j]
    OBVIOUS
  <1>2. B \in Seq(Frame) /\ Len(B) = n /\ B[n] = f /\ \A j \in 1..Len(w) : B[j] = w[j]
    <2>1. f \in Frame
      OBVIOUS
    <2> HIDE DEF f
    <2> QED BY <2>1
  <1>3. [A EXCEPT ![n].ypcall = TRUE] = E
    BY <1>1
  <1>4. f \in Frame /\ E = [A EXCEPT ![n] = f]
    OBVIOUS
  <1>n. n = Len(w) + 1 /\ Len(w) \in Nat
    OBVIOUS
  <1> HIDE DEF f, A, B, E, n
  <1>5. E \in Seq(Frame) /\ Len(E) = Len(A) /\ \A j \in 1..Len(A) : E[j] = IF j = n THEN f ELSE A[j]
    BY ONLY <1>1, <1>4, ExceptSeq
  <1>6. E = B
    <2>1. Len(E) = Len(B) /\ \A j \in 1..Len(E) : E[j] = B[j]
      <3>1. Len(E) = n /\ Len(A) = n /\ Len(B) = n
        BY <1>1, <1>2, <1>5
      <3>2. ASSUME NEW j \in 1..n PROVE E[j] = B[j]
        <4>1. j = n \/ j \in 1..Len(w)
          BY <1>n
        <4>2. E[j] = IF j = n THEN f ELSE A[j]
          BY <1>5, <3>1
        <4> QED BY <4>1, <4>2, <1>1, <1>2
      <3> QED BY <3>1, <3>2
    <2> QED BY ONLY <1>2, <1>5, <2>1, SeqEqual
  <1> QED BY <1>1, <1>3, <1>6 DEF f, A, B

\* The call of a Vmk function adds a frame, and nothing to the C stack.
LEMMA CallVmkSound ==
  ASSUME Core, NEW t, CallVmk(t)
  PROVE  Sound(cs', ci', status', cc', nny')
  <1> DEFINE f == VmkFrame(NextBase(t), FALSE)
             r == WithCall(ci[t], f)
             G == [ci EXCEPT ![t] = r]
  <1>1. /\ cs # <<>> /\ t = Last(cs).th /\ Last(cs).op # "close" /\ t \in Threads
        /\ ci \in FrameMap /\ ci[t] # <<>> /\ Last(ci[t]).fn = "vmk"
        /\ ~Protected(Last(cs)) /\ NextBase(t) \in Nat \ {0}
    BY InterpFacts DEF CallVmk
  <1>2. Sound(cs, ci, status, cc, nny)
    BY DEF Core
  <1>3. f \in Frame /\ PcOf(f) /\ ~f.fresh /\ ~f.ypcall /\ ~Parked(f) /\ ~Blocking(f)
    BY <1>1 DEF VmkFrame, Frame, PcOf, Parked, Blocking
  <1>4. ci' = G /\ UNCHANGED <<status, cc, nny, cs>>
    BY DEF CallVmk, Waiting, WithCall, Waits
  <1>r. r = WithCall(ci[t], f) /\ G = [ci EXCEPT ![t] = r]
    OBVIOUS
  <1> HIDE DEF f, r, G
  <1>5. Mid(cs, G, status, cc, nny, t) /\ Last(r) = f
    <2>1. f.ypcall => f.fn = "pcall" /\ \A k \in DOMAIN ci[t] : ~Blocking(ci[t][k])
      BY <1>3
    <2>2. f \in Frame /\ PcOf(f) /\ ~f.fresh
      BY <1>3
    <2>3. r = WithCall(ci[t], f)
      BY <1>r
    <2>4. /\ cs # <<>> /\ t = Last(cs).th /\ Last(cs).op # "close" 
          /\ ci[t] # <<>> /\ Last(ci[t]).fn = "vmk"
      BY <1>1
    <2>5. Mid(cs, [ci EXCEPT ![t] = r], status, cc, nny, t) /\ Last(r) = f
      BY ONLY <1>2, <2>1, <2>2, <2>3, <2>4, MidCalls
    <2> QED BY <2>5, <1>r
  <1>6. G[t] = r
    BY <1>1, <1>r DEF FrameMap
  <1>7. Sound(cs, G, status, cc, nny)
    <2>1. G[t] # <<>> => ~Parked(Last(G[t])) /\ ~Blocking(Last(G[t]))
      BY <1>3, <1>5, <1>6
    <2> QED BY ONLY <1>1, <1>5, <2>1, MidSound
  <1> QED BY <1>4, <1>7

\* The pcall of the basic library keeps the invariant: of a coroutine it is a
\* mark in its frame, which needs no C frame under it; else a setjmp.
LEMMA PCallSound ==
  ASSUME Core, NEW t, PCall(t)
  PROVE  Sound(cs', ci', status', cc', nny')
  <1> DEFINE g == CFrame(NextBase(t), "pcall")
             s == WithC(t, "pcall")
             b == NextBase(t) + 1
  <1>1. /\ cs # <<>> /\ t = Last(cs).th /\ Last(cs).op # "close" /\ t \in Threads
        /\ ci \in FrameMap /\ ci[t] # <<>> /\ Last(ci[t]).fn = "vmk"
        /\ Runner(Last(cs)) /\ NextBase(t) \in Nat \ {0}
    BY InterpFacts DEF PCall
  <1>2. Sound(cs, ci, status, cc, nny)
    BY DEF Core
  <1>3. /\ g \in Frame /\ PcOf(g) /\ ~g.fresh /\ ~g.ypcall /\ g.fn = "pcall" /\ ~g.recst
        /\ b \in Nat \ {0}
    BY <1>1, CFrameFacts
  <1>4. IF Yieldable(t) THEN Enter(t, [s EXCEPT ![Len(s)].ypcall = TRUE], cs, b, 0)
        ELSE Enter(t, s, Append(cs, Raw(t, "pcall", Len(s), cc[t], nny[t])), b, 1)
    BY DEF PCall
  <1>5. s = WithCall(ci[t], g)
    BY InterpFacts DEF PCall
  <1>g. g = CFrame(NextBase(t), "pcall")
    OBVIOUS
  <1> HIDE DEF g, s, b
  <1>6. CASE Yieldable(t)
    <2> DEFINE f == [g EXCEPT !.ypcall = TRUE]
               r == [s EXCEPT ![Len(s)].ypcall = TRUE]
    <2>1. f \in Frame /\ PcOf(f) /\ ~f.fresh /\ f.fn = "pcall" /\ f.ypcall /\ ~f.recst
      BY <1>3 DEF Frame, PcOf
    <2>2. \A k \in DOMAIN ci[t] : ~Blocking(ci[t][k])
      <3>1. nny[t] = 0
        BY <1>6 DEF Yieldable
      <3> QED BY ONLY <3>1, <1>1, <1>2, YieldableFree
    <2>3. r = WithCall(ci[t], f)
      <3>1. ci[t] \in Seq(Frame)
        BY <1>1 DEF FrameMap
      <3>2. Waits(ci[t]) \in Seq(Frame)
        BY <3>1, <1>1, LastAt DEF Waits, Trimmed
      <3>3. s = Append(Waits(ci[t]), g)
        BY <1>5 DEF WithCall
      <3>4. r = Append(Waits(ci[t]), f)
        <4>1. f \in Frame /\ g \in Frame /\ s = Append(Waits(ci[t]), g) /\ Waits(ci[t]) \in Seq(Frame)
          BY <1>3, <2>1, <3>2, <3>3
        <4> QED BY ONLY <4>1, LastMarked DEF f, r
      <3> QED BY <3>4 DEF WithCall
    <2>4. Enter(t, r, cs, b, 0)
      BY <1>4, <1>6
    <2> HIDE DEF f, r
    <2>5. /\ Mid(cs, [ci EXCEPT ![t] = r], status, cc, nny, t)
          /\ Len(r) = Len(ci[t]) + 1 /\ Last(r) = f /\ r # <<>> /\ Len(r) > Last(cs).depth
      <3>1. f.ypcall => f.fn = "pcall" /\ \A k \in DOMAIN ci[t] : ~Blocking(ci[t][k])
        BY <2>1, <2>2
      <3> QED BY ONLY <1>1, <1>2, <2>1, <3>1, <2>3, MidCalls
    <2>6. CanEnter(cs, r, t, 0)
      <3>1. Len(r) \in Nat /\ Last(cs).depth \in Nat
        <4>1. ci[t] \in Seq(Frame) /\ Last(cs).depth \in 0..Len(ci[t])
          BY ONLY InterpFacts, Core, PCall(t) DEF PCall
        <4> QED BY <4>1, <2>5
      <3>2. Over(Last(cs), CCall(t, Len(r) + 1, 0))
        BY <3>1, <2>5, <1>1 DEF Over, Calls, CCall
      <3>3. ~Parked(Last(r)) /\ ~Blocking(Last(r))
        BY <2>1, <2>5 DEF Parked, Blocking
      <3> QED BY <1>1, <2>1, <2>5, <3>2, <3>3 DEF CanEnter
    <2>7. 0 \in {0, 1}
      OBVIOUS
    <2> QED BY ONLY <1>1, <1>3, <2>4, <2>5, <2>6, <2>7, EnterSound
  <1>7. CASE ~Yieldable(t)
    <2> DEFINE G == [ci EXCEPT ![t] = s]
               a == Raw(t, "pcall", Len(s), cc[t], nny[t])
               D == Append(cs, a)
    <2>1. /\ Mid(cs, G, status, cc, nny, t)
          /\ Len(s) = Len(ci[t]) + 1 /\ Last(s) = g /\ s # <<>> /\ Len(s) > Last(cs).depth
      <3>1. g.ypcall => g.fn = "pcall" /\ \A k \in DOMAIN ci[t] : ~Blocking(ci[t][k])
        BY <1>3
      <3> QED BY ONLY <1>1, <1>2, <1>3, <3>1, <1>5, MidCalls
    <2>2. G[t] = s
      BY <1>1 DEF FrameMap
    <2>3. Mid(D, G, status, cc, nny, t)
      <3>1. D = Append(cs, Raw(t, "pcall", Len(G[t]), cc[t], nny[t]))
        BY <2>2
      <3>2. /\ Runner(Last(cs)) /\ Len(G[t]) > Last(cs).depth
            /\ G[t] # <<>> /\ Last(G[t]).fn = "pcall" /\ ~Last(G[t]).ypcall
        BY <1>1, <1>3, <2>1, <2>2
      <3> HIDE DEF D, G
      <3> QED BY ONLY <2>1, <3>1, <3>2, MidPcall
    <2>4. Last(D) = a /\ a.op = "raw" /\ a.job = "pcall" /\ a.depth = Len(s) /\ a.th = t
      <3>1. cs \in Seq(Activation)
        BY DEF Core, TypeOK
      <3>2. Last(Append(cs, a)) = a
        BY <3>1 DEF Last
      <3> QED BY <3>2 DEF Raw
    <2>5. CanEnter(D, s, t, 1)
      <3>1. Over(Last(D), CCall(t, Len(s) + 1, 1))
        BY <2>4 DEF Over, Calls, CCall
      <3>2. ~Runner(Last(D)) /\ Last(D).op # "close"
        BY <2>4 DEF Runner, Coroutined
      <3>3. ~Parked(Last(s)) /\ Last(s).fn # "wrap"
        BY <1>3, <2>1 DEF Parked
      <3> QED BY <3>1, <3>2, <3>3 DEF CanEnter
    <2>6. Enter(t, s, D, b, 1) /\ 1 \in {0, 1}
      BY <1>4, <1>7
    <2> HIDE DEF D
    <2> QED BY ONLY <1>1, <1>3, <2>3, <2>5, <2>6, EnterSound
  <1> QED BY <1>6, <1>7

\* A C function of the libraries that calls back: its callee may not yield.
LEMMA CallCSound ==
  ASSUME Core, NEW t, NEW vs \in Seq(Vars), CallC(t, vs)
  PROVE  Sound(cs', ci', status', cc', nny')
  <1> DEFINE g == CFrame(NextBase(t), "call")
             s == WithC(t, "call")
             b == NextBase(t) + Len(vs) + 1
  <1>1. /\ cs # <<>> /\ t = Last(cs).th /\ Last(cs).op # "close" /\ t \in Threads
        /\ ci \in FrameMap /\ ci[t] # <<>> /\ Last(ci[t]).fn = "vmk"
        /\ Runner(Last(cs)) /\ NextBase(t) \in Nat \ {0}
        /\ ci[t] \in Seq(Frame) /\ Last(cs).depth \in 0..Len(ci[t])
    BY InterpFacts DEF CallC
  <1>2. Sound(cs, ci, status, cc, nny)
    BY DEF Core
  <1>3. g \in Frame /\ PcOf(g) /\ ~g.fresh /\ ~g.ypcall /\ g.fn = "call" /\ g.pc = "wait"
    BY <1>1, CFrameFacts
  <1>b. b \in Nat \ {0} /\ 1 \in {0, 1}
    BY <1>1
  <1>4. Enter(t, s, cs, b, 1)
    BY DEF CallC
  <1>5. s = WithCall(ci[t], g)
    BY InterpFacts DEF CallC
  <1> HIDE DEF g, s, b
  <1>6. /\ Mid(cs, [ci EXCEPT ![t] = s], status, cc, nny, t)
        /\ Len(s) = Len(ci[t]) + 1 /\ Last(s) = g /\ s # <<>> /\ Len(s) > Last(cs).depth
    <2>1. g.ypcall => g.fn = "pcall" /\ \A k \in DOMAIN ci[t] : ~Blocking(ci[t][k])
      BY <1>3
    <2> QED BY ONLY <1>1, <1>2, <1>3, <2>1, <1>5, MidCalls
  <1>7. CanEnter(cs, s, t, 1)
    <2>1. Over(Last(cs), CCall(t, Len(s) + 1, 1))
      BY <1>1, <1>6 DEF Over, Calls, CCall
    <2>2. ~Parked(Last(s)) /\ Last(s).fn # "wrap"
      BY <1>3, <1>6 DEF Parked
    <2> QED BY <1>1, <1>3, <1>6, <2>1, <2>2 DEF CanEnter
  <1> QED BY ONLY <1>1, <1>b, <1>4, <1>6, <1>7, EnterSound

\* The error of a running function is thrown from its own frames.
LEMMA ErrorSound ==
  ASSUME Core, NEW t, Error(t)
  PROVE  Sound(cs', ci', status', cc', nny')
  <1>1. ci \in FrameMap /\ Mid(cs, [ci EXCEPT ![t] = ci[t]], status, cc, nny, t)
    BY InterpFacts DEF Error
  <1>2. Throw(t, ci[t], cs, "err") /\ "err" \in {"err", "yield"} /\ ("err" = "yield" => Leaves("err", ci[t]))
    BY DEF Error
  <1> QED BY ONLY <1>1, <1>2, ThrowSound

\* The error that the function of 'wrap' propagates is thrown from its frame.
LEMMA RaiseSound ==
  ASSUME Core, cs # <<>>, NEW t, Raise(t)
  PROVE  Sound(cs', ci', status', cc', nny')
  <1>1. t = Last(cs).th /\ Sound(cs, ci, status, cc, nny)
    BY DEF Core, Raise, Top
  <1>2. Mid(cs, ci, status, cc, nny, t)
    BY <1>1, SoundMid
  <1>3. ci \in FrameMap /\ t \in Threads
    BY <1>2, RunningFacts
  <1>4. [ci EXCEPT ![t] = ci[t]] = ci
    BY <1>3 DEF FrameMap
  <1>5. Mid(cs, [ci EXCEPT ![t] = ci[t]], status, cc, nny, t)
    BY <1>2, <1>4
  <1>6. Throw(t, ci[t], cs, "err") /\ "err" \in {"err", "yield"} /\ ("err" = "yield" => Leaves("err", ci[t]))
    BY DEF Raise
  <1> QED BY ONLY <1>3, <1>5, <1>6, ThrowSound

\* A yield is thrown from the frame of vmk_yield: no C code is under it.
LEMMA YieldSound ==
  ASSUME Core, NEW t, Yield(t)
  PROVE  Sound(cs', ci', status', cc', nny')
  <1> DEFINE g == CFrame(NextBase(t), "yield")
             s == WithC(t, "yield")
             x == IF Yieldable(t) THEN "yield" ELSE "err"
  <1>1. /\ cs # <<>> /\ t = Last(cs).th /\ Last(cs).op # "close" /\ t \in Threads
        /\ ci \in FrameMap /\ ci[t] # <<>> /\ Last(ci[t]).fn = "vmk"
        /\ NextBase(t) \in Nat \ {0} /\ ci[t] \in Seq(Frame)
    BY InterpFacts DEF Yield
  <1>2. Sound(cs, ci, status, cc, nny)
    BY DEF Core
  <1>3. g \in Frame /\ PcOf(g) /\ ~g.fresh /\ ~g.ypcall /\ g.fn = "yield"
    BY <1>1, CFrameFacts
  <1>4. Throw(t, s, cs, x) /\ x \in {"err", "yield"} /\ (x = "yield" => Yieldable(t))
    BY DEF Yield
  <1>5. s = WithCall(ci[t], g)
    BY InterpFacts DEF Yield
  <1> HIDE DEF g, s, x
  <1>6. /\ Mid(cs, [ci EXCEPT ![t] = s], status, cc, nny, t)
        /\ s \in Seq(Frame) /\ Len(s) = Len(ci[t]) + 1 /\ Last(s) = g /\ s[Len(s)] = g /\ s # <<>>
        /\ \A k \in 1..Len(ci[t]) : Blocking(s[k]) => Blocking(ci[t][k])
    <2>1. g.ypcall => g.fn = "pcall" /\ \A k \in DOMAIN ci[t] : ~Blocking(ci[t][k])
      BY <1>3
    <2> QED BY ONLY <1>1, <1>2, <1>3, <2>1, <1>5, MidCalls, SMTT(30)
  <1>7. x = "yield" => Leaves("yield", s)
    <2> SUFFICES ASSUME x = "yield" PROVE Leaves("yield", s)
      OBVIOUS
    <2>1. \A k \in DOMAIN ci[t] : ~Blocking(ci[t][k])
      <3>1. nny[t] = 0
        BY <1>4 DEF Yieldable
      <3> QED BY ONLY <3>1, <1>1, <1>2, YieldableFree
    <2>2. ASSUME NEW k \in DOMAIN s PROVE ~Blocking(s[k])
      <3>1. k \in 1..Len(ci[t]) \/ k = Len(s)
        BY <1>1, <1>6
      <3>2. ~Blocking(g)
        BY <1>3 DEF Blocking
      <3>3. DOMAIN ci[t] = 1..Len(ci[t])
        BY <1>1
      <3> QED BY <3>1, <3>2, <3>3, <2>1, <1>6
    <2> QED BY <1>3, <1>6, <2>2 DEF Leaves
  <1>8. x = "yield" => Leaves(x, s)
    BY <1>7
  <1> QED BY ONLY <1>1, <1>4, <1>6, <1>7, ThrowSound

\* A variable is marked: the frames and the C stack stay.
LEMMA NewTbcSound ==
  ASSUME Core, NEW t, NEW v, NewTbc(t, v)
  PROVE  Sound(cs', ci', status', cc', nny')
  BY DEF Core, NewTbc

\* The last frame of the running function with another pc starts vmkF_close.
LEMMA ClosesSound ==
  ASSUME Core, NEW t, Interp(t), NEW x \in {"closing", "returning"},
         ci' = [ci EXCEPT ![t][Len(ci[t])].pc = x],
         cs' = Append(cs, FClose(t, Len(ci[t]), Cur(t).base, TRUE)),
         UNCHANGED <<status, cc, nny>>
  PROVE  Sound(cs', ci', status', cc', nny')
  <1> DEFINE r == [ci[t] EXCEPT ![Len(ci[t])].pc = x]
             lvl == Cur(t).base
  <1>1. /\ cs # <<>> /\ t = Last(cs).th /\ Last(cs).op # "close" /\ t \in Threads
        /\ ci \in FrameMap /\ ci[t] # <<>> /\ Last(ci[t]).fn = "vmk" /\ ci[t] \in Seq(Frame)
    BY InterpFacts
  <1>2. Sound(cs, ci, status, cc, nny)
    BY DEF Core
  <1>3. /\ r \in Seq(Frame) /\ Trimmed(r, ci[t], Len(ci[t])) /\ r # <<>> /\ Len(r) = Len(ci[t])
        /\ Last(r).pc = x /\ SameKind(Last(r), Last(ci[t]))
    <2>1. x \in {"run", "wait", "closing", "returning", "raise"}
      OBVIOUS
    <2>2. /\ Trimmed(r, ci[t], Len(ci[t])) /\ r # <<>> /\ Len(r) = Len(ci[t])
          /\ Last(r).pc = x /\ SameKind(Last(r), Last(ci[t]))
      <3>1. ASSUME NEW s \in Seq(Frame), s # <<>>
            PROVE  /\ Trimmed([s EXCEPT ![Len(s)].pc = x], s, Len(s)) /\ [s EXCEPT ![Len(s)].pc = x] # <<>>
                   /\ Len([s EXCEPT ![Len(s)].pc = x]) = Len(s)
                   /\ Last([s EXCEPT ![Len(s)].pc = x]).pc = x
                   /\ SameKind(Last([s EXCEPT ![Len(s)].pc = x]), Last(s))
        BY ONLY <2>1, s \in Seq(Frame), s # <<>>, LastAt
      <3>2. ci[t] \in Seq(Frame) /\ ci[t] # <<>>
        BY <1>1
      <3> QED BY ONLY <3>1, <3>2
    <2> QED BY <2>2 DEF Trimmed
  <1>4. PcOf(Last(r)) /\ Closing(Last(r))
    BY <1>1, <1>3 DEF PcOf, Closing, SameKind
  <1>5. lvl \in Nat \ {0}
    BY <1>1, Shortened, FrameFields DEF Cur
  <1>6. ci' = [ci EXCEPT ![t] = r]
    OBVIOUS
  <1>7. cs' = Append(cs, FClose(t, Len(r), lvl, TRUE))
    BY <1>3
  <1> HIDE DEF r, lvl
  <1>8. Sound(Append(cs, FClose(t, Len(r), lvl, TRUE)), [ci EXCEPT ![t] = r], status, cc, nny)
    BY ONLY <1>1, <1>2, <1>3, <1>4, <1>5, PushYY
  <1> QED BY <1>6, <1>7, <1>8

\* The end of a block starts a close that can yield over the running function.
LEMMA CloseBlockSound ==
  ASSUME Core, NEW t, CloseBlock(t)
  PROVE  Sound(cs', ci', status', cc', nny')
  BY ClosesSound DEF CloseBlock

\* OP_RETURN closes the variables of its function, or ends it.
LEMMA ReturnSound ==
  ASSUME Core, NEW t, Return(t)
  PROVE  Sound(cs', ci', status', cc', nny')
  <1>1. CASE HasPending(t, Cur(t).base)
    BY <1>1, ClosesSound DEF Return
  <1>2. CASE ~HasPending(t, Cur(t).base)
    <2>1. Finish(t, ci[t], cs) /\ status' = status
      BY <1>2 DEF Return
    <2>2. /\ cs # <<>> /\ t = Last(cs).th /\ Last(cs).op # "close"
          /\ ci[t] # <<>> /\ Last(ci[t]).fn = "vmk"
      BY InterpFacts DEF Return
    <2>3. Sound(cs, ci, status, cc, nny)
      BY DEF Core
    <2> QED BY ONLY <2>1, <2>2, <2>3, FinishSound
  <1> QED BY <1>1, <1>2

\* Sequences of one and two elements.
LEMMA Pairs == \A x, y : Append(<<>>, x) = <<x>> /\ Append(<<x>>, y) = <<x, y>>
  <1> SUFFICES ASSUME NEW x, NEW y PROVE Append(<<>>, x) = <<x>> /\ Append(<<x>>, y) = <<x, y>>
    OBVIOUS
  <1> DEFINE S == {x, y}
             A == Append(<<>>, x)
             B == Append(<<x>>, y)
  <1>1. A \in Seq(S) /\ <<x>> \in Seq(S) /\ Len(A) = 1 /\ Len(<<x>>) = 1 /\ A[1] = x /\ <<x>>[1] = x
    OBVIOUS
  <1>2. /\ B \in Seq(S) /\ <<x, y>> \in Seq(S) /\ Len(B) = 2 /\ Len(<<x, y>>) = 2
        /\ B[1] = x /\ B[2] = y /\ <<x, y>>[1] = x /\ <<x, y>>[2] = y
    OBVIOUS
  <1> HIDE DEF A, B, S
  <1>3. A = <<x>>
    BY ONLY <1>1, SeqEqual
  <1>4. B = <<x, y>>
    BY ONLY <1>2, SeqEqual
  <1> QED BY <1>3, <1>4 DEF A, B

\* The host enters the state with vmk_pcall: a setjmp, and a call over it.
LEMMA StartChunkSound ==
  ASSUME Core, StartChunk
  PROVE  Sound(cs', ci', status', cc', nny')
  <1> DEFINE f == CFrame(1, "pcall")
             s == <<f>>
             G == [ci EXCEPT ![Main] = s]
             a == Raw(Main, "pcall", 1, cc[Main], nny[Main])
             D == Append(<<>>, a)
             e == CCall(Main, 2, 1)
             c2 == [cc EXCEPT ![Main] = cc[Main] + 1]
             m2 == [nny EXCEPT ![Main] = nny[Main] + 1]
  <1>1. /\ cs = <<>> /\ Sound(<<>>, ci, status, cc, nny)
        /\ ci' = [ci EXCEPT ![Main] = Append(s, VmkFrame(2, TRUE))]
        /\ cs' = Append(D, e) /\ cc' = c2 /\ nny' = m2 /\ status' = status
    <2>1. Append(D, e) = <<a, e>> /\ Append(s, VmkFrame(2, TRUE)) = <<f, VmkFrame(2, TRUE)>>
      BY Pairs
    <2>2. /\ cs = <<>> /\ ci' = [ci EXCEPT ![Main] = <<f, VmkFrame(2, TRUE)>>] /\ cs' = <<a, e>>
          /\ cc' = c2 /\ nny' = m2 /\ status' = status
      BY DEF StartChunk, SetCount
    <2> HIDE DEF D, e, a, s, f, c2, m2
    <2> QED BY <2>1, <2>2 DEF Core
  <1>2. /\ ci \in FrameMap /\ status \in Statuses /\ cc \in Counters /\ nny \in Counters
        /\ ThreadsFit(<<>>, ci, status) /\ Exact(<<>>, cc, nny) /\ Main \in Threads
        /\ \A u \in Threads : Frames(ci[u]) /\ (status[u] # "err" => BlockingHeld(<<>>, u, ci[u]))
        /\ CCallsUpTo(<<>>, 0) < ErrCCalls
    BY <1>1 DEF Sound, Good, Threads
  <1>3. cc[Main] = 0 /\ nny[Main] = 1 /\ cc[Main] \in Nat /\ nny[Main] \in Nat
    BY <1>2 DEF Exact, EndCounts
  <1>4. /\ f \in Frame /\ PcOf(f) /\ ~f.fresh /\ ~f.ypcall /\ f.fn = "pcall"
        /\ s \in Seq(Frame) /\ Len(s) = 1 /\ s # <<>> /\ Last(s) = f /\ s[1] = f
    <2>1. f \in Frame /\ PcOf(f) /\ ~f.fresh /\ ~f.ypcall /\ f.fn = "pcall"
      BY CFrameFacts
    <2> HIDE DEF f
    <2> QED BY <2>1 DEF Last
  <1>5. Frames(s)
    <2> HIDE DEF f
    <2>1. DOMAIN s = {1}
      BY <1>4
    <2>2. \A k \in DOMAIN s : k = 1 /\ s[k] = f /\ k = Len(s)
      BY <1>4, <2>1
    <2> HIDE DEF s
    <2> QED BY <2>2, <1>4 DEF Frames
  <1>6. /\ a \in Activation /\ a.op = "raw" /\ a.th = Main /\ a.job = "pcall" /\ a.depth = 1
        /\ a.cc = cc[Main] /\ a.nny = nny[Main] /\ ~Counted(a) /\ ~Entering(a)
        /\ Bottom(a) /\ ~Runner(a)
    BY <1>2, <1>3 DEF Raw, Activation, Counted, Coroutined, Entering, Bottom, Protected, Runner
  <1>7. G \in FrameMap /\ G[Main] = s /\ \A u \in Threads : u # Main => G[u] = ci[u]
    BY <1>2, <1>4 DEF FrameMap
  <1>8. D \in Seq(Activation) /\ Len(D) = 1 /\ D # <<>> /\ Last(D) = a /\ D[1] = a
    <2>1. D = <<a>>
      BY Pairs
    <2> HIDE DEF a, D
    <2> QED BY <2>1, <1>6 DEF Last
  <1>d. D = Append(<<>>, a) /\ s = <<f>> /\ G = [ci EXCEPT ![Main] = s]
    OBVIOUS
  <1>e. e = CCall(Main, 2, 1) /\ c2 = [cc EXCEPT ![Main] = cc[Main] + 1]
        /\ m2 = [nny EXCEPT ![Main] = nny[Main] + 1]
    OBVIOUS
  <1> HIDE DEF f, s, G, a, D, e, c2, m2
  <1>9. Good(D, G)
    <2>1. <<>> \in Seq(Activation) /\ DOMAIN <<>> = {}
      OBVIOUS
    <2>2. Good(<<>>, G)
      BY <2>1, <1>7 DEF Good, Shape, Linked, FreshCalled
    <2>3. Framed(a, G[Main])
      BY <1>4, <1>6, <1>7 DEF Framed
    <2>4. Good(Append(<<>>, a), G)
      BY <2>2, <2>3, <1>6, GoodPush
    <2> QED BY <2>4, <1>d
  <1>10. \A u : InC(D, u) <=> u = Main
    BY <1>6, <1>8 DEF InC
  <1>11. ThreadsFit(D, G, status)
    <2>1. \A u : ~InC(<<>>, u)
      BY DEF InC
    <2>2. RunningIn(D) = Main
      BY <1>6, <1>8 DEF RunningIn
    <2>3. ASSUME NEW u \in Threads PROVE ThreadFits(InC(D, u), u = RunningIn(D), G[u], status[u])
      <3>1. ThreadFits(InC(<<>>, u), u = RunningIn(<<>>), ci[u], status[u]) /\ status[Main] = "ok"
        BY <1>2 DEF ThreadsFit
      <3> QED BY <3>1, <2>1, <2>2, <1>7, <1>10 DEF ThreadFits
    <2> QED BY <2>3, <1>2 DEF ThreadsFit
  <1>12. Exact(D, cc, nny) /\ CCallsUpTo(D, Len(D)) = 0
    <2>1. <<>> \in Seq(Activation) /\ Len(<<>>) = 0 /\ Shape(<<>>)
      BY DEF Shape
    <2>2. CCallsUpTo(<<>>, Len(<<>>)) = 0 /\ NonYieldableUpTo(a.th, <<>>, Len(<<>>)) = 1
      BY <1>6, <2>1, CountZero
    <2>3. /\ cc[a.th] = CCallsUpTo(<<>>, Len(<<>>)) /\ nny[a.th] = NonYieldableUpTo(a.th, <<>>, Len(<<>>))
          /\ (a.op = "raw" => a.cc = cc[a.th] /\ a.nny = nny[a.th])
          /\ (<<>> # <<>> => a.th = Last(<<>>).th \/ ~InC(<<>>, a.th))
      BY <1>3, <1>6, <2>2
    <2>4. /\ Exact(Append(<<>>, a), cc, nny)
          /\ CCallsUpTo(Append(<<>>, a), Len(Append(<<>>, a))) = CCallsUpTo(<<>>, Len(<<>>))
      BY ONLY <1>2, <1>6, <2>1, <2>3, ExactUncounted
    <2> QED BY <2>2, <2>4, <1>d
  <1>13. Mid(D, G, status, cc, nny, Main)
    <2>1. 0 < ErrCCalls
      BY CallsAssumption
    <2>2. ASSUME NEW u \in Threads
          PROVE  /\ Frames(G[u])
                 /\ status[u] # "err" => \A k \in DOMAIN G[u] :
                       Blocking(G[u][k]) => Held(D, u, k) \/ (u = Main /\ k = Len(G[Main]))
      <3>1. CASE u = Main
        <4>1. DOMAIN s = {1}
          BY <1>4
        <4> QED BY <3>1, <4>1, <1>4, <1>5, <1>7
      <3>2. CASE u # Main
        <4>1. \A k : ~Held(<<>>, u, k)
          BY DEF Held
        <4> QED BY <3>2, <4>1, <1>2, <1>7 DEF BlockingHeld
      <3> QED BY <3>1, <3>2
    <2> QED BY <2>1, <2>2, <1>2, <1>6, <1>8, <1>9, <1>11, <1>12 DEF Mid
  <1>14. Sound(Append(D, e), [G EXCEPT ![Main] = Append(G[Main], VmkFrame(2, TRUE))], status, c2, m2)
    <2>1. /\ 2 \in Nat \ {0} /\ 1 \in {0, 1} /\ 2 = Len(G[Main]) + 1 /\ e = CCall(Main, 2, 1)
          /\ c2 = [cc EXCEPT ![Main] = cc[Main] + 1] /\ m2 = [nny EXCEPT ![Main] = nny[Main] + 1]
      <3>1. Len(G[Main]) = 1
        BY <1>4, <1>7
      <3> QED BY <3>1, <1>e
    <2>2. Over(Last(D), e) /\ e.op = "call" /\ ~Entering(e)
      BY <1>6, <1>8, <1>e DEF Over, Calls, CCall, Entering
    <2>3. Caller(Last(D), e, Append(G[Main], VmkFrame(2, TRUE)))
      BY <2>2, <1>6, <1>8 DEF Caller
    <2>4. G[Main] # <<>> => ~Parked(Last(G[Main])) /\ Last(G[Main]).fn # "wrap"
                     /\ (Blocking(Last(G[Main])) => 1 = 1 \/ Held(D, Main, Len(G[Main])))
      BY <1>4, <1>7 DEF Parked
    <2>5. Last(D).op = "close" => Last(D).depth = Len(G[Main])
      BY <1>6, <1>8
    <2>6. cc[Main] + 1 < ErrCCalls
      BY <1>3, CallsAssumption
    <2> QED BY ONLY <1>13, <2>1, <2>2, <2>3, <2>4, <2>5, <2>6, PushCall
  <1>15. [G EXCEPT ![Main] = Append(G[Main], VmkFrame(2, TRUE))] = [ci EXCEPT ![Main] = Append(s, VmkFrame(2, TRUE))]
    BY <1>2, <1>7, <1>d DEF FrameMap
  <1> QED BY <1>1, <1>14, <1>15

\* A thread that is suspended, dead or with no frames, other than the running
\* one, has nothing on the C stack.
LEMMA OutOfC ==
  ASSUME Core, NEW t, Interp(t), NEW co \in Threads, co # t, status[co] # "ok" \/ Base(co)
  PROVE  co \in Cos /\ ~InC(cs, co)
  <1>1. cs # <<>> /\ t = Last(cs).th
    BY InterpFacts
  <1>2. /\ cs \in Seq(Activation) /\ Shape(cs) /\ ThreadsFit(cs, ci, status)
    BY DEF Core, Sound, Good
  <1>3. RunningIn(cs) = t
    BY <1>1 DEF RunningIn
  <1>4. ThreadFits(InC(cs, co), co = t, ci[co], status[co])
    BY <1>2, <1>3 DEF ThreadsFit
  <1>5. ~InC(cs, co)
    BY <1>4 DEF ThreadFits, Base
  <1>6. InC(cs, Main)
    <2>1. Len(cs) \in Nat \ {0}
      BY <1>1, <1>2
    <2>2. 1 \in 1..Len(cs)
      BY <2>1
    <2>3. Bottom(cs[1]) /\ InC(cs, cs[1].th)
      BY <1>2, <2>2, ShapeParts
    <2> QED BY <2>3 DEF Bottom
  <1> QED BY <1>5, <1>6 DEF Threads

\* The running function of t waits for the C function f, its last frame.
Switching(t, f, r, F) ==
    /\ Mid(cs, F, status, cc, nny, t) /\ F[t] = r /\ r # <<>>
    /\ Last(r).pc = "wait" /\ Last(r).fn = f /\ Runner(Last(cs)) /\ Len(r) > Last(cs).depth

\* The running function calls a C function that switches threads.
LEMMA SwitchMid ==
  ASSUME Core, NEW t, Interp(t), NEW f \in {"resume", "wrap", "close"},
         NEW r, r = WithC(t, f), NEW F, F = [ci EXCEPT ![t] = r]
  PROVE  Switching(t, f, r, F)
  <1> DEFINE g == CFrame(NextBase(t), f)
  <1>1. /\ cs # <<>> /\ t = Last(cs).th /\ Last(cs).op # "close" /\ t \in Threads
        /\ ci \in FrameMap /\ ci[t] # <<>> /\ Last(ci[t]).fn = "vmk"
        /\ NextBase(t) \in Nat \ {0} /\ r = WithCall(ci[t], g)
    BY InterpFacts
  <1>2. Sound(cs, ci, status, cc, nny)
    BY DEF Core
  <1>3. f \in {"pcall", "call", "resume", "wrap", "close", "yield"}
    OBVIOUS
  <1>4. g \in Frame /\ PcOf(g) /\ ~g.fresh /\ ~g.ypcall /\ g.fn = f /\ g.pc = "wait"
    BY <1>1, <1>3, CFrameFacts
  <1> HIDE DEF g
  <1>5. /\ Mid(cs, [ci EXCEPT ![t] = r], status, cc, nny, t)
        /\ r \in Seq(Frame) /\ Last(r) = g /\ r # <<>> /\ Len(r) > Last(cs).depth /\ Runner(Last(cs))
    <2>1. g.ypcall => g.fn = "pcall" /\ \A k \in DOMAIN ci[t] : ~Blocking(ci[t][k])
      BY <1>4
    <2> QED BY ONLY <1>1, <1>2, <1>4, <2>1, MidCalls
  <1>6. F[t] = r
    BY <1>1, <1>5 DEF FrameMap
  <1> QED BY <1>4, <1>5, <1>6 DEF Switching

\* vmk_closethread of a thread that is out of the C stack.
LEMMA ClosesCo ==
  ASSUME Core, NEW t, Interp(t), NEW f \in {"wrap", "close"},
         NEW co \in Threads, co # t, status[co] # "ok" \/ Base(co),
         CloseThread(co, t, WithC(t, f)), CloseProtected(co, 0, 1, cs, cc[t], 0)
  PROVE  Sound(cs', ci', status', cc', nny')
  <1> DEFINE r == WithC(t, f)
             F == [ci EXCEPT ![t] = r]
  <1>1. co \in Cos /\ ~InC(cs, co)
    BY OutOfC
  <1>2. f \in {"resume", "wrap", "close"} /\ r = WithC(t, f) /\ F = [ci EXCEPT ![t] = r]
    OBVIOUS
  <1>3. /\ ci' = [ci EXCEPT ![t] = r, ![co] = <<>>] /\ status' = [status EXCEPT ![co] = "ok"]
        /\ cs' = Append(Append(cs, Raw(co, "close", 0, cc[t], 0)), FClose(co, 0, 1, FALSE))
        /\ cc' = [cc EXCEPT ![co] = cc[t]] /\ nny' = [nny EXCEPT ![co] = 0]
    BY DEF CloseThread, CloseProtected, SetCount
  <1>4. ci' = [F EXCEPT ![co] = <<>>]
    BY <1>3
  <1> HIDE DEF r, F
  <1>5. /\ Mid(cs, F, status, cc, nny, t) /\ F[t] = r /\ r # <<>>
        /\ Last(r).pc = "wait" /\ Last(r).fn = f /\ Runner(Last(cs)) /\ Len(r) > Last(cs).depth
    <2>1. Switching(t, f, r, F)
      BY ONLY Core, Interp(t), <1>2, SwitchMid
    <2> QED BY <2>1 DEF Switching
  <1>6. /\ F[t] # <<>> /\ Last(F[t]).pc = "wait" /\ Last(F[t]).fn \in {"close", "wrap"}
        /\ Runner(Last(cs)) /\ Len(F[t]) > Last(cs).depth
    BY <1>5
  <1>7. Sound(Append(Append(cs, Raw(co, "close", 0, cc[t], 0)), FClose(co, 0, 1, FALSE)),
              [F EXCEPT ![co] = <<>>], [status EXCEPT ![co] = "ok"],
              [cc EXCEPT ![co] = cc[t]], [nny EXCEPT ![co] = 0])
    BY ONLY <1>1, <1>5, <1>6, CloseElsewhere
  <1> QED BY <1>3, <1>4, <1>7

\* vmkB_close enters a coroutine to close its variables.
LEMMA CloseCoSound ==
  ASSUME Core, NEW t, NEW co \in Threads, CloseCo(t, co)
  PROVE  Sound(cs', ci', status', cc', nny')
  <1>1. "close" \in {"wrap", "close"}
    OBVIOUS
  <1> QED BY <1>1, ClosesCo DEF CloseCo

\* vmkB_auxwrap enters a dead coroutine to close it, or raises an error at once.
LEMMA WrapRefusedSound ==
  ASSUME Core, NEW t, NEW co \in Threads, WrapRefused(t, co)
  PROVE  Sound(cs', ci', status', cc', nny')
  <1>1. Interp(t)
    BY DEF WrapRefused
  <1>2. CASE status[co] = "err"
    <2>1. co # t
      <3>1. status[t] = "ok"
        BY <1>1, InterpFacts, RunningFacts
      <3> QED BY <1>2, <3>1
    <2>2. "wrap" \in {"wrap", "close"} /\ (status[co] # "ok" \/ Base(co))
      BY <1>2
    <2>3. CloseThread(co, t, WithC(t, "wrap")) /\ CloseProtected(co, 0, 1, cs, cc[t], 0)
      BY <1>2 DEF WrapRefused
    <2> QED BY <1>1, <2>1, <2>2, <2>3, ClosesCo
  <1>3. CASE status[co] # "err"
    <2>1. ci \in FrameMap /\ Mid(cs, [ci EXCEPT ![t] = ci[t]], status, cc, nny, t)
      BY <1>1, InterpFacts
    <2>2. Throw(t, ci[t], cs, "err") /\ "err" \in {"err", "yield"} /\ ("err" = "yield" => Leaves("err", ci[t]))
      BY <1>3 DEF WrapRefused
    <2> QED BY ONLY <2>1, <2>2, ThrowSound
  <1> QED BY <1>2, <1>3

\* The frames that a suspended coroutine goes on with: the C function that
\* yielded has returned.
LEMMA ResumedFrames ==
  ASSUME Core, NEW co \in Threads, ~InC(cs, co), status[co] = "yield"
  PROVE  LET q == ReturnC(ci[co])
         IN /\ q \in Seq(Frame) /\ Frames(q) /\ (\A k \in DOMAIN q : ~Blocking(q[k]))
            /\ q # <<>> => ~Parked(Last(q))
  <1> DEFINE s == ci[co]
             q == ReturnC(s)
  <1>1. /\ s \in Seq(Frame) /\ Frames(s) /\ BlockingHeld(cs, co, s)
        /\ ThreadFits(InC(cs, co), co = RunningIn(cs), s, status[co])
    BY DEF Core, Sound, Good, ThreadsFit, FrameMap
  <1>2. s # <<>> /\ Last(s).fn = "yield"
    BY <1>1 DEF ThreadFits
  <1>q. q = ReturnC(s)
    OBVIOUS
  <1> HIDE DEF s, q
  <1>3. \A k \in DOMAIN s : ~Blocking(s[k])
    BY <1>1 DEF BlockingHeld, Held, InC
  <1>4. Len(s) \in Nat \ {0} /\ DOMAIN s = 1..Len(s) /\ Last(s) = s[Len(s)]
    BY <1>1, <1>2, Shortened
  <1>5. /\ Trimmed(q, s, Len(s) - 1)
        /\ Len(s) > 1 => Last(q).pc = "run" /\ q[Len(s) - 1] = Last(q)
    BY <1>1, <1>2, <1>q, ReturnCTrims
  <1>6. q \in Seq(Frame) /\ Len(q) = Len(s) - 1 /\ DOMAIN q = 1..(Len(s) - 1)
    BY <1>4, <1>5 DEF Trimmed
  <1>7. Len(s) > 1 => Last(q).fn = "vmk" /\ PcOf(Last(q)) /\ ~Parked(Last(q)) /\ ~Blocking(Last(q))
    <2> SUFFICES ASSUME Len(s) > 1
                 PROVE Last(q).fn = "vmk" /\ PcOf(Last(q)) /\ ~Parked(Last(q)) /\ ~Blocking(Last(q))
      OBVIOUS
    <2>1. SameKind(q[Len(s) - 1], s[Len(s) - 1])
      BY <1>4, <1>5 DEF Trimmed
    <2>2. s[Len(s) - 1].fn = "vmk"
      <3>1. Len(s) \in DOMAIN s /\ s[Len(s)].fn # "vmk"
        BY <1>2, <1>4
      <3> QED BY <3>1, <1>1 DEF Frames
    <2> QED BY <2>1, <2>2, <1>5 DEF SameKind, PcOf, Parked, Blocking
  <1>8. Frames(q)
    <2>1. Len(s) - 1 > 0 => PcOf(q[Len(s) - 1])
      BY <1>4, <1>5, <1>7
    <2> QED BY <2>1, <1>1, <1>5, FramesTrimmed
  <1>9. ASSUME NEW k \in DOMAIN q PROVE ~Blocking(q[k])
    <2>1. k \in 1..(Len(s) - 2) \/ (k = Len(s) - 1 /\ Len(s) > 1)
      BY <1>4, <1>6
    <2>2. k \in 1..((Len(s) - 1) - 1) => q[k] = s[k] /\ k \in DOMAIN s
      BY <1>4, <1>5 DEF Trimmed
    <2>3. (Len(s) - 1) - 1 = Len(s) - 2
      BY <1>4
    <2> QED BY <2>1, <2>2, <2>3, <1>3, <1>5, <1>7
  <1>10. q # <<>> => Len(s) > 1
    BY <1>4, <1>6
  <1> QED BY <1>6, <1>7, <1>8, <1>9, <1>10 DEF s, q

\* vmk_resume.
LEMMA ResumeSound ==
  ASSUME Core, NEW t, NEW co \in Threads, NEW f \in {"resume", "wrap"}, Resume(t, co, f)
  PROVE  Sound(cs', ci', status', cc', nny')
  <1> DEFINE r == WithC(t, f)
             F == [ci EXCEPT ![t] = r]
             q == IF status[co] = "yield" THEN ReturnC(ci[co]) ELSE ci[co]
  <1>1. Interp(t) /\ ~NotResumable(co) /\ cc[t] < MaxCCalls
    BY DEF Resume
  <1>2. status[co] = "yield" \/ (status[co] = "ok" /\ ci[co] = <<>>)
    <2>1. status[co] \in {"ok", "yield", "err"}
      BY DEF Core, TypeOK
    <2> QED BY <1>1, <2>1 DEF NotResumable, Base
  <1>3. co # t
    <2>1. status[t] = "ok" /\ ci[t] # <<>>
      BY <1>1, InterpFacts, RunningFacts
    <2> QED BY <1>2, <2>1
  <1>4. co \in Cos /\ ~InC(cs, co)
    BY <1>1, <1>2, <1>3, OutOfC DEF Base
  <1>5. q \in Seq(Frame) /\ Frames(q) /\ (\A k \in DOMAIN q : ~Blocking(q[k])) /\ (q # <<>> => ~Parked(Last(q)))
    <2>1. CASE status[co] = "yield"
      BY <2>1, <1>4, ResumedFrames
    <2>2. CASE status[co] = "ok" /\ ci[co] = <<>>
      BY <2>2 DEF Frames
    <2> QED BY <1>2, <2>1, <2>2
  <1>6. cc[t] + 1 < ErrCCalls
    <2>1. cc[t] \in Nat
      BY <1>1, InterpFacts DEF Core, TypeOK
    <2> QED BY <1>1, <2>1, CallsAssumption
  <1>7. /\ ci' = [ci EXCEPT ![t] = r, ![co] = IF status[co] = "yield" THEN ReturnC(@) ELSE @]
        /\ status' = [status EXCEPT ![co] = "ok"]
        /\ cs' = Append(cs, Raw(co, "resume", 0, cc[t] + 1, 0))
        /\ cc' = [cc EXCEPT ![co] = cc[t] + 1] /\ nny' = [nny EXCEPT ![co] = 0]
    BY DEF Resume, SetCount, ResumeCount
  <1>8. ci' = [F EXCEPT ![co] = q]
    <2>1. ci \in [Threads -> Seq(Frame)] /\ t \in Threads
      BY <1>1, InterpFacts DEF Core, TypeOK
    <2> HIDE DEF r
    <2>2. CASE status[co] = "yield"
      BY <1>3, <1>7, <2>1, <2>2
    <2>3. CASE status[co] # "yield"
      BY <1>3, <1>7, <2>1, <2>3
    <2> QED BY <2>2, <2>3
  <1>9. f \in {"resume", "wrap", "close"} /\ r = WithC(t, f) /\ F = [ci EXCEPT ![t] = r]
    OBVIOUS
  <1> HIDE DEF r, F, q
  <1>10. /\ Mid(cs, F, status, cc, nny, t) /\ F[t] = r /\ r # <<>>
         /\ Last(r).pc = "wait" /\ Last(r).fn = f /\ Runner(Last(cs)) /\ Len(r) > Last(cs).depth
    <2>1. Switching(t, f, r, F)
      BY ONLY Core, <1>1, <1>9, SwitchMid
    <2> QED BY <2>1 DEF Switching
  <1>11. /\ F[t] # <<>> /\ Last(F[t]).pc = "wait" /\ Last(F[t]).fn \in {"resume", "wrap"}
         /\ Runner(Last(cs)) /\ Len(F[t]) > Last(cs).depth
    BY <1>10
  <1>12. Sound(Append(cs, Raw(co, "resume", 0, cc[t] + 1, 0)),
               [F EXCEPT ![co] = q], [status EXCEPT ![co] = "ok"],
               [cc EXCEPT ![co] = cc[t] + 1], [nny EXCEPT ![co] = 0])
    BY ONLY <1>4, <1>5, <1>6, <1>10, <1>11, ResumeElsewhere
  <1> QED BY <1>7, <1>8, <1>12

\* A coroutine that never ran starts its function, as a call by C code that is
\* not counted: the setjmp of vmk_resume is under it.
LEMMA StartSound ==
  ASSUME Core, cs # <<>>, NEW co, Start(co)
  PROVE  Sound(cs', ci', status', cc', nny')
  <1>1. Last(cs).th = co /\ Last(cs).op = "raw" /\ Last(cs).job = "resume" /\ ci[co] = <<>>
    BY DEF Start, Top, Raw, Base
  <1>2. Sound(cs, ci, status, cc, nny) /\ Topped(cs)
    BY DEF Core, Sound
  <1>3. Mid(cs, ci, status, cc, nny, co)
    BY <1>1, <1>2, SoundMid
  <1>4. /\ cs \in Seq(Activation) /\ Shape(cs) /\ ci \in FrameMap /\ co \in Threads
        /\ Len(cs) \in 1..Len(cs) /\ Last(cs) = cs[Len(cs)] /\ DOMAIN cs = 1..Len(cs)
        /\ Len(cs) \in Nat /\ InC(cs, co) /\ status[co] = "ok" /\ RunningIn(cs) = co
        /\ Framed(Last(cs), ci[co])
    BY <1>3, RunningFacts
  <1>5. CASE CStackError(cc[co])
    <2>1. Throw(co, <<>>, cs, "err") /\ "err" \in {"err", "yield"} /\ ("err" = "yield" => Leaves("err", <<>>))
      BY <1>5 DEF Start
    <2>2. [ci EXCEPT ![co] = <<>>] = ci
      BY <1>1, <1>4 DEF FrameMap
    <2>3. Mid(cs, [ci EXCEPT ![co] = <<>>], status, cc, nny, co)
      BY <1>3, <2>2
    <2> QED BY ONLY <1>4, <2>1, <2>3, ThrowSound
  <1>6. CASE ~CStackError(cc[co])
    <2> DEFINE f == VmkFrame(1, TRUE)
               s == <<f>>
               G == [ci EXCEPT ![co] = s]
    <2>1. f \in Frame /\ PcOf(f) /\ f.fn = "vmk" /\ f.fresh /\ ~f.ypcall /\ ~Parked(f) /\ ~Blocking(f)
      BY DEF VmkFrame, Frame, PcOf, Parked, Blocking
    <2>2. ci' = G /\ UNCHANGED <<status, cc, nny, cs>>
      BY <1>6 DEF Start
    <2>g. G = [ci EXCEPT ![co] = s]
      OBVIOUS
    <2> HIDE DEF f
    <2>3. s \in Seq(Frame) /\ Len(s) = 1 /\ DOMAIN s = {1} /\ s[1] = f /\ Last(s) = f /\ s # <<>>
      BY <2>1 DEF Last
    <2> HIDE DEF s, G
    <2>4. Frames(s)
      <3>1. \A k \in DOMAIN s : k = 1 /\ s[k] = f /\ k = Len(s)
        BY <2>3
      <3> QED BY <3>1, <2>1 DEF Frames
    <2>5. G \in FrameMap /\ G[co] = s /\ \A u \in Threads : u # co => G[u] = ci[u]
      BY <2>g, <2>3, <1>4 DEF FrameMap
    <2>6. \A i \in 1..Len(cs) : i # Len(cs) => cs[i].th # co
      <3> SUFFICES ASSUME NEW i \in 1..Len(cs), i # Len(cs) PROVE cs[i].th # co
        OBVIOUS
      <3>0. Len(cs) \in Nat
        BY <1>4
      <3>1. i < Len(cs) /\ i \in 1..Len(cs) /\ Len(cs) \in 1..Len(cs)
        BY ONLY <3>0, i \in 1..Len(cs), i # Len(cs)
      <3>2. Entering(cs[Len(cs)])
        BY <1>1, <1>4 DEF Entering, Coroutined
      <3>3. cs[Len(cs)].th = co
        BY <1>1, <1>4
      <3>4. \A k, j \in 1..Len(cs) : k < j /\ Entering(cs[j]) => cs[k].th # cs[j].th
        <4>1. cs \in Seq(Activation) /\ Shape(cs)
          BY <1>4
        <4> QED BY ONLY <4>1, ShapeParts
      <3> QED BY ONLY <3>1, <3>2, <3>3, <3>4
    <2>7. Good(cs, G)
      <3>1. Linked(cs, ci) /\ FreshCalled(cs, ci)
        BY <1>3 DEF Mid, Good
      <3>2. Last(cs).depth = 0
        BY <1>1, <1>4, ResumedAtBase DEF Coroutined
      <3>3. Linked(cs, G)
        <4>1. Agree(G[Last(cs).th], ci[Last(cs).th], Last(cs).depth)
          BY <1>1, <2>3, <2>5, <3>2 DEF Agree
        <4>2. \A u \in Threads : InC(cs, u) /\ u # Last(cs).th => G[u] = ci[u]
          BY <1>1, <2>5
        <4>3. cs # <<>> => /\ Agree(G[Last(cs).th], ci[Last(cs).th], Last(cs).depth)
                           /\ Last(cs).op = "close" /\ Last(cs).depth > 0 =>
                                G[Last(cs).th][Last(cs).depth] = ci[Last(cs).th][Last(cs).depth]
          BY <1>1, <4>1
        <4>4. cs \in Seq(Activation) /\ Shape(cs)
          BY <1>4
        <4> QED BY ONLY <3>1, <4>2, <4>3, <4>4, LinkedChange
      <3>4. FreshCalled(cs, G)
        <4>1. \A i \in DOMAIN cs : cs[i].op = "call" => cs[i].th # co /\ cs[i].th \in Threads
          BY <1>1, <1>4, <2>6, ShapeParts
        <4>2. \A i \in DOMAIN cs : cs[i].op = "call" => G[cs[i].th] = ci[cs[i].th]
          BY <4>1, <2>5
        <4> QED BY <4>2, <3>1 DEF FreshCalled
      <3> QED BY <1>4, <2>5, <3>3, <3>4 DEF Good
    <2>8. ThreadsFit(cs, G, status)
      <3>1. ThreadsFit(cs, ci, status)
        BY <1>3 DEF Mid
      <3>2. ASSUME NEW u \in Threads PROVE ThreadFits(InC(cs, u), u = RunningIn(cs), G[u], status[u])
        <4>1. ThreadFits(InC(cs, u), u = RunningIn(cs), ci[u], status[u])
          BY <3>1 DEF ThreadsFit
        <4>2. CASE u = co
          BY <4>2, <1>4, <2>3, <2>5 DEF ThreadFits
        <4>3. CASE u # co
          BY <4>1, <4>3, <2>5
        <4> QED BY <4>2, <4>3
      <3> QED BY <3>1, <3>2 DEF ThreadsFit
    <2>9. ASSUME NEW u \in Threads
          PROVE  /\ Frames(G[u])
                 /\ status[u] # "err" => \A k \in DOMAIN G[u] :
                       Blocking(G[u][k]) => Held(cs, u, k) \/ (u = co /\ k = Len(G[co]))
      <3>1. Frames(ci[u]) /\ (status[u] # "err" => BlockingHeld(cs, u, ci[u]))
        BY <1>2 DEF Sound
      <3>2. CASE u = co
        BY <3>2, <2>1, <2>3, <2>4, <2>5
      <3>3. CASE u # co
        BY <3>1, <3>3, <2>5 DEF BlockingHeld
      <3> QED BY <3>2, <3>3
    <2>10. Mid(cs, G, status, cc, nny, co)
      BY <1>3, <2>7, <2>8, <2>9 DEF Mid
    <2>11. Sound(cs, G, status, cc, nny)
      <3>1. /\ Last(cs).op # "close" /\ ~Protected(Last(cs))
            /\ G[co] # <<>> => ~Parked(Last(G[co])) /\ ~Blocking(Last(G[co]))
        BY <1>1, <2>1, <2>3, <2>5 DEF Protected
      <3> QED BY ONLY <2>10, <3>1, MidSound
    <2> QED BY <2>2, <2>11
  <1> QED BY <1>5, <1>6

\* The running thread with its frames.
LEMMA RunsFacts ==
  ASSUME Core, cs # <<>>, NEW t, Last(cs).th = t, Last(cs).op # "close", ~Base(t)
  PROVE  /\ t = Last(cs).th /\ Sound(cs, ci, status, cc, nny) /\ t \in Threads
         /\ ci \in FrameMap /\ ci[t] \in Seq(Frame) /\ ci[t] # <<>> /\ Frames(ci[t])
         /\ Trimmed(ci[t], ci[t], Len(ci[t])) /\ [ci EXCEPT ![t] = ci[t]] = ci
         /\ PcOf(Last(ci[t])) /\ Last(ci[t]) \in Frame /\ Last(ci[t]).base \in Nat \ {0}
         /\ Last(ci[t]).ypcall => Last(ci[t]).fn = "pcall"
         /\ Last(cs).depth \in 0..Len(ci[t]) /\ Runner(Last(cs))
         /\ Last(cs).op = "raw" => Last(cs).depth = 0
  <1>1. t = Last(cs).th /\ Sound(cs, ci, status, cc, nny) /\ ci[t] # <<>>
    BY DEF Core, Base
  <1>2. Mid(cs, ci, status, cc, nny, t)
    BY <1>1, SoundMid
  <1>3. /\ t \in Threads /\ ci \in FrameMap /\ ci[t] \in Seq(Frame) /\ Frames(ci[t])
        /\ Last(cs).depth \in 0..Len(ci[t]) /\ Len(ci[t]) \in Nat
    BY <1>2, RunningFacts
  <1>4. Runner(Last(cs)) /\ (Last(cs).op = "raw" => Last(cs).depth = 0)
    BY <1>1, RunnerTop
  <1>5. /\ Len(ci[t]) \in DOMAIN ci[t] /\ Last(ci[t]) = ci[t][Len(ci[t])] /\ Last(ci[t]) \in Frame
    BY <1>1, <1>3, Shortened
  <1>6. PcOf(Last(ci[t])) /\ (Last(ci[t]).ypcall => Last(ci[t]).fn = "pcall")
    BY <1>3, <1>5 DEF Frames
  <1>7. Trimmed(ci[t], ci[t], Len(ci[t]))
    BY <1>3, SameKindItself DEF Trimmed
  <1>8. [ci EXCEPT ![t] = ci[t]] = ci
    BY <1>3 DEF FrameMap
  <1>9. Last(ci[t]).base \in Nat \ {0}
    BY <1>5, FrameFields
  <1> QED BY <1>1, <1>3, <1>4, <1>5, <1>6, <1>7, <1>8, <1>9

\* The running function of t starts to close its variables, as after a yield.
LEMMA ClosesAgain ==
  ASSUME Core, cs # <<>>, NEW t, Last(cs).th = t, Last(cs).op # "close", ~Base(t),
         Closing(Last(ci[t])), NEW lvl \in Nat \ {0},
         cs' = Append(cs, FClose(t, Len(ci[t]), lvl, TRUE)), UNCHANGED <<ci, status, cc, nny>>
  PROVE  Sound(cs', ci', status', cc', nny')
  <1>1. /\ t = Last(cs).th /\ Sound(cs, ci, status, cc, nny) /\ cs # <<>> /\ Last(cs).op # "close"
        /\ ci[t] \in Seq(Frame) /\ ci[t] # <<>> /\ Trimmed(ci[t], ci[t], Len(ci[t]))
        /\ PcOf(Last(ci[t])) /\ Closing(Last(ci[t]))
    BY RunsFacts
  <1>2. [ci EXCEPT ![t] = ci[t]] = ci
    BY RunsFacts
  <1>3. Sound(Append(cs, FClose(t, Len(ci[t]), lvl, TRUE)), [ci EXCEPT ![t] = ci[t]], status, cc, nny)
    BY ONLY <1>1, lvl \in Nat \ {0}, PushYY
  <1> QED BY <1>2, <1>3

\* The last frame of the running thread returns, and is a C function.
LEMMA CReturns ==
  ASSUME Core, cs # <<>>, NEW t, Last(cs).th = t, Last(cs).op # "close", ~Base(t),
         Last(ci[t]).fn # "vmk",
         ci' = [ci EXCEPT ![t] = ReturnC(ci[t])], UNCHANGED <<cs, status, cc, nny>>
  PROVE  Sound(cs', ci', status', cc', nny')
  <1>1. /\ t = Last(cs).th /\ Sound(cs, ci, status, cc, nny) /\ cs # <<>> /\ Last(cs).op # "close"
        /\ ci[t] # <<>> /\ (Last(ci[t]).fn # "vmk" \/ ~Last(ci[t]).fresh)
    BY RunsFacts
  <1>2. Sound(cs, [ci EXCEPT ![t] = ReturnC(ci[t])], status, cc, nny)
    BY ONLY <1>1, ReturnsStay
  <1> QED BY <1>2

\* unroll goes on with the last frame of a coroutine.
LEMMA UnrollSound ==
  ASSUME Core, cs # <<>>, NEW t, Unroll(t)
  PROVE  Sound(cs', ci', status', cc', nny')
  <1>1. /\ Last(cs).op = "raw" /\ Last(cs).th = t /\ ~Base(t) /\ Last(cs).op # "close"
        /\ UNCHANGED <<status, cc, nny>>
    BY DEF Unroll, Top
  <1>2. /\ t = Last(cs).th /\ Sound(cs, ci, status, cc, nny) /\ t \in Threads
        /\ ci \in FrameMap /\ ci[t] \in Seq(Frame) /\ ci[t] # <<>>
        /\ Last(ci[t]).base \in Nat \ {0} /\ Last(cs).depth = 0
        /\ Last(ci[t]).ypcall => Last(ci[t]).fn = "pcall"
    BY <1>1, RunsFacts
  <1>3. CASE Cur(t).fn = "vmk" /\ Cur(t).pc = "wait" /\ ci' = [ci EXCEPT ![t] = Rerun(@)] /\ UNCHANGED cs
    <2> DEFINE r == Rerun(ci[t])
    <2>1. /\ Trimmed(r, ci[t], Len(ci[t])) /\ Last(r).pc = "run" /\ r[Len(ci[t])] = Last(r)
      BY <1>2, RerunTrims
    <2>2. ci' = [ci EXCEPT ![t] = r]
      BY <1>3
    <2> HIDE DEF r
    <2>3. Len(ci[t]) \in Nat \ {0} /\ Last(ci[t]) = ci[t][Len(ci[t])]
      BY <1>2, Shortened
    <2>4. r \in Seq(Frame) /\ Len(r) = Len(ci[t]) /\ SameKind(Last(r), Last(ci[t]))
      BY <2>1, <2>3 DEF Trimmed
    <2>5. PcOf(Last(r)) /\ ~Parked(Last(r)) /\ ~Blocking(Last(r))
      BY <1>3, <2>1, <2>4 DEF PcOf, Parked, Blocking, SameKind, Cur
    <2>6. /\ Trimmed(r, ci[t], Len(r)) /\ Last(cs).depth <= Len(r)
          /\ (r # <<>> => PcOf(Last(r)) /\ ~Parked(Last(r)))
          /\ (r # <<>> /\ Blocking(Last(r)) => Held(cs, t, Len(r)))
      BY <1>2, <2>1, <2>3, <2>4, <2>5
    <2>7. Last(cs).op # "close"
      BY <1>1
    <2>8. Sound(cs, [ci EXCEPT ![t] = r], status, cc, nny)
      BY ONLY cs # <<>>, <1>2, <2>4, <2>6, <2>7, SoundStay
    <2> QED BY <1>1, <1>3, <2>2, <2>8
  <1>4. CASE /\ Cur(t).fn = "vmk" /\ Cur(t).pc \in {"closing", "returning"}
             /\ cs' = Append(cs, FClose(t, Len(ci[t]), Cur(t).base, TRUE)) /\ UNCHANGED ci
    <2>1. Closing(Last(ci[t])) /\ Cur(t).base \in Nat \ {0}
      BY <1>2, <1>4 DEF Closing, Cur
    <2> QED BY <1>1, <1>4, <2>1, ClosesAgain
  <1>5. CASE Cur(t).ypcall /\ ~Cur(t).recst /\ ci' = [ci EXCEPT ![t] = ReturnC(@)] /\ UNCHANGED cs
    <2>1. Last(ci[t]).fn # "vmk"
      BY <1>2, <1>5 DEF Cur
    <2> QED BY <1>1, <1>5, <2>1, CReturns
  <1>6. CASE /\ Cur(t).ypcall /\ Cur(t).recst
             /\ cs' = Append(cs, FClose(t, Len(ci[t]), Cur(t).base + 1, TRUE)) /\ UNCHANGED ci
    <2>1. Closing(Last(ci[t])) /\ Cur(t).base + 1 \in Nat \ {0}
      BY <1>2, <1>6 DEF Closing, Cur
    <2> QED BY <1>1, <1>6, <2>1, ClosesAgain
  <1> QED BY <1>3, <1>4, <1>5, <1>6 DEF Unroll

\* A C function returns, after its variables are closed.
LEMMA ReturnFromCSound ==
  ASSUME Core, cs # <<>>, NEW t, ReturnFromC(t)
  PROVE  Sound(cs', ci', status', cc', nny')
  <1>1. /\ Last(cs).th = t /\ ~Base(t) /\ Last(cs).op # "close" /\ UNCHANGED <<status, cc, nny>>
        /\ Last(ci[t]).fn = "call" /\ Last(ci[t]).pc = "returning"
    BY DEF ReturnFromC, Top, Cur
  <1>2. /\ t = Last(cs).th /\ Sound(cs, ci, status, cc, nny) /\ t \in Threads
        /\ ci \in FrameMap /\ ci[t] \in Seq(Frame) /\ ci[t] # <<>>
        /\ Last(ci[t]).base \in Nat \ {0} /\ PcOf(Last(ci[t])) /\ Last(ci[t]) \in Frame
    BY <1>1, RunsFacts
  <1>3. CASE HasPending(t, Cur(t).base)
    <2> DEFINE s == ci[t]
               n == Len(s)
               g == [s[n] EXCEPT !.clsret = TRUE]
               r == [s EXCEPT ![n] = g]
               lvl == Cur(t).base
    <2>1. ci' = [ci EXCEPT ![t] = r] /\ cs' = Append(cs, FClose(t, n, lvl, TRUE)) /\ lvl \in Nat \ {0}
      BY <1>2, <1>3 DEF ReturnFromC, Cur
    <2>2. s \in Seq(Frame) /\ n = Len(s) /\ n \in Nat \ {0} /\ n \in 1..n /\ Last(s) = s[n]
      BY <1>2, Shortened
    <2>3. g \in Frame /\ g.fn = "call" /\ g.pc = "returning" /\ SameKind(g, s[n])
      <3>1. s[n] \in Frame /\ s[n].fn = "call" /\ s[n].pc = "returning"
        BY <1>1, <1>2, <2>2
      <3> QED BY <3>1 DEF Frame, SameKind
    <2>r. r = [s EXCEPT ![n] = g] /\ s = ci[t]
      OBVIOUS
    <2> HIDE DEF s, n, g, r, lvl
    <2>4. r \in Seq(Frame) /\ Len(r) = n /\ \A k \in 1..n : r[k] = IF k = n THEN g ELSE s[k]
      BY ONLY <2>2, <2>3, <2>r, ExceptSeq
    <2>5. Last(r) = g /\ r # <<>> /\ r[n] = g
      BY <2>2, <2>4 DEF Last
    <2>6. Trimmed(r, ci[t], Len(ci[t]))
      BY <2>2, <2>3, <2>4, <2>5, <2>r DEF Trimmed
    <2>7. PcOf(Last(r)) /\ Closing(Last(r))
      BY <2>3, <2>5 DEF PcOf, Closing
    <2>8. /\ r \in Seq(Frame) /\ r # <<>> /\ lvl \in Nat \ {0} /\ Last(cs).op # "close"
          /\ Sound(cs, ci, status, cc, nny) /\ t = Last(cs).th
      BY <1>1, <1>2, <2>1, <2>4, <2>5
    <2>9. Sound(Append(cs, FClose(t, Len(r), lvl, TRUE)), [ci EXCEPT ![t] = r], status, cc, nny)
      BY ONLY cs # <<>>, <2>6, <2>7, <2>8, PushYY
    <2> QED BY <1>1, <2>1, <2>4, <2>9
  <1>4. CASE ~HasPending(t, Cur(t).base)
    <2>1. ci' = [ci EXCEPT ![t] = ReturnC(ci[t])] /\ UNCHANGED <<cs, status, cc, nny>>
      BY <1>1, <1>4 DEF ReturnFromC
    <2>2. Last(ci[t]).fn # "vmk"
      BY <1>1
    <2> QED BY <1>1, <2>1, <2>2, CReturns
  <1> QED BY <1>3, <1>4

\* vmkF_close calls the next method over itself.
LEMMA CallCloseSound ==
  ASSUME Core, cs # <<>>, NEW t, CallClose(t)
  PROVE  Sound(cs', ci', status', cc', nny')
  <1> DEFINE s == ci[t]
             inc == IF Last(cs).yy THEN 0 ELSE 1
             b == Last(tbclist[t]).at + 1
  <1>1. /\ t = Last(cs).th /\ Last(cs).op = "close" /\ Sound(cs, ci, status, cc, nny)
        /\ Enter(t, s, cs, b, inc) /\ tbclist[t] # <<>>
    BY DEF Core, CallClose, Top, CloseInc, HasPending
  <1>2. Mid(cs, ci, status, cc, nny, t)
    BY <1>1, SoundMid
  <1>3. /\ cs \in Seq(Activation) /\ Shape(cs) /\ ci \in FrameMap /\ t \in Threads
        /\ Len(cs) \in Nat /\ Len(cs) \in 1..Len(cs) /\ Last(cs) = cs[Len(cs)] /\ Last(cs) \in Activation
        /\ DOMAIN cs = 1..Len(cs) /\ s \in Seq(Frame) /\ Len(s) \in Nat /\ Framed(Last(cs), s)
        /\ Last(cs).depth \in 0..Len(s)
    BY <1>2, RunningFacts
  <1>4. b \in Nat \ {0}
    <2>1. tbclist[t] \in Seq([var : Vars, at : Nat \ {0}, frame : Nat \ {0}])
      BY <1>3 DEF Core, TypeOK
    <2>2. Last(tbclist[t]) \in [var : Vars, at : Nat \ {0}, frame : Nat \ {0}]
      BY <1>1, <2>1, Shortened
    <2> QED BY <2>2
  <1>5. [ci EXCEPT ![t] = s] = ci
    BY <1>3 DEF FrameMap
  <1>6. inc \in {0, 1} /\ (Last(cs).yy => inc = 0) /\ (~Last(cs).yy => inc = 1)
    OBVIOUS
  <1>7. Len(s) = Last(cs).depth /\ (s # <<>> => ~Parked(Last(s)) /\ Last(s) = s[Last(cs).depth] /\ Last(cs).depth > 0)
    <2>1. TopFrame(cs, ci)
      BY <1>1 DEF Sound
    <2>2. Len(s) = Last(cs).depth /\ (s # <<>> => ~Parked(Last(s)))
      BY <1>1, <2>1 DEF TopFrame
    <2>3. s # <<>> => Len(s) \in Nat \ {0} /\ Last(s) = s[Len(s)]
      BY <1>3, Shortened
    <2> QED BY <2>2, <2>3
  <1>8. s # <<>> => Last(s).fn # "wrap"
    <2> SUFFICES ASSUME s # <<>> PROVE Last(s).fn # "wrap"
      OBVIOUS
    <2>1. CASE Last(cs).yy
      <3>1. Closing(Last(s))
        BY <1>1, <1>3, <1>7, <2>1 DEF Framed
      <3>2. Last(s).ypcall => Last(s).fn = "pcall"
        <4>1. Frames(s)
          BY <1>2, <1>3 DEF Mid
        <4>2. Last(s) = s[Len(s)] /\ Len(s) \in DOMAIN s
          BY <1>3, Shortened
        <4> QED BY <4>1, <4>2 DEF Frames
      <3> QED BY <3>1, <3>2 DEF Closing
    <2>2. CASE ~Last(cs).yy
      <3>1. Len(cs) > 1 /\ Len(cs) - 1 \in 1..Len(cs) /\ Over(cs[Len(cs) - 1], cs[Len(cs)])
        BY <1>1, <1>3, NotFirst
      <3>2. /\ cs[Len(cs) - 1].op = "raw" /\ cs[Len(cs) - 1].job = "close"
            /\ cs[Len(cs) - 1].depth = Last(cs).depth /\ cs[Len(cs) - 1].th = t
        BY <1>1, <1>3, <2>2, <3>1 DEF Over, Enters, Entering, Calls, Closes, Protected
      <3>3. Framed(cs[Len(cs) - 1], ci[cs[Len(cs) - 1].th])
        BY <3>1, <1>2, <1>3 DEF Mid, Good, Linked
      <3>4. s[Last(cs).depth].fn = "pcall"
        BY <3>2, <3>3, <1>7 DEF Framed, Protected
      <3> QED BY <3>4, <1>7
    <2> QED BY <2>1, <2>2
  <1>9. CanEnter(cs, s, t, inc)
    <2>1. Over(Last(cs), CCall(t, Len(s) + 1, inc))
      BY <1>1, <1>6, <1>7 DEF Over, Calls, CCall
    <2>2. ~Runner(Last(cs))
      BY <1>1 DEF Runner
    <2>3. s # <<>> /\ Blocking(Last(s)) => Held(cs, t, Len(s))
      <3>1. BlockingHeld(cs, t, s)
        <4>1. status[t] = "ok"
          BY <1>2, RunningFacts
        <4> QED BY <4>1, <1>1, <1>3 DEF Sound
      <3>2. s # <<>> => Len(s) \in DOMAIN s /\ Last(s) = s[Len(s)]
        BY <1>3, Shortened
      <3> QED BY <3>1, <3>2 DEF BlockingHeld
    <2> QED BY <1>7, <1>8, <2>1, <2>2, <2>3 DEF CanEnter
  <1>10. Mid(cs, [ci EXCEPT ![t] = s], status, cc, nny, t)
    BY <1>2, <1>5
  <1>11. Enter(t, s, cs, b, inc) /\ ci \in FrameMap
    BY <1>1, <1>3
  <1> HIDE DEF s, inc, b
  <1> QED BY ONLY <1>4, <1>6, <1>9, <1>10, <1>11, EnterSound

\* The setjmp under the vmkF_close of an error or of vmkE_resetthread.
LEMMA ProtectsClose ==
  ASSUME NEW C, NEW F, NEW st, NEW c, NEW m, Sound(C, F, st, c, m), C # <<>>,
         NEW t, t = Last(C).th, Last(C).op = "close", NEW b, b = C[Len(C) - 1],
         b.op = "raw", b.job = "close"
  PROVE  /\ C \in Seq(Activation) /\ Shape(C) /\ Len(C) \in Nat /\ Len(C) > 1 /\ Last(C) = C[Len(C)]
         /\ F[t] \in Seq(Frame) /\ Frames(F[t]) /\ Len(F[t]) \in Nat /\ t \in Threads
         /\ b.th = t /\ b.depth = Len(F[t]) /\ b \in Activation /\ b.depth \in Nat
         /\ Framed(b, F[t]) /\ st[t] = "ok"
         /\ b.cc = CCallsUpTo(C, Len(C) - 2) /\ b.nny = NonYieldableUpTo(t, C, Len(C) - 2)
  <1>1. Mid(C, F, st, c, m, t)
    BY SoundMid
  <1>2. /\ C \in Seq(Activation) /\ Shape(C) /\ Len(C) \in Nat /\ Len(C) \in 1..Len(C)
        /\ Last(C) = C[Len(C)] /\ DOMAIN C = 1..Len(C)
        /\ F[t] \in Seq(Frame) /\ Frames(F[t]) /\ Len(F[t]) \in Nat /\ t \in Threads /\ st[t] = "ok"
    BY <1>1, RunningFacts
  <1>3. Len(C) > 1 /\ Len(C) - 1 \in 1..Len(C) /\ Over(b, Last(C))
    <2>1. C[Len(C)].op # "raw"
      BY <1>2
    <2> QED BY <1>2, <2>1, NotFirst
  <1>4. b \in Activation /\ b.depth \in Nat
    BY <1>2, <1>3, ShapeParts
  <1>5. Closes(b, Last(C)) /\ b.th = t
    BY <1>3 DEF Over, Enters, Entering, Calls, Protected
  <1>6. Last(C).depth = b.depth
    BY <1>5 DEF Closes, Runner, Coroutined
  <1>7. b.depth = Len(F[t])
    BY <1>6 DEF Sound, TopFrame
  <1>8. Framed(b, F[t])
    BY <1>2, <1>3, <1>5 DEF Sound, Good, Linked
  <1>9. b.cc = CCallsUpTo(C, Len(C) - 2) /\ b.nny = NonYieldableUpTo(t, C, Len(C) - 2)
    <2>1. Exact(C, c, m)
      BY DEF Sound
    <2>2. ~Counted(b)
      BY DEF Counted, Coroutined
    <2>3. (Len(C) - 1) - 1 = Len(C) - 2
      BY <1>2
    <2>4. /\ b.cc = CCallsUpTo(C, (Len(C) - 1) - 1)
          /\ b.nny = NonYieldableUpTo(b.th, C, (Len(C) - 1) - 1)
      BY <1>2, <1>3, <2>1, <2>2, RawExact
    <2> QED BY <2>3, <2>4, <1>5
  <1> QED BY <1>2, <1>3, <1>4, <1>5, <1>7, <1>8, <1>9

\* The variables of an error are closed: vmkD_pcall returns to the caller.
LEMMA ClosedPcall ==
  ASSUME NEW C, NEW F, NEW st, NEW c, NEW m, Sound(C, F, st, c, m), C # <<>>,
         NEW t, t = Last(C).th, Last(C).op = "close", NEW b, b = C[Len(C) - 1],
         b.op = "raw", b.job = "close", b.depth > 0,
         NEW c2, c2 = [c EXCEPT ![t] = b.cc], NEW m2, m2 = [m EXCEPT ![t] = b.nny],
         NEW r, r = ReturnC(F[t])
  PROVE  Sound(SubSeq(C, 1, Len(C) - 2), [F EXCEPT ![t] = r], st, c2, m2)
  <1> DEFINE n == Len(C) - 2
             s == F[t]
             D == SubSeq(C, 1, n)
  <1>1. /\ C \in Seq(Activation) /\ Shape(C) /\ Len(C) \in Nat /\ Len(C) > 1 /\ Last(C) = C[Len(C)]
        /\ s \in Seq(Frame) /\ Frames(s) /\ Len(s) \in Nat /\ t \in Threads
        /\ b.th = t /\ b.depth = Len(s) /\ b \in Activation /\ b.depth \in Nat
        /\ Framed(b, s) /\ st[t] = "ok"
        /\ b.cc = CCallsUpTo(C, n) /\ b.nny = NonYieldableUpTo(t, C, n)
    BY ProtectsClose
  <1>n. n \in Nat /\ n + 1 = Len(C) - 1 /\ n \in 0..Len(C) /\ n + 1 \in 1..Len(C) /\ C[n+1] = b
        /\ n + 2 = Len(C)
    BY <1>1
  <1>h. s = F[t] /\ r = ReturnC(s) /\ D = SubSeq(C, 1, n)
    OBVIOUS
  <1> HIDE DEF n, s, D
  <1>4. Protected(b)
    BY DEF Protected
  <1>6. IF n = 0 THEN t = Main /\ b.depth = 1
        ELSE n \in 1..Len(C) /\ C[n].th = t /\ Runner(C[n]) /\ C[n].depth < b.depth /\ C[n].depth \in Nat
    <2>1. CASE n = 0
      <3>1. Bottom(b)
        <4>1. n + 1 = 1
          BY <2>1
        <4> QED BY <4>1, <1>1, <1>n, ShapeParts
      <3> QED BY <2>1, <3>1, <1>1 DEF Bottom
    <2>2. CASE n # 0
      <3>1. n \in 1..Len(C) /\ n < Len(C)
        BY <2>2, <1>n, <1>1
      <3>2. Over(C[n], b) /\ C[n].depth \in Nat
        BY <3>1, <1>1, <1>n, ShapeParts
      <3>3. ~Entering(b)
        <4>1. b.depth # 0
          BY <1>1
        <4> QED BY <4>1 DEF Entering, Coroutined
      <3> QED BY <2>2, <3>1, <3>2, <3>3, <1>1 DEF Over, Enters, Calls, Closes
    <2> QED BY <2>1, <2>2
  <1>7. s[Len(s)].fn = "pcall" /\ s # <<>> /\ Len(s) \in 1..Len(s)
    <2>1. s[b.depth].fn = "pcall"
      BY <1>1, <1>4 DEF Framed
    <2>2. Len(s) \in 1..Len(s)
      <3>1. Len(s) > 0 /\ Len(s) \in Nat
        BY <1>1
      <3> QED BY ONLY <3>1
    <2> QED BY <1>1, <2>1, <2>2
  <1>10. /\ r \in Seq(Frame) /\ Len(r) = b.depth - 1 /\ Trimmed(r, s, Len(r)) /\ Len(r) \in Nat
         /\ (r = <<>> <=> b.depth = 1)
         /\ Len(s) > 1 => Last(r).pc = "run" /\ r[Len(s) - 1] = Last(r)
    <2>1. /\ Trimmed(r, s, Len(s) - 1)
          /\ Len(s) > 1 => Last(r).pc = "run" /\ r[Len(s) - 1] = Last(r)
      BY <1>1, <1>7, <1>h, ReturnCTrims
    <2>2. r \in Seq(Frame) /\ Len(r) = Len(s) - 1 /\ Trimmed(r, s, Len(r))
      BY <2>1 DEF Trimmed
    <2>3. Len(r) \in Nat /\ Len(r) = b.depth - 1
      <3>1. Len(s) > 0 /\ Len(s) \in Nat /\ b.depth = Len(s)
        BY <1>1
      <3> QED BY ONLY <3>1, <2>2
    <2>4. r = <<>> <=> b.depth = 1
      <3>1. r = <<>> <=> Len(r) = 0
        <4>1. r \in Seq(Frame)
          BY <2>2
        <4> QED BY ONLY <4>1
      <3>2. b.depth \in Nat
        BY <1>1
      <3> QED BY ONLY <3>1, <3>2, <2>3
    <2> QED BY <2>1, <2>2, <2>3, <2>4
  <1>11. ASSUME Len(s) > 1
         PROVE  Last(r).fn = "vmk" /\ ~Last(r).ypcall /\ Last(r).pc = "run"
    <2>1. Len(s) - 1 \in 1..Len(s) /\ Len(s) - 1 < Len(s) /\ (Len(s) - 1) + 1 = Len(s) /\ Len(r) = Len(s) - 1
          /\ Len(s) - 1 > 0
      BY <1>1, <1>10, <1>11
    <2>3. s[Len(s) - 1].fn = "vmk" /\ ~s[Len(s) - 1].ypcall
      BY <2>1, <1>1, <1>7, UnderLast
    <2>4. SameKind(r[Len(s) - 1], s[Len(s) - 1])
      BY <2>1, <1>10 DEF Trimmed
    <2> QED BY <2>3, <2>4, <1>10, <1>11 DEF SameKind
  <1>12. r # <<>> => PcOf(Last(r)) /\ ~Parked(Last(r)) /\ ~Blocking(Last(r))
    <2>1. r # <<>> => Len(s) > 1
      BY <1>1, <1>10
    <2> QED BY <2>1, <1>11 DEF PcOf, Parked, Blocking
  <1>14. \A j \in (n+1)..Len(C) : j = n + 1 \/ j = Len(C)
    BY <1>n, <1>1
  <1>15. Cuts(C, F, t, n, r)
    <2>1. ASSUME n > 0
          PROVE  /\ C[n].th = t /\ Trimmed(r, F[t], Len(r)) /\ C[n].depth <= Len(r)
                 /\ C[n].op # "close"
                 /\ \A j \in (n+1)..Len(C) : C[j].op = "call" => C[j].depth > Len(r)
      <3>1. C[n].th = t /\ Runner(C[n]) /\ C[n].depth <= Len(r)
        BY <2>1, <1>6, <1>10, <1>1
      <3>2. \A j \in (n+1)..Len(C) : C[j].op = "call" => C[j].depth > Len(r)
        <4>1. C[n+1].op # "call" /\ C[Len(C)].op # "call"
          BY <1>n, <1>1
        <4> QED BY <4>1, <1>14
      <3> QED BY <3>1, <3>2, <1>10, <1>h DEF Runner
    <2> QED BY <2>1 DEF Cuts
  <1>16. ASSUME NEW k \in DOMAIN r, Blocking(r[k]) PROVE Held(SubSeq(C, 1, n), t, k)
    <2>0. k \in Nat /\ k <= Len(r) /\ k \in 1..Len(r) /\ Last(r) = r[Len(r)] /\ r # <<>>
      BY <1>10, <1>16 DEF Last
    <2>1. k # Len(r)
      BY <2>0, <1>12, <1>16
    <2>2. r[k] = s[k] /\ k \in DOMAIN s /\ k < b.depth
      <3>1. k \in 1..(Len(r) - 1) /\ k \in 1..Len(s) /\ k < b.depth
        <4>1. Len(r) = b.depth - 1 /\ Len(s) = b.depth /\ b.depth \in Nat /\ Len(r) \in Nat
          BY <1>1, <1>10
        <4> QED BY ONLY <4>1, <2>0, <2>1
      <3>2. r[k] = s[k]
        BY <3>1, <1>10 DEF Trimmed
      <3> QED BY <3>1, <3>2, <1>1
    <2>3. Held(C, t, k)
      BY <2>2, <1>1, <1>16, <1>h DEF Sound, BlockingHeld
    <2>4. \A j \in (n+1)..Len(C) : /\ ~(C[j].op = "call" /\ C[j].inc = 1 /\ C[j].depth = k + 1)
                                   /\ ~(C[j].op = "raw" /\ C[j].job = "close" /\ C[j].depth = k)
      <3>1. C[Len(C)].op = "close"
        BY <1>1
      <3>2. C[n+1].op = "raw" /\ C[n+1].depth # k
        BY <1>n, <2>2
      <3> QED BY <3>1, <3>2, <1>14
    <2> QED BY <2>3, <2>4, <1>1, <1>n, HeldPrefix
  <1>17. /\ c2 \in Counters /\ m2 \in Counters /\ c2[t] = CCallsUpTo(C, n) /\ m2[t] = NonYieldableUpTo(t, C, n)
         /\ \A u \in Threads : u # t => c2[u] = c[u] /\ m2[u] = m[u]
    <2>1. c \in Counters /\ m \in Counters
      BY DEF Sound
    <2>2. CCallsUpTo(C, n) \in Nat /\ NonYieldableUpTo(t, C, n) \in Nat
      BY <1>n, CountCard
    <2> QED BY <1>1, <2>1, <2>2 DEF Counters
  <1>18. n = 0 => c2[Main] = 0 /\ m2[Main] = 1
    <2> SUFFICES ASSUME n = 0 PROVE c2[Main] = 0 /\ m2[Main] = 1
      OBVIOUS
    <2>1. t = Main /\ c2[t] = CCallsUpTo(C, 0) /\ m2[t] = NonYieldableUpTo(t, C, 0)
      BY <1>6, <1>17
    <2> QED BY ONLY <2>1, CountZero
  <1>19. IF n > 0 THEN C[n].th = t /\ ~Protected(C[n]) /\ C[n].op # "close" ELSE t = Main /\ r = <<>>
    BY <1>6, <1>10, <1>n DEF Runner, Protected, Coroutined
  <1>20. Sound(SubSeq(C, 1, n), [F EXCEPT ![t] = r], st, c2, m2)
    <2>1. /\ Sound(C, F, st, c, m) /\ C # <<>> /\ t = Last(C).th /\ r \in Seq(Frame)
          /\ (IF n > 0 THEN C[n].th = t /\ ~Protected(C[n]) ELSE t = Main /\ r = <<>>)
          /\ (n > 0 /\ C[n].op = "close" => Len(r) = C[n].depth)
          /\ (r # <<>> => PcOf(Last(r)) /\ ~Parked(Last(r)))
          /\ (\A k \in DOMAIN r : Blocking(r[k]) => Held(SubSeq(C, 1, n), t, k))
          /\ (n > 0 => c2[t] = CCallsUpTo(C, n) /\ m2[t] = NonYieldableUpTo(t, C, n))
      BY <1>10, <1>12, <1>16, <1>17, <1>19
    <2> QED BY ONLY <2>1, <1>n, <1>15, <1>17, <1>18, SoundCut, SMTT(30)
  <1> QED BY <1>20 DEF n

\* The last activation that is a setjmp is the handler.
LEMMA HandlerAt ==
  ASSUME NEW C \in Seq(Activation), Shape(C), C # <<>>, NEW t, t = Last(C).th,
         NEW n \in 1..Len(C), C[n].op = "raw", \A j \in (n+1)..Len(C) : C[j].op # "raw"
  PROVE  Handler(t, C) = n
  <1> DEFINE h == Handler(t, C)
  <1>1. h \in 1..Len(C) /\ C[h].op = "raw" /\ \A k \in (h+1)..Len(C) : C[k].op # "raw"
    BY HandlerFound
  <1> HIDE DEF h
  <1>2. h <= n
    <2>1. h \notin (n+1)..Len(C)
      BY <1>1
    <2> QED BY <2>1, <1>1
  <1>3. n <= h
    <2>1. n \notin (h+1)..Len(C)
      BY <1>1
    <2> QED BY <2>1, <1>1
  <1>4. h = n
    BY <1>1, <1>2, <1>3
  <1> QED BY <1>4 DEF h

\* The coroutine t, that is done or closed, left the C stack: what called
\* vmk_resume or vmk_closethread goes on with frames r.
LEMMA LeavesDone ==
  ASSUME Core, cs # <<>>, NEW t, t = Last(cs).th, ci[t] = <<>>,
         NEW n \in 1..Len(cs), cs[n].op = "raw", \A j \in (n+1)..Len(cs) : cs[j].op # "raw",
         Entering(cs[n]), NEW from, from = Last(SubSeq(cs, 1, n - 1)).th,
         NEW r, \/ Last(ci[from]).fn # "wrap" /\ r = ReturnC(ci[from])
                \/ Last(ci[from]).fn # "close" /\ r = ReturnC(ci[from])
                \/ Last(ci[from]).fn = "wrap" /\ r = [ci[from] EXCEPT ![Len(ci[from])].pc = "raise"],
         ci' = [ci EXCEPT ![from] = r], cs' = SubSeq(cs, 1, n - 1), status' = status,
         cc' = [cc EXCEPT ![t] = cs[n].cc], nny' = [nny EXCEPT ![t] = cs[n].nny]
  PROVE  Sound(cs', ci', status', cc', nny')
  <1> DEFINE D == SubSeq(cs, 1, n - 1)
             a == cs[n]
             c2 == [cc EXCEPT ![t] = a.cc]
             m2 == [nny EXCEPT ![t] = a.nny]
             st2 == [status EXCEPT ![t] = "ok"]
  <1>1. Mid(cs, ci, status, cc, nny, t)
    BY SoundMid DEF Core
  <1>2. /\ cs \in Seq(Activation) /\ Shape(cs) /\ t \in Threads /\ status[t] = "ok"
    BY <1>1, RunningFacts
  <1>3. n = Handler(t, cs)
    BY <1>2, HandlerAt
  <1>4. st2 = status
    BY <1>2 DEF Core, TypeOK
  <1>5. a.cc \in Nat /\ a.nny \in Nat
    <2>1. a \in Activation
      BY <1>2
    <2> QED BY <2>1, ActivationFields
  <1>6. c2 \in Counters /\ m2 \in Counters /\ OthersCount(t, cc, nny, c2, m2)
    BY <1>2, <1>5 DEF Core, TypeOK, Counters, OthersCount
  <1>h. /\ D = SubSeq(cs, 1, n - 1) /\ a = cs[n] /\ st2 = [status EXCEPT ![t] = "ok"]
        /\ from = Last(D).th /\ Entering(a) /\ "ok" \in {"ok", "yield", "err"}
    OBVIOUS
  <1>7. cc' = c2 /\ nny' = m2 /\ cs' = D
    OBVIOUS
  <1>8. Leaves("ok", ci[t])
    BY DEF Leaves
  <1> HIDE DEF D, a, c2, m2, st2
  <1>9. Left(D, ci, st2, c2, m2, t, from, a)
    BY ONLY <1>1, <1>3, <1>h, <1>8, <1>6, LeaveMid
  <1>10. \/ r = ReturnC(ci[from])
         \/ Last(ci[from]).fn = "wrap" /\ r = [ci[from] EXCEPT ![Len(ci[from])].pc = "raise"]
    OBVIOUS
  <1>11. Sound(D, [ci EXCEPT ![from] = r], st2, c2, m2)
    BY ONLY <1>9, <1>10, LeftEnds
  <1> QED BY <1>4, <1>7, <1>11

\* vmk_resume returns to the function that resumed a coroutine that is done.
LEMMA ResumeReturnsSound ==
  ASSUME Core, cs # <<>>, NEW t, ResumeReturns(t)
  PROVE  Sound(cs', ci', status', cc', nny')
  <1> DEFINE n == Len(cs)
             from == Last(SubSeq(cs, 1, n - 1)).th
             r == ReturnC(ci[from])
  <1>1. cs \in Seq(Activation)
    BY DEF Core, TypeOK
  <1>2. /\ n \in 1..Len(cs) /\ Last(cs) = cs[n] /\ Front(cs) = SubSeq(cs, 1, n - 1)
        /\ \A j \in (n+1)..Len(cs) : cs[j].op # "raw"
    BY <1>1, Shortened
  <1>3. /\ t = Last(cs).th /\ cs[n].op = "raw" /\ Coroutined(cs[n].job) /\ ci[t] = <<>>
        /\ ci' = [ci EXCEPT ![from] = r] /\ cs' = SubSeq(cs, 1, n - 1) /\ status' = status
        /\ cc' = [cc EXCEPT ![t] = cs[n].cc] /\ nny' = [nny EXCEPT ![t] = cs[n].nny]
    BY <1>2 DEF ResumeReturns, Top, Base, SetCount
  <1>4. Entering(cs[n])
    BY <1>3 DEF Entering
  <1>h. from = Last(SubSeq(cs, 1, n - 1)).th /\ r = ReturnC(ci[from])
    OBVIOUS
  <1>5. \/ Last(ci[from]).fn # "wrap" /\ r = ReturnC(ci[from])
        \/ Last(ci[from]).fn # "close" /\ r = ReturnC(ci[from])
        \/ Last(ci[from]).fn = "wrap" /\ r = [ci[from] EXCEPT ![Len(ci[from])].pc = "raise"]
    BY <1>h
  <1> HIDE DEF n, from, r
  <1> QED BY ONLY Core, cs # <<>>, <1>2, <1>3, <1>4, <1>5, <1>h, LeavesDone

\* vmkF_close is done, and its caller goes on.
LEMMA CloseReturnsSound ==
  ASSUME Core, cs # <<>>, NEW t, CloseReturns(t)
  PROVE  Sound(cs', ci', status', cc', nny')
  <1> DEFINE C == Front(cs)
             a == Last(C)
             n == Len(cs) - 1
             from == Last(Front(C)).th
  <1>1. /\ t = Last(cs).th /\ Last(cs).op = "close" /\ status' = status
        /\ Sound(cs, ci, status, cc, nny)
    BY DEF CloseReturns, Top, Core
  <1>2. Mid(cs, ci, status, cc, nny, t)
    BY <1>1, SoundMid
  <1>3. /\ cs \in Seq(Activation) /\ Shape(cs) /\ Len(cs) \in Nat /\ Len(cs) \in 1..Len(cs)
        /\ Last(cs) = cs[Len(cs)] /\ t \in Threads /\ ci[t] \in Seq(Frame) /\ Last(cs) \in Activation
        /\ Framed(Last(cs), ci[t]) /\ ci \in FrameMap
    BY <1>2, RunningFacts
  <1>4. Len(cs) > 1 /\ n \in 1..Len(cs) /\ Over(cs[n], cs[Len(cs)])
    <2>1. cs[Len(cs)].op # "raw"
      BY <1>1, <1>3
    <2> QED BY <1>3, <2>1, NotFirst
  <1>5. /\ C = SubSeq(cs, 1, n) /\ a = cs[n] /\ C # <<>> /\ C \in Seq(Activation) /\ Len(C) = n
    BY <1>3, <1>4, Shortened
  <1>6. Front(C) = SubSeq(cs, 1, n - 1)
    <2>1. Front(C) = SubSeq(C, 1, n - 1)
      BY <1>5, Shortened
    <2>2. SubSeq(SubSeq(cs, 1, n), 1, n - 1) = SubSeq(cs, 1, n - 1)
      <3>1. n - 1 \in 0..n
        BY <1>3, <1>4
      <3>2. /\ SubSeq(cs, 1, n) \in Seq(Activation) /\ Len(SubSeq(cs, 1, n)) = n
            /\ \A i \in 1..n : SubSeq(cs, 1, n)[i] = cs[i]
        BY <1>3, <1>4, Prefix
      <3>3. /\ SubSeq(SubSeq(cs, 1, n), 1, n - 1) \in Seq(Activation)
            /\ Len(SubSeq(SubSeq(cs, 1, n), 1, n - 1)) = n - 1
            /\ \A i \in 1..(n-1) : SubSeq(SubSeq(cs, 1, n), 1, n - 1)[i] = SubSeq(cs, 1, n)[i]
        BY ONLY <3>1, <3>2, Prefix
      <3>4. n - 1 \in 0..Len(cs)
        BY <1>3, <1>4
      <3>5. /\ SubSeq(cs, 1, n - 1) \in Seq(Activation) /\ Len(SubSeq(cs, 1, n - 1)) = n - 1
            /\ \A i \in 1..(n-1) : SubSeq(cs, 1, n - 1)[i] = cs[i]
        BY ONLY <1>3, <3>4, Prefix
      <3>6. \A i \in 1..(n-1) : SubSeq(SubSeq(cs, 1, n), 1, n - 1)[i] = SubSeq(cs, 1, n - 1)[i]
        <4>1. \A i \in 1..(n-1) : i \in 1..n
          BY <3>1
        <4> QED BY <4>1, <3>2, <3>3, <3>5
      <3> QED BY ONLY <3>3, <3>5, <3>6, SeqEqual
    <2> QED BY <2>1, <2>2, <1>5
  <1>h. n = Len(cs) - 1 /\ C = Front(cs) /\ a = Last(C) /\ from = Last(Front(C)).th
    OBVIOUS
  <1>7. CASE a.op = "raw" /\ a.job = "close"
    <2>1. /\ cs' = Front(C) /\ cc' = [cc EXCEPT ![t] = a.cc] /\ nny' = [nny EXCEPT ![t] = a.nny]
          /\ IF a.depth > 0 THEN ci' = [ci EXCEPT ![t] = ReturnC(@)]
             ELSE ci' = [ci EXCEPT ![from] = IF Last(@).fn = "close" THEN ReturnC(@)
                                             ELSE [@ EXCEPT ![Len(@)].pc = "raise"]]
      BY <1>7 DEF CloseReturns, SetCount
    <2> HIDE DEF C, a, n, from
    <2>2. CASE a.depth > 0
      <3> DEFINE r == ReturnC(ci[t])
                 c2 == [cc EXCEPT ![t] = a.cc]
                 m2 == [nny EXCEPT ![t] = a.nny]
      <3>1. ci' = [ci EXCEPT ![t] = r]
        BY <2>1, <2>2
      <3>2. /\ r = ReturnC(ci[t]) /\ c2 = [cc EXCEPT ![t] = a.cc] /\ m2 = [nny EXCEPT ![t] = a.nny]
            /\ a = cs[Len(cs) - 1] /\ Len(cs) - 2 = n - 1
        BY <1>5, <1>h, <1>3
      <3> HIDE DEF r, c2, m2
      <3>3. Sound(SubSeq(cs, 1, Len(cs) - 2), [ci EXCEPT ![t] = r], status, c2, m2)
        BY ONLY cs # <<>>, <1>1, <3>2, <1>7, <2>2, ClosedPcall
      <3> QED BY <1>1, <1>6, <2>1, <3>1, <3>2, <3>3
    <2>3. CASE ~(a.depth > 0)
      <3> DEFINE r == IF Last(ci[from]).fn = "close" THEN ReturnC(ci[from])
                      ELSE [ci[from] EXCEPT ![Len(ci[from])].pc = "raise"]
                 g == Last(SubSeq(cs, 1, n - 1)).th
      <3>1. ci' = [ci EXCEPT ![from] = r]
        BY <2>1, <2>3
      <3>2. a = cs[Len(cs) - 1]
        BY <1>5, <1>h
      <3>3. a.depth \in Nat /\ a.depth = Len(ci[t])
        BY ONLY cs # <<>>, <1>1, <1>7, <3>2, ProtectsClose
      <3>4. ci[t] = <<>> /\ a.depth = 0
        BY <2>3, <3>3, <1>3
      <3>5. Entering(cs[n]) /\ cs[n].op = "raw"
        BY <1>5, <1>7, <3>4 DEF Entering
      <3>6. \A j \in (n+1)..Len(cs) : cs[j].op # "raw"
        <4>1. \A j \in (n+1)..Len(cs) : j = Len(cs)
          BY <1>3, <1>h
        <4> QED BY <4>1, <1>1, <1>3
      <3>7. from = Last(SubSeq(cs, 1, n - 1)).th
        BY <1>6, <1>h
      <3>8. Last(ci[from]).fn \in {"close", "wrap"}
        <4>1. n > 1 /\ n - 1 \in 1..Len(cs)
          <5>1. n # 1
            <6>1. SUFFICES ASSUME n = 1 PROVE FALSE
              OBVIOUS
            <6>2. Bottom(cs[n])
              BY <6>1, <1>3, <1>4, ShapeParts
            <6> QED BY <6>2, <3>4, <1>5 DEF Bottom
          <5> QED BY <5>1, <1>3, <1>4
        <4>2. Caller(cs[n-1], cs[n], ci[cs[n-1].th])
          <5>1. Linked(cs, ci)
            BY <1>2 DEF Mid, Good
          <5>2. n \in DOMAIN cs /\ n > 1
            BY <4>1, <1>3, <1>4
          <5> QED BY ONLY <5>1, <5>2 DEF Linked
        <4>3. from = cs[n-1].th
          <5>1. n - 1 \in 0..Len(cs) /\ n - 1 > 0
            BY <4>1, <1>3
          <5> QED BY <5>1, <3>7, <1>3, Prefix
        <4> QED BY <4>2, <4>3, <3>5, <1>5, <1>7 DEF Caller
      <3>9. \/ Last(ci[from]).fn # "wrap" /\ r = ReturnC(ci[from])
            \/ Last(ci[from]).fn # "close" /\ r = ReturnC(ci[from])
            \/ Last(ci[from]).fn = "wrap" /\ r = [ci[from] EXCEPT ![Len(ci[from])].pc = "raise"]
        BY <3>8
      <3>10. /\ cs' = SubSeq(cs, 1, n - 1) /\ cc' = [cc EXCEPT ![t] = cs[n].cc]
             /\ nny' = [nny EXCEPT ![t] = cs[n].nny]
        BY <1>5, <1>6, <2>1
      <3> HIDE DEF r
      <3> QED BY ONLY Core, cs # <<>>, <1>1, <1>4, <3>1, <3>4, <3>5, <3>6, <3>7, <3>9, <3>10, LeavesDone
    <2> QED BY <2>2, <2>3
  <1>8. CASE ~(a.op = "raw" /\ a.job = "close")
    <2>1. IF Cur(t).fn = "vmk" /\ Cur(t).pc = "returning" THEN Finish(t, ci[t], C)
          ELSE /\ ci' = [ci EXCEPT ![t] = IF Cur(t).fn = "vmk" THEN Rerun(@) ELSE ReturnC(@)]
               /\ cs' = C /\ UNCHANGED <<cc, nny>>
      BY <1>8 DEF CloseReturns
    <2>2. Closes(a, Last(cs)) /\ a.th = t /\ Last(cs).yy /\ Last(cs).depth > 0
      <3>1. Closes(cs[n], Last(cs)) /\ cs[n].th = t
        BY <1>1, <1>3, <1>4 DEF Over, Enters, Entering, Calls, Protected
      <3> QED BY <3>1, <1>5, <1>8 DEF Closes
    <2>3. Sound(C, ci, status, cc, nny) /\ C # <<>> /\ t = Last(C).th /\ Last(C).op # "close"
      <3>1. Last(cs).yy
        BY <2>2
      <3>2. Sound(C, ci, status, cc, nny) /\ C # <<>> /\ Last(C).th = t /\ Runner(Last(C))
        BY ONLY cs # <<>>, <1>1, <3>1, <1>h, PopYY
      <3> QED BY <3>2 DEF Runner
    <2>4. ci[t] # <<>> /\ Closing(Last(ci[t])) /\ Last(ci[t]) = ci[t][Len(ci[t])] /\ Len(ci[t]) \in Nat \ {0}
      <3>1. TopFrame(cs, ci)
        BY <1>1 DEF Sound
      <3>2. Len(ci[t]) = Last(cs).depth
        BY <1>1, <3>1 DEF TopFrame
      <3>3. ci[t] # <<>>
        BY <3>2, <2>2, <1>3
      <3>4. Len(ci[t]) \in Nat \ {0} /\ Last(ci[t]) = ci[t][Len(ci[t])]
        BY <3>3, <1>3, Shortened
      <3>5. Closing(ci[t][Last(cs).depth])
        BY <1>1, <1>3, <2>2 DEF Framed
      <3> QED BY <3>2, <3>3, <3>4, <3>5
    <2> HIDE DEF C, a, n, from
    <2>5. CASE Cur(t).fn = "vmk" /\ Cur(t).pc = "returning"
      <3>1. Finish(t, ci[t], C) /\ Last(ci[t]).fn = "vmk"
        BY <2>1, <2>5 DEF Cur
      <3> QED BY ONLY <1>1, <2>3, <2>4, <3>1, FinishSound
    <2>6. CASE Cur(t).fn = "vmk" /\ Cur(t).pc # "returning"
      <3> DEFINE r == Rerun(ci[t])
      <3>1. ci' = [ci EXCEPT ![t] = r] /\ cs' = C /\ UNCHANGED <<cc, nny>>
        BY <2>1, <2>6
      <3>2. Trimmed(r, ci[t], Len(ci[t])) /\ Last(r).pc = "run" /\ r[Len(ci[t])] = Last(r)
        BY <1>3, <2>4, RerunTrims
      <3> HIDE DEF r
      <3>3. r \in Seq(Frame) /\ Len(r) = Len(ci[t]) /\ SameKind(Last(r), Last(ci[t]))
        BY <3>2, <2>4 DEF Trimmed
      <3>4. PcOf(Last(r)) /\ ~Parked(Last(r)) /\ ~Blocking(Last(r))
        BY <2>6, <3>2, <3>3 DEF PcOf, Parked, Blocking, SameKind, Cur
      <3>5. Last(C).depth <= Len(r)
        <4>1. Mid(C, ci, status, cc, nny, t)
          BY <2>3, SoundMid
        <4>2. Last(C).depth \in 0..Len(ci[t])
          BY <4>1, RunningFacts
        <4> QED BY <4>2, <3>3, <2>4
      <3>6. /\ Trimmed(r, ci[t], Len(r)) /\ (r # <<>> => PcOf(Last(r)) /\ ~Parked(Last(r)))
            /\ (r # <<>> /\ Blocking(Last(r)) => Held(C, t, Len(r)))
        BY <3>2, <3>3, <3>4
      <3>7. Sound(C, [ci EXCEPT ![t] = r], status, cc, nny)
        BY ONLY <2>3, <3>3, <3>5, <3>6, SoundStay
      <3> QED BY <1>1, <3>1, <3>7
    <2>7. CASE Cur(t).fn # "vmk"
      <3>1. ci' = [ci EXCEPT ![t] = ReturnC(ci[t])] /\ cs' = C /\ UNCHANGED <<cc, nny>>
        BY <2>1, <2>7
      <3>2. Last(ci[t]).fn # "vmk" \/ ~Last(ci[t]).fresh
        BY <2>7 DEF Cur
      <3>3. Sound(C, [ci EXCEPT ![t] = ReturnC(ci[t])], status, cc, nny)
        BY ONLY <2>3, <2>4, <3>2, ReturnsStay
      <3> QED BY <1>1, <3>1, <3>3
    <2> QED BY <2>5, <2>6, <2>7
  <1> QED BY <1>7, <1>8

\* The history and the lists that the frames say nothing of.
RestOK == /\ tbclist \in [Threads -> Seq([var : Vars, at : Nat \ {0}, frame : Nat \ {0}])]
          /\ body \in [Threads -> BOOLEAN] /\ called \subseteq Vars

\* The parts of the type invariant that Sound states.
LEMMA SoundTypes ==
  ASSUME Sound(cs, ci, status, cc, nny), RestOK
  PROVE  TypeOK
  BY DEF Sound, Good, FrameMap, Statuses, Counters, RestOK, TypeOK

\* A sound state whose other variables are typed is typed.
LEMMA SoundTypesNext ==
  ASSUME Sound(cs', ci', status', cc', nny'), RestOK'
  PROVE  Core'
  BY DEF Sound, Good, FrameMap, Statuses, Counters, RestOK, TypeOK, Core

\* The initial state: nothing runs, and no thread has frames.
LEMMA CoreInit == Init => Core
  <1> SUFFICES ASSUME Init PROVE Core
    OBVIOUS
  <1>1. /\ cs = <<>> /\ ci = [t \in Threads |-> <<>>] /\ status = [t \in Threads |-> "ok"]
        /\ cc = [t \in Threads |-> 0] /\ nny = [t \in Threads |-> IF t = Main THEN 1 ELSE 0]
        /\ Main \in Threads
    BY DEF Init, Threads
  <1>2. Good(cs, ci)
    <2>1. cs \in Seq(Activation) /\ DOMAIN cs = {}
      BY <1>1
    <2>2. ci \in FrameMap
      BY <1>1 DEF FrameMap
    <2> QED BY <2>1, <2>2 DEF Good, Shape, Linked, FreshCalled
  <1>3. status \in Statuses /\ ThreadsFit(cs, ci, status)
    <2>1. \A u \in Threads : ThreadFits(InC(cs, u), u = RunningIn(cs), ci[u], status[u])
      <3>1. \A u : ~InC(cs, u)
        BY <1>1 DEF InC
      <3> QED BY <1>1, <3>1 DEF ThreadFits
    <2> QED BY <1>1, <2>1 DEF ThreadsFit, Statuses
  <1>4. \A t \in Threads : Frames(ci[t]) /\ (status[t] # "err" => BlockingHeld(cs, t, ci[t]))
    BY <1>1 DEF Frames, BlockingHeld
  <1>5. cc \in Counters /\ nny \in Counters /\ Exact(cs, cc, nny)
    BY <1>1 DEF Counters, Exact, RawCounts, EndCounts
  <1>6. CCallsUpTo(cs, Len(cs)) < ErrCCalls
    <2>1. CCallsUpTo(cs, 0) = 0 /\ Len(cs) = 0 /\ 0 < ErrCCalls
      BY <1>1, CountZero, CallsAssumption
    <2> QED BY <2>1
  <1>7. Sound(cs, ci, status, cc, nny)
    BY <1>1, <1>2, <1>3, <1>4, <1>5, <1>6 DEF Sound, Topped, TopFrame
  <1>8. RestOK
    BY DEF Init, RestOK
  <1> QED BY <1>7, <1>8, SoundTypes DEF Core

\* What the program may mark in one call.
LEMMA MarkedVars ==
  ASSUME NEW vs \in {<<>>} \cup {<<v>> : v \in Free}
  PROVE  vs \in Seq(Vars)
  <1>1. CASE vs = <<>>
    BY <1>1
  <1>2. CASE \E v \in Free : vs = <<v>>
    <2>1. PICK v \in Free : vs = <<v>>
      BY <1>2
    <2>2. v \in Vars
      BY DEF Free
    <2> QED BY ONLY <2>1, <2>2
  <1> QED BY <1>1, <1>2

\* The actions, one at a time.
LEMMA CoreSteps ==
  ASSUME Core, Next
  PROVE  Sound(cs', ci', status', cc', nny')
  <1>1. CASE StartChunk
    BY <1>1, StartChunkSound
  <1>2. CASE cs # <<>> /\ ~StartChunk
    <2> DEFINE t == Running
    <2>1. CASE CallVmk(t)
      BY <2>1, CallVmkSound
    <2>2. CASE PCall(t)
      BY <2>2, PCallSound
    <2>3. CASE Error(t)
      BY <2>3, ErrorSound
    <2>4. CASE Yield(t)
      BY <2>4, YieldSound
    <2>5. CASE CloseBlock(t)
      BY <2>5, CloseBlockSound
    <2>6. CASE Return(t)
      BY <2>6, ReturnSound
    <2>7. CASE Start(t)
      BY <1>2, <2>7, StartSound
    <2>8. CASE Unroll(t)
      BY <1>2, <2>8, UnrollSound
    <2>9. CASE ReturnFromC(t)
      BY <1>2, <2>9, ReturnFromCSound
    <2>10. CASE ResumeReturns(t)
      BY <1>2, <2>10, ResumeReturnsSound
    <2>11. CASE CallClose(t)
      BY <1>2, <2>11, CallCloseSound
    <2>12. CASE CloseReturns(t)
      BY <1>2, <2>12, CloseReturnsSound
    <2>13. CASE Raise(t)
      BY <1>2, <2>13, RaiseSound
    <2>14. CASE \E v \in Free : NewTbc(t, v)
      BY <2>14, NewTbcSound
    <2>15. CASE \E vs \in {<<>>} \cup {<<v>> : v \in Free} : CallC(t, vs)
      <3>1. PICK vs \in {<<>>} \cup {<<v>> : v \in Free} : CallC(t, vs)
        BY <2>15
      <3>2. vs \in Seq(Vars)
        BY <3>1, MarkedVars
      <3> QED BY <3>1, <3>2, CallCSound
    <2>16. CASE \E co \in Threads : WrapRefused(t, co)
      BY <2>16, WrapRefusedSound
    <2>17. CASE \E co \in Threads : CloseCo(t, co)
      BY <2>17, CloseCoSound
    <2>18. CASE \E co \in Threads : \E f \in {"resume", "wrap"} : Resume(t, co, f)
      BY <2>18, ResumeSound
    <2> HIDE DEF t
    <2> QED BY <1>2, <2>1, <2>2, <2>3, <2>4, <2>5, <2>6, <2>7, <2>8, <2>9, <2>10, <2>11, <2>12,
               <2>13, <2>14, <2>15, <2>16, <2>17, <2>18 DEF Next, t
  <1> QED BY <1>1, <1>2 DEF Next

\* The pending variables stay a list of marks.
LEMMA RestSteps ==
  ASSUME Core, Next
  PROVE  RestOK'
  <1> DEFINE Entries == [var : Vars, at : Nat \ {0}, frame : Nat \ {0}]
             Lists == [Threads -> Seq(Entries)]
  <1>1. RestOK /\ tbclist \in Lists /\ body \in [Threads -> BOOLEAN] /\ called \subseteq Vars
    BY DEF Core, TypeOK, RestOK
  <1>2. CASE UNCHANGED <<tbclist, body, called>>
    BY <1>1, <1>2 DEF RestOK
  <1>3. ASSUME NEW t, NEW vs \in Seq(Vars), CallC(t, vs) PROVE RestOK'
    <2> DEFINE E == [i \in 1..Len(vs) |-> Mark(vs[i], NextBase(t) + i, Len(ci[t]) + 1)]
    <2>1. t \in Threads /\ NextBase(t) \in Nat \ {0} /\ Len(ci[t]) \in Nat
      BY <1>3, InterpFacts DEF CallC
    <2>2. E \in Seq(Entries)
      <3>1. ASSUME NEW i \in 1..Len(vs) PROVE Mark(vs[i], NextBase(t) + i, Len(ci[t]) + 1) \in Entries
        <4>1. vs[i] \in Vars /\ NextBase(t) + i \in Nat \ {0} /\ Len(ci[t]) + 1 \in Nat \ {0}
          BY <2>1
        <4> QED BY <4>1 DEF Mark
      <3>2. Len(vs) \in Nat
        OBVIOUS
      <3> HIDE DEF Entries
      <3> QED BY <3>1, <3>2
    <2>3. tbclist' = [tbclist EXCEPT ![t] = @ \o E] /\ called' = called \ ToSet(vs) /\ body' = body
      BY <1>3 DEF CallC
    <2> HIDE DEF E, Entries
    <2>4. tbclist[t] \o E \in Seq(Entries)
      BY <1>1, <2>1, <2>2
    <2>5. tbclist' \in Lists
      BY <1>1, <2>1, <2>3, <2>4
    <2> QED BY <1>1, <2>3, <2>5 DEF RestOK, Entries
  <1>4. ASSUME NEW t, NEW v \in Free, NewTbc(t, v) PROVE RestOK'
    <2>1. t \in Threads /\ NextBase(t) \in Nat \ {0} /\ Len(ci[t]) \in Nat \ {0}
      BY <1>4, InterpFacts DEF NewTbc
    <2>2. Mark(v, NextBase(t), Len(ci[t])) \in Entries
      BY <2>1 DEF Mark, Free
    <2>3. /\ tbclist' = [tbclist EXCEPT ![t] = Append(@, Mark(v, NextBase(t), Len(ci[t])))]
          /\ called' = called \ {v} /\ body' = body
      BY <1>4 DEF NewTbc
    <2> HIDE DEF Entries
    <2>4. tbclist' \in Lists
      BY <1>1, <2>1, <2>2, <2>3
    <2> QED BY <1>1, <2>3, <2>4 DEF RestOK, Entries
  <1>5. ASSUME cs # <<>>, NEW t, t = Running, CallClose(t) PROVE RestOK'
    <2>1. t \in Threads
      <3>1. t = Last(cs).th /\ Sound(cs, ci, status, cc, nny)
        BY <1>5 DEF Running, Top, Core
      <3>2. Mid(cs, ci, status, cc, nny, t)
        BY <1>5, <3>1, SoundMid
      <3> QED BY <3>2, RunningFacts
    <2>2. tbclist[t] # <<>> /\ tbclist[t] \in Seq(Entries)
      BY <1>1, <1>5, <2>1 DEF CallClose, HasPending
    <2> HIDE DEF Entries
    <2>3. Front(tbclist[t]) \in Seq(Entries) /\ Last(tbclist[t]) \in Entries
      BY <2>2, Shortened
    <2>4. /\ tbclist' = [tbclist EXCEPT ![t] = Front(@)] /\ body' = body
          /\ called' = called \cup {Last(tbclist[t]).var}
      BY <1>5 DEF CallClose
    <2>5. tbclist' \in Lists
      BY <1>1, <2>1, <2>3, <2>4
    <2>6. Last(tbclist[t]).var \in Vars
      BY <2>3 DEF Entries
    <2> QED BY <1>1, <2>4, <2>5, <2>6 DEF RestOK, Entries
  <1>6. ASSUME UNCHANGED <<tbclist, called>>, NEW t, body' = body \/ body' = [body EXCEPT ![t] = FALSE]
        PROVE  RestOK'
    BY <1>1, <1>6 DEF RestOK
  <1> HIDE DEF Entries, Lists
  <1>7. CASE StartChunk
    BY <1>2, <1>7 DEF StartChunk
  <1>8. CASE cs # <<>> /\ ~StartChunk
    <2> DEFINE t == Running
    <2>1. CASE \E vs \in {<<>>} \cup {<<v>> : v \in Free} : CallC(t, vs)
      <3>1. PICK vs \in {<<>>} \cup {<<v>> : v \in Free} : CallC(t, vs)
        BY <2>1
      <3>2. vs \in Seq(Vars)
        BY <3>1, MarkedVars
      <3> QED BY <3>1, <3>2, <1>3
    <2>2. CASE \E v \in Free : NewTbc(t, v)
      BY <2>2, <1>4
    <2>3. CASE CallClose(t)
      BY <1>5, <1>8, <2>3
    <2>4. CASE Start(t)
      BY <2>4, <1>6 DEF Start
    <2>5. CASE CloseReturns(t)
      <3>1. UNCHANGED <<tbclist, called>> /\ (body' = body \/ body' = [body EXCEPT ![t] = FALSE])
        BY <2>5 DEF CloseReturns
      <3> QED BY <3>1, <1>6
    <2>6. CASE \/ CallVmk(t) \/ PCall(t) \/ Error(t) \/ Yield(t) \/ CloseBlock(t) \/ Return(t)
               \/ Unroll(t) \/ ReturnFromC(t) \/ ResumeReturns(t) \/ Raise(t)
      BY <2>6, <1>2 DEF CallVmk, PCall, Error, Yield, CloseBlock, Return, Unroll, ReturnFromC,
                        ResumeReturns, Raise
    <2>7. CASE \E co \in Threads : \/ WrapRefused(t, co) \/ CloseCo(t, co)
                                   \/ \E f \in {"resume", "wrap"} : Resume(t, co, f)
      BY <2>7, <1>2 DEF WrapRefused, CloseCo, Resume
    <2> HIDE DEF t
    <2> QED BY <1>8, <2>1, <2>2, <2>3, <2>4, <2>5, <2>6, <2>7 DEF Next, t
  <1> QED BY <1>7, <1>8 DEF Next

\* Core is inductive, and so holds in every state of every run.
LEMMA CoreNext == Core /\ [Next]_vars => Core'
  <1> SUFFICES ASSUME Core, [Next]_vars PROVE Core'
    OBVIOUS
  <1>1. CASE Next
    BY <1>1, CoreSteps, RestSteps, SoundTypesNext
  <1>2. CASE UNCHANGED vars
    BY <1>2 DEF vars, Core, TypeOK
  <1> QED BY <1>1, <1>2

-----------------------------------------------------------------------------
(* What a closed thread keeps: no pcall that recovers from an error. *)

\* vmkE_resetthread is on a C stack that was cut, if it was on the whole one.
LEMMA ResetsPrefix ==
  ASSUME NEW C \in Seq(Activation), NEW n \in 0..Len(C), NEW u, Resets(SubSeq(C, 1, n), u)
  PROVE  Resets(C, u)
  <1>1. PICK i \in DOMAIN SubSeq(C, 1, n) :
          LET a == SubSeq(C, 1, n)[i]
          IN a.op = "raw" /\ a.job = "close" /\ a.depth = 0 /\ a.th = u
    BY DEF Resets
  <1>2. i \in 1..n /\ SubSeq(C, 1, n)[i] = C[i] /\ i \in DOMAIN C
    BY Prefix
  <1> QED BY <1>1, <1>2 DEF Resets

\* An activation that is not vmkE_resetthread resets no thread.
LEMMA ResetsAppend ==
  ASSUME NEW C \in Seq(Activation), NEW a \in Activation, NEW u, Resets(Append(C, a), u)
  PROVE  Resets(C, u) \/ (a.op = "raw" /\ a.job = "close" /\ a.depth = 0 /\ a.th = u)
  <1>1. PICK i \in DOMAIN Append(C, a) :
          LET b == Append(C, a)[i]
          IN b.op = "raw" /\ b.job = "close" /\ b.depth = 0 /\ b.th = u
    BY DEF Resets
  <1>2. i \in 1..(Len(C) + 1) /\ Append(C, a)[Len(C) + 1] = a /\ Len(C) \in Nat
        /\ \A j \in 1..Len(C) : Append(C, a)[j] = C[j]
    BY Appended
  <1>3. CASE i = Len(C) + 1
    BY <1>1, <1>2, <1>3
  <1>4. CASE i \in 1..Len(C)
    <2>1. i \in DOMAIN C /\ Append(C, a)[i] = C[i]
      BY <1>2, <1>4
    <2> QED BY <1>1, <2>1 DEF Resets
  <1> QED BY <1>2, <1>3, <1>4

\* Frames that are the first ones of plain frames are plain.
LEMMA PlainTrimmed ==
  ASSUME NEW s \in Seq(Frame), NEW n, NEW r, Trimmed(r, s, n), Plain(s)
  PROVE  Plain(r)
  <1>1. /\ r \in Seq(Frame) /\ n \in 0..Len(s) /\ Len(r) = n /\ Len(s) \in Nat
        /\ \A k \in 1..(n-1) : r[k] = s[k]
        /\ n > 0 => SameKind(r[n], s[n])
    BY DEF Trimmed
  <1>2. ASSUME NEW k \in DOMAIN r PROVE ~r[k].ypcall
    <2>1. k \in 1..n /\ k \in DOMAIN s
      BY <1>1
    <2>2. k = n \/ k \in 1..(n-1)
      BY <2>1, <1>1
    <2>3. r[k].ypcall = s[k].ypcall
      BY <1>1, <2>1, <2>2 DEF SameKind
    <2> QED BY <2>1, <2>3 DEF Plain
  <1> QED BY <1>2 DEF Plain

\* A frame that is not a mark keeps plain frames plain.
LEMMA PlainAppend ==
  ASSUME NEW s \in Seq(Frame), NEW f \in Frame, ~f.ypcall, Plain(s)
  PROVE  Plain(Append(s, f))
  <1>1. /\ DOMAIN Append(s, f) = 1..(Len(s) + 1) /\ Append(s, f)[Len(s) + 1] = f /\ Len(s) \in Nat
        /\ \A i \in 1..Len(s) : Append(s, f)[i] = s[i]
    BY Appended
  <1>2. ASSUME NEW k \in 1..(Len(s) + 1) PROVE ~Append(s, f)[k].ypcall
    <2>1. k = Len(s) + 1 \/ k \in 1..Len(s)
      BY <1>1
    <2> QED BY <1>1, <2>1 DEF Plain
  <1> QED BY <1>1, <1>2 DEF Plain

\* A call by the last of plain frames, of a function that is not a mark.
LEMMA PlainCall ==
  ASSUME NEW s \in Seq(Frame), s # <<>>, NEW f \in Frame, ~f.ypcall, Plain(s)
  PROVE  Plain(WithCall(s, f))
  <1>1. Trimmed(Waits(s), s, Len(s))
    <2>1. "wait" \in {"run", "wait", "closing", "returning", "raise"}
      OBVIOUS
    <2> QED BY <2>1, LastAt DEF Waits
  <1>2. Plain(Waits(s)) /\ Waits(s) \in Seq(Frame)
    BY <1>1, PlainTrimmed DEF Trimmed
  <1> QED BY <1>2, PlainAppend DEF WithCall

\* A step that resets no other thread, and marks none of those being reset.
LEMMA KeepsUnmarked ==
  ASSUME NEW C, NEW F, Unmarked(C, F), NEW D, NEW G,
         \A u \in Threads : Resets(D, u) => G[u] = <<>> \/ (Resets(C, u) /\ (Plain(F[u]) => Plain(G[u])))
  PROVE  Unmarked(D, G)
  <1>1. Plain(<<>>)
    BY DEF Plain
  <1> QED BY <1>1 DEF Unmarked

\* The running thread has new frames s, and then throws.
LEMMA ThrowUnmarked ==
  ASSUME NEW t, NEW s \in Seq(Frame), NEW C, NEW x,
         ci \in FrameMap, Unmarked(cs, ci), Throw(t, s, C, x),
         Mid(C, [ci EXCEPT ![t] = s], status, cc, nny, t),
         \A u : Resets(C, u) => Resets(cs, u),
         Resets(cs, t) => Plain(s)
  PROVE  Unmarked(cs', ci')
  <1> DEFINE F == [ci EXCEPT ![t] = s]
             h == Handler(t, C)
             a == C[h]
             D == SubSeq(C, 1, h - 1)
             from == Last(D).th
  <1>1. C \in Seq(Activation) /\ t \in Threads /\ F[t] = s
    BY RunningFacts DEF FrameMap
  <1>2. Under(C, F, t, a, D)
    BY ThrowUnder
  <1>3. /\ D \in Seq(Activation) /\ a \in Activation /\ a.op = "raw" /\ a.th = t /\ a.depth \in 0..Len(s)
        /\ Entering(a) => /\ D # <<>> /\ from # t /\ from \in Threads
                          /\ Caller(Last(D), a, F[from]) /\ Last(D).depth \in 0..Len(F[from])
        /\ Coroutined(a.job) => Entering(a)
    BY <1>1, <1>2 DEF Under
  <1>4. h - 1 \in 0..Len(C)
    <2>1. Shape(C) /\ C # <<>> /\ t = Last(C).th
      BY DEF Mid, Good
    <2>2. h \in 1..Len(C)
      BY <1>1, <2>1, HandlerFound
    <2> QED BY <1>1, <2>2
  <1>5. \A u : Resets(D, u) => Resets(cs, u)
    <2> HIDE DEF h
    <2> QED BY <1>1, <1>4, ResetsPrefix
  <1>t. /\ \/ /\ a.job \in {"pcall", "close"}
              /\ ci' = [ci EXCEPT ![t] = SubSeq(s, 1, a.depth)]
              /\ CloseProtected(t, a.depth, IF a.depth = 0 THEN 1 ELSE s[a.depth].base + 1, D, a.cc, a.nny)
           \/ Coroutined(a.job) /\ ci' = [ci EXCEPT ![t] = s, ![from] = ReturnC(@)] /\ cs' = D
           \/ /\ Coroutined(a.job) /\ FindPcall(s) # 0
              /\ ci' = [ci EXCEPT ![t] = [SubSeq(s, 1, FindPcall(s)) EXCEPT ![FindPcall(s)].recst = TRUE]]
              /\ cs' = Append(D, Raw(t, "unroll", 0, a.cc, a.nny))
           \/ /\ Coroutined(a.job) /\ ci' = [ci EXCEPT ![from] = ci[from], ![t] = <<>>]
              /\ CloseProtected(t, 0, 1, D, cc[from], 0)
    BY Zenon DEF Throw, CloseThread
  <1>d. ci \in FrameMap
    OBVIOUS
  <1> HIDE DEF F, h, a, D, from
  <1>6. CASE /\ a.job \in {"pcall", "close"}
             /\ ci' = [ci EXCEPT ![t] = SubSeq(s, 1, a.depth)]
             /\ CloseProtected(t, a.depth, IF a.depth = 0 THEN 1 ELSE s[a.depth].base + 1, D, a.cc, a.nny)
    <2> DEFINE b == Raw(t, "close", a.depth, a.cc, a.nny)
               lvl == IF a.depth = 0 THEN 1 ELSE s[a.depth].base + 1
               e == FClose(t, a.depth, lvl, FALSE)
    <2>1. cs' = Append(Append(D, b), e)
      BY <1>6 DEF CloseProtected
    <2>2. b \in Activation /\ b.th = t /\ b.depth = a.depth
      <3>1. a.depth \in Nat /\ a.cc \in Nat /\ a.nny \in Nat
        BY <1>3, ActivationFields
      <3> QED BY <1>1, <3>1 DEF Raw, Activation
    <2>3. e \in Activation /\ e.op = "close"
      <3>1. a.depth \in Nat
        BY <1>3, ActivationFields
      <3>2. lvl \in Nat \ {0}
        <4>1. CASE a.depth = 0
          BY <4>1
        <4>2. CASE a.depth # 0
          <5>1. s[a.depth] \in Frame
            BY <4>2, <1>3
          <5>2. s[a.depth].base \in Nat
            BY <5>1, FrameFields
          <5> QED BY <4>2, <5>2
        <4> QED BY <4>1, <4>2
      <3> HIDE DEF lvl
      <3> QED BY <1>1, <3>1, <3>2 DEF FClose, Activation
    <2> HIDE DEF b, e
    <2>4. ASSUME NEW u \in Threads, Resets(cs', u)
          PROVE  ci'[u] = <<>> \/ (Resets(cs, u) /\ (Plain(ci[u]) => Plain(ci'[u])))
      <3>1. Append(D, b) \in Seq(Activation)
        BY <1>3, <2>2
      <3>2. Resets(Append(D, b), u)
        BY <2>1, <2>3, <2>4, <3>1, ResetsAppend
      <3>3. Resets(D, u) \/ (a.depth = 0 /\ u = t)
        BY <1>3, <2>2, <3>2, ResetsAppend
      <3>4. CASE u = t /\ a.depth = 0
        <4>1. SubSeq(s, 1, 0) = <<>>
          OBVIOUS
        <4> QED BY <1>6, <1>1, <1>d, <3>4, <4>1 DEF FrameMap
      <3>5. CASE u = t /\ Resets(D, u)
        <4>1. Resets(cs, u) /\ Plain(s)
          BY <1>5, <3>5
        <4>2. Trimmed(SubSeq(s, 1, a.depth), s, a.depth)
          BY <1>3, TrimmedPrefix
        <4>3. Plain(SubSeq(s, 1, a.depth))
          BY <4>1, <4>2, PlainTrimmed
        <4> QED BY <1>6, <1>1, <1>d, <3>5, <4>1, <4>3 DEF FrameMap
      <3>6. CASE u # t
        BY <1>6, <1>5, <1>d, <3>3, <3>6 DEF FrameMap
      <3> QED BY <3>3, <3>4, <3>5, <3>6
    <2> QED BY <2>4, KeepsUnmarked
  <1>f. Coroutined(a.job) => /\ from # t /\ from \in Threads /\ ci[from] \in Seq(Frame) /\ ci[from] # <<>>
    <2> SUFFICES ASSUME Coroutined(a.job)
                 PROVE  from # t /\ from \in Threads /\ ci[from] \in Seq(Frame) /\ ci[from] # <<>>
      OBVIOUS
    <2>1. from # t /\ from \in Threads /\ Entering(a) /\ Caller(Last(D), a, F[from]) /\ Last(D).depth \in 0..Len(F[from])
      BY <1>3
    <2>2. F[from] = ci[from] /\ ci[from] \in Seq(Frame)
      BY <2>1, <1>d DEF F, FrameMap
    <2>3. Len(ci[from]) > Last(D).depth
      BY <2>1, <2>2 DEF Caller
    <2>4. ci[from] # <<>>
      <3>1. Len(ci[from]) \in Nat
        BY <2>2
      <3>2. Len(ci[from]) > 0
        BY <3>1, <2>1, <2>2, <2>3
      <3> QED BY <3>2
    <2> QED BY <2>1, <2>2, <2>4
  <1>7. CASE Coroutined(a.job) /\ ci' = [ci EXCEPT ![t] = s, ![from] = ReturnC(@)] /\ cs' = D
    <2>1. Plain(ci[from]) => Plain(ReturnC(ci[from]))
      <3>1. Trimmed(ReturnC(ci[from]), ci[from], Len(ci[from]) - 1)
        BY <1>7, <1>f, ReturnCTrims
      <3> QED BY <1>7, <1>f, <3>1, PlainTrimmed
    <2>2. ci'[t] = s /\ ci'[from] = ReturnC(ci[from]) /\ \A u \in Threads : u # t /\ u # from => ci'[u] = ci[u]
      BY <1>7, <1>f, <1>1, <1>d DEF FrameMap
    <2>3. ASSUME NEW u \in Threads, Resets(cs', u)
          PROVE  ci'[u] = <<>> \/ (Resets(cs, u) /\ (Plain(ci[u]) => Plain(ci'[u])))
      <3>1. Resets(cs, u)
        BY <1>7, <1>5, <2>3
      <3> QED BY <2>1, <2>2, <3>1
    <2> QED BY <2>3, KeepsUnmarked
  <1>8. CASE /\ Coroutined(a.job) /\ FindPcall(s) # 0
             /\ ci' = [ci EXCEPT ![t] = [SubSeq(s, 1, FindPcall(s)) EXCEPT ![FindPcall(s)].recst = TRUE]]
             /\ cs' = Append(D, Raw(t, "unroll", 0, a.cc, a.nny))
    <2> DEFINE b == Raw(t, "unroll", 0, a.cc, a.nny)
    <2>1. b \in Activation /\ b.op = "raw" /\ b.job # "close"
      <3>1. a.cc \in Nat /\ a.nny \in Nat
        BY <1>3, ActivationFields
      <3> QED BY <1>1, <3>1 DEF Raw, Activation
    <2> HIDE DEF b
    <2>2. ASSUME NEW u \in Threads, Resets(cs', u) PROVE Resets(cs, u)
      <3>1. Resets(D, u)
        BY <1>3, <1>8, <2>1, <2>2, ResetsAppend DEF b
      <3> QED BY <1>5, <3>1
    <2>3. Resets(D, t) => FALSE
      <3>1. Under(C, F, t, a, D) /\ Entering(a)
        BY <1>2, <1>3, <1>8
      <3>2. ~InC(D, t)
        BY <3>1 DEF Under
      <3> QED BY <3>2 DEF Resets, InC
    <2>4. ~Resets(cs', t)
      BY <1>3, <1>8, <2>1, <2>3, ResetsAppend DEF b
    <2>5. ASSUME NEW u \in Threads, Resets(cs', u)
          PROVE  ci'[u] = <<>> \/ (Resets(cs, u) /\ (Plain(ci[u]) => Plain(ci'[u])))
      <3>1. u # t /\ Resets(cs, u)
        BY <2>2, <2>4, <2>5
      <3>2. ci'[u] = ci[u]
        BY <1>8, <1>d, <3>1 DEF FrameMap
      <3> QED BY <3>1, <3>2
    <2> QED BY <2>5, KeepsUnmarked
  <1>9. CASE /\ Coroutined(a.job) /\ ci' = [ci EXCEPT ![from] = ci[from], ![t] = <<>>]
             /\ CloseProtected(t, 0, 1, D, cc[from], 0)
    <2> DEFINE b == Raw(t, "close", 0, cc[from], 0)
               e == FClose(t, 0, 1, FALSE)
    <2>1. cs' = Append(Append(D, b), e)
      BY <1>9 DEF CloseProtected
    <2>2. b \in Activation /\ b.th = t
      <3>1. cc[from] \in Nat
        BY <1>9, <1>f DEF Mid, Counters
      <3> QED BY <1>1, <3>1 DEF Raw, Activation
    <2>3. e \in Activation /\ e.op = "close"
      BY <1>1 DEF FClose, Activation
    <2> HIDE DEF b, e
    <2>4. ASSUME NEW u \in Threads, Resets(cs', u)
          PROVE  ci'[u] = <<>> \/ (Resets(cs, u) /\ (Plain(ci[u]) => Plain(ci'[u])))
      <3>1. Append(D, b) \in Seq(Activation)
        BY <1>3, <2>2
      <3>2. Resets(Append(D, b), u)
        BY <2>1, <2>3, <2>4, <3>1, ResetsAppend
      <3>3. Resets(D, u) \/ u = t
        BY <1>3, <2>2, <3>2, ResetsAppend
      <3>4. CASE u = t
        BY <1>9, <1>1, <1>d, <3>4 DEF FrameMap
      <3>5. CASE u # t
        BY <1>9, <1>5, <1>d, <1>f, <3>3, <3>5 DEF FrameMap
      <3> QED BY <3>4, <3>5
    <2> QED BY <2>4, KeepsUnmarked
  <1> QED BY <1>t, <1>6, <1>7, <1>8, <1>9

\* Frames that go on, or the last of which is taken away, stay plain.
LEMMA PlainParts ==
  ASSUME NEW s \in Seq(Frame), Plain(s)
  PROVE  /\ Plain(Rerun(s)) /\ Plain(Front(s)) /\ Plain(ReturnC(s)) /\ Front(s) \in Seq(Frame)
         /\ \A x : Plain([s EXCEPT ![Len(s)].pc = x]) /\ Plain([s EXCEPT ![Len(s)].clsret = x])
  <1>1. ASSUME NEW r \in Seq(Frame), Plain(r), NEW x
        PROVE  Plain([r EXCEPT ![Len(r)].pc = x]) /\ Plain([r EXCEPT ![Len(r)].clsret = x])
    <2>1. ASSUME NEW k \in DOMAIN r
          PROVE  /\ [r EXCEPT ![Len(r)].pc = x][k].ypcall = r[k].ypcall
                 /\ [r EXCEPT ![Len(r)].clsret = x][k].ypcall = r[k].ypcall
      <3>1. r[k] \in Frame
        BY <2>1
      <3>2. [r[k] EXCEPT !.pc = x].ypcall = r[k].ypcall /\ [r[k] EXCEPT !.clsret = x].ypcall = r[k].ypcall
        BY <3>1 DEF Frame
      <3>3. /\ [r EXCEPT ![Len(r)].pc = x][k] = IF k = Len(r) THEN [r[k] EXCEPT !.pc = x] ELSE r[k]
            /\ [r EXCEPT ![Len(r)].clsret = x][k] = IF k = Len(r) THEN [r[k] EXCEPT !.clsret = x] ELSE r[k]
        BY <2>1
      <3> QED BY <3>2, <3>3
    <2>2. DOMAIN [r EXCEPT ![Len(r)].pc = x] = DOMAIN r /\ DOMAIN [r EXCEPT ![Len(r)].clsret = x] = DOMAIN r
      OBVIOUS
    <2> QED BY <1>1, <2>1, <2>2 DEF Plain
  <1>2. ASSUME NEW r \in Seq(Frame), Plain(r) PROVE Plain(Rerun(r))
    BY <1>1, <1>2 DEF Rerun
  <1>3. Plain(Front(s)) /\ Front(s) \in Seq(Frame)
    <2>1. CASE s # <<>>
      <3>1. /\ DOMAIN Front(s) = 1..(Len(s) - 1) /\ Len(s) \in Nat \ {0} /\ DOMAIN s = 1..Len(s)
            /\ Front(s) \in Seq(Frame)
            /\ \A i \in 1..(Len(s) - 1) : Front(s)[i] = s[i]
        BY <2>1, Shortened
      <3>2. \A i \in 1..(Len(s) - 1) : i \in 1..Len(s)
        BY <3>1
      <3> QED BY <3>1, <3>2 DEF Plain
    <2>2. CASE s = <<>>
      <3>1. Front(s) = <<>>
        BY <2>2 DEF Front
      <3> QED BY <2>2, <3>1
    <2> QED BY <2>1, <2>2
  <1> QED BY <1>1, <1>2, <1>3 DEF ReturnC

\* What is left of a C stack without its last activation.
LEMMA ResetsFront ==
  ASSUME NEW C \in Seq(Activation)
  PROVE  Front(C) \in Seq(Activation) /\ \A u : Resets(Front(C), u) => Resets(C, u)
  <1>1. CASE C # <<>>
    <2>1. Front(C) = SubSeq(C, 1, Len(C) - 1) /\ Len(C) - 1 \in 0..Len(C) /\ Front(C) \in Seq(Activation)
      BY <1>1, Shortened
    <2> QED BY <2>1, ResetsPrefix
  <1>2. CASE C = <<>>
    <2>1. Front(C) = <<>>
      BY <1>2 DEF Front
    <2> QED BY <1>2, <2>1
  <1> QED BY <1>1, <1>2

\* Only the frames of t change, and no thread is reset.
LEMMA ChangeUnmarked ==
  ASSUME ci \in FrameMap, Unmarked(cs, ci), NEW t, NEW r, ci' = [ci EXCEPT ![t] = r],
         t \in Threads => (Plain(ci[t]) => Plain(r)), \A u : Resets(cs', u) => Resets(cs, u)
  PROVE  Unmarked(cs', ci')
  <1>1. ASSUME NEW u \in Threads, Resets(cs', u)
        PROVE  ci'[u] = <<>> \/ (Resets(cs, u) /\ (Plain(ci[u]) => Plain(ci'[u])))
    <2>1. ci'[u] = IF u = t THEN r ELSE ci[u]
      BY DEF FrameMap
    <2> QED BY <1>1, <2>1
  <1> QED BY <1>1, KeepsUnmarked

\* A close of the variables of a running function is pushed.
LEMMA CloseResets ==
  ASSUME cs \in Seq(Activation), NEW t \in Threads, NEW d \in Nat, NEW lvl \in Nat \ {0},
         cs' = Append(cs, FClose(t, d, lvl, TRUE))
  PROVE  \A u : Resets(cs', u) => Resets(cs, u)
  <1>1. FClose(t, d, lvl, TRUE) \in Activation /\ FClose(t, d, lvl, TRUE).op = "close"
    BY DEF FClose, Activation
  <1> QED BY <1>1, ResetsAppend

\* ccall adds a frame that is not a mark, or throws.
LEMMA EnterUnmarked ==
  ASSUME NEW t, NEW s, NEW C,
         ci \in FrameMap, Unmarked(cs, ci), NEW b \in Nat \ {0}, NEW inc \in {0, 1},
         Mid(C, [ci EXCEPT ![t] = s], status, cc, nny, t), Enter(t, s, C, b, inc),
         \A u : Resets(C, u) => Resets(cs, u),
         Resets(cs, t) => Plain(s)
  PROVE  Unmarked(cs', ci')
  <1> DEFINE F == [ci EXCEPT ![t] = s]
  <1>1. C \in Seq(Activation) /\ t \in Threads /\ F[t] = s /\ s \in Seq(Frame)
    <2>1. C \in Seq(Activation) /\ t \in Threads /\ F[t] \in Seq(Frame)
      BY RunningFacts
    <2> QED BY <2>1 DEF FrameMap
  <1>2. CASE CStackError(cc[t] + 1)
    <2>1. Throw(t, s, C, "err")
      BY <1>2 DEF Enter
    <2> QED BY <1>1, <2>1, ThrowUnmarked
  <1>3. CASE ~CStackError(cc[t] + 1)
    <2> DEFINE f == VmkFrame(b, TRUE)
               a == CCall(t, Len(s) + 1, inc)
    <2>1. ci' = [ci EXCEPT ![t] = Append(s, f)] /\ cs' = Append(C, a)
      BY <1>3 DEF Enter
    <2>2. f \in Frame /\ ~f.ypcall
      BY DEF VmkFrame, Frame
    <2>3. a \in Activation /\ a.op = "call"
      <3>1. Len(s) + 1 \in Nat
        BY <1>1
      <3> QED BY <1>1, <3>1 DEF CCall, Activation
    <2> HIDE DEF f, a
    <2>4. ASSUME NEW u \in Threads, Resets(cs', u)
          PROVE  ci'[u] = <<>> \/ (Resets(cs, u) /\ (Plain(ci[u]) => Plain(ci'[u])))
      <3>1. Resets(cs, u)
        BY <1>1, <2>1, <2>3, <2>4, ResetsAppend
      <3>2. CASE u = t
        <4>1. Plain(Append(s, f))
          BY <1>1, <2>2, <3>1, <3>2, PlainAppend
        <4> QED BY <2>1, <3>1, <3>2, <4>1, <1>1 DEF FrameMap
      <3>3. CASE u # t
        BY <2>1, <3>1, <3>3, <1>1 DEF FrameMap
      <3> QED BY <3>2, <3>3
    <2> QED BY <2>4, KeepsUnmarked
  <1> QED BY <1>2, <1>3

\* A function that returns takes its frame, and maybe its activation.
LEMMA FinishUnmarked ==
  ASSUME NEW t \in Threads, NEW C \in Seq(Activation),
         ci \in FrameMap, Unmarked(cs, ci), Finish(t, ci[t], C),
         \A u : Resets(C, u) => Resets(cs, u)
  PROVE  Unmarked(cs', ci')
  <1> DEFINE r == Front(ci[t])
             below == Front(C)
  <1>1. ci[t] \in Seq(Frame)
    BY DEF FrameMap
  <1>2. below \in Seq(Activation) /\ \A u : Resets(below, u) => Resets(cs, u)
    BY ResetsFront
  <1>3. \A u : Resets(Front(below), u) => Resets(cs, u)
    <2> HIDE DEF below
    <2> QED BY <1>2, ResetsFront
  <1>4. cs' \in {C, below, Front(below)}
    BY DEF Finish
  <1>5. \A u : Resets(cs', u) => Resets(cs, u)
    BY <1>2, <1>3, <1>4
  <1>6. \/ ci' = [ci EXCEPT ![t] = Rerun(r)] \/ ci' = [ci EXCEPT ![t] = r]
        \/ ci' = [ci EXCEPT ![t] = [r EXCEPT ![Len(r)].pc = "returning"]]
        \/ ci' = [ci EXCEPT ![t] = ReturnC(r)]
    BY Zenon DEF Finish
  <1>7. Plain(ci[t]) => Plain(r) /\ r \in Seq(Frame)
    BY <1>1, PlainParts
  <1> HIDE DEF r, below
  <1>8. Plain(ci[t]) => /\ Plain(Rerun(r)) /\ Plain([r EXCEPT ![Len(r)].pc = "returning"])
                        /\ Plain(ReturnC(r))
    BY <1>7, PlainParts
  <1> QED BY ONLY ci \in FrameMap, Unmarked(cs, ci), <1>5, <1>6, <1>7, <1>8, ChangeUnmarked

\* A running function that switches threads, or calls, keeps its frames plain.
LEMMA PlainWithC ==
  ASSUME Core, NEW t, Interp(t),
         NEW f \in {"pcall", "call", "resume", "wrap", "close", "yield"}
  PROVE  /\ t \in Threads /\ ci \in FrameMap /\ cs \in Seq(Activation)
         /\ Mid(cs, [ci EXCEPT ![t] = WithC(t, f)], status, cc, nny, t)
         /\ WithC(t, f) \in Seq(Frame)
         /\ Plain(ci[t]) => Plain(WithC(t, f))
  <1> DEFINE g == CFrame(NextBase(t), f)
             s == WithC(t, f)
  <1>1. /\ cs # <<>> /\ t = Last(cs).th /\ Last(cs).op # "close" /\ t \in Threads
        /\ ci \in FrameMap /\ ci[t] # <<>> /\ Last(ci[t]).fn = "vmk" /\ ci[t] \in Seq(Frame)
        /\ NextBase(t) \in Nat \ {0} /\ s = WithCall(ci[t], g)
    BY InterpFacts
  <1>2. Sound(cs, ci, status, cc, nny) /\ cs \in Seq(Activation)
    BY DEF Core, TypeOK
  <1>3. g \in Frame /\ PcOf(g) /\ ~g.fresh /\ ~g.ypcall
    BY <1>1, CFrameFacts
  <1> HIDE DEF g, s
  <1>4. Mid(cs, [ci EXCEPT ![t] = s], status, cc, nny, t) /\ s \in Seq(Frame)
    <2>1. g.ypcall => g.fn = "pcall" /\ \A k \in DOMAIN ci[t] : ~Blocking(ci[t][k])
      BY <1>3
    <2> QED BY ONLY <1>1, <1>2, <1>3, <2>1, MidCalls
  <1>5. Plain(ci[t]) => Plain(s)
    BY <1>1, <1>3, PlainCall
  <1> QED BY <1>1, <1>2, <1>4, <1>5 DEF s

\* A thread that is reset is not the one that can yield.
LEMMA ResetsProtects ==
  ASSUME Core, NEW t, Interp(t), Yieldable(t)
  PROVE  ~Resets(cs, t)
  <1>1. /\ cs # <<>> /\ t = Last(cs).th /\ Last(cs).op # "close" /\ nny[t] = 0
        /\ Sound(cs, ci, status, cc, nny)
    BY InterpFacts DEF Yieldable, Core
  <1>2. \A j \in 1..Len(cs) : cs[j].th = t => ~Protected(cs[j])
    BY ONLY <1>1, YieldableFree
  <1>3. DOMAIN cs = 1..Len(cs)
    BY DEF Core, TypeOK
  <1> QED BY <1>2, <1>3 DEF Resets, Protected

\* The chunk of the host.
LEMMA StartChunkUnmarked ==
  ASSUME Core, StartChunk
  PROVE  Unmarked(cs', ci')
  <1> DEFINE a == Raw(Main, "pcall", 1, cc[Main], nny[Main])
             b == CCall(Main, 2, 1)
  <1>1. cs' = <<a, b>>
    BY DEF StartChunk
  <1>2. a.job # "close" /\ b.op # "raw"
    BY DEF Raw, CCall
  <1> HIDE DEF a, b
  <1>3. \A i \in DOMAIN cs' : cs'[i] = a \/ cs'[i] = b
    BY <1>1
  <1> QED BY <1>2, <1>3 DEF Unmarked, Resets

\* A pcall is a mark only of a thread that can yield.
LEMMA PCallUnmarked ==
  ASSUME Core, Unmarked(cs, ci), NEW t, PCall(t)
  PROVE  Unmarked(cs', ci')
  <1> DEFINE g == CFrame(NextBase(t), "pcall")
             s == WithC(t, "pcall")
             b == NextBase(t) + 1
  <1>1. /\ cs # <<>> /\ t = Last(cs).th /\ Last(cs).op # "close" /\ t \in Threads
        /\ ci \in FrameMap /\ ci[t] # <<>> /\ Last(ci[t]).fn = "vmk" /\ ci[t] \in Seq(Frame)
        /\ Runner(Last(cs)) /\ NextBase(t) \in Nat \ {0} /\ Interp(t)
    BY InterpFacts DEF PCall
  <1>2. Sound(cs, ci, status, cc, nny)
    BY DEF Core
  <1>3. g \in Frame /\ PcOf(g) /\ ~g.fresh /\ ~g.ypcall /\ g.fn = "pcall" /\ b \in Nat \ {0}
    BY <1>1, CFrameFacts
  <1>4. IF Yieldable(t) THEN Enter(t, [s EXCEPT ![Len(s)].ypcall = TRUE], cs, b, 0)
        ELSE Enter(t, s, Append(cs, Raw(t, "pcall", Len(s), cc[t], nny[t])), b, 1)
    BY DEF PCall
  <1>5. s = WithCall(ci[t], g)
    BY <1>1, InterpFacts
  <1>p. Plain(ci[t]) => Plain(s)
    BY <1>1, PlainWithC
  <1>u. Resets(cs, t) => Plain(ci[t])
    BY <1>1 DEF Unmarked
  <1> HIDE DEF g, s, b
  <1>6. CASE Yieldable(t)
    <2> DEFINE f == [g EXCEPT !.ypcall = TRUE]
               r == [s EXCEPT ![Len(s)].ypcall = TRUE]
    <2>1. f \in Frame /\ PcOf(f) /\ ~f.fresh /\ f.fn = "pcall"
      BY <1>3 DEF Frame, PcOf
    <2>2. \A k \in DOMAIN ci[t] : ~Blocking(ci[t][k])
      <3>1. nny[t] = 0
        BY <1>6 DEF Yieldable
      <3> QED BY ONLY <3>1, <1>1, <1>2, YieldableFree
    <2>3. r = WithCall(ci[t], f)
      <3>2. Waits(ci[t]) \in Seq(Frame)
        BY <1>1, LastAt DEF Waits, Trimmed
      <3>3. s = Append(Waits(ci[t]), g)
        BY <1>5 DEF WithCall
      <3>4. r = Append(Waits(ci[t]), f)
        <4>1. f \in Frame /\ g \in Frame /\ s = Append(Waits(ci[t]), g) /\ Waits(ci[t]) \in Seq(Frame)
          BY <1>3, <2>1, <3>2, <3>3
        <4> QED BY ONLY <4>1, LastMarked DEF f, r
      <3> QED BY <3>4 DEF WithCall
    <2>4. Enter(t, r, cs, b, 0)
      BY <1>4, <1>6
    <2> HIDE DEF f, r
    <2>5. Mid(cs, [ci EXCEPT ![t] = r], status, cc, nny, t)
      <3>1. f.ypcall => f.fn = "pcall" /\ \A k \in DOMAIN ci[t] : ~Blocking(ci[t][k])
        BY <2>1, <2>2
      <3> QED BY ONLY <1>1, <1>2, <2>1, <3>1, <2>3, MidCalls
    <2>6. ~Resets(cs, t)
      BY <1>1, <1>6, ResetsProtects
    <2>7. 0 \in {0, 1}
      OBVIOUS
    <2> QED BY ONLY <1>1, Unmarked(cs, ci), <1>3, <2>4, <2>5, <2>6, <2>7, EnterUnmarked
  <1>7. CASE ~Yieldable(t)
    <2> DEFINE G == [ci EXCEPT ![t] = s]
               a == Raw(t, "pcall", Len(s), cc[t], nny[t])
               D == Append(cs, a)
    <2>1. /\ Mid(cs, G, status, cc, nny, t) /\ Last(s) = g /\ s # <<>> /\ Len(s) > Last(cs).depth
          /\ s \in Seq(Frame)
      <3>1. g.ypcall => g.fn = "pcall" /\ \A k \in DOMAIN ci[t] : ~Blocking(ci[t][k])
        BY <1>3
      <3> QED BY ONLY <1>1, <1>2, <1>3, <3>1, <1>5, MidCalls
    <2>2. G[t] = s
      BY <1>1 DEF FrameMap
    <2>3. Mid(D, G, status, cc, nny, t)
      <3>1. D = Append(cs, Raw(t, "pcall", Len(G[t]), cc[t], nny[t]))
        BY <2>2
      <3>2. /\ Runner(Last(cs)) /\ Len(G[t]) > Last(cs).depth
            /\ G[t] # <<>> /\ Last(G[t]).fn = "pcall" /\ ~Last(G[t]).ypcall
        BY <1>1, <1>3, <2>1, <2>2
      <3> HIDE DEF D, G
      <3> QED BY ONLY <2>1, <3>1, <3>2, MidPcall
    <2>4. \A u : Resets(D, u) => Resets(cs, u)
      <3>1. cs \in Seq(Activation) /\ Len(s) \in Nat /\ cc[t] \in Nat /\ nny[t] \in Nat
        BY <1>1, <2>1 DEF Core, TypeOK
      <3>2. a \in Activation /\ a.job # "close"
        BY <3>1, <1>1 DEF Raw, Activation
      <3> HIDE DEF a
      <3> QED BY <3>1, <3>2, ResetsAppend
    <2>5. Enter(t, s, D, b, 1) /\ 1 \in {0, 1}
      BY <1>4, <1>7
    <2>6. Resets(cs, t) => Plain(s)
      BY <1>p, <1>u
    <2> HIDE DEF D
    <2> QED BY ONLY <1>1, Unmarked(cs, ci), <1>3, <2>3, <2>4, <2>5, <2>6, EnterUnmarked
  <1> QED BY <1>6, <1>7

\* The actions that call, return, or throw, of the running function.
LEMMA InterpUnmarked ==
  ASSUME Core, Unmarked(cs, ci), NEW t, Interp(t),
         \/ CallVmk(t) \/ Error(t) \/ Yield(t) \/ CloseBlock(t) \/ Return(t)
         \/ \E v : NewTbc(t, v)
         \/ \E vs \in Seq(Vars) : CallC(t, vs)
  PROVE  Unmarked(cs', ci')
  <1>1. /\ t \in Threads /\ ci \in FrameMap /\ ci[t] \in Seq(Frame) /\ ci[t] # <<>> /\ cs \in Seq(Activation)
        /\ [ci EXCEPT ![t] = ci[t]] = ci /\ Mid(cs, ci, status, cc, nny, t) /\ NextBase(t) \in Nat \ {0}
        /\ Len(ci[t]) \in Nat
    BY InterpFacts DEF Core, TypeOK
  <1>2. Resets(cs, t) => Plain(ci[t])
    BY <1>1 DEF Unmarked
  <1>3. CASE CallVmk(t)
    <2> DEFINE f == VmkFrame(NextBase(t), FALSE)
               r == Append(Waiting(t), f)
    <2>1. f \in Frame /\ ~f.ypcall
      BY <1>1 DEF VmkFrame, Frame
    <2>2. r = WithCall(ci[t], f)
      BY DEF Waiting, WithCall, Waits
    <2>3. Plain(ci[t]) => Plain(r)
      <3> HIDE DEF f, r
      <3> QED BY <1>1, <2>1, <2>2, PlainCall
    <2>4. ci' = [ci EXCEPT ![t] = r] /\ cs' = cs
      BY <1>3 DEF CallVmk
    <2> HIDE DEF r
    <2> QED BY <1>1, <2>3, <2>4, ChangeUnmarked
  <1>4. CASE Error(t)
    <2>1. Throw(t, ci[t], cs, "err") /\ Mid(cs, [ci EXCEPT ![t] = ci[t]], status, cc, nny, t)
      BY <1>1, <1>4 DEF Error
    <2> QED BY <1>1, <1>2, <2>1, ThrowUnmarked
  <1>5. CASE Yield(t)
    <2> DEFINE s == WithC(t, "yield")
               x == IF Yieldable(t) THEN "yield" ELSE "err"
    <2>1. Throw(t, s, cs, x)
      BY <1>5 DEF Yield
    <2>2. /\ Mid(cs, [ci EXCEPT ![t] = s], status, cc, nny, t) /\ s \in Seq(Frame)
          /\ Plain(ci[t]) => Plain(s)
      BY PlainWithC
    <2> HIDE DEF s, x
    <2> QED BY <1>1, <1>2, <2>1, <2>2, ThrowUnmarked
  <1>6. ASSUME NEW x, ci' = [ci EXCEPT ![t][Len(ci[t])].pc = x],
               cs' = Append(cs, FClose(t, Len(ci[t]), Cur(t).base, TRUE))
        PROVE  Unmarked(cs', ci')
    <2>1. Cur(t).base \in Nat \ {0}
      BY <1>1, Shortened, FrameFields DEF Cur
    <2>2. \A u : Resets(cs', u) => Resets(cs, u)
      BY <1>1, <1>6, <2>1, CloseResets
    <2>3. Plain(ci[t]) => Plain([ci[t] EXCEPT ![Len(ci[t])].pc = x])
      BY <1>1, PlainParts
    <2>4. ci' = [ci EXCEPT ![t] = [ci[t] EXCEPT ![Len(ci[t])].pc = x]]
      BY <1>6
    <2> QED BY <1>1, <2>2, <2>3, <2>4, ChangeUnmarked
  <1>7. CASE CloseBlock(t)
    BY <1>6, <1>7 DEF CloseBlock
  <1>8. CASE Return(t)
    <2>1. CASE HasPending(t, Cur(t).base)
      BY <1>6, <1>8, <2>1 DEF Return
    <2>2. CASE ~HasPending(t, Cur(t).base)
      <3>1. Finish(t, ci[t], cs)
        BY <1>8, <2>2 DEF Return
      <3> QED BY <1>1, <3>1, FinishUnmarked
    <2> QED BY <2>1, <2>2
  <1>9. CASE \E v : NewTbc(t, v)
    BY <1>9 DEF NewTbc
  <1>10. CASE \E vs \in Seq(Vars) : CallC(t, vs)
    <2>1. PICK vs \in Seq(Vars) : CallC(t, vs)
      BY <1>10
    <2> DEFINE s == WithC(t, "call")
               b == NextBase(t) + Len(vs) + 1
    <2>2. Enter(t, s, cs, b, 1) /\ b \in Nat \ {0} /\ 1 \in {0, 1}
      BY <1>1, <2>1 DEF CallC
    <2>3. Mid(cs, [ci EXCEPT ![t] = s], status, cc, nny, t) /\ (Plain(ci[t]) => Plain(s))
      BY PlainWithC
    <2> HIDE DEF s, b
    <2> QED BY <1>1, <1>2, <2>2, <2>3, EnterUnmarked
  <1> QED BY <1>3, <1>4, <1>5, <1>7, <1>8, <1>9, <1>10

\* The running function closes co, which is reset with no frames.
LEMMA ClosesCoUnmarked ==
  ASSUME Core, Unmarked(cs, ci), NEW t, Interp(t), NEW f \in {"wrap", "close"}, NEW co \in Threads, co # t,
         CloseThread(co, t, WithC(t, f)), CloseProtected(co, 0, 1, cs, cc[t], 0)
  PROVE  Unmarked(cs', ci')
  <1> DEFINE r == WithC(t, f)
             b == Raw(co, "close", 0, cc[t], 0)
             e == FClose(co, 0, 1, FALSE)
  <1>1. ci' = [ci EXCEPT ![t] = r, ![co] = <<>>] /\ cs' = Append(Append(cs, b), e)
    BY DEF CloseThread, CloseProtected
  <1>2. t \in Threads /\ ci \in FrameMap /\ cs \in Seq(Activation) /\ (Plain(ci[t]) => Plain(r))
    BY PlainWithC
  <1>3. b \in Activation /\ b.th = co /\ e \in Activation /\ e.op = "close"
    <2>1. cc[t] \in Nat
      BY <1>2 DEF Core, TypeOK
    <2> QED BY <2>1 DEF Raw, FClose, Activation
  <1> HIDE DEF r, b, e
  <1>4. ASSUME NEW u \in Threads, Resets(cs', u)
        PROVE  ci'[u] = <<>> \/ (Resets(cs, u) /\ (Plain(ci[u]) => Plain(ci'[u])))
    <2>1. Append(cs, b) \in Seq(Activation)
      BY <1>2, <1>3
    <2>2. Resets(Append(cs, b), u)
      BY <1>1, <1>3, <1>4, <2>1, ResetsAppend
    <2>3. Resets(cs, u) \/ u = co
      BY <1>2, <1>3, <2>2, ResetsAppend
    <2>4. ci'[u] = IF u = co THEN <<>> ELSE IF u = t THEN r ELSE ci[u]
      BY <1>1, <1>2 DEF FrameMap
    <2> QED BY <1>2, <2>3, <2>4
  <1> QED BY <1>4, KeepsUnmarked

\* The actions that switch threads, of the running function.
LEMMA SwitchUnmarked ==
  ASSUME Core, Unmarked(cs, ci), NEW t, NEW co \in Threads,
         WrapRefused(t, co) \/ CloseCo(t, co) \/ \E f \in {"resume", "wrap"} : Resume(t, co, f)
  PROVE  Unmarked(cs', ci')
  <1>1. Interp(t)
    BY DEF WrapRefused, CloseCo, Resume
  <1>2. /\ t \in Threads /\ ci \in FrameMap /\ ci[t] \in Seq(Frame) /\ cs \in Seq(Activation)
        /\ [ci EXCEPT ![t] = ci[t]] = ci /\ Mid(cs, ci, status, cc, nny, t) /\ ci[t] # <<>>
        /\ status[t] = "ok"
    BY <1>1, InterpFacts, RunningFacts DEF Core, TypeOK
  <1>3. CASE CloseCo(t, co)
    <2>1. CloseThread(co, t, WithC(t, "close")) /\ CloseProtected(co, 0, 1, cs, cc[t], 0) /\ co # t
      BY <1>3 DEF CloseCo
    <2> QED BY <1>1, <2>1, ClosesCoUnmarked
  <1>4. CASE WrapRefused(t, co) /\ status[co] = "err"
    <2>1. CloseThread(co, t, WithC(t, "wrap")) /\ CloseProtected(co, 0, 1, cs, cc[t], 0) /\ co # t
      BY <1>2, <1>4 DEF WrapRefused
    <2> QED BY <1>1, <2>1, ClosesCoUnmarked
  <1>5. CASE WrapRefused(t, co) /\ status[co] # "err"
    <2>1. Throw(t, ci[t], cs, "err") /\ Mid(cs, [ci EXCEPT ![t] = ci[t]], status, cc, nny, t)
      BY <1>2, <1>5 DEF WrapRefused
    <2>2. Resets(cs, t) => Plain(ci[t])
      BY <1>2 DEF Unmarked
    <2> QED BY <1>2, <2>1, <2>2, ThrowUnmarked
  <1>6. CASE \E f \in {"resume", "wrap"} : Resume(t, co, f)
    <2>1. PICK f \in {"resume", "wrap"} : Resume(t, co, f)
      BY <1>6
    <2> DEFINE r == WithC(t, f)
               q == IF status[co] = "yield" THEN ReturnC(ci[co]) ELSE ci[co]
               a == Raw(co, "resume", 0, ResumeCount(t), 0)
    <2>2. co # t
      <3>1. ~NotResumable(co)
        BY <2>1 DEF Resume
      <3> QED BY <3>1, <1>2 DEF NotResumable, Base
    <2>3. ci' = [ci EXCEPT ![t] = r, ![co] = q] /\ cs' = Append(cs, a)
      BY <2>1, <2>2, <1>2 DEF Resume, FrameMap
    <2>4. a \in Activation /\ a.job # "close"
      <3>1. ResumeCount(t) \in Nat
        BY <1>2 DEF Core, TypeOK, ResumeCount
      <3> QED BY <3>1 DEF Raw, Activation
    <2>5. Plain(ci[t]) => Plain(r)
      BY <1>1, <2>1, PlainWithC
    <2>6. Plain(ci[co]) => Plain(q)
      <3>1. ci[co] \in Seq(Frame)
        BY <1>2 DEF FrameMap
      <3> QED BY <3>1, PlainParts
    <2> HIDE DEF r, q, a
    <2>7. ASSUME NEW u \in Threads, Resets(cs', u)
          PROVE  ci'[u] = <<>> \/ (Resets(cs, u) /\ (Plain(ci[u]) => Plain(ci'[u])))
      <3>1. Resets(cs, u)
        BY <1>2, <2>3, <2>4, <2>7, ResetsAppend
      <3>2. ci'[u] = IF u = co THEN q ELSE IF u = t THEN r ELSE ci[u]
        BY <1>2, <2>3 DEF FrameMap
      <3> QED BY <2>5, <2>6, <3>1, <3>2
    <2> QED BY <2>7, KeepsUnmarked
  <1> QED BY <1>3, <1>4, <1>5, <1>6

\* C code that goes on, with a function of the running thread or of the one under it.
LEMMA GoesOnUnmarked ==
  ASSUME Core, Unmarked(cs, ci), cs # <<>>, NEW t, t = Running,
         \/ Start(t) \/ Unroll(t) \/ ReturnFromC(t) \/ ResumeReturns(t) \/ CallClose(t) \/ Raise(t)
  PROVE  Unmarked(cs', ci')
  <1>1. /\ t \in Threads /\ ci \in FrameMap /\ ci[t] \in Seq(Frame) /\ cs \in Seq(Activation)
        /\ [ci EXCEPT ![t] = ci[t]] = ci /\ Mid(cs, ci, status, cc, nny, t) /\ Len(ci[t]) \in Nat
    <2>1. t = Last(cs).th /\ Sound(cs, ci, status, cc, nny)
      BY DEF Core, Running, Top
    <2>2. Mid(cs, ci, status, cc, nny, t)
      BY <2>1, SoundMid
    <2>3. t \in Threads /\ ci \in FrameMap /\ ci[t] \in Seq(Frame) /\ cs \in Seq(Activation) /\ Len(ci[t]) \in Nat
      BY <2>2, RunningFacts
    <2> QED BY <2>2, <2>3 DEF FrameMap
  <1>2. Resets(cs, t) => Plain(ci[t])
    BY <1>1 DEF Unmarked
  <1>3. Mid(cs, [ci EXCEPT ![t] = ci[t]], status, cc, nny, t)
    BY <1>1
  <1>b. ~Base(t) => Cur(t).base \in Nat \ {0} /\ Cur(t).base + 1 \in Nat \ {0}
    <2>1. ~Base(t) => Last(ci[t]) \in Frame
      BY <1>1, Shortened DEF Base
    <2>2. ~Base(t) => Cur(t).base \in Nat \ {0}
      BY <2>1, FrameFields DEF Cur
    <2> QED BY <2>2
  <1>4. CASE Raise(t)
    <2>1. Throw(t, ci[t], cs, "err")
      BY <1>4 DEF Raise
    <2> QED BY <1>1, <1>2, <1>3, <2>1, ThrowUnmarked
  <1>5. CASE Start(t)
    <2>1. ci[t] = <<>>
      BY <1>5 DEF Start, Base
    <2>2. CASE CStackError(cc[t])
      <3>1. Throw(t, ci[t], cs, "err")
        BY <1>5, <2>1, <2>2 DEF Start
      <3> QED BY <1>1, <1>2, <1>3, <3>1, ThrowUnmarked
    <2>3. CASE ~CStackError(cc[t])
      <3>1. ci' = [ci EXCEPT ![t] = <<VmkFrame(1, TRUE)>>] /\ cs' = cs
        BY <1>5, <2>3 DEF Start
      <3>2. Plain(<<VmkFrame(1, TRUE)>>)
        BY DEF VmkFrame, Plain
      <3> QED BY <1>1, <3>1, <3>2, ChangeUnmarked
    <2> QED BY <2>2, <2>3
  <1>6. CASE Unroll(t)
    <2>1. ~Base(t) /\ \/ ci' = [ci EXCEPT ![t] = Rerun(@)] /\ cs' = cs
                      \/ cs' = Append(cs, FClose(t, Len(ci[t]), Cur(t).base, TRUE)) /\ ci' = ci
                      \/ ci' = [ci EXCEPT ![t] = ReturnC(@)] /\ cs' = cs
                      \/ cs' = Append(cs, FClose(t, Len(ci[t]), Cur(t).base + 1, TRUE)) /\ ci' = ci
      BY <1>6 DEF Unroll
    <2>2. Plain(ci[t]) => Plain(Rerun(ci[t])) /\ Plain(ReturnC(ci[t]))
      BY <1>1, PlainParts
    <2>3. CASE ci' = [ci EXCEPT ![t] = Rerun(ci[t])] /\ cs' = cs
      BY <1>1, <2>2, <2>3, ChangeUnmarked
    <2>4. CASE ci' = [ci EXCEPT ![t] = ReturnC(ci[t])] /\ cs' = cs
      BY <1>1, <2>2, <2>4, ChangeUnmarked
    <2>5. ASSUME NEW lvl \in Nat \ {0}, cs' = Append(cs, FClose(t, Len(ci[t]), lvl, TRUE)), ci' = ci
          PROVE  Unmarked(cs', ci')
      <3>1. \A u : Resets(cs', u) => Resets(cs, u)
        BY <1>1, <2>5, CloseResets
      <3>2. ci' = [ci EXCEPT ![t] = ci[t]]
        BY <1>1, <2>5
      <3> QED BY <1>1, <3>1, <3>2, ChangeUnmarked
    <2> QED BY <1>b, <2>1, <2>3, <2>4, <2>5
  <1>7. CASE ReturnFromC(t)
    <2>1. \/ /\ ci' = [ci EXCEPT ![t] = [ci[t] EXCEPT ![Len(ci[t])].clsret = TRUE]]
             /\ cs' = Append(cs, FClose(t, Len(ci[t]), Cur(t).base, TRUE))
          \/ ci' = [ci EXCEPT ![t] = ReturnC(ci[t])] /\ cs' = cs
      BY <1>7 DEF ReturnFromC
    <2>2. /\ Plain(ci[t]) => Plain([ci[t] EXCEPT ![Len(ci[t])].clsret = TRUE])
          /\ Plain(ci[t]) => Plain(ReturnC(ci[t]))
      BY <1>1, PlainParts
    <2>3. \A u : Resets(cs', u) => Resets(cs, u)
      <3>1. Cur(t).base \in Nat \ {0}
        BY <1>b, <1>7 DEF ReturnFromC
      <3> QED BY <1>1, <2>1, <3>1, CloseResets
    <2> QED BY <1>1, <2>1, <2>2, <2>3, ChangeUnmarked
  <1>8. CASE ResumeReturns(t)
    <2> DEFINE from == Last(Front(cs)).th
    <2>1. ci' = [ci EXCEPT ![from] = ReturnC(ci[from])] /\ cs' = Front(cs)
      BY <1>8 DEF ResumeReturns
    <2> HIDE DEF from
    <2>2. from \in Threads => (Plain(ci[from]) => Plain(ReturnC(ci[from])))
      BY <1>1, PlainParts DEF FrameMap
    <2>3. \A u : Resets(cs', u) => Resets(cs, u)
      BY <1>1, <2>1, ResetsFront
    <2> QED BY <1>1, <2>1, <2>2, <2>3, ChangeUnmarked
  <1>9. CASE CallClose(t)
    <2> DEFINE b == Last(tbclist[t]).at + 1
    <2>1. Enter(t, ci[t], cs, b, CloseInc) /\ tbclist[t] # <<>> /\ CloseInc \in {0, 1}
      BY <1>9 DEF CallClose, HasPending, CloseInc
    <2>2. b \in Nat \ {0}
      <3>1. tbclist[t] \in Seq([var : Vars, at : Nat \ {0}, frame : Nat \ {0}])
        BY <1>1 DEF Core, TypeOK
      <3>2. Last(tbclist[t]) \in [var : Vars, at : Nat \ {0}, frame : Nat \ {0}]
        BY <2>1, <3>1, Shortened
      <3> QED BY <3>2
    <2> HIDE DEF b
    <2> QED BY <1>1, <1>2, <1>3, <2>1, <2>2, EnterUnmarked, ZenonT(40)
  <1> QED BY <1>4, <1>5, <1>6, <1>7, <1>8, <1>9

\* The caller of a vmkF_close goes on.
LEMMA CloseReturnsUnmarked ==
  ASSUME Core, Unmarked(cs, ci), cs # <<>>, NEW t, t = Running, CloseReturns(t)
  PROVE  Unmarked(cs', ci')
  <1> DEFINE C == Front(cs)
             a == Last(C)
             from == Last(Front(C)).th
  <1>1. t \in Threads /\ ci \in FrameMap /\ cs \in Seq(Activation)
    <2>1. t = Last(cs).th /\ Sound(cs, ci, status, cc, nny)
      BY DEF Core, Running, Top
    <2> QED BY <2>1, SoundMid, RunningFacts
  <1>2. C \in Seq(Activation) /\ \A u : Resets(C, u) => Resets(cs, u)
    BY <1>1, ResetsFront
  <1>3. \A u : Resets(Front(C), u) => Resets(cs, u)
    <2> HIDE DEF C
    <2> QED BY <1>2, ResetsFront
  <1>4. \A u \in Threads : Plain(ci[u]) => /\ Plain(Rerun(ci[u])) /\ Plain(ReturnC(ci[u]))
                                           /\ Plain([ci[u] EXCEPT ![Len(ci[u])].pc = "raise"])
    BY <1>1, PlainParts DEF FrameMap
  <1>5. \/ Finish(t, ci[t], C)
        \/ /\ cs' = Front(C) \/ cs' = C
           /\ \/ ci' = [ci EXCEPT ![t] = ReturnC(ci[t])]
              \/ ci' = [ci EXCEPT ![t] = Rerun(ci[t])]
              \/ ci' = [ci EXCEPT ![from] = ReturnC(ci[from])]
              \/ ci' = [ci EXCEPT ![from] = [ci[from] EXCEPT ![Len(ci[from])].pc = "raise"]]
    BY Zenon DEF CloseReturns
  <1> HIDE DEF C, a, from
  <1>6. CASE Finish(t, ci[t], C)
    BY <1>1, <1>2, <1>6, FinishUnmarked
  <1>7. ASSUME cs' = Front(C) \/ cs' = C, NEW u, NEW r, ci' = [ci EXCEPT ![u] = r],
               u \in Threads => (Plain(ci[u]) => Plain(r))
        PROVE  Unmarked(cs', ci')
    <2>1. \A x : Resets(cs', x) => Resets(cs, x)
      BY <1>2, <1>3, <1>7
    <2> QED BY <1>1, <1>7, <2>1, ChangeUnmarked
  <1>8. CASE ~Finish(t, ci[t], C)
    BY <1>1, <1>4, <1>5, <1>7, <1>8
  <1> QED BY <1>6, <1>8

\* In every state, a thread that is reset has no pcall without a setjmp.
LEMMA UnmarkedNext == Core /\ Unmarked(cs, ci) /\ [Next]_vars => Unmarked(cs', ci')
  <1> SUFFICES ASSUME Core, Unmarked(cs, ci), [Next]_vars PROVE Unmarked(cs', ci')
    OBVIOUS
  <1>1. CASE UNCHANGED vars
    BY <1>1 DEF vars
  <1>2. CASE StartChunk
    BY <1>2, StartChunkUnmarked
  <1>3. CASE Next /\ cs # <<>> /\ ~StartChunk
    <2> DEFINE t == Running
    <2>1. CASE PCall(t)
      BY <2>1, PCallUnmarked
    <2>2. CASE \/ CallVmk(t) \/ Error(t) \/ Yield(t) \/ CloseBlock(t) \/ Return(t)
               \/ \E v \in Free : NewTbc(t, v)
               \/ \E vs \in {<<>>} \cup {<<v>> : v \in Free} : CallC(t, vs)
      <3>1. Interp(t)
        BY <2>2 DEF CallVmk, Error, Yield, CloseBlock, Return, NewTbc, CallC
      <3>2. {<<>>} \cup {<<v>> : v \in Free} \subseteq Seq(Vars)
        BY MarkedVars
      <3>3. \/ CallVmk(t) \/ Error(t) \/ Yield(t) \/ CloseBlock(t) \/ Return(t)
            \/ \E v : NewTbc(t, v)
            \/ \E vs \in Seq(Vars) : CallC(t, vs)
        BY <2>2, <3>2
      <3> HIDE DEF t
      <3> QED BY <3>1, <3>3, InterpUnmarked
    <2>3. CASE \E co \in Threads : \/ WrapRefused(t, co) \/ CloseCo(t, co)
                                   \/ \E f \in {"resume", "wrap"} : Resume(t, co, f)
      <3> HIDE DEF t
      <3> QED BY <2>3, SwitchUnmarked
    <2>4. CASE \/ Start(t) \/ Unroll(t) \/ ReturnFromC(t) \/ ResumeReturns(t) \/ CallClose(t) \/ Raise(t)
      BY <1>3, <2>4, GoesOnUnmarked
    <2>5. CASE CloseReturns(t)
      BY <1>3, <2>5, CloseReturnsUnmarked
    <2> HIDE DEF t
    <2> QED BY <1>3, <2>1, <2>2, <2>3, <2>4, <2>5 DEF Next, t
  <1> QED BY <1>1, <1>2, <1>3 DEF Next

-----------------------------------------------------------------------------
(* What the invariant shows. *)

\* Every state that the calls of ldo.c, lfunc.c and lcorolib.c reach has the
\* C stack, the frames of all threads, their statuses and their counters agree.
THEOREM CallsSound == Spec => []CallsInv
  <1>1. Init => CallsInv
    <2>1. Init => cs = <<>>
      BY DEF Init
    <2>2. cs = <<>> => Unmarked(cs, ci)
      BY DEF Unmarked, Resets
    <2> QED BY <2>1, <2>2, CoreInit DEF CallsInv
  <1>2. CallsInv /\ [Next]_vars => CallsInv'
    BY CoreNext, UnmarkedNext DEF CallsInv
  <1> QED BY <1>1, <1>2, PTL DEF Spec

\* Nothing of a thread that a yield left, or that was just resumed, is on the
\* C stack, and so its frames hold no C function that cannot go on.
LEMMA FramesContinue == Core => FramesSound
  <1> SUFFICES ASSUME Core PROVE FramesSound
    OBVIOUS
  <1>1. /\ cs \in Seq(Activation) /\ Shape(cs) /\ ci \in FrameMap /\ TopFrame(cs, ci)
        /\ ThreadsFit(cs, ci, status)
        /\ \A t \in Threads : Frames(ci[t]) /\ (status[t] # "err" => BlockingHeld(cs, t, ci[t]))
    BY DEF Core, Sound, Good
  <1>2. ASSUME NEW t \in Threads, NEW i \in DOMAIN ci[t], ci[t][i].fn # "vmk",
               \/ status[t] = "yield" /\ i < Len(ci[t])
               \/ cs # <<>> /\ Running = t /\ i = Len(ci[t]) /\ Top.op = "raw" /\ Coroutined(Top.job)
        PROVE  ci[t][i].ypcall \/ ci[t][i].pc \in {"returning", "raise"}
    <2> DEFINE f == ci[t][i]
    <2>1. PcOf(f) /\ (f.fn \in {"resume", "wrap", "close", "yield"} => i = Len(ci[t])) /\ f \in Frame
      BY <1>1 DEF Frames, FrameMap
    <2>2. CASE status[t] = "yield" /\ i < Len(ci[t])
      <3>1. ~InC(cs, t)
        BY <1>1, <2>2 DEF ThreadsFit, ThreadFits
      <3>2. ~Blocking(f)
        BY <1>1, <2>2, <3>1 DEF BlockingHeld, Held, InC
      <3>3. ci[t] \in Seq(Frame) /\ i # Len(ci[t])
        BY <1>1, <2>2 DEF FrameMap
      <3>4. f.fn \in {"call", "pcall"}
        BY <2>1, <3>3, <1>2, FrameFields
      <3> QED BY <2>1, <3>2, <3>4 DEF Blocking, PcOf
    <2>3. CASE cs # <<>> /\ Running = t /\ i = Len(ci[t]) /\ Top.op = "raw" /\ Coroutined(Top.job)
      <3>1. Last(cs).th = t /\ Last(cs).op = "raw" /\ Coroutined(Last(cs).job) /\ cs # <<>>
        BY <2>3 DEF Running, Top
      <3>2. Len(cs) \in Nat /\ Len(cs) \in 1..Len(cs) /\ Last(cs) = cs[Len(cs)] /\ DOMAIN cs = 1..Len(cs)
        BY <1>1, <3>1, Shortened
      <3>3. \A j \in 1..Len(cs) : j # Len(cs) => cs[j].th # t
        <4> SUFFICES ASSUME NEW j \in 1..Len(cs), j # Len(cs) PROVE cs[j].th # t
          OBVIOUS
        <4>0. Len(cs) \in Nat
          BY <3>2
        <4>1. j < Len(cs) /\ j \in 1..Len(cs) /\ Len(cs) \in 1..Len(cs)
          BY ONLY <4>0, j \in 1..Len(cs), j # Len(cs)
        <4>2. Entering(cs[Len(cs)]) /\ cs[Len(cs)].th = t
          BY <3>1, <3>2 DEF Entering
        <4>3. \A k, l \in 1..Len(cs) : k < l /\ Entering(cs[l]) => cs[k].th # cs[l].th
          BY ONLY <1>1, ShapeParts
        <4> QED BY ONLY <4>1, <4>2, <4>3
      <3>4. ~Held(cs, t, i)
        <4>1. cs[Len(cs)].op # "call" /\ ~(cs[Len(cs)].op = "raw" /\ cs[Len(cs)].job = "close")
          BY <3>1, <3>2 DEF Coroutined
        <4> QED BY <3>2, <3>3, <4>1 DEF Held
      <3>5. ~Blocking(f)
        <4>1. InC(cs, t)
          BY <3>1, <3>2 DEF InC
        <4>2. status[t] = "ok"
          BY <1>1, <4>1 DEF ThreadsFit, ThreadFits
        <4> QED BY <1>1, <3>4, <4>2 DEF BlockingHeld
      <3>6. ~Parked(f)
        <4>1. ci[t] # <<>> /\ Last(ci[t]) = f
          BY <2>3 DEF Last
        <4> QED BY <4>1, <3>1, <1>1 DEF TopFrame
      <3> QED BY <2>1, <3>5, <3>6, <1>2, FrameFields DEF Blocking, Parked, PcOf
    <2> QED BY <1>2, <2>2, <2>3
  <1> QED BY <1>2 DEF FramesSound, CFramesContinue, Core

\* finishCcall's assertion holds, and the state is well typed: a C function
\* that a yield goes through left a continuation, or was closing its variables.
THEOREM FramesAlwaysSound == Spec => []FramesSound
  <1>1. CallsInv => FramesSound
    BY FramesContinue DEF CallsInv
  <1> QED BY <1>1, CallsSound, PTL

\* What the counters of the running thread count.
LEMMA CountersExact == Core => NCcallsExact
  <1> SUFFICES ASSUME Core PROVE NCcallsExact
    OBVIOUS
  <1>1. cs \in Seq(Activation) /\ EndCounts(cs, cc, nny)
    BY DEF Core, Sound, Good, Exact
  <1>2. CASE cs = <<>>
    <2>1. Running = Main /\ cc[Main] = 0 /\ nny[Main] = 1 /\ Len(cs) = 0
      BY <1>1, <1>2 DEF EndCounts, Running
    <2> QED BY <2>1, CountZero DEF NCcallsExact
  <1>3. CASE cs # <<>>
    <2>1. Len(cs) \in DOMAIN cs /\ Running = cs[Len(cs)].th
      BY <1>1, <1>3, Shortened DEF Running, Top
    <2> QED BY <1>1, <2>1 DEF EndCounts, NCcallsExact
  <1> QED BY <1>2, <1>3

\* nCcalls is exact: vmkE_checkcstack and vmk_resume of the running thread test
\* the number of C calls of the whole C stack, and vmk_yieldk those of its own
\* that cannot yield, through every error, yield and resume.
THEOREM NCcallsAlwaysExact == Spec => []NCcallsExact
  <1>1. CallsInv => NCcallsExact
    BY CountersExact DEF CallsInv
  <1> QED BY <1>1, CallsSound, PTL

\* vmkE_checkcstack bounds the C stack for every number of coroutines, although
\* vmk_resume counts a call without it.
THEOREM CStackAlwaysBounded == Spec => []CStackBounded
  <1>1. CallsInv => CStackBounded
    BY DEF CallsInv, Core, Sound, CStackBounded
  <1> QED BY <1>1, CallsSound, PTL

\* A thread that can yield has no setjmp over the one it was resumed with.
LEMMA YieldLands == Core => YieldReachesResume
  <1> SUFFICES ASSUME Core, Interp(Running), Yieldable(Running)
               PROVE  Coroutined(cs[Handler(Running, cs)].job)
    BY DEF YieldReachesResume
  <1> DEFINE t == Running
             h == Handler(t, cs)
  <1>1. /\ cs # <<>> /\ t = Last(cs).th /\ Last(cs).op # "close" /\ nny[t] = 0
        /\ Sound(cs, ci, status, cc, nny)
    BY InterpFacts DEF Core, Yieldable
  <1>2. cs \in Seq(Activation) /\ Shape(cs)
    BY DEF Core, Sound, Good
  <1> HIDE DEF t
  <1>3. h \in 1..Len(cs) /\ cs[h].op = "raw" /\ cs[h].th = t
    BY <1>1, <1>2, HandlerFound
  <1> HIDE DEF h
  <1>4. \A j \in 1..Len(cs) : cs[j].th = t => ~Protected(cs[j])
    BY ONLY <1>1, YieldableFree
  <1>5. cs[h].job \in {"pcall", "close", "resume", "unroll"}
    BY <1>2, <1>3, ActivationFields
  <1> QED BY <1>3, <1>4, <1>5 DEF Protected, Coroutined, h, t

\* The longjmp of vmk_yieldk always lands in the vmk_resume of its thread: no
\* setjmp of a pcall or of a protected close is in the way.
THEOREM YieldAlwaysReachesResume == Spec => []YieldReachesResume
  <1>1. CallsInv => YieldReachesResume
    BY YieldLands DEF CallsInv
  <1> QED BY <1>1, CallsSound, PTL

\* The C code of a pcall with a setjmp is that setjmp, or the one that closes
\* its variables after an error.
LEMMA HeldRaw ==
  ASSUME NEW C, NEW F, Good(C, F), NEW t, NEW k \in Nat, Held(C, t, k),
         F[t][k].fn = "pcall", ~F[t][k].ypcall
  PROVE  \E i \in 1..Len(C) : C[i].op = "raw" /\ C[i].th = t /\ C[i].depth = k
  <1>1. C \in Seq(Activation) /\ Shape(C) /\ Linked(C, F)
    BY DEF Good
  <1>2. PICK j \in DOMAIN C :
          /\ C[j].th = t
          /\ \/ C[j].op = "call" /\ C[j].inc = 1 /\ C[j].depth = k + 1
             \/ C[j].op = "raw" /\ C[j].job = "close" /\ C[j].depth = k
    BY DEF Held
  <1>3. j \in 1..Len(C) /\ Len(C) \in Nat
    BY <1>1, <1>2
  <1>4. CASE C[j].op = "raw"
    BY <1>2, <1>3, <1>4
  <1>5. CASE C[j].op = "call" /\ C[j].inc = 1 /\ C[j].depth = k + 1
    <2>1. j > 1 /\ j - 1 \in 1..Len(C) /\ Over(C[j-1], C[j])
      BY <1>1, <1>3, <1>5, NotFirst
    <2>2. Calls(C[j-1], C[j]) /\ C[j-1].th = t /\ C[j-1].depth \in Nat
      BY <1>1, <1>2, <1>5, <2>1, ShapeParts DEF Over, Enters, Entering, Protected, Closes
    <2>3. CASE C[j-1].op = "raw" /\ C[j-1].job = "pcall" /\ C[j].depth = C[j-1].depth + 1
      BY <1>5, <2>1, <2>2, <2>3
    <2>4. CASE C[j-1].op = "close" /\ C[j].depth = C[j-1].depth + 1 /\ ~C[j-1].yy
      <3>1. j - 1 > 1 /\ (j - 1) - 1 \in 1..Len(C) /\ Over(C[(j-1)-1], C[j-1])
        BY <1>1, <2>1, <2>4, NotFirst
      <3>2. Closes(C[(j-1)-1], C[j-1]) /\ C[(j-1)-1].th = t
        BY <2>2, <2>4, <3>1 DEF Over, Enters, Entering, Protected, Calls
      <3>3. C[(j-1)-1].op = "raw" /\ C[(j-1)-1].depth = C[j-1].depth
        BY <2>4, <3>2 DEF Closes
      <3> QED BY <1>5, <2>2, <2>4, <3>1, <3>2, <3>3
    <2>5. CASE Runner(C[j-1])
      <3>1. Caller(C[j-1], C[j], F[C[j-1].th])
        BY <1>1, <1>2, <2>1 DEF Linked
      <3>2. C[j].depth - 1 = k
        BY <1>5
      <3> QED BY <1>5, <2>2, <2>5, <3>1, <3>2 DEF Caller
    <2>6. C[j-1].op = "close" => C[j].inc = (IF C[j-1].yy THEN 0 ELSE 1)
      BY <2>2 DEF Calls, Runner
    <2> QED BY <1>5, <2>2, <2>3, <2>4, <2>5, <2>6 DEF Calls
  <1> QED BY <1>2, <1>4, <1>5

\* A frame of pcall with no other over it is the innermost.
LEMMA LastSelected ==
  ASSUME NEW s \in Seq(Frame), NEW d \in 0..Len(s), d > 0 => s[d].fn = "pcall",
         \A k \in DOMAIN s : k > d => s[k].fn # "pcall"
  PROVE  InnermostPcall(s) = d
  <1> DEFINE I == {i \in 1..Len(s) : s[i].fn = "pcall"}
  <1>1. InnermostPcall(s) = IF I # {} THEN Max(I) ELSE 0
    BY Zenon DEF InnermostPcall, SelectLastInSeq
  <1>2. Len(s) \in Nat /\ DOMAIN s = 1..Len(s)
    OBVIOUS
  <1>3. CASE d = 0
    <2>1. I = {}
      BY <1>2, <1>3
    <2> QED BY <1>1, <1>3, <2>1
  <1>4. CASE d > 0
    <2>1. d \in I /\ \A i \in I : i <= d
      BY <1>2, <1>4
    <2>2. I \in SUBSET (1..Len(s)) /\ I # {}
      BY <2>1
    <2>3. I \in SUBSET Nat
      BY <2>2
    <2> HIDE DEF I
    <2>4. Max(I) \in I /\ \A i \in I : i <= Max(I)
      BY <1>2, <2>2, GreatestIndex
    <2>5. Max(I) = d
      <3>1. Max(I) \in Nat /\ d <= Max(I) /\ Max(I) <= d
        BY <2>1, <2>3, <2>4
      <3> QED BY ONLY <3>1, d \in 0..Len(s), <1>2
    <2> QED BY <1>1, <2>1, <2>5
  <1> QED BY <1>3, <1>4

\* With no setjmp over the frames, findpcall finds the innermost pcall.
LEMMA MarksAreInnermost ==
  ASSUME NEW s \in Seq(Frame), \A k \in DOMAIN s : s[k].ypcall <=> s[k].fn = "pcall"
  PROVE  FindPcall(s) = InnermostPcall(s) /\ FindPcall(s) \in 0..Len(s)
  <1> DEFINE I == {i \in 1..Len(s) : s[i].fn = "pcall"}
             J == {i \in 1..Len(s) : s[i].ypcall}
  <1>1. InnermostPcall(s) = IF I # {} THEN Max(I) ELSE 0
    BY Zenon DEF InnermostPcall, SelectLastInSeq
  <1>2. FindPcall(s) = IF J # {} THEN Max(J) ELSE 0
    BY Zenon DEF FindPcall, SelectLastInSeq
  <1>3. I = J /\ I \in SUBSET (1..Len(s)) /\ Len(s) \in Nat
    OBVIOUS
  <1> HIDE DEF I, J
  <1>4. I # {} => Max(I) \in 1..Len(s)
    BY <1>3, GreatestIndex
  <1>5. FindPcall(s) = InnermostPcall(s)
    BY <1>1, <1>2, <1>3
  <1>6. InnermostPcall(s) \in 0..Len(s)
    <2>1. CASE I = {}
      BY <1>1, <1>3, <2>1
    <2>2. CASE I # {}
      <3>1. Max(I) \in 0..Len(s)
        BY <1>3, <1>4, <2>2
      <3> QED BY <1>1, <2>2, <3>1
    <2> QED BY <2>1, <2>2
  <1> QED BY <1>5, <1>6

\* Where the error of the running thread t lands.
LEMMA ErrorLands ==
  ASSUME Core, Unmarked(cs, ci), NEW t \in Threads, Error(t)
  PROVE  ReachesInnermostPcall(t)
  <1> DEFINE s == ci[t]
             h == Handler(t, cs)
             a == cs[h]
             D == SubSeq(cs, 1, h - 1)
             from == Last(D).th
  <1>1. /\ cs # <<>> /\ t = Last(cs).th /\ Mid(cs, ci, status, cc, nny, t) /\ ci \in FrameMap
        /\ s \in Seq(Frame) /\ Frames(s) /\ status[t] = "ok" /\ cs \in Seq(Activation) /\ Shape(cs)
        /\ DOMAIN s = 1..Len(s) /\ Len(s) \in Nat
    BY InterpFacts, RunningFacts DEF Error
  <1>2. Good(cs, ci) /\ BlockingHeld(cs, t, s)
    BY <1>1 DEF Core, Sound
  <1>t. Throw(t, s, cs, "err")
    BY DEF Error
  <1>3. /\ h \in 1..Len(cs) /\ a.op = "raw" /\ a.th = t /\ a.depth \in 0..Len(s) /\ a \in Activation
        /\ \A j \in (h+1)..Len(cs) : cs[j].op # "raw"
        /\ Entering(a) => a.depth = 0 /\ \A i \in 1..(h-1) : cs[i].th # t
        /\ ~Entering(a) => a.depth > 0 /\ s[a.depth].fn = "pcall" /\ ~s[a.depth].ypcall
        /\ Coroutined(a.job) => Entering(a)
    BY <1>1, <1>2, UnderHandler
  <1>4. Under(cs, ci, t, a, D)
    BY <1>1, ThrowUnder
  <1>5. /\ D \in Seq(Activation)
        /\ Entering(a) => D # <<>> /\ from # t /\ from \in Threads
    BY <1>4 DEF Under
  <1>s. s = ci[t]
    OBVIOUS
  <1> HIDE DEF s, h, D, from
  <1>6. ASSUME NEW k \in DOMAIN s, s[k].fn = "pcall", ~s[k].ypcall
        PROVE  k <= a.depth
    <2>1. Held(cs, t, k)
      BY <1>2, <1>6 DEF BlockingHeld, Blocking
    <2>2. PICK i \in 1..Len(cs) : cs[i].op = "raw" /\ cs[i].th = t /\ cs[i].depth = k
      BY <1>1, <1>2, <1>6, <1>s, <2>1, HeldRaw
    <2>3. i <= h
      BY <1>1, <1>3, <2>2
    <2>4. CASE i = h
      BY <1>1, <1>3, <1>6, <2>2, <2>4
    <2>5. CASE i < h
      <3>1. cs[i].depth <= cs[h].depth
        BY <1>1, <1>3, <2>2, <2>5, ShapeParts
      <3> QED BY <2>2, <3>1
    <2> QED BY <1>1, <1>3, <2>2, <2>3, <2>4, <2>5
  <1>7. CASE a.job \in {"pcall", "close"}
    <2>1. \A k \in DOMAIN s : k > a.depth => s[k].fn # "pcall"
      <3> SUFFICES ASSUME NEW k \in DOMAIN s, k > a.depth, s[k].fn = "pcall" PROVE FALSE
        OBVIOUS
      <3>1. s[k].ypcall
        <4>1. a.depth \in Nat /\ k \in Nat
          BY <1>1, <1>3
        <4> QED BY <4>1, <1>6
      <3>2. CASE a.depth > 0
        <4>1. a.depth \in 1..(k-1) /\ a.depth \in Nat
          BY <1>1, <1>3, <3>2
        <4>2. ~Blocking(s[a.depth])
          BY <1>1, <3>1, <4>1 DEF Frames
        <4>3. ~Entering(a)
          BY <1>3, <3>2
        <4> QED BY <1>3, <4>2, <4>3 DEF Blocking
      <3>3. CASE a.depth = 0
        <4>1. Entering(a) /\ a.job = "close"
          BY <1>3, <1>7, <3>3 DEF Entering, Coroutined
        <4>2. Resets(cs, t)
          BY <1>1, <1>3, <3>3, <4>1 DEF Resets
        <4> QED BY <1>s, <3>1, <4>2 DEF Unmarked, Plain
      <3> QED BY <1>3, <3>2, <3>3
    <2>2. a.depth > 0 => s[a.depth].fn = "pcall"
      BY <1>3 DEF Entering
    <2>3. InnermostPcall(s) = a.depth
      BY <1>1, <1>3, <2>1, <2>2, LastSelected
    <2>4. /\ ci' = [ci EXCEPT ![t] = SubSeq(s, 1, a.depth)]
          /\ \E c, e : cs' = Append(Append(D, c), e) /\ e.th = t
      <3>1. ~Coroutined(a.job)
        BY <1>7 DEF Coroutined
      <3>2. /\ ci' = [ci EXCEPT ![t] = SubSeq(s, 1, a.depth)]
            /\ CloseProtected(t, a.depth, IF a.depth = 0 THEN 1 ELSE s[a.depth].base + 1, D, a.cc, a.nny)
        BY <1>t, <3>1, Zenon DEF Throw, h, D
      <3> DEFINE lvl == IF a.depth = 0 THEN 1 ELSE s[a.depth].base + 1
                 b == Raw(t, "close", a.depth, a.cc, a.nny)
                 e == FClose(t, a.depth, lvl, FALSE)
      <3>3. cs' = Append(Append(D, b), e)
        BY <3>2, Zenon DEF CloseProtected
      <3>4. e.th = t
        BY DEF FClose
      <3> HIDE DEF b, e
      <3>5. \E c, x : cs' = Append(Append(D, c), x) /\ x.th = t
        BY ONLY <3>3, <3>4, Zenon
      <3> QED BY ONLY <3>2, <3>5
    <2>5. Last(cs').th = t
      <3>1. PICK c, e : cs' = Append(Append(D, c), e) /\ e.th = t
        BY <2>4
      <3>2. Append(D, c) \in Seq(Activation \cup {c})
        BY <1>5
      <3>3. Last(Append(Append(D, c), e)) = e
        BY <3>2 DEF Last
      <3> QED BY <3>1, <3>3
    <2>6. ci'[t] = SubSeq(s, 1, a.depth) /\ Len(SubSeq(s, 1, a.depth)) = a.depth
      <3>1. Len(SubSeq(s, 1, a.depth)) = a.depth
        BY <1>1, <1>3
      <3> QED BY <1>1, <2>4, <3>1 DEF FrameMap
    <2>7. a.depth = 0 => ci'[t] = <<>>
      <3>1. SubSeq(s, 1, 0) = <<>>
        OBVIOUS
      <3> QED BY <2>6, <3>1
    <2> QED BY <1>s, <2>3, <2>5, <2>6, <2>7 DEF ReachesInnermostPcall
  <1>8. CASE Coroutined(a.job)
    <2>1. Entering(a) /\ a.depth = 0 /\ from # t
      BY <1>3, <1>5, <1>8
    <2>2. \A k \in DOMAIN s : s[k].ypcall <=> s[k].fn = "pcall"
      <3> SUFFICES ASSUME NEW k \in DOMAIN s PROVE s[k].ypcall <=> s[k].fn = "pcall"
        OBVIOUS
      <3>1. s[k].ypcall => s[k].fn = "pcall"
        BY <1>1 DEF Frames
      <3>2. k > 0 /\ k \in Nat
        BY <1>1
      <3>3. s[k].fn = "pcall" /\ ~s[k].ypcall => FALSE
        BY <1>6, <2>1, <3>2
      <3>4. s[k].ypcall \in BOOLEAN
        BY <1>1, FrameFields
      <3> QED BY <3>1, <3>3, <3>4
    <2>3. FindPcall(s) = InnermostPcall(s) /\ FindPcall(s) \in 0..Len(s)
      BY <1>1, <2>2, MarksAreInnermost
    <2> DEFINE p == FindPcall(s)
               b == Raw(t, "unroll", 0, a.cc, a.nny)
               r == [SubSeq(s, 1, p) EXCEPT ![p].recst = TRUE]
    <2>4. a.job \notin {"pcall", "close"}
      BY <1>8 DEF Coroutined
    <2>5. \/ p # 0 /\ ci' = [ci EXCEPT ![t] = r] /\ cs' = Append(D, b)
          \/ p = 0 /\ cs' = D /\ status' = [status EXCEPT ![t] = "err"]
          \/ p = 0 /\ ci' = [ci EXCEPT ![from] = ci[from], ![t] = <<>>]
      BY <1>t, <2>4, Zenon DEF Throw, CloseThread, h, D, from
    <2>6. CASE p # 0 /\ ci' = [ci EXCEPT ![t] = r] /\ cs' = Append(D, b)
      <3>1. Last(cs') = b /\ b.th = t
        BY <1>5, <2>6 DEF Last, Raw
      <3>2. Len(r) = p
        <4>1. SubSeq(s, 1, p) \in Seq(Frame) /\ Len(SubSeq(s, 1, p)) = p
          BY <1>1, <2>3
        <4>2. ASSUME NEW q \in Seq(Frame), NEW n \in 1..Len(q)
              PROVE  Len([q EXCEPT ![n].recst = TRUE]) = Len(q)
          <5>1. [q[n] EXCEPT !.recst = TRUE] \in Frame
            <6>1. \A f \in Frame : [f EXCEPT !.recst = TRUE] \in Frame
              BY DEF Frame
            <6> QED BY <6>1
          <5>2. [q EXCEPT ![n] = [q[n] EXCEPT !.recst = TRUE]] \in Seq(Frame)
            BY <5>1
          <5> QED BY <5>2
        <4>3. p \in 1..p
          BY <2>3, <2>6
        <4> QED BY <4>1, <4>2, <4>3
      <3>3. ci'[t] = r
        BY <1>1, <2>6 DEF FrameMap
      <3> QED BY <1>s, <2>3, <2>6, <3>1, <3>2, <3>3 DEF ReachesInnermostPcall
    <2>7. CASE p = 0 /\ cs' = D /\ status' = [status EXCEPT ![t] = "err"]
      <3>1. Last(cs').th # t
        BY <2>1, <2>7 DEF from
      <3>2. status'[t] = "err"
        BY <2>7 DEF Core, TypeOK
      <3> QED BY <1>s, <2>3, <2>7, <3>1, <3>2 DEF ReachesInnermostPcall
    <2>8. CASE p = 0 /\ ci' = [ci EXCEPT ![from] = ci[from], ![t] = <<>>]
      <3>1. ci'[t] = <<>>
        BY <1>1, <2>8 DEF FrameMap
      <3> QED BY <1>s, <2>3, <2>8, <3>1 DEF ReachesInnermostPcall
    <2> QED BY <2>5, <2>6, <2>7, <2>8
  <1>9. a.job \in {"pcall", "close"} \/ Coroutined(a.job)
    BY <1>3, ActivationFields DEF Coroutined
  <1> QED BY <1>7, <1>8, <1>9

\* An error reaches the innermost pcall of its thread in every state and program,
\* be it a setjmp or a mark; with none, the coroutine is dead or closed.
THEOREM ErrorAlwaysReachesPcall == Spec => ErrorReachesInnermostPcall
  <1>1. CallsInv /\ [Next]_vars =>
          [\A t \in Threads : Error(t) => ReachesInnermostPcall(t)]_vars
    BY ErrorLands DEF CallsInv
  <1> QED BY <1>1, CallsSound, PTL DEF Spec, ErrorReachesInnermostPcall

=============================================================================
