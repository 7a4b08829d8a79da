---------------------------- MODULE CallsClosing ----------------------------
(***************************************************************************)
(* Every to-be-closed variable of Calls is closed, and only once: TbcInv   *)
(* is inductive.  A step is followed by what it does to the frames of a    *)
(* thread (they are cut, or one is pushed) and to the closes of the C      *)
(* stack (which of them are kept, at which level new ones start).          *)
(***************************************************************************)
EXTENDS CallsProofs

\* The pending variables of a thread, and those of all threads.
Marks == [var : Vars, at : Nat \ {0}, frame : Nat \ {0}]
MarkLists == [Threads -> Seq(Marks)]

-----------------------------------------------------------------------------
(* The frames of one thread. *)

\* A frame that is still there after a step.
Like(f, g) == f.fn = g.fn /\ f.base = g.base /\ f.ypcall = g.ypcall /\ (g.recst => f.recst)

\* The frames that r and s share are where they were.
Keeps(r, s) == \A k \in DOMAIN r \cap DOMAIN s : r[k].fn = s[k].fn /\ r[k].base = s[k].base

\* The frames r are what is left of the frames s.
Cut(r, s) == r \in Seq(Frame) /\ Len(r) <= Len(s) /\ \A k \in 1..Len(r) : Like(r[k], s[k])

\* A frame that has no variables, and recovers no error.
Idle(f) == f.fn \notin {"vmk", "call"} /\ ~(f.ypcall /\ f.recst)

\* No frame of s above those of r has to close any variable of l.
Done(r, s, l) == \A k \in (Len(r) + 1)..Len(s) : Idle(s[k]) \/ \A p \in ToSet(l) : p.at <= s[k].base

\* The closes of C that no yield interrupts and that work for t are in D.
Kept(C, D, t) ==
    \A i \in DOMAIN C : C[i].op = "close" /\ ~C[i].yy /\ C[i].th = t => \E j \in DOMAIN D : D[j] = C[i]

\* Each close of D is one of C, or closes what its frame in G needs.
Grown(D, C, G) ==
    \A j \in DOMAIN D : D[j].op = "close" => \/ \E i \in DOMAIN C : C[i] = D[j]
                                             \/ D[j].level = Level(D[j].depth, G[D[j].th])

\* What an element of a list of pending variables is.
LEMMA ListOf ==
  ASSUME NEW l \in Seq(Marks), NEW p \in ToSet(l)
  PROVE  /\ \E i \in 1..Len(l) : l[i] = p
         /\ p.var \in Vars /\ p.at \in Nat \ {0} /\ p.frame \in Nat \ {0}
  <1>1. PICK i \in 1..Len(l) : l[i] = p
    BY DEF ToSet
  <1>2. p \in Marks
    BY <1>1
  <1> QED BY <1>1, <1>2 DEF Marks

\* What is above a position that no pending variable reaches.
LEMMA RisingLast ==
  ASSUME NEW l \in Seq(Marks), Rising(l), NEW b \in Nat, ~(l # <<>> /\ Last(l).at >= b)
  PROVE  \A p \in ToSet(l) : p.at < b
  <1> SUFFICES ASSUME NEW p \in ToSet(l) PROVE p.at < b
    OBVIOUS
  <1>1. PICK i \in 1..Len(l) : l[i] = p
    BY ListOf
  <1>2. Len(l) \in Nat /\ Len(l) \in 1..Len(l) /\ l # <<>> /\ Last(l) = l[Len(l)]
    BY <1>1 DEF Last
  <1>3. l[Len(l)].at \in Nat /\ p.at \in Nat /\ l[Len(l)].at < b
    <2>1. l[Len(l)] \in Marks /\ p \in Marks
      BY <1>1, <1>2
    <2>2. l[Len(l)].at \in Nat /\ p.at \in Nat
      BY <2>1 DEF Marks
    <2> QED BY <1>2, <2>2
  <1>4. i < Len(l) => l[i].at < l[Len(l)].at
    BY <1>1, <1>2 DEF Rising
  <1> QED BY <1>1, <1>2, <1>3, <1>4

\* A C stack keeps what it has.
LEMMA KeptItself == \A C, t : Kept(C, C, t)
  BY DEF Kept

\* An activation on top takes nothing from those beneath it.
LEMMA KeptAppend ==
  ASSUME NEW C, NEW D \in Seq(Activation), NEW t, Kept(C, D, t), NEW a \in Activation
  PROVE  Kept(C, Append(D, a), t)
  <1>1. \A j \in DOMAIN D : j \in DOMAIN Append(D, a) /\ Append(D, a)[j] = D[j]
    BY Appended
  <1> QED BY <1>1 DEF Kept

\* A C stack that loses no close of t.
LEMMA KeptPrefix ==
  ASSUME NEW C \in Seq(Activation), NEW n \in 0..Len(C), NEW t,
         \A i \in (n+1)..Len(C) : ~(C[i].op = "close" /\ ~C[i].yy /\ C[i].th = t)
  PROVE  Kept(C, SubSeq(C, 1, n), t)
  <1>1. \A i \in 1..n : i \in DOMAIN SubSeq(C, 1, n) /\ SubSeq(C, 1, n)[i] = C[i]
    BY Prefix
  <1>2. \A i \in DOMAIN C : i \in 1..n \/ i \in (n+1)..Len(C)
    OBVIOUS
  <1> QED BY <1>1, <1>2 DEF Kept

\* A C stack has the closes it has.
LEMMA GrownItself == \A C, G : Grown(C, C, G)
  BY DEF Grown

\* A prefix of the C stack has no new close.
LEMMA GrownPrefix ==
  ASSUME NEW C \in Seq(Activation), NEW n \in 0..Len(C), NEW G
  PROVE  Grown(SubSeq(C, 1, n), C, G)
  <1>1. \A i \in DOMAIN SubSeq(C, 1, n) : i \in DOMAIN C /\ SubSeq(C, 1, n)[i] = C[i]
    BY Prefix
  <1> QED BY <1>1 DEF Grown

\* A close that is added is at the level of its frame.
LEMMA GrownAppend ==
  ASSUME NEW C, NEW D \in Seq(Activation), NEW G, Grown(D, C, G), NEW a \in Activation,
         a.op = "close" => a.level = Level(a.depth, G[a.th])
  PROVE  Grown(Append(D, a), C, G)
  <1>1. \A j \in DOMAIN Append(D, a) : (j \in DOMAIN D /\ Append(D, a)[j] = D[j]) \/ Append(D, a)[j] = a
    BY Appended
  <1> QED BY <1>1 DEF Grown

-----------------------------------------------------------------------------
(* A step of one thread. *)

\* The frames of a thread are cut: the variables of the ones that go are closed.
LEMMA PendingCut ==
  ASSUME NEW C, NEW D, NEW s \in Seq(Frame), NEW l \in Seq(Marks), NEW t, Pending(C, s, l, t),
         NEW r, Cut(r, s), Done(r, s, l), Kept(C, D, t)
  PROVE  Pending(D, r, l, t) /\ Keeps(r, s)
  <1>1. /\ r \in Seq(Frame) /\ Len(r) \in Nat /\ Len(s) \in Nat /\ Len(r) <= Len(s)
        /\ \A k \in 1..Len(r) : k \in DOMAIN s /\ Like(r[k], s[k])
        /\ DOMAIN r = 1..Len(r) /\ DOMAIN s = 1..Len(s)
    BY DEF Cut
  <1>2. Keeps(r, s)
    BY <1>1 DEF Keeps, Like
  <1>3. Bases(r)
    BY <1>1 DEF Pending, Bases, Like
  <1>4. ASSUME NEW p \in ToSet(l) PROVE Covered(D, r, t, p)
    <2>1. p.at \in Nat /\ Covered(C, s, t, p)
      BY ListOf DEF Pending
    <2>2. \A k \in 1..Len(s) : s[k].base \in Nat
      BY FrameFields
    <2>3. \A k \in 1..Len(s) : s[k].base < p.at /\ ~Idle(s[k]) => k \in DOMAIN r
      <3> SUFFICES ASSUME NEW k \in 1..Len(s), s[k].base < p.at, ~Idle(s[k]), k \notin DOMAIN r
                   PROVE FALSE
        OBVIOUS
      <3>1. k \in (Len(r) + 1)..Len(s)
        BY <1>1
      <3>2. p.at <= s[k].base
        BY <3>1 DEF Done
      <3> QED BY <3>2, <2>1, <2>2
    <2>4. CASE Owned(s, p)
      <3>1. p.frame \in DOMAIN r
        BY <2>3, <2>4, <1>1 DEF Owned, Idle
      <3>2. r[p.frame].fn = s[p.frame].fn /\ r[p.frame].base = s[p.frame].base
        BY <3>1, <1>1 DEF Like
      <3> QED BY <3>1, <3>2, <2>4 DEF Owned, Covered
    <2>5. CASE Cleared(C, t, p)
      <3>1. Cleared(D, t, p)
        BY <2>5 DEF Cleared, Kept
      <3> QED BY <3>1 DEF Covered
    <2>6. CASE Recovered(s, p)
      <3>1. PICK k \in DOMAIN s : s[k].ypcall /\ s[k].recst /\ s[k].base < p.at
        BY <2>6 DEF Recovered
      <3>2. k \in DOMAIN r
        BY <2>3, <3>1, <1>1 DEF Idle
      <3>3. r[k].ypcall /\ r[k].recst /\ r[k].base < p.at
        BY <3>1, <3>2, <1>1 DEF Like
      <3> QED BY <3>2, <3>3 DEF Recovered, Covered
    <2> QED BY <2>1, <2>4, <2>5, <2>6 DEF Covered
  <1> QED BY <1>2, <1>3, <1>4 DEF Pending

\* A frame above the last one is pushed.
LEMMA PendingPush ==
  ASSUME NEW C, NEW s \in Seq(Frame), NEW l, NEW t, Pending(C, s, l, t),
         NEW f \in Frame, s # <<>> => Last(s).base < f.base
  PROVE  Pending(C, Append(s, f), l, t) /\ Keeps(Append(s, f), s)
  <1> DEFINE r == Append(s, f)
  <1>1. /\ Len(s) \in Nat /\ DOMAIN s = 1..Len(s) /\ DOMAIN r = 1..(Len(s) + 1)
        /\ r[Len(s) + 1] = f /\ \A k \in 1..Len(s) : r[k] = s[k]
    BY Appended
  <1>2. \A k \in 1..Len(s) : s[k].base \in Nat /\ s[k].base < f.base
    <2> SUFFICES ASSUME NEW k \in 1..Len(s) PROVE s[k].base \in Nat /\ s[k].base < f.base
      OBVIOUS
    <2>0. s # <<>>
      OBVIOUS
    <2>1. s # <<>> /\ Last(s) = s[Len(s)] /\ Len(s) \in DOMAIN s
      BY <2>0, Shortened
    <2>2. s[k].base \in Nat /\ s[Len(s)].base \in Nat /\ f.base \in Nat
      BY <2>1, FrameFields
    <2>3. k < Len(s) => s[k].base < s[Len(s)].base
      BY <2>1 DEF Pending, Bases
    <2> QED BY <2>1, <2>2, <2>3, <1>1
  <1> HIDE DEF r
  <1>3. Bases(r)
    BY <1>1, <1>2 DEF Pending, Bases
  <1>4. Keeps(r, s)
    BY <1>1 DEF Keeps
  <1>5. ASSUME NEW p \in ToSet(l) PROVE Covered(C, r, t, p)
    BY <1>1 DEF Pending, Covered, Owned, Recovered
  <1> QED BY <1>3, <1>4, <1>5 DEF Pending, r

\* The closes of a step are at the levels of their frames.
LEMMA LevelsStep ==
  ASSUME NEW C, NEW F, Good(C, F), Levels(C, F), NEW D, NEW G, Good(D, G), Grown(D, C, G),
         \A u \in Threads : Keeps(G[u], F[u])
  PROVE  Levels(D, G)
  <1> SUFFICES ASSUME NEW j \in DOMAIN D, D[j].op = "close"
               PROVE  D[j].level = Level(D[j].depth, G[D[j].th])
    BY DEF Levels
  <1>1. CASE \E i \in DOMAIN C : C[i] = D[j]
    <2>1. PICK i \in DOMAIN C : C[i] = D[j]
      BY <1>1
    <2> DEFINE u == D[j].th
               d == D[j].depth
    <2>2. D[j].level = Level(d, F[u])
      BY <2>1 DEF Levels
    <2>3. u \in Threads /\ d \in Nat /\ F[u] \in Seq(Frame) /\ G[u] \in Seq(Frame)
      <3>1. D[j] \in Activation /\ F \in FrameMap /\ G \in FrameMap
        BY DEF Good
      <3> QED BY <3>1, ActivationFields DEF FrameMap
    <2>4. d <= Len(F[u]) /\ d <= Len(G[u])
      <3>1. Framed(C[i], F[u]) /\ Framed(D[j], G[u])
        BY <2>1 DEF Good, Linked
      <3> QED BY <3>1, <2>1 DEF Framed
    <2> HIDE DEF u, d
    <2>5. d # 0 => d \in DOMAIN F[u] /\ d \in DOMAIN G[u]
      BY <2>3, <2>4
    <2>6. d # 0 => G[u][d].fn = F[u][d].fn /\ G[u][d].base = F[u][d].base
      BY <2>3, <2>5 DEF Keeps
    <2> QED BY <2>2, <2>6 DEF Level, LevelOf, u, d
  <1> QED BY <1>1 DEF Grown

\* A step that keeps, or makes again, what holds of each thread.
LEMMA ClosableStep ==
  ASSUME NEW C, NEW F, Good(C, F), NEW L, Closable(C, F, L),
         NEW D, NEW G, Good(D, G), NEW M, Grown(D, C, G),
         \A u \in Threads : Keeps(G[u], F[u]) /\ Pending(D, G[u], M[u], u)
  PROVE  Closable(D, G, M)
  BY LevelsStep DEF Closable

\* Threads that the step leaves alone.
LEMMA PendingSame ==
  ASSUME NEW C, NEW D, NEW s, NEW l, NEW t, Pending(C, s, l, t), Kept(C, D, t)
  PROVE  Pending(D, s, l, t) /\ Keeps(s, s)
  <1>1. \A p \in ToSet(l) : Covered(D, s, t, p)
    BY DEF Pending, Covered, Cleared, Kept
  <1> QED BY <1>1 DEF Pending, Keeps

\* The step changes the frames of one thread.
LEMMA ClosableChange ==
  ASSUME NEW C, NEW F, Good(C, F), NEW L, Closable(C, F, L), NEW t \in Threads,
         NEW D, NEW r, NEW G, G = [F EXCEPT ![t] = r], Good(D, G), Grown(D, C, G), NEW M,
         Keeps(r, F[t]), Pending(D, r, M[t], t),
         \A u \in Threads : u # t => M[u] = L[u] /\ Kept(C, D, u)
  PROVE  Closable(D, G, M)
  <1>1. G[t] = r /\ \A u \in Threads : u # t => G[u] = F[u]
    BY DEF Good, FrameMap
  <1>2. \A u \in Threads : Pending(C, F[u], L[u], u)
    BY DEF Closable
  <1>3. \A u \in Threads : u # t => Keeps(G[u], F[u]) /\ Pending(D, G[u], M[u], u)
    BY <1>1, <1>2, PendingSame
  <1>4. \A u \in Threads : Keeps(G[u], F[u]) /\ Pending(D, G[u], M[u], u)
    BY <1>1, <1>3
  <1> QED BY <1>4, ClosableStep

-----------------------------------------------------------------------------
(* What the actions do to the frames. *)

\* Frames that do not change are all left.
LEMMA CutItself ==
  ASSUME NEW s \in Seq(Frame), NEW l
  PROVE  Cut(s, s) /\ Done(s, s, l)
  BY DEF Cut, Done, Like

\* The last frame goes on.
LEMMA CutAt ==
  ASSUME NEW s \in Seq(Frame), s # <<>>, NEW g \in Frame, Like(g, Last(s)),
         NEW r, r = [s EXCEPT ![Len(s)] = g]
  PROVE  Cut(r, s) /\ Len(r) = Len(s) /\ Last(r) = g
  <1>1. Len(s) \in Nat \ {0} /\ Len(s) \in DOMAIN s /\ Last(s) = s[Len(s)]
    BY Shortened
  <1>2. r \in Seq(Frame) /\ Len(r) = Len(s) /\ r[Len(s)] = g /\ \A k \in 1..Len(s) : k # Len(s) => r[k] = s[k]
    BY <1>1
  <1>3. \A k \in 1..Len(r) : Like(r[k], s[k])
    BY <1>1, <1>2 DEF Like
  <1>4. Last(r) = g
    <2>1. r # <<>> /\ r \in Seq(Frame)
      BY <1>1, <1>2
    <2>2. Last(r) = r[Len(r)]
      BY ONLY <2>1, Shortened
    <2> QED BY <2>2, <1>2
  <1> QED BY ONLY <1>1, <1>2, <1>3, <1>4 DEF Cut

\* A frame that is at another point is the same frame.
LEMMA LikeAt ==
  ASSUME NEW f \in Frame, NEW x \in {"run", "wait", "closing", "returning", "raise"}
  PROVE  /\ [f EXCEPT !.pc = x] \in Frame /\ Like([f EXCEPT !.pc = x], f)
         /\ [f EXCEPT !.clsret = TRUE] \in Frame /\ Like([f EXCEPT !.clsret = TRUE], f)
  BY DEF Frame, Like

\* Only the pc of the last frame changes.
LEMMA CutPc ==
  ASSUME NEW s \in Seq(Frame), s # <<>>,
         NEW x \in {"run", "wait", "closing", "returning", "raise"},
         NEW r, r = [s EXCEPT ![Len(s)].pc = x] \/ r = [s EXCEPT ![Len(s)].clsret = TRUE], NEW l
  PROVE  Cut(r, s) /\ Done(r, s, l) /\ Len(r) = Len(s) /\ r # <<>> /\ Last(r).base = Last(s).base
  <1>1. Last(s) \in Frame /\ Last(s) = s[Len(s)] /\ Len(s) \in Nat \ {0}
    BY Shortened
  <1>2. PICK g \in Frame : Like(g, Last(s)) /\ r = [s EXCEPT ![Len(s)] = g]
    <2>1. \/ r = [s EXCEPT ![Len(s)] = [Last(s) EXCEPT !.pc = x]]
          \/ r = [s EXCEPT ![Len(s)] = [Last(s) EXCEPT !.clsret = TRUE]]
      BY <1>1
    <2> QED BY <2>1, <1>1, LikeAt
  <1>3. Cut(r, s) /\ Len(r) = Len(s) /\ Last(r) = g
    BY <1>2, CutAt
  <1> QED BY <1>1, <1>2, <1>3 DEF Done, Like, Cut

\* The first frames of a thread are what is left when the others end.
LEMMA CutPrefix ==
  ASSUME NEW s \in Seq(Frame), NEW n \in 0..Len(s)
  PROVE  Cut(SubSeq(s, 1, n), s) /\ Len(SubSeq(s, 1, n)) = n
  <1>1. /\ SubSeq(s, 1, n) \in Seq(Frame) /\ Len(SubSeq(s, 1, n)) = n
        /\ \A i \in 1..n : SubSeq(s, 1, n)[i] = s[i]
    BY Prefix
  <1> QED BY <1>1 DEF Cut, Like

\* What is left of what is left.
LEMMA CutAgain ==
  ASSUME NEW s \in Seq(Frame), NEW r \in Seq(Frame), Cut(r, s), NEW q, Cut(q, r)
  PROVE  Cut(q, s)
  BY DEF Cut, Like

\* The last frame ends.
LEMMA CutFront ==
  ASSUME NEW s \in Seq(Frame), s # <<>>
  PROVE  Cut(Front(s), s) /\ Len(Front(s)) = Len(s) - 1 /\ Front(s) \in Seq(Frame)
  <1>1. Front(s) = SubSeq(s, 1, Len(s) - 1) /\ Len(s) - 1 \in 0..Len(s) /\ Front(s) \in Seq(Frame)
    BY Shortened
  <1> QED BY <1>1, CutPrefix

\* The function in the last frame runs again.
LEMMA CutRerun ==
  ASSUME NEW s \in Seq(Frame)
  PROVE  Cut(Rerun(s), s) /\ Len(Rerun(s)) = Len(s) /\ Done(Rerun(s), s, <<>>)
  <1>1. CASE s = <<>>
    BY <1>1, CutItself DEF Rerun
  <1>2. CASE s # <<>>
    BY <1>2, CutPc DEF Rerun
  <1> QED BY <1>1, <1>2

\* A C function returns to the frame beneath it.
LEMMA CutReturnC ==
  ASSUME NEW s \in Seq(Frame), s # <<>>
  PROVE  Cut(ReturnC(s), s) /\ Len(ReturnC(s)) = Len(s) - 1
  <1>1. Cut(Front(s), s) /\ Len(Front(s)) = Len(s) - 1 /\ Front(s) \in Seq(Frame)
    BY CutFront
  <1>2. Cut(Rerun(Front(s)), Front(s)) /\ Len(Rerun(Front(s))) = Len(Front(s))
    BY <1>1, CutRerun
  <1> QED BY <1>1, <1>2, CutAgain DEF ReturnC

\* The last frame goes.
LEMMA DoneLast ==
  ASSUME NEW s \in Seq(Frame), s # <<>>, NEW r, Len(r) = Len(s) - 1, NEW l,
         Idle(Last(s)) \/ \A p \in ToSet(l) : p.at <= Last(s).base
  PROVE  Done(r, s, l)
  <1>1. Len(s) \in Nat \ {0} /\ Last(s) = s[Len(s)]
    BY Shortened
  <1>2. \A k \in (Len(r) + 1)..Len(s) : k = Len(s)
    BY <1>1
  <1> QED BY <1>1, <1>2 DEF Done

\* The C function of the last frame, which has no variables, returns.
LEMMA PendingReturnC ==
  ASSUME NEW C, NEW D, NEW s \in Seq(Frame), s # <<>>, NEW l \in Seq(Marks), NEW t, Pending(C, s, l, t),
         Kept(C, D, t), NEW r, r = ReturnC(s) \/ r = Front(s),
         Idle(Last(s)) \/ \A p \in ToSet(l) : p.at <= Last(s).base
  PROVE  Pending(D, r, l, t) /\ Keeps(r, s)
  <1>1. Cut(r, s) /\ Len(r) = Len(s) - 1
    BY CutReturnC, CutFront
  <1>2. Done(r, s, l)
    BY <1>1, DoneLast
  <1> QED BY <1>1, <1>2, PendingCut

\* What runs in the last frame changes, but not the frame.
LEMMA PendingPc ==
  ASSUME NEW C, NEW D, NEW s \in Seq(Frame), s # <<>>, NEW l \in Seq(Marks), NEW t, Pending(C, s, l, t),
         Kept(C, D, t), NEW x \in {"run", "wait", "closing", "returning", "raise"},
         NEW r, \/ r = [s EXCEPT ![Len(s)].pc = x] \/ r = [s EXCEPT ![Len(s)].clsret = TRUE] \/ r = Rerun(s)
  PROVE  Pending(D, r, l, t) /\ Keeps(r, s)
  <1>1. Cut(r, s) /\ Done(r, s, l)
    BY CutPc DEF Rerun
  <1> QED BY <1>1, PendingCut

-----------------------------------------------------------------------------
(* vmkD_throw. *)

\* Over the last setjmp of the running thread there is a close that no yield
\* interrupts only if it is of a vmkD_closeprotected, and right over it.
LEMMA ThrownCloses ==
  ASSUME NEW C \in Seq(Activation), Shape(C), C # <<>>, NEW t, t = Last(C).th,
         NEW h, h = Handler(t, C), NEW i \in DOMAIN C, C[i].op = "close", ~C[i].yy
  PROVE  i < h \/ (i = h + 1 /\ C[h].job = "close" /\ C[i].depth = C[h].depth)
  <1>1. h \in 1..Len(C) /\ C[h].op = "raw" /\ \A k \in (h+1)..Len(C) : C[k].op # "raw"
    BY HandlerFound
  <1>2. Len(C) \in Nat /\ i \in 1..Len(C)
    BY ShapeParts
  <1>3. i > 1 /\ i - 1 \in 1..Len(C) /\ Over(C[i-1], C[i])
    BY <1>2, NotFirst
  <1>4. C[i-1].op = "raw" /\ C[i-1].job = "close" /\ C[i].depth = C[i-1].depth
    BY <1>3 DEF Over, Enters, Entering, Protected, Calls, Closes
  <1>5. ~(i - 1 \in (h+1)..Len(C))
    BY <1>1, <1>4
  <1>6. i # h
    BY <1>1
  <1>7. i < h \/ i = h + 1
    BY <1>1, <1>2, <1>3, <1>5, <1>6
  <1> QED BY <1>1, <1>2, <1>4, <1>7

\* What is under the setjmp h of C is in D, where e is pushed; each close of C
\* for t, with frames s, is at the level of its frame.
Beneath(C, h, D) == \A i \in 1..(h-1) : i \in DOMAIN D /\ D[i] = C[i]
Pushed(D, e) == \E j \in DOMAIN D : D[j] = e
LevelsOf(C, t, s) ==
    \A i \in DOMAIN C : C[i].op = "close" /\ C[i].th = t => C[i].level = Level(C[i].depth, s)

\* The pcall, or the close, that an error reaches closes what is above it.
LEMMA ThrowPending ==
  ASSUME NEW C \in Seq(Activation), Shape(C), C # <<>>, NEW t, t = Last(C).th,
         NEW h, h = Handler(t, C), C[h].job \in {"pcall", "close"},
         NEW s \in Seq(Frame), NEW d \in 0..Len(s), C[h].depth = d, d # 0 => s[d].fn = "pcall",
         NEW l \in Seq(Marks), Pending(C, s, l, t), LevelsOf(C, t, s),
         NEW D, Beneath(C, h, D), Pushed(D, FClose(t, d, Level(d, s), FALSE))
  PROVE  /\ Pending(D, SubSeq(s, 1, d), l, t) /\ Keeps(SubSeq(s, 1, d), s)
         /\ Level(d, SubSeq(s, 1, d)) = Level(d, s)
  <1> DEFINE r == SubSeq(s, 1, d)
             lvl == Level(d, s)
  <1>1. /\ Cut(r, s) /\ Len(r) = d /\ r \in Seq(Frame) /\ DOMAIN r = 1..d /\ \A k \in 1..d : r[k] = s[k]
        /\ Len(s) \in Nat /\ DOMAIN s = 1..Len(s) /\ d \in Nat
    BY CutPrefix, Prefix
  <1> HIDE DEF r
  <1>2. Bases(r) /\ Keeps(r, s) /\ Rising(l)
    BY <1>1 DEF Pending, Bases, Keeps
  <1>3. d # 0 => s[d].base \in Nat /\ d \in DOMAIN s
    BY <1>1, FrameFields
  <1>4. /\ Level(d, r) = lvl /\ lvl = (IF d = 0 THEN 1 ELSE s[d].base + 1)
        /\ Pushed(D, FClose(t, d, lvl, FALSE)) /\ lvl = Level(d, s)
    <2>1. d # 0 => r[d] = s[d]
      BY <1>1
    <2>2. Level(d, r) = Level(d, s)
      BY ONLY <2>1 DEF Level
    <2>3. Level(d, s) = (IF d = 0 THEN 1 ELSE s[d].base + 1)
      BY DEF Level, LevelOf
    <2> QED BY <2>2, <2>3
  <1> HIDE DEF lvl
  <1>5. ASSUME NEW p \in ToSet(l) PROVE Covered(D, r, t, p)
    <2>1. p.at \in Nat \ {0} /\ Covered(C, s, t, p)
      BY ListOf DEF Pending
    <2>2. CASE lvl <= p.at
      <3>1. Cleared(D, t, p)
        BY <2>2, <1>4 DEF Cleared, FClose, Pushed
      <3> QED BY <3>1 DEF Covered
    <2>3. CASE ~(lvl <= p.at)
      <3>1. d # 0 /\ p.at <= s[d].base
        <4>1. d # 0
          BY <2>1, <2>3, <1>4
        <4>2. ~(s[d].base + 1 <= p.at)
          BY <4>1, <2>3, <1>4
        <4> QED BY <4>1, <4>2, <2>1, <1>3
      <3>2. \A k \in DOMAIN s : s[k].base < p.at => k \in DOMAIN r /\ r[k] = s[k]
        <4> SUFFICES ASSUME NEW k \in DOMAIN s, s[k].base < p.at PROVE k \in 1..d
          BY <1>1
        <4>1. s[k].base \in Nat
          BY <1>1, FrameFields
        <4>2. ~(d < k)
          BY <4>1, <3>1, <1>3, <2>1 DEF Pending, Bases
        <4> QED BY <4>2, <1>1
      <3>3. CASE Owned(s, p)
        BY <3>2, <3>3 DEF Owned, Covered
      <3>4. CASE Recovered(s, p)
        BY <3>2, <3>4 DEF Recovered, Covered
      <3>5. CASE Cleared(C, t, p)
        <4>1. PICK i \in DOMAIN C : C[i].op = "close" /\ ~C[i].yy /\ C[i].th = t /\ C[i].level <= p.at
          BY <3>5 DEF Cleared
        <4>2. i < h
          <5>1. i < h \/ (i = h + 1 /\ C[i].depth = d)
            BY <4>1, ThrownCloses
          <5>2. CASE C[i].depth = d
            BY <5>2, <4>1, <1>4, <2>3 DEF LevelsOf
          <5> QED BY <5>1, <5>2
        <4>3. i \in 1..(h-1)
          BY <4>2, HandlerFound
        <4>4. Cleared(D, t, p)
          BY <4>1, <4>3 DEF Cleared, Beneath
        <4> QED BY <4>4 DEF Covered
      <3> QED BY <2>1, <3>3, <3>4, <3>5 DEF Covered
    <2> QED BY <2>2, <2>3
  <1> QED BY <1>2, <1>4, <1>5 DEF Pending, r

\* precover: the pcall that is found is to close what is above it.
LEMMA RecoverPending ==
  ASSUME NEW C, NEW s \in Seq(Frame), NEW t, NEW l \in Seq(Marks), Pending(C, s, l, t),
         NEW n \in 1..Len(s), s[n].ypcall, NEW D, Kept(C, D, t),
         NEW r, r = [SubSeq(s, 1, n) EXCEPT ![n].recst = TRUE]
  PROVE  Pending(D, r, l, t) /\ Keeps(r, s)
  <1>1. /\ Len(s) \in Nat /\ DOMAIN s = 1..Len(s) /\ n \in Nat /\ \A k \in 1..Len(s) : s[k] \in Frame
    OBVIOUS
  <1>2. /\ SubSeq(s, 1, n) \in Seq(Frame) /\ Len(SubSeq(s, 1, n)) = n
        /\ \A k \in 1..n : SubSeq(s, 1, n)[k] = s[k]
    BY Prefix
  <1>3. [s[n] EXCEPT !.recst = TRUE] \in Frame /\ [s[n] EXCEPT !.recst = TRUE].recst
        /\ Like([s[n] EXCEPT !.recst = TRUE], s[n])
    BY <1>1 DEF Frame, Like
  <1>4. /\ Len(r) = n /\ DOMAIN r = 1..n /\ r[n].recst /\ Like(r[n], s[n])
        /\ \A k \in 1..n : k # n => r[k] = s[k]
    <2> DEFINE q == SubSeq(s, 1, n)
    <2>1. r = [q EXCEPT ![n].recst = TRUE] /\ q \in Seq(Frame) /\ Len(q) = n /\ q[n] = s[n]
      BY <1>1, <1>2
    <2> HIDE DEF q
    <2>2. r[n] = [s[n] EXCEPT !.recst = TRUE] /\ DOMAIN r = 1..n /\ Len(r) = n
          /\ \A k \in 1..n : k # n => r[k] = q[k]
      BY ONLY <2>1, <1>1
    <2> QED BY ONLY <2>2, <1>1, <1>2, <1>3 DEF q
  <1>5. \A k \in 1..n : Like(r[k], s[k])
    BY <1>4 DEF Like
  <1>6. Bases(r) /\ Keeps(r, s)
    BY <1>1, <1>4, <1>5 DEF Pending, Bases, Keeps, Like
  <1>7. ASSUME NEW p \in ToSet(l) PROVE Covered(D, r, t, p)
    <2>1. p.at \in Nat /\ Covered(C, s, t, p)
      BY ListOf DEF Pending
    <2>2. \A k \in 1..Len(s) : s[k].base \in Nat
      BY FrameFields
    <2>3. CASE s[n].base < p.at
      <3>1. r[n].ypcall /\ r[n].recst /\ r[n].base < p.at /\ n \in DOMAIN r
        BY <2>3, <1>4 DEF Like
      <3> QED BY <3>1 DEF Recovered, Covered
    <2>4. CASE ~(s[n].base < p.at)
      <3>1. \A k \in DOMAIN s : s[k].base < p.at => k \in DOMAIN r
        <4> SUFFICES ASSUME NEW k \in DOMAIN s, s[k].base < p.at PROVE k \in DOMAIN r
          OBVIOUS
        <4>1. ~(n < k)
          BY <2>1, <2>2, <2>4, <1>1 DEF Pending, Bases
        <4> QED BY <4>1, <1>1, <1>4
      <3>2. Owned(s, p) => Owned(r, p)
        BY <3>1, <1>4, <1>5 DEF Owned, Like
      <3>3. Recovered(s, p) => Recovered(r, p)
        BY <3>1, <1>4, <1>5 DEF Recovered, Like
      <3>4. Cleared(C, t, p) => Cleared(D, t, p)
        BY DEF Cleared, Kept
      <3> QED BY <2>1, <3>2, <3>3, <3>4 DEF Covered
    <2> QED BY <2>3, <2>4
  <1> QED BY <1>6, <1>7 DEF Pending

\* Whatever a throw of the running thread reaches, no variable is forgotten.
LEMMA ThrowClosable ==
  ASSUME NEW t, NEW s, NEW C, NEW x, ci \in FrameMap, NEW F, F = [ci EXCEPT ![t] = s],
         Mid(C, F, status, cc, nny, t), NEW L \in MarkLists, Closable(C, F, L),
         Throw(t, s, C, x), Good(cs', ci')
  PROVE  Closable(cs', ci', L)
  <1> DEFINE h == Handler(t, C)
             a == C[h]
             D == SubSeq(C, 1, h - 1)
             from == Last(D).th
             lvl == IF a.depth = 0 THEN 1 ELSE s[a.depth].base + 1
  <1>1. /\ C \in Seq(Activation) /\ Shape(C) /\ C # <<>> /\ t = Last(C).th /\ Good(C, F)
        /\ t \in Threads /\ F[t] = s /\ s \in Seq(Frame) /\ F \in FrameMap
        /\ \A u \in Threads : u # t => F[u] = ci[u]
    <2>1. t \in Threads
      BY RunningFacts
    <2> QED BY <2>1 DEF Mid, Good, FrameMap
  <1>2. Under(C, F, t, a, D)
    BY ThrowUnder
  <1>3. /\ D \in Seq(Activation) /\ a \in Activation /\ a.op = "raw" /\ a.th = t /\ a.depth \in 0..Len(s)
        /\ Entering(a) => /\ from # t /\ from \in Threads /\ ~InC(D, t) /\ a.depth = 0
                          /\ Caller(Last(D), a, F[from]) /\ Last(D).depth \in 0..Len(F[from])
        /\ ~Entering(a) => a.depth > 0 /\ s[a.depth].fn = "pcall"
        /\ Coroutined(a.job) => Entering(a)
    BY <1>1, <1>2 DEF Under
  <1>4. /\ h \in 1..Len(C) /\ h - 1 \in 0..Len(C) /\ Len(C) \in Nat
        /\ \A j \in h..Len(C) : C[j].th = t
    <2> HIDE DEF h
    <2>1. h \in 1..Len(C) /\ \A j \in h..Len(C) : C[j].th = t
      BY <1>1, HandlerFound DEF h
    <2> QED BY <1>1, <2>1
  <1>5. /\ \A u : u # t => Kept(C, D, u)
        /\ Grown(D, C, ci')
        /\ \A i \in 1..(h-1) : i \in DOMAIN D /\ D[i] = C[i]
    <2> HIDE DEF h
    <2>1. \A u : u # t => Kept(C, D, u)
      BY <1>1, <1>4, KeptPrefix
    <2> QED BY <2>1, <1>1, <1>4, GrownPrefix, Prefix
  <1>6. Coroutined(a.job) => Kept(C, D, t)
    <2> SUFFICES ASSUME Coroutined(a.job), NEW i \in DOMAIN C, C[i].op = "close", ~C[i].yy, C[i].th = t
                 PROVE  FALSE
      BY DEF Kept
    <2>0. h = Handler(t, C)
      OBVIOUS
    <2>1. i < h \/ (i = h + 1 /\ a.job = "close")
      <3> HIDE DEF h
      <3> QED BY <1>1, <2>0, ThrownCloses
    <2>2. i < h
      BY <2>1 DEF Coroutined
    <2>3. i \in DOMAIN D /\ D[i].th = t
      BY <2>2, <1>1, <1>4, <1>5
    <2> QED BY <2>3, <1>3 DEF InC
  <1>7. \A u \in Threads : /\ L[u] \in Seq(Marks) /\ F[u] \in Seq(Frame) /\ Pending(C, F[u], L[u], u)
    BY <1>1 DEF MarkLists, Closable, FrameMap
  <1>8. LevelsOf(C, t, s)
    BY <1>1 DEF Closable, Levels, LevelsOf
  <1>t. /\ \/ /\ a.job \in {"pcall", "close"}
              /\ ci' = [ci EXCEPT ![t] = SubSeq(s, 1, a.depth)]
              /\ CloseProtected(t, a.depth, lvl, D, a.cc, a.nny)
           \/ Coroutined(a.job) /\ ci' = [ci EXCEPT ![t] = s, ![from] = ReturnC(@)] /\ cs' = D
           \/ /\ Coroutined(a.job) /\ FindPcall(s) # 0
              /\ ci' = [ci EXCEPT ![t] = [SubSeq(s, 1, FindPcall(s)) EXCEPT ![FindPcall(s)].recst = TRUE]]
              /\ cs' = Append(D, Raw(t, "unroll", 0, a.cc, a.nny))
           \/ /\ Coroutined(a.job) /\ ci' = [ci EXCEPT ![from] = ci[from], ![t] = <<>>]
              /\ CloseProtected(t, 0, 1, D, cc[from], 0)
    BY Zenon DEF Throw, CloseThread
  <1>u. /\ \A z : [ci EXCEPT ![t] = z] = [F EXCEPT ![t] = z]
        /\ h = Handler(t, C) /\ a = C[h]
        /\ cc \in Counters /\ a.cc \in Nat /\ a.nny \in Nat
        /\ Closable(C, F, L) /\ Good(cs', ci') /\ ci \in FrameMap
    <2>1. a.cc \in Nat /\ a.nny \in Nat
      BY <1>3, ActivationFields
    <2> QED BY <1>1, <2>1 DEF FrameMap, Mid
  <1>v. lvl = IF a.depth = 0 THEN 1 ELSE s[a.depth].base + 1
    OBVIOUS
  <1>w. lvl \in Nat \ {0} /\ a.depth \in Nat
    <2>1. a.depth # 0 => s[a.depth].base \in Nat
      BY <1>3, <1>1, FrameFields
    <2> QED BY <2>1, <1>3
  <1> HIDE DEF h, a, D, from, lvl
  <1>9. CASE /\ a.job \in {"pcall", "close"}
             /\ ci' = [ci EXCEPT ![t] = SubSeq(s, 1, a.depth)]
             /\ CloseProtected(t, a.depth, lvl, D, a.cc, a.nny)
    <2> DEFINE r == SubSeq(s, 1, a.depth)
               b == Raw(t, "close", a.depth, a.cc, a.nny)
               e == FClose(t, a.depth, lvl, FALSE)
               E == Append(D, b)
    <2>1. b \in Activation /\ b.op # "close"
      BY <1>1, <1>u, <1>w DEF Raw, Activation
    <2>2. /\ e \in Activation /\ e.op = "close" /\ e.level = lvl /\ e.depth = a.depth /\ e.th = t
      BY <1>1, <1>w DEF FClose, Activation
    <2>3. cs' = Append(E, e) /\ ci' = [F EXCEPT ![t] = r]
      BY <1>9, <1>u DEF CloseProtected
    <2>4. /\ E \in Seq(Activation) /\ Append(E, e) \in Seq(Activation)
          /\ \A i \in DOMAIN D : i \in DOMAIN Append(E, e) /\ Append(E, e)[i] = D[i]
          /\ \E j \in DOMAIN Append(E, e) : Append(E, e)[j] = e
      <3> HIDE DEF b, e
      <3>1. E \in Seq(Activation) /\ \A i \in DOMAIN D : i \in DOMAIN E /\ E[i] = D[i]
        BY <1>3, <2>1, Appended
      <3> HIDE DEF E
      <3>2. /\ Append(E, e) \in Seq(Activation)
            /\ \A i \in DOMAIN E : i \in DOMAIN Append(E, e) /\ Append(E, e)[i] = E[i]
            /\ Append(E, e)[Len(E) + 1] = e /\ Len(E) + 1 \in DOMAIN Append(E, e)
        BY <3>1, <2>2, Appended
      <3> QED BY <3>1, <3>2
    <2>5. Pending(Append(E, e), r, L[t], t) /\ Keeps(r, s) /\ lvl = Level(a.depth, r)
      <3>1. /\ \A i \in 1..(h-1) : i \in DOMAIN Append(E, e) /\ Append(E, e)[i] = C[i]
            /\ \E j \in DOMAIN Append(E, e) : Append(E, e)[j] = FClose(t, a.depth, lvl, FALSE)
        BY <2>4, <1>5
      <3>2. a.depth # 0 => s[a.depth].fn = "pcall"
        BY <1>3
      <3>3. L[t] \in Seq(Marks) /\ Pending(C, s, L[t], t)
        BY <1>7, <1>1
      <3>4. C[h].job \in {"pcall", "close"} /\ a.depth \in 0..Len(s) /\ s \in Seq(Frame) /\ C[h].depth = a.depth
            /\ C \in Seq(Activation) /\ Shape(C) /\ C # <<>> /\ t = Last(C).th /\ h = Handler(t, C)
        BY <1>1, <1>u, <1>9, <1>3
      <3> HIDE DEF E, e
      <3> DEFINE d == a.depth
                 Z == Append(E, e)
      <3>5. lvl = Level(d, s)
        BY <3>2, <1>v DEF Level, LevelOf
      <3>6. /\ Beneath(C, h, Z) /\ Pushed(Z, FClose(t, d, Level(d, s), FALSE))
            /\ C[h].depth = d /\ d \in 0..Len(s) /\ (d # 0 => s[d].fn = "pcall")
        BY <3>1, <3>2, <3>4, <3>5 DEF Beneath, Pushed
      <3>7. /\ Pending(Z, SubSeq(s, 1, d), L[t], t) /\ Keeps(SubSeq(s, 1, d), s)
            /\ Level(d, SubSeq(s, 1, d)) = Level(d, s)
        <4> HIDE DEF d, Z
        <4> QED BY ONLY <3>3, <3>4, <3>6, <1>8, ThrowPending, ZenonT(60)
      <3> QED BY <3>7, <3>5
    <2>6. ci'[t] = r
      BY <2>3, <1>1 DEF FrameMap
    <2>7. Grown(E, C, ci')
      <3> HIDE DEF b
      <3> QED BY <1>5, <1>3, <2>1, GrownAppend
    <2>8. Grown(Append(E, e), C, ci')
      <3> HIDE DEF E, e, r
      <3> QED BY <2>7, <2>4, <2>2, <2>5, <2>6, GrownAppend
    <2>9. \A u \in Threads : u # t => L[u] = L[u] /\ Kept(C, Append(E, e), u)
      <3> SUFFICES ASSUME NEW u, u # t PROVE Kept(C, Append(E, e), u)
        OBVIOUS
      <3> HIDE DEF b, e
      <3>1. Kept(C, E, u)
        BY <1>5, <1>3, <2>1, KeptAppend
      <3> HIDE DEF E
      <3> QED BY <3>1, <2>4, <2>2, KeptAppend
    <2> HIDE DEF E, e, r
    <2>10. /\ Good(C, F) /\ Closable(C, F, L) /\ t \in Threads /\ ci' = [F EXCEPT ![t] = r] /\ Good(cs', ci')
           /\ Grown(cs', C, ci') /\ Keeps(r, F[t]) /\ Pending(cs', r, L[t], t)
           /\ \A u \in Threads : u # t => L[u] = L[u] /\ Kept(C, cs', u)
      BY <1>1, <1>u, <2>3, <2>5, <2>8, <2>9
    <2> QED BY ONLY <2>10, ClosableChange
  <1>10. CASE Coroutined(a.job) /\ ci' = [ci EXCEPT ![t] = s, ![from] = ReturnC(@)] /\ cs' = D
    <2>1. Entering(a) /\ from # t /\ from \in Threads /\ F[from] = ci[from]
      BY <1>10, <1>1, <1>3
    <2> DEFINE q == F[from]
               r == ReturnC(q)
    <2>2. ci' = [F EXCEPT ![from] = r]
      BY <1>10, <2>1, <1>1 DEF FrameMap
    <2>3. /\ q # <<>> /\ q \in Seq(Frame) /\ L[from] \in Seq(Marks) /\ Pending(C, q, L[from], from)
          /\ Last(q) \in Frame /\ Last(q).fn \in {"resume", "wrap"}
      <3>1. Len(q) > Last(D).depth /\ Last(D).depth \in Nat /\ a.job # "close" /\ q \in Seq(Frame)
            /\ L[from] \in Seq(Marks) /\ Pending(C, q, L[from], from)
        BY <1>10, <2>1, <1>3, <1>7 DEF Caller, Coroutined
      <3>2. Last(q).fn \in {"resume", "wrap"}
        BY <2>1, <1>3, <3>1 DEF Caller
      <3>3. q # <<>>
        BY <3>1
      <3> QED BY <3>1, <3>2, <3>3, Shortened
    <2>4. Idle(Last(q))
      <3>1. Frames(q)
        BY <2>1 DEF Mid
      <3>2. Last(q) = q[Len(q)] /\ Len(q) \in DOMAIN q
        BY <2>3, Shortened
      <3>3. Last(q).ypcall => Last(q).fn = "pcall"
        BY <3>1, <3>2 DEF Frames
      <3> QED BY <3>3, <2>3 DEF Idle
    <2> HIDE DEF q
    <2>5. Kept(C, D, from) /\ \A u \in Threads : u # from => L[u] = L[u] /\ Kept(C, D, u)
      BY <1>5, <1>6, <1>10, <2>1
    <2>6. Pending(D, r, L[from], from) /\ Keeps(r, q)
      BY <2>3, <2>4, <2>5, PendingReturnC
    <2> HIDE DEF r
    <2>7. cs' = D /\ Grown(D, C, ci')
      BY <1>10, <1>5
    <2> QED BY ONLY <1>1, <1>u, <2>1, <2>2, <2>5, <2>6, <2>7, ClosableChange DEF q
  <1>11. CASE /\ Coroutined(a.job) /\ FindPcall(s) # 0
              /\ ci' = [ci EXCEPT ![t] = [SubSeq(s, 1, FindPcall(s)) EXCEPT ![FindPcall(s)].recst = TRUE]]
              /\ cs' = Append(D, Raw(t, "unroll", 0, a.cc, a.nny))
    <2> DEFINE n == FindPcall(s)
               r == [SubSeq(s, 1, n) EXCEPT ![n].recst = TRUE]
               b == Raw(t, "unroll", 0, a.cc, a.nny)
    <2>1. n \in 1..Len(s) /\ s[n].ypcall
      BY <1>1, <1>11, PcallFound
    <2>2. b \in Activation /\ b.op # "close"
      BY <1>1, <1>u DEF Raw, Activation
    <2>3. ci' = [F EXCEPT ![t] = r] /\ cs' = Append(D, b)
      BY <1>11, <1>u
    <2> HIDE DEF b, n
    <2>4. Grown(Append(D, b), C, ci') /\ \A u \in Threads : L[u] = L[u] /\ Kept(C, Append(D, b), u)
      BY <1>5, <1>6, <1>11, <1>3, <2>2, GrownAppend, KeptAppend
    <2>5. Kept(C, Append(D, b), t) /\ L[t] \in Seq(Marks) /\ Pending(C, s, L[t], t)
      BY <2>4, <1>1, <1>7
    <2>6. Pending(Append(D, b), r, L[t], t) /\ Keeps(r, s)
      BY <1>1, <2>1, <2>5, RecoverPending
    <2> HIDE DEF r
    <2> QED BY ONLY <1>1, <1>u, <2>3, <2>4, <2>6, ClosableChange
  <1>12. CASE /\ Coroutined(a.job) /\ ci' = [ci EXCEPT ![from] = ci[from], ![t] = <<>>]
              /\ CloseProtected(t, 0, 1, D, cc[from], 0)
    <2>1. from \in Threads
      BY <1>12, <1>3
    <2> DEFINE b == Raw(t, "close", 0, cc[from], 0)
               e == FClose(t, 0, 1, FALSE)
               E == Append(D, b)
    <2>2. b \in Activation /\ b.op # "close"
      BY <1>1, <1>u, <2>1 DEF Raw, Activation, Counters
    <2>3. e \in Activation /\ e.op = "close" /\ e.level = 1 /\ e.depth = 0 /\ ~e.yy /\ e.th = t
      BY <1>1 DEF FClose, Activation
    <2>4. cs' = Append(E, e) /\ ci' = [F EXCEPT ![t] = <<>>]
      BY <1>12, <1>1, <1>u DEF CloseProtected, FrameMap
    <2> HIDE DEF b, e
    <2>5. E \in Seq(Activation) /\ Grown(E, C, ci') /\ \A u : u # t => Kept(C, E, u)
      BY <1>5, <1>3, <2>2, GrownAppend, KeptAppend
    <2> HIDE DEF E
    <2>6. Grown(Append(E, e), C, ci')
      BY <2>5, <2>3, GrownAppend DEF Level
    <2>7. \A u \in Threads : u # t => L[u] = L[u] /\ Kept(C, Append(E, e), u)
      BY <2>5, <2>3, KeptAppend
    <2>8. Pending(Append(E, e), <<>>, L[t], t)
      <3>1. Append(E, e)[Len(E) + 1] = e /\ Len(E) + 1 \in DOMAIN Append(E, e)
        BY <2>5, <2>3, Appended
      <3>2. ASSUME NEW p \in ToSet(L[t]) PROVE Cleared(Append(E, e), t, p)
        <4>1. p.at \in Nat \ {0}
          BY <1>1, <1>7, ListOf
        <4> QED BY <3>1, <4>1, <2>3 DEF Cleared
      <3> QED BY <3>2, <1>1, <1>7 DEF Pending, Covered, Bases
    <2>9. Keeps(<<>>, F[t])
      BY DEF Keeps
    <2>10. /\ Good(C, F) /\ Closable(C, F, L) /\ t \in Threads /\ ci' = [F EXCEPT ![t] = <<>>] /\ Good(cs', ci')
           /\ Grown(cs', C, ci') /\ Keeps(<<>>, F[t]) /\ Pending(cs', <<>>, L[t], t)
           /\ \A u \in Threads : u # t => L[u] = L[u] /\ Kept(C, cs', u)
      BY <1>1, <1>u, <2>4, <2>6, <2>7, <2>8, <2>9
    <2> QED BY ONLY <2>10, ClosableChange
  <1> QED BY <1>t, <1>9, <1>10, <1>11, <1>12

-----------------------------------------------------------------------------
(* Calls and returns. *)

\* A Vmk function is called above the last frame of its thread.
LEMMA EnterClosable ==
  ASSUME NEW t, NEW s, NEW C, ci \in FrameMap, NEW F, F = [ci EXCEPT ![t] = s],
         Mid(C, F, status, cc, nny, t), NEW L \in MarkLists, Closable(C, F, L),
         NEW b \in Nat \ {0}, s # <<>> => Last(s).base < b, NEW inc \in {0, 1},
         Enter(t, s, C, b, inc), Good(cs', ci')
  PROVE  Closable(cs', ci', L)
  <1>1. CASE CStackError(cc[t] + 1)
    <2>1. Throw(t, s, C, "err")
      BY <1>1 DEF Enter
    <2> QED BY <2>1, ThrowClosable
  <1>2. CASE ~CStackError(cc[t] + 1)
    <2> DEFINE f == VmkFrame(b, TRUE)
               r == Append(s, f)
               a == CCall(t, Len(s) + 1, inc)
    <2>1. /\ C \in Seq(Activation) /\ t \in Threads /\ F \in FrameMap /\ F[t] = s /\ s \in Seq(Frame)
          /\ Len(s) \in Nat /\ Good(C, F)
      <3>1. t \in Threads /\ C \in Seq(Activation) /\ F \in FrameMap /\ F[t] \in Seq(Frame) /\ Len(F[t]) \in Nat
        BY RunningFacts
      <3>2. F[t] = s
        BY <3>1 DEF FrameMap
      <3> QED BY <3>1, <3>2 DEF Mid
    <2>2. f \in Frame /\ f.base = b
      BY DEF VmkFrame, Frame
    <2>3. a \in Activation /\ a.op = "call"
      BY <2>1 DEF CCall, Activation
    <2>4. ci' = [F EXCEPT ![t] = r] /\ cs' = Append(C, a)
      BY <1>2, <2>1 DEF Enter, FrameMap
    <2> HIDE DEF f, a
    <2>5. Pending(C, r, L[t], t) /\ Keeps(r, s)
      BY <2>1, <2>2, PendingPush DEF Closable
    <2> HIDE DEF r
    <2>6. Kept(C, cs', t) /\ Grown(cs', C, ci') /\ \A u \in Threads : L[u] = L[u] /\ Kept(C, cs', u)
      BY <2>1, <2>3, <2>4, KeptItself, KeptAppend, GrownItself, GrownAppend
    <2>7. Pending(cs', r, L[t], t)
      BY <2>5, <2>6, PendingSame
    <2> QED BY ONLY <2>1, <2>4, <2>5, <2>6, <2>7, Good(cs', ci'), Closable(C, F, L), ClosableChange
  <1> QED BY <1>1, <1>2

\* The C code under a Vmk function that returned: its frame has no variables.
LEMMA CallerIdle ==
  ASSUME NEW C, NEW F, NEW st, NEW c, NEW m, Sound(C, F, st, c, m), C # <<>>,
         NEW t, t = Last(C).th, Last(C).op = "call", NEW s, s = F[t], s # <<>>, Last(s).fresh,
         C[Len(C) - 1].op # "close"
  PROVE  /\ Front(s) # <<>> /\ Front(s) \in Seq(Frame)
         /\ Last(Front(s)).fn # "call" => Idle(Last(Front(s)))
  <1> DEFINE b == C[Len(C) - 1]
             a == Last(C)
  <1>1. /\ Len(C) > 1 /\ Len(C) \in Nat /\ a = C[Len(C)] /\ a.depth = Len(s)
        /\ Calls(b, a) /\ b.th = t /\ Framed(b, s) /\ Caller(b, a, s) /\ b \in Activation /\ b.depth \in Nat
    BY CallTop
  <1>2. s \in Seq(Frame) /\ Len(s) \in Nat \ {0} /\ C \in Seq(Activation) /\ Shape(C) /\ Frames(s) /\ DOMAIN s = 1..Len(s)
    <2>1. F \in FrameMap /\ t \in Threads /\ C \in Seq(Activation) /\ Shape(C)
      BY SoundMid, RunningFacts
    <2>2. s \in Seq(Frame) /\ Frames(s)
      BY <2>1 DEF FrameMap, Sound
    <2> QED BY <2>1, <2>2, Shortened
  <1>3. b.op # "close"
    OBVIOUS
  <1>4. Len(s) - 1 > 0 /\ (s[Len(s) - 1].fn # "call" => Idle(s[Len(s) - 1]))
    <2>1. CASE Runner(b)
      <3>1. ~(b.op = "raw" /\ b.job = "pcall")
        BY <2>1 DEF Runner, Coroutined
      <3>2. a.depth > b.depth + 1
        BY <1>1, <1>3, <3>1 DEF Calls
      <3>3. Len(s) - 1 > 0
        BY <3>2, <1>1, <1>2
      <3>4. \/ s[Len(s) - 1].fn = "call"
            \/ s[Len(s) - 1].fn = "pcall" /\ ~s[Len(s) - 1].recst
        BY <1>1, <2>1 DEF Caller, Calls
      <3> QED BY <3>3, <3>4 DEF Idle
    <2>2. CASE b.op = "raw" /\ b.job = "pcall"
      <3>1. a.depth = b.depth + 1
        BY <1>1, <2>2 DEF Calls, Runner, Coroutined
      <3>2. b.depth > 0
        <4> DEFINE j == Len(C) - 1
        <4>0. j \in 1..Len(C) /\ C[j] = b /\ C[j].op = "raw" /\ C[j].job = "pcall" /\ b.depth \in Nat
          BY <1>1, <2>2
        <4> HIDE DEF b, j
        <4>1. CASE j = 1
          <5>1. Bottom(C[j])
            BY ONLY <4>0, <4>1, <1>2, ShapeParts
          <5> QED BY <5>1, <4>0 DEF Bottom
        <4>2. CASE j # 1
          <5>1. j \in 1..Len(C) /\ j > 1
            BY ONLY <4>0, <4>2, <1>2
          <5>2. j - 1 \in 1..Len(C) /\ Over(C[j-1], C[j])
            BY ONLY <5>1, <1>2, ShapeParts
          <5>3. C[j-1].depth \in Nat
            BY ONLY <5>2, <1>2, ShapeParts
          <5>4. C[j].depth > C[j-1].depth
            BY <5>2, <5>3, <4>0 DEF Over, Enters, Entering, Calls, Closes, Protected, Coroutined
          <5> QED BY <5>3, <5>4, <4>0
        <4> QED BY <4>1, <4>2
      <3>3. s[b.depth].fn = "pcall" /\ ~s[b.depth].ypcall
        BY <1>1, <2>2, <3>2 DEF Framed, Protected
      <3>4. b.depth = Len(s) - 1
        BY <1>1, <1>2, <3>1
      <3> QED BY <3>2, <3>3, <3>4 DEF Idle
    <2> QED BY <1>1, <1>3, <2>1, <2>2 DEF Calls
  <1>5. Front(s) # <<>> /\ Front(s) \in Seq(Frame) /\ Last(Front(s)) = s[Len(s) - 1]
    BY <1>2, <1>4, Shortened
  <1> QED BY <1>4, <1>5

\* A Vmk function with no pending variables returns.
LEMMA FinishClosable ==
  ASSUME NEW C, Sound(C, ci, status, cc, nny), C # <<>>, NEW t, t = Last(C).th,
         Last(C).op # "close", ci[t] # <<>>, Finish(t, ci[t], C),
         NEW L \in MarkLists, Closable(C, ci, L), \A p \in ToSet(L[t]) : p.at <= Last(ci[t]).base,
         Good(cs', ci')
  PROVE  Closable(cs', ci', L)
  <1> DEFINE s == ci[t]
             q == Front(s)
  <1>1. /\ C \in Seq(Activation) /\ Shape(C) /\ t \in Threads /\ ci \in FrameMap /\ s \in Seq(Frame)
        /\ L[t] \in Seq(Marks) /\ Pending(C, s, L[t], t) /\ Good(C, ci)
        /\ Len(C) \in Nat \ {0} /\ Last(C) = C[Len(C)] /\ Last(C) \in Activation
    <2>1. C \in Seq(Activation) /\ Shape(C) /\ t \in Threads /\ ci \in FrameMap
          /\ Last(C) = C[Len(C)] /\ Last(C) \in Activation
      BY SoundMid, RunningFacts
    <2> QED BY <2>1, Shortened DEF FrameMap, MarkLists, Closable, Sound
  <1>2. Front(C) = SubSeq(C, 1, Len(C) - 1) /\ Front(C) \in Seq(Activation) /\ Len(Front(C)) = Len(C) - 1
        /\ (Len(C) > 1 => Last(Front(C)) = C[Len(C) - 1] /\ Front(C) # <<>>)
    BY <1>1, Shortened
  <1> DEFINE Left2(n, r) == /\ n \in 0..Len(C) /\ \A i \in (n+1)..Len(C) : C[i].op # "close"
                            /\ ci' = [ci EXCEPT ![t] = r] /\ cs' = SubSeq(C, 1, n)
  <1>3. ASSUME NEW n, NEW r, Left2(n, r), \A D : Kept(C, D, t) => Pending(D, r, L[t], t) /\ Keeps(r, s)
        PROVE  Closable(cs', ci', L)
    <2>1. \A u : Kept(C, cs', u)
      BY <1>1, <1>3, KeptPrefix
    <2>2. Grown(cs', C, ci')
      BY <1>1, <1>3, GrownPrefix
    <2>3. /\ Pending(cs', r, L[t], t) /\ Keeps(r, ci[t]) /\ ci' = [ci EXCEPT ![t] = r]
          /\ \A u \in Threads : u # t => L[u] = L[u] /\ Kept(C, cs', u)
      BY <1>3, <2>1
    <2> QED BY ONLY <1>1, <2>2, <2>3, Good(cs', ci'), Closable(C, ci, L), ClosableChange
  <1>4. \A D : Kept(C, D, t) => /\ Pending(D, ReturnC(s), L[t], t) /\ Keeps(ReturnC(s), s)
                                /\ Pending(D, q, L[t], t) /\ Keeps(q, s)
    BY <1>1, PendingReturnC
  <1>5. SubSeq(C, 1, Len(C)) = C /\ Len(C) \in 0..Len(C)
    BY <1>1
  <1>6. CASE ~Last(s).fresh
    <2>1. ci' = [ci EXCEPT ![t] = ReturnC(s)] /\ cs' = C
      BY <1>6 DEF Finish, ReturnC
    <2>2. Left2(Len(C), ReturnC(s))
      BY <2>1, <1>5, <1>1
    <2> HIDE DEF Left2, s
    <2> QED BY <1>3, <1>4, <2>2
  <1>7. CASE Last(s).fresh /\ Last(C).op = "raw"
    <2>1. ci' = [ci EXCEPT ![t] = q] /\ cs' = C
      BY <1>7 DEF Finish
    <2>2. Left2(Len(C), q)
      BY <2>1, <1>5, <1>1
    <2> HIDE DEF Left2, s, q
    <2> QED BY <1>3, <1>4, <2>2
  <1>8. CASE Last(s).fresh /\ Last(C).op = "call"
    <2> DEFINE b == C[Len(C) - 1]
               r == IF b.op = "close" THEN q ELSE AfterCall(q)
    <2>1. Len(C) > 1 /\ Last(Front(C)) = b
      BY <1>8, <1>2, CallTop
    <2>2. /\ ci' = [ci EXCEPT ![t] = r]
          /\ cs' = IF b.op = "raw" /\ b.job = "pcall" THEN Front(Front(C)) ELSE Front(C)
      BY <1>8, <2>1 DEF Finish, AfterCall
    <2>3. Front(Front(C)) = SubSeq(C, 1, Len(C) - 2)
      <3>1. Front(Front(C)) = SubSeq(Front(C), 1, Len(Front(C)) - 1)
        BY <1>2, <2>1, Shortened
      <3>2. SubSeq(SubSeq(C, 1, Len(C) - 1), 1, Len(C) - 2) = SubSeq(C, 1, Len(C) - 2)
        BY <1>1, <2>1
      <3> QED BY <3>1, <3>2, <1>2
    <2>4. \E n \in 0..Len(C) : Left2(n, r)
      <3>1. CASE b.op = "raw" /\ b.job = "pcall"
        <4>1. cs' = SubSeq(C, 1, Len(C) - 2)
          BY <2>2, <2>3, <3>1
        <4>2. \A i \in (Len(C) - 1)..Len(C) : C[i].op # "close"
          BY <3>1, <1>8, <1>1
        <4>3. Len(C) - 2 \in 0..Len(C) /\ (Len(C) - 2) + 1 = Len(C) - 1
          BY <2>1, <1>1
        <4>4. Left2(Len(C) - 2, r)
          BY ONLY <4>1, <4>2, <4>3, <2>2
        <4> HIDE DEF r, Left2
        <4> QED BY <4>3, <4>4
      <3>2. CASE ~(b.op = "raw" /\ b.job = "pcall")
        <4>1. cs' = SubSeq(C, 1, Len(C) - 1)
          BY <2>2, <1>2, <3>2
        <4>2. Len(C) - 1 \in 0..Len(C) /\ (Len(C) - 1) + 1 = Len(C) /\ \A i \in Len(C)..Len(C) : C[i].op # "close"
          BY <2>1, <1>1, <1>8
        <4>3. Left2(Len(C) - 1, r)
          BY ONLY <4>1, <4>2, <2>2
        <4> HIDE DEF r, Left2
        <4> QED BY <4>2, <4>3
      <3> QED BY <3>1, <3>2
    <2>5. \A D : Kept(C, D, t) => Pending(D, r, L[t], t) /\ Keeps(r, s)
      <3>1. CASE b.op = "close"
        BY <1>4, <3>1
      <3>2. CASE b.op # "close"
        <4>1. q # <<>> /\ q \in Seq(Frame) /\ (Last(q).fn # "call" => Idle(Last(q)))
          BY <1>8, <3>2, CallerIdle
        <4>2. r = AfterCall(q)
          BY <3>2
        <4> HIDE DEF r
        <4>3. Pending(C, q, L[t], t) /\ Keeps(q, s)
          BY <1>4, KeptItself
        <4> HIDE DEF q
        <4>4. ASSUME NEW D, Kept(C, D, t) PROVE Pending(D, r, L[t], t) /\ Keeps(r, q)
          <5>1. CASE Last(q).fn = "call"
            <6>1. r = [q EXCEPT ![Len(q)].pc = "returning"]
              BY <4>2, <5>1 DEF AfterCall
            <6> QED BY ONLY <6>1, <4>1, <4>3, <4>4, <1>1, PendingPc
          <5>2. CASE Last(q).fn # "call"
            <6>1. r = ReturnC(q) /\ Idle(Last(q))
              BY <4>1, <4>2, <5>2 DEF AfterCall
            <6> QED BY ONLY <6>1, <4>1, <4>3, <4>4, <1>1, PendingReturnC
          <5> QED BY <5>1, <5>2
        <4>5. \A k : k \in DOMAIN r => k \in DOMAIN q
          <5>1. Cut(r, q)
            BY <4>1, <4>2, CutPc, CutReturnC DEF AfterCall
          <5> QED BY <5>1, <4>1 DEF Cut
        <4> QED BY <4>3, <4>4, <4>5, KeptItself DEF Keeps
      <3> QED BY <3>1, <3>2
    <2> HIDE DEF Left2, s, q, r
    <2> QED BY <1>3, <2>4, <2>5
  <1>9. Last(C).op \in {"raw", "call"}
    BY <1>1, ActivationFields
  <1> QED BY <1>6, <1>7, <1>8, <1>9

-----------------------------------------------------------------------------
(* The running function. *)

\* What the invariants tell of the pending variables.
LEMMA ClosableNow ==
  ASSUME Core, Closable(cs, ci, tbclist)
  PROVE  /\ tbclist \in MarkLists /\ Good(cs, ci) /\ ci \in FrameMap /\ cs \in Seq(Activation) /\ Shape(cs)
         /\ Sound(cs, ci, status, cc, nny)
         /\ \A t \in Threads : /\ tbclist[t] \in Seq(Marks) /\ ci[t] \in Seq(Frame)
                               /\ Pending(cs, ci[t], tbclist[t], t)
                               /\ [ci EXCEPT ![t] = ci[t]] = ci
  <1>1. tbclist \in MarkLists /\ Sound(cs, ci, status, cc, nny)
    BY DEF Core, TypeOK, MarkLists, Marks
  <1>2. Good(cs, ci) /\ ci \in FrameMap /\ cs \in Seq(Activation) /\ Shape(cs)
    BY <1>1 DEF Sound, Good
  <1> QED BY <1>1, <1>2 DEF MarkLists, Closable, FrameMap

\* A step of one thread, seen from the invariants.
LEMMA ChangeHere ==
  ASSUME Core, Closable(cs, ci, tbclist), NEW t \in Threads, NEW r, NEW G, G = [ci EXCEPT ![t] = r],
         NEW D, Good(D, G), Grown(D, cs, G), NEW M, Keeps(r, ci[t]), Pending(D, r, M[t], t),
         \A u \in Threads : u # t => M[u] = tbclist[u] /\ Kept(cs, D, u)
  PROVE  Closable(D, G, M)
  <1>1. Good(cs, ci)
    BY ClosableNow
  <1>2. Keeps(r, ci[t])
    OBVIOUS
  <1>3. /\ Closable(cs, ci, tbclist) /\ G = [ci EXCEPT ![t] = r] /\ Good(D, G) /\ Grown(D, cs, G)
        /\ Pending(D, r, M[t], t) /\ t \in Threads
        /\ \A u \in Threads : u # t => M[u] = tbclist[u] /\ Kept(cs, D, u)
    OBVIOUS
  <1> QED BY ONLY <1>1, <1>2, <1>3, ClosableChange, ZenonT(60)

\* The stack of the running function is above its base and all that is pending.
LEMMA NextBaseAbove ==
  ASSUME Core, Closable(cs, ci, tbclist), NEW t, Interp(t)
  PROVE  /\ NextBase(t) \in Nat \ {0} /\ Last(ci[t]).base \in Nat /\ Last(ci[t]).base < NextBase(t)
         /\ \A p \in ToSet(tbclist[t]) : p.at < NextBase(t)
  <1> DEFINE l == tbclist[t]
             b == Last(ci[t]).base
  <1>1. /\ t \in Threads /\ NextBase(t) \in Nat \ {0} /\ ci[t] \in Seq(Frame) /\ ci[t] # <<>>
    BY InterpFacts
  <1>2. l \in Seq(Marks) /\ Rising(l)
    BY <1>1, ClosableNow DEF Pending
  <1>3. b \in Nat
    BY <1>1, Shortened, FrameFields
  <1>4. l # <<>> => Last(l).at \in Nat
    <2>1. l # <<>> => Last(l) \in Marks
      BY <1>2, Shortened
    <2> QED BY <2>1 DEF Marks
  <1>5. NextBase(t) = 1 + (IF l # <<>> /\ Last(l).at >= b THEN Last(l).at ELSE b)
    BY DEF NextBase, HasPending, Cur
  <1> HIDE DEF l, b
  <1>6. b < NextBase(t)
    BY <1>3, <1>4, <1>5
  <1>7. NextBase(t) \in Nat /\ ~(l # <<>> /\ Last(l).at >= NextBase(t))
    BY <1>3, <1>4, <1>5
  <1>8. \A p \in ToSet(l) : p.at < NextBase(t)
    BY ONLY <1>2, <1>7, RisingLast
  <1> QED BY <1>1, <1>3, <1>6, <1>8 DEF l, b

\* The running function calls: its frame waits, and a new one is over it.
LEMMA CallingClosable ==
  ASSUME Core, Closable(cs, ci, tbclist), NEW t, Interp(t), NEW f \in Frame, f.base = NextBase(t),
         NEW r, r = WithCall(ci[t], f)
  PROVE  /\ t \in Threads /\ r \in Seq(Frame) /\ r # <<>> /\ Last(r) = f /\ Len(r) = Len(ci[t]) + 1
         /\ r[Len(r)] = f /\ Len(r) \in DOMAIN r
         /\ Pending(cs, r, tbclist[t], t) /\ Keeps(r, ci[t])
  <1> DEFINE w == Waits(ci[t])
  <1>1. /\ t \in Threads /\ ci[t] \in Seq(Frame) /\ ci[t] # <<>> /\ tbclist[t] \in Seq(Marks)
        /\ Pending(cs, ci[t], tbclist[t], t)
    BY InterpFacts, ClosableNow
  <1>2. w = [ci[t] EXCEPT ![Len(ci[t])].pc = "wait"]
    BY DEF Waits
  <1>3. Pending(cs, w, tbclist[t], t) /\ Keeps(w, ci[t])
    BY <1>1, <1>2, PendingPc, KeptItself
  <1>4. Cut(w, ci[t]) /\ Len(w) = Len(ci[t]) /\ w # <<>> /\ Last(w).base = Last(ci[t]).base
    BY <1>1, <1>2, CutPc
  <1>5. w \in Seq(Frame)
    BY <1>4 DEF Cut
  <1>6. Last(w).base < f.base
    BY <1>4, NextBaseAbove
  <1> HIDE DEF w
  <1>7. r = Append(w, f)
    BY DEF WithCall, w
  <1>8. Pending(cs, r, tbclist[t], t) /\ Keeps(r, w)
    BY <1>3, <1>5, <1>6, <1>7, PendingPush
  <1>9. /\ r \in Seq(Frame) /\ r # <<>> /\ Last(r) = f /\ Len(r) = Len(w) + 1 /\ r[Len(r)] = f
        /\ DOMAIN r = 1..(Len(w) + 1) /\ DOMAIN w = 1..Len(w) /\ Len(w) \in Nat
    BY <1>5, <1>7, Appended
  <1>10. Keeps(r, ci[t])
    <2>1. DOMAIN ci[t] = DOMAIN w
      BY <1>1, <1>4, <1>9
    <2>2. DOMAIN w \subseteq DOMAIN r
      BY <1>9
    <2> QED BY <2>1, <2>2, <1>3, <1>8 DEF Keeps
  <1> QED BY <1>1, <1>4, <1>8, <1>9, <1>10

\* A variable is marked above all that is pending.
LEMMA PendingMark ==
  ASSUME NEW C, NEW s, NEW l \in Seq(Marks), NEW t, Pending(C, s, l, t), NEW m \in Marks,
         \A p \in ToSet(l) : p.at < m.at, Owned(s, m)
  PROVE  Pending(C, s, Append(l, m), t)
  <1> DEFINE k == Append(l, m)
  <1>1. /\ Len(l) \in Nat /\ DOMAIN k = 1..(Len(l) + 1) /\ k[Len(l) + 1] = m /\ DOMAIN l = 1..Len(l)
        /\ \A i \in 1..Len(l) : k[i] = l[i] /\ l[i] \in ToSet(l)
    BY Appended DEF ToSet
  <1> HIDE DEF k
  <1>2. Rising(k)
    <2> SUFFICES ASSUME NEW i \in DOMAIN k, NEW j \in DOMAIN k, i < j PROVE k[i].at < k[j].at
      BY DEF Rising
    <2>1. i \in 1..Len(l) /\ (j = Len(l) + 1 \/ j \in 1..Len(l))
      BY <1>1
    <2> QED BY <2>1, <1>1 DEF Pending, Rising
  <1>3. \A p \in ToSet(k) : p = m \/ p \in ToSet(l)
    BY <1>1 DEF ToSet
  <1> QED BY <1>2, <1>3 DEF Pending, Covered, k

\* OP_CALL of a Vmk function.
LEMMA CallVmkClosable ==
  ASSUME Core, Closable(cs, ci, tbclist), NEW t, CallVmk(t), Good(cs', ci')
  PROVE  Closable(cs', ci', tbclist')
  <1> DEFINE f == VmkFrame(NextBase(t), FALSE)
             r == WithCall(ci[t], f)
  <1>1. Interp(t) /\ ci' = [ci EXCEPT ![t] = r] /\ cs' = cs /\ tbclist' = tbclist
    BY DEF CallVmk, WithCall, Waits, Waiting
  <1>2. f \in Frame /\ f.base = NextBase(t)
    BY <1>1, NextBaseAbove DEF VmkFrame, Frame
  <1> HIDE DEF f
  <1>3. t \in Threads /\ Pending(cs, r, tbclist[t], t) /\ Keeps(r, ci[t])
    BY <1>1, <1>2, CallingClosable
  <1> HIDE DEF r
  <1> QED BY <1>1, <1>3, KeptItself, GrownItself, ChangeHere

\* vmkF_newtbcupval.
LEMMA NewTbcClosable ==
  ASSUME Core, Closable(cs, ci, tbclist), NEW t, NEW v \in Vars, NewTbc(t, v), Good(cs', ci')
  PROVE  Closable(cs', ci', tbclist')
  <1> DEFINE m == Mark(v, NextBase(t), Len(ci[t]))
             s == ci[t]
  <1>1. Interp(t) /\ ci' = ci /\ cs' = cs /\ tbclist' = [tbclist EXCEPT ![t] = Append(@, m)]
    BY DEF NewTbc
  <1>2. /\ t \in Threads /\ s \in Seq(Frame) /\ s # <<>> /\ Len(s) \in Nat \ {0} /\ Last(s).fn = "vmk"
        /\ [ci EXCEPT ![t] = s] = ci
    BY <1>1, InterpFacts
  <1>3. m \in Marks /\ m.at = NextBase(t) /\ m.frame = Len(s)
    BY <1>1, <1>2, NextBaseAbove DEF Mark, Marks
  <1> HIDE DEF m
  <1>4. /\ tbclist[t] \in Seq(Marks) /\ Pending(cs, s, tbclist[t], t) /\ tbclist'[t] = Append(tbclist[t], m)
        /\ \A u \in Threads : u # t => tbclist'[u] = tbclist[u]
    BY <1>1, <1>2, ClosableNow DEF MarkLists
  <1>5. Owned(s, m)
    <2>1. Last(s) = s[Len(s)] /\ Len(s) \in DOMAIN s
      BY <1>2, Shortened
    <2>2. Last(s).base < NextBase(t)
      BY <1>1, NextBaseAbove
    <2> QED BY <1>2, <1>3, <2>1, <2>2 DEF Owned
  <1>6. Pending(cs, s, tbclist'[t], t) /\ Keeps(s, s)
    BY <1>1, <1>3, <1>4, <1>5, NextBaseAbove, PendingMark DEF Keeps
  <1> HIDE DEF s
  <1> QED BY <1>1, <1>2, <1>4, <1>6, KeptItself, GrownItself, ChangeHere DEF s

\* vmkB_pcall, vmk_pcallk.
LEMMA PCallClosable ==
  ASSUME Core, Closable(cs, ci, tbclist), NEW t, PCall(t), Good(cs', ci')
  PROVE  Closable(cs', ci', tbclist')
  <1> DEFINE g == CFrame(NextBase(t), "pcall")
             s == WithC(t, "pcall")
             b == NextBase(t) + 1
  <1>1. /\ Interp(t) /\ cs # <<>> /\ t = Last(cs).th /\ Last(cs).op # "close" /\ t \in Threads
        /\ ci \in FrameMap /\ ci[t] # <<>> /\ Last(ci[t]).fn = "vmk" /\ ci[t] \in Seq(Frame)
        /\ Runner(Last(cs)) /\ NextBase(t) \in Nat \ {0} /\ tbclist' = tbclist
    BY InterpFacts DEF PCall
  <1>2. Sound(cs, ci, status, cc, nny) /\ tbclist \in MarkLists /\ cs \in Seq(Activation)
    BY ClosableNow
  <1>3. /\ g \in Frame /\ PcOf(g) /\ ~g.fresh /\ ~g.ypcall /\ g.fn = "pcall" /\ g.base = NextBase(t)
        /\ b \in Nat \ {0} /\ NextBase(t) < b
    <2>1. g \in Frame /\ PcOf(g) /\ ~g.fresh /\ ~g.ypcall /\ g.fn = "pcall"
      BY <1>1, CFrameFacts
    <2>2. g.base = NextBase(t)
      BY DEF CFrame
    <2> QED BY <1>1, <2>1, <2>2
  <1>4. IF Yieldable(t) THEN Enter(t, [s EXCEPT ![Len(s)].ypcall = TRUE], cs, b, 0)
        ELSE Enter(t, s, Append(cs, Raw(t, "pcall", Len(s), cc[t], nny[t])), b, 1)
    BY DEF PCall
  <1>5. s = WithCall(ci[t], g)
    BY <1>1, InterpFacts
  <1> HIDE DEF g, s, b
  <1>6. CASE Yieldable(t)
    <2> DEFINE f == [g EXCEPT !.ypcall = TRUE]
               r == [s EXCEPT ![Len(s)].ypcall = TRUE]
               F == [ci EXCEPT ![t] = r]
    <2>1. f \in Frame /\ PcOf(f) /\ ~f.fresh /\ f.fn = "pcall" /\ f.base = NextBase(t)
      BY <1>3 DEF Frame, PcOf
    <2>2. \A k \in DOMAIN ci[t] : ~Blocking(ci[t][k])
      <3>1. nny[t] = 0
        BY <1>6 DEF Yieldable
      <3> QED BY ONLY <3>1, <1>1, <1>2, YieldableFree
    <2>3. r = WithCall(ci[t], f)
      <3>2. Waits(ci[t]) \in Seq(Frame)
        BY <1>1, LastAt DEF Waits, Trimmed
      <3>3. f \in Frame /\ g \in Frame /\ s = Append(Waits(ci[t]), g)
        BY <1>5, <1>3, <2>1 DEF WithCall
      <3>4. r = Append(Waits(ci[t]), f)
        BY ONLY <3>2, <3>3, LastMarked DEF f, r
      <3> QED BY <3>4 DEF WithCall
    <2>4. Enter(t, r, cs, b, 0)
      BY <1>4, <1>6
    <2> HIDE DEF f, r
    <2>5. Mid(cs, F, status, cc, nny, t)
      <3>1. f.ypcall => f.fn = "pcall" /\ \A k \in DOMAIN ci[t] : ~Blocking(ci[t][k])
        BY <2>1, <2>2
      <3> QED BY ONLY <1>1, <1>2, <2>1, <3>1, <2>3, MidCalls
    <2>6. Last(r).base < b /\ Pending(cs, r, tbclist[t], t) /\ Keeps(r, ci[t])
      BY <1>1, <1>3, <2>1, <2>3, CallingClosable
    <2>7. Good(cs, F)
      BY <2>5 DEF Mid
    <2>8. Closable(cs, F, tbclist)
      BY <1>1, <2>6, <2>7, KeptItself, GrownItself, ChangeHere
    <2>9. ci \in FrameMap /\ 0 \in {0, 1} /\ (r # <<>> => Last(r).base < b) /\ F = [ci EXCEPT ![t] = r]
      BY <1>1, <2>6
    <2>10. Closable(cs', ci', tbclist)
      BY ONLY <1>2, <1>3, <2>4, <2>5, <2>8, <2>9, Good(cs', ci'), EnterClosable
    <2> QED BY <1>1, <2>10
  <1>7. CASE ~Yieldable(t)
    <2> DEFINE F == [ci EXCEPT ![t] = s]
               a == Raw(t, "pcall", Len(s), cc[t], nny[t])
               D == Append(cs, a)
    <2>1. /\ Mid(cs, F, status, cc, nny, t) /\ Last(s) = g /\ s # <<>> /\ Len(s) > Last(cs).depth
          /\ s \in Seq(Frame)
      BY ONLY <1>1, <1>2, <1>3, <1>5, MidCalls
    <2>2. F[t] = s /\ F \in FrameMap
      BY <1>1, <2>1 DEF FrameMap
    <2>3. Mid(D, F, status, cc, nny, t)
      BY <1>1, <1>3, <2>1, <2>2, MidPcall
    <2>4. Last(s).base < b /\ Pending(cs, s, tbclist[t], t) /\ Keeps(s, ci[t])
      BY <1>1, <1>3, <1>5, CallingClosable
    <2>5. a \in Activation /\ a.op # "close"
      <3>1. Len(s) \in Nat /\ cc[t] \in Nat /\ nny[t] \in Nat
        BY <1>1, <2>1 DEF Core, TypeOK
      <3> QED BY <3>1, <1>1 DEF Raw, Activation
    <2> HIDE DEF a
    <2>6. Grown(D, cs, F) /\ \A u : Kept(cs, D, u)
      BY <1>2, <2>5, KeptItself, KeptAppend, GrownItself, GrownAppend
    <2>7. Pending(D, s, tbclist[t], t)
      BY <2>4, <2>6, PendingSame
    <2>8. Enter(t, s, D, b, 1)
      BY <1>4, <1>7 DEF a
    <2> HIDE DEF D
    <2>9. Good(D, F)
      BY <2>3 DEF Mid
    <2>10. Closable(D, F, tbclist)
      BY <1>1, <2>4, <2>6, <2>7, <2>9, ChangeHere
    <2>11. ci \in FrameMap /\ 1 \in {0, 1} /\ (s # <<>> => Last(s).base < b) /\ F = [ci EXCEPT ![t] = s]
      BY <1>1, <2>4
    <2>12. Closable(cs', ci', tbclist)
      BY ONLY <1>2, <1>3, <2>3, <2>8, <2>10, <2>11, Good(cs', ci'), EnterClosable
    <2> QED BY <1>1, <2>12
  <1> QED BY <1>6, <1>7

\* A C function, with a variable or without, that calls back.
LEMMA CallCClosable ==
  ASSUME Core, Closable(cs, ci, tbclist), NEW t,
         NEW vs, vs = <<>> \/ \E v \in Vars : vs = <<v>>, CallC(t, vs), Good(cs', ci')
  PROVE  Closable(cs', ci', tbclist')
  <1> DEFINE f == CFrame(NextBase(t), "call")
             r == WithC(t, "call")
             b == NextBase(t) + Len(vs) + 1
             F == [ci EXCEPT ![t] = r]
  <1>1. Interp(t) /\ Enter(t, r, cs, b, 1) /\ NextBase(t) \in Nat \ {0} /\ r = WithCall(ci[t], f)
        /\ t \in Threads /\ ci \in FrameMap
    BY InterpFacts DEF CallC
  <1>2. f \in Frame /\ f.base = NextBase(t) /\ f.fn = "call" /\ b \in Nat \ {0} /\ NextBase(t) < b
    <2>1. f \in Frame /\ f.fn = "call"
      BY <1>1, CFrameFacts
    <2>2. f.base = NextBase(t)
      BY DEF CFrame
    <2>3. Len(vs) \in Nat
      OBVIOUS
    <2> QED BY <1>1, <2>1, <2>2, <2>3
  <1>3. Mid(cs, F, status, cc, nny, t)
    BY <1>1, PlainWithC
  <1> HIDE DEF f, r, b
  <1>4. /\ r \in Seq(Frame) /\ r # <<>> /\ Last(r) = f /\ r[Len(r)] = f /\ Len(r) \in DOMAIN r
        /\ Len(r) = Len(ci[t]) + 1 /\ Pending(cs, r, tbclist[t], t) /\ Keeps(r, ci[t])
    BY <1>1, <1>2, CallingClosable
  <1>5. tbclist \in MarkLists /\ tbclist[t] \in Seq(Marks)
    BY <1>1, ClosableNow
  <1>6. /\ tbclist' \in MarkLists /\ Pending(cs, r, tbclist'[t], t)
        /\ \A u \in Threads : u # t => tbclist'[u] = tbclist[u]
    <2>1. tbclist' = [tbclist EXCEPT ![t] =
                        @ \o [i \in 1..Len(vs) |-> Mark(vs[i], NextBase(t) + i, Len(ci[t]) + 1)]]
      BY DEF CallC
    <2>2. CASE vs = <<>>
      <3>1. [i \in 1..Len(vs) |-> Mark(vs[i], NextBase(t) + i, Len(ci[t]) + 1)] = <<>>
        BY <2>2
      <3>2. tbclist' = [tbclist EXCEPT ![t] = tbclist[t]]
        <4>1. tbclist[t] \o <<>> = tbclist[t]
          BY <1>5
        <4> QED BY <2>1, <3>1, <4>1
      <3>3. tbclist' = tbclist
        BY <3>2, <1>5 DEF MarkLists
      <3> QED BY <3>3, <1>4, <1>5
    <2>3. CASE \E v \in Vars : vs = <<v>>
      <3>1. PICK v \in Vars : vs = <<v>>
        BY <2>3
      <3> DEFINE m == Mark(v, NextBase(t) + 1, Len(ci[t]) + 1)
      <3>2. [i \in 1..Len(vs) |-> Mark(vs[i], NextBase(t) + i, Len(ci[t]) + 1)] = <<m>>
        BY <3>1
      <3>3. m \in Marks /\ m.at = NextBase(t) + 1 /\ m.frame = Len(r)
        BY <1>1, <1>4 DEF Mark, Marks
      <3> HIDE DEF m
      <3>4. tbclist[t] \o <<m>> = Append(tbclist[t], m) /\ Append(tbclist[t], m) \in Seq(Marks)
        BY <1>5, <3>3
      <3>5. tbclist' = [tbclist EXCEPT ![t] = Append(tbclist[t], m)]
        BY <2>1, <3>2, <3>4
      <3>6. Owned(r, m)
        BY <1>1, <1>2, <1>4, <3>3 DEF Owned
      <3>7. \A p \in ToSet(tbclist[t]) : p.at < m.at
        <4> SUFFICES ASSUME NEW p \in ToSet(tbclist[t]) PROVE p.at < m.at
          OBVIOUS
        <4>1. p.at < NextBase(t) /\ p.at \in Nat
          BY <1>1, <1>5, NextBaseAbove, ListOf
        <4> QED BY <4>1, <1>1, <3>3
      <3>8. Pending(cs, r, Append(tbclist[t], m), t)
        BY <1>4, <1>5, <3>3, <3>6, <3>7, PendingMark
      <3> QED BY <3>4, <3>5, <3>8, <1>1, <1>5 DEF MarkLists
    <2> QED BY <2>2, <2>3
  <1>7. Good(cs, F)
    BY <1>3 DEF Mid
  <1>8. Closable(cs, F, tbclist')
    BY <1>1, <1>4, <1>6, <1>7, KeptItself, GrownItself, ChangeHere
  <1>9. 1 \in {0, 1} /\ (r # <<>> => Last(r).base < b) /\ F = [ci EXCEPT ![t] = r]
    BY <1>2, <1>4
  <1> QED BY ONLY <1>1, <1>2, <1>3, <1>6, <1>8, <1>9, Good(cs', ci'), EnterClosable

-----------------------------------------------------------------------------
(* Errors, and closes that start. *)

\* The running thread throws from its own frames.
LEMMA ThrowHere ==
  ASSUME Core, Closable(cs, ci, tbclist), cs # <<>>, NEW t, t = Last(cs).th, NEW x,
         Throw(t, ci[t], cs, x), Good(cs', ci')
  PROVE  Closable(cs', ci', tbclist)
  <1>1. Mid(cs, ci, status, cc, nny, t)
    BY SoundMid DEF Core
  <1>2. ci \in FrameMap /\ t \in Threads /\ tbclist \in MarkLists
    BY <1>1, RunningFacts, ClosableNow
  <1>3. ci = [ci EXCEPT ![t] = ci[t]]
    BY <1>2, ClosableNow
  <1> QED BY ONLY <1>1, <1>2, <1>3, Throw(t, ci[t], cs, x), Closable(cs, ci, tbclist), Good(cs', ci'),
             ThrowClosable

\* vmkB_yield, where the thread can yield and where it cannot.
LEMMA YieldClosable ==
  ASSUME Core, Closable(cs, ci, tbclist), NEW t, Yield(t), Good(cs', ci')
  PROVE  Closable(cs', ci', tbclist)
  <1> DEFINE f == CFrame(NextBase(t), "yield")
             r == WithC(t, "yield")
             F == [ci EXCEPT ![t] = r]
             x == IF Yieldable(t) THEN "yield" ELSE "err"
  <1>1. /\ Interp(t) /\ t \in Threads /\ ci \in FrameMap /\ r = WithCall(ci[t], f) /\ NextBase(t) \in Nat \ {0}
        /\ Throw(t, r, cs, x)
    BY InterpFacts DEF Yield
  <1>2. f \in Frame /\ f.base = NextBase(t)
    <2>1. f \in Frame
      BY <1>1, CFrameFacts
    <2> QED BY <2>1 DEF CFrame
  <1>3. Mid(cs, F, status, cc, nny, t)
    BY <1>1, PlainWithC
  <1> HIDE DEF f, r, x
  <1>4. Pending(cs, r, tbclist[t], t) /\ Keeps(r, ci[t])
    BY <1>1, <1>2, CallingClosable
  <1>5. Good(cs, F) /\ tbclist \in MarkLists
    BY <1>3, ClosableNow DEF Mid
  <1>6. Closable(cs, F, tbclist)
    BY <1>1, <1>4, <1>5, KeptItself, GrownItself, ChangeHere
  <1>7. F = [ci EXCEPT ![t] = r]
    OBVIOUS
  <1> QED BY ONLY <1>1, <1>3, <1>5, <1>6, <1>7, Good(cs', ci'), ThrowClosable

\* vmkF_close, which can yield, for the last frame of the running thread.
LEMMA ClosesClosable ==
  ASSUME Core, Closable(cs, ci, tbclist), NEW t \in Threads, ci[t] # <<>>,
         NEW r, r = ci[t] \/ (\E x \in {"closing", "returning"} : r = [ci[t] EXCEPT ![Len(ci[t])].pc = x])
                          \/ r = [ci[t] EXCEPT ![Len(ci[t])].clsret = TRUE],
         ci' = [ci EXCEPT ![t] = r],
         cs' = Append(cs, FClose(t, Len(ci[t]), LevelOf(Last(ci[t])), TRUE)), Good(cs', ci')
  PROVE  Closable(cs', ci', tbclist)
  <1> DEFINE s == ci[t]
             lvl == LevelOf(Last(s))
             e == FClose(t, Len(s), lvl, TRUE)
  <1>1. /\ s \in Seq(Frame) /\ s # <<>> /\ Len(s) \in Nat \ {0} /\ DOMAIN s = 1..Len(s) /\ Last(s) = s[Len(s)]
        /\ Last(s) \in Frame /\ tbclist[t] \in Seq(Marks) /\ Pending(cs, s, tbclist[t], t)
        /\ ci \in FrameMap /\ cs \in Seq(Activation)
    BY ClosableNow, Shortened
  <1>2. lvl \in Nat \ {0}
    BY <1>1, FrameFields DEF LevelOf
  <1>s. /\ r = s \/ (\E x \in {"closing", "returning"} : r = [s EXCEPT ![Len(s)].pc = x])
                 \/ r = [s EXCEPT ![Len(s)].clsret = TRUE]
        /\ cs' = Append(cs, e) /\ lvl = LevelOf(Last(s)) /\ s = ci[t]
    OBVIOUS
  <1> HIDE DEF lvl, s
  <1>3. e \in Activation /\ e.level = lvl /\ e.depth = Len(s) /\ e.th = t
    BY <1>1, <1>2 DEF FClose, Activation
  <1>4. cs' = Append(cs, e)
    BY <1>s
  <1> HIDE DEF e
  <1>5. \A u : Kept(cs, cs', u)
    BY ONLY <1>1, <1>3, <1>4, KeptItself, KeptAppend
  <1>6. Pending(cs', r, tbclist[t], t) /\ Keeps(r, s) /\ Len(s) \in DOMAIN r
    <2>1. CASE r = s
      BY ONLY <2>1, <1>1, <1>5, PendingSame
    <2>2. CASE \/ \E x \in {"closing", "returning"} : r = [s EXCEPT ![Len(s)].pc = x]
               \/ r = [s EXCEPT ![Len(s)].clsret = TRUE]
      <3>1. PICK x \in {"closing", "returning"} : r = [s EXCEPT ![Len(s)].pc = x] \/ r = [s EXCEPT ![Len(s)].clsret = TRUE]
        BY <2>2
      <3>2. x \in {"run", "wait", "closing", "returning", "raise"}
        OBVIOUS
      <3>3. Pending(cs', r, tbclist[t], t) /\ Keeps(r, s)
        BY ONLY <3>1, <3>2, <1>1, <1>5, PendingPc
      <3>4. Cut(r, s) /\ Len(r) = Len(s)
        <4>1. \A l : Cut(r, s) /\ Done(r, s, l) /\ Len(r) = Len(s)
          BY ONLY <3>1, <3>2, <1>1, CutPc, ZenonT(60)
        <4> QED BY <4>1
      <3>5. r \in Seq(Frame)
        BY <3>4 DEF Cut
      <3>6. Len(s) \in DOMAIN r
        BY ONLY <3>4, <3>5, <1>1
      <3> QED BY <3>3, <3>6
    <2> QED BY <2>1, <2>2, <1>s
  <1>7. lvl = Level(Len(s), r)
    <2>1. r[Len(s)].fn = s[Len(s)].fn /\ r[Len(s)].base = s[Len(s)].base
      BY <1>1, <1>6 DEF Keeps
    <2> QED BY <2>1, <1>1, <1>s DEF Level, LevelOf
  <1>8. ci'[t] = r
    BY <1>1 DEF FrameMap
  <1>9. Grown(cs', cs, ci')
    BY ONLY <1>1, <1>3, <1>4, <1>7, <1>8, GrownItself, GrownAppend
  <1>10. Pending(cs', r, tbclist[t], t) /\ Keeps(r, ci[t])
    BY <1>6, <1>s
  <1> QED BY <1>5, <1>9, <1>10, ChangeHere

\* What no variable of the last frame is left for.
LEMMA NonePending ==
  ASSUME Core, Closable(cs, ci, tbclist), NEW t \in Threads, NEW b \in Nat, ~HasPending(t, b)
  PROVE  \A p \in ToSet(tbclist[t]) : p.at \in Nat \ {0} /\ p.at < b /\ p.at <= b
  <1>1. tbclist[t] \in Seq(Marks) /\ Rising(tbclist[t])
    BY ClosableNow DEF Pending
  <1>2. ~(tbclist[t] # <<>> /\ Last(tbclist[t]).at >= b)
    BY DEF HasPending
  <1> SUFFICES ASSUME NEW p \in ToSet(tbclist[t]) PROVE p.at \in Nat \ {0} /\ p.at < b /\ p.at <= b
    OBVIOUS
  <1>3. p.at < b
    BY <1>1, <1>2, RisingLast
  <1>4. p.at \in Nat \ {0}
    BY <1>1, ListOf
  <1> QED BY <1>3, <1>4

\* OP_CLOSE and OP_RETURN.
LEMMA EndsClosable ==
  ASSUME Core, Closable(cs, ci, tbclist), NEW t, CloseBlock(t) \/ Return(t), Good(cs', ci')
  PROVE  Closable(cs', ci', tbclist)
  <1>1. /\ Interp(t) /\ t \in Threads /\ ci[t] # <<>> /\ Last(ci[t]).fn = "vmk" /\ ci[t] \in Seq(Frame)
        /\ cs # <<>> /\ t = Last(cs).th /\ Last(cs).op # "close"
    BY InterpFacts DEF CloseBlock, Return
  <1>2. Cur(t) = Last(ci[t]) /\ LevelOf(Last(ci[t])) = Last(ci[t]).base /\ Last(ci[t]).base \in Nat
    BY <1>1, NextBaseAbove DEF Cur, LevelOf
  <1>3. CASE HasPending(t, Cur(t).base)
    <2>1. PICK x \in {"closing", "returning"} :
             /\ ci' = [ci EXCEPT ![t][Len(ci[t])].pc = x]
             /\ cs' = Append(cs, FClose(t, Len(ci[t]), Cur(t).base, TRUE))
      BY <1>3 DEF CloseBlock, Return
    <2> DEFINE r == [ci[t] EXCEPT ![Len(ci[t])].pc = x]
    <2>2. ci' = [ci EXCEPT ![t] = r] /\ cs' = Append(cs, FClose(t, Len(ci[t]), LevelOf(Last(ci[t])), TRUE))
      BY <1>2, <2>1
    <2>3. r = ci[t] \/ (\E y \in {"closing", "returning"} : r = [ci[t] EXCEPT ![Len(ci[t])].pc = y])
                    \/ r = [ci[t] EXCEPT ![Len(ci[t])].clsret = TRUE]
      OBVIOUS
    <2> HIDE DEF r
    <2> QED BY ONLY Core, Closable(cs, ci, tbclist), Good(cs', ci'), <1>1, <2>2, <2>3, ClosesClosable
  <1>4. CASE ~HasPending(t, Cur(t).base)
    <2>1. Finish(t, ci[t], cs)
      BY <1>4 DEF CloseBlock, Return
    <2>2. \A p \in ToSet(tbclist[t]) : p.at <= Last(ci[t]).base
      BY <1>1, <1>2, <1>4, NonePending
    <2>3. Sound(cs, ci, status, cc, nny) /\ tbclist \in MarkLists
      BY ClosableNow
    <2> QED BY ONLY <1>1, <2>1, <2>2, <2>3, Closable(cs, ci, tbclist), Good(cs', ci'), FinishClosable
  <1> QED BY <1>3, <1>4

\* The chunk of the host: Main has no frames and no variables.
LEMMA StartChunkClosable ==
  ASSUME Core, Closable(cs, ci, tbclist), StartChunk, Good(cs', ci')
  PROVE  Closable(cs', ci', tbclist)
  <1> DEFINE f == CFrame(1, "pcall")
             g == VmkFrame(2, TRUE)
             r == <<f, g>>
  <1>1. cs = <<>> /\ ci' = [ci EXCEPT ![Main] = r] /\ \A j \in DOMAIN cs' : cs'[j].op # "close"
    <2>1. cs' = <<Raw(Main, "pcall", 1, cc[Main], nny[Main]), CCall(Main, 2, 1)>>
      BY DEF StartChunk
    <2>2. \A j \in DOMAIN cs' : cs'[j].op # "close"
      BY <2>1 DEF Raw, CCall
    <2> QED BY <2>2 DEF StartChunk
  <1>2. f.base = 1 /\ g.base = 2
    BY DEF CFrame, VmkFrame
  <1> HIDE DEF f, g
  <1>3. Bases(r)
    <2>1. DOMAIN r = {1, 2} /\ r[1] = f /\ r[2] = g
      OBVIOUS
    <2> HIDE DEF r
    <2> QED BY <2>1, <1>2 DEF Bases
  <1> HIDE DEF r
  <1>4. Main \in Threads /\ ci[Main] = <<>>
    <2>1. Main \in Threads
      BY DEF Threads
    <2>2. ThreadFits(InC(<<>>, Main), TRUE, ci[Main], "ok")
      BY <2>1, <1>1, ClosableNow DEF Sound, ThreadsFit, RunningIn
    <2>3. ~InC(<<>>, Main)
      BY DEF InC
    <2> QED BY <2>1, <2>2, <2>3 DEF ThreadFits
  <1>5. \A p \in ToSet(tbclist[Main]) : FALSE
    <2>1. \A p \in ToSet(tbclist[Main]) : Covered(<<>>, <<>>, Main, p)
      BY <1>1, <1>4, ClosableNow DEF Pending
    <2>2. \A p : ~Covered(<<>>, <<>>, Main, p)
      BY DEF Covered, Owned, Cleared, Recovered
    <2> QED BY <2>1, <2>2
  <1>6. Pending(cs', r, tbclist[Main], Main)
    <2>1. Rising(tbclist[Main])
      BY <1>4, ClosableNow DEF Pending
    <2> QED BY <2>1, <1>3, <1>5 DEF Pending
  <1>7. Keeps(r, ci[Main])
    BY <1>4 DEF Keeps
  <1>8. Grown(cs', cs, ci') /\ \A u : Kept(cs, cs', u)
    BY <1>1 DEF Grown, Kept
  <1> QED BY <1>1, <1>4, <1>6, <1>7, <1>8, ChangeHere

\* A coroutine that never ran has no variables but those a close goes over.
LEMMA StartClosable ==
  ASSUME Core, Closable(cs, ci, tbclist), cs # <<>>, NEW co, Start(co), Good(cs', ci')
  PROVE  Closable(cs', ci', tbclist)
  <1>1. Last(cs).th = co /\ ci[co] = <<>>
    BY DEF Start, Top, Raw, Base
  <1>2. co \in Threads
    <2>1. Mid(cs, ci, status, cc, nny, co)
      BY <1>1, SoundMid DEF Core
    <2> QED BY <2>1, RunningFacts
  <1>3. CASE CStackError(cc[co])
    <2>1. Throw(co, ci[co], cs, "err")
      BY <1>1, <1>3 DEF Start
    <2> QED BY <1>1, <2>1, ThrowHere
  <1>4. CASE ~CStackError(cc[co])
    <2> DEFINE r == <<VmkFrame(1, TRUE)>>
    <2>1. ci' = [ci EXCEPT ![co] = r] /\ cs' = cs
      BY <1>4 DEF Start
    <2>2. Bases(r) /\ Keeps(r, ci[co])
      BY <1>1 DEF Bases, Keeps
    <2> HIDE DEF r
    <2>3. Pending(cs, <<>>, tbclist[co], co)
      BY <1>1, <1>2, ClosableNow
    <2>4. \A p : Covered(cs, <<>>, co, p) => Covered(cs, r, co, p)
      BY DEF Covered, Owned, Recovered
    <2>5. Pending(cs', r, tbclist[co], co)
      BY <2>1, <2>2, <2>3, <2>4 DEF Pending
    <2> QED BY <1>2, <2>1, <2>2, <2>5, KeptItself, GrownItself, ChangeHere
  <1> QED BY <1>3, <1>4

\* The last frame of the running thread goes on, or returns with no variables.
LEMMA GoesOnClosable ==
  ASSUME Core, Closable(cs, ci, tbclist), NEW t \in Threads, ci[t] # <<>>,
         NEW r, \/ r = Rerun(ci[t])
                \/ /\ r = ReturnC(ci[t])
                   /\ Idle(Last(ci[t])) \/ \A p \in ToSet(tbclist[t]) : p.at <= Last(ci[t]).base,
         ci' = [ci EXCEPT ![t] = r], cs' = cs, Good(cs', ci')
  PROVE  Closable(cs', ci', tbclist)
  <1>1. ci[t] \in Seq(Frame) /\ tbclist[t] \in Seq(Marks) /\ Pending(cs, ci[t], tbclist[t], t) /\ Kept(cs, cs, t)
    BY ClosableNow, KeptItself
  <1>2. Pending(cs, r, tbclist[t], t) /\ Keeps(r, ci[t])
    <2>1. CASE r = Rerun(ci[t])
      <3>1. "run" \in {"run", "wait", "closing", "returning", "raise"}
        OBVIOUS
      <3> QED BY ONLY <2>1, <3>1, <1>1, ci[t] # <<>>, PendingPc
    <2>2. CASE r = ReturnC(ci[t]) /\ (Idle(Last(ci[t])) \/ \A p \in ToSet(tbclist[t]) : p.at <= Last(ci[t]).base)
      BY ONLY <2>2, <1>1, ci[t] # <<>>, PendingReturnC
    <2> QED BY <2>1, <2>2
  <1> QED BY <1>2, KeptItself, GrownItself, ChangeHere

\* unroll and finishCcall.
LEMMA UnrollClosable ==
  ASSUME Core, Closable(cs, ci, tbclist), cs # <<>>, NEW t, Unroll(t), Good(cs', ci')
  PROVE  Closable(cs', ci', tbclist)
  <1>1. /\ t \in Threads /\ ci[t] # <<>> /\ Cur(t) = Last(ci[t]) /\ [ci EXCEPT ![t] = ci[t]] = ci
        /\ Last(ci[t]).ypcall => Last(ci[t]).fn = "pcall"
    BY RunsFacts DEF Unroll, Top, Cur
  <1>2. CASE Cur(t).fn = "vmk" /\ Cur(t).pc = "wait" /\ ci' = [ci EXCEPT ![t] = Rerun(@)] /\ UNCHANGED cs
    BY <1>1, <1>2, GoesOnClosable
  <1>3. CASE /\ Cur(t).fn = "vmk" /\ Cur(t).pc \in {"closing", "returning"}
             /\ cs' = Append(cs, FClose(t, Len(ci[t]), Cur(t).base, TRUE)) /\ UNCHANGED ci
    <2>1. LevelOf(Last(ci[t])) = Cur(t).base
      BY <1>1, <1>3 DEF LevelOf
    <2> QED BY <1>1, <1>3, <2>1, ClosesClosable
  <1>4. CASE Cur(t).ypcall /\ ~Cur(t).recst /\ ci' = [ci EXCEPT ![t] = ReturnC(@)] /\ UNCHANGED cs
    <2>1. Idle(Last(ci[t]))
      BY <1>1, <1>4 DEF Idle
    <2> QED BY <1>1, <1>4, <2>1, GoesOnClosable
  <1>5. CASE /\ Cur(t).ypcall /\ Cur(t).recst
             /\ cs' = Append(cs, FClose(t, Len(ci[t]), Cur(t).base + 1, TRUE)) /\ UNCHANGED ci
    <2>1. LevelOf(Last(ci[t])) = Cur(t).base + 1
      BY <1>1, <1>5 DEF LevelOf
    <2> QED BY <1>1, <1>5, <2>1, ClosesClosable
  <1> QED BY <1>2, <1>3, <1>4, <1>5 DEF Unroll

\* moveresults of a C function.
LEMMA ReturnFromCClosable ==
  ASSUME Core, Closable(cs, ci, tbclist), cs # <<>>, NEW t, ReturnFromC(t), Good(cs', ci')
  PROVE  Closable(cs', ci', tbclist)
  <1>1. /\ t \in Threads /\ ci[t] # <<>> /\ Cur(t) = Last(ci[t]) /\ Last(ci[t]).fn = "call"
        /\ Last(ci[t]).base \in Nat
    BY RunsFacts DEF ReturnFromC, Top, Cur
  <1>2. LevelOf(Last(ci[t])) = Cur(t).base
    BY <1>1 DEF LevelOf
  <1>3. CASE HasPending(t, Cur(t).base)
    <2> DEFINE r == [ci[t] EXCEPT ![Len(ci[t])].clsret = TRUE]
    <2>1. ci' = [ci EXCEPT ![t] = r] /\ cs' = Append(cs, FClose(t, Len(ci[t]), LevelOf(Last(ci[t])), TRUE))
      BY <1>2, <1>3 DEF ReturnFromC
    <2>2. r = ci[t] \/ (\E y \in {"closing", "returning"} : r = [ci[t] EXCEPT ![Len(ci[t])].pc = y])
                    \/ r = [ci[t] EXCEPT ![Len(ci[t])].clsret = TRUE]
      OBVIOUS
    <2> HIDE DEF r
    <2> QED BY ONLY Core, Closable(cs, ci, tbclist), Good(cs', ci'), <1>1, <2>1, <2>2, ClosesClosable
  <1>4. CASE ~HasPending(t, Cur(t).base)
    <2>1. \A p \in ToSet(tbclist[t]) : p.at <= Last(ci[t]).base
      BY <1>1, <1>4, NonePending
    <2> QED BY <1>1, <1>4, <2>1, GoesOnClosable DEF ReturnFromC
  <1> QED BY <1>3, <1>4

-----------------------------------------------------------------------------
(* Steps of two threads. *)

\* The frames of the running thread and those of co change.
LEMMA ChangeBoth ==
  ASSUME Core, Closable(cs, ci, tbclist), NEW t \in Threads, NEW co \in Threads, co # t, NEW r, NEW q,
         ci' = [ci EXCEPT ![t] = r, ![co] = q], Good(cs', ci'), Grown(cs', cs, ci'),
         \A u \in Threads : Kept(cs, cs', u),
         Keeps(r, ci[t]), Pending(cs, r, tbclist[t], t), Keeps(q, ci[co]), Pending(cs', q, tbclist[co], co)
  PROVE  Closable(cs', ci', tbclist)
  <1>1. Good(cs, ci) /\ ci \in FrameMap /\ \A u \in Threads : Pending(cs, ci[u], tbclist[u], u)
    BY ClosableNow
  <1>2. \A u \in Threads : ci'[u] = IF u = co THEN q ELSE IF u = t THEN r ELSE ci[u]
    BY <1>1 DEF FrameMap
  <1>3. ASSUME NEW u \in Threads PROVE Keeps(ci'[u], ci[u]) /\ Pending(cs', ci'[u], tbclist[u], u)
    <2>1. CASE u = co
      BY <1>2, <2>1
    <2>2. CASE u = t
      BY <1>2, <2>2, PendingSame
    <2>3. CASE u # co /\ u # t
      BY <1>1, <1>2, <2>3, PendingSame
    <2> QED BY <2>1, <2>2, <2>3
  <1> QED BY <1>1, <1>3, ClosableStep

\* The frames of a running function that switches threads.
LEMMA SwitchClosable ==
  ASSUME Core, Closable(cs, ci, tbclist), NEW t, Interp(t), NEW f \in {"resume", "wrap", "close"}
  PROVE  t \in Threads /\ Pending(cs, WithC(t, f), tbclist[t], t) /\ Keeps(WithC(t, f), ci[t])
  <1> DEFINE g == CFrame(NextBase(t), f)
             r == WithC(t, f)
  <1>1. NextBase(t) \in Nat \ {0} /\ r = WithCall(ci[t], g)
    BY InterpFacts
  <1>2. g \in Frame
    BY <1>1, CFrameFacts
  <1>3. g.base = NextBase(t)
    BY DEF CFrame
  <1> HIDE DEF g, r
  <1>4. t \in Threads /\ Pending(cs, r, tbclist[t], t) /\ Keeps(r, ci[t])
    BY <1>1, <1>2, <1>3, CallingClosable
  <1> QED BY <1>4 DEF r

\* vmk_closethread: a close that goes over all of the thread.
LEMMA ClosesCoClosable ==
  ASSUME Core, Closable(cs, ci, tbclist), NEW t, Interp(t), NEW f \in {"wrap", "close"},
         NEW co \in Threads, co # t,
         CloseThread(co, t, WithC(t, f)), CloseProtected(co, 0, 1, cs, cc[t], 0), Good(cs', ci')
  PROVE  Closable(cs', ci', tbclist)
  <1> DEFINE r == WithC(t, f)
             b == Raw(co, "close", 0, cc[t], 0)
             e == FClose(co, 0, 1, FALSE)
             E == Append(cs, b)
  <1>1. ci' = [ci EXCEPT ![t] = r, ![co] = <<>>] /\ cs' = Append(E, e)
    BY DEF CloseThread, CloseProtected
  <1>2. t \in Threads /\ Pending(cs, r, tbclist[t], t) /\ Keeps(r, ci[t])
    BY SwitchClosable
  <1>3. /\ cs \in Seq(Activation) /\ tbclist[co] \in Seq(Marks) /\ Rising(tbclist[co])
        /\ cc[t] \in Nat
    <2>1. cc[t] \in Nat
      BY <1>2 DEF Core, TypeOK
    <2> QED BY <2>1, ClosableNow DEF Pending
  <1>4. b \in Activation /\ b.op # "close"
    BY <1>3 DEF Raw, Activation
  <1>5. e \in Activation /\ e.op = "close" /\ e.level = 1 /\ e.depth = 0 /\ ~e.yy /\ e.th = co
    BY DEF FClose, Activation
  <1> HIDE DEF r, b, e
  <1>6. E \in Seq(Activation) /\ Grown(E, cs, ci') /\ \A u : Kept(cs, E, u)
    BY <1>3, <1>4, Appended, KeptItself, KeptAppend, GrownItself, GrownAppend
  <1> HIDE DEF E
  <1>7. Grown(cs', cs, ci') /\ \A u : Kept(cs, cs', u)
    BY <1>1, <1>5, <1>6, KeptAppend, GrownAppend DEF Level
  <1>8. Pending(cs', <<>>, tbclist[co], co)
    <2>1. Append(E, e)[Len(E) + 1] = e /\ Len(E) + 1 \in DOMAIN Append(E, e)
      BY <1>5, <1>6, Appended
    <2>2. ASSUME NEW p \in ToSet(tbclist[co]) PROVE Cleared(cs', co, p)
      <3>1. p.at \in Nat \ {0}
        BY <1>3, ListOf
      <3> QED BY <1>1, <1>5, <2>1, <3>1 DEF Cleared
    <2> QED BY <2>2, <1>3 DEF Pending, Covered, Bases
  <1>9. Keeps(<<>>, ci[co])
    BY DEF Keeps
  <1> QED BY <1>1, <1>2, <1>7, <1>8, <1>9, ChangeBoth

\* vmkB_close, and vmkB_auxwrap of a coroutine that cannot be resumed.
LEMMA CloseCoClosable ==
  ASSUME Core, Closable(cs, ci, tbclist), NEW t, NEW co \in Threads, CloseCo(t, co) \/ WrapRefused(t, co),
         Good(cs', ci')
  PROVE  Closable(cs', ci', tbclist)
  <1>1. Interp(t) /\ status[t] = "ok" /\ cs # <<>> /\ t = Last(cs).th
    BY InterpFacts, RunningFacts DEF CloseCo, WrapRefused
  <1>2. CASE CloseCo(t, co)
    <2>1. co # t /\ CloseThread(co, t, WithC(t, "close")) /\ CloseProtected(co, 0, 1, cs, cc[t], 0)
      BY <1>2 DEF CloseCo
    <2> QED BY <1>1, <2>1, ClosesCoClosable
  <1>3. CASE WrapRefused(t, co) /\ status[co] = "err"
    <2>1. co # t /\ CloseThread(co, t, WithC(t, "wrap")) /\ CloseProtected(co, 0, 1, cs, cc[t], 0)
      BY <1>1, <1>3 DEF WrapRefused
    <2> QED BY <1>1, <2>1, ClosesCoClosable
  <1>4. CASE WrapRefused(t, co) /\ status[co] # "err"
    <2>1. Throw(t, ci[t], cs, "err")
      BY <1>4 DEF WrapRefused
    <2> QED BY <1>1, <2>1, ThrowHere
  <1> QED BY <1>2, <1>3, <1>4

\* vmk_resume: the yield of the coroutine returns.
LEMMA ResumeClosable ==
  ASSUME Core, Closable(cs, ci, tbclist), NEW t, NEW co \in Threads, NEW f \in {"resume", "wrap"},
         Resume(t, co, f), Good(cs', ci')
  PROVE  Closable(cs', ci', tbclist)
  <1> DEFINE r == WithC(t, f)
             q == IF status[co] = "yield" THEN ReturnC(ci[co]) ELSE ci[co]
             a == Raw(co, "resume", 0, ResumeCount(t), 0)
  <1>1. /\ Interp(t) /\ t \in Threads /\ status[t] = "ok" /\ ci[t] # <<>> /\ ci \in FrameMap
        /\ ~NotResumable(co) /\ cs \in Seq(Activation)
    BY InterpFacts, RunningFacts DEF Resume
  <1>2. co # t
    BY <1>1 DEF NotResumable, Base
  <1>3. ci' = [ci EXCEPT ![t] = r, ![co] = q] /\ cs' = Append(cs, a)
    BY <1>1, <1>2 DEF Resume, FrameMap
  <1>4. a \in Activation /\ a.op # "close"
    <2>1. ResumeCount(t) \in Nat
      BY <1>1 DEF Core, TypeOK, ResumeCount
    <2> QED BY <2>1 DEF Raw, Activation
  <1>5. Pending(cs, r, tbclist[t], t) /\ Keeps(r, ci[t])
    BY <1>1, SwitchClosable
  <1>6. Grown(cs', cs, ci') /\ \A u : Kept(cs, cs', u)
    <2> HIDE DEF r, q, a
    <2> QED BY <1>1, <1>3, <1>4, KeptItself, KeptAppend, GrownItself, GrownAppend
  <1>7. Pending(cs', q, tbclist[co], co) /\ Keeps(q, ci[co])
    <2>1. ci[co] \in Seq(Frame) /\ tbclist[co] \in Seq(Marks) /\ Pending(cs, ci[co], tbclist[co], co)
      BY ClosableNow
    <2>2. CASE status[co] # "yield"
      BY <2>1, <2>2, <1>6, PendingSame
    <2>3. CASE status[co] = "yield"
      <3>1. /\ ThreadFits(InC(cs, co), co = RunningIn(cs), ci[co], status[co]) /\ Frames(ci[co])
        BY DEF Core, Sound, ThreadsFit
      <3>2. ci[co] # <<>> /\ Last(ci[co]).fn = "yield"
        BY <3>1, <2>3 DEF ThreadFits
      <3>3. Idle(Last(ci[co]))
        <4>1. Last(ci[co]) = ci[co][Len(ci[co])] /\ Len(ci[co]) \in DOMAIN ci[co]
          BY <2>1, <3>2, Shortened
        <4>2. Last(ci[co]).ypcall => Last(ci[co]).fn = "pcall"
          BY <3>1, <4>1 DEF Frames
        <4> QED BY <4>2, <3>2 DEF Idle
      <3>4. q = ReturnC(ci[co]) /\ Kept(cs, cs', co)
        BY <2>3, <1>6
      <3> HIDE DEF q
      <3> QED BY ONLY <2>1, <3>2, <3>3, <3>4, PendingReturnC
    <2> QED BY <2>2, <2>3
  <1> HIDE DEF r, q, a
  <1> QED BY <1>1, <1>2, <1>3, <1>5, <1>6, <1>7, ChangeBoth

\* What resumed or closed the thread t goes on: t has left the C stack.
LEMMA CallerGoesOn ==
  ASSUME Core, Closable(cs, ci, tbclist), NEW t, NEW n \in 1..Len(cs), Entering(cs[n]),
         \A j \in n..Len(cs) : cs[j].th = t,
         (\A j \in n..Len(cs) : cs[j].op # "close") \/ ToSet(tbclist[t]) = {},
         NEW from, from = Last(SubSeq(cs, 1, n - 1)).th,
         NEW r, r = ReturnC(ci[from]) \/ r = [ci[from] EXCEPT ![Len(ci[from])].pc = "raise"],
         ci' = [ci EXCEPT ![from] = r], cs' = SubSeq(cs, 1, n - 1), Good(cs', ci')
  PROVE  Closable(cs', ci', tbclist)
  <1>1. cs \in Seq(Activation) /\ Shape(cs) /\ ci \in FrameMap /\ Len(cs) \in Nat /\ DOMAIN cs = 1..Len(cs)
        /\ Good(cs, ci) /\ Sound(cs, ci, status, cc, nny)
    BY ClosableNow
  <1>2. n > 1 /\ n - 1 \in 1..Len(cs) /\ n - 1 \in 0..Len(cs)
    <2>1. n = 1 => Bottom(cs[n])
      BY <1>1, ShapeParts
    <2>2. ~Bottom(cs[n])
      BY DEF Entering, Bottom, Protected, Coroutined
    <2> QED BY <2>1, <2>2, <1>1
  <1>3. from = cs[n-1].th /\ from \in Threads /\ from # t /\ t \in Threads
    <2>1. from = cs[n-1].th
      <3>1. n - 1 > 0
        BY <1>1, <1>2
      <3>2. Last(SubSeq(cs, 1, n - 1)) = cs[n-1]
        BY ONLY <3>1, <1>1, <1>2, Prefix
      <3> QED BY <3>2
    <2>2. cs[n-1].th # cs[n].th
      BY <1>1, <1>2, ShapeParts
    <2>3. cs[n-1].th \in Threads /\ cs[n].th \in Threads
      BY <1>1, <1>2, ShapeParts
    <2>4. cs[n].th = t
      BY <1>1
    <2> QED BY <2>1, <2>2, <2>3, <2>4
  <1>4. ci[from] # <<>> /\ Last(ci[from]).fn \in {"resume", "wrap", "close"}
    <2>1. Caller(cs[n-1], cs[n], ci[from])
      BY <1>1, <1>2, <1>3 DEF Good, Linked
    <2>2. Len(ci[from]) > cs[n-1].depth /\ Last(ci[from]).fn \in {"resume", "wrap", "close"}
      BY <2>1 DEF Caller
    <2>3. cs[n-1].depth \in Nat
      BY <1>1, <1>2, ShapeParts
    <2> QED BY <2>2, <2>3
  <1>5. ci[from] \in Seq(Frame) /\ tbclist[from] \in Seq(Marks) /\ Pending(cs, ci[from], tbclist[from], from)
    BY <1>3, ClosableNow
  <1>6. Idle(Last(ci[from]))
    <2>1. Last(ci[from]) = ci[from][Len(ci[from])] /\ Len(ci[from]) \in DOMAIN ci[from]
      BY <1>4, <1>5, Shortened
    <2>2. Frames(ci[from])
      BY <1>1, <1>3 DEF Sound
    <2>3. Last(ci[from]).ypcall => Last(ci[from]).fn = "pcall"
      BY ONLY <2>1, <2>2 DEF Frames
    <2> QED BY <2>3, <1>4 DEF Idle
  <1>7. Grown(cs', cs, ci')
    BY <1>1, <1>2, GrownPrefix
  <1>8. ASSUME NEW u, u # t \/ \A j \in n..Len(cs) : cs[j].op # "close" PROVE Kept(cs, cs', u)
    <2>1. \A i \in ((n-1)+1)..Len(cs) : ~(cs[i].op = "close" /\ ~cs[i].yy /\ cs[i].th = u)
      <3>1. (n - 1) + 1 = n
        BY <1>1
      <3> QED BY <3>1, <1>8
    <2> QED BY <1>1, <1>2, <2>1, KeptPrefix
  <1>9. Kept(cs, cs', from)
    BY <1>3, <1>8
  <1>10. Pending(cs', r, tbclist[from], from) /\ Keeps(r, ci[from])
    <2>1. "raise" \in {"run", "wait", "closing", "returning", "raise"}
      OBVIOUS
    <2>2. CASE r = ReturnC(ci[from])
      BY ONLY <2>2, <1>4, <1>5, <1>6, <1>9, PendingReturnC
    <2>3. CASE r = [ci[from] EXCEPT ![Len(ci[from])].pc = "raise"]
      BY ONLY <2>1, <2>3, <1>4, <1>5, <1>9, PendingPc, ZenonT(60)
    <2> QED BY <2>2, <2>3
  <1>11. ASSUME NEW u \in Threads PROVE Keeps(ci'[u], ci[u]) /\ Pending(cs', ci'[u], tbclist[u], u)
    <2>1. ci'[u] = IF u = from THEN r ELSE ci[u]
      BY <1>1 DEF FrameMap
    <2>2. Pending(cs, ci[u], tbclist[u], u)
      BY ClosableNow
    <2>3. CASE u = from
      BY <2>1, <2>3, <1>10
    <2>4. CASE u # from /\ Kept(cs, cs', u)
      BY <2>1, <2>2, <2>4, PendingSame
    <2>5. CASE u # from /\ u = t /\ ToSet(tbclist[t]) = {}
      BY <2>1, <2>2, <2>5 DEF Pending, Keeps
    <2> QED BY <2>3, <2>4, <2>5, <1>8
  <1> QED BY <1>1, <1>7, <1>11, ClosableStep

\* vmk_resume returns.
LEMMA ResumeReturnsClosable ==
  ASSUME Core, Closable(cs, ci, tbclist), cs # <<>>, NEW t, ResumeReturns(t), Good(cs', ci')
  PROVE  Closable(cs', ci', tbclist)
  <1> DEFINE n == Len(cs)
             from == Last(SubSeq(cs, 1, n - 1)).th
             r == ReturnC(ci[from])
  <1>1. /\ n \in 1..Len(cs) /\ Last(cs) = cs[n] /\ Front(cs) = SubSeq(cs, 1, n - 1) /\ Len(cs) \in Nat
    BY ClosableNow, Shortened
  <1>2. /\ ci' = [ci EXCEPT ![from] = r] /\ cs' = SubSeq(cs, 1, n - 1) /\ Entering(cs[n]) /\ cs[n].th = t
        /\ cs[n].op # "close"
    BY <1>1 DEF ResumeReturns, Top, Entering
  <1>3. (\A j \in n..Len(cs) : cs[j].th = t) /\ \A j \in n..Len(cs) : cs[j].op # "close"
    BY <1>1, <1>2
  <1>4. from = Last(SubSeq(cs, 1, n - 1)).th /\ r = ReturnC(ci[from])
    OBVIOUS
  <1> HIDE DEF n, from, r
  <1> QED BY <1>1, <1>2, <1>3, <1>4, CallerGoesOn

-----------------------------------------------------------------------------
(* vmkF_close. *)

\* The last pending variable is removed.
LEMMA PendingFront ==
  ASSUME NEW C, NEW s, NEW l \in Seq(Marks), l # <<>>, NEW t, Pending(C, s, l, t)
  PROVE  Pending(C, s, Front(l), t)
  <1> DEFINE k == Front(l)
  <1>1. /\ Len(l) \in Nat \ {0} /\ DOMAIN l = 1..Len(l) /\ DOMAIN k = 1..(Len(l) - 1)
        /\ \A i \in 1..(Len(l) - 1) : k[i] = l[i]
    BY Shortened
  <1> HIDE DEF k
  <1>2. \A i \in DOMAIN k : i \in DOMAIN l /\ k[i] = l[i]
    BY <1>1
  <1>3. Rising(k)
    BY <1>2 DEF Pending, Rising
  <1>4. \A p \in ToSet(k) : p \in ToSet(l)
    BY <1>2 DEF ToSet
  <1> QED BY <1>3, <1>4 DEF Pending, k

\* The close that runs is at the level of the last frame of its thread.
LEMMA TopLevel ==
  ASSUME Core, Closable(cs, ci, tbclist), cs # <<>>, NEW t, t = Last(cs).th, Last(cs).op = "close"
  PROVE  /\ t \in Threads /\ ci[t] \in Seq(Frame) /\ Len(ci[t]) = Last(cs).depth
         /\ IF ci[t] = <<>> THEN Last(cs).level = 1
            ELSE Last(cs).level = LevelOf(Last(ci[t])) /\ Last(ci[t]).base \in Nat
         /\ Last(cs).level \in Nat
         /\ Len(cs) \in Nat \ {0} /\ Last(cs) = cs[Len(cs)] /\ Mid(cs, ci, status, cc, nny, t)
  <1>1. Mid(cs, ci, status, cc, nny, t) /\ Sound(cs, ci, status, cc, nny) /\ cs \in Seq(Activation)
    BY SoundMid, ClosableNow
  <1>2. t \in Threads /\ ci[t] \in Seq(Frame) /\ Last(cs) = cs[Len(cs)] /\ Len(cs) \in DOMAIN cs /\ Len(cs) \in Nat \ {0}
        /\ Last(cs) \in Activation
    BY <1>1, RunningFacts, Shortened
  <1>3. Len(ci[t]) = Last(cs).depth
    BY <1>1 DEF Sound, TopFrame
  <1>4. Last(cs).level = Level(Last(cs).depth, ci[t])
    BY <1>2 DEF Closable, Levels
  <1>5. ci[t] # <<>> => Len(ci[t]) # 0 /\ Last(ci[t]) = ci[t][Len(ci[t])] /\ Last(ci[t]).base \in Nat \ {0}
    <2>1. ci[t] # <<>> => Len(ci[t]) \in Nat \ {0} /\ Last(ci[t]) = ci[t][Len(ci[t])] /\ Last(ci[t]) \in Frame
      BY <1>2, Shortened
    <2> QED BY <2>1, FrameFields
  <1>6. ci[t] = <<>> => Last(cs).level = 1
    BY <1>3, <1>4 DEF Level
  <1>7. ci[t] # <<>> => Last(cs).level = LevelOf(Last(ci[t]))
    BY <1>3, <1>4, <1>5 DEF Level
  <1>8. Last(cs).level \in Nat
    BY <1>5, <1>6, <1>7 DEF LevelOf
  <1> QED BY <1>1, <1>2, <1>3, <1>5, <1>6, <1>7, <1>8

\* vmkF_close calls the next method.
LEMMA CallCloseClosable ==
  ASSUME Core, Closable(cs, ci, tbclist), cs # <<>>, NEW t, CallClose(t), Good(cs', ci')
  PROVE  Closable(cs', ci', tbclist')
  <1> DEFINE l == tbclist[t]
             b == Last(l).at + 1
             s == ci[t]
             inc == CloseInc
  <1>1. /\ t = Last(cs).th /\ Last(cs).op = "close" /\ l # <<>> /\ Last(l).at >= Last(cs).level
        /\ tbclist' = [tbclist EXCEPT ![t] = Front(@)] /\ Enter(t, s, cs, b, inc)
    BY DEF CallClose, Top, HasPending
  <1>2. /\ t \in Threads /\ s \in Seq(Frame) /\ Mid(cs, ci, status, cc, nny, t) /\ Last(cs).level \in Nat
        /\ s # <<>> => Last(cs).level = LevelOf(Last(s)) /\ Last(s).base \in Nat
    BY <1>1, TopLevel
  <1>3. /\ l \in Seq(Marks) /\ Pending(cs, s, l, t) /\ tbclist \in MarkLists /\ Good(cs, ci) /\ ci \in FrameMap
        /\ ci = [ci EXCEPT ![t] = s]
    BY <1>2, ClosableNow
  <1>4. Last(l).at \in Nat \ {0}
    <2>1. Last(l) \in Marks
      BY <1>1, <1>3, Shortened
    <2> QED BY <2>1 DEF Marks
  <1>5. b \in Nat \ {0} /\ inc \in {0, 1} /\ (s # <<>> => Last(s).base < b)
    <2>1. inc \in {0, 1}
      BY DEF CloseInc
    <2>2. s # <<>> => Last(s).base <= Last(cs).level
      BY <1>2 DEF LevelOf
    <2> HIDE DEF inc, s, l
    <2> QED BY <1>1, <1>2, <1>4, <2>1, <2>2
  <1> HIDE DEF l, b, s, inc
  <1>6. Pending(cs, s, Front(l), t) /\ Front(l) \in Seq(Marks)
    BY <1>1, <1>3, PendingFront, Shortened
  <1>7. tbclist' \in MarkLists /\ tbclist'[t] = Front(l) /\ \A u \in Threads : u # t => tbclist'[u] = tbclist[u]
    BY <1>1, <1>2, <1>3, <1>6 DEF MarkLists, l
  <1>8. Closable(cs, ci, tbclist')
    <2>1. Keeps(s, ci[t])
      BY DEF Keeps, s
    <2> QED BY <1>2, <1>3, <1>6, <1>7, <2>1, KeptItself, GrownItself, ChangeHere
  <1> DEFINE F == ci
             L == tbclist'
  <1>9. /\ F = [ci EXCEPT ![t] = s] /\ Mid(cs, F, status, cc, nny, t) /\ Closable(cs, F, L)
        /\ ci \in FrameMap /\ L \in MarkLists /\ Enter(t, s, cs, b, inc)
    BY ONLY <1>1, <1>2, <1>3, <1>7, <1>8
  <1>10. L = tbclist'
    OBVIOUS
  <1> HIDE DEF F, L
  <1>11. Closable(cs', ci', L)
    BY ONLY <1>5, <1>9, Good(cs', ci'), EnterClosable
  <1> QED BY ONLY <1>10, <1>11

\* vmkF_close for a function of the thread, which goes on.
LEMMA CloseEndsClosable ==
  ASSUME Core, Closable(cs, ci, tbclist), cs # <<>>, NEW t, t = Last(cs).th,
         Last(cs).op = "close", ~HasPending(t, Last(cs).level), Last(cs).yy,
         IF Cur(t).fn = "vmk" /\ Cur(t).pc = "returning" THEN Finish(t, ci[t], Front(cs))
         ELSE /\ ci' = [ci EXCEPT ![t] = IF Cur(t).fn = "vmk" THEN Rerun(@) ELSE ReturnC(@)]
              /\ cs' = Front(cs),
         Good(cs', ci')
  PROVE  Closable(cs', ci', tbclist)
  <1> DEFINE C == Front(cs)
             s == ci[t]
  <1>1. /\ t \in Threads /\ s \in Seq(Frame) /\ Len(s) = Last(cs).depth
        /\ s # <<>> => Last(cs).level = LevelOf(Last(s)) /\ Last(s).base \in Nat
        /\ Last(cs).level \in Nat /\ Len(cs) \in Nat \ {0} /\ Last(cs) = cs[Len(cs)]
    BY TopLevel
  <1>2. Sound(C, ci, status, cc, nny) /\ C # <<>> /\ t = Last(C).th /\ Last(C).op # "close"
    <2>1. Sound(cs, ci, status, cc, nny)
      BY ClosableNow
    <2>2. Sound(C, ci, status, cc, nny) /\ C # <<>> /\ Last(C).th = t /\ Runner(Last(C))
      BY <2>1, PopYY
    <2> QED BY <2>2 DEF Runner
  <1>3. s # <<>> /\ Closing(Last(s))
    <2>1. cs \in Seq(Activation) /\ Shape(cs) /\ Framed(Last(cs), s)
      <3>1. Mid(cs, ci, status, cc, nny, t)
        BY TopLevel
      <3> QED BY <3>1, RunningFacts
    <2>2. cs[Len(cs)].op # "raw" /\ Len(cs) \in 1..Len(cs)
      BY <1>1
    <2>3. Over(cs[Len(cs) - 1], cs[Len(cs)])
      BY ONLY <2>1, <2>2, NotFirst
    <2>4. Last(cs).depth > 0
      BY <2>3, <1>1 DEF Over, Enters, Entering, Calls, Closes, Protected
    <2>5. s # <<>>
      BY <1>1, <2>4
    <2>6. Last(s) = s[Len(s)]
      BY <1>1, <2>5, Shortened
    <2> QED BY <1>1, <2>1, <2>5, <2>6 DEF Framed
  <1>4. \A p \in ToSet(tbclist[t]) : p.at < Last(cs).level /\ p.at \in Nat
    BY <1>1, NonePending
  <1>5. \A p \in ToSet(tbclist[t]) : p.at <= Last(s).base
    <2>1. Last(cs).level <= Last(s).base + 1 /\ Last(s).base \in Nat /\ Last(cs).level \in Nat
      BY <1>1, <1>3 DEF LevelOf
    <2> SUFFICES ASSUME NEW p \in ToSet(tbclist[t]) PROVE p.at <= Last(s).base
      OBVIOUS
    <2>2. p.at < Last(cs).level /\ p.at \in Nat
      BY <1>4
    <2> HIDE DEF s
    <2> QED BY <2>1, <2>2
  <1>6. /\ C = SubSeq(cs, 1, Len(cs) - 1) /\ Len(cs) - 1 \in 0..Len(cs) /\ cs \in Seq(Activation)
        /\ s \in Seq(Frame) /\ tbclist[t] \in Seq(Marks) /\ Pending(cs, s, tbclist[t], t)
        /\ ci = [ci EXCEPT ![t] = s] /\ tbclist \in MarkLists
    BY <1>1, ClosableNow, Shortened
  <1>7. \A u : Kept(cs, C, u)
    <2>1. \A i \in ((Len(cs) - 1) + 1)..Len(cs) : cs[i].yy
      BY <1>1
    <2> QED BY <1>6, <2>1, KeptPrefix
  <1>8. \A G : Grown(C, cs, G)
    BY ONLY <1>6, GrownPrefix
  <1> HIDE DEF C, s
  <1>9. CASE Cur(t).fn = "vmk" /\ Cur(t).pc = "returning"
    <2>1. Pending(C, s, tbclist[t], t) /\ Keeps(s, s)
      BY ONLY <1>6, <1>7, PendingSame
    <2>2. Good(C, ci) /\ Keeps(s, ci[t])
      BY <1>2, <2>1 DEF Sound, s
    <2>3. Closable(C, ci, tbclist)
      BY <1>1, <1>6, <1>7, <1>8, <2>1, <2>2, ChangeHere
    <2>4. ci[t] # <<>> /\ Finish(t, ci[t], C) /\ \A p \in ToSet(tbclist[t]) : p.at <= Last(ci[t]).base
      BY <1>3, <1>5, <1>9 DEF s, C
    <2> QED BY ONLY <1>2, <1>6, <2>3, <2>4, Good(cs', ci'), FinishClosable
  <1>10. CASE ~(Cur(t).fn = "vmk" /\ Cur(t).pc = "returning")
    <2> DEFINE r == IF Cur(t).fn = "vmk" THEN Rerun(s) ELSE ReturnC(s)
    <2>1. ci' = [ci EXCEPT ![t] = r] /\ cs' = C
      BY <1>10 DEF s, C
    <2>2. r = Rerun(s) \/ r = ReturnC(s)
      OBVIOUS
    <2> HIDE DEF r
    <2>3. Kept(cs, cs', t)
      BY <1>7, <2>1
    <2>4. Pending(cs', r, tbclist[t], t) /\ Keeps(r, s)
      <3>1. CASE r = Rerun(s)
        <4>1. "run" \in {"run", "wait", "closing", "returning", "raise"}
          OBVIOUS
        <4> QED BY ONLY <3>1, <4>1, <1>3, <1>6, <2>3, PendingPc
      <3>2. CASE r = ReturnC(s)
        BY ONLY <3>2, <1>3, <1>5, <1>6, <2>3, PendingReturnC
      <3> QED BY <2>2, <3>1, <3>2
    <2>5. Keeps(r, ci[t]) /\ Grown(cs', cs, ci') /\ \A u : Kept(cs, cs', u)
      BY <1>7, <1>8, <2>1, <2>4 DEF s
    <2> QED BY <1>1, <2>1, <2>4, <2>5, ChangeHere
  <1> QED BY <1>9, <1>10

\* vmkF_close found no more variables.
LEMMA CloseReturnsClosable ==
  ASSUME Core, Closable(cs, ci, tbclist), cs # <<>>, NEW t, CloseReturns(t), Good(cs', ci')
  PROVE  Closable(cs', ci', tbclist)
  <1> DEFINE C == Front(cs)
             a == Last(C)
             n == Len(cs) - 1
             from == Last(Front(C)).th
             s == ci[t]
  <1>1. t = Last(cs).th /\ Last(cs).op = "close" /\ ~HasPending(t, Last(cs).level)
    BY DEF CloseReturns, Top
  <1>2. /\ t \in Threads /\ s \in Seq(Frame) /\ Len(s) = Last(cs).depth /\ Last(cs).level \in Nat
        /\ Mid(cs, ci, status, cc, nny, t) /\ Len(cs) \in Nat \ {0} /\ Last(cs) = cs[Len(cs)]
        /\ IF s = <<>> THEN Last(cs).level = 1
           ELSE Last(cs).level = LevelOf(Last(s)) /\ Last(s).base \in Nat
    BY <1>1, TopLevel
  <1>3. cs \in Seq(Activation) /\ Shape(cs) /\ Sound(cs, ci, status, cc, nny) /\ DOMAIN cs = 1..Len(cs)
    BY ClosableNow
  <1>4. Len(cs) > 1 /\ n \in 1..Len(cs) /\ Over(cs[n], cs[Len(cs)])
    <2>1. cs[Len(cs)].op # "raw" /\ Len(cs) \in 1..Len(cs)
      BY <1>1, <1>2
    <2> QED BY <1>3, <2>1, NotFirst
  <1>5. /\ C = SubSeq(cs, 1, n) /\ a = cs[n] /\ C # <<>> /\ C \in Seq(Activation) /\ Len(C) = n
    BY <1>3, <1>4, Shortened
  <1>6. Front(C) = SubSeq(cs, 1, n - 1) /\ n - 1 \in 0..Len(cs)
    <2>1. Front(C) = SubSeq(C, 1, n - 1)
      BY <1>5, Shortened
    <2>2. SubSeq(SubSeq(cs, 1, n), 1, n - 1) = SubSeq(cs, 1, n - 1)
      BY <1>3, <1>4
    <2> QED BY <2>1, <2>2, <1>4, <1>5
  <1>7. \A p \in ToSet(tbclist[t]) : p.at \in Nat \ {0} /\ p.at < Last(cs).level
    BY <1>1, <1>2, NonePending
  <1>h. n = Len(cs) - 1 /\ C = Front(cs) /\ a = Last(C) /\ from = Last(Front(C)).th /\ s = ci[t]
    OBVIOUS
  <1>8. CASE a.op = "raw" /\ a.job = "close"
    <2>1. /\ cs' = SubSeq(cs, 1, n - 1)
          /\ IF a.depth > 0 THEN ci' = [ci EXCEPT ![t] = ReturnC(@)]
             ELSE ci' = [ci EXCEPT ![from] = IF Last(@).fn = "close" THEN ReturnC(@)
                                             ELSE [@ EXCEPT ![Len(@)].pc = "raise"]]
      BY <1>6, <1>8 DEF CloseReturns
    <2> HIDE DEF C, a, n, from, s
    <2>2. a.depth = Len(s) /\ a.th = t /\ Framed(a, s) /\ a.depth \in Nat
      <3>1. a = cs[Len(cs) - 1]
        BY <1>5, <1>h
      <3>2. /\ a.th = t /\ a.depth = Len(ci[t]) /\ a.depth \in Nat /\ Framed(a, ci[t])
        BY ONLY cs # <<>>, <1>1, <1>3, <1>8, <3>1, ProtectsClose
      <3> QED BY ONLY <3>2, <1>h
    <2>3. CASE a.depth > 0
      <3>0. s # <<>>
        <4>1. s = <<>> => Len(s) = 0
          OBVIOUS
        <4> QED BY <4>1, <2>2, <2>3
      <3>1. s # <<>> /\ Last(s) = s[Len(s)]
        BY <3>0, <1>2, Shortened
      <3>2. Idle(Last(s))
        BY <2>2, <2>3, <3>1, <1>8 DEF Framed, Protected, Idle
      <3>3. tbclist[t] \in Seq(Marks) /\ Pending(cs, s, tbclist[t], t) /\ ci = [ci EXCEPT ![t] = s]
        BY <1>2, <1>h, ClosableNow
      <3>4. ASSUME NEW i \in 1..Len(cs)
            PROVE  (\E j \in DOMAIN cs' : cs'[j] = cs[i]) \/ i = n \/ i = Len(cs)
        <4>1. i \in 1..(n-1) \/ i = n \/ i = Len(cs)
          BY <1>2, <1>h
        <4>2. \A j \in 1..(n-1) : j \in DOMAIN cs' /\ cs'[j] = cs[j]
          BY <1>3, <1>6, <2>1, Prefix
        <4> QED BY <4>1, <4>2
      <3>5. Pending(cs', s, tbclist[t], t)
        <4>1. \A p \in ToSet(tbclist[t]) : ~(cs[Len(cs)].level <= p.at)
          BY <1>2, <1>7
        <4>2. \A i \in 1..Len(cs) : \/ \E j \in DOMAIN cs' : cs'[j] = cs[i]
                                    \/ ~(cs[i].op = "close")
                                    \/ \A p \in ToSet(tbclist[t]) : ~(cs[i].level <= p.at)
          BY <3>4, <4>1, <1>5, <1>8
        <4> QED BY <3>3, <4>2, <1>3 DEF Pending, Covered, Cleared
      <3>6. ci' = [ci EXCEPT ![t] = ReturnC(s)] /\ Kept(cs', cs', t)
        BY <2>1, <2>3, <1>h, KeptItself
      <3> DEFINE r == ReturnC(s)
      <3>7. Pending(cs', r, tbclist[t], t) /\ Keeps(r, s)
        BY ONLY <1>2, <3>1, <3>2, <3>3, <3>5, <3>6, PendingReturnC
      <3> HIDE DEF r
      <3>8. Keeps(r, ci[t]) /\ ci' = [ci EXCEPT ![t] = r]
        BY <3>6, <3>7, <1>h DEF r
      <3>9. ASSUME NEW u \in Threads, u # t PROVE Kept(cs, cs', u)
        <4>1. cs[Len(cs)].th = t /\ cs[n].op = "raw"
          BY <1>1, <1>2, <1>5, <1>8
        <4> QED BY <3>4, <3>9, <4>1, <1>3 DEF Kept
      <3>10. Grown(cs', cs, ci')
        BY <1>3, <1>6, <2>1, GrownPrefix
      <3> QED BY <1>2, <3>7, <3>8, <3>9, <3>10, ChangeHere
    <2>4. CASE ~(a.depth > 0)
      <3>1. s = <<>>
        BY <2>2, <2>4, <1>2
      <3>2. ToSet(tbclist[t]) = {}
        <4>1. Last(cs).level = 1
          BY <1>2, <3>1
        <4>2. ASSUME NEW p \in ToSet(tbclist[t]) PROVE FALSE
          <5>1. p.at \in Nat \ {0} /\ p.at < 1
            BY <4>1, <1>7
          <5> QED BY <5>1
        <4> QED BY <4>2
      <3> DEFINE r == IF Last(ci[from]).fn = "close" THEN ReturnC(ci[from])
                      ELSE [ci[from] EXCEPT ![Len(ci[from])].pc = "raise"]
      <3>3. ci' = [ci EXCEPT ![from] = r]
        BY <2>1, <2>4
      <3>4. r = ReturnC(ci[from]) \/ r = [ci[from] EXCEPT ![Len(ci[from])].pc = "raise"]
        OBVIOUS
      <3> HIDE DEF r
      <3>5. from = Last(SubSeq(cs, 1, n - 1)).th
        BY <1>6, <1>h
      <3>6. Entering(cs[n]) /\ \A j \in n..Len(cs) : cs[j].th = t
        <4>1. \A j \in n..Len(cs) : j = n \/ j = Len(cs)
          BY <1>2, <1>h
        <4>2. Entering(cs[n])
          BY <1>5, <1>8, <2>2, <2>4 DEF Entering
        <4> QED BY <4>1, <4>2, <1>1, <1>2, <1>5, <2>2
      <3> QED BY ONLY Core, Closable(cs, ci, tbclist), Good(cs', ci'), <1>4, <2>1, <3>2, <3>3, <3>4, <3>5, <3>6,
                 CallerGoesOn
    <2> QED BY <2>3, <2>4
  <1>9. CASE ~(a.op = "raw" /\ a.job = "close")
    <2>1. IF Cur(t).fn = "vmk" /\ Cur(t).pc = "returning" THEN Finish(t, ci[t], C)
          ELSE /\ ci' = [ci EXCEPT ![t] = IF Cur(t).fn = "vmk" THEN Rerun(@) ELSE ReturnC(@)]
               /\ cs' = C
      BY <1>9 DEF CloseReturns
    <2>2. Last(cs).yy
      <3>1. Closes(cs[n], Last(cs))
        BY <1>1, <1>2, <1>4 DEF Over, Enters, Entering, Calls, Protected
      <3> QED BY <3>1, <1>5, <1>9 DEF Closes
    <2> HIDE DEF a, n, from, s
    <2> QED BY <1>1, <2>1, <2>2, CloseEndsClosable
  <1> QED BY <1>8, <1>9

-----------------------------------------------------------------------------
(* Once. *)

\* Variables that stay pending, and were not closed, are pending once.
LEMMA OnceKept ==
  ASSUME NEW L, NEW c, Once(L, c), NEW M, NEW d,
         \A u \in Threads : \A i \in DOMAIN M[u] :
             i \in DOMAIN L[u] /\ M[u][i] = L[u][i] /\ M[u][i].var \notin d
  PROVE  Once(M, d)
  BY DEF Once

\* The variable v is not in the lists L, and M adds it to them, as entry n of t.
Unlisted(L, v) == \A u \in Threads : \A i \in DOMAIN L[u] : L[u][i].var # v
Listed(L, M, t, n, v) ==
    \A u \in Threads : \A i \in DOMAIN M[u] : \/ i \in DOMAIN L[u] /\ M[u][i] = L[u][i]
                                              \/ u = t /\ i = n /\ M[u][i].var = v

\* A variable that was not pending is then pending once.
LEMMA OnceMarked ==
  ASSUME NEW L, NEW c, Once(L, c), NEW t \in Threads, NEW v, NEW n, NEW M,
         Unlisted(L, v), Listed(L, M, t, n, v)
  PROVE  Once(M, c \ {v})
  <1> SUFFICES ASSUME NEW a \in Threads, NEW b \in Threads, NEW i \in DOMAIN M[a], NEW j \in DOMAIN M[b]
               PROVE  /\ M[a][i].var \notin c \ {v}
                      /\ M[a][i].var = M[b][j].var => a = b /\ i = j
    BY DEF Once
  <1>1. \/ i \in DOMAIN L[a] /\ M[a][i] = L[a][i] /\ L[a][i].var # v
        \/ a = t /\ i = n /\ M[a][i].var = v
    BY DEF Unlisted, Listed
  <1>2. \/ j \in DOMAIN L[b] /\ M[b][j] = L[b][j] /\ L[b][j].var # v
        \/ b = t /\ j = n /\ M[b][j].var = v
    BY DEF Unlisted, Listed
  <1>3. CASE i \in DOMAIN L[a] /\ M[a][i] = L[a][i] /\ j \in DOMAIN L[b] /\ M[b][j] = L[b][j]
    BY <1>3 DEF Once
  <1>4. i \in DOMAIN L[a] /\ M[a][i] = L[a][i] => M[a][i].var \notin c
    BY DEF Once
  <1> QED BY <1>1, <1>2, <1>3, <1>4

\* A list that one variable is appended to.
LEMMA OnceAppended ==
  ASSUME tbclist \in MarkLists, Once(tbclist, called), NEW t \in Threads, NEW v \in Free, NEW m, m.var = v,
         NEW M, M = [tbclist EXCEPT ![t] = Append(@, m)]
  PROVE  Once(M, called \ {v})
  <1>1. Unlisted(tbclist, v)
    BY DEF Free, ToSet, Unlisted
  <1>2. /\ tbclist[t] \in Seq(Marks) /\ M[t] = Append(tbclist[t], m)
        /\ \A u \in Threads : u # t => M[u] = tbclist[u]
    BY DEF MarkLists
  <1> DEFINE n == Len(tbclist[t]) + 1
  <1>3. \A i \in DOMAIN M[t] : \/ i \in DOMAIN tbclist[t] /\ M[t][i] = tbclist[t][i]
                               \/ i = n /\ M[t][i] = m
    BY <1>2
  <1> HIDE DEF n
  <1>4. Listed(tbclist, M, t, n, v)
    <2> SUFFICES ASSUME NEW u \in Threads, NEW i \in DOMAIN M[u]
                 PROVE  \/ i \in DOMAIN tbclist[u] /\ M[u][i] = tbclist[u][i]
                        \/ u = t /\ i = n /\ M[u][i].var = v
      BY DEF Listed
    <2>1. CASE u = t
      <3>1. i \in DOMAIN M[t]
        BY <2>1
      <3>2. \/ i \in DOMAIN tbclist[t] /\ M[t][i] = tbclist[t][i]
            \/ i = n /\ M[t][i] = m
        BY ONLY <1>3, <3>1
      <3> QED BY ONLY <3>2, <2>1, m.var = v
    <2>2. CASE u # t
      <3>1. M[u] = tbclist[u]
        BY <1>2, <2>2
      <3> QED BY ONLY <3>1, i \in DOMAIN M[u]
    <2> QED BY <2>1, <2>2
  <1> QED BY ONLY Once(tbclist, called), t \in Threads, <1>1, <1>4, OnceMarked

\* vmkF_newtbcupval.
LEMMA NewTbcOnce ==
  ASSUME Core, Closable(cs, ci, tbclist), Once(tbclist, called), NEW t, NEW v \in Free, NewTbc(t, v)
  PROVE  Once(tbclist', called')
  <1> DEFINE m == Mark(v, NextBase(t), Len(ci[t]))
             M == tbclist'
  <1>1. Interp(t) /\ M = [tbclist EXCEPT ![t] = Append(@, m)] /\ called' = called \ {v}
    BY DEF NewTbc
  <1>2. t \in Threads /\ tbclist \in MarkLists /\ m.var = v
    BY <1>1, InterpFacts, ClosableNow DEF Mark
  <1> HIDE DEF m, M
  <1>3. Once(M, called \ {v})
    BY <1>1, <1>2, OnceAppended
  <1> QED BY <1>1, <1>3 DEF M

\* A C function that marks a variable, or none.
LEMMA CallCOnce ==
  ASSUME Core, Closable(cs, ci, tbclist), Once(tbclist, called), NEW t,
         NEW vs, vs = <<>> \/ \E v \in Free : vs = <<v>>, CallC(t, vs)
  PROVE  Once(tbclist', called')
  <1> DEFINE M == tbclist'
  <1>1. /\ Interp(t) /\ called' = called \ ToSet(vs)
        /\ M = [tbclist EXCEPT ![t] =
                  @ \o [i \in 1..Len(vs) |-> Mark(vs[i], NextBase(t) + i, Len(ci[t]) + 1)]]
    BY DEF CallC
  <1>2. t \in Threads /\ tbclist \in MarkLists /\ tbclist[t] \in Seq(Marks)
    BY <1>1, InterpFacts, ClosableNow
  <1>3. CASE vs = <<>>
    <2>1. [i \in 1..Len(vs) |-> Mark(vs[i], NextBase(t) + i, Len(ci[t]) + 1)] = <<>>
      BY <1>3
    <2>2. tbclist[t] \o <<>> = tbclist[t]
      BY <1>2
    <2>3. M = [tbclist EXCEPT ![t] = tbclist[t]]
      BY <1>1, <2>1, <2>2
    <2>4. M = tbclist /\ called' \subseteq called
      BY <1>1, <1>2, <2>3 DEF MarkLists
    <2> QED BY <2>4 DEF Once, M
  <1>4. CASE \E v \in Free : vs = <<v>>
    <2>1. PICK v \in Free : vs = <<v>>
      BY <1>4
    <2> DEFINE m == Mark(v, NextBase(t) + 1, Len(ci[t]) + 1)
    <2>2. [i \in 1..Len(vs) |-> Mark(vs[i], NextBase(t) + i, Len(ci[t]) + 1)] = <<m>>
      BY <2>1
    <2>3. ToSet(vs) = {v} /\ m.var = v
      BY <2>1 DEF ToSet, Mark
    <2>4. m \in Marks
      <3>1. NextBase(t) \in Nat \ {0} /\ Len(ci[t]) \in Nat /\ v \in Vars
        BY <1>1, InterpFacts DEF Free
      <3> QED BY <3>1 DEF Mark, Marks
    <2> HIDE DEF m, M
    <2>5. tbclist[t] \o <<m>> = Append(tbclist[t], m)
      BY <1>2, <2>4
    <2>6. M = [tbclist EXCEPT ![t] = Append(@, m)] /\ called' = called \ {v}
      BY <1>1, <2>2, <2>3, <2>5
    <2>7. Once(M, called \ {v})
      BY <1>2, <2>3, <2>6, OnceAppended
    <2> QED BY <2>6, <2>7 DEF M
  <1> QED BY <1>3, <1>4

\* vmkF_close calls the next method.
LEMMA CallCloseOnce ==
  ASSUME Core, Closable(cs, ci, tbclist), Once(tbclist, called), cs # <<>>, NEW t, CallClose(t)
  PROVE  Once(tbclist', called')
  <1> DEFINE l == tbclist[t]
             M == tbclist'
             x == Last(l).var
  <1>1. /\ t = Last(cs).th /\ l # <<>> /\ M = [tbclist EXCEPT ![t] = Front(l)] /\ called' = called \cup {x}
        /\ Last(cs).op = "close"
    BY DEF CallClose, Top, HasPending
  <1>2. t \in Threads /\ tbclist \in MarkLists /\ l \in Seq(Marks)
    BY <1>1, TopLevel, ClosableNow
  <1>3. M[t] = Front(l) /\ \A u \in Threads : u # t => M[u] = tbclist[u]
    BY <1>1, <1>2 DEF MarkLists
  <1> DEFINE k == Front(l)
  <1>4. /\ Len(l) \in DOMAIN l /\ Last(l) = l[Len(l)] /\ Len(l) \in Nat \ {0}
        /\ \A i \in DOMAIN k : i \in DOMAIN l /\ k[i] = l[i] /\ i # Len(l)
    <2>1. /\ Len(l) \in DOMAIN l /\ Last(l) = l[Len(l)] /\ Len(l) \in Nat \ {0} /\ DOMAIN l = 1..Len(l)
          /\ DOMAIN k = 1..(Len(l) - 1) /\ \A i \in 1..(Len(l) - 1) : k[i] = l[i]
      BY <1>1, <1>2, Shortened
    <2> HIDE DEF k, l
    <2> QED BY <2>1
  <1>5. x = tbclist[t][Len(l)].var /\ Len(l) \in DOMAIN tbclist[t]
    BY <1>4
  <1> HIDE DEF k, x, M
  <1>6. ASSUME NEW u \in Threads, NEW i \in DOMAIN M[u]
        PROVE  i \in DOMAIN tbclist[u] /\ M[u][i] = tbclist[u][i] /\ ~(u = t /\ i = Len(l))
    BY <1>3, <1>4 DEF k
  <1>7. ASSUME NEW u \in Threads, NEW i \in DOMAIN M[u] PROVE M[u][i].var \notin called \cup {x}
    <2>1. i \in DOMAIN tbclist[u] /\ M[u][i] = tbclist[u][i] /\ ~(u = t /\ i = Len(l))
      BY <1>6
    <2> QED BY <1>2, <1>5, <2>1 DEF Once
  <1>8. Once(M, called \cup {x})
    BY <1>6, <1>7, OnceKept
  <1> QED BY <1>1, <1>8 DEF M

-----------------------------------------------------------------------------
(* The invariant of the pending variables. *)

\* No other action changes the pending variables.
LEMMA ListKept ==
  ASSUME NEW t,
         \/ StartChunk \/ CallVmk(t) \/ PCall(t) \/ Error(t) \/ Yield(t) \/ CloseBlock(t) \/ Return(t)
         \/ Start(t) \/ Unroll(t) \/ ReturnFromC(t) \/ ResumeReturns(t) \/ CloseReturns(t) \/ Raise(t)
         \/ \E co : WrapRefused(t, co) \/ CloseCo(t, co) \/ \E f : Resume(t, co, f)
  PROVE  tbclist' = tbclist /\ called' = called
  BY DEF StartChunk, CallVmk, PCall, Error, Yield, CloseBlock, Return, Start, Unroll, ReturnFromC,
         ResumeReturns, CloseReturns, Raise, WrapRefused, CloseCo, Resume

\* The actions, one at a time.
LEMMA TbcSteps ==
  ASSUME Core, Core', TbcInv, Next
  PROVE  TbcInv'
  <1> DEFINE t == Running
  <1>1. Closable(cs, ci, tbclist) /\ Once(tbclist, called) /\ Good(cs', ci') /\ (cs # <<>> => t = Last(cs).th)
    <2>1. Good(cs', ci')
      BY DEF Core, Sound
    <2>2. cs # <<>> => t = Last(cs).th
      BY DEF Running, Top
    <2> QED BY <2>1, <2>2 DEF TbcInv
  <1>2. ASSUME tbclist' = tbclist, called' = called, Closable(cs', ci', tbclist) \/ Closable(cs', ci', tbclist')
        PROVE  TbcInv'
    BY <1>1, <1>2 DEF TbcInv
  <1> HIDE DEF t
  <1>3. CASE StartChunk
    BY <1>1, <1>2, <1>3, StartChunkClosable, ListKept
  <1>4. CASE cs # <<>> /\ ~StartChunk
    <2>1. CASE CallVmk(t)
      BY <1>1, <1>2, <2>1, CallVmkClosable, ListKept
    <2>2. CASE PCall(t)
      BY <1>1, <1>2, <2>2, PCallClosable, ListKept
    <2>3. CASE Error(t)
      <3>1. Throw(t, ci[t], cs, "err")
        BY <2>3 DEF Error
      <3> QED BY <1>1, <1>2, <1>4, <2>3, <3>1, ThrowHere, ListKept
    <2>4. CASE Yield(t)
      BY <1>1, <1>2, <2>4, YieldClosable, ListKept
    <2>5. CASE CloseBlock(t) \/ Return(t)
      BY <1>1, <1>2, <2>5, EndsClosable, ListKept
    <2>6. CASE Start(t)
      BY <1>1, <1>2, <1>4, <2>6, StartClosable, ListKept
    <2>7. CASE Unroll(t)
      BY <1>1, <1>2, <1>4, <2>7, UnrollClosable, ListKept
    <2>8. CASE ReturnFromC(t)
      BY <1>1, <1>2, <1>4, <2>8, ReturnFromCClosable, ListKept
    <2>9. CASE ResumeReturns(t)
      BY <1>1, <1>2, <1>4, <2>9, ResumeReturnsClosable, ListKept
    <2>10. CASE CallClose(t)
      <3>1. Closable(cs', ci', tbclist')
        BY <1>1, <1>4, <2>10, CallCloseClosable
      <3>2. Once(tbclist', called')
        BY <1>1, <1>4, <2>10, CallCloseOnce
      <3> QED BY <3>1, <3>2 DEF TbcInv
    <2>11. CASE CloseReturns(t)
      BY <1>1, <1>2, <1>4, <2>11, CloseReturnsClosable, ListKept
    <2>12. CASE Raise(t)
      <3>1. Throw(t, ci[t], cs, "err")
        BY <2>12 DEF Raise
      <3> QED BY <1>1, <1>2, <1>4, <2>12, <3>1, ThrowHere, ListKept
    <2>13. ASSUME NEW v \in Free, NewTbc(t, v) PROVE TbcInv'
      <3>1. v \in Vars
        BY DEF Free
      <3>2. Closable(cs', ci', tbclist')
        BY <1>1, <2>13, <3>1, NewTbcClosable
      <3>3. Once(tbclist', called')
        BY <1>1, <2>13, NewTbcOnce
      <3> QED BY <3>2, <3>3 DEF TbcInv
    <2>14. ASSUME NEW vs \in {<<>>} \cup {<<v>> : v \in Free}, CallC(t, vs) PROVE TbcInv'
      <3>1. vs = <<>> \/ \E v \in Free : vs = <<v>>
        OBVIOUS
      <3>2. vs = <<>> \/ \E v \in Vars : vs = <<v>>
        BY <3>1 DEF Free
      <3>3. Closable(cs', ci', tbclist')
        BY <1>1, <2>14, <3>2, CallCClosable
      <3>4. Once(tbclist', called')
        BY <1>1, <2>14, <3>1, CallCOnce
      <3> QED BY <3>3, <3>4 DEF TbcInv
    <2>15. ASSUME NEW co \in Threads, WrapRefused(t, co) \/ CloseCo(t, co) PROVE TbcInv'
      <3>1. Closable(cs', ci', tbclist)
        BY <1>1, <2>15, CloseCoClosable
      <3>2. tbclist' = tbclist /\ called' = called
        BY <2>15, ListKept
      <3> QED BY <1>2, <3>1, <3>2
    <2>16. ASSUME NEW co \in Threads, NEW f \in {"resume", "wrap"}, Resume(t, co, f) PROVE TbcInv'
      <3>1. Closable(cs', ci', tbclist)
        BY <1>1, <2>16, ResumeClosable
      <3>2. tbclist' = tbclist /\ called' = called
        BY <2>16, ListKept
      <3> QED BY <1>2, <3>1, <3>2
    <2> QED BY <1>4, <2>1, <2>2, <2>3, <2>4, <2>5, <2>6, <2>7, <2>8, <2>9, <2>10, <2>11, <2>12, <2>13,
               <2>14, <2>15, <2>16 DEF Next, t
  <1> QED BY <1>3, <1>4 DEF Next

\* The invariant shows that each variable is closed, and closed once.
LEMMA ClosedWhenClosable == Core /\ TbcInv => ClosedExactlyOnce
  <1> SUFFICES ASSUME Core, TbcInv PROVE ClosedExactlyOnce
    OBVIOUS
  <1>1. Closable(cs, ci, tbclist) /\ Once(tbclist, called)
    BY DEF TbcInv
  <1>2. ASSUME NEW t \in Threads, NEW p \in ToSet(tbclist[t])
        PROVE  /\ p.var \notin called
               /\ \/ p.frame <= Len(ci[t]) /\ ci[t][p.frame].base < p.at
                  \/ \E a \in ToSet(cs) : a.op = "close" /\ a.th = t /\ a.level <= p.at
                  \/ \E f \in ToSet(ci[t]) : f.ypcall /\ f.recst /\ f.base < p.at
    <2>1. PICK i \in DOMAIN tbclist[t] : p = tbclist[t][i]
      BY DEF ToSet
    <2>2. p.var \notin called
      BY <1>1, <2>1 DEF Once
    <2>3. Covered(cs, ci[t], t, p) /\ ci[t] \in Seq(Frame)
      BY <1>1, ClosableNow DEF Pending
    <2>4. CASE Owned(ci[t], p)
      <3>1. p.frame <= Len(ci[t]) /\ ci[t][p.frame].base < p.at
        BY ONLY <2>3, <2>4 DEF Owned
      <3> QED BY <2>2, <3>1
    <2>5. CASE Cleared(cs, t, p)
      <3>1. \E a \in ToSet(cs) : a.op = "close" /\ a.th = t /\ a.level <= p.at
        BY ONLY <2>5 DEF Cleared, ToSet
      <3> QED BY <2>2, <3>1
    <2>6. CASE Recovered(ci[t], p)
      <3>1. \E f \in ToSet(ci[t]) : f.ypcall /\ f.recst /\ f.base < p.at
        BY ONLY <2>6 DEF Recovered, ToSet
      <3> QED BY <2>2, <3>1
    <2> QED BY <2>2, <2>3, <2>4, <2>5, <2>6 DEF Covered
  <1> QED BY <1>2 DEF ClosedExactlyOnce, NoTbcForgotten, ClosedOnce

\* vmkF_close and its callers close every pending variable, and none twice,
\* through errors, yields and resets: the variable is owned by a frame above
\* which it lies, by a close at or below its level, or by a pcall to recover.
THEOREM ClosedAlwaysOnce == Spec => []ClosedExactlyOnce
  <1>1. Init => Core /\ TbcInv
    <2> SUFFICES ASSUME Init PROVE Core /\ TbcInv
      OBVIOUS
    <2>1. Core
      BY CoreInit
    <2>2. cs = <<>> /\ \A t \in Threads : ci[t] = <<>> /\ tbclist[t] = <<>>
      BY DEF Init
    <2>3. Closable(cs, ci, tbclist)
      BY <2>2 DEF Closable, Levels, Pending, Bases, Rising, ToSet
    <2>4. Once(tbclist, called)
      BY <2>2 DEF Once
    <2> QED BY <2>1, <2>3, <2>4 DEF TbcInv
  <1>2. Core /\ TbcInv /\ [Next]_vars => Core' /\ TbcInv'
    <2> SUFFICES ASSUME Core, TbcInv, [Next]_vars PROVE Core' /\ TbcInv'
      OBVIOUS
    <2>1. Core'
      BY CoreNext
    <2>2. CASE Next
      BY <2>1, <2>2, TbcSteps
    <2>3. CASE UNCHANGED vars
      BY <2>1, <2>3 DEF vars, TbcInv
    <2> QED BY <2>1, <2>2, <2>3
  <1> QED BY <1>1, <1>2, ClosedWhenClosable, PTL DEF Spec

=============================================================================
