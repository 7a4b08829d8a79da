---------------------------- MODULE CallsLemmas -----------------------------
(***************************************************************************)
(* Lemmas about the parts of CallsInvariant: what each one says of a C     *)
(* stack that grows by an activation or is cut, and of frames that are     *)
(* added, removed or go on; then what the steps that the actions of Calls  *)
(* share do to a sound state: calls and setjmps pushed on the C stack,     *)
(* returns, throws to a handler, closes that finish, and threads that are  *)
(* entered and left.  An action makes several of these steps, and Mid is   *)
(* what holds in between.                                                  *)
(***************************************************************************)
EXTENDS CallsInvariant, FiniteSetTheorems, WellFoundedInduction, TLAPS

-----------------------------------------------------------------------------
(* Least and greatest elements of sets of indices.  A set of naturals with *)
(* a least element is what induction is about: a property of a structure   *)
(* holds of all its elements when it has no first exception.               *)

\* A set of natural numbers has a least element.
LEMMA LeastNatural ==
  \A T \in SUBSET Nat : T # {} => \E n \in T : \A m \in T : n <= m
  <1> SUFFICES ASSUME NEW T \in SUBSET Nat, T # {}
               PROVE  \E n \in T : \A m \in T : n <= m
    OBVIOUS
  <1> DEFINE R == {ss \in Nat \X Nat : ss[1] < ss[2]}
  <1>1. OpToRel(<, Nat) = R
    BY Zenon DEF OpToRel
  <1>2. IsWellFoundedOn(R, Nat)
    BY <1>1, NatLessThanWellFounded, Zenon
  <1>3. PICK n \in T : \A m \in T : ~(<<m, n>> \in R)
    <2> HIDE DEF R
    <2> QED BY <1>2, WFMin
  <1>4. ASSUME NEW m \in T PROVE n <= m
    <2>1. ~(<<m, n>> \in R) /\ m \in Nat /\ n \in Nat
      BY <1>3
    <2>2. <<m, n>> \in Nat \X Nat /\ <<m, n>>[1] = m /\ <<m, n>>[2] = n
      BY <2>1
    <2>3. ~(m < n)
      BY <2>1, <2>2
    <2> QED BY <2>3, <2>1
  <1> QED BY <1>4

\* A set of indices has a greatest element, which Max is.
LEMMA GreatestIndex ==
  ASSUME NEW n \in Nat, NEW I \in SUBSET (1..n), I # {}
  PROVE  Max(I) \in I /\ \A i \in I : i <= Max(I)
  <1> DEFINE T == {k \in Nat : \E i \in I : k = n - i}
  <1>0. \A i \in I : i \in 1..n
    OBVIOUS
  <1>1. T \in SUBSET Nat /\ T # {}
    <2>1. PICK i \in I : TRUE
      OBVIOUS
    <2>2. n - i \in T
      BY <2>1, <1>0
    <2> QED BY <2>2
  <1>2. PICK m \in T : \A k \in T : m <= k
    <2> HIDE DEF T
    <2> QED BY <1>1, LeastNatural
  <1>3. PICK j \in I : m = n - j
    BY <1>2
  <1>4. \A i \in I : j >= i
    <2> TAKE i \in I
    <2>1. n - i \in T
      BY <1>0
    <2> QED BY <1>2, <1>3, <1>0, <2>1
  <1>5. \E x \in I : \A y \in I : x >= y
    BY <1>4, <1>3
  <1>6. Max(I) \in I /\ \A y \in I : Max(I) >= y
    BY <1>5 DEF Max
  <1> QED BY <1>6, <1>0

-----------------------------------------------------------------------------
(* Sequences. *)

\* A sequence that grew by one element.
LEMMA Appended ==
  ASSUME NEW S, NEW s \in Seq(S), NEW e \in S
  PROVE  /\ Append(s, e) \in Seq(S) /\ Append(s, e) # <<>>
         /\ Len(Append(s, e)) = Len(s) + 1
         /\ Last(Append(s, e)) = e /\ Append(s, e)[Len(s) + 1] = e
         /\ DOMAIN Append(s, e) = 1..(Len(s) + 1)
         /\ \A i \in 1..Len(s) : Append(s, e)[i] = s[i]
         /\ Front(Append(s, e)) = s
  <1>1. Append(s, e) \in Seq(S) /\ Len(Append(s, e)) = Len(s) + 1 /\ Len(s) \in Nat
    OBVIOUS
  <1>5. DOMAIN Append(s, e) = 1..(Len(s) + 1) /\ Append(s, e) # <<>>
    BY <1>1
  <1>2. \A i \in 1..Len(s) : Append(s, e)[i] = s[i]
    OBVIOUS
  <1>3. Append(s, e)[Len(s) + 1] = e
    OBVIOUS
  <1>4. Front(Append(s, e)) = s
    BY DEF Front
  <1> QED BY <1>1, <1>2, <1>3, <1>4, <1>5 DEF Last

\* A prefix of a sequence.
LEMMA Prefix ==
  ASSUME NEW S, NEW s \in Seq(S), NEW n \in 0..Len(s)
  PROVE  /\ SubSeq(s, 1, n) \in Seq(S) /\ Len(SubSeq(s, 1, n)) = n
         /\ DOMAIN SubSeq(s, 1, n) = 1..n
         /\ \A i \in 1..n : SubSeq(s, 1, n)[i] = s[i]
         /\ n > 0 => Last(SubSeq(s, 1, n)) = s[n]
         /\ SubSeq(s, 1, n) = <<>> <=> n = 0
  <1>1. SubSeq(s, 1, n) \in Seq(S) /\ Len(SubSeq(s, 1, n)) = n
    OBVIOUS
  <1>2. \A i \in 1..n : SubSeq(s, 1, n)[i] = s[i]
    OBVIOUS
  <1>3. SubSeq(s, 1, n) = <<>> <=> n = 0
    BY <1>1
  <1> QED BY <1>1, <1>2, <1>3 DEF Last

\* A sequence without its last element.
LEMMA Shortened ==
  ASSUME NEW S, NEW s \in Seq(S), s # <<>>
  PROVE  /\ Len(s) \in Nat \ {0} /\ Len(s) \in DOMAIN s /\ DOMAIN s = 1..Len(s)
         /\ Last(s) \in S /\ Last(s) = s[Len(s)]
         /\ Front(s) = SubSeq(s, 1, Len(s) - 1) /\ Len(s) - 1 \in 0..Len(s)
         /\ Front(s) \in Seq(S) /\ Len(Front(s)) = Len(s) - 1
         /\ DOMAIN Front(s) = 1..(Len(s) - 1)
         /\ \A i \in 1..(Len(s) - 1) : Front(s)[i] = s[i]
         /\ Len(s) > 1 => Last(Front(s)) = s[Len(s) - 1] /\ Front(s) # <<>>
         /\ Len(s) = 1 => Front(s) = <<>>
  <1>1. Len(s) \in Nat \ {0}
    OBVIOUS
  <1>2. Len(s) - 1 \in 0..Len(s)
    BY <1>1
  <1>3. Front(s) = SubSeq(s, 1, Len(s) - 1)
    BY DEF Front
  <1>4. s[Len(s)] \in S /\ DOMAIN s = 1..Len(s)
    BY <1>1
  <1> DEFINE D == SubSeq(s, 1, Len(s) - 1)
  <1>5. /\ D \in Seq(S) /\ Len(D) = Len(s) - 1 /\ DOMAIN D = 1..(Len(s) - 1)
        /\ \A i \in 1..(Len(s) - 1) : D[i] = s[i]
        /\ D = <<>> <=> Len(s) - 1 = 0
    BY <1>2, Prefix
  <1> HIDE DEF D
  <1> QED BY <1>1, <1>2, <1>3, <1>4, <1>5 DEF Last, D

-----------------------------------------------------------------------------
(* The shape of the C stack. *)

\* The fields of an activation.
LEMMA ActivationFields ==
  ASSUME NEW a \in Activation
  PROVE  /\ a.op \in {"raw", "call", "close"} /\ a.th \in Threads /\ a.depth \in Nat
         /\ a.op = "raw" => /\ a.job \in {"pcall", "close", "resume", "unroll"}
                            /\ a.cc \in Nat /\ a.nny \in Nat
         /\ a.op = "call" => a.inc \in {0, 1}
         /\ a.op = "close" => a.level \in Nat \ {0} /\ a.yy \in BOOLEAN
  <1>1. CASE a \in [op : {"raw"}, th : Threads, job : {"pcall", "close", "resume", "unroll"},
                    depth : Nat, cc : Nat, nny : Nat]
    BY <1>1
  <1>2. CASE a \in [op : {"call"}, th : Threads, depth : Nat, inc : {0, 1}]
    BY <1>2
  <1>3. CASE a \in [op : {"close"}, th : Threads, depth : Nat, level : Nat \ {0}, yy : BOOLEAN]
    BY <1>3
  <1> QED BY <1>1, <1>2, <1>3 DEF Activation

\* The parts of Shape, one at a time.
LEMMA ShapeParts ==
  ASSUME NEW C \in Seq(Activation), Shape(C)
  PROVE  /\ Len(C) \in Nat /\ DOMAIN C = 1..Len(C)
         /\ \A i \in 1..Len(C) :
               /\ C[i] \in Activation /\ C[i].th \in Threads /\ C[i].depth \in Nat
               /\ InC(C, C[i].th)
               /\ i = 1 => Bottom(C[i])
               /\ i > 1 => i - 1 \in 1..Len(C) /\ Over(C[i-1], C[i])
               /\ i < Len(C) => i + 1 \in 1..Len(C) /\ Over(C[i], C[i+1])
         /\ \A i, j \in 1..Len(C) : i < j /\ Entering(C[j]) => C[i].th # C[j].th
         /\ \A i, j \in 1..Len(C) : i < j /\ C[i].th = C[j].th =>
               /\ \A k \in i..j : C[k].th = C[i].th
               /\ C[i].depth <= C[j].depth
               /\ C[j].op = "call" => C[i].depth < C[j].depth
  <1>1. Len(C) \in Nat /\ DOMAIN C = 1..Len(C)
    OBVIOUS
  <1>2. \A i \in 1..Len(C) : IF i = 1 THEN Bottom(C[1]) ELSE Over(C[i-1], C[i])
    BY <1>1 DEF Shape
  <1>3. ASSUME NEW i \in 1..Len(C)
        PROVE  /\ C[i] \in Activation /\ C[i].th \in Threads /\ C[i].depth \in Nat
               /\ InC(C, C[i].th)
               /\ i = 1 => Bottom(C[i])
               /\ i > 1 => i - 1 \in 1..Len(C) /\ Over(C[i-1], C[i])
               /\ i < Len(C) => i + 1 \in 1..Len(C) /\ Over(C[i], C[i+1])
    <2>1. C[i] \in Activation
      BY <1>1
    <2>2. InC(C, C[i].th)
      BY <1>1 DEF InC
    <2>3. i < Len(C) => i + 1 \in 1..Len(C) /\ i + 1 # 1 /\ (i + 1) - 1 = i
      BY <1>1
    <2>4. i < Len(C) => Over(C[i], C[i+1])
      <3> HAVE i < Len(C)
      <3>1. Over(C[(i+1)-1], C[i+1])
        BY <1>2, <2>3
      <3> QED BY <3>1, <2>3
    <2> QED BY <2>1, <2>2, <2>3, <2>4, <1>1, <1>2, ActivationFields
  <1>4. \A i, j \in 1..Len(C) : i < j /\ Entering(C[j]) => C[i].th # C[j].th
    BY <1>1 DEF Shape
  <1>5. \A i, j \in 1..Len(C) : i < j /\ C[i].th = C[j].th =>
               /\ \A k \in i..j : C[k].th = C[i].th
               /\ C[i].depth <= C[j].depth
               /\ C[j].op = "call" => C[i].depth < C[j].depth
    BY <1>1 DEF Shape
  <1> QED BY <1>1, <1>3, <1>4, <1>5

\* What was true of a C stack is true of its lower part.
LEMMA ShapePrefix ==
  ASSUME NEW C \in Seq(Activation), Shape(C), NEW n \in 0..Len(C)
  PROVE  Shape(SubSeq(C, 1, n))
  <1> DEFINE D == SubSeq(C, 1, n)
  <1>1. DOMAIN D = 1..n /\ DOMAIN C = 1..Len(C) /\ Len(C) \in Nat /\ \A i \in 1..n : D[i] = C[i]
    BY Prefix
  <1> HIDE DEF D
  <1>2. \A i \in DOMAIN D : IF i = 1 THEN Bottom(D[1]) ELSE Over(D[i-1], D[i])
    BY <1>1 DEF Shape
  <1>3. \A i, j \in DOMAIN D : i < j /\ Entering(D[j]) => D[i].th # D[j].th
    BY <1>1 DEF Shape
  <1>4. \A i, j \in DOMAIN D : i < j /\ D[i].th = D[j].th =>
          /\ \A k \in i..j : D[k].th = D[i].th
          /\ D[i].depth <= D[j].depth
          /\ D[j].op = "call" => D[i].depth < D[j].depth
    BY <1>1 DEF Shape
  <1>5. \A j \in DOMAIN D : \E i \in 1..j :
          /\ D[i].op = "raw" /\ D[i].th = D[j].th
          /\ \A k \in (i+1)..j : D[k].op # "raw"
    BY <1>1 DEF Shape
  <1> QED BY <1>2, <1>3, <1>4, <1>5 DEF Shape, D

\* An activation over the last one.
LEMMA ShapeAppend ==
  ASSUME NEW C \in Seq(Activation), Shape(C), NEW a \in Activation,
         IF C = <<>> THEN Bottom(a) ELSE Over(Last(C), a),
         Entering(a) => ~InC(C, a.th)
  PROVE  Shape(Append(C, a))
  <1> DEFINE D == Append(C, a)
             n == Len(C)
  <1>1. n \in Nat /\ DOMAIN D = 1..(n+1) /\ DOMAIN C = 1..n /\ D[n+1] = a
        /\ \A i \in 1..n : D[i] = C[i]
    BY Appended
  <1>2. C # <<>> => n > 0 /\ Last(C) = C[n]
    BY DEF Last
  <1>3. C = <<>> => n = 0
    OBVIOUS
  <1>4. \A i \in 1..n : C[i].depth \in Nat
    BY ActivationFields
  <1>5. a.depth \in Nat
    BY ActivationFields
  <1>6. n > 0 /\ a.th = C[n].th /\ ~Entering(a) => C[n].depth <= a.depth /\ (a.op = "call" => C[n].depth < a.depth)
    BY <1>2, <1>3, <1>4, <1>5 DEF Over, Calls, Closes, Enters
  <1>7. n > 0 => Entering(a) \/ a.th = C[n].th
    BY <1>2, <1>3 DEF Over, Enters
  <1> HIDE DEF D, n
  <1>a. \A i \in DOMAIN D : IF i = 1 THEN Bottom(D[1]) ELSE Over(D[i-1], D[i])
    BY <1>1, <1>2, <1>3 DEF Shape
  <1>b. \A i, j \in DOMAIN D : i < j /\ Entering(D[j]) => D[i].th # D[j].th
    BY <1>1 DEF Shape, InC
  <1>c. ASSUME NEW i \in DOMAIN D, NEW j \in DOMAIN D, i < j, D[i].th = D[j].th
        PROVE  /\ \A k \in i..j : D[k].th = D[i].th
               /\ D[i].depth <= D[j].depth
               /\ D[j].op = "call" => D[i].depth < D[j].depth
    <2>1. CASE j <= n
      BY <2>1, <1>1, <1>c DEF Shape
    <2>2. CASE j = n + 1
      <3>1. ~Entering(a) /\ i \in 1..n /\ n > 0 /\ a.th = C[n].th
        BY <1>b, <1>c, <2>2, <1>1, <1>7
      <3>2. CASE i = n
        BY <3>1, <3>2, <2>2, <1>1, <1>6, <1>c
      <3>3. CASE i < n
        <4>1. C[i].th = C[n].th
          BY <3>1, <1>1, <1>c, <2>2
        <4>2. /\ \A k \in i..n : C[k].th = C[i].th
              /\ C[i].depth <= C[n].depth
          BY <4>1, <3>1, <3>3, <1>1 DEF Shape
        <4>3. C[i].depth \in Nat /\ C[n].depth \in Nat
          BY <1>4, <3>1, <1>1
        <4>4. \A k \in i..j : D[k].th = D[i].th
          BY <4>1, <4>2, <3>1, <3>3, <2>2, <1>1
        <4> QED BY <4>2, <4>3, <4>4, <3>1, <3>3, <2>2, <1>1, <1>6, <1>5
      <3> QED BY <3>1, <3>2, <3>3, <1>1
    <2> QED BY <2>1, <2>2, <1>1
  <1>d. ASSUME NEW j \in DOMAIN D
        PROVE  \E i \in 1..j : /\ D[i].op = "raw" /\ D[i].th = D[j].th
                               /\ \A k \in (i+1)..j : D[k].op # "raw"
    <2>1. CASE j <= n
      <3>1. PICK i \in 1..j : /\ C[i].op = "raw" /\ C[i].th = C[j].th
                              /\ \A k \in (i+1)..j : C[k].op # "raw"
        BY <2>1, <1>1 DEF Shape
      <3> QED BY <3>1, <2>1, <1>1
    <2>2. CASE j = n + 1 /\ a.op = "raw"
      BY <2>2, <1>1
    <2>3. CASE j = n + 1 /\ a.op # "raw"
      <3>1. n > 0 /\ a.th = C[n].th
        BY <2>3, <1>3, <1>7, <1>1 DEF Bottom, Protected, Entering
      <3>2. PICK i \in 1..n : /\ C[i].op = "raw" /\ C[i].th = C[n].th
                              /\ \A k \in (i+1)..n : C[k].op # "raw"
        BY <3>1, <1>1 DEF Shape
      <3>3. \A k \in (i+1)..j : D[k].op # "raw"
        BY <3>2, <2>3, <1>1
      <3> QED BY <3>1, <3>2, <3>3, <2>3, <1>1
    <2> QED BY <2>1, <2>2, <2>3, <1>1
  <1> QED BY <1>a, <1>b, <1>c, <1>d DEF Shape, D

-----------------------------------------------------------------------------
(* Frames. *)

\* Two frames of the same call, whatever it is doing.
SameKind(f, g) == /\ f.fn = g.fn /\ f.base = g.base /\ f.fresh = g.fresh
                  /\ f.ypcall = g.ypcall

\* r is the first n frames of s, but for what the last of them is doing.
Trimmed(r, s, n) ==
    /\ r \in Seq(Frame) /\ n \in 0..Len(s) /\ Len(r) = n
    /\ \A k \in 1..(n-1) : r[k] = s[k]
    /\ n > 0 => SameKind(r[n], s[n])

\* r has the first d frames of s.
Agree(r, s, d) ==
    /\ Len(r) >= d
    /\ \A k \in 1..(d-1) : r[k] = s[k]
    /\ d > 0 => SameKind(r[d], s[d])

\* The fields of a frame.
LEMMA FrameFields ==
  ASSUME NEW f \in Frame
  PROVE  /\ f.fn \in {"vmk", "pcall", "call", "resume", "wrap", "close", "yield"}
         /\ f.pc \in {"run", "wait", "closing", "returning", "raise"}
         /\ f.base \in Nat \ {0} /\ f.fresh \in BOOLEAN /\ f.ypcall \in BOOLEAN
         /\ f.recst \in BOOLEAN /\ f.clsret \in BOOLEAN
  BY DEF Frame

\* A frame with another pc.
LEMMA FrameAt ==
  ASSUME NEW f \in Frame, NEW x \in {"run", "wait", "closing", "returning", "raise"}
  PROVE  /\ [f EXCEPT !.pc = x] \in Frame /\ SameKind([f EXCEPT !.pc = x], f)
         /\ [f EXCEPT !.pc = x].pc = x /\ [f EXCEPT !.pc = x].recst = f.recst
  BY DEF Frame, SameKind

\* The frames with another pc of the last one.
LEMMA LastAt ==
  ASSUME NEW s \in Seq(Frame), s # <<>>,
         NEW x \in {"run", "wait", "closing", "returning", "raise"}
  PROVE  LET r == [s EXCEPT ![Len(s)].pc = x]
         IN /\ Trimmed(r, s, Len(s)) /\ r # <<>> /\ Len(r) = Len(s)
            /\ Last(r).pc = x /\ Last(r).recst = Last(s).recst
            /\ SameKind(Last(r), Last(s)) /\ Last(r) = r[Len(s)]
  <1> DEFINE r == [s EXCEPT ![Len(s)].pc = x]
             f == [s[Len(s)] EXCEPT !.pc = x]
  <1>1. Len(s) \in 1..Len(s) /\ Len(s) \in Nat /\ s[Len(s)] \in Frame
    BY Shortened
  <1>2. f \in Frame /\ SameKind(f, s[Len(s)]) /\ f.pc = x /\ f.recst = s[Len(s)].recst
    BY <1>1, FrameAt
  <1>3. r = [s EXCEPT ![Len(s)] = f]
    OBVIOUS
  <1> HIDE DEF f
  <1>4. r \in Seq(Frame) /\ Len(r) = Len(s) /\ r[Len(s)] = f /\ \A k \in 1..(Len(s)-1) : r[k] = s[k]
    BY <1>1, <1>2, <1>3, SMTT(30)
  <1>5. r # <<>>
    BY <1>1, <1>4
  <1> HIDE DEF r
  <1>6. Trimmed(r, s, Len(s))
    BY <1>1, <1>2, <1>4 DEF Trimmed
  <1>7. Last(r) = r[Len(s)] /\ Last(s) = s[Len(s)]
    BY <1>4 DEF Last
  <1> QED BY <1>2, <1>4, <1>5, <1>6, <1>7 DEF r

\* A frame has its own kind.
LEMMA SameKindItself == \A f : SameKind(f, f)
  BY DEF SameKind

\* The first frames of a thread, as they are.
LEMMA TrimmedPrefix ==
  ASSUME NEW s \in Seq(Frame), NEW n \in 0..Len(s)
  PROVE  Trimmed(SubSeq(s, 1, n), s, n)
  <1>1. n > 0 => n \in 1..n
    OBVIOUS
  <1> QED BY <1>1, Prefix, SameKindItself DEF Trimmed

\* Rerun keeps the frames, and lets the last one run.
LEMMA RerunTrims ==
  ASSUME NEW s \in Seq(Frame)
  PROVE  /\ Trimmed(Rerun(s), s, Len(s))
         /\ s # <<>> => Last(Rerun(s)).pc = "run" /\ Rerun(s)[Len(s)] = Last(Rerun(s))
  <1>1. CASE s = <<>>
    <2>1. Rerun(s) = s /\ Len(s) = 0
      BY <1>1 DEF Rerun
    <2>2. Trimmed(s, s, 0)
      BY <2>1 DEF Trimmed
    <2> QED BY <1>1, <2>1, <2>2
  <1>2. CASE s # <<>>
    <2> DEFINE r == [s EXCEPT ![Len(s)].pc = "run"]
    <2>1. Trimmed(r, s, Len(s)) /\ Last(r).pc = "run" /\ Last(r) = r[Len(s)]
      BY <1>2, LastAt
    <2>2. Rerun(s) = r
      BY <1>2 DEF Rerun
    <2> HIDE DEF r
    <2> QED BY <2>1, <2>2
  <1> QED BY <1>1, <1>2

\* ReturnC takes the last frame away, and lets the one under it run.
LEMMA ReturnCTrims ==
  ASSUME NEW s \in Seq(Frame), s # <<>>
  PROVE  /\ Trimmed(ReturnC(s), s, Len(s) - 1)
         /\ Len(s) > 1 => /\ Last(ReturnC(s)).pc = "run"
                          /\ ReturnC(s)[Len(s) - 1] = Last(ReturnC(s))
  <1> DEFINE r == Front(s)
  <1>1. /\ r \in Seq(Frame) /\ Len(r) = Len(s) - 1 /\ Len(s) \in Nat \ {0}
        /\ \A k \in 1..(Len(s)-1) : r[k] = s[k]
        /\ Len(s) > 1 => r # <<>>
    BY Shortened
  <1> HIDE DEF r
  <1>2. Trimmed(Rerun(r), r, Len(r)) /\ (r # <<>> => Last(Rerun(r)).pc = "run" /\ Rerun(r)[Len(r)] = Last(Rerun(r)))
    BY <1>1, RerunTrims
  <1>3. ReturnC(s) = Rerun(r)
    BY DEF ReturnC, r
  <1> QED BY <1>1, <1>2, <1>3 DEF Trimmed

\* What holds of the frames of a thread holds of the first ones.
LEMMA FramesTrimmed ==
  ASSUME NEW s \in Seq(Frame), Frames(s), NEW n, NEW r, Trimmed(r, s, n),
         n > 0 => PcOf(r[n])
  PROVE  Frames(r)
  <1>1. /\ n \in 0..Len(s) /\ DOMAIN r = 1..n /\ DOMAIN s = 1..Len(s) /\ Len(r) = n
        /\ Len(s) \in Nat
    BY DEF Trimmed
  <1> SUFFICES ASSUME NEW k \in 1..n
      PROVE /\ PcOf(r[k])
            /\ r[k].fn \in {"resume", "wrap", "close", "yield"} => k = Len(r)
            /\ r[k].fn # "vmk" => ~r[k].fresh /\ (k > 1 => r[k-1].fn = "vmk")
            /\ r[k].fn = "vmk" /\ ~r[k].fresh => k > 1 /\ r[k-1].fn = "vmk"
            /\ r[k].ypcall => r[k].fn = "pcall" /\ \A j \in 1..(k-1) : ~Blocking(r[j])
    BY <1>1 DEF Frames
  <1>2. \A j \in 1..(k-1) : r[j] = s[j] /\ j \in 1..Len(s)
    BY <1>1 DEF Trimmed
  <1>3. SameKind(r[k], s[k])
    BY <1>1, SameKindItself DEF Trimmed
  <1>4. PcOf(r[k])
    <2>1. CASE k < n
      BY <2>1, <1>1 DEF Trimmed, Frames
    <2>2. CASE k = n
      BY <2>2
    <2> QED BY <2>1, <2>2, <1>1
  <1>5. k > 1 => r[k-1] = s[k-1]
    BY <1>1, <1>2
  <1>7. k \in DOMAIN s
    BY <1>1
  <1>6. /\ s[k].fn \in {"resume", "wrap", "close", "yield"} => k = Len(s)
        /\ s[k].fn # "vmk" => ~s[k].fresh /\ (k > 1 => s[k-1].fn = "vmk")
        /\ s[k].fn = "vmk" /\ ~s[k].fresh => k > 1 /\ s[k-1].fn = "vmk"
        /\ s[k].ypcall => s[k].fn = "pcall" /\ \A j \in 1..(k-1) : ~Blocking(s[j])
    BY <1>7 DEF Frames
  <1>8. r[k].fn \in {"resume", "wrap", "close", "yield"} => k = Len(r)
    BY <1>1, <1>3, <1>6 DEF SameKind
  <1>9. /\ r[k].fn # "vmk" => ~r[k].fresh /\ (k > 1 => r[k-1].fn = "vmk")
        /\ r[k].fn = "vmk" /\ ~r[k].fresh => k > 1 /\ r[k-1].fn = "vmk"
    BY <1>3, <1>5, <1>6 DEF SameKind
  <1>10. r[k].ypcall => r[k].fn = "pcall" /\ \A j \in 1..(k-1) : ~Blocking(r[j])
    BY <1>2, <1>3, <1>6 DEF SameKind
  <1> QED BY <1>4, <1>8, <1>9, <1>10

\* A call pushes a frame.
LEMMA FramesAppend ==
  ASSUME NEW s \in Seq(Frame), Frames(s), NEW f \in Frame,
         PcOf(f),
         s # <<>> => Last(s).fn \notin {"resume", "wrap", "close", "yield"},
         f.fn # "vmk" => ~f.fresh /\ (s # <<>> => Last(s).fn = "vmk"),
         f.fn = "vmk" /\ ~f.fresh => s # <<>> /\ Last(s).fn = "vmk",
         f.ypcall => f.fn = "pcall" /\ \A j \in DOMAIN s : ~Blocking(s[j])
  PROVE  Frames(Append(s, f))
  <1> DEFINE r == Append(s, f)
             n == Len(s)
  <1>1. /\ DOMAIN r = 1..(n+1) /\ DOMAIN s = 1..n /\ Len(r) = n + 1 /\ n \in Nat
        /\ \A k \in 1..n : r[k] = s[k]
        /\ r[n+1] = f
    BY Appended
  <1>2. s # <<>> => n > 0 /\ Last(s) = s[n]
    BY DEF Last
  <1>3. s = <<>> => n = 0
    OBVIOUS
  <1> HIDE DEF r, n
  <1> SUFFICES ASSUME NEW k \in 1..(n+1)
      PROVE /\ PcOf(r[k])
            /\ r[k].fn \in {"resume", "wrap", "close", "yield"} => k = Len(r)
            /\ r[k].fn # "vmk" => ~r[k].fresh /\ (k > 1 => r[k-1].fn = "vmk")
            /\ r[k].fn = "vmk" /\ ~r[k].fresh => k > 1 /\ r[k-1].fn = "vmk"
            /\ r[k].ypcall => r[k].fn = "pcall" /\ \A j \in 1..(k-1) : ~Blocking(r[j])
    BY <1>1 DEF Frames, r
  <1>4. CASE k = n + 1
    BY <1>4, <1>1, <1>2, <1>3
  <1>5. CASE k < n
    BY <1>5, <1>1, <1>2, <1>3 DEF Frames, n
  <1>6. CASE k = n
    BY <1>6, <1>1, <1>2, <1>3 DEF Frames, n
  <1> QED BY <1>1, <1>4, <1>5, <1>6

-----------------------------------------------------------------------------
(* The links between the C stack and the frames. *)

\* The activations that are left of a C stack are linked as they were.
LEMMA LinkedPrefix ==
  ASSUME NEW C \in Seq(Activation), NEW F, Linked(C, F), NEW n \in 0..Len(C)
  PROVE  Linked(SubSeq(C, 1, n), F)
  <1> DEFINE D == SubSeq(C, 1, n)
  <1>1. DOMAIN D = 1..n /\ DOMAIN C = 1..Len(C) /\ Len(C) \in Nat /\ \A i \in 1..n : D[i] = C[i]
    BY Prefix
  <1> HIDE DEF D
  <1>2. Linked(D, F)
    BY <1>1 DEF Linked
  <1> QED BY <1>2 DEF D

\* An activation joins a C stack when the frames of its thread, and those of the
\* thread under it, are what it needs.
LEMMA LinkedAppend ==
  ASSUME NEW C \in Seq(Activation), NEW F, Linked(C, F), NEW a \in Activation,
         Framed(a, F[a.th]), C # <<>> => Caller(Last(C), a, F[Last(C).th])
  PROVE  Linked(Append(C, a), F)
  <1> DEFINE D == Append(C, a)
             n == Len(C)
  <1>1. n \in Nat /\ DOMAIN D = 1..(n+1) /\ DOMAIN C = 1..n /\ D[n+1] = a
        /\ \A i \in 1..n : D[i] = C[i]
    BY Appended
  <1>2. C # <<>> => n > 0 /\ Last(C) = C[n]
    BY DEF Last
  <1>3. C = <<>> => n = 0
    OBVIOUS
  <1> HIDE DEF D, n
  <1>4. Linked(D, F)
    <2> SUFFICES ASSUME NEW i \in 1..(n+1)
                 PROVE  /\ Framed(D[i], F[D[i].th])
                        /\ i > 1 => Caller(D[i-1], D[i], F[D[i-1].th])
      BY <1>1 DEF Linked
    <2>1. CASE i = n + 1
      BY <2>1, <1>1, <1>2, <1>3
    <2>2. CASE i <= n
      <3>1. i \in 1..n /\ (i > 1 => i - 1 \in 1..n)
        BY <2>2, <1>1
      <3> QED BY <3>1, <1>1 DEF Linked
    <2> QED BY <2>1, <2>2, <1>1
  <1> QED BY <1>4 DEF D

\* The frames over the last activation do not matter.
LEMMA LinkedChange ==
  ASSUME NEW C \in Seq(Activation), Shape(C), NEW F, Linked(C, F), NEW G,
         \A u \in Threads : InC(C, u) /\ u # Last(C).th => G[u] = F[u],
         C # <<>> => /\ Agree(G[Last(C).th], F[Last(C).th], Last(C).depth)
                     /\ Last(C).op = "close" /\ Last(C).depth > 0 =>
                          G[Last(C).th][Last(C).depth] = F[Last(C).th][Last(C).depth]
  PROVE  Linked(C, G)
  <1> SUFFICES ASSUME NEW i \in DOMAIN C
               PROVE  /\ Framed(C[i], G[C[i].th])
                      /\ i > 1 => Caller(C[i-1], C[i], G[C[i-1].th])
    BY DEF Linked
  <1> DEFINE n == Len(C)
             t == Last(C).th
             d == Last(C).depth
  <1>1. n \in Nat \ {0} /\ DOMAIN C = 1..n /\ Last(C) = C[n] /\ C # <<>> /\ i \in 1..n
    BY DEF Last
  <1>2. \A j \in 1..n : C[j] \in Activation /\ C[j].depth \in Nat /\ InC(C, C[j].th)
                        /\ C[j].th \in Threads
    BY <1>1, ActivationFields DEF InC
  <1>3. \A j \in 1..n : C[j].th = t => C[j].depth <= d /\ C[j].depth \in Nat
    BY <1>1, <1>2, SMTT(30) DEF Shape
  <1>4. \A j \in 1..n : C[j].th # t => G[C[j].th] = F[C[j].th]
    BY <1>1, <1>2
  <1>5. Agree(G[t], F[t], d) /\ d \in Nat
    BY <1>1, <1>2
  <1>6. Framed(C[i], F[C[i].th]) /\ (i > 1 => Caller(C[i-1], C[i], F[C[i-1].th]))
    BY DEF Linked
  <1>9. \A j \in 1..n : /\ j > 1 => j - 1 \in 1..n /\ Over(C[j-1], C[j])
                        /\ j < n => j + 1 \in 1..n /\ Over(C[j], C[j+1])
    BY ShapeParts
  <1>10. t = C[n].th /\ d = C[n].depth
    BY <1>1
  <1>11. \A j \in 1..n : j < n /\ C[j].th = C[n].th => \A k \in j..n : C[k].th = C[j].th
    <2> SUFFICES ASSUME NEW j \in 1..n, j < n, C[j].th = C[n].th
                 PROVE  \A k \in j..n : C[k].th = C[j].th
      OBVIOUS
    <2>1. n \in 1..n
      BY <1>1
    <2>2. \A p, q \in 1..Len(C) : p < q /\ C[p].th = C[q].th => \A k \in p..q : C[k].th = C[p].th
      BY ShapeParts
    <2> QED BY <2>1, <2>2
  <1> HIDE DEF n, t, d
  <1>7. Framed(C[i], G[C[i].th])
    <2>1. CASE C[i].th # t
      BY <2>1, <1>1, <1>4, <1>6
    <2>2. CASE C[i].th = t /\ C[i].op = "close" /\ C[i].yy /\ C[i].depth > 0
      <3>1. CASE i = n
        BY <3>1, <2>2, <1>1, <1>5, <1>6 DEF Framed, Agree, Protected
      <3>2. CASE i < n
        <4>1. Over(C[i], C[i+1]) /\ i + 1 \in 1..n
          BY <3>2, <1>1, <1>9
        <4>2. C[i+1].th = t /\ C[i+1].depth = C[i].depth + 1
          BY <4>1, <2>2 DEF Over, Enters, Entering, Calls, Closes, Runner, Protected
        <4>3. C[i].depth < d
          BY <4>1, <4>2, <1>1, <1>2, <1>3, <1>5
        <4> QED BY <4>3, <2>2, <1>1, <1>2, <1>5, <1>6 DEF Framed, Agree, Protected
      <3> QED BY <3>1, <3>2, <1>1
    <2>3. CASE C[i].th = t /\ ~(C[i].op = "close" /\ C[i].yy /\ C[i].depth > 0)
      <3>1. ~(C[i].op = "close" /\ C[i].yy)
        <4>1. i > 1 => Over(C[i-1], C[i])
          BY <1>1 DEF Shape
        <4>2. i = 1 => Bottom(C[1])
          BY <1>1 DEF Shape
        <4> QED BY <4>1, <4>2, <2>3, <1>1 DEF Over, Enters, Entering, Calls, Closes, Protected, Bottom
      <3>2. C[i].op = "call" => C[i].depth > 0
        <4>1. i > 1 => Over(C[i-1], C[i]) /\ C[i-1].depth \in Nat
          BY <1>1, <1>2, SMTT(30) DEF Shape
        <4>2. i = 1 => Bottom(C[1])
          BY <1>1 DEF Shape
        <4> QED BY <4>1, <4>2, <1>1, <1>2, SMTT(30) DEF Over, Enters, Entering, Calls, Closes, Protected, Bottom
      <3> QED BY <3>1, <3>2, <2>3, <1>1, <1>3, <1>5, <1>6, SMTT(30) DEF Framed, Agree, Protected, SameKind
    <2> QED BY <2>1, <2>2, <2>3
  <1>8. ASSUME i > 1 PROVE Caller(C[i-1], C[i], G[C[i-1].th])
    <2>1. i - 1 \in 1..n /\ Over(C[i-1], C[i])
      BY <1>8, <1>1, <1>9
    <2>2. CASE C[i-1].th # t
      BY <2>1, <2>2, <1>4, <1>6, <1>8
    <2>3. CASE C[i-1].th = t
      <3>1. C[i].th = t
        <4>1. i - 1 < n /\ i \in (i-1)..n
          BY <1>1
        <4> QED BY <4>1, <2>1, <2>3, <1>10, <1>11
      <3>2. ~Entering(C[i])
        BY <3>1, <2>1, <2>3, <1>1 DEF Shape
      <3>3. C[i].op = "call" /\ Runner(C[i-1]) => C[i].depth > C[i-1].depth + 1
        BY <3>2, <2>1 DEF Over, Calls, Closes, Enters, Protected, Runner, Coroutined
      <3>4. C[i].op = "call" /\ Runner(C[i-1]) => G[t][C[i].depth - 1] = F[t][C[i].depth - 1]
        BY <3>3, <3>1, <2>1, <1>1, <1>2, <1>3, <1>5, SMTT(30) DEF Agree
      <3> QED BY <3>2, <3>4, <2>3, <1>6, <1>8 DEF Caller
    <2> QED BY <2>2, <2>3
  <1> QED BY <1>7, <1>8

\* The threads of the first activations of a C stack.
LEMMA InPrefix ==
  ASSUME NEW C \in Seq(Activation), NEW n \in 0..Len(C), NEW u
  PROVE  InC(SubSeq(C, 1, n), u) <=> \E i \in 1..n : C[i].th = u
  <1> DEFINE D == SubSeq(C, 1, n)
  <1>1. DOMAIN D = 1..n /\ \A i \in 1..n : D[i] = C[i]
    BY Prefix
  <1> HIDE DEF D
  <1>2. InC(D, u) <=> \E i \in 1..n : C[i].th = u
    BY <1>1 DEF InC
  <1> QED BY <1>2 DEF D

\* The threads of a C stack with one more activation.
LEMMA InAppend ==
  ASSUME NEW C \in Seq(Activation), NEW a \in Activation, NEW u
  PROVE  InC(Append(C, a), u) <=> InC(C, u) \/ u = a.th
  <1> DEFINE D == Append(C, a)
             n == Len(C)
  <1>1. n \in Nat /\ DOMAIN D = 1..(n+1) /\ DOMAIN C = 1..n /\ D[n+1] = a
        /\ \A i \in 1..n : D[i] = C[i]
    BY Appended
  <1> HIDE DEF D, n
  <1>2. InC(D, u) <=> InC(C, u) \/ u = a.th
    BY <1>1 DEF InC
  <1> QED BY <1>2 DEF D

\* Frames that vmkV_execute was entered with stay called when activations go, and
\* their frames with them.
LEMMA FreshPrefix ==
  ASSUME NEW C \in Seq(Activation), NEW F, FreshCalled(C, F), NEW n \in 0..Len(C), NEW G,
         \A i \in 1..n : \A k \in DOMAIN G[C[i].th] :
             G[C[i].th][k].fresh => k \in DOMAIN F[C[i].th] /\ F[C[i].th][k].fresh,
         \A i \in 1..n : \A j \in (n+1)..Len(C) :
             C[j].op = "call" /\ C[j].th = C[i].th => C[j].depth \notin DOMAIN G[C[i].th]
  PROVE  FreshCalled(SubSeq(C, 1, n), G)
  <1> DEFINE D == SubSeq(C, 1, n)
  <1>1. DOMAIN D = 1..n /\ DOMAIN C = 1..Len(C) /\ Len(C) \in Nat /\ \A i \in 1..n : D[i] = C[i]
    BY Prefix
  <1> HIDE DEF D
  <1> SUFFICES ASSUME NEW i \in 1..n, NEW k \in DOMAIN G[C[i].th],
                      C[i].op = "call", k > C[i].depth, G[C[i].th][k].fresh
               PROVE  \E j \in 1..n : C[j].op = "call" /\ C[j].th = C[i].th /\ C[j].depth = k
    <2>1. FreshCalled(D, G)
      BY <1>1 DEF FreshCalled
    <2> QED BY <2>1 DEF D
  <1>2. k \in DOMAIN F[C[i].th] /\ F[C[i].th][k].fresh /\ i \in DOMAIN C
    BY <1>1
  <1>3. PICK j \in DOMAIN C : C[j].op = "call" /\ C[j].th = C[i].th /\ C[j].depth = k
    BY <1>2 DEF FreshCalled
  <1>4. j <= n
    BY <1>1, <1>3
  <1> QED BY <1>1, <1>3, <1>4

\* A fresh frame comes with its activation.
LEMMA FreshAppend ==
  ASSUME NEW C \in Seq(Activation), NEW F, FreshCalled(C, F), NEW a \in Activation, NEW G,
         \A i \in DOMAIN C : \A k \in DOMAIN G[C[i].th] :
             G[C[i].th][k].fresh =>
                \/ k \in DOMAIN F[C[i].th] /\ F[C[i].th][k].fresh
                \/ a.op = "call" /\ a.th = C[i].th /\ a.depth = k,
         a.op = "call" => \A k \in DOMAIN G[a.th] : ~(k > a.depth)
  PROVE  FreshCalled(Append(C, a), G)
  <1> DEFINE D == Append(C, a)
             n == Len(C)
  <1>1. n \in Nat /\ DOMAIN D = 1..(n+1) /\ DOMAIN C = 1..n /\ D[n+1] = a
        /\ \A i \in 1..n : D[i] = C[i]
    BY Appended
  <1> HIDE DEF D, n
  <1>2. ASSUME NEW i \in 1..(n+1), NEW k \in DOMAIN G[D[i].th],
               D[i].op = "call", k > D[i].depth, G[D[i].th][k].fresh
        PROVE  \E j \in 1..(n+1) : D[j].op = "call" /\ D[j].th = D[i].th /\ D[j].depth = k
    <2>1. i \in 1..n /\ D[i] = C[i]
      BY <1>1, <1>2
    <2>2. CASE a.op = "call" /\ a.th = C[i].th /\ a.depth = k
      BY <2>1, <2>2, <1>1
    <2>3. CASE k \in DOMAIN F[C[i].th] /\ F[C[i].th][k].fresh
      <3>1. PICK j \in 1..n : C[j].op = "call" /\ C[j].th = C[i].th /\ C[j].depth = k
        BY <2>3, <2>1, <1>1, <1>2 DEF FreshCalled
      <3> QED BY <3>1, <2>1, <1>1
    <2> QED BY <2>1, <2>2, <2>3, <1>1, <1>2
  <1>3. FreshCalled(D, G)
    BY <1>1, <1>2 DEF FreshCalled
  <1> QED BY <1>3 DEF D

\* What the C stack holds, it holds when it grows.
LEMMA HeldAppend ==
  ASSUME NEW C \in Seq(Activation), NEW a \in Activation, NEW t, NEW k, Held(C, t, k)
  PROVE  Held(Append(C, a), t, k)
  <1> DEFINE D == Append(C, a)
             n == Len(C)
  <1>1. n \in Nat /\ DOMAIN D = 1..(n+1) /\ DOMAIN C = 1..n /\ D[n+1] = a
        /\ \A i \in 1..n : D[i] = C[i]
    BY Appended
  <1> HIDE DEF D, n
  <1>2. Held(D, t, k)
    BY <1>1 DEF Held
  <1> QED BY <1>2 DEF D

\* The activations that hold a frame.
LEMMA HeldByLast ==
  ASSUME NEW C \in Seq(Activation), NEW a \in Activation, NEW k,
         \/ a.op = "call" /\ a.inc = 1 /\ a.depth = k + 1
         \/ a.op = "raw" /\ a.job = "close" /\ a.depth = k
  PROVE  Held(Append(C, a), a.th, k)
  <1> DEFINE D == Append(C, a)
             n == Len(C)
  <1>1. n \in Nat /\ DOMAIN D = 1..(n+1) /\ D[n+1] = a /\ n + 1 \in 1..(n+1)
    BY Appended
  <1> HIDE DEF D, n
  <1>2. Held(D, a.th, k)
    BY <1>1 DEF Held
  <1> QED BY <1>2 DEF D

\* A frame stays held when no activation that held it goes.
LEMMA HeldPrefix ==
  ASSUME NEW C \in Seq(Activation), NEW n \in 0..Len(C), NEW t, NEW k, Held(C, t, k),
         \A j \in (n+1)..Len(C) : C[j].th = t =>
             /\ ~(C[j].op = "call" /\ C[j].inc = 1 /\ C[j].depth = k + 1)
             /\ ~(C[j].op = "raw" /\ C[j].job = "close" /\ C[j].depth = k)
  PROVE  Held(SubSeq(C, 1, n), t, k)
  <1> DEFINE D == SubSeq(C, 1, n)
  <1>1. DOMAIN D = 1..n /\ DOMAIN C = 1..Len(C) /\ Len(C) \in Nat /\ \A i \in 1..n : D[i] = C[i]
    BY Prefix
  <1> HIDE DEF D
  <1>2. PICK j \in 1..Len(C) : /\ C[j].th = t
        /\ \/ C[j].op = "call" /\ C[j].inc = 1 /\ C[j].depth = k + 1
           \/ C[j].op = "raw" /\ C[j].job = "close" /\ C[j].depth = k
    BY <1>1 DEF Held
  <1>3. j \in 1..n
    BY <1>1, <1>2
  <1>4. Held(D, t, k)
    BY <1>1, <1>2, <1>3 DEF Held
  <1> QED BY <1>4 DEF D

-----------------------------------------------------------------------------
(* The counters. *)

\* What is counted is finite, and its numbers are naturals.
LEMMA CountCard ==
  ASSUME NEW C, NEW n \in Nat, NEW t
  PROVE  /\ IsFiniteSet({i \in 1..n : Counted(C[i])})
         /\ IsFiniteSet({i \in 1..n : NonYieldable(t, C[i])})
         /\ CCallsUpTo(C, n) \in Nat /\ NonYieldableUpTo(t, C, n) \in Nat
  <1>1. IsFiniteSet(1..n)
    BY FS_Interval
  <1>2. {i \in 1..n : Counted(C[i])} \subseteq 1..n /\ {i \in 1..n : NonYieldable(t, C[i])} \subseteq 1..n
    OBVIOUS
  <1>3. /\ IsFiniteSet({i \in 1..n : Counted(C[i])})
        /\ IsFiniteSet({i \in 1..n : NonYieldable(t, C[i])})
    BY <1>1, <1>2, FS_Subset
  <1>4. Cardinality({i \in 1..n : Counted(C[i])}) \in Nat /\ Cardinality({i \in 1..n : NonYieldable(t, C[i])}) \in Nat
    BY <1>3, FS_CardinalityType
  <1> QED BY <1>3, <1>4 DEF CCallsUpTo, NonYieldableUpTo

\* The counts of two C stacks that start alike.
LEMMA CountSame ==
  ASSUME NEW C, NEW D, NEW n \in Nat, \A i \in 1..n : D[i] = C[i]
  PROVE  \A t : /\ CCallsUpTo(D, n) = CCallsUpTo(C, n)
                /\ NonYieldableUpTo(t, D, n) = NonYieldableUpTo(t, C, n)
  <1>1. {i \in 1..n : Counted(D[i])} = {i \in 1..n : Counted(C[i])}
    OBVIOUS
  <1>2. \A t : {i \in 1..n : NonYieldable(t, D[i])} = {i \in 1..n : NonYieldable(t, C[i])}
    OBVIOUS
  <1> QED BY <1>1, <1>2 DEF CCallsUpTo, NonYieldableUpTo

\* Nothing is counted of an empty C stack, but for the host of Main.
LEMMA CountZero ==
  ASSUME NEW C, NEW t
  PROVE  CCallsUpTo(C, 0) = 0 /\ NonYieldableUpTo(t, C, 0) = IF t = Main THEN 1 ELSE 0
  <1>1. {i \in 1..0 : Counted(C[i])} = {} /\ {i \in 1..0 : NonYieldable(t, C[i])} = {}
    OBVIOUS
  <1> QED BY <1>1, FS_EmptySet DEF CCallsUpTo, NonYieldableUpTo

\* One more activation counts for itself.
LEMMA CountNext ==
  ASSUME NEW C, NEW n \in Nat, NEW t
  PROVE  /\ CCallsUpTo(C, n + 1) = CCallsUpTo(C, n) + (IF Counted(C[n+1]) THEN 1 ELSE 0)
         /\ NonYieldableUpTo(t, C, n + 1) =
               NonYieldableUpTo(t, C, n) + (IF NonYieldable(t, C[n+1]) THEN 1 ELSE 0)
  <1> DEFINE A == {i \in 1..n : Counted(C[i])}
             B == {i \in 1..n : NonYieldable(t, C[i])}
             A1 == {i \in 1..(n+1) : Counted(C[i])}
             B1 == {i \in 1..(n+1) : NonYieldable(t, C[i])}
  <1>1. A1 = (IF Counted(C[n+1]) THEN A \cup {n+1} ELSE A) /\ n + 1 \notin A
    OBVIOUS
  <1>2. B1 = (IF NonYieldable(t, C[n+1]) THEN B \cup {n+1} ELSE B) /\ n + 1 \notin B
    OBVIOUS
  <1>3. IsFiniteSet(A) /\ IsFiniteSet(B)
    BY CountCard
  <1> HIDE DEF A, B, A1, B1
  <1>4. Cardinality(A) \in Nat /\ Cardinality(B) \in Nat
    BY <1>3, FS_CardinalityType
  <1>5. Cardinality(A1) = Cardinality(A) + IF Counted(C[n+1]) THEN 1 ELSE 0
    <2>1. Cardinality(A \cup {n+1}) = Cardinality(A) + 1
      BY <1>1, <1>3, FS_AddElement
    <2>2. CASE Counted(C[n+1])
      BY <2>1, <2>2, <1>1
    <2>3. CASE ~Counted(C[n+1])
      BY <2>3, <1>1, <1>4
    <2> QED BY <2>2, <2>3
  <1>6. Cardinality(B1) = Cardinality(B) + IF NonYieldable(t, C[n+1]) THEN 1 ELSE 0
    <2>1. Cardinality(B \cup {n+1}) = Cardinality(B) + 1
      BY <1>2, <1>3, FS_AddElement
    <2>2. CASE NonYieldable(t, C[n+1])
      BY <2>1, <2>2, <1>2
    <2>3. CASE ~NonYieldable(t, C[n+1])
      BY <2>3, <1>2, <1>4
    <2> QED BY <2>2, <2>3
  <1>7. CCallsUpTo(C, n + 1) = CCallsUpTo(C, n) + (IF Counted(C[n+1]) THEN 1 ELSE 0)
    BY <1>5 DEF CCallsUpTo, A, A1
  <1>8. NonYieldableUpTo(t, C, n + 1) =
               NonYieldableUpTo(t, C, n) + (IF NonYieldable(t, C[n+1]) THEN 1 ELSE 0)
    BY <1>6, <1>4 DEF NonYieldableUpTo, B, B1
  <1> QED BY <1>7, <1>8

\* The count of the C stack grows with it.
LEMMA CountGrows ==
  ASSUME NEW C, NEW n \in Nat, NEW m \in Nat, n <= m, NEW t
  PROVE  CCallsUpTo(C, n) <= CCallsUpTo(C, m)
  <1>1. {i \in 1..n : Counted(C[i])} \subseteq {i \in 1..m : Counted(C[i])}
    OBVIOUS
  <1>2. IsFiniteSet({i \in 1..m : Counted(C[i])})
    BY CountCard
  <1>3. Cardinality({i \in 1..n : Counted(C[i])}) <= Cardinality({i \in 1..m : Counted(C[i])})
    BY <1>1, <1>2, FS_Subset
  <1> QED BY <1>3 DEF CCallsUpTo

\* The setjmps that are left of a C stack still agree with it.
LEMMA RawPrefix ==
  ASSUME NEW C \in Seq(Activation), RawCounts(C), NEW n \in 0..Len(C)
  PROVE  RawCounts(SubSeq(C, 1, n))
  <1> DEFINE D == SubSeq(C, 1, n)
  <1>1. DOMAIN D = 1..n /\ DOMAIN C = 1..Len(C) /\ Len(C) \in Nat /\ \A i \in 1..n : D[i] = C[i]
    BY Prefix
  <1> HIDE DEF D
  <1>2. ASSUME NEW i \in 1..n PROVE \A t : /\ CCallsUpTo(D, i) = CCallsUpTo(C, i)
                                           /\ NonYieldableUpTo(t, D, i) = NonYieldableUpTo(t, C, i)
    <2>1. i \in Nat /\ \A k \in 1..i : D[k] = C[k]
      BY <1>1
    <2> QED BY <2>1, CountSame, Zenon
  <1>3. \A i \in 1..n : i \in DOMAIN C /\ D[i] = C[i]
    BY <1>1
  <1>4. RawCounts(D)
    BY <1>1, <1>2, <1>3 DEF RawCounts
  <1> QED BY <1>4 DEF D

\* A setjmp that saves the counters agrees with the C stack.
LEMMA RawAppend ==
  ASSUME NEW C \in Seq(Activation), RawCounts(C), NEW a \in Activation,
         a.op = "raw" =>
            /\ a.cc = CCallsUpTo(C, Len(C)) + (IF Counted(a) THEN 1 ELSE 0)
            /\ a.nny = NonYieldableUpTo(a.th, C, Len(C))
  PROVE  RawCounts(Append(C, a))
  <1> DEFINE D == Append(C, a)
             n == Len(C)
  <1>1. n \in Nat /\ DOMAIN D = 1..(n+1) /\ DOMAIN C = 1..n /\ D[n+1] = a
        /\ \A i \in 1..n : D[i] = C[i]
    BY Appended
  <1>0. a.op = "raw" =>
            /\ a.cc = CCallsUpTo(C, n) + (IF Counted(a) THEN 1 ELSE 0)
            /\ a.nny = NonYieldableUpTo(a.th, C, n)
    OBVIOUS
  <1> HIDE DEF D, n
  <1>2. ASSUME NEW i \in 0..n PROVE \A t : /\ CCallsUpTo(D, i) = CCallsUpTo(C, i)
                                           /\ NonYieldableUpTo(t, D, i) = NonYieldableUpTo(t, C, i)
    <2>1. i \in Nat /\ \A k \in 1..i : D[k] = C[k]
      BY <1>1
    <2> QED BY <2>1, CountSame, Zenon
  <1>3. ASSUME NEW i \in 1..(n+1), D[i].op = "raw"
        PROVE  D[i].cc = CCallsUpTo(D, i) /\ D[i].nny = NonYieldableUpTo(D[i].th, D, i)
    <2>1. CASE i = n + 1
      <3>1. D[i] = a /\ a.op = "raw" /\ ~NonYieldable(a.th, a)
        BY <2>1, <1>1, <1>3 DEF NonYieldable
      <3>2. /\ CCallsUpTo(D, n + 1) = CCallsUpTo(D, n) + (IF Counted(a) THEN 1 ELSE 0)
            /\ NonYieldableUpTo(a.th, D, n + 1) = NonYieldableUpTo(a.th, D, n) + 0
        BY <3>1, <1>1, CountNext
      <3>3. CCallsUpTo(D, n) = CCallsUpTo(C, n) /\ NonYieldableUpTo(a.th, D, n) = NonYieldableUpTo(a.th, C, n)
        BY <1>1, <1>2
      <3>4. NonYieldableUpTo(a.th, C, n) \in Nat
        BY <1>1, CountCard
      <3> QED BY <3>1, <3>2, <3>3, <3>4, <2>1, <1>0
    <2>2. CASE i <= n
      <3>1. i \in 1..n /\ i \in 0..n
        BY <2>2, <1>1
      <3> QED BY <3>1, <1>1, <1>2, <1>3 DEF RawCounts
    <2> QED BY <2>1, <2>2, <1>1
  <1>4. RawCounts(D)
    BY <1>1, <1>3 DEF RawCounts
  <1> QED BY <1>4 DEF D

\* The counters agree with a C stack that was cut, when the one of the thread it
\* was cut in does.
LEMMA EndPrefix ==
  ASSUME NEW C \in Seq(Activation), Shape(C), NEW c, NEW m, EndCounts(C, c, m),
         NEW n \in 0..Len(C), NEW c2, NEW m2,
         \A i \in 1..n : C[i].th # C[n].th => /\ c2[C[i].th] = c[C[i].th]
                                              /\ m2[C[i].th] = m[C[i].th],
         n > 0 => c2[C[n].th] = CCallsUpTo(C, n) /\ m2[C[n].th] = NonYieldableUpTo(C[n].th, C, n),
         n = 0 => c2[Main] = 0 /\ m2[Main] = 1
  PROVE  EndCounts(SubSeq(C, 1, n), c2, m2)
  <1> DEFINE D == SubSeq(C, 1, n)
  <1>1. /\ DOMAIN D = 1..n /\ DOMAIN C = 1..Len(C) /\ Len(C) \in Nat /\ \A i \in 1..n : D[i] = C[i]
        /\ Len(D) = n /\ (D = <<>> <=> n = 0)
    BY Prefix
  <1> HIDE DEF D
  <1>2. ASSUME NEW i \in 1..n PROVE \A t : /\ CCallsUpTo(D, i) = CCallsUpTo(C, i)
                                           /\ NonYieldableUpTo(t, D, i) = NonYieldableUpTo(t, C, i)
    <2>1. i \in Nat /\ \A k \in 1..i : D[k] = C[k]
      BY <1>1
    <2> QED BY ONLY <2>1, CountSame, Zenon
  <1>3. ASSUME NEW i \in 1..n, i = n \/ D[i+1].th # D[i].th
        PROVE  c2[D[i].th] = CCallsUpTo(D, i) /\ m2[D[i].th] = NonYieldableUpTo(D[i].th, D, i)
    <2>1. CASE i = n
      BY <2>1, <1>1, <1>2
    <2>2. CASE i < n
      <3>1. i + 1 \in 1..n /\ C[i+1].th # C[i].th /\ i \in DOMAIN C /\ i # Len(C)
        BY <2>2, <1>1, <1>3
      <3>2. C[i].th # C[n].th
        <4> SUFFICES ASSUME C[i].th = C[n].th PROVE FALSE
          OBVIOUS
        <4>1. i \in 1..Len(C) /\ n \in 1..Len(C) /\ i + 1 \in i..n
          BY <2>2, <1>1
        <4>2. \A k \in i..n : C[k].th = C[i].th
          BY <4>1, <2>2, ShapeParts
        <4> QED BY <4>1, <4>2, <3>1
      <3>3. /\ c[C[i].th] = CCallsUpTo(C, i)
            /\ m[C[i].th] = NonYieldableUpTo(C[i].th, C, i)
        BY <3>1 DEF EndCounts
      <3> QED BY <3>2, <3>3, <1>1, <1>2
    <2> QED BY <2>1, <2>2, <1>1
  <1>4. EndCounts(D, c2, m2)
    BY <1>1, <1>3 DEF EndCounts
  <1> QED BY <1>4 DEF D

\* The counters agree with a C stack that grew, when the one of its thread does.
LEMMA EndAppend ==
  ASSUME NEW C \in Seq(Activation), Shape(C), NEW c, NEW m, EndCounts(C, c, m),
         NEW a \in Activation, NEW c2, NEW m2,
         C # <<>> => a.th = Last(C).th \/ ~InC(C, a.th),
         \A i \in DOMAIN C : C[i].th # a.th => /\ c2[C[i].th] = c[C[i].th]
                                               /\ m2[C[i].th] = m[C[i].th],
         c2[a.th] = CCallsUpTo(C, Len(C)) + (IF Counted(a) THEN 1 ELSE 0),
         m2[a.th] = NonYieldableUpTo(a.th, C, Len(C)) + (IF NonYieldable(a.th, a) THEN 1 ELSE 0)
  PROVE  EndCounts(Append(C, a), c2, m2)
  <1> DEFINE D == Append(C, a)
             n == Len(C)
  <1>1. n \in Nat /\ DOMAIN D = 1..(n+1) /\ DOMAIN C = 1..n /\ D[n+1] = a
        /\ (\A i \in 1..n : D[i] = C[i]) /\ Len(D) = n + 1 /\ D # <<>>
    BY Appended
  <1>2. ASSUME NEW i \in 0..n PROVE \A t : /\ CCallsUpTo(D, i) = CCallsUpTo(C, i)
                                           /\ NonYieldableUpTo(t, D, i) = NonYieldableUpTo(t, C, i)
    <2>1. i \in Nat /\ \A k \in 1..i : D[k] = C[k]
      BY <1>1
    <2> QED BY <2>1, CountSame, Zenon
  <1>3. ASSUME NEW i \in 1..(n+1), i = n + 1 \/ D[i+1].th # D[i].th
        PROVE  c2[D[i].th] = CCallsUpTo(D, i) /\ m2[D[i].th] = NonYieldableUpTo(D[i].th, D, i)
    <2>1. CASE i = n + 1
      <3>1. /\ CCallsUpTo(D, n + 1) = CCallsUpTo(D, n) + (IF Counted(a) THEN 1 ELSE 0)
            /\ NonYieldableUpTo(a.th, D, n + 1) =
                  NonYieldableUpTo(a.th, D, n) + (IF NonYieldable(a.th, a) THEN 1 ELSE 0)
        BY <1>1, CountNext
      <3>2. CCallsUpTo(D, n) = CCallsUpTo(C, n) /\ NonYieldableUpTo(a.th, D, n) = NonYieldableUpTo(a.th, C, n)
        BY <1>1, <1>2
      <3> QED BY <3>1, <3>2, <2>1, <1>1
    <2>2. CASE i <= n
      <3>1. i \in 1..n /\ i \in 0..n /\ D[i] = C[i] /\ D[i+1].th # C[i].th /\ i \in DOMAIN C
        BY <2>2, <1>1, <1>3
      <3>2. C[i].th # a.th /\ (i = n \/ C[i+1].th # C[i].th)
        <4>1. CASE i = n
          BY <4>1, <3>1, <1>1
        <4>2. CASE i < n
          <5>1. C[i+1].th # C[i].th /\ n \in 1..n /\ i + 1 \in i..n
            BY <4>2, <3>1, <1>1
          <5>2. C[i].th # C[n].th
            BY <5>1, <3>1, <4>2, ShapeParts
          <5>3. C # <<>> /\ Last(C) = C[n] /\ InC(C, C[i].th)
            BY <3>1, <1>1 DEF Last, InC
          <5> QED BY <5>1, <5>2, <5>3
        <4> QED BY <4>1, <4>2, <3>1, <1>1
      <3>3. /\ c[C[i].th] = CCallsUpTo(C, i)
            /\ m[C[i].th] = NonYieldableUpTo(C[i].th, C, i)
        BY <3>1, <3>2 DEF EndCounts
      <3> QED BY <3>1, <3>2, <3>3, <1>2
    <2> QED BY <2>1, <2>2, <1>1
  <1>4. EndCounts(D, c2, m2)
    BY <1>1, <1>3 DEF EndCounts
  <1> QED BY <1>4 DEF D

-----------------------------------------------------------------------------
(* The last setjmp of the running thread. *)

\* The running thread has an innermost setjmp, and no other thread is over it.
LEMMA HandlerFound ==
  ASSUME NEW C \in Seq(Activation), Shape(C), C # <<>>, NEW t, t = Last(C).th
  PROVE  LET h == Handler(t, C)
         IN /\ h \in 1..Len(C) /\ C[h].op = "raw" /\ C[h].th = t
            /\ \A k \in h..Len(C) : C[k].th = t
            /\ \A k \in (h+1)..Len(C) : C[k].op # "raw"
  <1> DEFINE n == Len(C)
             I == {i \in 1..n : C[i].op = "raw" /\ C[i].th = t}
             h == Handler(t, C)
  <1>1. n \in 1..n /\ n \in Nat /\ Last(C) = C[n]
    BY DEF Last
  <1>2. h = IF I # {} THEN Max(I) ELSE 0
    BY Zenon DEF Handler, SelectLastInSeq
  <1>3. PICK i \in 1..n : C[i].op = "raw" /\ C[i].th = t /\ \A k \in (i+1)..n : C[k].op # "raw"
    BY <1>1 DEF Shape
  <1>4. I \in SUBSET (1..n) /\ i \in I /\ I # {}
    BY <1>3
  <1>5. h \in I /\ \A k \in I : k <= h
    <2> HIDE DEF I, h
    <2> QED BY <1>1, <1>2, <1>4, GreatestIndex
  <1>6. h \in 1..n /\ C[h].op = "raw" /\ C[h].th = t /\ i <= h
    BY <1>4, <1>5
  <1>7. h = i
    BY <1>3, <1>6
  <1>8. \A k \in h..n : C[k].th = t
    <2>1. CASE h = n
      BY <2>1, <1>6
    <2>2. CASE h < n
      <3> HIDE DEF h
      <3> QED BY <2>2, <1>1, <1>6, ShapeParts, SMTT(30)
    <2> QED BY <2>1, <2>2, <1>6, <1>1
  <1> HIDE DEF h
  <1>9. /\ h \in 1..n /\ C[h].op = "raw" /\ C[h].th = t
        /\ \A k \in h..n : C[k].th = t
        /\ \A k \in (h+1)..n : C[k].op # "raw"
    BY <1>3, <1>6, <1>7, <1>8
  <1> QED BY <1>9 DEF h

-----------------------------------------------------------------------------
(* C stacks and frames that fit. *)

\* Frames G instead of F under a C stack with last activation b.
Replaces(G, F, C, b) ==
    /\ G \in FrameMap
    /\ \A u \in Threads : InC(C, u) /\ u # b.th => G[u] = F[u]
    /\ Agree(G[b.th], F[b.th], b.depth)
    /\ b.op = "close" /\ b.depth > 0 => G[b.th][b.depth] = F[b.th][b.depth]

\* New frames of the running thread keep the C stack linked when they agree with
\* the old ones up to the last activation.
LEMMA LinkedReplaced ==
  ASSUME NEW C \in Seq(Activation), Shape(C), NEW F, Linked(C, F), NEW G,
         C # <<>> => Replaces(G, F, C, Last(C))
  PROVE  Linked(C, G)
  <1>1. C = <<>> => \A u \in Threads : ~InC(C, u)
    BY DEF InC
  <1>2. \A u \in Threads : InC(C, u) /\ u # Last(C).th => G[u] = F[u]
    BY <1>1 DEF Replaces
  <1>3. C # <<>> => /\ Agree(G[Last(C).th], F[Last(C).th], Last(C).depth)
                    /\ Last(C).op = "close" /\ Last(C).depth > 0 =>
                          G[Last(C).th][Last(C).depth] = F[Last(C).th][Last(C).depth]
    BY DEF Replaces
  <1> QED BY <1>2, <1>3, LinkedChange

\* The C stack is cut down to its first n activations.
LEMMA GoodPrefix ==
  ASSUME NEW C, NEW F, Good(C, F), NEW n \in 0..Len(C), NEW G \in FrameMap,
         n > 0 => Replaces(G, F, SubSeq(C, 1, n), C[n]),
         n > 0 => \A k \in DOMAIN G[C[n].th] :
                     G[C[n].th][k].fresh => k \in DOMAIN F[C[n].th] /\ F[C[n].th][k].fresh,
         \A j \in (n+1)..Len(C) : C[j].op = "call" /\ n > 0 =>
                                     C[j].depth \notin DOMAIN G[C[j].th] \/ C[j].th # C[n].th
  PROVE  Good(SubSeq(C, 1, n), G)
  <1> DEFINE D == SubSeq(C, 1, n)
  <1>1. /\ D \in Seq(Activation) /\ Len(D) = n /\ DOMAIN D = 1..n /\ (n > 0 => Last(D) = C[n])
        /\ (D = <<>> <=> n = 0) /\ \A i \in 1..n : D[i] = C[i]
    BY Prefix DEF Good
  <1>2. Shape(D) /\ Linked(D, F)
    BY ShapePrefix, LinkedPrefix DEF Good
  <1>3. \A i \in 1..n : C[i].th \in Threads /\ InC(D, C[i].th)
    BY ShapeParts, InPrefix DEF Good
  <1>5. ASSUME NEW i \in 1..n, C[i].th # C[n].th PROVE G[C[i].th] = F[C[i].th]
    BY <1>3, <1>5 DEF Replaces
  <1>6. ASSUME NEW i \in 1..n, NEW j \in (n+1)..Len(C), C[j].op = "call", C[j].th = C[i].th
        PROVE  C[j].th = C[n].th
    <2>1. /\ C \in Seq(Activation) /\ Shape(C) /\ i \in 1..Len(C) /\ j \in 1..Len(C)
          /\ i < j /\ n \in i..j
      BY DEF Good
    <2>2. C[n].th = C[i].th
      BY <2>1, <1>6, ShapeParts
    <2> QED BY <2>2, <1>6
  <1>9. n > 0 => Replaces(G, F, D, C[n])
    OBVIOUS
  <1> HIDE DEF D
  <1>4. Linked(D, G)
    BY <1>1, <1>2, <1>9, LinkedReplaced
  <1>7. FreshCalled(D, G)
    <2>1. \A i \in 1..n : \A k \in DOMAIN G[C[i].th] :
             G[C[i].th][k].fresh => k \in DOMAIN F[C[i].th] /\ F[C[i].th][k].fresh
      BY <1>5
    <2>2. \A i \in 1..n : \A j \in (n+1)..Len(C) :
             C[j].op = "call" /\ C[j].th = C[i].th => C[j].depth \notin DOMAIN G[C[i].th]
      BY <1>6
    <2> QED BY <2>1, <2>2, FreshPrefix DEF D, Good
  <1>8. Good(D, G)
    BY <1>1, <1>2, <1>4, <1>7 DEF Good
  <1> QED BY <1>8 DEF D

\* An activation is pushed, and the frames over the last one may have changed.
LEMMA GoodAppend ==
  ASSUME NEW C, NEW F, Good(C, F), NEW a \in Activation, NEW G \in FrameMap,
         IF C = <<>> THEN Bottom(a) ELSE Over(Last(C), a),
         Entering(a) => ~InC(C, a.th),
         C # <<>> => Replaces(G, F, C, Last(C)),
         Framed(a, G[a.th]), C # <<>> => Caller(Last(C), a, G[Last(C).th]),
         C # <<>> => \A k \in DOMAIN G[Last(C).th] : G[Last(C).th][k].fresh =>
                \/ k \in DOMAIN F[Last(C).th] /\ F[Last(C).th][k].fresh
                \/ a.op = "call" /\ a.depth = k,
         a.op = "call" => Len(G[a.th]) <= a.depth
  PROVE  Good(Append(C, a), G)
  <1>1. Append(C, a) \in Seq(Activation)
    BY Appended DEF Good
  <1>2. Shape(Append(C, a))
    BY ShapeAppend DEF Good
  <1>3. Linked(C, G)
    BY LinkedReplaced DEF Good
  <1>4. Linked(Append(C, a), G)
    BY <1>3, LinkedAppend DEF Good
  <1>5. a.op = "call" /\ C # <<>> => a.th = Last(C).th
    BY DEF Over, Enters, Entering
  <1>6. ASSUME NEW i \in DOMAIN C, NEW k \in DOMAIN G[C[i].th], G[C[i].th][k].fresh
        PROVE  \/ k \in DOMAIN F[C[i].th] /\ F[C[i].th][k].fresh
               \/ a.op = "call" /\ a.th = C[i].th /\ a.depth = k
    <2>1. C # <<>> /\ C[i].th \in Threads /\ InC(C, C[i].th)
      BY ActivationFields DEF InC, Good
    <2>2. CASE C[i].th = Last(C).th
      BY <2>1, <2>2, <1>5, <1>6
    <2>3. CASE C[i].th # Last(C).th
      BY <2>1, <2>3, <1>6 DEF Replaces
    <2> QED BY <2>2, <2>3
  <1>7. a.op = "call" => \A k \in DOMAIN G[a.th] : ~(k > a.depth)
    <2>1. a.th \in Threads /\ a.depth \in Nat
      BY ActivationFields
    <2>2. G[a.th] \in Seq(Frame)
      BY <2>1 DEF FrameMap
    <2> QED BY <2>1, <2>2
  <1>8. FreshCalled(Append(C, a), G)
    <2>1. C \in Seq(Activation) /\ FreshCalled(C, F)
      BY DEF Good
    <2>2. \A i \in DOMAIN C : \A k \in DOMAIN G[C[i].th] :
             G[C[i].th][k].fresh =>
                \/ k \in DOMAIN F[C[i].th] /\ F[C[i].th][k].fresh
                \/ a.op = "call" /\ a.th = C[i].th /\ a.depth = k
      BY <1>6
    <2> QED BY <2>1, <2>2, <1>7, FreshAppend, SMTT(30)
  <1> QED BY <1>1, <1>2, <1>4, <1>8 DEF Good

\* The frames of a thread agree with themselves.
LEMMA AgreeItself ==
  ASSUME NEW s \in Seq(Frame), NEW d \in 0..Len(s)
  PROVE  Agree(s, s, d)
  BY SameKindItself DEF Agree

\* Trimmed frames agree with the whole up to where they were trimmed.
LEMMA TrimmedAgrees ==
  ASSUME NEW s \in Seq(Frame), NEW n, NEW r, Trimmed(r, s, n), NEW d \in 0..n
  PROVE  /\ Agree(r, s, d)
         /\ d > 0 /\ d < n => r[d] = s[d]
         /\ \A k \in DOMAIN r : r[k].fresh => k \in DOMAIN s /\ s[k].fresh
  <1>1. n \in Nat /\ DOMAIN r = 1..n /\ DOMAIN s = 1..Len(s) /\ n <= Len(s) /\ Len(r) = n
        /\ Len(s) \in Nat
    BY DEF Trimmed
  <1>2. \A k \in 1..n : SameKind(r[k], s[k])
    BY <1>1, SameKindItself DEF Trimmed
  <1>3. \A k \in 1..n : k < n => r[k] = s[k]
    BY <1>1 DEF Trimmed
  <1>4. Agree(r, s, d)
    BY <1>1, <1>2, <1>3 DEF Agree
  <1>5. \A k \in DOMAIN r : r[k].fresh => k \in DOMAIN s /\ s[k].fresh
    BY <1>1, <1>2 DEF SameKind
  <1> QED BY <1>1, <1>3, <1>4, <1>5

\* What is under the last setjmp of the running thread.
LEMMA UnderHandler ==
  ASSUME NEW C, NEW F, Good(C, F), C # <<>>, NEW t, t = Last(C).th,
         NEW h, h = Handler(t, C)
  PROVE  /\ h \in 1..Len(C) /\ h - 1 \in 0..Len(C) /\ C[h] \in Activation
         /\ C[h].op = "raw" /\ C[h].th = t /\ t \in Threads
         /\ C[h].depth \in 0..Len(F[t])
         /\ \A j \in h..Len(C) : C[j].th = t
         /\ \A j \in (h+1)..Len(C) : C[j].op # "raw" /\ (C[j].op = "call" => C[j].depth > C[h].depth)
         /\ Entering(C[h]) => /\ h > 1 /\ C[h-1].th # t /\ Runner(C[h-1]) /\ t \in Cos
                              /\ C[h].depth = 0 /\ \A i \in 1..(h-1) : C[i].th # t
                              /\ Caller(C[h-1], C[h], F[C[h-1].th])
                              /\ C[h-1].depth \in 0..Len(F[C[h-1].th])
         /\ ~Entering(C[h]) => /\ Protected(C[h]) /\ C[h].depth > 0
                               /\ F[t][C[h].depth].fn = "pcall" /\ ~F[t][C[h].depth].ypcall
                               /\ h = 1 => Bottom(C[h])
                               /\ h > 1 => C[h-1].th = t /\ Runner(C[h-1]) /\ C[h-1].depth < C[h].depth
         /\ Coroutined(C[h].job) => Entering(C[h])
  <1>1. C \in Seq(Activation) /\ Shape(C) /\ Linked(C, F) /\ F \in FrameMap
    BY DEF Good
  <1>2. /\ h \in 1..Len(C) /\ C[h].op = "raw" /\ C[h].th = t
        /\ \A k \in h..Len(C) : C[k].th = t
        /\ \A k \in (h+1)..Len(C) : C[k].op # "raw"
    BY <1>1, HandlerFound
  <1>3. C[h] \in Activation /\ t \in Threads /\ C[h].depth \in Nat /\ h - 1 \in 0..Len(C)
        /\ Len(C) \in Nat /\ DOMAIN C = 1..Len(C)
    BY <1>1, <1>2, ShapeParts
  <1>4. Framed(C[h], F[t]) /\ (h > 1 => Caller(C[h-1], C[h], F[C[h-1].th]))
    BY <1>1, <1>2 DEF Linked
  <1>5. C[h].depth \in 0..Len(F[t])
    <2>1. F[t] \in Seq(Frame)
      BY <1>1, <1>3 DEF FrameMap
    <2> QED BY <2>1, <1>3, <1>4 DEF Framed
  <1>6. ASSUME NEW j \in (h+1)..Len(C), C[j].op = "call" PROVE C[j].depth > C[h].depth
    <2>1. j \in 1..Len(C) /\ h < j /\ C[h].th = C[j].th
      BY <1>2, <1>3
    <2>2. C[h].depth < C[j].depth /\ C[j].depth \in Nat
      BY <1>1, <1>2, <1>6, <2>1, ShapeParts
    <2> QED BY <2>2, <1>3
  <1>7. (h = 1 => Bottom(C[h])) /\ (h > 1 => h - 1 \in 1..Len(C) /\ Over(C[h-1], C[h]))
    BY <1>1, <1>2, ShapeParts
  <1>8. ASSUME Entering(C[h])
        PROVE  /\ h > 1 /\ C[h-1].th # t /\ Runner(C[h-1]) /\ t \in Cos
               /\ C[h].depth = 0 /\ \A i \in 1..(h-1) : C[i].th # t
               /\ Caller(C[h-1], C[h], F[C[h-1].th])
               /\ C[h-1].depth \in 0..Len(F[C[h-1].th])
    <2>1. h > 1
      BY <1>2, <1>3, <1>7, <1>8 DEF Bottom, Entering, Coroutined, Protected
    <2>2. \A i \in 1..(h-1) : C[i].th # t
      BY <1>1, <1>2, <1>3, <1>8, ShapeParts
    <2>3. C[h-1].th # t /\ h - 1 \in DOMAIN C
      BY <2>1, <2>2, <1>2, <1>3
    <2>4. Enters(C[h-1], C[h])
      BY <2>1, <2>3, <1>2, <1>7 DEF Over
    <2>5. C[h-1].depth \in Nat /\ C[h-1].th \in Threads
      BY <2>1, <1>1, <1>7, ShapeParts
    <2>6. C[h-1].depth \in 0..Len(F[C[h-1].th])
      <3>1. F[C[h-1].th] \in Seq(Frame)
        BY <2>5, <1>1 DEF FrameMap
      <3>2. Framed(C[h-1], F[C[h-1].th])
        BY <2>3, <1>1 DEF Linked
      <3>3. C[h-1].depth \in Nat
        BY <2>5
      <3> QED BY ONLY <3>1, <3>2, <3>3 DEF Framed
    <2> QED BY <2>1, <2>2, <2>3, <2>4, <2>6, <1>2, <1>4 DEF Enters
  <1>9. ASSUME ~Entering(C[h])
        PROVE  /\ Protected(C[h]) /\ C[h].depth > 0
               /\ F[t][C[h].depth].fn = "pcall" /\ ~F[t][C[h].depth].ypcall
               /\ h = 1 => Bottom(C[h])
               /\ h > 1 => C[h-1].th = t /\ Runner(C[h-1]) /\ C[h-1].depth < C[h].depth
    <2>1. h > 1 => C[h-1].th = t /\ Runner(C[h-1]) /\ C[h-1].depth < C[h].depth /\ Protected(C[h])
      BY <1>2, <1>7, <1>9 DEF Over, Enters, Calls, Closes
    <2>2. Protected(C[h])
      BY <2>1, <1>2, <1>3, <1>7 DEF Bottom
    <2>3. C[h].depth > 0
      <3>1. h > 1 => C[h-1].depth \in Nat
        BY <1>1, <1>7, ShapeParts
      <3> QED BY <3>1, <2>1, <1>2, <1>3, <1>7 DEF Bottom
    <2> QED BY <2>1, <2>2, <2>3, <1>4, <1>7 DEF Framed
  <1>10. Coroutined(C[h].job) => Entering(C[h])
    BY <1>2 DEF Entering
  <1> QED BY <1>2, <1>3, <1>5, <1>6, <1>8, <1>9, <1>10

-----------------------------------------------------------------------------
(* Counting over pushes and under the last setjmp. *)

\* The counts of a C stack that grew.
LEMMA CountAppend ==
  ASSUME NEW C \in Seq(Activation), NEW a \in Activation, NEW t
  PROVE  /\ CCallsUpTo(Append(C, a), Len(Append(C, a))) =
               CCallsUpTo(C, Len(C)) + (IF Counted(a) THEN 1 ELSE 0)
         /\ NonYieldableUpTo(t, Append(C, a), Len(Append(C, a))) =
               NonYieldableUpTo(t, C, Len(C)) + (IF NonYieldable(t, a) THEN 1 ELSE 0)
         /\ CCallsUpTo(C, Len(C)) \in Nat /\ NonYieldableUpTo(t, C, Len(C)) \in Nat
  <1> DEFINE D == Append(C, a)
             n == Len(C)
  <1>1. n \in Nat /\ D[n+1] = a /\ (\A i \in 1..n : D[i] = C[i]) /\ Len(D) = n + 1
    BY Appended
  <1> HIDE DEF D, n
  <1>2. /\ CCallsUpTo(D, n + 1) = CCallsUpTo(D, n) + (IF Counted(a) THEN 1 ELSE 0)
        /\ NonYieldableUpTo(t, D, n + 1) =
              NonYieldableUpTo(t, D, n) + (IF NonYieldable(t, a) THEN 1 ELSE 0)
    BY <1>1, CountNext
  <1>3. CCallsUpTo(D, n) = CCallsUpTo(C, n) /\ NonYieldableUpTo(t, D, n) = NonYieldableUpTo(t, C, n)
    BY <1>1, CountSame, Zenon
  <1>4. CCallsUpTo(C, n) \in Nat /\ NonYieldableUpTo(t, C, n) \in Nat
    BY <1>1, CountCard
  <1>5. Len(D) = n + 1
    BY <1>1
  <1> QED BY <1>2, <1>3, <1>4, <1>5 DEF D, n

\* An activation that is no call leaves the counters of its thread alone.
LEMMA ExactUncounted ==
  ASSUME NEW C \in Seq(Activation), Shape(C), NEW c, NEW m, Exact(C, c, m),
         NEW a \in Activation, ~Counted(a),
         C # <<>> => a.th = Last(C).th \/ ~InC(C, a.th),
         c[a.th] = CCallsUpTo(C, Len(C)), m[a.th] = NonYieldableUpTo(a.th, C, Len(C)),
         a.op = "raw" => a.cc = c[a.th] /\ a.nny = m[a.th]
  PROVE  /\ Exact(Append(C, a), c, m)
         /\ CCallsUpTo(Append(C, a), Len(Append(C, a))) = CCallsUpTo(C, Len(C))
         /\ \A t : NonYieldableUpTo(t, Append(C, a), Len(Append(C, a))) = NonYieldableUpTo(t, C, Len(C))
  <1>1. \A t : ~NonYieldable(t, a)
    BY DEF Counted, NonYieldable
  <1>2. ASSUME NEW t PROVE CCallsUpTo(C, Len(C)) \in Nat /\ NonYieldableUpTo(t, C, Len(C)) \in Nat
    BY CountAppend
  <1>3. RawCounts(Append(C, a))
    BY <1>2, RawAppend DEF Exact
  <1>4. EndCounts(Append(C, a), c, m)
    BY <1>1, <1>2, EndAppend DEF Exact
  <1>5. ASSUME NEW t
        PROVE  /\ CCallsUpTo(Append(C, a), Len(Append(C, a))) = CCallsUpTo(C, Len(C)) + 0
               /\ NonYieldableUpTo(t, Append(C, a), Len(Append(C, a))) = NonYieldableUpTo(t, C, Len(C)) + 0
    BY <1>1, CountAppend
  <1> QED BY <1>2, <1>3, <1>4, <1>5 DEF Exact

\* A call counts once, and once more as non-yieldable when it is so.
LEMMA ExactCall ==
  ASSUME NEW C \in Seq(Activation), Shape(C), NEW c, NEW m, Exact(C, c, m),
         NEW a \in Activation, a.op = "call", C # <<>>, a.th = Last(C).th, NEW c2, NEW m2,
         \A u \in Threads : u # a.th => c2[u] = c[u] /\ m2[u] = m[u],
         c2[a.th] = c[a.th] + 1, m2[a.th] = m[a.th] + a.inc
  PROVE  /\ Exact(Append(C, a), c2, m2)
         /\ CCallsUpTo(Append(C, a), Len(Append(C, a))) = c2[a.th]
  <1>1. Counted(a) /\ a.inc \in {0, 1}
    BY ActivationFields DEF Counted
  <1>2. a.inc = IF NonYieldable(a.th, a) THEN 1 ELSE 0
    BY <1>1 DEF NonYieldable
  <1>3. c[a.th] = CCallsUpTo(C, Len(C)) /\ m[a.th] = NonYieldableUpTo(a.th, C, Len(C))
    <2>1. Len(C) \in DOMAIN C /\ Last(C) = C[Len(C)]
      BY Shortened
    <2> QED BY <2>1 DEF Exact, EndCounts
  <1>4. \A i \in DOMAIN C : C[i].th \in Threads
    BY ActivationFields
  <1>5. EndCounts(Append(C, a), c2, m2)
    BY <1>1, <1>2, <1>3, <1>4, EndAppend DEF Exact
  <1>6. RawCounts(Append(C, a))
    BY RawAppend DEF Exact
  <1>7. CCallsUpTo(Append(C, a), Len(Append(C, a))) = CCallsUpTo(C, Len(C)) + 1
    BY <1>1, CountAppend
  <1> QED BY <1>3, <1>5, <1>6, <1>7 DEF Exact

\* The counters c2 and m2 are c and m, but for the last thread of the first n
\* activations, whose counters count these.
CutCounts(C, n, c, m, c2, m2) ==
    /\ \A u \in Threads : InC(SubSeq(C, 1, n), u) /\ (n > 0 => u # C[n].th) => c2[u] = c[u] /\ m2[u] = m[u]
    /\ n > 0 => c2[C[n].th] = CCallsUpTo(C, n) /\ m2[C[n].th] = NonYieldableUpTo(C[n].th, C, n)
    /\ n = 0 => c2[Main] = 0 /\ m2[Main] = 1

\* The C stack cut down to its first n activations, with the thread of the last
\* one counting these.
LEMMA ExactPrefix ==
  ASSUME NEW C \in Seq(Activation), Shape(C), NEW c, NEW m, Exact(C, c, m),
         NEW n \in 0..Len(C), NEW c2, NEW m2, CutCounts(C, n, c, m, c2, m2)
  PROVE  /\ Exact(SubSeq(C, 1, n), c2, m2)
         /\ CCallsUpTo(SubSeq(C, 1, n), n) = CCallsUpTo(C, n)
         /\ CCallsUpTo(C, n) <= CCallsUpTo(C, Len(C))
         /\ \A t : NonYieldableUpTo(t, SubSeq(C, 1, n), n) = NonYieldableUpTo(t, C, n)
  <1>1. RawCounts(SubSeq(C, 1, n))
    BY RawPrefix DEF Exact
  <1>2. \A i \in 1..n : C[i].th \in Threads /\ InC(SubSeq(C, 1, n), C[i].th)
    BY ShapeParts, InPrefix
  <1>3. EndCounts(SubSeq(C, 1, n), c2, m2)
    BY <1>2, EndPrefix DEF Exact, CutCounts
  <1>4. \A i \in 1..n : SubSeq(C, 1, n)[i] = C[i]
    BY Prefix
  <1>5. /\ CCallsUpTo(SubSeq(C, 1, n), n) = CCallsUpTo(C, n)
        /\ \A t : NonYieldableUpTo(t, SubSeq(C, 1, n), n) = NonYieldableUpTo(t, C, n)
    <2> DEFINE D == SubSeq(C, 1, n)
    <2>1. n \in Nat /\ \A i \in 1..n : D[i] = C[i]
      BY <1>4
    <2> HIDE DEF D
    <2>2. CCallsUpTo(D, n) = CCallsUpTo(C, n) /\ \A t : NonYieldableUpTo(t, D, n) = NonYieldableUpTo(t, C, n)
      BY ONLY <2>1, CountSame, Zenon
    <2> QED BY <2>2 DEF D
  <1>6. CCallsUpTo(C, n) <= CCallsUpTo(C, Len(C))
    BY CountGrows
  <1> QED BY <1>1, <1>3, <1>5, <1>6 DEF Exact

\* A setjmp that counts nothing restores the counters of what is under it.
LEMMA RawExact ==
  ASSUME NEW C \in Seq(Activation), NEW c, NEW m, Exact(C, c, m),
         NEW h \in 1..Len(C), C[h].op = "raw"
  PROVE  /\ Counted(C[h]) => C[h].cc = CCallsUpTo(C, h - 1) + 1
         /\ ~Counted(C[h]) => C[h].cc = CCallsUpTo(C, h - 1)
         /\ C[h].nny = NonYieldableUpTo(C[h].th, C, h - 1)
  <1>1. h - 1 \in Nat /\ (h - 1) + 1 = h /\ h \in DOMAIN C
    OBVIOUS
  <1>2. ~NonYieldable(C[h].th, C[h])
    BY DEF NonYieldable
  <1>3. /\ CCallsUpTo(C, h) = CCallsUpTo(C, h - 1) + (IF Counted(C[h]) THEN 1 ELSE 0)
        /\ NonYieldableUpTo(C[h].th, C, h) = NonYieldableUpTo(C[h].th, C, h - 1) + 0
    BY <1>1, <1>2, CountNext
  <1>4. CCallsUpTo(C, h - 1) \in Nat /\ NonYieldableUpTo(C[h].th, C, h - 1) \in Nat
    BY <1>1, CountCard
  <1>5. C[h].cc = CCallsUpTo(C, h) /\ C[h].nny = NonYieldableUpTo(C[h].th, C, h)
    BY <1>1 DEF Exact, RawCounts
  <1> QED BY <1>3, <1>4, <1>5

\* The counters c2 and m2 differ from c and m only in those of thread t.
OthersCount(t, c, m, c2, m2) == \A u \in Threads : u # t => c2[u] = c[u] /\ m2[u] = m[u]

\* Under the last setjmp of the running thread t, which goes on there or leaves.
LEMMA ExactUnder ==
  ASSUME NEW C, NEW F, Good(C, F), C # <<>>, NEW t, t = Last(C).th,
         NEW h, h = Handler(t, C), NEW D, D = SubSeq(C, 1, h - 1),
         NEW c, NEW m, Exact(C, c, m), NEW c2, NEW m2,
         OthersCount(t, c, m, c2, m2),
         ~Entering(C[h]) => c2[t] = C[h].cc /\ m2[t] = C[h].nny
  PROVE  Exact(D, c2, m2)
  <1> DEFINE n == h - 1
  <1>1. /\ h \in 1..Len(C) /\ n \in 0..Len(C) /\ C[h] \in Activation
        /\ C[h].op = "raw" /\ C[h].th = t /\ t \in Threads
        /\ Entering(C[h]) => /\ h > 1 /\ C[h-1].th # t /\ \A i \in 1..(h-1) : C[i].th # t
        /\ ~Entering(C[h]) => /\ Protected(C[h])
                              /\ h = 1 => Bottom(C[h])
                              /\ h > 1 => C[h-1].th = t
    BY UnderHandler
  <1>o. \A u \in Threads : u # t => c2[u] = c[u] /\ m2[u] = m[u]
    BY DEF OthersCount
  <1>2. C \in Seq(Activation) /\ Shape(C) /\ n \in Nat /\ n + 1 = h
    BY <1>1 DEF Good
  <1>3. /\ D \in Seq(Activation) /\ Len(D) = n /\ (n > 0 => Last(D) = C[n]) /\ (D = <<>> <=> n = 0)
    <2>1. /\ SubSeq(C, 1, n) \in Seq(Activation) /\ Len(SubSeq(C, 1, n)) = n
          /\ (n > 0 => Last(SubSeq(C, 1, n)) = C[n]) /\ (SubSeq(C, 1, n) = <<>> <=> n = 0)
      BY ONLY <1>1, <1>2, Prefix
    <2> QED BY <2>1
  <1>4. \A u : InC(D, u) <=> \E i \in 1..n : C[i].th = u
    BY <1>1, <1>2, InPrefix
  <1>5. /\ Counted(C[h]) => C[h].cc = CCallsUpTo(C, h - 1) + 1
        /\ ~Counted(C[h]) => C[h].cc = CCallsUpTo(C, h - 1)
        /\ C[h].nny = NonYieldableUpTo(C[h].th, C, h - 1)
    BY <1>1, <1>2, RawExact
  <1>6. ~Entering(C[h]) => ~Counted(C[h])
    BY <1>1 DEF Counted, Entering, Protected, Coroutined
  <1>7. ASSUME n > 0
        PROVE  c2[C[n].th] = CCallsUpTo(C, n) /\ m2[C[n].th] = NonYieldableUpTo(C[n].th, C, n)
    <2>1. CASE Entering(C[h])
      <3>1. C[n].th # t /\ C[n+1].th # C[n].th /\ n \in DOMAIN C /\ C[n].th \in Threads
        BY <2>1, <1>1, <1>2, <1>7, ShapeParts
      <3> QED BY <1>o, <3>1 DEF Exact, EndCounts
    <2>2. CASE ~Entering(C[h])
      BY <2>2, <1>1, <1>2, <1>5, <1>6, <1>7
    <2> QED BY <2>1, <2>2
  <1>8. ASSUME n = 0 PROVE c2[Main] = 0 /\ m2[Main] = 1
    <2>0. h = 1
      BY <1>8, <1>1
    <2>a. ~Entering(C[h])
      BY <2>0, <1>1
    <2>b. Bottom(C[h])
      BY <2>0, <2>a, <1>1
    <2>1. h = 1 /\ ~Entering(C[h]) /\ t = Main
      BY <2>0, <2>a, <2>b, <1>1 DEF Bottom
    <2>2. C[h].cc = CCallsUpTo(C, 0) /\ C[h].nny = NonYieldableUpTo(Main, C, 0)
      BY <2>1, <1>1, <1>5, <1>6
    <2>3. CCallsUpTo(C, 0) = 0 /\ NonYieldableUpTo(Main, C, 0) = 1
      BY CountZero
    <2> QED BY <2>1, <2>2, <2>3
  <1>9. \A u \in Threads : InC(D, u) /\ (n > 0 => u # C[n].th) => c2[u] = c[u] /\ m2[u] = m[u]
    <2> SUFFICES ASSUME NEW u \in Threads, InC(D, u), n > 0 => u # C[n].th
                 PROVE  u # t
      BY <1>o
    <2>1. PICK i \in 1..n : C[i].th = u
      BY <1>4
    <2> QED BY <2>1, <1>o, <1>1, <1>2
  <1>10. n \in 0..Len(C) /\ CutCounts(C, n, c, m, c2, m2)
    BY <1>1, <1>7, <1>8, <1>9 DEF CutCounts
  <1>d. D = SubSeq(C, 1, n)
    OBVIOUS
  <1> HIDE DEF n
  <1>11. Exact(SubSeq(C, 1, n), c2, m2)
    <2>1. Exact(C, c, m)
      OBVIOUS
    <2> QED BY ONLY <1>2, <1>10, <2>1, ExactPrefix
  <1> QED BY ONLY <1>d, <1>11

-----------------------------------------------------------------------------
(* What the C stack says of the counters. *)

\* A non-yieldable call of a thread is counted by its counter.
LEMMA CountPositive ==
  ASSUME NEW C, NEW n \in Nat, NEW t, NEW i \in 1..n, NonYieldable(t, C[i])
  PROVE  NonYieldableUpTo(t, C, n) # 0
  <1> DEFINE B == {j \in 1..n : NonYieldable(t, C[j])}
  <1>1. IsFiniteSet(B)
    BY CountCard
  <1>2. B # {}
    OBVIOUS
  <1> HIDE DEF B
  <1>3. Cardinality(B) # 0 /\ Cardinality(B) \in Nat
    BY <1>1, <1>2, FS_EmptySet, FS_CardinalityType
  <1> QED BY <1>3 DEF NonYieldableUpTo, B

\* A coroutine out of the C stack has no non-yieldable calls.
LEMMA UncountedOut ==
  ASSUME NEW C \in Seq(Activation), NEW t \in Cos, ~InC(C, t)
  PROVE  NonYieldableUpTo(t, C, Len(C)) = 0
  <1>1. {j \in 1..Len(C) : NonYieldable(t, C[j])} = {}
    BY DEF InC, NonYieldable
  <1>2. Cardinality({}) = 0
    BY FS_EmptySet
  <1>3. t # Main
    BY CallsAssumption
  <1> QED BY <1>1, <1>2, <1>3 DEF NonYieldableUpTo

\* Over the setjmp of a pcall or of a protected close there is a call that
\* cannot yield, unless the close itself is running.
LEMMA ProtectedCounts ==
  ASSUME NEW C \in Seq(Activation), Shape(C), Topped(C), NEW j \in 1..Len(C),
         Protected(C[j]), Last(C).op # "close"
  PROVE  \E i \in 1..Len(C) : C[i].op = "call" /\ C[i].th = C[j].th /\ C[i].inc = 1
  <1>0. C # <<>>
    OBVIOUS
  <1>1. Len(C) \in Nat /\ Last(C) = C[Len(C)]
    BY <1>0, Shortened
  <1>2. j < Len(C)
    BY <1>0, <1>1 DEF Topped
  <1>3. j + 1 \in 1..Len(C) /\ Over(C[j], C[j+1])
    BY <1>2, ShapeParts
  <1>4. /\ C[j+1].th = C[j].th
        /\ \/ C[j+1].op = "call" /\ C[j+1].inc = 1
           \/ C[j+1].op = "close" /\ ~C[j+1].yy
    BY <1>3 DEF Over, Enters, Calls, Closes, Runner, Protected, Coroutined
  <1>5. CASE C[j+1].op = "close" /\ ~C[j+1].yy
    <2>1. j + 1 < Len(C)
      BY <1>1, <1>3, <1>5
    <2>2. (j + 1) + 1 \in 1..Len(C) /\ Over(C[j+1], C[(j+1)+1])
      BY <1>3, <2>1, ShapeParts
    <2>3. /\ C[(j+1)+1].th = C[j+1].th
          /\ C[(j+1)+1].op = "call" /\ C[(j+1)+1].inc = 1
      BY <2>2, <1>5 DEF Over, Enters, Calls, Closes, Runner, Protected, Coroutined
    <2> QED BY <2>2, <2>3, <1>4
  <1> QED BY <1>3, <1>4, <1>5

\* A running thread that may yield has no C function in the way.
LEMMA YieldableFree ==
  ASSUME NEW C, NEW F, NEW st, NEW c, NEW m, Sound(C, F, st, c, m), C # <<>>,
         NEW t, t = Last(C).th, Last(C).op # "close", m[t] = 0
  PROVE  /\ \A k \in DOMAIN F[t] : ~Blocking(F[t][k])
         /\ \A j \in 1..Len(C) : C[j].th = t => ~Protected(C[j])
         /\ t \in Cos
  <1>1. /\ C \in Seq(Activation) /\ Shape(C) /\ Topped(C) /\ Exact(C, c, m)
        /\ ThreadsFit(C, F, st)
        /\ st[t] # "err" => BlockingHeld(C, t, F[t])
    <2>1. t \in Threads
      BY Shortened, ActivationFields DEF Sound, Good
    <2> QED BY <2>1 DEF Sound, Good
  <1>2. Len(C) \in Nat /\ Len(C) \in DOMAIN C /\ DOMAIN C = 1..Len(C) /\ Last(C) = C[Len(C)]
    BY <1>1, Shortened
  <1>3. m[t] = NonYieldableUpTo(t, C, Len(C))
    BY <1>1, <1>2 DEF Exact, EndCounts
  <1>4. \A i \in 1..Len(C) : ~NonYieldable(t, C[i])
    BY <1>2, <1>3, CountPositive
  <1>5. \A j \in 1..Len(C) : C[j].th = t => ~Protected(C[j])
    BY <1>1, <1>4, ProtectedCounts DEF NonYieldable
  <1>6. st[t] = "ok" /\ t \in Threads
    <2>1. t \in Threads
      BY <1>1, <1>2, ShapeParts
    <2>2. InC(C, t)
      BY <1>2 DEF InC
    <2> QED BY <2>1, <2>2, <1>1 DEF ThreadsFit, ThreadFits
  <1>7. ASSUME NEW k \in DOMAIN F[t], Blocking(F[t][k]) PROVE FALSE
    <2>1. Held(C, t, k)
      BY <1>1, <1>6, <1>7 DEF BlockingHeld
    <2> QED BY <2>1, <1>2, <1>4, <1>5 DEF Held, NonYieldable, Protected
  <1>8. t # Main
    <2>1. SUFFICES ASSUME t = Main PROVE FALSE
      OBVIOUS
    <2>2. 1 \in 1..Len(C)
      BY <1>2
    <2>3. Bottom(C[1])
      BY <1>1, <2>2, ShapeParts
    <2> QED BY <2>1, <2>2, <2>3, <1>5 DEF Bottom
  <1> QED BY <1>5, <1>6, <1>7, <1>8 DEF Threads

-----------------------------------------------------------------------------
(* Pushes on the C stack. *)

\* A push that leaves all frames as they are.
LEMMA GoodPush ==
  ASSUME NEW C, NEW F, Good(C, F), NEW a \in Activation,
         IF C = <<>> THEN Bottom(a) ELSE Over(Last(C), a),
         Entering(a) => ~InC(C, a.th),
         Framed(a, F[a.th]), C # <<>> => Caller(Last(C), a, F[Last(C).th]),
         a.op = "call" => Len(F[a.th]) <= a.depth
  PROVE  Good(Append(C, a), F)
  <1>1. C # <<>> => Replaces(F, F, C, Last(C))
    <2> SUFFICES ASSUME C # <<>> PROVE Replaces(F, F, C, Last(C))
      OBVIOUS
    <2>1. Last(C) = C[Len(C)] /\ Len(C) \in DOMAIN C /\ Last(C) \in Activation
      BY Shortened DEF Good
    <2>2. F[Last(C).th] \in Seq(Frame) /\ Last(C).depth \in Nat
      BY <2>1, ActivationFields DEF Good, FrameMap
    <2>3. Last(C).depth <= Len(F[Last(C).th])
      BY <2>1 DEF Good, Linked, Framed
    <2>4. Agree(F[Last(C).th], F[Last(C).th], Last(C).depth)
      BY <2>2, <2>3, AgreeItself
    <2> QED BY <2>4 DEF Replaces, Good
  <1>2. F \in FrameMap
    BY DEF Good
  <1> QED BY <1>1, <1>2, GoodAppend

\* A vmkF_close starts for the frames of its thread.
LEMMA PushFClose ==
  ASSUME NEW E, NEW G, Good(E, G), E # <<>>,
         NEW st \in Statuses, NEW c \in Counters, NEW m \in Counters,
         Exact(E, c, m), CCallsUpTo(E, Len(E)) < ErrCCalls,
         NEW e \in Activation, e.op = "close", Over(Last(E), e),
         Framed(e, G[e.th]), Len(G[e.th]) = e.depth,
         e.depth > 0 => ~Parked(Last(G[e.th])),
         ThreadsFit(E, G, st),
         \A u \in Threads : Frames(G[u]) /\ (st[u] # "err" => BlockingHeld(E, u, G[u]))
  PROVE  Sound(Append(E, e), G, st, c, m)
  <1>1. E \in Seq(Activation) /\ Shape(E) /\ G \in FrameMap /\ e.th \in Threads
    BY ActivationFields DEF Good
  <1>2. /\ Len(E) \in Nat /\ Len(E) \in DOMAIN E /\ Last(E) = E[Len(E)] /\ Last(E) \in Activation
    BY <1>1, Shortened
  <1>3. e.th = Last(E).th /\ ~Entering(e) /\ ~Counted(e) /\ Caller(Last(E), e, G[Last(E).th])
    BY DEF Over, Enters, Entering, Counted, Caller
  <1>4. Good(Append(E, e), G)
    BY <1>1, <1>3, GoodPush
  <1>5. c[e.th] = CCallsUpTo(E, Len(E)) /\ m[e.th] = NonYieldableUpTo(e.th, E, Len(E))
    BY <1>2, <1>3 DEF Exact, EndCounts
  <1>6. /\ Exact(Append(E, e), c, m)
        /\ CCallsUpTo(Append(E, e), Len(Append(E, e))) = CCallsUpTo(E, Len(E))
    BY <1>1, <1>3, <1>5, ExactUncounted
  <1>7. Append(E, e) # <<>> /\ Last(Append(E, e)) = e
    BY <1>1, Appended
  <1>8. Topped(Append(E, e)) /\ TopFrame(Append(E, e), G)
    <2>1. G[e.th] \in Seq(Frame)
      BY <1>1 DEF FrameMap
    <2>2. G[e.th] # <<>> => e.depth > 0
      BY <2>1
    <2> QED BY <1>7, <2>1, <2>2 DEF Topped, TopFrame, Protected
  <1>9. \A u : InC(Append(E, e), u) <=> InC(E, u)
    <2>1. InC(E, e.th)
      BY <1>2, <1>3 DEF InC
    <2> QED BY <1>1, <2>1, InAppend
  <1>10. RunningIn(Append(E, e)) = RunningIn(E)
    BY <1>3, <1>7 DEF RunningIn
  <1>11. ThreadsFit(Append(E, e), G, st)
    BY <1>9, <1>10 DEF ThreadsFit, ThreadFits
  <1>12. \A u \in Threads : Frames(G[u]) /\ (st[u] # "err" => BlockingHeld(Append(E, e), u, G[u]))
    BY <1>1, HeldAppend DEF BlockingHeld
  <1> QED BY <1>4, <1>6, <1>8, <1>11, <1>12 DEF Sound

\* What every thread is when co, a thread that may be new in the C stack, runs
\* over D with frames G and its frame d is held by what is to be pushed.
Fits(D, G, st, co, d) ==
    /\ st \in Statuses /\ st[Main] = "ok"
    /\ \A u \in Threads :
          /\ Frames(G[u])
          /\ st[u] # "err" => \A k \in DOMAIN G[u] :
                Blocking(G[u][k]) => Held(D, u, k) \/ (u = co /\ k = d)
          /\ ThreadFits(InC(D, u) \/ u = co, u = co, G[u], st[u])

\* vmkD_closeprotected: a setjmp and the vmkF_close that it protects.
LEMMA PushClose ==
  ASSUME NEW D, NEW G, Good(D, G), NEW co \in Threads, NEW d \in Nat, NEW lvl \in Nat \ {0},
         NEW st, NEW c \in Counters, NEW m \in Counters,
         Exact(D, c, m), c[co] = CCallsUpTo(D, Len(D)), m[co] = NonYieldableUpTo(co, D, Len(D)),
         CCallsUpTo(D, Len(D)) < ErrCCalls,
         NEW a, a = Raw(co, "close", d, c[co], m[co]),
         NEW e, e = FClose(co, d, lvl, FALSE),
         D # <<>> => co = Last(D).th \/ ~InC(D, co),
         IF D = <<>> THEN Bottom(a) ELSE Over(Last(D), a),
         Entering(a) => ~InC(D, co),
         Framed(a, G[co]), D # <<>> => Caller(Last(D), a, G[Last(D).th]),
         Len(G[co]) = d, Fits(D, G, st, co, d)
  PROVE  Sound(Append(Append(D, a), e), G, st, c, m)
  <1> DEFINE E == Append(D, a)
  <1>0. E = Append(D, a)
    OBVIOUS
  <1> HIDE DEF E
  <1>1. /\ a \in Activation /\ a.op = "raw" /\ a.th = co /\ a.job = "close" /\ a.depth = d
        /\ a.cc = c[co] /\ a.nny = m[co]
    BY DEF Raw, Activation, Counters
  <1>2. /\ e \in Activation /\ e.op = "close" /\ e.th = co /\ ~e.yy /\ e.depth = d
    BY DEF FClose, Activation
  <1>3. Good(E, G)
    BY <1>0, <1>1, GoodPush
  <1>4. D \in Seq(Activation) /\ Shape(D) /\ E \in Seq(Activation) /\ E # <<>> /\ Last(E) = a
    BY <1>0, <1>1, Appended DEF Good
  <1>5. /\ Over(a, e) /\ Framed(e, G[e.th])
    BY <1>1, <1>2 DEF Over, Closes, Framed, Protected
  <1>6. /\ Exact(E, c, m) /\ CCallsUpTo(E, Len(E)) = CCallsUpTo(D, Len(D))
    BY <1>1, <1>4, <1>0, ExactUncounted DEF Counted, Coroutined
  <1>7. d > 0 => ~Parked(Last(G[co]))
    <2>1. d > 0 => G[co][d].fn = "pcall"
      BY <1>1 DEF Framed, Protected
    <2> QED BY <2>1 DEF Last, Parked
  <1>8. \A u : InC(E, u) <=> InC(D, u) \/ u = co
    BY <1>1, <1>4, <1>0, InAppend
  <1>9. ThreadsFit(E, G, st)
    <2>1. RunningIn(E) = co
      BY <1>1, <1>4 DEF RunningIn
    <2> QED BY <1>8, <2>1 DEF ThreadsFit, ThreadFits, Fits
  <1>10. ASSUME NEW u \in Threads, st[u] # "err", NEW k \in DOMAIN G[u], Blocking(G[u][k])
         PROVE  Held(E, u, k)
    <2>1. CASE Held(D, u, k)
      BY <2>1, <1>1, <1>4, <1>0, HeldAppend
    <2>2. CASE u = co /\ k = d
      BY <2>2, <1>1, <1>4, <1>0, HeldByLast
    <2> QED BY <2>1, <2>2, <1>10 DEF Fits
  <1>11. \A u \in Threads : Frames(G[u]) /\ (st[u] # "err" => BlockingHeld(E, u, G[u]))
    BY <1>10 DEF BlockingHeld, Fits
  <1>f. st \in Statuses
    BY DEF Fits
  <1>12. Sound(Append(E, e), G, st, c, m)
    BY <1>f, <1>1, <1>2, <1>3, <1>4, <1>5, <1>6, <1>7, <1>9, <1>11, PushFClose
  <1> QED BY <1>0, <1>12

-----------------------------------------------------------------------------
(* Cuts of the C stack. *)

\* The thread that runs goes on with frames r, over its first n activations or
\* out of the C stack.
Cuts(C, F, t, n, r) ==
    n > 0 => \/ /\ C[n].th = t /\ Trimmed(r, F[t], Len(r)) /\ C[n].depth <= Len(r)
                /\ C[n].op = "close" /\ C[n].depth > 0 => r[C[n].depth] = F[t][C[n].depth]
                /\ \A j \in (n+1)..Len(C) : C[j].op = "call" => C[j].depth > Len(r)
             \/ C[n].th # t /\ \A j \in (n+1)..Len(C) : C[j].th = t

\* What is left fits the frames that are left.
LEMMA GoodCut ==
  ASSUME NEW C, NEW F, Good(C, F), C # <<>>, NEW t, t = Last(C).th,
         NEW n \in 0..Len(C), NEW r \in Seq(Frame), Cuts(C, F, t, n, r)
  PROVE  Good(SubSeq(C, 1, n), [F EXCEPT ![t] = r])
  <1> DEFINE G == [F EXCEPT ![t] = r]
  <1>1. /\ C \in Seq(Activation) /\ Shape(C) /\ F \in FrameMap /\ Len(C) \in DOMAIN C
        /\ Last(C) = C[Len(C)] /\ Last(C) \in Activation /\ DOMAIN C = 1..Len(C)
    BY Shortened DEF Good
  <1>2. t \in Threads /\ \A u \in Threads : F[u] \in Seq(Frame)
    BY <1>1, ActivationFields DEF FrameMap
  <1>3. G \in FrameMap /\ G[t] = r /\ \A u \in Threads : u # t => G[u] = F[u]
    BY <1>1, <1>2 DEF FrameMap
  <1> HIDE DEF G
  <1>4. \A i \in 1..Len(C) : /\ C[i] \in Activation /\ C[i].th \in Threads
                             /\ C[i].depth \in 0..Len(F[C[i].th])
    BY <1>1, <1>2, ActivationFields DEF Good, Linked, Framed
  <1>5. ASSUME n > 0
        PROVE  /\ Replaces(G, F, SubSeq(C, 1, n), C[n])
               /\ \A k \in DOMAIN G[C[n].th] :
                     G[C[n].th][k].fresh => k \in DOMAIN F[C[n].th] /\ F[C[n].th][k].fresh
               /\ \A j \in (n+1)..Len(C) : C[j].op = "call" =>
                     C[j].depth \notin DOMAIN G[C[j].th] \/ C[j].th # C[n].th
    <2>1. n \in 1..Len(C)
      BY <1>5
    <2>2. CASE C[n].th = t
      <3>1. /\ Trimmed(r, F[t], Len(r)) /\ C[n].depth \in 0..Len(r)
            /\ C[n].op = "close" /\ C[n].depth > 0 => r[C[n].depth] = F[t][C[n].depth]
            /\ \A j \in (n+1)..Len(C) : C[j].op = "call" => C[j].depth > Len(r)
        BY <1>4, <1>5, <2>1, <2>2 DEF Cuts
      <3>2. /\ Agree(r, F[t], C[n].depth)
            /\ \A k \in DOMAIN r : r[k].fresh => k \in DOMAIN F[t] /\ F[t][k].fresh
        BY <1>2, <3>1, TrimmedAgrees
      <3>3. Replaces(G, F, SubSeq(C, 1, n), C[n])
        BY <1>3, <2>2, <3>1, <3>2 DEF Replaces
      <3>4. \A j \in (n+1)..Len(C) : C[j].op = "call" =>
                     C[j].depth \notin DOMAIN G[C[j].th] \/ C[j].th # C[n].th
        BY <1>3, <2>2, <3>1
      <3> QED BY <1>3, <2>2, <3>2, <3>3, <3>4
    <2>3. CASE C[n].th # t
      <3>1. \A j \in (n+1)..Len(C) : C[j].th = t
        BY <1>5, <2>3 DEF Cuts
      <3>2. \A i \in 1..n : C[i].th # t
        <4> SUFFICES ASSUME NEW i \in 1..n, C[i].th = t PROVE FALSE
          OBVIOUS
        <4>1. i < Len(C) /\ i \in 1..Len(C) /\ Len(C) \in 1..Len(C) /\ n \in i..Len(C)
          <5>1. n # Len(C)
            BY <1>1, <2>3
          <5> QED BY <5>1, <2>1
        <4>2. C[n].th = C[i].th
          BY <1>1, <4>1, ShapeParts
        <4> QED BY <2>3, <4>2
      <3>3. Agree(F[C[n].th], F[C[n].th], C[n].depth)
        BY <1>2, <1>4, <2>1, AgreeItself
      <3>4. Replaces(G, F, SubSeq(C, 1, n), C[n])
        <4>1. ~InC(SubSeq(C, 1, n), t)
          BY <1>1, <3>2, InPrefix
        <4> QED BY <1>3, <1>4, <2>1, <2>3, <3>3, <4>1 DEF Replaces
      <3> QED BY <1>3, <1>4, <2>1, <2>3, <3>1, <3>4
    <2> QED BY <2>2, <2>3
  <1>6. Good(SubSeq(C, 1, n), G)
    BY <1>3, <1>5, GoodPrefix
  <1> QED BY <1>6 DEF G

\* The activations of the running thread are the last ones.
LEMMA InCut ==
  ASSUME NEW C \in Seq(Activation), Shape(C), C # <<>>, NEW t, t = Last(C).th,
         NEW n \in 0..Len(C), IF n > 0 THEN C[n].th = t ELSE t = Main
  PROVE  /\ \A j \in (n+1)..Len(C) : C[j].th = t
         /\ \A u : u # t => (InC(SubSeq(C, 1, n), u) <=> InC(C, u))
         /\ InC(SubSeq(C, 1, n), t) <=> n > 0
  <1>1. /\ Len(C) \in DOMAIN C /\ Last(C) = C[Len(C)] /\ DOMAIN C = 1..Len(C) /\ Len(C) \in Nat
    BY Shortened
  <1>2. ASSUME NEW j \in (n+1)..Len(C) PROVE C[j].th = t
    <2>1. CASE n > 0
      <3>1. n < Len(C) /\ n \in 1..Len(C) /\ Len(C) \in 1..Len(C) /\ j \in n..Len(C)
        BY <2>1, <1>2, <1>1
      <3> QED BY <1>1, <2>1, <3>1, ShapeParts, SMTT(30)
    <2>2. CASE n = 0
      <3>1. 1 \in 1..Len(C) /\ C[1].th = Main
        <4>1. 1 \in 1..Len(C)
          BY <1>1
        <4> QED BY <4>1, ShapeParts DEF Bottom
      <3>2. CASE Len(C) = 1
        BY <3>1, <3>2, <2>2, <1>2
      <3>3. CASE Len(C) > 1
        <4>1. 1 < Len(C) /\ 1 \in 1..Len(C) /\ Len(C) \in 1..Len(C) /\ j \in 1..Len(C) /\ C[1].th = C[Len(C)].th
          BY <3>1, <3>3, <2>2, <1>1, <1>2
        <4> QED BY <4>1, <1>1, ShapeParts, SMTT(30)
      <3> QED BY <3>2, <3>3, <1>1
    <2> QED BY <2>1, <2>2
  <1>3. \A u : InC(SubSeq(C, 1, n), u) <=> \E i \in 1..n : C[i].th = u
    BY InPrefix
  <1>4. ASSUME NEW u, u # t, InC(C, u) PROVE \E i \in 1..n : C[i].th = u
    <2>1. PICK i \in 1..Len(C) : C[i].th = u
      BY <1>1, <1>4 DEF InC
    <2> QED BY <2>1, <1>1, <1>2, <1>4
  <1>5. ASSUME NEW u, NEW i \in 1..n, C[i].th = u PROVE InC(C, u)
    BY <1>1, <1>5 DEF InC
  <1>6. n > 0 => n \in 1..n
    OBVIOUS
  <1>7. InC(SubSeq(C, 1, n), t) <=> n > 0
    BY <1>3, <1>6
  <1>8. \A u : u # t => (InC(SubSeq(C, 1, n), u) <=> InC(C, u))
    BY <1>3, <1>4, <1>5
  <1> QED BY <1>2, <1>7, <1>8

\* The thread that runs goes on over what is left of its part of the C stack;
\* out of it, Main is done.
LEMMA SoundCut ==
  ASSUME NEW C, NEW F, NEW st, NEW c, NEW m, Sound(C, F, st, c, m),
         C # <<>>, NEW t, t = Last(C).th,
         NEW n \in 0..Len(C), NEW r \in Seq(Frame), Cuts(C, F, t, n, r),
         IF n > 0 THEN C[n].th = t /\ ~Protected(C[n]) ELSE t = Main /\ r = <<>>,
         n > 0 /\ C[n].op = "close" => Len(r) = C[n].depth,
         r # <<>> => PcOf(Last(r)) /\ ~Parked(Last(r)),
         \A k \in DOMAIN r : Blocking(r[k]) => Held(SubSeq(C, 1, n), t, k),
         NEW c2 \in Counters, NEW m2 \in Counters,
         \A u \in Threads : u # t => c2[u] = c[u] /\ m2[u] = m[u],
         n > 0 => c2[t] = CCallsUpTo(C, n) /\ m2[t] = NonYieldableUpTo(t, C, n),
         n = 0 => c2[Main] = 0 /\ m2[Main] = 1
  PROVE  Sound(SubSeq(C, 1, n), [F EXCEPT ![t] = r], st, c2, m2)
  <1> DEFINE G == [F EXCEPT ![t] = r]
             D == SubSeq(C, 1, n)
  <1>1. /\ Good(C, F) /\ C \in Seq(Activation) /\ Shape(C) /\ F \in FrameMap
        /\ Exact(C, c, m) /\ ThreadsFit(C, F, st) /\ CCallsUpTo(C, Len(C)) < ErrCCalls
        /\ \A u \in Threads : Frames(F[u]) /\ (st[u] # "err" => BlockingHeld(C, u, F[u]))
        /\ st \in Statuses
    BY DEF Sound, Good
  <1>2. t \in Threads /\ InC(C, t) /\ Len(C) \in Nat
    <2>1. Last(C) = C[Len(C)] /\ Last(C) \in Activation /\ Len(C) \in DOMAIN C /\ Len(C) \in Nat
      BY <1>1, Shortened
    <2> QED BY <2>1, ActivationFields DEF InC
  <1>3. D = SubSeq(C, 1, n) /\ Good(D, G)
    BY <1>1, GoodCut
  <1>4. G \in FrameMap /\ G[t] = r /\ \A u \in Threads : u # t => G[u] = F[u]
    BY <1>1, <1>2 DEF FrameMap
  <1> HIDE DEF G
  <1>5. /\ \A j \in (n+1)..Len(C) : C[j].th = t
        /\ \A u : u # t => (InC(D, u) <=> InC(C, u))
        /\ InC(D, t) <=> n > 0
    BY <1>1, InCut
  <1>6. /\ D \in Seq(Activation) /\ Len(D) = n /\ (D = <<>> <=> n = 0) /\ (n > 0 => Last(D) = C[n])
    BY <1>1, Prefix
  <1>7. Exact(D, c2, m2) /\ CCallsUpTo(D, n) < ErrCCalls
    <2>1. \A u \in Threads : InC(D, u) /\ (n > 0 => u # C[n].th) => c2[u] = c[u] /\ m2[u] = m[u]
      BY <1>5
    <2>2. /\ Exact(D, c2, m2) /\ CCallsUpTo(D, n) = CCallsUpTo(C, n)
          /\ CCallsUpTo(C, n) <= CCallsUpTo(C, Len(C))
      <3>1. CutCounts(C, n, c, m, c2, m2)
        BY <1>5, <2>1 DEF CutCounts
      <3> QED BY <1>1, <3>1, ExactPrefix
    <2>3. CCallsUpTo(C, n) \in Nat /\ CCallsUpTo(C, Len(C)) \in Nat /\ ErrCCalls \in Nat
      <3>1. n \in Nat /\ Len(C) \in Nat
        BY <1>2
      <3> QED BY <3>1, CountCard, CallsAssumption
    <2> HIDE DEF D
    <2> QED BY <2>2, <2>3, <1>1
  <1> HIDE DEF D
  <1>8. Topped(D) /\ TopFrame(D, G)
    BY <1>4, <1>6 DEF Topped, TopFrame
  <1>9. Frames(r)
    <2>1. CASE n = 0
      BY <2>1 DEF Frames
    <2>2. CASE n > 0
      <3>1. Trimmed(r, F[t], Len(r)) /\ F[t] \in Seq(Frame)
        BY <1>1, <1>2, <2>2 DEF Cuts, FrameMap
      <3>2. Len(r) > 0 => PcOf(r[Len(r)])
        BY DEF Last
      <3> QED BY <1>1, <1>2, <3>1, <3>2, FramesTrimmed
    <2> QED BY <2>1, <2>2
  <1>10. ASSUME NEW u \in Threads
         PROVE  Frames(G[u]) /\ (st[u] # "err" => BlockingHeld(D, u, G[u]))
    <2>1. CASE u = t
      BY <2>1, <1>3, <1>4, <1>9 DEF BlockingHeld
    <2>2. CASE u # t
      <3>1. ASSUME NEW k, Held(C, u, k) PROVE Held(D, u, k)
        BY <3>1, <2>2, <1>1, <1>3, <1>5, HeldPrefix
      <3> QED BY <1>1, <1>4, <2>2, <3>1 DEF BlockingHeld
    <2> QED BY <2>1, <2>2
  <1>11. ThreadsFit(D, G, st)
    <2>1. RunningIn(D) = t /\ RunningIn(C) = t
      BY <1>6 DEF RunningIn
    <2>2. ASSUME NEW u \in Threads PROVE ThreadFits(InC(D, u), u = t, G[u], st[u])
      <3>1. ThreadFits(InC(C, u), u = t, F[u], st[u])
        BY <1>1, <2>1 DEF ThreadsFit, ThreadFits
      <3>2. CASE u # t
        BY <3>1, <3>2, <1>4, <1>5 DEF ThreadFits
      <3>3. CASE u = t
        BY <3>1, <3>3, <1>2, <1>4, <1>5 DEF ThreadFits
      <3> QED BY <3>2, <3>3
    <2> QED BY <1>1, <2>1, <2>2 DEF ThreadsFit, ThreadFits
  <1>12. Sound(D, G, st, c2, m2)
    BY <1>1, <1>3, <1>6, <1>7, <1>8, <1>10, <1>11 DEF Sound
  <1> QED BY <1>12 DEF D, G

-----------------------------------------------------------------------------
(* What the running thread does over its last activation. *)

\* As Sound, in the middle of an action: the last frame of the running thread
\* may be a C function whose C code is not on the C stack yet.
Mid(C, F, st, c, n, t) ==
    /\ Good(C, F) /\ C # <<>> /\ t = Last(C).th
    /\ st \in Statuses /\ ThreadsFit(C, F, st)
    /\ \A u \in Threads :
          /\ Frames(F[u])
          /\ st[u] # "err" => \A k \in DOMAIN F[u] :
                Blocking(F[u][k]) => Held(C, u, k) \/ (u = t /\ k = Len(F[t]))
    /\ c \in Counters /\ n \in Counters /\ Exact(C, c, n)
    /\ CCallsUpTo(C, Len(C)) < ErrCCalls

\* The parts of Sound that speak of the running thread t.
LEMMA RunningFacts ==
  ASSUME NEW C, NEW F, NEW st, NEW c, NEW m, NEW t, Mid(C, F, st, c, m, t)
  PROVE  /\ C \in Seq(Activation) /\ Shape(C) /\ F \in FrameMap /\ t \in Threads
         /\ Len(C) \in Nat /\ Len(C) \in 1..Len(C) /\ Last(C) = C[Len(C)] /\ Last(C) \in Activation
         /\ DOMAIN C = 1..Len(C) /\ InC(C, t)
         /\ F[t] \in Seq(Frame) /\ Len(F[t]) \in Nat /\ Frames(F[t])
         /\ Last(C).depth \in 0..Len(F[t]) /\ Framed(Last(C), F[t])
         /\ st[t] = "ok"
         /\ c[t] = CCallsUpTo(C, Len(C)) /\ m[t] = NonYieldableUpTo(t, C, Len(C))
         /\ RunningIn(C) = t
  <1>1. C \in Seq(Activation) /\ Shape(C) /\ F \in FrameMap /\ C # <<>> /\ t = Last(C).th
    BY DEF Mid, Good
  <1>2. /\ Len(C) \in Nat /\ Len(C) \in 1..Len(C) /\ Last(C) = C[Len(C)] /\ Last(C) \in Activation
        /\ DOMAIN C = 1..Len(C)
    BY <1>1, Shortened
  <1>3. t \in Threads /\ InC(C, t) /\ Last(C).depth \in Nat
    BY <1>1, <1>2, ActivationFields DEF InC
  <1>4. F[t] \in Seq(Frame) /\ Len(F[t]) \in Nat /\ Frames(F[t])
    BY <1>1, <1>3 DEF FrameMap, Mid
  <1>5. Framed(Last(C), F[t]) /\ Last(C).depth <= Len(F[t])
    BY <1>1, <1>2 DEF Mid, Good, Linked, Framed
  <1>6. st[t] = "ok"
    BY <1>3 DEF Mid, ThreadsFit, ThreadFits
  <1>7. c[t] = CCallsUpTo(C, Len(C)) /\ m[t] = NonYieldableUpTo(t, C, Len(C))
    BY <1>1, <1>2 DEF Mid, Exact, EndCounts
  <1> QED BY <1>1, <1>2, <1>3, <1>4, <1>5, <1>6, <1>7 DEF RunningIn

\* A sound state can be in the middle of an action of its running thread.
LEMMA SoundMid ==
  ASSUME NEW C, NEW F, NEW st, NEW c, NEW m, Sound(C, F, st, c, m), C # <<>>,
         NEW t, t = Last(C).th
  PROVE  Mid(C, F, st, c, m, t)
  BY DEF Sound, Mid, BlockingHeld

\* An action can end where its thread can go on.
LEMMA MidSound ==
  ASSUME NEW C, NEW F, NEW st, NEW c, NEW m, NEW t, Mid(C, F, st, c, m, t),
         Last(C).op # "close", ~Protected(Last(C)),
         F[t] # <<>> => ~Parked(Last(F[t])) /\ ~Blocking(Last(F[t]))
  PROVE  Sound(C, F, st, c, m)
  <1>1. Last(F[t]) = F[t][Len(F[t])]
    BY DEF Last
  <1>2. \A u \in Threads : st[u] # "err" => BlockingHeld(C, u, F[u])
    BY <1>1 DEF Mid, BlockingHeld
  <1>3. Topped(C) /\ TopFrame(C, F)
    BY DEF Mid, Topped, TopFrame
  <1> QED BY <1>2, <1>3 DEF Sound, Mid

\* The frames of a function that calls: its own waits and a new one is over it.
Waits(s) == [s EXCEPT ![Len(s)].pc = "wait"]
\* The frames of a caller and of the function it calls.
WithCall(s, f) == Append(Waits(s), f)

\* The frames of a Vmk function that called another one.
LEMMA CallerWaits ==
  ASSUME NEW s \in Seq(Frame), s # <<>>, Frames(s), Last(s).fn = "vmk",
         NEW f \in Frame, PcOf(f), ~f.fresh,
         f.ypcall => f.fn = "pcall" /\ \A k \in DOMAIN s : ~Blocking(s[k]),
         NEW r, r = WithCall(s, f)
  PROVE  /\ r \in Seq(Frame) /\ Len(r) = Len(s) + 1 /\ Last(r) = f /\ r[Len(r)] = f /\ r # <<>>
         /\ Frames(r)
         /\ \A k \in 1..Len(s) : /\ SameKind(r[k], s[k]) /\ (k < Len(s) => r[k] = s[k])
                                 /\ Blocking(r[k]) => Blocking(s[k])
         /\ \A k \in 1..Len(r) : r[k].fresh => k <= Len(s) /\ s[k].fresh
  <1> DEFINE w == Waits(s)
  <1>1. Len(s) \in Nat \ {0} /\ Last(s) = s[Len(s)] /\ DOMAIN s = 1..Len(s)
    BY Shortened
  <1>2. Trimmed(w, s, Len(s)) /\ w # <<>> /\ Len(w) = Len(s) /\ Last(w).pc = "wait"
        /\ SameKind(Last(w), Last(s)) /\ Last(w) = w[Len(s)]
    BY LastAt DEF Waits
  <1>r. r = Append(w, f)
    BY DEF WithCall
  <1> HIDE DEF w
  <1>3. w \in Seq(Frame) /\ DOMAIN w = 1..Len(s) /\ \A k \in 1..(Len(s)-1) : w[k] = s[k]
    BY <1>2 DEF Trimmed
  <1>4. /\ r \in Seq(Frame) /\ Len(r) = Len(s) + 1 /\ Last(r) = f /\ r[Len(s) + 1] = f
        /\ \A k \in 1..Len(s) : r[k] = w[k]
    BY <1>r, <1>3, Appended
  <1>5. w[Len(s)].fn = "vmk" /\ w[Len(s)].pc = "wait" /\ SameKind(w[Len(s)], s[Len(s)])
    BY <1>1, <1>2 DEF SameKind
  <1>6. ASSUME NEW k \in 1..Len(s)
        PROVE  /\ SameKind(w[k], s[k]) /\ (k < Len(s) => w[k] = s[k])
               /\ Blocking(w[k]) => Blocking(s[k])
    <2>0. k \in Nat /\ k <= Len(s) /\ k >= 1 /\ Len(s) \in Nat
      BY <1>1
    <2>1. CASE k = Len(s)
      <3>1. ~(k < Len(s))
        BY <1>1, <2>1
      <3> QED BY <2>1, <3>1, <1>5 DEF Blocking
    <2>2. CASE k # Len(s)
      <3>1. k \in 1..(Len(s)-1)
        BY ONLY <2>0, <2>2
      <3> QED BY <3>1, <1>3, SameKindItself
    <2> QED BY <2>1, <2>2
  <1>7. Frames(w)
    <2>1. PcOf(w[Len(s)])
      BY <1>5 DEF PcOf
    <2> QED BY <1>1, <1>2, <2>1, FramesTrimmed
  <1>8. Frames(Append(w, f))
    <2>1. /\ Last(w).fn = "vmk"
          /\ f.ypcall => f.fn = "pcall" /\ \A j \in DOMAIN w : ~Blocking(w[j])
      BY <1>1, <1>2, <1>3, <1>5, <1>6
    <2> QED BY <1>2, <1>3, <1>7, <2>1, FramesAppend
  <1>9. \A k \in 1..Len(r) : r[k].fresh => k <= Len(s) /\ s[k].fresh
    <2> SUFFICES ASSUME NEW k \in 1..(Len(s)+1), r[k].fresh PROVE k <= Len(s) /\ s[k].fresh
      BY <1>1, <1>4
    <2>1. k # Len(s) + 1
      BY <1>4
    <2>2. k \in 1..Len(s)
      BY <1>1, <2>1
    <2> QED BY <2>2, <1>1, <1>4, <1>6 DEF SameKind
  <1>10. r # <<>> /\ r[Len(r)] = f
    BY <1>1, <1>4
  <1> QED BY <1>r, <1>1, <1>4, <1>6, <1>8, <1>9, <1>10

\* The running thread gets frames r instead of its own, over the same C stack.
LEMMA MidFrames ==
  ASSUME NEW C, NEW F, NEW st, NEW c, NEW m, NEW t, Mid(C, F, st, c, m, t), Last(C).op # "close",
         NEW r \in Seq(Frame), Frames(r), Agree(r, F[t], Last(C).depth),
         \A k \in 1..Len(r) : r[k].fresh => k \in DOMAIN F[t] /\ F[t][k].fresh,
         \A k \in 1..(Len(r)-1) : Blocking(r[k]) => Held(C, t, k)
  PROVE  Mid(C, [F EXCEPT ![t] = r], st, c, m, t)
  <1> DEFINE G == [F EXCEPT ![t] = r]
  <1>1. /\ C \in Seq(Activation) /\ Shape(C) /\ F \in FrameMap /\ t \in Threads
        /\ Len(C) \in Nat /\ Len(C) \in 1..Len(C) /\ Last(C) = C[Len(C)]
        /\ F[t] \in Seq(Frame) /\ InC(C, t) /\ RunningIn(C) = t /\ t = Last(C).th
    BY RunningFacts DEF Mid
  <1>2. G \in FrameMap /\ G[t] = r /\ \A u \in Threads : u # t => G[u] = F[u]
    BY <1>1 DEF FrameMap
  <1> HIDE DEF G
  <1>3. Good(C, G)
    <2>1. Replaces(G, F, C, Last(C))
      BY <1>1, <1>2 DEF Replaces
    <2>2. SubSeq(C, 1, Len(C)) = C
      BY <1>1
    <2>3. DOMAIN r = 1..Len(r) /\ G[C[Len(C)].th] = r /\ F[C[Len(C)].th] = F[t]
      BY <1>1, <1>2
    <2>4. Len(C) \in 0..Len(C) /\ \A j \in (Len(C)+1)..Len(C) : FALSE
      BY <1>1
    <2>5. Good(C, F)
      BY DEF Mid
    <2>6. Replaces(G, F, SubSeq(C, 1, Len(C)), C[Len(C)])
      BY <1>1, <2>1, <2>2
    <2>7. \A k \in DOMAIN G[C[Len(C)].th] : G[C[Len(C)].th][k].fresh =>
              k \in DOMAIN F[C[Len(C)].th] /\ F[C[Len(C)].th][k].fresh
      BY <2>3
    <2>8. Good(SubSeq(C, 1, Len(C)), G)
      BY <1>2, <2>4, <2>5, <2>6, <2>7, GoodPrefix
    <2> QED BY <2>2, <2>8
  <1>4. ThreadsFit(C, G, st)
    <2>1. ASSUME NEW u \in Threads PROVE ThreadFits(InC(C, u), u = t, G[u], st[u])
      <3>1. ThreadFits(InC(C, u), u = t, F[u], st[u])
        BY <1>1 DEF Mid, ThreadsFit, ThreadFits
      <3> QED BY <3>1, <1>1, <1>2 DEF ThreadFits
    <2> QED BY <1>1, <2>1 DEF Mid, ThreadsFit, ThreadFits
  <1>5. ASSUME NEW u \in Threads
        PROVE  /\ Frames(G[u])
               /\ st[u] # "err" => \A k \in DOMAIN G[u] :
                     Blocking(G[u][k]) => Held(C, u, k) \/ (u = t /\ k = Len(G[t]))
    <2>1. CASE u = t
      <3>1. DOMAIN r = 1..Len(r) /\ Len(r) \in Nat
        OBVIOUS
      <3> QED BY <1>2, <2>1, <3>1
    <2>2. CASE u # t
      BY <2>2, <1>2 DEF Mid
    <2> QED BY <2>1, <2>2
  <1>6. Mid(C, G, st, c, m, t)
    BY <1>3, <1>4, <1>5 DEF Mid
  <1> QED BY <1>6 DEF G

\* The running function calls.
LEMMA MidCalls ==
  ASSUME NEW C, NEW F, NEW st, NEW c, NEW m, Sound(C, F, st, c, m), C # <<>>,
         NEW t, t = Last(C).th, Last(C).op # "close",
         F[t] # <<>>, Last(F[t]).fn = "vmk", NEW f \in Frame, PcOf(f), ~f.fresh,
         f.ypcall => f.fn = "pcall" /\ \A k \in DOMAIN F[t] : ~Blocking(F[t][k]),
         NEW r, r = WithCall(F[t], f)
  PROVE  /\ Mid(C, [F EXCEPT ![t] = r], st, c, m, t)
         /\ r \in Seq(Frame) /\ Len(r) = Len(F[t]) + 1 /\ Last(r) = f /\ r[Len(r)] = f /\ r # <<>>
         /\ Len(r) > Last(C).depth
         /\ Runner(Last(C))
         /\ \A k \in 1..Len(F[t]) : Blocking(r[k]) => Blocking(F[t][k])
  <1>1. Mid(C, F, st, c, m, t)
    BY SoundMid
  <1>2. /\ t \in Threads /\ F[t] \in Seq(Frame) /\ Len(F[t]) \in Nat /\ Frames(F[t])
        /\ Last(C).depth \in 0..Len(F[t]) /\ st[t] = "ok" /\ Last(C) \in Activation
    BY <1>1, RunningFacts
  <1>3. /\ r \in Seq(Frame) /\ Len(r) = Len(F[t]) + 1 /\ Last(r) = f /\ r[Len(r)] = f /\ r # <<>>
        /\ Frames(r)
        /\ \A k \in 1..Len(F[t]) : /\ SameKind(r[k], F[t][k]) /\ (k < Len(F[t]) => r[k] = F[t][k])
                                   /\ Blocking(r[k]) => Blocking(F[t][k])
        /\ \A k \in 1..Len(r) : r[k].fresh => k <= Len(F[t]) /\ F[t][k].fresh
    BY <1>2, CallerWaits
  <1>4. Agree(r, F[t], Last(C).depth)
    <2>1. ASSUME NEW d \in 0..Len(F[t])
          PROVE  /\ Len(r) >= d /\ (d > 0 => SameKind(r[d], F[t][d]))
                 /\ \A k \in 1..(d-1) : r[k] = F[t][k]
      <3>1. Len(F[t]) \in Nat /\ Len(r) = Len(F[t]) + 1 /\ d \in 0..Len(F[t])
        BY <1>2, <1>3
      <3>2. \A k \in 1..Len(F[t]) : SameKind(r[k], F[t][k]) /\ (k < Len(F[t]) => r[k] = F[t][k])
        BY <1>3
      <3> QED BY ONLY <3>1, <3>2
    <2> QED BY <1>2, <2>1 DEF Agree
  <1>5. \A k \in 1..Len(r) : r[k].fresh => k \in DOMAIN F[t] /\ F[t][k].fresh
    BY <1>2, <1>3
  <1>6. \A k \in 1..(Len(r)-1) : Blocking(r[k]) => Held(C, t, k)
    <2>1. BlockingHeld(C, t, F[t])
      BY <1>2 DEF Sound
    <2> QED BY <1>2, <1>3, <2>1 DEF BlockingHeld
  <1>7. Mid(C, [F EXCEPT ![t] = r], st, c, m, t)
    BY <1>1, <1>3, <1>4, <1>5, <1>6, MidFrames
  <1>8. Runner(Last(C))
    <2>1. ~Protected(Last(C))
      BY DEF Sound, Topped
    <2> QED BY <2>1, <1>2, ActivationFields DEF Protected, Runner, Coroutined
  <1> QED BY <1>2, <1>3, <1>7, <1>8

\* The running thread changes its last frames over the same C stack.
LEMMA SoundStay ==
  ASSUME NEW C, NEW F, NEW st, NEW c, NEW m, Sound(C, F, st, c, m), C # <<>>,
         NEW t, t = Last(C).th, Last(C).op # "close",
         NEW r \in Seq(Frame), Trimmed(r, F[t], Len(r)), Last(C).depth <= Len(r),
         r # <<>> => PcOf(Last(r)) /\ ~Parked(Last(r)),
         r # <<>> /\ Blocking(Last(r)) => Held(C, t, Len(r))
  PROVE  Sound(C, [F EXCEPT ![t] = r], st, c, m)
  <1>1. Mid(C, F, st, c, m, t)
    BY SoundMid
  <1>2. /\ C \in Seq(Activation) /\ Len(C) \in Nat /\ Len(C) \in 1..Len(C) /\ Last(C) = C[Len(C)]
        /\ F[t] \in Seq(Frame) /\ st[t] = "ok" /\ t \in Threads
        /\ c[t] = CCallsUpTo(C, Len(C)) /\ m[t] = NonYieldableUpTo(t, C, Len(C))
    BY <1>1, RunningFacts
  <1>3. SubSeq(C, 1, Len(C)) = C
    BY <1>2
  <1>4. \A k \in DOMAIN r : Blocking(r[k]) => Held(C, t, k)
    <2> SUFFICES ASSUME NEW k \in 1..Len(r), Blocking(r[k]) PROVE Held(C, t, k)
      OBVIOUS
    <2>1. Len(r) \in Nat /\ Last(r) = r[Len(r)] /\ Len(r) <= Len(F[t]) /\ Len(F[t]) \in Nat
      BY <1>2 DEF Trimmed, Last
    <2>2. CASE k = Len(r)
      <3>1. r # <<>>
        BY <2>1, <2>2
      <3> QED BY <2>1, <2>2, <3>1
    <2>3. CASE k < Len(r)
      <3>1. r[k] = F[t][k] /\ k \in DOMAIN F[t]
        BY <2>1, <2>3, <1>2 DEF Trimmed
      <3> QED BY <3>1, <1>2 DEF Sound, BlockingHeld
    <2> QED BY <2>1, <2>2, <2>3
  <1>5. /\ Len(C) \in 0..Len(C) /\ Len(C) > 0 /\ Cuts(C, F, t, Len(C), r) /\ ~Protected(C[Len(C)])
        /\ \A k \in DOMAIN r : Blocking(r[k]) => Held(SubSeq(C, 1, Len(C)), t, k)
    <2>1. Len(C) \in 0..Len(C) /\ Len(C) > 0 /\ ~ \E j \in (Len(C)+1)..Len(C) : TRUE
      BY <1>2
    <2>2. ~Protected(C[Len(C)])
      BY <1>2 DEF Sound, Topped
    <2>3. Cuts(C, F, t, Len(C), r)
      BY <1>2, <2>1 DEF Cuts
    <2> QED BY <1>3, <1>4, <2>1, <2>2, <2>3
  <1>6. c \in Counters /\ m \in Counters
    BY DEF Sound
  <1>7. Sound(SubSeq(C, 1, Len(C)), [F EXCEPT ![t] = r], st, c, m)
    BY <1>2, <1>5, <1>6, SoundCut
  <1> QED BY <1>3, <1>7

\* A function of the running thread starts to close its variables.
LEMMA PushYY ==
  ASSUME NEW C, NEW F, NEW st, NEW c, NEW m, Sound(C, F, st, c, m), C # <<>>,
         NEW t, t = Last(C).th, Last(C).op # "close",
         NEW r \in Seq(Frame), Trimmed(r, F[t], Len(F[t])), r # <<>>,
         PcOf(Last(r)), Closing(Last(r)), NEW lvl \in Nat \ {0}
  PROVE  Sound(Append(C, FClose(t, Len(r), lvl, TRUE)), [F EXCEPT ![t] = r], st, c, m)
  <1> DEFINE G == [F EXCEPT ![t] = r]
             e == FClose(t, Len(r), lvl, TRUE)
  <1>1. Mid(C, F, st, c, m, t)
    BY SoundMid
  <1>2. /\ C \in Seq(Activation) /\ Last(C) = C[Len(C)] /\ Last(C) \in Activation /\ F \in FrameMap
        /\ F[t] \in Seq(Frame) /\ t \in Threads /\ Last(C).depth \in 0..Len(F[t])
    BY <1>1, RunningFacts
  <1>3. Len(r) = Len(F[t]) /\ Len(r) \in Nat \ {0} /\ Last(r) = r[Len(r)] /\ r[Len(r)] \in Frame
    BY Shortened DEF Trimmed, Last
  <1>4. ~Parked(Last(r)) /\ ~Blocking(Last(r)) /\ PcOf(Last(r))
    <2>1. Frames(F[t])
      BY <1>1, RunningFacts
    <2>2. Last(r).ypcall => Last(r).fn = "pcall"
      <3>1. Len(F[t]) \in DOMAIN F[t]
        BY ONLY <1>2, <1>3
      <3>2. SameKind(Last(r), F[t][Len(F[t])])
        BY <1>3 DEF Trimmed
      <3> QED BY ONLY <2>1, <3>1, <3>2 DEF Frames, SameKind
    <2> QED BY <2>2 DEF Closing, Parked, Blocking
  <1>5. Sound(C, G, st, c, m)
    BY <1>2, <1>3, <1>4, SoundStay
  <1>6. G[t] = r /\ G = [F EXCEPT ![t] = r] /\ e = FClose(t, Len(r), lvl, TRUE)
    BY <1>2 DEF FrameMap
  <1>7. e \in Activation /\ e.op = "close" /\ e.th = t /\ e.depth = Len(r) /\ e.yy
    BY <1>2, <1>3 DEF FClose, Activation
  <1> HIDE DEF G, e
  <1>8. Runner(Last(C))
    <2>1. ~Protected(Last(C))
      BY DEF Sound, Topped
    <2> QED BY <2>1, <1>2, ActivationFields DEF Protected, Runner, Coroutined
  <1>9. Over(Last(C), e) /\ Framed(e, G[e.th])
    <2>1. Over(Last(C), e)
      BY <1>2, <1>3, <1>7, <1>8 DEF Over, Closes
    <2>2. Framed(e, r)
      BY <1>3, <1>7 DEF Framed, Protected
    <2> QED BY <2>1, <2>2, <1>6, <1>7
  <1>10. /\ Good(C, G) /\ Exact(C, c, m) /\ CCallsUpTo(C, Len(C)) < ErrCCalls /\ ThreadsFit(C, G, st)
         /\ \A u \in Threads : Frames(G[u]) /\ (st[u] # "err" => BlockingHeld(C, u, G[u]))
         /\ st \in Statuses /\ c \in Counters /\ m \in Counters
    BY <1>5 DEF Sound
  <1>11. Sound(Append(C, e), G, st, c, m)
    BY <1>3, <1>4, <1>6, <1>7, <1>9, <1>10, PushFClose, ZenonT(40)
  <1> QED BY <1>6, <1>11

\* vmk_resume of co, or its precover: what runs is a coroutine that was not.
LEMMA PushResume ==
  ASSUME NEW D, NEW G, Good(D, G), D # <<>>, NEW co \in Cos, ~InC(D, co), Runner(Last(D)),
         NEW job \in {"resume", "unroll"},
         NEW st, NEW c \in Counters, NEW m \in Counters, Exact(D, c, m),
         c[co] = CCallsUpTo(D, Len(D)) + 1, m[co] = NonYieldableUpTo(co, D, Len(D)),
         CCallsUpTo(D, Len(D)) + 1 < ErrCCalls,
         Len(G[Last(D).th]) > Last(D).depth, Last(G[Last(D).th]).pc = "wait",
         Last(G[Last(D).th]).fn \in {"resume", "wrap"},
         G[co] # <<>> => ~Parked(Last(G[co])),
         Fits(D, G, st, co, 0)
  PROVE  Sound(Append(D, Raw(co, job, 0, c[co], m[co])), G, st, c, m)
  <1> DEFINE a == Raw(co, job, 0, c[co], m[co])
             E == Append(D, a)
  <1>1. co \in Threads /\ G[co] \in Seq(Frame)
    BY DEF Threads, Good, FrameMap
  <1>2. /\ a \in Activation /\ a.op = "raw" /\ a.th = co /\ a.job = job /\ a.depth = 0
        /\ a.cc = c[co] /\ a.nny = m[co]
    BY <1>1 DEF Raw, Activation, Counters
  <1>3. E = Append(D, a) /\ a = Raw(co, job, 0, c[co], m[co])
    OBVIOUS
  <1> HIDE DEF a, E
  <1>4. Entering(a) /\ Counted(a) /\ ~NonYieldable(co, a) /\ Runner(a)
    BY <1>2 DEF Entering, Coroutined, Counted, NonYieldable, Runner
  <1>5. /\ Over(Last(D), a) /\ Framed(a, G[co]) /\ Caller(Last(D), a, G[Last(D).th])
    <2>1. Over(Last(D), a)
      BY <1>2, <1>4 DEF Over, Enters
    <2>2. Framed(a, G[co])
      BY <1>1, <1>2 DEF Framed, Protected
    <2>3. Caller(Last(D), a, G[Last(D).th])
      BY <1>2 DEF Caller
    <2> QED BY <2>1, <2>2, <2>3
  <1>6. Good(E, G)
    BY <1>2, <1>3, <1>5, GoodPush
  <1>7. D \in Seq(Activation) /\ Shape(D) /\ E \in Seq(Activation) /\ E # <<>> /\ Last(E) = a
    BY <1>2, <1>3, Appended DEF Good
  <1>8. Exact(E, c, m) /\ CCallsUpTo(E, Len(E)) = CCallsUpTo(D, Len(D)) + 1
    <2>1. RawCounts(E)
      BY <1>2, <1>3, <1>4, <1>7, RawAppend DEF Exact
    <2>2. /\ CCallsUpTo(E, Len(E)) = CCallsUpTo(D, Len(D)) + 1
          /\ CCallsUpTo(D, Len(D)) \in Nat /\ NonYieldableUpTo(co, D, Len(D)) \in Nat
      BY <1>2, <1>3, <1>4, <1>7, CountAppend
    <2>3. m[co] = NonYieldableUpTo(co, D, Len(D)) + (IF NonYieldable(co, a) THEN 1 ELSE 0)
      BY <1>4, <2>2
    <2>4. EndCounts(E, c, m)
      BY <1>2, <1>3, <1>4, <1>7, <2>3, EndAppend DEF Exact
    <2> QED BY <2>1, <2>2, <2>4 DEF Exact
  <1>9. Topped(E) /\ TopFrame(E, G)
    BY <1>2, <1>7 DEF Topped, TopFrame, Protected
  <1>10. ThreadsFit(E, G, st)
    <2>1. RunningIn(E) = co
      BY <1>2, <1>7 DEF RunningIn
    <2>2. \A u : InC(E, u) <=> InC(D, u) \/ u = co
      BY <1>2, <1>3, <1>7, InAppend
    <2> QED BY <2>1, <2>2 DEF ThreadsFit, ThreadFits, Fits
  <1>11. \A u \in Threads : Frames(G[u]) /\ (st[u] # "err" => BlockingHeld(E, u, G[u]))
    <2> SUFFICES ASSUME NEW u \in Threads, st[u] # "err", NEW k \in DOMAIN G[u], Blocking(G[u][k])
                 PROVE  Held(E, u, k)
      BY DEF Fits, BlockingHeld
    <2>1. k # 0
      <3>1. G[u] \in Seq(Frame)
        BY DEF Good, FrameMap
      <3> QED BY <3>1
    <2>2. Held(D, u, k)
      BY <2>1 DEF Fits
    <2> QED BY <2>2, <1>2, <1>3, <1>7, HeldAppend
  <1>12. Sound(E, G, st, c, m)
    BY <1>6, <1>8, <1>9, <1>10, <1>11 DEF Sound, Fits
  <1> QED BY <1>3, <1>12

\* ccall: a Vmk function over its C code.
LEMMA PushCall ==
  ASSUME NEW C, NEW F, NEW st, NEW c, NEW m, NEW t, Mid(C, F, st, c, m, t),
         NEW b \in Nat \ {0}, NEW inc \in {0, 1}, NEW d, d = Len(F[t]) + 1,
         NEW a, a = CCall(t, d, inc), Over(Last(C), a), Caller(Last(C), a, Append(F[t], VmkFrame(b, TRUE))),
         F[t] # <<>> => ~Parked(Last(F[t])) /\ Last(F[t]).fn # "wrap"
                     /\ (Blocking(Last(F[t])) => inc = 1 \/ Held(C, t, Len(F[t]))),
         Last(C).op = "close" => Last(C).depth = Len(F[t]),
         c[t] + 1 < ErrCCalls,
         NEW c2, NEW m2, c2 = [c EXCEPT ![t] = c[t] + 1], m2 = [m EXCEPT ![t] = m[t] + inc]
  PROVE  Sound(Append(C, a), [F EXCEPT ![t] = Append(F[t], VmkFrame(b, TRUE))], st, c2, m2)
  <1> DEFINE f == VmkFrame(b, TRUE)
             r == Append(F[t], f)
             G == [F EXCEPT ![t] = r]
             E == Append(C, a)
  <1>1. /\ C \in Seq(Activation) /\ Shape(C) /\ F \in FrameMap /\ t \in Threads /\ t = Last(C).th
        /\ Len(C) \in Nat /\ Len(C) \in 1..Len(C) /\ Last(C) = C[Len(C)] /\ Last(C) \in Activation
        /\ F[t] \in Seq(Frame) /\ Len(F[t]) \in Nat /\ Frames(F[t]) /\ Last(C).depth \in 0..Len(F[t])
        /\ c[t] = CCallsUpTo(C, Len(C)) /\ m[t] = NonYieldableUpTo(t, C, Len(C))
        /\ RunningIn(C) = t /\ InC(C, t) /\ st[t] = "ok" /\ C # <<>>
    BY RunningFacts DEF Mid
  <1>2. /\ f \in Frame /\ f.fn = "vmk" /\ f.fresh /\ PcOf(f) /\ ~f.ypcall /\ ~Parked(f) /\ ~Blocking(f)
    BY DEF VmkFrame, Frame, PcOf, Parked, Blocking
  <1>3. /\ a \in Activation /\ a.op = "call" /\ a.th = t /\ a.depth = d /\ a.inc = inc /\ d \in Nat
    <2>1. a = CCall(t, d, inc) /\ t \in Threads /\ d \in Nat /\ inc \in {0, 1}
      BY <1>1
    <2> QED BY ONLY <2>1 DEF CCall, Activation
  <1>h. r = Append(F[t], f) /\ E = Append(C, a) /\ G = [F EXCEPT ![t] = r] /\ f = VmkFrame(b, TRUE)
    OBVIOUS
  <1> HIDE DEF f
  <1>4. /\ r \in Seq(Frame) /\ Len(r) = d /\ Last(r) = f /\ r[d] = f /\ r # <<>>
        /\ \A k \in 1..Len(F[t]) : r[k] = F[t][k]
    <2>1. F[t] \in Seq(Frame) /\ f \in Frame /\ d = Len(F[t]) + 1
      BY <1>1, <1>2
    <2> QED BY ONLY <2>1, Appended
  <1>5. Frames(r)
    <2>1. F[t] # <<>> => Last(F[t]).fn \notin {"resume", "wrap", "close", "yield"}
      BY DEF Parked
    <2> QED BY <1>1, <1>2, <2>1, FramesAppend
  <1> HIDE DEF r
  <1>6. G \in FrameMap /\ G[t] = r /\ \A u \in Threads : u # t => G[u] = F[u]
    BY <1>1, <1>4 DEF FrameMap
  <1> HIDE DEF G, E
  <1>7. Good(E, G)
    <2>1. Agree(r, F[t], Last(C).depth)
      <3>1. /\ Last(C).depth \in 0..Len(F[t]) /\ Len(F[t]) \in Nat /\ Len(r) = Len(F[t]) + 1
            /\ \A k \in 1..Len(F[t]) : r[k] = F[t][k]
        BY <1>1, <1>4
      <3> QED BY ONLY <3>1, SameKindItself DEF Agree
    <2>2. Replaces(G, F, C, Last(C))
      <3>1. Last(C).depth > 0 => r[Last(C).depth] = F[t][Last(C).depth]
        BY ONLY <1>1, <1>4
      <3>2. t = Last(C).th /\ t \in Threads
        BY <1>1
      <3> QED BY ONLY <1>6, <2>1, <3>1, <3>2 DEF Replaces
    <2>c. Caller(Last(C), a, r)
      BY <1>h
    <2>3. Framed(a, r) /\ Caller(Last(C), a, r) /\ ~Entering(a)
      BY <1>2, <1>3, <1>4, <2>c DEF Framed, Protected, Entering
    <2>4. \A k \in DOMAIN r : r[k].fresh => (k \in DOMAIN F[t] /\ F[t][k].fresh) \/ a.depth = k
      <3> SUFFICES ASSUME NEW k \in 1..d, r[k].fresh, k # d PROVE k \in DOMAIN F[t] /\ F[t][k].fresh
        BY <1>3, <1>4
      <3>1. k \in 1..Len(F[t])
        BY <1>1
      <3>2. F[t] \in Seq(Frame) /\ r[k] = F[t][k] /\ r[k].fresh
        BY <3>1, <1>1, <1>4
      <3> QED BY ONLY <3>1, <3>2
    <2>5. Len(r) <= a.depth /\ Good(C, F)
      BY <1>3, <1>4 DEF Mid
    <2>6. /\ C # <<>> => Caller(Last(C), a, G[Last(C).th])
          /\ Framed(a, G[a.th]) /\ Len(G[a.th]) <= a.depth
          /\ C # <<>> => \A k \in DOMAIN G[Last(C).th] : G[Last(C).th][k].fresh =>
                \/ k \in DOMAIN F[Last(C).th] /\ F[Last(C).th][k].fresh
                \/ a.op = "call" /\ a.depth = k
      BY <1>1, <1>3, <1>6, <2>3, <2>4, <2>5
    <2>7. Good(Append(C, a), G)
      BY <1>1, <1>3, <1>6, <2>2, <2>3, <2>5, <2>6, GoodAppend
    <2> QED BY <2>7, <1>h
  <1>8. E \in Seq(Activation) /\ E # <<>> /\ Last(E) = a
    <2>1. C \in Seq(Activation) /\ a \in Activation /\ E = Append(C, a)
      BY <1>1, <1>3, <1>h
    <2> QED BY ONLY <2>1, Appended
  <1>9. /\ Exact(E, c2, m2) /\ CCallsUpTo(E, Len(E)) = c2[t] /\ c2 \in Counters /\ m2 \in Counters
        /\ c2[t] = c[t] + 1
    <2>1. c \in Counters /\ m \in Counters /\ Exact(C, c, m)
      BY DEF Mid
    <2>2. /\ c2 \in Counters /\ m2 \in Counters /\ c2[t] = c[t] + 1 /\ m2[t] = m[t] + inc
          /\ \A u \in Threads : u # t => c2[u] = c[u] /\ m2[u] = m[u]
      BY <1>1, <2>1 DEF Counters
    <2>3. /\ Exact(Append(C, a), c2, m2)
          /\ CCallsUpTo(Append(C, a), Len(Append(C, a))) = c2[a.th]
      <3>1. a.th = Last(C).th /\ a \in Activation /\ a.op = "call" /\ C # <<>>
            /\ C \in Seq(Activation) /\ Shape(C)
            /\ (\A u \in Threads : u # a.th => c2[u] = c[u] /\ m2[u] = m[u])
            /\ c2[a.th] = c[a.th] + 1 /\ m2[a.th] = m[a.th] + a.inc
        BY <1>1, <1>3, <2>2
      <3> QED BY ONLY <2>1, <3>1, ExactCall, SMTT(30)
    <2> QED BY <1>3, <1>h, <2>2, <2>3
  <1>10. Topped(E) /\ TopFrame(E, G)
    BY <1>2, <1>3, <1>4, <1>6, <1>8 DEF Topped, TopFrame, Protected
  <1>11. ThreadsFit(E, G, st)
    <2>1. RunningIn(E) = t
      BY <1>3, <1>8 DEF RunningIn
    <2>2. \A u : InC(E, u) <=> InC(C, u)
      <3>1. C \in Seq(Activation) /\ a \in Activation /\ E = Append(C, a) /\ a.th = t /\ InC(C, t)
        BY <1>1, <1>3, <1>h
      <3>2. \A u : InC(Append(C, a), u) <=> InC(C, u) \/ a.th = u
        BY ONLY <3>1, InAppend
      <3> QED BY ONLY <3>1, <3>2, Zenon
    <2>3. ASSUME NEW u \in Threads PROVE ThreadFits(InC(E, u), u = t, G[u], st[u])
      <3>1. ThreadFits(InC(C, u), u = t, F[u], st[u])
        BY <1>1 DEF Mid, ThreadsFit, ThreadFits
      <3> QED BY <3>1, <2>2, <1>1, <1>6 DEF ThreadFits
    <2> QED BY <2>1, <2>3 DEF Mid, ThreadsFit, ThreadFits
  <1>12. ASSUME NEW u \in Threads
         PROVE  Frames(G[u]) /\ (st[u] # "err" => BlockingHeld(E, u, G[u]))
    <2>0. \A k : Held(C, u, k) => Held(E, u, k)
      BY <1>1, <1>3, <1>h, HeldAppend
    <2>1. CASE u # t
      BY <2>0, <2>1, <1>6 DEF Mid, BlockingHeld
    <2>2. CASE u = t
      <3> SUFFICES ASSUME NEW k \in 1..d, Blocking(r[k]) PROVE Held(E, t, k)
        BY <2>2, <1>4, <1>5, <1>6 DEF BlockingHeld
      <3>1. k \in 1..Len(F[t]) /\ Blocking(F[t][k]) /\ k \in DOMAIN F[t]
        <4>1. k # d
          BY <1>2, <1>4
        <4>2. k \in 1..Len(F[t])
          BY <4>1, <1>1
        <4>3. F[t] \in Seq(Frame) /\ r[k] = F[t][k] /\ Blocking(r[k])
          BY <4>2, <1>1, <1>4
        <4> QED BY ONLY <4>2, <4>3
      <3>2. Held(C, t, k) \/ k = Len(F[t])
        BY <3>1, <1>1 DEF Mid
      <3>3. CASE k = Len(F[t])
        <4>1. inc = 1 \/ Held(C, t, k)
          <5>1. Last(F[t]) = F[t][Len(F[t])] /\ F[t] # <<>>
            BY <3>1 DEF Last
          <5> QED BY <5>1, <3>1, <3>3
        <4>2. CASE inc = 1
          <5>1. Held(Append(C, a), a.th, k)
            BY <4>2, <1>1, <1>3, <3>3, HeldByLast
          <5> QED BY <5>1, <1>3, <1>h
        <4> QED BY <4>1, <4>2, <2>0, <2>2
      <3> QED BY <3>2, <3>3, <2>0, <2>2
    <2> QED BY <2>1, <2>2
  <1>13. Sound(E, G, st, c2, m2)
    <2>1. CCallsUpTo(E, Len(E)) < ErrCCalls /\ st \in Statuses
      BY <1>9 DEF Mid
    <2> QED BY <1>7, <1>9, <1>10, <1>11, <1>12, <2>1 DEF Sound
  <1> QED BY <1>13, <1>h

-----------------------------------------------------------------------------
(* vmkD_throw. *)

\* What the longjmp of thread t leaves of the C stack: activation a is the last
\* setjmp of t, D is under it.
Under(C, F, t, a, D) ==
    /\ D \in Seq(Activation) /\ Shape(D)
    /\ a \in Activation /\ a.op = "raw" /\ a.th = t /\ a.depth \in 0..Len(F[t])
    /\ \A u : u # t => (InC(D, u) <=> InC(C, u))
    /\ \A u, k : u # t /\ Held(C, u, k) => Held(D, u, k)
    /\ Entering(a) =>
         /\ D # <<>> /\ ~InC(D, t) /\ Last(D).th # t /\ Last(D).th \in Threads
         /\ Runner(Last(D)) /\ t \in Cos /\ a.depth = 0
         /\ InC(D, Last(D).th)
         /\ Caller(Last(D), a, F[Last(D).th]) /\ Last(D).depth \in 0..Len(F[Last(D).th])
    /\ ~Entering(a) =>
         /\ Protected(a) /\ a.depth > 0 /\ F[t][a.depth].fn = "pcall" /\ ~F[t][a.depth].ypcall
         /\ D = <<>> => Bottom(a)
         /\ D # <<>> => Last(D).th = t /\ Runner(Last(D)) /\ Last(D).depth < a.depth
    /\ Coroutined(a.job) => Entering(a)
    /\ \A r \in Seq(Frame) : Entering(a) \/ (Len(r) = a.depth /\ Trimmed(r, F[t], Len(r))) =>
         Good(D, [F EXCEPT ![t] = r])
    /\ ~Entering(a) => \A k \in Nat : k < a.depth /\ Held(C, t, k) => Held(D, t, k)

\* The setjmp that an error of the running thread reaches, and what is under it.
LEMMA ThrowUnder ==
  ASSUME NEW C, NEW F, NEW st, NEW c, NEW m, NEW t, Mid(C, F, st, c, m, t),
         NEW a, a = C[Handler(t, C)], NEW D, D = SubSeq(C, 1, Handler(t, C) - 1)
  PROVE  Under(C, F, t, a, D)
  <1> DEFINE h == Handler(t, C)
             n == h - 1
  <1>1. /\ C \in Seq(Activation) /\ Shape(C) /\ C # <<>> /\ t = Last(C).th /\ t \in Threads
        /\ Len(C) \in Nat /\ F \in FrameMap /\ Good(C, F)
    BY RunningFacts DEF Mid
  <1>2. /\ h \in 1..Len(C) /\ h - 1 \in 0..Len(C) /\ C[h] \in Activation
        /\ C[h].op = "raw" /\ C[h].th = t
        /\ C[h].depth \in 0..Len(F[t])
        /\ \A j \in h..Len(C) : C[j].th = t
        /\ \A j \in (h+1)..Len(C) : C[j].op # "raw" /\ (C[j].op = "call" => C[j].depth > C[h].depth)
        /\ Entering(C[h]) => /\ h > 1 /\ C[h-1].th # t /\ Runner(C[h-1]) /\ t \in Cos
                             /\ C[h].depth = 0 /\ \A i \in 1..(h-1) : C[i].th # t
                             /\ Caller(C[h-1], C[h], F[C[h-1].th])
                             /\ C[h-1].depth \in 0..Len(F[C[h-1].th])
        /\ ~Entering(C[h]) => /\ Protected(C[h]) /\ C[h].depth > 0
                              /\ F[t][C[h].depth].fn = "pcall" /\ ~F[t][C[h].depth].ypcall
                              /\ h = 1 => Bottom(C[h])
                              /\ h > 1 => C[h-1].th = t /\ Runner(C[h-1]) /\ C[h-1].depth < C[h].depth
        /\ Coroutined(C[h].job) => Entering(C[h])
    BY <1>1, UnderHandler
  <1>h. a = C[h] /\ D = SubSeq(C, 1, n) /\ n \in 0..Len(C) /\ n + 1 = h
    BY <1>2
  <1>n. n = h - 1
    OBVIOUS
  <1> HIDE DEF h, n
  <1>3. /\ D \in Seq(Activation) /\ Shape(D) /\ Len(D) = n /\ (D = <<>> <=> n = 0)
        /\ (n > 0 => Last(D) = C[n]) /\ \A i \in 1..n : D[i] = C[i]
    <2>1. SubSeq(C, 1, n) \in Seq(Activation) /\ Shape(SubSeq(C, 1, n)) /\ Len(SubSeq(C, 1, n)) = n
          /\ (SubSeq(C, 1, n) = <<>> <=> n = 0) /\ (n > 0 => Last(SubSeq(C, 1, n)) = C[n])
          /\ \A i \in 1..n : SubSeq(C, 1, n)[i] = C[i]
      BY <1>1, <1>h, Prefix, ShapePrefix
    <2> QED BY ONLY <1>h, <2>1
  <1>4. \A u : InC(D, u) <=> \E i \in 1..n : C[i].th = u
    <2>1. C \in Seq(Activation) /\ n \in 0..Len(C) /\ D = SubSeq(C, 1, n)
      BY <1>1, <1>h
    <2>2. \A u : InC(SubSeq(C, 1, n), u) <=> \E i \in 1..n : C[i].th = u
      BY ONLY <2>1, InPrefix
    <2> QED BY ONLY <2>1, <2>2, Zenon
  <1>5. ASSUME NEW u, u # t PROVE InC(D, u) <=> InC(C, u)
    <2>1. ASSUME InC(C, u) PROVE InC(D, u)
      <3>1. PICK i \in 1..Len(C) : C[i].th = u
        BY <2>1, <1>1 DEF InC
      <3>2. i \in 1..n
        BY <3>1, <1>1, <1>2, <1>5, <1>h
      <3> QED BY <3>1, <3>2, <1>4
    <2>2. ASSUME InC(D, u) PROVE InC(C, u)
      <3>1. PICK i \in 1..n : C[i].th = u
        BY <2>2, <1>4
      <3> QED BY <3>1, <1>1, <1>h DEF InC
    <2> QED BY <2>1, <2>2
  <1>6. ASSUME NEW u, NEW k, u # t \/ k \in Nat, u # t \/ (~Entering(a) /\ k < a.depth), Held(C, u, k)
        PROVE  Held(D, u, k)
    <2>1. ASSUME NEW j \in (n+1)..Len(C), C[j].th = u
          PROVE  /\ ~(C[j].op = "call" /\ C[j].inc = 1 /\ C[j].depth = k + 1)
                 /\ ~(C[j].op = "raw" /\ C[j].job = "close" /\ C[j].depth = k)
      <3>1. j \in h..Len(C) /\ u = t /\ k < C[h].depth
        BY <1>2, <1>6, <1>h, <2>1
      <3>2. CASE j = h
        BY <3>1, <3>2, <1>2
      <3>3. CASE j # h
        <4>1. j \in (h+1)..Len(C)
          BY <3>1, <3>3, <1>1, <1>2
        <4>2. C[j].op # "raw" /\ (C[j].op = "call" => C[j].depth > C[h].depth)
          BY <4>1, <1>2
        <4>3. CASE C[j].op = "call" /\ C[j].depth = k + 1
          <5>1. C[j].depth \in Nat /\ C[h].depth \in Nat
            <6>1. j \in 1..Len(C)
              BY <4>1, <1>1, <1>2
            <6> QED BY <6>1, <1>1, <1>2, ShapeParts
          <5>2. k \in Nat
            BY <3>1, <1>6
          <5> QED BY <5>1, <5>2, <4>2, <4>3, <3>1
        <4> QED BY <4>2, <4>3
      <3> QED BY <3>2, <3>3
    <2> QED BY <1>1, <1>6, <1>h, <2>1, HeldPrefix
  <1>7. ASSUME NEW r \in Seq(Frame), Entering(a) \/ (Len(r) = a.depth /\ Trimmed(r, F[t], Len(r)))
        PROVE  Good(D, [F EXCEPT ![t] = r])
    <2>1. Cuts(C, F, t, n, r)
      <3> SUFFICES ASSUME n > 0
                   PROVE  \/ /\ C[n].th = t /\ Trimmed(r, F[t], Len(r)) /\ C[n].depth <= Len(r)
                             /\ C[n].op = "close" /\ C[n].depth > 0 => r[C[n].depth] = F[t][C[n].depth]
                             /\ \A j \in (n+1)..Len(C) : C[j].op = "call" => C[j].depth > Len(r)
                          \/ C[n].th # t /\ \A j \in (n+1)..Len(C) : C[j].th = t
        BY DEF Cuts
      <3>1. CASE Entering(a)
        BY <3>1, <1>2, <1>h
      <3>2. CASE ~Entering(a)
        <4>1. h > 1 /\ n = h - 1
          BY <1>n, <1>2, <1>h
        <4>2. C[n].th = t /\ Runner(C[n]) /\ C[n].depth < a.depth
          BY <3>2, <4>1, <1>2, <1>h
        <4>3. Len(r) = a.depth /\ Trimmed(r, F[t], Len(r))
          BY <3>2, <1>7
        <4>4. C[n].depth <= Len(r) /\ C[n].op # "close"
          <5>1. n \in 1..Len(C)
            BY <4>1, <1>2
          <5>2. C[n].depth \in Nat
            BY <5>1, <1>1, ShapeParts
          <5> QED BY <5>2, <4>2, <4>3, <1>2, <1>h DEF Runner
        <4>5. \A j \in (n+1)..Len(C) : C[j].op = "call" => C[j].depth > Len(r)
          <5> SUFFICES ASSUME NEW j \in h..Len(C), C[j].op = "call" PROVE C[j].depth > Len(r)
            BY <1>h
          <5>1. j \in (h+1)..Len(C)
            BY <1>1, <1>2
          <5> QED BY <5>1, <1>2, <1>h, <4>3
        <4> QED BY <4>2, <4>3, <4>4, <4>5
      <3> QED BY <3>1, <3>2
    <2>2. Good(SubSeq(C, 1, n), [F EXCEPT ![t] = r])
      BY <1>1, <1>h, <2>1, GoodCut
    <2> QED BY ONLY <1>h, <2>2
  <1>8. Entering(a) =>
              /\ D # <<>> /\ ~InC(D, t) /\ Last(D).th # t /\ Last(D).th \in Threads
              /\ Runner(Last(D)) /\ t \in Cos /\ a.depth = 0
              /\ InC(D, Last(D).th)
              /\ Caller(Last(D), a, F[Last(D).th]) /\ Last(D).depth \in 0..Len(F[Last(D).th])
    <2> SUFFICES ASSUME Entering(a)
                 PROVE  /\ D # <<>> /\ ~InC(D, t) /\ Last(D).th # t /\ Last(D).th \in Threads
                        /\ Runner(Last(D)) /\ t \in Cos /\ a.depth = 0
                        /\ InC(D, Last(D).th)
                        /\ Caller(Last(D), a, F[Last(D).th]) /\ Last(D).depth \in 0..Len(F[Last(D).th])
      OBVIOUS
    <2>1. n > 0 /\ n \in 1..n /\ n \in 1..Len(C) /\ n = h - 1
      BY <1>2, <1>h, <1>n
    <2>2. C[n].th \in Threads
      BY <2>1, <1>1, ShapeParts
    <2>3. Last(D) = C[n] /\ InC(D, C[n].th) /\ ~InC(D, t)
      BY <2>1, <1>2, <1>3, <1>4, <1>h, ZenonT(40)
    <2> QED BY <2>1, <2>2, <2>3, <1>2, <1>3, <1>h, SMTT(30)
  <1>9. ~Entering(a) =>
              /\ Protected(a) /\ a.depth > 0 /\ F[t][a.depth].fn = "pcall" /\ ~F[t][a.depth].ypcall
              /\ D = <<>> => Bottom(a)
              /\ D # <<>> => Last(D).th = t /\ Runner(Last(D)) /\ Last(D).depth < a.depth
    <2>1. n = h - 1 /\ (n = 0 <=> h = 1) /\ (n > 0 <=> h > 1) /\ (n = 0 \/ n > 0)
      BY <1>2, <1>h, <1>n
    <2> QED BY <2>1, <1>2, <1>3, <1>h
  <1> QED BY <1>2, <1>3, <1>5, <1>6, <1>7, <1>8, <1>9, <1>h DEF Under

\* The counters c and m agree with D, and a with both.
UnderCounts(t, a, D, c, m) ==
    /\ Exact(D, c, m)
    /\ CCallsUpTo(D, Len(D)) \in Nat /\ CCallsUpTo(D, Len(D)) < ErrCCalls
    /\ Coroutined(a.job) => /\ a.cc = CCallsUpTo(D, Len(D)) + 1
                            /\ CCallsUpTo(D, Len(D)) + 1 < ErrCCalls
    /\ ~Coroutined(a.job) => a.cc = CCallsUpTo(D, Len(D))
    /\ a.nny = NonYieldableUpTo(t, D, Len(D)) /\ a.cc \in Nat /\ a.nny \in Nat
    /\ D # <<>> => c[Last(D).th] = CCallsUpTo(D, Len(D))

\* The counters of what is left.
LEMMA ThrowCounts ==
  ASSUME NEW C, NEW F, NEW st, NEW c, NEW m, NEW t, Mid(C, F, st, c, m, t),
         NEW h, h = Handler(t, C), NEW a, a = C[h], NEW D, D = SubSeq(C, 1, h - 1),
         NEW c2 \in Counters, NEW m2 \in Counters,
         OthersCount(t, c, m, c2, m2),
         ~Entering(a) => c2[t] = a.cc /\ m2[t] = a.nny
  PROVE  UnderCounts(t, a, D, c2, m2)
  <1>1. /\ C \in Seq(Activation) /\ C # <<>> /\ t = Last(C).th /\ Len(C) \in Nat /\ Good(C, F)
        /\ Exact(C, c, m) /\ CCallsUpTo(C, Len(C)) < ErrCCalls
    BY RunningFacts DEF Mid
  <1>2. h \in 1..Len(C) /\ C[h].op = "raw" /\ C[h].th = t /\ C[h] \in Activation
    BY <1>1, UnderHandler
  <1>d. /\ D \in Seq(Activation) /\ Len(D) = h - 1 /\ (D # <<>> => Last(D) = D[Len(D)] /\ Len(D) \in DOMAIN D)
        /\ \A i \in 1..(h-1) : D[i] = C[i]
    <2>1. h - 1 \in 0..Len(C)
      BY <1>1, <1>2
    <2>2. /\ SubSeq(C, 1, h - 1) \in Seq(Activation) /\ Len(SubSeq(C, 1, h - 1)) = h - 1
          /\ \A i \in 1..(h-1) : SubSeq(C, 1, h - 1)[i] = C[i]
      BY ONLY <2>1, <1>1, Prefix
    <2>3. D \in Seq(Activation) /\ Len(D) = h - 1 /\ \A i \in 1..(h-1) : D[i] = C[i]
      BY <2>2
    <2>4. D # <<>> => Last(D) = D[Len(D)] /\ Len(D) \in DOMAIN D
      BY ONLY <2>3, Shortened
    <2> QED BY <2>3, <2>4
  <1>e. Exact(D, c2, m2)
    BY <1>1, ExactUnder
  <1>f. D # <<>> => c2[Last(D).th] = CCallsUpTo(D, Len(D))
    BY <1>d, <1>e DEF Exact, EndCounts
  <1>3. /\ CCallsUpTo(D, Len(D)) = CCallsUpTo(C, h - 1)
        /\ \A u : NonYieldableUpTo(u, D, Len(D)) = NonYieldableUpTo(u, C, h - 1)
    <2>1. h - 1 \in Nat
      BY <1>1, <1>2
    <2> QED BY ONLY <2>1, <1>d, CountSame, SMTT(30)
  <1>4. /\ Counted(C[h]) => C[h].cc = CCallsUpTo(C, h - 1) + 1
        /\ ~Counted(C[h]) => C[h].cc = CCallsUpTo(C, h - 1)
        /\ C[h].nny = NonYieldableUpTo(C[h].th, C, h - 1)
    <2> QED BY <1>1, <1>2, RawExact
  <1>5. Counted(C[h]) <=> Coroutined(C[h].job)
    BY <1>2 DEF Counted
  <1>6. /\ CCallsUpTo(C, h - 1) \in Nat /\ CCallsUpTo(C, h) \in Nat /\ CCallsUpTo(C, Len(C)) \in Nat
        /\ CCallsUpTo(C, h) <= CCallsUpTo(C, Len(C)) /\ CCallsUpTo(C, h - 1) <= CCallsUpTo(C, Len(C))
        /\ Counted(C[h]) => CCallsUpTo(C, h) = CCallsUpTo(C, h - 1) + 1
        /\ ErrCCalls \in Nat
    <2>1. h - 1 \in Nat /\ h \in Nat /\ h <= Len(C) /\ (h - 1) + 1 = h
      BY <1>1, <1>2
    <2>2. CCallsUpTo(C, (h - 1) + 1) = CCallsUpTo(C, h - 1) + (IF Counted(C[(h-1)+1]) THEN 1 ELSE 0)
      BY <2>1, CountNext
    <2>3. CCallsUpTo(C, h) <= CCallsUpTo(C, Len(C)) /\ CCallsUpTo(C, h - 1) <= CCallsUpTo(C, Len(C))
      BY <2>1, <1>1, CountGrows
    <2>4. CCallsUpTo(C, h - 1) \in Nat /\ CCallsUpTo(C, h) \in Nat /\ CCallsUpTo(C, Len(C)) \in Nat
      BY <2>1, <1>1, CountCard
    <2> QED BY <2>1, <2>2, <2>3, <2>4, CallsAssumption
  <1>7. C[h].cc \in Nat /\ C[h].nny \in Nat
    BY <1>2, ActivationFields
  <1>h. a = C[h]
    OBVIOUS
  <1>8. CCallsUpTo(D, Len(D)) \in Nat /\ CCallsUpTo(D, Len(D)) < ErrCCalls
    BY ONLY <1>1, <1>3, <1>6
  <1>9. Coroutined(a.job) => /\ a.cc = CCallsUpTo(D, Len(D)) + 1
                             /\ CCallsUpTo(D, Len(D)) + 1 < ErrCCalls
    BY ONLY <1>1, <1>3, <1>4, <1>5, <1>6, <1>h
  <1> QED BY <1>2, <1>3, <1>4, <1>5, <1>7, <1>8, <1>9, <1>h, <1>e, <1>f DEF UnderCounts

\* The error, or the yield, stops at a setjmp of the same thread: vmkD_pcall or
\* vmkD_closeprotected closes the variables above the frame of the pcall.
LEMMA ThrowCloses ==
  ASSUME NEW C, NEW F, NEW st, NEW c, NEW m, NEW t, Mid(C, F, st, c, m, t),
         NEW a, a = C[Handler(t, C)], NEW D, D = SubSeq(C, 1, Handler(t, C) - 1),
         a.job \in {"pcall", "close"}, NEW lvl \in Nat \ {0},
         NEW r, r = SubSeq(F[t], 1, a.depth),
         NEW c2, c2 = [c EXCEPT ![t] = a.cc], NEW m2, m2 = [m EXCEPT ![t] = a.nny]
  PROVE  Sound(Append(Append(D, Raw(t, "close", a.depth, a.cc, a.nny)), FClose(t, a.depth, lvl, FALSE)),
               [F EXCEPT ![t] = r], st, c2, m2)
  <1>1. /\ D \in Seq(Activation) /\ a \in Activation /\ a.op = "raw" /\ a.th = t /\ a.depth \in 0..Len(F[t])
        /\ \A u : u # t => (InC(D, u) <=> InC(C, u))
        /\ \A u, k : u # t /\ Held(C, u, k) => Held(D, u, k)
        /\ Entering(a) =>
              /\ D # <<>> /\ ~InC(D, t) /\ Last(D).th # t /\ Last(D).th \in Threads
              /\ Runner(Last(D)) /\ t \in Cos /\ a.depth = 0
              /\ InC(D, Last(D).th)
              /\ Caller(Last(D), a, F[Last(D).th]) /\ Last(D).depth \in 0..Len(F[Last(D).th])
        /\ ~Entering(a) =>
              /\ Protected(a) /\ a.depth > 0 /\ F[t][a.depth].fn = "pcall" /\ ~F[t][a.depth].ypcall
              /\ D = <<>> => Bottom(a)
              /\ D # <<>> => Last(D).th = t /\ Runner(Last(D)) /\ Last(D).depth < a.depth
        /\ \A q \in Seq(Frame) : Entering(a) \/ (Len(q) = a.depth /\ Trimmed(q, F[t], Len(q))) =>
              Good(D, [F EXCEPT ![t] = q])
        /\ ~Entering(a) => \A k \in Nat : k < a.depth /\ Held(C, t, k) => Held(D, t, k)
    <2>1. Under(C, F, t, a, D)
      BY ThrowUnder
    <2> QED BY <2>1 DEF Under
  <1>2. /\ F \in FrameMap /\ t \in Threads /\ F[t] \in Seq(Frame) /\ Frames(F[t]) /\ st[t] = "ok"
        /\ c \in Counters /\ m \in Counters /\ RunningIn(C) = t /\ ThreadsFit(C, F, st) /\ st \in Statuses
        /\ InC(C, t) /\ Len(F[t]) \in Nat
    BY RunningFacts DEF Mid
  <1>3. /\ r \in Seq(Frame) /\ Len(r) = a.depth /\ (\A k \in 1..a.depth : r[k] = F[t][k])
        /\ (a.depth > 0 => Last(r) = F[t][a.depth]) /\ Trimmed(r, F[t], a.depth)
    <2>1. /\ SubSeq(F[t], 1, a.depth) \in Seq(Frame) /\ Len(SubSeq(F[t], 1, a.depth)) = a.depth
          /\ (\A k \in 1..a.depth : SubSeq(F[t], 1, a.depth)[k] = F[t][k])
          /\ (a.depth > 0 => Last(SubSeq(F[t], 1, a.depth)) = F[t][a.depth])
          /\ Trimmed(SubSeq(F[t], 1, a.depth), F[t], a.depth)
      BY ONLY <1>1, <1>2, Prefix, TrimmedPrefix
    <2> QED BY <2>1
  <1> DEFINE G == [F EXCEPT ![t] = r]
             b == Raw(t, "close", a.depth, a.cc, a.nny)
             e == FClose(t, a.depth, lvl, FALSE)
  <1>4. G \in FrameMap /\ G[t] = r /\ \A u \in Threads : u # t => G[u] = F[u]
    BY <1>2, <1>3 DEF FrameMap
  <1>5. Good(D, G)
    BY <1>1, <1>3
  <1>6. a.cc \in Nat /\ a.nny \in Nat
    BY <1>1, ActivationFields
  <1>7. /\ c2 \in Counters /\ m2 \in Counters /\ c2[t] = a.cc /\ m2[t] = a.nny
        /\ OthersCount(t, c, m, c2, m2)
    BY <1>2, <1>6 DEF Counters, OthersCount
  <1>8. /\ Exact(D, c2, m2) /\ CCallsUpTo(D, Len(D)) < ErrCCalls
        /\ ~Coroutined(a.job) => a.cc = CCallsUpTo(D, Len(D))
        /\ a.nny = NonYieldableUpTo(t, D, Len(D))
    <2>1. UnderCounts(t, a, D, c2, m2)
      BY <1>7, ThrowCounts
    <2> QED BY <2>1 DEF UnderCounts
  <1>9. a.cc = CCallsUpTo(D, Len(D)) /\ ~Coroutined(a.job)
    BY <1>8 DEF Coroutined
  <1>b. b = Raw(t, "close", a.depth, c2[t], m2[t])
    BY <1>7
  <1>10. /\ b.op = "raw" /\ b.th = t /\ b.job = "close" /\ b.depth = a.depth
    BY DEF Raw
  <1>d. a.depth \in Nat /\ (a.depth = 0 <=> ~(a.depth > 0))
    BY <1>1, <1>2
  <1>11. Entering(b) <=> Entering(a)
    BY <1>1, <1>9, <1>10, <1>d DEF Entering, Coroutined
  <1>e. e = FClose(t, a.depth, lvl, FALSE) /\ G = [F EXCEPT ![t] = r]
    OBVIOUS
  <1>bb. b = Raw(t, "close", a.depth, a.cc, a.nny)
    OBVIOUS
  <1> HIDE DEF G, b, e
  <1>12. /\ IF D = <<>> THEN Bottom(b) ELSE Over(Last(D), b)
         /\ D # <<>> => Caller(Last(D), b, G[Last(D).th])
         /\ D # <<>> => t = Last(D).th \/ ~InC(D, t)
         /\ Framed(b, G[t])
    <2>1. CASE Entering(a)
      <3>1. a.job = "close" /\ a.op = "raw"
        BY <2>1, <1>1, <1>9 DEF Entering
      <3>2. Caller(Last(D), b, F[Last(D).th])
        BY <2>1, <3>1, <1>1, <1>10, <1>11 DEF Caller
      <3>3. Over(Last(D), b)
        BY <2>1, <1>1, <1>10, <1>11 DEF Over, Enters
      <3>4. Framed(b, G[t])
        BY <2>1, <1>1, <1>3, <1>4, <1>10 DEF Framed, Protected
      <3> QED BY <2>1, <3>2, <3>3, <3>4, <1>1, <1>4
    <2>2. CASE ~Entering(a)
      <3>1. ~Entering(b) /\ Protected(b)
        BY <2>2, <1>10, <1>11 DEF Protected
      <3>2. Framed(b, G[t])
        <4>1. G[t][a.depth] = F[t][a.depth] /\ Len(G[t]) = a.depth
          BY <2>2, <1>1, <1>3, <1>4, <1>d
        <4> QED BY <4>1, <2>2, <1>1, <1>10, <1>d, SMTT(30) DEF Framed
      <3>3. IF D = <<>> THEN Bottom(b) ELSE Over(Last(D), b)
        BY <3>1, <2>2, <1>1, <1>10 DEF Over, Bottom
      <3>4. D # <<>> => Caller(Last(D), b, G[Last(D).th])
        BY <3>1, <1>10 DEF Caller
      <3> QED BY <3>2, <3>3, <3>4, <2>2, <1>1
    <2> QED BY <2>1, <2>2
  <1>13. ASSUME NEW u \in Threads
         PROVE  /\ Frames(G[u])
                /\ st[u] # "err" => \A k \in DOMAIN G[u] :
                     Blocking(G[u][k]) => Held(D, u, k) \/ (u = t /\ k = a.depth)
                /\ ThreadFits(InC(D, u) \/ u = t, u = t, G[u], st[u])
    <2>0. ThreadFits(InC(C, u), u = t, F[u], st[u])
      BY <1>2 DEF ThreadsFit, ThreadFits
    <2>1. CASE u = t
      <3>1. Frames(r)
        <4>1. a.depth > 0 => PcOf(r[a.depth])
          BY <1>1, <1>2, <1>3, <1>d DEF Frames
        <4> QED BY <4>1, <1>2, <1>3, FramesTrimmed
      <3>2. ASSUME NEW k \in 1..a.depth, Blocking(r[k]), k # a.depth PROVE Held(D, t, k)
        <4>1. k \in Nat /\ k < a.depth /\ ~Entering(a) /\ k \in DOMAIN F[t] /\ k # Len(F[t])
          BY <3>2, <1>1, <1>2, <1>d
        <4>2. Held(C, t, k)
          BY <4>1, <3>2, <1>2, <1>3 DEF Mid
        <4> QED BY <4>1, <4>2, <1>1
      <3>3. DOMAIN r = 1..a.depth
        BY <1>3
      <3> QED BY <2>0, <2>1, <3>1, <3>2, <3>3, <1>2, <1>4 DEF ThreadFits
    <2>2. CASE u # t
      BY <2>0, <2>2, <1>1, <1>4 DEF Mid, ThreadFits
    <2> QED BY <2>1, <2>2
  <1>14. st[Main] = "ok" /\ Len(G[t]) = a.depth /\ (Entering(b) => ~InC(D, t))
    BY <1>1, <1>2, <1>3, <1>4, <1>11 DEF ThreadsFit
  <1>15. c2[t] = CCallsUpTo(D, Len(D)) /\ m2[t] = NonYieldableUpTo(t, D, Len(D))
    BY <1>7, <1>8, <1>9
  <1>f. Fits(D, G, st, t, a.depth)
    BY <1>2, <1>13, <1>14 DEF Fits
  <1>16. Sound(Append(Append(D, b), e), G, st, c2, m2)
    <2>1. /\ Good(D, G) /\ t \in Threads /\ a.depth \in Nat /\ c2 \in Counters /\ m2 \in Counters
          /\ Exact(D, c2, m2) /\ CCallsUpTo(D, Len(D)) < ErrCCalls
          /\ D # <<>> => t = Last(D).th \/ ~InC(D, t)
          /\ Entering(b) => ~InC(D, t)
          /\ Len(G[t]) = a.depth /\ Fits(D, G, st, t, a.depth)
      BY <1>2, <1>5, <1>7, <1>8, <1>d, <1>12, <1>f, <1>14
    <2> QED BY ONLY <2>1, <1>12, <1>15, <1>b, <1>e, lvl \in Nat \ {0}, PushClose
  <1> QED BY <1>16, <1>bb, <1>e

\* What the frames s of a thread are when it leaves the C stack with status y.
Leaves(y, s) ==
    /\ y = "ok" => s = <<>>
    /\ y = "yield" => /\ s # <<>> /\ Last(s).fn = "yield"
                      /\ \A k \in DOMAIN s : ~Blocking(s[k])

\* The thread t left D to the C function of 'from' that entered it with a.
Left(D, F, st, c, n, t, from, a) ==
    /\ Mid(D, F, st, c, n, from)
    /\ from # t /\ from \in Threads /\ t \in Cos
    /\ Runner(Last(D)) /\ Last(D).depth \in Nat /\ Len(F[from]) > Last(D).depth
    /\ Last(F[from]).pc = "wait"
    /\ Last(F[from]).fn \in (IF a.job = "close" THEN {"close", "wrap"} ELSE {"resume", "wrap"})

\* The thread t is out of the C stack: 'from', that resumed or closed it, runs.
LEMMA LeaveMid ==
  ASSUME NEW C, NEW F, NEW st, NEW c, NEW m, NEW t, Mid(C, F, st, c, m, t),
         NEW h, h = Handler(t, C), NEW a, a = C[h], NEW D, D = SubSeq(C, 1, h - 1),
         Entering(a), NEW from, from = Last(D).th,
         NEW y \in {"ok", "yield", "err"}, NEW st2, st2 = [st EXCEPT ![t] = y],
         Leaves(y, F[t]),
         NEW c2 \in Counters, NEW m2 \in Counters, OthersCount(t, c, m, c2, m2)
  PROVE  Left(D, F, st2, c2, m2, t, from, a)
  <1>1. /\ D \in Seq(Activation) /\ Shape(D)
        /\ \A u : u # t => (InC(D, u) <=> InC(C, u))
        /\ \A u, k : u # t /\ Held(C, u, k) => Held(D, u, k)
        /\ D # <<>> /\ ~InC(D, t) /\ Last(D).th # t /\ Last(D).th \in Threads
        /\ Runner(Last(D)) /\ t \in Cos
        /\ InC(D, Last(D).th)
        /\ Caller(Last(D), a, F[Last(D).th]) /\ Last(D).depth \in 0..Len(F[Last(D).th])
        /\ \A q \in Seq(Frame) : Good(D, [F EXCEPT ![t] = q])
    <2>1. Under(C, F, t, a, D)
      BY ThrowUnder
    <2> QED BY <2>1 DEF Under
  <1>2. /\ F \in FrameMap /\ t \in Threads /\ F[t] \in Seq(Frame) /\ Frames(F[t]) /\ st[t] = "ok"
        /\ RunningIn(C) = t /\ ThreadsFit(C, F, st) /\ st \in Statuses /\ InC(C, t)
    BY RunningFacts DEF Mid
  <1>3. Exact(D, c2, m2) /\ CCallsUpTo(D, Len(D)) < ErrCCalls
    <2>1. UnderCounts(t, a, D, c2, m2)
      BY ThrowCounts
    <2> QED BY <2>1 DEF UnderCounts
  <1>4. Good(D, F)
    <2>1. [F EXCEPT ![t] = F[t]] = F
      BY <1>2 DEF FrameMap
    <2> QED BY <1>1, <1>2, <2>1
  <1>5. st2 \in Statuses /\ st2[t] = y /\ \A u \in Threads : u # t => st2[u] = st[u]
    BY <1>2 DEF Statuses
  <1>6. RunningIn(D) = from
    BY <1>1 DEF RunningIn
  <1>7. ASSUME NEW u \in Threads PROVE ThreadFits(InC(D, u), u = from, F[u], st2[u])
    <2>1. ThreadFits(InC(C, u), u = t, F[u], st[u])
      BY <1>2 DEF ThreadsFit, ThreadFits
    <2>2. CASE u = t
      BY <2>1, <2>2, <1>1, <1>2, <1>5 DEF ThreadFits, Leaves
    <2>3. CASE u # t
      BY <2>1, <2>3, <1>1, <1>5 DEF ThreadFits
    <2> QED BY <2>2, <2>3
  <1>8. st2[Main] = "ok"
    BY <1>1, <1>2, <1>5, CallsAssumption DEF ThreadsFit, Threads
  <1>9. ThreadsFit(D, F, st2)
    BY <1>6, <1>7, <1>8 DEF ThreadsFit, ThreadFits
  <1>10. ASSUME NEW u \in Threads
         PROVE  /\ Frames(F[u])
                /\ st2[u] # "err" => \A k \in DOMAIN F[u] :
                      Blocking(F[u][k]) => Held(D, u, k) \/ (u = from /\ k = Len(F[from]))
    <2>1. CASE u = t
      BY <2>1, <1>2, <1>5 DEF Leaves
    <2>2. CASE u # t
      BY <2>2, <1>1, <1>5 DEF Mid
    <2> QED BY <2>1, <2>2
  <1>11. Mid(D, F, st2, c2, m2, from)
    BY <1>1, <1>3, <1>4, <1>5, <1>9, <1>10 DEF Mid
  <1>12. /\ Len(F[from]) > Last(D).depth /\ Last(F[from]).pc = "wait"
         /\ Last(F[from]).fn \in (IF a.job = "close" THEN {"close", "wrap"} ELSE {"resume", "wrap"})
    BY <1>1 DEF Caller
  <1>13. Last(D).depth \in Nat
    BY <1>1
  <1> QED BY <1>1, <1>11, <1>12, <1>13 DEF Left

\* The C function of a thread that runs goes on, or returns to its caller.
LEMMA CFunctionEnds ==
  ASSUME NEW C, NEW F, NEW st, NEW c, NEW m, NEW t, Mid(C, F, st, c, m, t),
         Runner(Last(C)), Len(F[t]) > Last(C).depth, Last(F[t]).fn # "vmk",
         NEW r, \/ r = ReturnC(F[t])
                \/ Last(F[t]).fn = "wrap" /\ r = [F[t] EXCEPT ![Len(F[t])].pc = "raise"]
  PROVE  Sound(C, [F EXCEPT ![t] = r], st, c, m)
  <1>1. /\ t \in Threads /\ F \in FrameMap /\ F[t] \in Seq(Frame) /\ Len(F[t]) \in Nat /\ Frames(F[t])
        /\ Last(C).depth \in 0..Len(F[t]) /\ st[t] = "ok" /\ DOMAIN F[t] = 1..Len(F[t])
    BY RunningFacts
  <1>2. F[t] # <<>> /\ Len(F[t]) \in 1..Len(F[t]) /\ Last(F[t]) = F[t][Len(F[t])]
    BY <1>1 DEF Last
  <1>3. /\ r \in Seq(Frame) /\ Trimmed(r, F[t], Len(r)) /\ Last(C).depth <= Len(r)
        /\ r # <<>> => /\ PcOf(Last(r)) /\ ~Parked(Last(r)) /\ ~Blocking(Last(r))
                       /\ Last(r) = r[Len(r)]
    <2>1. CASE r = ReturnC(F[t])
      <3>1. /\ Trimmed(r, F[t], Len(F[t]) - 1)
            /\ Len(F[t]) > 1 => /\ Last(r).pc = "run" /\ r[Len(F[t]) - 1] = Last(r)
        BY <1>1, <1>2, <2>1, ReturnCTrims
      <3>2. r \in Seq(Frame) /\ Len(r) = Len(F[t]) - 1 /\ (r # <<>> <=> Len(F[t]) > 1)
        BY <1>1, <1>2, <3>1 DEF Trimmed
      <3>3. ASSUME Len(F[t]) > 1 PROVE Last(r).fn = "vmk" /\ ~Last(r).ypcall
        <4>1. F[t][Len(F[t]) - 1].fn = "vmk"
          BY <1>1, <1>2, <3>3 DEF Frames
        <4>2. Len(F[t]) - 1 \in 1..Len(F[t])
          BY <1>1, <3>3
        <4>3. ~F[t][Len(F[t]) - 1].ypcall
          BY <4>1, <4>2, <1>1 DEF Frames
        <4> QED BY <4>1, <4>3, <3>1, <3>3, <1>1 DEF Trimmed, SameKind
      <3>4. Last(C).depth <= Len(r)
        BY <3>2, <1>1
      <3>5. r # <<>> => /\ PcOf(Last(r)) /\ ~Parked(Last(r)) /\ ~Blocking(Last(r))
                        /\ Last(r) = r[Len(r)]
        BY <3>1, <3>2, <3>3 DEF PcOf, Parked, Blocking
      <3> QED BY <3>1, <3>2, <3>4, <3>5
    <2>2. CASE Last(F[t]).fn = "wrap" /\ r = [F[t] EXCEPT ![Len(F[t])].pc = "raise"]
      <3>1. /\ Trimmed(r, F[t], Len(F[t])) /\ r # <<>> /\ Len(r) = Len(F[t])
            /\ Last(r).pc = "raise" /\ SameKind(Last(r), Last(F[t])) /\ Last(r) = r[Len(F[t])]
        BY <1>1, <1>2, <2>2, LastAt
      <3>2. Last(r).fn = "wrap" /\ r \in Seq(Frame)
        BY <3>1, <2>2 DEF SameKind, Trimmed
      <3>3. PcOf(Last(r)) /\ ~Parked(Last(r)) /\ ~Blocking(Last(r))
        BY <3>1, <3>2 DEF PcOf, Parked, Blocking
      <3> QED BY <3>1, <3>2, <3>3, <1>1
    <2> QED BY <2>1, <2>2
  <1>4. Frames(r)
    <2>1. Len(r) > 0 => PcOf(r[Len(r)])
      BY <1>3
    <2> QED BY <1>1, <1>3, <2>1, FramesTrimmed
  <1>5. /\ Agree(r, F[t], Last(C).depth)
        /\ \A k \in DOMAIN r : r[k].fresh => k \in DOMAIN F[t] /\ F[t][k].fresh
    <2>1. Last(C).depth \in 0..Len(r)
      BY <1>1, <1>3
    <2> QED BY <1>1, <1>3, <2>1, TrimmedAgrees
  <1>6. \A k \in 1..(Len(r)-1) : Blocking(r[k]) => Held(C, t, k)
    <2> SUFFICES ASSUME NEW k \in 1..(Len(r)-1), Blocking(r[k]) PROVE Held(C, t, k)
      OBVIOUS
    <2>1. r[k] = F[t][k] /\ k \in DOMAIN F[t] /\ k # Len(F[t])
      BY <1>1, <1>3 DEF Trimmed
    <2> QED BY <2>1, <1>1 DEF Mid
  <1>7. Last(C).op # "close" /\ ~Protected(Last(C))
    BY DEF Runner, Protected, Coroutined
  <1>8. \A k \in 1..Len(r) : r[k].fresh => k \in DOMAIN F[t] /\ F[t][k].fresh
    BY <1>3, <1>5
  <1> DEFINE G == [F EXCEPT ![t] = r]
  <1>9. Mid(C, G, st, c, m, t)
    BY <1>3, <1>4, <1>5, <1>6, <1>7, <1>8, MidFrames
  <1>10. G[t] = r
    BY <1>1 DEF FrameMap
  <1> HIDE DEF G
  <1>11. Sound(C, G, st, c, m)
    BY <1>3, <1>7, <1>9, <1>10, MidSound
  <1> QED BY <1>11 DEF G

\* vmk_resume or vmk_closethread returns to the C function that called it.
LEMMA LeftEnds ==
  ASSUME NEW D, NEW F, NEW st, NEW c, NEW m, NEW t, NEW from, NEW a,
         Left(D, F, st, c, m, t, from, a),
         NEW r, \/ r = ReturnC(F[from])
                \/ Last(F[from]).fn = "wrap" /\ r = [F[from] EXCEPT ![Len(F[from])].pc = "raise"]
  PROVE  Sound(D, [F EXCEPT ![from] = r], st, c, m)
  <1>1. /\ Mid(D, F, st, c, m, from) /\ Runner(Last(D)) /\ Len(F[from]) > Last(D).depth
        /\ Last(F[from]).fn # "vmk"
    BY DEF Left
  <1> QED BY <1>1, CFunctionEnds

\* findpcall: the last frame that can recover from an error.
LEMMA PcallFound ==
  ASSUME NEW s \in Seq(Frame)
  PROVE  /\ FindPcall(s) # 0 => /\ FindPcall(s) \in 1..Len(s) /\ s[FindPcall(s)].ypcall
                                /\ \A k \in (FindPcall(s) + 1)..Len(s) : ~s[k].ypcall
         /\ FindPcall(s) = 0 => \A k \in 1..Len(s) : ~s[k].ypcall
  <1> DEFINE I == {i \in 1..Len(s) : s[i].ypcall}
  <1>1. FindPcall(s) = IF I # {} THEN Max(I) ELSE 0
    BY DEF FindPcall, SelectLastInSeq
  <1>2. I # {} => Max(I) \in I /\ \A i \in I : i <= Max(I)
    <2>1. I \in SUBSET (1..Len(s)) /\ Len(s) \in Nat
      OBVIOUS
    <2> HIDE DEF I
    <2> QED BY <2>1, GreatestIndex
  <1>3. CASE I # {}
    <2>1. FindPcall(s) \in I /\ \A i \in I : i <= FindPcall(s)
      BY <1>1, <1>2, <1>3
    <2>2. FindPcall(s) \in 1..Len(s) /\ s[FindPcall(s)].ypcall
      BY <2>1
    <2>3. ASSUME NEW k \in (FindPcall(s) + 1)..Len(s), s[k].ypcall PROVE FALSE
      <3>1. k \in I
        BY <2>2, <2>3
      <3> QED BY <2>1, <2>2, <2>3, <3>1
    <2> QED BY <2>2, <2>3
  <1>4. CASE I = {}
    BY <1>1, <1>4
  <1> QED BY <1>3, <1>4

\* The last frame of the ones that are left holds the error.
LEMMA Recovers ==
  ASSUME NEW s \in Seq(Frame), Frames(s), NEW p \in 1..Len(s), s[p].ypcall,
         NEW r, r = [SubSeq(s, 1, p) EXCEPT ![p].recst = TRUE]
  PROVE  /\ Trimmed(r, s, p) /\ r \in Seq(Frame) /\ Frames(r) /\ r # <<>>
         /\ Last(r).fn = "pcall" /\ ~Parked(Last(r))
         /\ \A k \in DOMAIN r : ~Blocking(r[k])
  <1> DEFINE q == SubSeq(s, 1, p)
  <1>1. Len(s) \in Nat /\ p \in 0..Len(s) /\ p > 0 /\ p \in Nat
    OBVIOUS
  <1>2. q \in Seq(Frame) /\ Len(q) = p /\ DOMAIN q = 1..p /\ \A i \in 1..p : q[i] = s[i]
    BY <1>1, Prefix
  <1>q. r = [q EXCEPT ![p].recst = TRUE]
    OBVIOUS
  <1> HIDE DEF q
  <1>p. s[p] \in Frame
    OBVIOUS
  <1> DEFINE f == [s[p] EXCEPT !.recst = TRUE]
  <1>3. f \in Frame /\ SameKind(f, s[p]) /\ f.pc = s[p].pc
    BY ONLY <1>p DEF Frame, SameKind
  <1>e. r = [q EXCEPT ![p] = f]
    <2>1. p \in DOMAIN q /\ q[p] = s[p]
      BY ONLY <1>1, <1>2
    <2>2. [q EXCEPT ![p].recst = TRUE] = [q EXCEPT ![p] = [q[p] EXCEPT !.recst = TRUE]]
      OBVIOUS
    <2> QED BY <1>q, <2>1, <2>2
  <1> HIDE DEF f
  <1>4. /\ r \in Seq(Frame) /\ Len(r) = p /\ r[p] = f
        /\ DOMAIN r = 1..p /\ \A i \in 1..(p-1) : r[i] = s[i]
    BY ONLY <1>e, <1>1, <1>2, <1>3
  <1>5. Trimmed(r, s, p)
    BY <1>1, <1>3, <1>4 DEF Trimmed
  <1>6. s[p].fn = "pcall" /\ PcOf(s[p]) /\ \A j \in 1..(p-1) : ~Blocking(s[j])
    BY DEF Frames
  <1>7. PcOf(r[p]) /\ r[p].fn = "pcall" /\ r[p].ypcall
    BY <1>3, <1>4, <1>6 DEF PcOf, SameKind
  <1>8. Frames(r)
    BY <1>1, <1>5, <1>7, FramesTrimmed
  <1>9. \A k \in 1..p : ~Blocking(r[k])
    <2> TAKE k \in 1..p
    <2>1. CASE k = p
      BY <2>1, <1>7 DEF Blocking
    <2>2. CASE k # p
      <3>1. k \in 1..(p-1)
        BY <2>2, <1>1
      <3> QED BY <3>1, <1>4, <1>6
    <2> QED BY <2>1, <2>2
  <1>10. r # <<>> /\ Last(r) = r[p]
    BY ONLY <1>1, <1>4 DEF Last
  <1> QED BY <1>4, <1>5, <1>7, <1>8, <1>9, <1>10 DEF Parked

\* precover: the coroutine goes on in its innermost pcall.
LEMMA ThrowRecovers ==
  ASSUME NEW C, NEW F, NEW st, NEW c, NEW m, NEW t, Mid(C, F, st, c, m, t),
         NEW h, h = Handler(t, C), NEW a, a = C[h], NEW D, D = SubSeq(C, 1, h - 1),
         Coroutined(a.job), NEW p, p = FindPcall(F[t]), p # 0,
         NEW r, r = [SubSeq(F[t], 1, p) EXCEPT ![p].recst = TRUE],
         NEW c2, c2 = [c EXCEPT ![t] = a.cc], NEW m2, m2 = [m EXCEPT ![t] = a.nny]
  PROVE  Sound(Append(D, Raw(t, "unroll", 0, a.cc, a.nny)), [F EXCEPT ![t] = r], st, c2, m2)
  <1>1. /\ D \in Seq(Activation) /\ Shape(D) /\ Entering(a)
        /\ \A u : u # t => (InC(D, u) <=> InC(C, u))
        /\ \A u, k : u # t /\ Held(C, u, k) => Held(D, u, k)
        /\ D # <<>> /\ ~InC(D, t) /\ Last(D).th # t /\ Last(D).th \in Threads
        /\ Runner(Last(D)) /\ t \in Cos
        /\ Caller(Last(D), a, F[Last(D).th])
        /\ \A q \in Seq(Frame) : Good(D, [F EXCEPT ![t] = q])
        /\ a \in Activation /\ a.op = "raw"
    <2>1. Under(C, F, t, a, D)
      BY ThrowUnder
    <2> QED BY <2>1 DEF Under
  <1>2. /\ F \in FrameMap /\ t \in Threads /\ F[t] \in Seq(Frame) /\ Frames(F[t]) /\ st[t] = "ok"
        /\ RunningIn(C) = t /\ ThreadsFit(C, F, st) /\ st \in Statuses /\ InC(C, t)
        /\ c \in Counters /\ m \in Counters
    BY RunningFacts DEF Mid
  <1>3. a.cc \in Nat /\ a.nny \in Nat
    BY <1>1, ActivationFields
  <1>4. /\ c2 \in Counters /\ m2 \in Counters /\ c2[t] = a.cc /\ m2[t] = a.nny
        /\ OthersCount(t, c, m, c2, m2)
    BY <1>2, <1>3 DEF Counters, OthersCount
  <1>5. /\ Exact(D, c2, m2) /\ CCallsUpTo(D, Len(D)) + 1 < ErrCCalls
        /\ c2[t] = CCallsUpTo(D, Len(D)) + 1 /\ m2[t] = NonYieldableUpTo(t, D, Len(D))
    <2>0. Mid(C, F, st, c, m, t) /\ h = Handler(t, C) /\ a = C[h] /\ D = SubSeq(C, 1, h - 1)
      OBVIOUS
    <2>1. UnderCounts(t, a, D, c2, m2)
      BY ONLY <1>1, <1>4, <2>0, ThrowCounts
    <2> QED BY <2>1, <1>4 DEF UnderCounts
  <1>6. /\ Trimmed(r, F[t], p) /\ r \in Seq(Frame) /\ Frames(r) /\ r # <<>>
        /\ Last(r).fn = "pcall" /\ ~Parked(Last(r))
        /\ \A k \in DOMAIN r : ~Blocking(r[k])
    <2>1. p \in 1..Len(F[t]) /\ F[t][p].ypcall
      BY <1>2, PcallFound
    <2> QED BY <2>1, <1>2, Recovers, ZenonT(40)
  <1> DEFINE G == [F EXCEPT ![t] = r]
  <1>7. G \in FrameMap /\ G[t] = r /\ \A u \in Threads : u # t => G[u] = F[u]
    BY <1>2, <1>6 DEF FrameMap
  <1>8. Good(D, G)
    BY <1>1, <1>6
  <1>g. G = [F EXCEPT ![t] = r]
    OBVIOUS
  <1> HIDE DEF G
  <1>9. Fits(D, G, st, t, 0)
    <2>1. ASSUME NEW u \in Threads
          PROVE  /\ Frames(G[u])
                 /\ st[u] # "err" => \A k \in DOMAIN G[u] :
                       Blocking(G[u][k]) => Held(D, u, k) \/ (u = t /\ k = 0)
                 /\ ThreadFits(InC(D, u) \/ u = t, u = t, G[u], st[u])
      <3>1. ThreadFits(InC(C, u), u = t, F[u], st[u])
        BY <1>2 DEF ThreadsFit, ThreadFits
      <3>2. CASE u = t
        BY <3>1, <3>2, <1>2, <1>6, <1>7 DEF ThreadFits
      <3>3. CASE u # t
        BY <3>1, <3>3, <1>1, <1>7 DEF ThreadFits, Mid
      <3> QED BY <3>2, <3>3
    <2>2. st[Main] = "ok"
      BY <1>2 DEF ThreadsFit
    <2> QED BY <1>2, <2>1, <2>2 DEF Fits
  <1>10. /\ Len(G[Last(D).th]) > Last(D).depth /\ Last(G[Last(D).th]).pc = "wait"
         /\ Last(G[Last(D).th]).fn \in {"resume", "wrap"}
    <2>1. a.job # "close"
      BY DEF Coroutined
    <2> QED BY <2>1, <1>1, <1>7 DEF Caller
  <1>11. G[t] # <<>> => ~Parked(Last(G[t]))
    BY <1>6, <1>7
  <1>12. Sound(Append(D, Raw(t, "unroll", 0, c2[t], m2[t])), G, st, c2, m2)
    <2>1. /\ Good(D, G) /\ D # <<>> /\ t \in Cos /\ ~InC(D, t) /\ Runner(Last(D))
          /\ c2 \in Counters /\ m2 \in Counters /\ "unroll" \in {"resume", "unroll"}
      BY <1>1, <1>4, <1>8
    <2> QED BY ONLY <2>1, <1>5, <1>9, <1>10, <1>11, PushResume
  <1>13. c2[t] = a.cc /\ m2[t] = a.nny
    BY <1>4
  <1> QED BY ONLY <1>12, <1>13, <1>g

\* vmkB_auxwrap closes the coroutine that died.
LEMMA ThrowWrap ==
  ASSUME NEW C, NEW F, NEW st, NEW c, NEW m, NEW t, Mid(C, F, st, c, m, t),
         NEW h, h = Handler(t, C), NEW a, a = C[h], NEW D, D = SubSeq(C, 1, h - 1),
         Coroutined(a.job), NEW from, from = Last(D).th, Last(F[from]).fn = "wrap",
         NEW c2, c2 = [c EXCEPT ![t] = c[from]], NEW m2, m2 = [m EXCEPT ![t] = 0]
  PROVE  Sound(Append(Append(D, Raw(t, "close", 0, c[from], 0)), FClose(t, 0, 1, FALSE)),
               [F EXCEPT ![t] = <<>>], st, c2, m2)
  <1>1. /\ D \in Seq(Activation) /\ Shape(D) /\ Entering(a)
        /\ \A u : u # t => (InC(D, u) <=> InC(C, u))
        /\ \A u, k : u # t /\ Held(C, u, k) => Held(D, u, k)
        /\ D # <<>> /\ ~InC(D, t) /\ from # t /\ from \in Threads
        /\ Runner(Last(D)) /\ t \in Cos
        /\ Caller(Last(D), a, F[from])
        /\ \A q \in Seq(Frame) : Good(D, [F EXCEPT ![t] = q])
    <2>1. Under(C, F, t, a, D)
      BY ThrowUnder
    <2> QED BY <2>1 DEF Under
  <1>2. /\ F \in FrameMap /\ t \in Threads /\ st[t] = "ok"
        /\ RunningIn(C) = t /\ ThreadsFit(C, F, st) /\ st \in Statuses /\ InC(C, t)
        /\ c \in Counters /\ m \in Counters
    BY RunningFacts DEF Mid
  <1>4. /\ c2 \in Counters /\ m2 \in Counters /\ c2[t] = c[from] /\ m2[t] = 0 /\ c2[from] = c[from]
        /\ OthersCount(t, c, m, c2, m2)
    BY <1>1, <1>2 DEF Counters, OthersCount
  <1>5. /\ Exact(D, c2, m2) /\ CCallsUpTo(D, Len(D)) < ErrCCalls
        /\ c2[from] = CCallsUpTo(D, Len(D))
    <2>0. Mid(C, F, st, c, m, t) /\ h = Handler(t, C) /\ a = C[h] /\ D = SubSeq(C, 1, h - 1)
          /\ from = Last(D).th
      OBVIOUS
    <2>1. UnderCounts(t, a, D, c2, m2)
      BY ONLY <1>1, <1>4, <2>0, ThrowCounts
    <2> QED BY <2>1, <2>0, <1>1 DEF UnderCounts
  <1>6. m2[t] = NonYieldableUpTo(t, D, Len(D))
    BY <1>1, <1>4, UncountedOut
  <1>f. <<>> \in Seq(Frame) /\ Len(<<>>) = 0
    OBVIOUS
  <1> DEFINE G == [F EXCEPT ![t] = <<>>]
  <1>7. G \in FrameMap /\ G[t] = <<>> /\ \A u \in Threads : u # t => G[u] = F[u]
    BY <1>2, <1>f DEF FrameMap
  <1>8. Good(D, G)
    BY <1>1, <1>f
  <1>g. G = [F EXCEPT ![t] = <<>>]
    OBVIOUS
  <1> HIDE DEF G
  <1>9. Fits(D, G, st, t, 0)
    <2>1. ASSUME NEW u \in Threads
          PROVE  /\ Frames(G[u])
                 /\ st[u] # "err" => \A k \in DOMAIN G[u] :
                       Blocking(G[u][k]) => Held(D, u, k) \/ (u = t /\ k = 0)
                 /\ ThreadFits(InC(D, u) \/ u = t, u = t, G[u], st[u])
      <3>1. ThreadFits(InC(C, u), u = t, F[u], st[u])
        BY <1>2 DEF ThreadsFit, ThreadFits
      <3>2. CASE u = t
        BY <3>1, <3>2, <1>2, <1>7 DEF ThreadFits, Frames
      <3>3. CASE u # t
        BY <3>1, <3>3, <1>1, <1>7 DEF ThreadFits, Mid
      <3> QED BY <3>2, <3>3
    <2>2. st[Main] = "ok"
      BY <1>2 DEF ThreadsFit
    <2> QED BY <1>2, <2>1, <2>2 DEF Fits
  <1> DEFINE b == Raw(t, "close", 0, c2[t], m2[t])
             e == FClose(t, 0, 1, FALSE)
  <1>10. b.op = "raw" /\ b.th = t /\ b.job = "close" /\ b.depth = 0
    BY DEF Raw
  <1>b. b = Raw(t, "close", 0, c2[t], m2[t]) /\ e = FClose(t, 0, 1, FALSE)
    OBVIOUS
  <1> HIDE DEF b, e
  <1>11. Entering(b) /\ Over(Last(D), b) /\ Framed(b, G[t])
    BY <1>1, <1>7, <1>10 DEF Entering, Over, Enters, Framed, Protected
  <1>12. Caller(Last(D), b, G[Last(D).th])
    <2>1. Last(D).th = from /\ a.job # "close" /\ b.op # "call"
      BY <1>10 DEF Coroutined
    <2>2. Caller(Last(D), b, F[from])
      BY <1>1, <1>10, <2>1 DEF Caller
    <2> QED BY <1>1, <1>7, <2>1, <2>2
  <1>13. Sound(Append(Append(D, b), e), G, st, c2, m2)
    <2>1. /\ Good(D, G) /\ D # <<>> /\ t \in Threads /\ ~InC(D, t) /\ 0 \in Nat /\ 1 \in Nat \ {0}
          /\ c2 \in Counters /\ m2 \in Counters /\ c2[t] = CCallsUpTo(D, Len(D))
          /\ Len(G[t]) = 0
      BY <1>1, <1>2, <1>4, <1>5, <1>7, <1>8
    <2> QED BY ONLY <2>1, <1>5, <1>6, <1>9, <1>b, <1>11, <1>12, PushClose
  <1>14. c2[t] = c[from] /\ m2[t] = 0
    BY <1>4
  <1> QED BY ONLY <1>13, <1>14, <1>b, <1>g

\* vmkD_throw keeps the invariant, from the middle of the action that throws.
LEMMA ThrowSound ==
  ASSUME NEW C, NEW t, NEW s, ci \in FrameMap, Mid(C, [ci EXCEPT ![t] = s], status, cc, nny, t),
         NEW x \in {"err", "yield"}, x = "yield" => Leaves("yield", s), Throw(t, s, C, x)
  PROVE  Sound(cs', ci', status', cc', nny')
  <1> DEFINE F == [ci EXCEPT ![t] = s]
             h == Handler(t, C)
             a == C[h]
             D == SubSeq(C, 1, h - 1)
             from == Last(D).th
  <1>h. h = Handler(t, C) /\ a = C[h] /\ D = SubSeq(C, 1, h - 1) /\ from = Last(D).th
    OBVIOUS
  <1>m. Mid(C, F, status, cc, nny, t)
    OBVIOUS
  <1>1. /\ t \in Threads /\ F[t] = s /\ s \in Seq(Frame) /\ F \in FrameMap
        /\ cc \in Counters /\ nny \in Counters /\ status \in Statuses
        /\ \A u \in Threads : u # t => F[u] = ci[u]
    <2>1. t \in Threads /\ F[t] \in Seq(Frame) /\ F \in FrameMap
      BY <1>m, RunningFacts
    <2> QED BY <2>1, <1>m DEF FrameMap, Mid
  <1>2. /\ a.depth \in 0..Len(s) /\ a \in Activation /\ a.op = "raw"
        /\ Coroutined(a.job) => Entering(a)
        /\ Entering(a) => from # t /\ from \in Threads
    <2>1. Under(C, F, t, a, D)
      BY <1>m, ThrowUnder
    <2> QED BY <2>1, <1>1 DEF Under
  <1>3. a.cc \in Nat /\ a.nny \in Nat
    BY <1>2, ActivationFields
  <1>4. \/ /\ a.job \in {"pcall", "close"}
           /\ ci' = [ci EXCEPT ![t] = SubSeq(s, 1, a.depth)]
           /\ CloseProtected(t, a.depth, IF a.depth = 0 THEN 1 ELSE s[a.depth].base + 1,
                             D, a.cc, a.nny)
           /\ status' = status
        \/ /\ Coroutined(a.job) /\ x = "yield"
           /\ ci' = [ci EXCEPT ![t] = s, ![from] = ReturnC(@)]
           /\ cs' = D
           /\ SetCount(t, a.cc, a.nny)
           /\ status' = [status EXCEPT ![t] = "yield"]
        \/ /\ Coroutined(a.job) /\ x = "err" /\ FindPcall(s) # 0
           /\ ci' = [ci EXCEPT ![t] = [SubSeq(s, 1, FindPcall(s)) EXCEPT ![FindPcall(s)].recst = TRUE]]
           /\ cs' = Append(D, Raw(t, "unroll", 0, a.cc, a.nny))
           /\ SetCount(t, a.cc, a.nny)
           /\ status' = status
        \/ /\ Coroutined(a.job) /\ x = "err"
           /\ ci' = [ci EXCEPT ![t] = s, ![from] = ReturnC(@)]
           /\ cs' = D
           /\ SetCount(t, a.cc, a.nny)
           /\ status' = [status EXCEPT ![t] = "err"]
        \/ /\ Coroutined(a.job) /\ x = "err"
           /\ Last(ci[from]).fn = "wrap"
           /\ CloseThread(t, from, ci[from])
           /\ CloseProtected(t, 0, 1, D, cc[from], 0)
    BY DEF Throw
  <1>e. \A z : [F EXCEPT ![t] = z] = [ci EXCEPT ![t] = z]
    BY <1>1 DEF FrameMap
  <1>c. \A z1 \in Nat, z2 \in Nat : /\ [cc EXCEPT ![t] = z1] \in Counters
                                    /\ [nny EXCEPT ![t] = z2] \in Counters
                                    /\ OthersCount(t, cc, nny, [cc EXCEPT ![t] = z1], [nny EXCEPT ![t] = z2])
    BY <1>1 DEF Counters, OthersCount
  <1>F. F = [ci EXCEPT ![t] = s]
    OBVIOUS
  <1> HIDE DEF F, h, a, D, from
  <1>5. CASE /\ a.job \in {"pcall", "close"}
             /\ ci' = [ci EXCEPT ![t] = SubSeq(s, 1, a.depth)]
             /\ CloseProtected(t, a.depth, IF a.depth = 0 THEN 1 ELSE s[a.depth].base + 1,
                               D, a.cc, a.nny)
             /\ status' = status
    <2> DEFINE lvl == IF a.depth = 0 THEN 1 ELSE s[a.depth].base + 1
    <2>1. lvl \in Nat \ {0}
      <3>1. CASE a.depth = 0
        BY <3>1
      <3>2. CASE a.depth # 0
        <4>1. s[a.depth] \in Frame
          BY <3>2, <1>1, <1>2
        <4> QED BY <3>2, <4>1 DEF Frame
      <3> QED BY <3>1, <3>2
    <2>2. /\ cs' = Append(Append(D, Raw(t, "close", a.depth, a.cc, a.nny)), FClose(t, a.depth, lvl, FALSE))
          /\ cc' = [cc EXCEPT ![t] = a.cc] /\ nny' = [nny EXCEPT ![t] = a.nny]
      BY <1>5 DEF CloseProtected, SetCount
    <2> HIDE DEF lvl
    <2>3. ci' = [F EXCEPT ![t] = SubSeq(F[t], 1, a.depth)]
      BY <1>5, <1>e, <1>1
    <2>4. a.job \in {"pcall", "close"} /\ D = SubSeq(C, 1, Handler(t, C) - 1) /\ a = C[Handler(t, C)]
          /\ status' = status
      BY <1>5, <1>h
    <2> QED BY ONLY <1>m, <2>1, <2>2, <2>3, <2>4, ThrowCloses
  <1>6. CASE /\ Coroutined(a.job)
             /\ ci' = [ci EXCEPT ![t] = s, ![from] = ReturnC(@)]
             /\ cs' = D
             /\ SetCount(t, a.cc, a.nny)
             /\ status' = [status EXCEPT ![t] = x]
    <2>1. Leaves(x, F[t])
      BY <1>1 DEF Leaves
    <2> DEFINE r == ReturnC(F[from])
    <2>2. ci' = [F EXCEPT ![from] = r]
      <3>1. from # t /\ from \in Threads
        BY <1>2, <1>6
      <3>2. [ci EXCEPT ![t] = s, ![from] = ReturnC(@)] = [F EXCEPT ![from] = ReturnC(ci[from])]
        BY <3>1, <1>1, <1>F DEF FrameMap
      <3> QED BY <3>1, <3>2, <1>1, <1>6
    <2>r. r = ReturnC(F[from]) \/ (Last(F[from]).fn = "wrap" /\ r = [F[from] EXCEPT ![Len(F[from])].pc = "raise"])
      OBVIOUS
    <2> HIDE DEF r
    <2>3. cc' = [cc EXCEPT ![t] = a.cc] /\ nny' = [nny EXCEPT ![t] = a.nny]
      BY <1>6 DEF SetCount
    <2>4. cc' \in Counters /\ nny' \in Counters /\ OthersCount(t, cc, nny, cc', nny')
      BY <1>3, <1>c, <2>3
    <2>5. Entering(a) /\ x \in {"ok", "yield", "err"} /\ status' = [status EXCEPT ![t] = x] /\ cs' = D
      BY <1>2, <1>6
    <2>6. Left(D, F, status', cc', nny', t, from, a)
      BY ONLY <1>m, <1>h, <2>1, <2>4, <2>5, LeaveMid
    <2>7. Sound(D, [F EXCEPT ![from] = r], status', cc', nny')
      BY ONLY <2>6, <2>r, LeftEnds
    <2> QED BY ONLY <2>2, <2>5, <2>7
  <1>7. CASE /\ Coroutined(a.job) /\ FindPcall(s) # 0
             /\ ci' = [ci EXCEPT ![t] = [SubSeq(s, 1, FindPcall(s)) EXCEPT ![FindPcall(s)].recst = TRUE]]
             /\ cs' = Append(D, Raw(t, "unroll", 0, a.cc, a.nny))
             /\ SetCount(t, a.cc, a.nny)
             /\ status' = status
    <2>1. ci' = [F EXCEPT ![t] = [SubSeq(F[t], 1, FindPcall(F[t])) EXCEPT ![FindPcall(F[t])].recst = TRUE]]
      BY <1>7, <1>e, <1>1
    <2>2. cc' = [cc EXCEPT ![t] = a.cc] /\ nny' = [nny EXCEPT ![t] = a.nny]
          /\ Coroutined(a.job) /\ FindPcall(F[t]) # 0
          /\ cs' = Append(D, Raw(t, "unroll", 0, a.cc, a.nny)) /\ status' = status
      BY <1>7, <1>1 DEF SetCount
    <2> QED BY ONLY <1>m, <1>h, <2>1, <2>2, ThrowRecovers
  <1>8. CASE /\ Coroutined(a.job)
             /\ Last(ci[from]).fn = "wrap"
             /\ CloseThread(t, from, ci[from])
             /\ CloseProtected(t, 0, 1, D, cc[from], 0)
    <2>0. from # t /\ from \in Threads
      BY <1>2, <1>8
    <2>1. ci' = [F EXCEPT ![t] = <<>>]
      <3>1. [ci EXCEPT ![from] = ci[from]] = ci
        BY <2>0 DEF FrameMap
      <3> QED BY <3>1, <1>8, <1>e DEF CloseThread
    <2>2. Last(F[from]).fn = "wrap" /\ Coroutined(a.job)
      BY <1>1, <1>8, <2>0
    <2>3. /\ cs' = Append(Append(D, Raw(t, "close", 0, cc[from], 0)), FClose(t, 0, 1, FALSE))
          /\ cc' = [cc EXCEPT ![t] = cc[from]] /\ nny' = [nny EXCEPT ![t] = 0]
      BY <1>8 DEF CloseProtected, SetCount
    <2>4. status' = status
      <3>1. status[t] = "ok"
        BY <1>m, RunningFacts
      <3> QED BY <3>1, <1>8, <1>1 DEF CloseThread, Statuses
    <2> QED BY ONLY <1>m, <1>h, <2>1, <2>2, <2>3, <2>4, ThrowWrap
  <1> QED BY <1>4, <1>5, <1>6, <1>7, <1>8

\* The activation that a thread is resumed with works for its base frame.
LEMMA ResumedAtBase ==
  ASSUME NEW C \in Seq(Activation), Shape(C), NEW i \in 1..Len(C),
         C[i].op = "raw", Coroutined(C[i].job)
  PROVE  i > 1 /\ Entering(C[i]) /\ Enters(C[i-1], C[i]) /\ C[i].depth = 0
  <1>1. Entering(C[i])
    BY DEF Entering
  <1>2. i # 1
    BY ShapeParts DEF Bottom, Protected, Coroutined
  <1>3. Over(C[i-1], C[i])
    BY <1>2, ShapeParts
  <1>4. Enters(C[i-1], C[i])
    BY <1>3 DEF Over, Calls, Closes, Protected, Coroutined
  <1> QED BY <1>1, <1>2, <1>4 DEF Enters

\* The first activation is a setjmp.
LEMMA NotFirst ==
  ASSUME NEW C \in Seq(Activation), Shape(C), NEW i \in 1..Len(C), C[i].op # "raw"
  PROVE  i > 1 /\ i - 1 \in 1..Len(C) /\ Over(C[i-1], C[i])
  <1>1. i # 1
    BY ShapeParts DEF Bottom, Protected
  <1>2. i > 1
    BY <1>1
  <1> QED BY <1>2, ShapeParts

\* What runs: Vmk functions over C code that called them, or over a resume.
LEMMA RunnerTop ==
  ASSUME NEW C, NEW F, NEW st, NEW c, NEW m, Sound(C, F, st, c, m), C # <<>>,
         Last(C).op # "close"
  PROVE  /\ Runner(Last(C)) /\ ~Protected(Last(C))
         /\ Last(C).op = "raw" => Coroutined(Last(C).job) /\ Last(C).depth = 0
  <1>1. C \in Seq(Activation) /\ Shape(C) /\ ~Protected(Last(C))
    BY DEF Sound, Good, Topped
  <1>2. Last(C) = C[Len(C)] /\ Len(C) \in 1..Len(C) /\ Last(C) \in Activation
    BY <1>1, Shortened
  <1>3. Runner(Last(C))
    BY <1>1, <1>2, ActivationFields DEF Protected, Runner, Coroutined
  <1>4. Last(C).op = "raw" => Coroutined(Last(C).job) /\ Last(C).depth = 0
    BY <1>1, <1>2, <1>3, ResumedAtBase DEF Runner
  <1> QED BY <1>1, <1>3, <1>4

\* The vmkF_close of a function of the running thread is done.
LEMMA PopYY ==
  ASSUME NEW C, NEW F, NEW st, NEW c, NEW m, Sound(C, F, st, c, m), C # <<>>,
         Last(C).op = "close", Last(C).yy, NEW t, t = Last(C).th
  PROVE  /\ Sound(Front(C), F, st, c, m) /\ Front(C) # <<>> /\ Last(Front(C)).th = t
         /\ Runner(Last(Front(C)))
  <1> DEFINE n == Len(C) - 1
             s == F[t]
             D == SubSeq(C, 1, n)
  <1>1. Mid(C, F, st, c, m, t)
    BY SoundMid
  <1>2. /\ C \in Seq(Activation) /\ Shape(C) /\ Len(C) \in Nat /\ Len(C) \in 1..Len(C)
        /\ Last(C) = C[Len(C)] /\ s \in Seq(Frame) /\ st[t] = "ok" /\ t \in Threads
        /\ c[t] = CCallsUpTo(C, Len(C)) /\ m[t] = NonYieldableUpTo(t, C, Len(C))
        /\ F \in FrameMap /\ Frames(s) /\ Len(s) \in Nat
    BY <1>1, RunningFacts
  <1>3. Len(C) > 1 /\ n \in 1..Len(C) /\ Over(C[n], C[Len(C)])
    <2>1. Len(C) \in 1..Len(C) /\ C[Len(C)].op # "raw"
      BY <1>2
    <2> QED BY ONLY <2>1, <1>2, NotFirst DEF n
  <1>4. Runner(C[n]) /\ C[n].th = t /\ C[n].op # "close"
    BY <1>2, <1>3 DEF Over, Enters, Calls, Closes, Entering, Runner
  <1>5. C[n].depth <= Len(s)
    BY <1>3, <1>4 DEF Sound, Good, Linked, Framed
  <1>n. n \in Nat /\ n + 1 = Len(C) /\ n \in 0..Len(C) /\ n > 0
    BY <1>2, <1>3
  <1>6. CCallsUpTo(C, n) = c[t] /\ NonYieldableUpTo(t, C, n) = m[t]
    <2>1. ~Counted(C[n+1]) /\ ~NonYieldable(t, C[n+1])
      BY <1>2, <1>n DEF Counted, NonYieldable
    <2>2. CCallsUpTo(C, n) \in Nat /\ NonYieldableUpTo(t, C, n) \in Nat
      BY <1>n, CountCard
    <2> QED BY <2>1, <2>2, <1>2, <1>n, CountNext
  <1>7. Trimmed(s, s, Len(s)) /\ SubSeq(C, 1, n) = D
    BY <1>2, SameKindItself DEF Trimmed
  <1>8. Cuts(C, F, t, n, s)
    <2>1. \A j \in (n+1)..Len(C) : C[j].op = "close"
      BY <1>2, <1>n
    <2> QED BY <2>1, <1>4, <1>5, <1>7 DEF Cuts
  <1>9. ASSUME NEW k \in DOMAIN s, Blocking(s[k]) PROVE Held(D, t, k)
    <2>1. Held(C, t, k)
      BY <1>2, <1>9 DEF Sound, BlockingHeld
    <2>2. \A j \in (n+1)..Len(C) : C[j].op = "close"
      BY <1>2, <1>n
    <2> QED BY <2>1, <2>2, <1>2, <1>n, HeldPrefix
  <1>10. s # <<>> => PcOf(Last(s)) /\ ~Parked(Last(s))
    <2>1. s # <<>> => Last(s) = s[Len(s)] /\ Len(s) \in DOMAIN s
      BY ONLY <1>2, Shortened
    <2>2. s # <<>> => PcOf(Last(s))
      BY ONLY <2>1, <1>2 DEF Frames
    <2> QED BY <2>2 DEF Sound, TopFrame
  <1>11. ~Protected(C[n]) /\ c \in Counters /\ m \in Counters
    BY <1>4 DEF Sound, Runner, Protected, Coroutined
  <1>12. [F EXCEPT ![t] = s] = F
    BY <1>2 DEF FrameMap
  <1>h. s = F[t] /\ D = SubSeq(C, 1, n)
    OBVIOUS
  <1>13. Front(C) = D
    BY <1>2, Shortened
  <1> HIDE DEF s, D, n
  <1>14. Sound(D, [F EXCEPT ![t] = s], st, c, m)
    <2>1. Sound(C, F, st, c, m) /\ C # <<>> /\ t = Last(C).th /\ D = SubSeq(C, 1, n)
          /\ (n > 0 /\ C[n].op = "close" => Len(s) = C[n].depth)
          /\ (\A k \in DOMAIN s : Blocking(s[k]) => Held(SubSeq(C, 1, n), t, k))
          /\ (\A u \in Threads : u # t => c[u] = c[u] /\ m[u] = m[u])
          /\ (n > 0 => c[t] = CCallsUpTo(C, n) /\ m[t] = NonYieldableUpTo(t, C, n))
          /\ (n = 0 => c[Main] = 0 /\ m[Main] = 1)
          /\ (IF n > 0 THEN C[n].th = t /\ ~Protected(C[n]) ELSE t = Main /\ s = <<>>)
      BY <1>4, <1>6, <1>9, <1>11, <1>n, <1>h
    <2> QED BY ONLY <2>1, <1>2, <1>8, <1>10, <1>11, <1>n, SoundCut
  <1>15. D # <<>> /\ Last(D) = C[n]
    BY <1>2, <1>n, <1>h, Prefix
  <1> QED BY <1>4, <1>12, <1>13, <1>14, <1>15

\* The Vmk function that returns to C code is the one it called.
LEMMA CallTop ==
  ASSUME NEW C, NEW F, NEW st, NEW c, NEW m, Sound(C, F, st, c, m), C # <<>>,
         NEW t, t = Last(C).th, Last(C).op = "call", F[t] # <<>>, Last(F[t]).fresh
  PROVE  /\ Len(C) > 1 /\ Len(C) \in Nat /\ Last(C) = C[Len(C)] /\ Last(C).depth = Len(F[t])
         /\ Calls(C[Len(C) - 1], Last(C)) /\ C[Len(C) - 1].th = t
         /\ Framed(C[Len(C) - 1], F[t]) /\ Caller(C[Len(C) - 1], Last(C), F[t])
         /\ CCallsUpTo(C, Len(C) - 1) = c[t] - 1
         /\ NonYieldableUpTo(t, C, Len(C) - 1) = m[t] - Last(C).inc
         /\ C[Len(C) - 1] \in Activation /\ C[Len(C) - 1].depth \in Nat
  <1> DEFINE n == Len(C) - 1
  <1>1. Mid(C, F, st, c, m, t)
    BY SoundMid
  <1>2. /\ C \in Seq(Activation) /\ Shape(C) /\ Len(C) \in Nat /\ Len(C) \in 1..Len(C)
        /\ Last(C) = C[Len(C)] /\ F[t] \in Seq(Frame) /\ t \in Threads /\ DOMAIN C = 1..Len(C)
        /\ c[t] = CCallsUpTo(C, Len(C)) /\ m[t] = NonYieldableUpTo(t, C, Len(C))
        /\ Len(F[t]) \in Nat /\ Last(C).depth \in 0..Len(F[t]) /\ Last(C) \in Activation
    BY <1>1, RunningFacts
  <1>3. Len(C) > 1 /\ n \in 1..Len(C) /\ Over(C[n], C[Len(C)]) /\ C[n] \in Activation /\ C[n].depth \in Nat
    <2>1. Len(C) # 1
      BY <1>2, ShapeParts DEF Bottom, Protected
    <2> QED BY <2>1, <1>2, ShapeParts
  <1>4. Calls(C[n], Last(C)) /\ C[n].th = t
    BY <1>2, <1>3 DEF Over, Enters, Calls, Closes, Entering, Protected
  <1>5. Framed(C[n], F[t]) /\ Caller(C[n], Last(C), F[t])
    BY <1>2, <1>3, <1>4 DEF Sound, Good, Linked
  <1>6. Last(C).depth = Len(F[t])
    <2> SUFFICES ASSUME Last(C).depth # Len(F[t]) PROVE FALSE
      OBVIOUS
    <2>1. Len(F[t]) \in DOMAIN F[t] /\ Len(F[t]) > Last(C).depth /\ F[t][Len(F[t])].fresh
      <3>1. Last(F[t]) = F[t][Len(F[t])] /\ Len(F[t]) \in DOMAIN F[t]
        BY <1>2, Shortened
      <3>2. Len(F[t]) > Last(C).depth
        BY <1>2
      <3> QED BY <3>1, <3>2
    <2>2. PICK j \in DOMAIN C : C[j].op = "call" /\ C[j].th = t /\ C[j].depth = Len(F[t])
      BY <2>1, <1>2 DEF Sound, Good, FreshCalled
    <2>3. j # Len(C)
      BY <2>2, <1>2
    <2>4. j \in 1..Len(C) /\ j < Len(C) /\ C[j].th = C[Len(C)].th
      BY <2>2, <2>3, <1>2
    <2>5. C[j].depth <= C[Len(C)].depth
      BY <2>4, <1>2, ShapeParts
    <2> QED BY <2>1, <2>2, <2>5, <1>2
  <1>7. n \in Nat /\ n + 1 = Len(C)
    BY <1>2, <1>3
  <1>8. CCallsUpTo(C, n) = c[t] - 1 /\ NonYieldableUpTo(t, C, n) = m[t] - Last(C).inc
    <2>1. CCallsUpTo(C, n) \in Nat /\ NonYieldableUpTo(t, C, n) \in Nat
      BY <1>7, CountCard
    <2>2. /\ CCallsUpTo(C, n + 1) = CCallsUpTo(C, n) + (IF Counted(C[n+1]) THEN 1 ELSE 0)
          /\ NonYieldableUpTo(t, C, n + 1) =
                NonYieldableUpTo(t, C, n) + (IF NonYieldable(t, C[n+1]) THEN 1 ELSE 0)
      BY <1>7, CountNext
    <2>3. Last(C).inc \in {0, 1} /\ Last(C) = C[n+1] /\ Last(C).th = t
      BY <1>2, <1>7, ActivationFields
    <2>4. Counted(C[n+1]) /\ (NonYieldable(t, C[n+1]) <=> Last(C).inc = 1)
      BY <2>3 DEF Counted, NonYieldable
    <2> HIDE DEF n
    <2> QED BY <2>1, <2>2, <2>3, <2>4, <1>2, <1>7
  <1> QED BY <1>2, <1>3, <1>4, <1>5, <1>6, <1>8

\* What is under the last frame of a thread.
LEMMA UnderLast ==
  ASSUME NEW s \in Seq(Frame), Frames(s), NEW k \in 1..Len(s), k < Len(s)
  PROVE  /\ PcOf(s[k]) /\ ~Parked(s[k])
         /\ s[k+1].fn # "vmk" \/ ~s[k+1].fresh => s[k].fn = "vmk" /\ ~s[k].ypcall /\ ~Blocking(s[k])
  <1>1. k # Len(s) /\ k + 1 \in DOMAIN s /\ (k + 1) - 1 = k /\ k + 1 > 1 /\ k \in DOMAIN s
    OBVIOUS
  <1>2. PcOf(s[k]) /\ s[k].fn \notin {"resume", "wrap", "close", "yield"}
    BY <1>1 DEF Frames
  <1>3. s[k+1].fn # "vmk" \/ ~s[k+1].fresh => s[k].fn = "vmk"
    BY ONLY <1>1, Frames(s) DEF Frames
  <1>4. s[k].fn = "vmk" => ~s[k].ypcall
    BY <1>1 DEF Frames
  <1> QED BY <1>2, <1>3, <1>4 DEF Parked, Blocking

\* vmkD_poscall in the loop, or C code of the last frame returns: the function
\* under the last frame goes on in the same activation.
LEMMA ReturnsStay ==
  ASSUME NEW C, NEW F, NEW st, NEW c, NEW m, Sound(C, F, st, c, m), C # <<>>,
         NEW t, t = Last(C).th, Last(C).op # "close",
         F[t] # <<>>, Last(F[t]).fn # "vmk" \/ ~Last(F[t]).fresh
  PROVE  Sound(C, [F EXCEPT ![t] = ReturnC(F[t])], st, c, m)
  <1> DEFINE s == F[t]
             r == ReturnC(s)
  <1>1. Mid(C, F, st, c, m, t)
    BY SoundMid
  <1>2. /\ C \in Seq(Activation) /\ s \in Seq(Frame) /\ Frames(s) /\ Framed(Last(C), s)
        /\ Last(C).depth \in 0..Len(s) /\ Len(s) \in Nat /\ Last(C) \in Activation
    BY <1>1, RunningFacts
  <1>3. Len(s) \in DOMAIN s /\ Last(s) = s[Len(s)] /\ Len(s) > 0 /\ DOMAIN s = 1..Len(s)
    <2>1. s # <<>>
      OBVIOUS
    <2>2. s \in Seq(Frame)
      BY <1>2
    <2>3. Len(s) \in DOMAIN s /\ Last(s) = s[Len(s)] /\ Len(s) \in Nat \ {0} /\ DOMAIN s = 1..Len(s)
      BY ONLY <2>1, <2>2, Shortened
    <2> QED BY <2>3
  <1>4. Last(C).depth < Len(s)
    <2>1. CASE Last(C).op = "call"
      <3>1. s[Last(C).depth].fresh /\ s[Last(C).depth].fn = "vmk"
        BY <1>2, <2>1 DEF Framed
      <3> QED BY <3>1, <1>2, <1>3
    <2>2. CASE Last(C).op # "call"
      <3>1. Last(C).depth = 0
        BY <2>2, RunnerTop DEF Runner
      <3> QED BY <3>1, <1>3
    <2> QED BY <2>1, <2>2
  <1>s. s = F[t] /\ r = ReturnC(s) /\ s # <<>>
    OBVIOUS
  <1>5. /\ Trimmed(r, s, Len(s) - 1)
        /\ Len(s) > 1 => Last(r).pc = "run" /\ r[Len(s) - 1] = Last(r)
    BY <1>2, <1>s, ReturnCTrims
  <1> HIDE DEF s, r
  <1>6. r \in Seq(Frame) /\ Len(r) = Len(s) - 1 /\ (r # <<>> <=> Len(s) > 1)
    BY <1>2, <1>3, <1>5 DEF Trimmed
  <1>7. ASSUME Len(s) > 1
        PROVE  Last(r).fn = "vmk" /\ ~Last(r).ypcall /\ Last(r).pc = "run"
    <2>1. Len(s) - 1 \in 1..Len(s) /\ Len(s) - 1 < Len(s) /\ (Len(s) - 1) + 1 = Len(s)
      BY <1>2, <1>7
    <2>2. s[Len(s) - 1].fn = "vmk" /\ ~s[Len(s) - 1].ypcall
      BY <2>1, <1>2, <1>3, <1>s, UnderLast
    <2> QED BY <2>2, <1>5, <1>7, <1>2 DEF Trimmed, SameKind
  <1>8. r # <<>> => PcOf(Last(r)) /\ ~Parked(Last(r)) /\ ~Blocking(Last(r))
    BY <1>6, <1>7 DEF PcOf, Parked, Blocking
  <1>9. Last(C).depth <= Len(r) /\ Trimmed(r, s, Len(r))
    BY <1>2, <1>4, <1>5, <1>6
  <1>10. Sound(C, [F EXCEPT ![t] = r], st, c, m)
    BY <1>s, <1>6, <1>8, <1>9, SoundStay
  <1> QED BY <1>10, <1>s

\* A Vmk function called by unroll returns to it.
LEMMA FinishUnroll ==
  ASSUME NEW C, NEW F, NEW st, NEW c, NEW m, Sound(C, F, st, c, m), C # <<>>,
         NEW t, t = Last(C).th, Last(C).op = "raw", F[t] # <<>>
  PROVE  Sound(C, [F EXCEPT ![t] = Front(F[t])], st, c, m)
  <1> DEFINE s == F[t]
             r == Front(s)
  <1>1. Mid(C, F, st, c, m, t)
    BY SoundMid
  <1>2. /\ s \in Seq(Frame) /\ Frames(s) /\ Len(s) \in Nat /\ st[t] = "ok" /\ t \in Threads
    BY <1>1, RunningFacts
  <1>3. /\ Len(s) \in Nat \ {0} /\ r = SubSeq(s, 1, Len(s) - 1) /\ Len(s) - 1 \in 0..Len(s)
        /\ r \in Seq(Frame) /\ Len(r) = Len(s) - 1 /\ \A i \in 1..(Len(s) - 1) : r[i] = s[i]
    BY <1>2, Shortened
  <1>4. Trimmed(r, s, Len(r))
    BY ONLY <1>2, <1>3, TrimmedPrefix
  <1>5. Last(C).depth = 0
    BY RunnerTop
  <1>s. s = F[t]
    OBVIOUS
  <1> HIDE DEF s, r
  <1>6. ASSUME r # <<>>
        PROVE  /\ Last(r) = s[Len(r)] /\ Len(r) \in 1..Len(s) /\ Len(r) < Len(s)
    <2>1. Len(r) \in 1..(Len(s) - 1)
      BY <1>3, <1>6
    <2>2. Last(r) = r[Len(r)]
      BY DEF Last
    <2> QED BY <2>1, <2>2, <1>3
  <1>7. r # <<>> => PcOf(Last(r)) /\ ~Parked(Last(r))
    BY <1>2, <1>6, UnderLast
  <1>8. r # <<>> /\ Blocking(Last(r)) => Held(C, t, Len(r))
    BY <1>2, <1>6, <1>s DEF Sound, BlockingHeld
  <1>9. Last(C).depth <= Len(r) /\ Last(C).op # "close"
    BY <1>3, <1>5
  <1>10. Sound(C, [F EXCEPT ![t] = r], st, c, m)
    BY <1>3, <1>s, <1>4, <1>7, <1>8, <1>9, SoundStay
  <1> QED BY <1>10 DEF r, s

\* ccall is done: the C code under it goes on with frames r.
LEMMA PopCall ==
  ASSUME NEW C, NEW F, NEW st, NEW c, NEW m, Sound(C, F, st, c, m), C # <<>>,
         NEW t, t = Last(C).th, Last(C).op = "call", F[t] # <<>>, Last(F[t]).fresh,
         NEW b, b = C[Len(C) - 1], ~Protected(b),
         NEW r \in Seq(Frame), Trimmed(r, F[t], Len(r)), Len(r) < Len(F[t]), b.depth <= Len(r),
         b.op = "close" => b.depth = Len(r) /\ (b.depth > 0 => r[b.depth] = F[t][b.depth]),
         r # <<>> => PcOf(Last(r)) /\ ~Parked(Last(r)),
         r # <<>> /\ Blocking(Last(r)) => Held(SubSeq(C, 1, Len(C) - 1), t, Len(r)),
         NEW c2, c2 = [c EXCEPT ![t] = c[t] - 1],
         NEW m2, m2 = [m EXCEPT ![t] = m[t] - Last(C).inc]
  PROVE  Sound(SubSeq(C, 1, Len(C) - 1), [F EXCEPT ![t] = r], st, c2, m2)
  <1> DEFINE n == Len(C) - 1
             s == F[t]
  <1>1. Mid(C, F, st, c, m, t)
    BY SoundMid
  <1>2. /\ C \in Seq(Activation) /\ Len(C) \in Nat /\ s \in Seq(Frame) /\ Len(s) \in Nat
        /\ st[t] = "ok" /\ t \in Threads
    BY <1>1, RunningFacts
  <1>3. /\ Len(C) > 1 /\ Last(C) = C[Len(C)] /\ Last(C).depth = Len(s) /\ b.th = t
        /\ CCallsUpTo(C, n) = c[t] - 1 /\ NonYieldableUpTo(t, C, n) = m[t] - Last(C).inc
    BY CallTop
  <1>4. n \in Nat /\ n + 1 = Len(C) /\ n > 0 /\ n \in 0..Len(C) /\ C[n] = b
    BY <1>2, <1>3
  <1>5. CCallsUpTo(C, n) \in Nat /\ NonYieldableUpTo(t, C, n) \in Nat
    BY <1>4, CountCard
  <1>6. c \in Counters /\ m \in Counters
    BY DEF Sound
  <1>7. /\ c2 \in Counters /\ m2 \in Counters /\ c2[t] = CCallsUpTo(C, n) /\ m2[t] = NonYieldableUpTo(t, C, n)
        /\ \A u \in Threads : u # t => c2[u] = c[u] /\ m2[u] = m[u]
    BY <1>2, <1>3, <1>5, <1>6 DEF Counters
  <1>8. \A j \in (n+1)..Len(C) : j = Len(C)
    BY <1>2, <1>4
  <1>9. Cuts(C, F, t, n, r)
    <2>1. \A j \in (n+1)..Len(C) : C[j].op = "call" => C[j].depth > Len(r)
      <3>1. Len(r) \in Nat
        OBVIOUS
      <3> QED BY <3>1, <1>2, <1>3, <1>8
    <2> QED BY <2>1, <1>3, <1>4 DEF Cuts
  <1>10. ASSUME NEW k \in DOMAIN r, Blocking(r[k]) PROVE Held(SubSeq(C, 1, n), t, k)
    <2>0. k \in Nat /\ k <= Len(r) /\ Len(r) \in Nat /\ k \in 1..Len(r) /\ Last(r) = r[Len(r)]
      BY <1>10 DEF Last
    <2>1. CASE k = Len(r)
      <3>1. r # <<>>
        BY <2>0, <2>1
      <3> QED BY <2>0, <2>1, <3>1, <1>10
    <2>2. CASE k < Len(r)
      <3>1. r[k] = s[k] /\ k \in DOMAIN s /\ k + 1 < Len(s)
        <4>1. Len(r) < Len(s) /\ k \in 1..(Len(r) - 1)
          BY <2>0, <2>2
        <4>2. r[k] = s[k]
          BY <4>1 DEF Trimmed
        <4>3. k \in DOMAIN s /\ k + 1 < Len(s)
          BY ONLY <2>0, <2>2, <4>1, <1>2
        <4> QED BY <4>2, <4>3
      <3>2. Held(C, t, k)
        BY <3>1, <1>2, <1>10 DEF Sound, BlockingHeld
      <3>3. \A j \in (n+1)..Len(C) : /\ ~(C[j].op = "call" /\ C[j].inc = 1 /\ C[j].depth = k + 1)
                                     /\ ~(C[j].op = "raw" /\ C[j].job = "close" /\ C[j].depth = k)
        <4>1. Last(C).op = "call" /\ Last(C).depth # k + 1
          BY <3>1, <1>2, <1>3, <2>0
        <4> QED BY <4>1, <1>3, <1>8
      <3> QED BY <3>2, <3>3, <1>2, <1>4, HeldPrefix
    <2> QED BY <2>0, <2>1, <2>2
  <1> HIDE DEF n
  <1>11. Sound(SubSeq(C, 1, n), [F EXCEPT ![t] = r], st, c2, m2)
    <2>1. /\ Sound(C, F, st, c, m) /\ C # <<>> /\ t = Last(C).th /\ r \in Seq(Frame)
          /\ (IF n > 0 THEN C[n].th = t /\ ~Protected(C[n]) ELSE t = Main /\ r = <<>>)
          /\ (n > 0 /\ C[n].op = "close" => Len(r) = C[n].depth)
          /\ (r # <<>> => PcOf(Last(r)) /\ ~Parked(Last(r)))
          /\ (\A k \in DOMAIN r : Blocking(r[k]) => Held(SubSeq(C, 1, n), t, k))
          /\ (n > 0 => c2[t] = CCallsUpTo(C, n) /\ m2[t] = NonYieldableUpTo(t, C, n))
          /\ (n = 0 => c2[Main] = 0 /\ m2[Main] = 1)
      BY <1>3, <1>4, <1>7, <1>10
    <2> QED BY ONLY <2>1, <1>4, <1>7, <1>9, SoundCut
  <1> QED BY <1>11 DEF n

\* The frames of a thread without the last one.
LEMMA FrontFrames ==
  ASSUME NEW s \in Seq(Frame), Frames(s), Len(s) > 1, NEW r, r = Front(s)
  PROVE  /\ Len(s) \in Nat /\ r \in Seq(Frame) /\ Len(r) = Len(s) - 1 /\ r # <<>> /\ Len(r) \in Nat \ {0}
         /\ Trimmed(r, s, Len(r)) /\ \A k \in 1..Len(r) : r[k] = s[k]
         /\ Last(r) = r[Len(r)] /\ Last(r) = s[Len(s) - 1]
         /\ PcOf(Last(r)) /\ ~Parked(Last(r)) /\ Frames(r)
  <1>1. s # <<>>
    OBVIOUS
  <1>2. /\ Len(s) \in Nat \ {0} /\ Front(s) = SubSeq(s, 1, Len(s) - 1) /\ Len(s) - 1 \in 0..Len(s)
        /\ Front(s) \in Seq(Frame) /\ Len(Front(s)) = Len(s) - 1
        /\ \A i \in 1..(Len(s) - 1) : Front(s)[i] = s[i]
    BY ONLY <1>1, s \in Seq(Frame), Shortened
  <1>3. Trimmed(Front(s), s, Len(s) - 1)
    BY <1>2, TrimmedPrefix
  <1>4. /\ r \in Seq(Frame) /\ Len(r) = Len(s) - 1 /\ Len(r) \in Nat \ {0} /\ r # <<>>
        /\ Trimmed(r, s, Len(r)) /\ \A k \in 1..Len(r) : r[k] = s[k]
    <2>1. r = Front(s)
      OBVIOUS
    <2>2. Len(s) - 1 \in Nat \ {0}
      BY <1>2
    <2>3. r \in Seq(Frame) /\ Len(r) = Len(s) - 1 /\ Trimmed(r, s, Len(s) - 1)
          /\ \A i \in 1..(Len(s) - 1) : r[i] = s[i]
      BY ONLY <1>2, <1>3, <2>1
    <2>4. r # <<>> /\ Len(r) \in Nat \ {0}
      BY ONLY <2>2, <2>3
    <2> QED BY ONLY <2>3, <2>4
  <1>5. Last(r) = r[Len(r)] /\ Len(r) \in 1..Len(s) /\ Len(r) < Len(s) /\ Len(r) \in 1..Len(r)
    BY ONLY <1>2, <1>4 DEF Last
  <1>6. Last(r) = s[Len(s) - 1] /\ Last(r) = s[Len(r)]
    BY ONLY <1>4, <1>5
  <1>7. PcOf(Last(r)) /\ ~Parked(Last(r))
    BY <1>5, <1>6, UnderLast
  <1>8. Frames(r)
    BY <1>4, <1>5, <1>7, FramesTrimmed
  <1> QED BY <1>2, <1>4, <1>5, <1>6, <1>7, <1>8

\* A close method returns to vmkF_close.
LEMMA FinishClose ==
  ASSUME NEW C, NEW F, NEW st, NEW c, NEW m, Sound(C, F, st, c, m), C # <<>>,
         NEW t, t = Last(C).th, Last(C).op = "call", F[t] # <<>>, Last(F[t]).fresh,
         NEW b, b = C[Len(C) - 1], b.op = "close",
         NEW c2, c2 = [c EXCEPT ![t] = c[t] - 1],
         NEW m2, m2 = [m EXCEPT ![t] = m[t] - Last(C).inc]
  PROVE  Sound(SubSeq(C, 1, Len(C) - 1), [F EXCEPT ![t] = Front(F[t])], st, c2, m2)
  <1> DEFINE n == Len(C) - 1
             s == F[t]
             r == Front(s)
  <1>1. Mid(C, F, st, c, m, t)
    BY SoundMid
  <1>2. /\ C \in Seq(Activation) /\ Len(C) \in Nat /\ s \in Seq(Frame) /\ Frames(s) /\ Len(s) \in Nat
        /\ st[t] = "ok" /\ t \in Threads /\ Shape(C)
    BY <1>1, RunningFacts
  <1>3. /\ Len(C) > 1 /\ Last(C) = C[Len(C)] /\ Last(C).depth = Len(s) /\ b.th = t
        /\ Calls(b, Last(C)) /\ b \in Activation /\ b.depth \in Nat
    BY CallTop
  <1>4. Len(s) = b.depth + 1 /\ Last(C).inc = (IF b.yy THEN 0 ELSE 1)
    BY <1>3 DEF Calls, Runner
  <1>n. n \in Nat /\ n + 1 = Len(C) /\ n > 0 /\ n \in 1..Len(C) /\ C[n] = b
    BY <1>2, <1>3
  <1>s. s = F[t] /\ r = Front(s) /\ s # <<>>
    OBVIOUS
  <1> HIDE DEF s, r
  <1>5. /\ r \in Seq(Frame) /\ Len(r) = b.depth /\ Trimmed(r, s, Len(r)) /\ Len(r) < Len(s)
        /\ r # <<>> => r[b.depth] = s[b.depth] /\ PcOf(Last(r)) /\ ~Parked(Last(r))
                       /\ Last(r) = s[b.depth] /\ b.depth \in DOMAIN s
    <2>1. CASE b.depth = 0
      <3>1. Front(s) = SubSeq(s, 1, 0) /\ 0 \in 0..Len(s)
        BY <1>4, <2>1, <1>2, <1>s, Shortened, SMTT(30)
      <3>2. r = SubSeq(s, 1, 0)
        BY <3>1, <1>s
      <3>3. Trimmed(r, s, 0)
        BY <3>1, <3>2, <1>2, TrimmedPrefix
      <3>4. r \in Seq(Frame) /\ Len(r) = 0
        BY <3>3 DEF Trimmed
      <3>5. r = <<>>
        BY <3>4
      <3> QED BY <2>1, <3>3, <3>4, <3>5, <1>4
    <2>2. CASE b.depth # 0
      <3>1. Len(s) > 1 /\ b.depth \in DOMAIN s
        BY <2>2, <1>2, <1>3, <1>4
      <3>2. /\ r \in Seq(Frame) /\ Len(r) = Len(s) - 1 /\ Len(r) \in Nat \ {0}
            /\ Trimmed(r, s, Len(r)) /\ \A k \in 1..Len(r) : r[k] = s[k]
            /\ Last(r) = s[Len(s) - 1] /\ PcOf(Last(r)) /\ ~Parked(Last(r))
        BY ONLY <3>1, <1>2, <1>s, FrontFrames
      <3> QED BY <3>1, <3>2, <1>2, <1>3, <1>4
    <2> QED BY <2>1, <2>2
  <1>6. ASSUME r # <<>>, Blocking(Last(r)) PROVE Held(SubSeq(C, 1, n), t, Len(r))
    <2>1. b.depth \in DOMAIN s /\ Blocking(s[b.depth])
      BY <1>5, <1>6
    <2>2. Held(C, t, b.depth)
      BY <2>1, <1>2, <1>s DEF Sound, BlockingHeld
    <2>3. PICK j \in DOMAIN C : /\ C[j].th = t
                                /\ \/ C[j].op = "call" /\ C[j].inc = 1 /\ C[j].depth = b.depth + 1
                                   \/ C[j].op = "raw" /\ C[j].job = "close" /\ C[j].depth = b.depth
      BY <2>2 DEF Held
    <2>4. CASE j <= n
      <3>1. j \in 1..n /\ DOMAIN SubSeq(C, 1, n) = 1..n /\ SubSeq(C, 1, n)[j] = C[j]
        <4>1. j \in 1..n /\ n \in 0..Len(C)
          BY <2>3, <2>4, <1>2, <1>n
        <4> QED BY <4>1, <1>2, Prefix
      <3> QED BY <3>1, <2>3, <1>5 DEF Held
    <2>5. CASE j > n
      <3>1. j = Len(C)
        BY <2>3, <2>5, <1>2, <1>n
      <3>2. ~b.yy
        BY <3>1, <2>3, <1>3, <1>4
      <3>3. n > 1 /\ n - 1 \in 1..Len(C) /\ Over(C[n-1], b)
        BY <1>2, <1>n, NotFirst
      <3>4. /\ C[n-1].op = "raw" /\ C[n-1].job = "close" /\ C[n-1].depth = b.depth
            /\ C[n-1].th = t
        BY <3>2, <3>3, <1>3 DEF Over, Enters, Entering, Calls, Closes, Protected
      <3>5. n - 1 \in 1..n /\ DOMAIN SubSeq(C, 1, n) = 1..n /\ SubSeq(C, 1, n)[n-1] = C[n-1]
        <4>1. n - 1 \in 1..n /\ n \in 0..Len(C)
          BY <3>3, <1>n
        <4> QED BY <4>1, <1>2, Prefix
      <3> QED BY <3>4, <3>5, <1>5 DEF Held
    <2>6. j \in Nat
      BY <2>3, <1>2
    <2> QED BY <2>4, <2>5, <2>6, <1>n
  <1>7. ~Protected(b) /\ b.depth <= Len(r)
    BY <1>3, <1>5 DEF Protected
  <1>8. b.op = "close" => b.depth = Len(r) /\ (b.depth > 0 => r[b.depth] = F[t][b.depth])
    <2>1. b.depth > 0 => r # <<>>
      BY <1>5
    <2> QED BY <2>1, <1>5, <1>s
  <1>9. Sound(SubSeq(C, 1, Len(C) - 1), [F EXCEPT ![t] = r], st, c2, m2)
    <2>1. /\ Sound(C, F, st, c, m) /\ C # <<>> /\ t = Last(C).th /\ Last(C).op = "call" /\ F[t] # <<>>
          /\ Last(F[t]).fresh /\ b = C[Len(C) - 1] /\ Trimmed(r, F[t], Len(r)) /\ Len(r) < Len(F[t])
          /\ (r # <<>> => PcOf(Last(r)) /\ ~Parked(Last(r)))
          /\ (r # <<>> /\ Blocking(Last(r)) => Held(SubSeq(C, 1, Len(C) - 1), t, Len(r)))
          /\ c2 = [c EXCEPT ![t] = c[t] - 1] /\ m2 = [m EXCEPT ![t] = m[t] - Last(C).inc]
          /\ r \in Seq(Frame)
      BY <1>5, <1>6, <1>s
    <2> QED BY ONLY <2>1, <1>7, <1>8, PopCall
  <1> QED BY <1>9, <1>s

\* vmk_callk and vmk_pcallk after the call.
AfterCall(q) == IF Last(q).fn = "call" THEN [q EXCEPT ![Len(q)].pc = "returning"] ELSE ReturnC(q)

\* A Vmk function returns to the C function that called it, which goes on, or
\* returns: finishpcallk, or a C function with no continuation.
LEMMA FinishC ==
  ASSUME NEW C, NEW F, NEW st, NEW c, NEW m, Sound(C, F, st, c, m), C # <<>>,
         NEW t, t = Last(C).th, Last(C).op = "call", F[t] # <<>>, Last(F[t]).fresh,
         NEW b, b = C[Len(C) - 1], Runner(b),
         NEW c2, c2 = [c EXCEPT ![t] = c[t] - 1],
         NEW m2, m2 = [m EXCEPT ![t] = m[t] - Last(C).inc],
         NEW r, r = AfterCall(Front(F[t]))
  PROVE  Sound(SubSeq(C, 1, Len(C) - 1), [F EXCEPT ![t] = r], st, c2, m2)
  <1> DEFINE s == F[t]
             q == Front(s)
  <1>1. Mid(C, F, st, c, m, t)
    BY SoundMid
  <1>2. /\ C \in Seq(Activation) /\ Len(C) \in Nat /\ s \in Seq(Frame) /\ Frames(s) /\ Len(s) \in Nat
        /\ DOMAIN s = 1..Len(s)
    BY <1>1, RunningFacts
  <1>3. /\ Last(C).depth = Len(s) /\ Calls(b, Last(C)) /\ b.depth \in Nat /\ b \in Activation
        /\ Caller(b, Last(C), s)
    BY CallTop
  <1>4. Len(s) > b.depth + 1 /\ Len(s) > 1
    <2>1. Len(s) > b.depth + 1
      BY <1>3 DEF Calls, Runner, Coroutined
    <2> QED BY <2>1, <1>2, <1>3
  <1>5. \/ s[Len(s) - 1].fn = "call"
        \/ s[Len(s) - 1].fn = "pcall" /\ s[Len(s) - 1].ypcall
    BY <1>3 DEF Caller
  <1>s. s = F[t] /\ q = Front(s) /\ s # <<>>
        /\ r = AfterCall(q)
    OBVIOUS
  <1> HIDE DEF s, q
  <1>6. /\ q \in Seq(Frame) /\ Len(q) = Len(s) - 1 /\ q # <<>> /\ Len(q) \in Nat \ {0}
        /\ Trimmed(q, s, Len(q)) /\ (\A k \in 1..Len(q) : q[k] = s[k])
        /\ Last(q) = q[Len(q)] /\ Last(q) = s[Len(s) - 1] /\ Frames(q)
    BY <1>2, <1>4, <1>s, FrontFrames
  <1>7. /\ r \in Seq(Frame) /\ Trimmed(r, q, Len(r)) /\ Len(r) < Len(s) /\ b.depth <= Len(r)
        /\ r # <<>> => PcOf(Last(r)) /\ ~Parked(Last(r)) /\ ~Blocking(Last(r))
    <2>1. CASE Last(q).fn = "call"
      <3>1. r = [q EXCEPT ![Len(q)].pc = "returning"]
        BY <2>1, <1>s DEF AfterCall
      <3>2. /\ Trimmed(r, q, Len(q)) /\ r # <<>> /\ Len(r) = Len(q)
            /\ Last(r).pc = "returning" /\ SameKind(Last(r), Last(q))
        <4>1. "returning" \in {"run", "wait", "closing", "returning", "raise"}
              /\ q \in Seq(Frame) /\ q # <<>>
          BY <1>6
        <4>2. LET w == [q EXCEPT ![Len(q)].pc = "returning"]
              IN /\ Trimmed(w, q, Len(q)) /\ w # <<>> /\ Len(w) = Len(q)
                 /\ Last(w).pc = "returning" /\ Last(w).recst = Last(q).recst
                 /\ SameKind(Last(w), Last(q)) /\ Last(w) = w[Len(q)]
          BY ONLY <4>1, LastAt
        <4> QED BY ONLY <3>1, <4>2
      <3>3. Last(r).fn = "call" /\ ~Last(r).ypcall
        <4>1. ~Last(q).ypcall
          <5>1. Len(q) \in DOMAIN q
            BY <1>6
          <5> QED BY <5>1, <1>6, <2>1 DEF Frames
        <4> QED BY <4>1, <3>2, <2>1 DEF SameKind
      <3>4. PcOf(Last(r)) /\ ~Parked(Last(r)) /\ ~Blocking(Last(r))
        BY <3>2, <3>3 DEF PcOf, Parked, Blocking
      <3>5. r \in Seq(Frame) /\ Len(r) < Len(s) /\ b.depth <= Len(r)
        BY <3>2, <1>2, <1>3, <1>4, <1>6 DEF Trimmed
      <3> QED BY <3>2, <3>4, <3>5
    <2>2. CASE Last(q).fn # "call"
      <3>1. r = ReturnC(q)
        BY <2>2, <1>s DEF AfterCall
      <3>2. /\ Trimmed(r, q, Len(q) - 1)
            /\ Len(q) > 1 => Last(r).pc = "run" /\ r[Len(q) - 1] = Last(r)
        BY <3>1, <1>6, ReturnCTrims
      <3>3. r \in Seq(Frame) /\ Len(r) = Len(q) - 1 /\ (r # <<>> <=> Len(q) > 1)
        BY <3>2, <1>6 DEF Trimmed
      <3>4. ASSUME Len(q) > 1
            PROVE  Last(r).fn = "vmk" /\ ~Last(r).ypcall /\ Last(r).pc = "run"
        <4>1. Len(q) - 1 \in 1..Len(q) /\ Len(q) - 1 < Len(q) /\ (Len(q) - 1) + 1 = Len(q)
          BY <1>6, <3>4
        <4>2. q[Len(q)].fn = "pcall"
          BY <1>5, <1>6, <2>2
        <4>3. q[Len(q) - 1].fn = "vmk" /\ ~q[Len(q) - 1].ypcall
          BY <4>1, <4>2, <1>6, UnderLast
        <4> QED BY <4>3, <3>2, <3>4, <1>6 DEF Trimmed, SameKind
      <3>5. r # <<>> => PcOf(Last(r)) /\ ~Parked(Last(r)) /\ ~Blocking(Last(r))
        BY <3>3, <3>4 DEF PcOf, Parked, Blocking
      <3>6. Len(r) < Len(s) /\ b.depth <= Len(r)
        BY <3>3, <1>2, <1>3, <1>4, <1>6, SMTT(30)
      <3>7. Trimmed(r, q, Len(r))
        BY <3>2, <3>3
      <3> QED BY <3>3, <3>5, <3>6, <3>7
    <2> QED BY <2>1, <2>2
  <1>8. Trimmed(r, s, Len(r))
    BY ONLY <1>2, <1>6, <1>7 DEF Trimmed, SameKind
  <1>9. ~Protected(b) /\ b.op # "close"
    BY DEF Runner, Protected, Coroutined
  <1>10. Sound(SubSeq(C, 1, Len(C) - 1), [F EXCEPT ![t] = r], st, c2, m2)
    <2>1. /\ Sound(C, F, st, c, m) /\ C # <<>> /\ t = Last(C).th /\ Last(C).op = "call" /\ F[t] # <<>>
          /\ Last(F[t]).fresh /\ b = C[Len(C) - 1] /\ Trimmed(r, F[t], Len(r)) /\ Len(r) < Len(F[t])
          /\ (r # <<>> => PcOf(Last(r)) /\ ~Parked(Last(r)))
          /\ (r # <<>> /\ Blocking(Last(r)) => Held(SubSeq(C, 1, Len(C) - 1), t, Len(r)))
          /\ c2 = [c EXCEPT ![t] = c[t] - 1] /\ m2 = [m EXCEPT ![t] = m[t] - Last(C).inc]
          /\ r \in Seq(Frame) /\ b.depth <= Len(r)
      BY <1>7, <1>8, <1>s
    <2> QED BY ONLY <2>1, <1>9, PopCall
  <1> QED BY <1>10

\* A Vmk function returns to vmkD_pcall, which was called with a setjmp.
LEMMA FinishPcall ==
  ASSUME NEW C, NEW F, NEW st, NEW c, NEW m, Sound(C, F, st, c, m), C # <<>>,
         NEW t, t = Last(C).th, Last(C).op = "call", F[t] # <<>>, Last(F[t]).fresh,
         NEW b, b = C[Len(C) - 1], b.op = "raw", b.job = "pcall",
         NEW c2, c2 = [c EXCEPT ![t] = c[t] - 1],
         NEW m2, m2 = [m EXCEPT ![t] = m[t] - Last(C).inc],
         NEW r, r = AfterCall(Front(F[t]))
  PROVE  Sound(SubSeq(C, 1, Len(C) - 2), [F EXCEPT ![t] = r], st, c2, m2)
  <1> DEFINE n == Len(C) - 2
             s == F[t]
             q == Front(s)
             D == SubSeq(C, 1, n)
  <1>1. Mid(C, F, st, c, m, t)
    BY SoundMid
  <1>2. /\ C \in Seq(Activation) /\ Len(C) \in Nat /\ s \in Seq(Frame) /\ Frames(s) /\ Len(s) \in Nat
        /\ DOMAIN s = 1..Len(s) /\ Shape(C) /\ st[t] = "ok" /\ t \in Threads
    BY <1>1, RunningFacts
  <1>3. /\ Last(C).depth = Len(s) /\ Calls(b, Last(C)) /\ b.depth \in Nat /\ b \in Activation
        /\ Len(C) > 1 /\ Last(C) = C[Len(C)] /\ b.th = t /\ Framed(b, s)
        /\ CCallsUpTo(C, Len(C) - 1) = c[t] - 1
        /\ NonYieldableUpTo(t, C, Len(C) - 1) = m[t] - Last(C).inc
    BY CallTop
  <1>n. n \in Nat /\ n + 1 = Len(C) - 1 /\ n \in 0..Len(C) /\ n + 1 \in 1..Len(C) /\ C[n+1] = b
        /\ n + 2 = Len(C)
    BY <1>2, <1>3
  <1>4. Len(s) = b.depth + 1 /\ Protected(b)
    BY <1>3 DEF Calls, Runner, Coroutined, Protected
  <1>h. s = F[t] /\ q = Front(s) /\ s # <<>> /\ r = AfterCall(q) /\ D = SubSeq(C, 1, n)
    OBVIOUS
  <1>5. CCallsUpTo(C, n) = c[t] - 1 /\ NonYieldableUpTo(t, C, n) = m[t] - Last(C).inc
    <2>1. ~Counted(C[n+1]) /\ ~NonYieldable(t, C[n+1])
      BY <1>n DEF Counted, NonYieldable, Coroutined
    <2>2. CCallsUpTo(C, n) \in Nat /\ NonYieldableUpTo(t, C, n) \in Nat
      BY <1>n, CountCard
    <2>3. /\ CCallsUpTo(C, n + 1) = CCallsUpTo(C, n) + (IF Counted(C[n+1]) THEN 1 ELSE 0)
          /\ NonYieldableUpTo(t, C, n + 1) =
                NonYieldableUpTo(t, C, n) + (IF NonYieldable(t, C[n+1]) THEN 1 ELSE 0)
      BY <1>n, CountNext
    <2> HIDE DEF n
    <2> QED BY <2>1, <2>2, <2>3, <1>3, <1>n
  <1> HIDE DEF n, s, q, D
  <1>6. IF n = 0 THEN t = Main /\ b.depth = 1
        ELSE n \in 1..Len(C) /\ C[n].th = t /\ Runner(C[n]) /\ C[n].depth < b.depth /\ C[n].depth \in Nat
    <2>1. CASE n = 0
      <3>1. Bottom(b)
        <4>1. n + 1 = 1
          BY <2>1
        <4> QED BY <4>1, <1>2, <1>n, ShapeParts
      <3> QED BY <2>1, <3>1, <1>3 DEF Bottom
    <2>2. CASE n # 0
      <3>1. n \in 1..Len(C) /\ n < Len(C)
        BY <2>2, <1>n, <1>2
      <3>2. Over(C[n], b) /\ C[n].depth \in Nat
        BY <3>1, <1>2, <1>n, ShapeParts
      <3>3. ~Entering(b)
        BY DEF Entering, Coroutined
      <3> QED BY <2>2, <3>1, <3>2, <3>3, <1>3 DEF Over, Enters, Calls, Closes
    <2> QED BY <2>1, <2>2
  <1>7. b.depth > 0 /\ b.depth \in 1..Len(s) /\ s[b.depth].fn = "pcall" /\ Len(s) > 1
    <2>1. b.depth > 0
      BY <1>3, <1>6
    <2>2. b.depth \in 1..Len(s) /\ Len(s) > 1
      BY <2>1, <1>2, <1>3, <1>4
    <2> QED BY <2>1, <2>2, <1>3, <1>4 DEF Framed
  <1>8. /\ q \in Seq(Frame) /\ Len(q) = b.depth /\ q # <<>> /\ Len(q) \in Nat \ {0}
        /\ Trimmed(q, s, Len(q)) /\ (\A k \in 1..Len(q) : q[k] = s[k])
        /\ Last(q) = q[Len(q)] /\ Last(q) = s[b.depth] /\ Frames(q)
    <2>1. /\ q \in Seq(Frame) /\ Len(q) = Len(s) - 1 /\ q # <<>> /\ Len(q) \in Nat \ {0}
          /\ Trimmed(q, s, Len(q)) /\ (\A k \in 1..Len(q) : q[k] = s[k])
          /\ Last(q) = q[Len(q)] /\ Last(q) = s[Len(s) - 1] /\ Frames(q)
      BY ONLY <1>7, <1>2, <1>h, FrontFrames
    <2>2. Len(s) - 1 = b.depth
      BY <1>3, <1>4
    <2> QED BY ONLY <2>1, <2>2
  <1>9. r = ReturnC(q)
    BY <1>7, <1>8, <1>h DEF AfterCall
  <1>10. /\ r \in Seq(Frame) /\ Len(r) = b.depth - 1 /\ Trimmed(r, q, Len(r)) /\ Len(r) \in Nat
         /\ (r = <<>> <=> b.depth = 1)
         /\ Len(q) > 1 => Last(r).pc = "run" /\ r[Len(q) - 1] = Last(r)
    <2>1. /\ Trimmed(r, q, Len(q) - 1)
          /\ Len(q) > 1 => Last(r).pc = "run" /\ r[Len(q) - 1] = Last(r)
      BY <1>8, <1>9, ReturnCTrims
    <2>2. r \in Seq(Frame) /\ Len(r) = Len(q) - 1 /\ Trimmed(r, q, Len(r))
      BY <2>1 DEF Trimmed
    <2>3. Len(r) \in Nat /\ Len(r) = b.depth - 1
      BY <2>2, <1>8
    <2>4. r = <<>> <=> b.depth = 1
      <3>1. r = <<>> <=> Len(r) = 0
        <4>1. r \in Seq(Frame)
          BY <2>2
        <4> QED BY ONLY <4>1
      <3> QED BY <3>1, <2>3, <1>3
    <2> QED BY <2>1, <2>2, <2>3, <2>4
  <1>11. ASSUME Len(q) > 1
         PROVE  Last(r).fn = "vmk" /\ ~Last(r).ypcall /\ Last(r).pc = "run"
    <2>1. Len(q) - 1 \in 1..Len(q) /\ Len(q) - 1 < Len(q) /\ (Len(q) - 1) + 1 = Len(q)
      BY <1>8, <1>11
    <2>2. q[Len(q)].fn = "pcall"
      BY <1>7, <1>8
    <2>3. q[Len(q) - 1].fn = "vmk" /\ ~q[Len(q) - 1].ypcall
      BY <2>1, <2>2, <1>8, UnderLast
    <2> QED BY <2>3, <1>8, <1>10, <1>11 DEF Trimmed, SameKind
  <1>12. r # <<>> => PcOf(Last(r)) /\ ~Parked(Last(r)) /\ ~Blocking(Last(r))
    <2>1. r # <<>> => Len(q) > 1
      BY <1>8, <1>10
    <2> QED BY <2>1, <1>11 DEF PcOf, Parked, Blocking
  <1>13. Trimmed(r, s, Len(r))
    BY ONLY <1>2, <1>8, <1>10 DEF Trimmed, SameKind
  <1>14. \A j \in (n+1)..Len(C) : j = n + 1 \/ j = Len(C)
    BY <1>n, <1>2
  <1>15. Cuts(C, F, t, n, r)
    <2>1. ASSUME n > 0
          PROVE  /\ C[n].th = t /\ Trimmed(r, F[t], Len(r)) /\ C[n].depth <= Len(r)
                 /\ C[n].op # "close"
                 /\ \A j \in (n+1)..Len(C) : C[j].op = "call" => C[j].depth > Len(r)
      <3>1. C[n].th = t /\ Runner(C[n]) /\ C[n].depth <= Len(r)
        BY <2>1, <1>6, <1>10, <1>3, SMTT(30)
      <3>2. \A j \in (n+1)..Len(C) : C[j].op = "call" => C[j].depth > Len(r)
        <4>1. C[n+1].op # "call" /\ C[Len(C)].depth > Len(r)
          <5>1. C[Len(C)].depth = b.depth + 1 /\ Len(r) = b.depth - 1 /\ b.depth \in Nat
            BY <1>3, <1>4, <1>10
          <5> QED BY <5>1, <1>n
        <4> QED BY <4>1, <1>14
      <3> QED BY <3>1, <3>2, <1>13, <1>h DEF Runner
    <2> QED BY <2>1 DEF Cuts
  <1>16. ASSUME NEW k \in DOMAIN r, Blocking(r[k]) PROVE Held(SubSeq(C, 1, n), t, k)
    <2>0. k \in Nat /\ k <= Len(r) /\ k \in 1..Len(r) /\ Last(r) = r[Len(r)] /\ r # <<>>
      BY <1>10, <1>16 DEF Last
    <2>1. k # Len(r)
      BY <2>0, <1>12, <1>16
    <2>2. r[k] = s[k] /\ k \in DOMAIN s /\ k + 1 < b.depth
      <3>1. k \in 1..(Len(r) - 1) /\ k \in 1..Len(s)
        <4>1. Len(r) = b.depth - 1 /\ Len(s) = b.depth + 1 /\ b.depth \in Nat /\ Len(r) \in Nat
          BY <1>3, <1>4, <1>10
        <4> QED BY ONLY <4>1, <2>0, <2>1
      <3>2. r[k] = s[k]
        BY <3>1, <1>13 DEF Trimmed
      <3> QED BY <3>1, <3>2, <1>2, <1>10, <1>3, SMTT(30)
    <2>3. Held(C, t, k)
      BY <2>2, <1>2, <1>16, <1>h DEF Sound, BlockingHeld
    <2>4. \A j \in (n+1)..Len(C) : /\ ~(C[j].op = "call" /\ C[j].inc = 1 /\ C[j].depth = k + 1)
                                   /\ ~(C[j].op = "raw" /\ C[j].job = "close" /\ C[j].depth = k)
      <3>1. C[Len(C)].depth # k + 1 /\ C[Len(C)].op = "call"
        BY <2>2, <2>0, <1>3, <1>4
      <3>2. C[n+1].op = "raw" /\ C[n+1].job = "pcall"
        BY <1>n
      <3> QED BY <3>1, <3>2, <1>14
    <2> QED BY <2>3, <2>4, <1>2, <1>n, HeldPrefix
  <1>17. /\ c2 \in Counters /\ m2 \in Counters /\ c2[t] = CCallsUpTo(C, n) /\ m2[t] = NonYieldableUpTo(t, C, n)
         /\ \A u \in Threads : u # t => c2[u] = c[u] /\ m2[u] = m[u]
    <2>1. c \in Counters /\ m \in Counters
      BY DEF Sound
    <2>2. CCallsUpTo(C, n) \in Nat /\ NonYieldableUpTo(t, C, n) \in Nat
      BY <1>n, CountCard
    <2> QED BY <1>2, <1>5, <2>1, <2>2 DEF Counters
  <1>18. n = 0 => c2[Main] = 0 /\ m2[Main] = 1
    <2> SUFFICES ASSUME n = 0 PROVE c2[Main] = 0 /\ m2[Main] = 1
      OBVIOUS
    <2>1. t = Main /\ c2[t] = CCallsUpTo(C, 0) /\ m2[t] = NonYieldableUpTo(t, C, 0)
      BY <1>6, <1>17
    <2> QED BY ONLY <2>1, CountZero
  <1>19. IF n > 0 THEN C[n].th = t /\ ~Protected(C[n]) /\ C[n].op # "close" ELSE t = Main /\ r = <<>>
    BY <1>6, <1>10, <1>n DEF Runner, Protected, Coroutined
  <1>20. Sound(SubSeq(C, 1, n), [F EXCEPT ![t] = r], st, c2, m2)
    <2>1. /\ Sound(C, F, st, c, m) /\ C # <<>> /\ t = Last(C).th /\ r \in Seq(Frame)
          /\ (IF n > 0 THEN C[n].th = t /\ ~Protected(C[n]) ELSE t = Main /\ r = <<>>)
          /\ (n > 0 /\ C[n].op = "close" => Len(r) = C[n].depth)
          /\ (r # <<>> => PcOf(Last(r)) /\ ~Parked(Last(r)))
          /\ (\A k \in DOMAIN r : Blocking(r[k]) => Held(SubSeq(C, 1, n), t, k))
          /\ (n > 0 => c2[t] = CCallsUpTo(C, n) /\ m2[t] = NonYieldableUpTo(t, C, n))
      BY <1>10, <1>12, <1>16, <1>17, <1>19
    <2> QED BY ONLY <2>1, <1>n, <1>15, <1>17, <1>18, SoundCut
  <1> QED BY <1>20 DEF n

\* A Vmk function returns.
LEMMA FinishSound ==
  ASSUME NEW C, Sound(C, ci, status, cc, nny), C # <<>>, NEW t, t = Last(C).th,
         Last(C).op # "close", ci[t] # <<>>, Last(ci[t]).fn = "vmk",
         Finish(t, ci[t], C), status' = status
  PROVE  Sound(cs', ci', status', cc', nny')
  <1>1. Runner(Last(C)) /\ C \in Seq(Activation) /\ Shape(C)
    BY RunnerTop DEF Sound, Good
  <1>f. /\ Len(C) \in Nat \ {0} /\ Front(C) = SubSeq(C, 1, Len(C) - 1)
        /\ Len(C) > 1 => Last(Front(C)) = C[Len(C) - 1] /\ Front(C) # <<>>
        /\ Front(C) \in Seq(Activation) /\ Len(Front(C)) = Len(C) - 1
    BY <1>1, Shortened
  <1>2. CASE ~Last(ci[t]).fresh
    <2>1. ci' = [ci EXCEPT ![t] = ReturnC(ci[t])] /\ cs' = C /\ cc' = cc /\ nny' = nny
      BY <1>2 DEF Finish, ReturnC
    <2>2. Sound(C, [ci EXCEPT ![t] = ReturnC(ci[t])], status, cc, nny)
      BY <1>2, ReturnsStay
    <2> QED BY ONLY <2>1, <2>2, status' = status
  <1>3. CASE Last(ci[t]).fresh /\ Last(C).op = "raw"
    <2>1. ci' = [ci EXCEPT ![t] = Front(ci[t])] /\ cs' = C /\ cc' = cc /\ nny' = nny
      BY <1>3 DEF Finish
    <2>2. Sound(C, [ci EXCEPT ![t] = Front(ci[t])], status, cc, nny)
      BY <1>3, FinishUnroll
    <2> QED BY ONLY <2>1, <2>2, status' = status
  <1>4. CASE Last(ci[t]).fresh /\ Last(C).op = "call"
    <2> DEFINE b == C[Len(C) - 1]
               r == IF b.op = "close" THEN Front(ci[t]) ELSE AfterCall(Front(ci[t]))
    <2>1. Len(C) > 1 /\ Calls(b, Last(C)) /\ b \in Activation
      BY <1>4, CallTop
    <2>2. Last(Front(C)) = b /\ Front(C) = SubSeq(C, 1, Len(C) - 1)
      BY <2>1, <1>f
    <2>3. /\ ci' = [ci EXCEPT ![t] = r]
          /\ cs' = IF b.op = "raw" /\ b.job = "pcall" THEN Front(Front(C)) ELSE Front(C)
          /\ cc' = [cc EXCEPT ![t] = cc[t] - 1] /\ nny' = [nny EXCEPT ![t] = nny[t] - Last(C).inc]
      BY <1>4, <2>2 DEF Finish, SetCount, AfterCall
    <2>4. Front(Front(C)) = SubSeq(C, 1, Len(C) - 2)
      <3>1. Front(Front(C)) = SubSeq(Front(C), 1, Len(Front(C)) - 1)
        BY <1>f, <2>1, Shortened
      <3>2. SubSeq(SubSeq(C, 1, Len(C) - 1), 1, Len(C) - 2) = SubSeq(C, 1, Len(C) - 2)
        BY <1>1, <1>f, <2>1
      <3> QED BY <3>1, <3>2, <1>f
    <2>h. b = C[Len(C) - 1] /\ r = IF b.op = "close" THEN Front(ci[t]) ELSE AfterCall(Front(ci[t]))
      OBVIOUS
    <2> HIDE DEF b, r
    <2>5. CASE b.op = "close"
      <3>1. r = Front(ci[t]) /\ cs' = SubSeq(C, 1, Len(C) - 1)
        BY <2>5, <2>2, <2>3, <2>h
      <3>2. Sound(SubSeq(C, 1, Len(C) - 1), [ci EXCEPT ![t] = Front(ci[t])], status, cc', nny')
        BY <1>4, <2>3, <2>5, <2>h, FinishClose
      <3> QED BY ONLY <3>1, <3>2, <2>3, status' = status
    <2>6. CASE b.op = "raw" /\ b.job = "pcall"
      <3>1. r = AfterCall(Front(ci[t])) /\ cs' = SubSeq(C, 1, Len(C) - 2)
        BY <2>6, <2>3, <2>4, <2>h
      <3>2. Sound(SubSeq(C, 1, Len(C) - 2), [ci EXCEPT ![t] = r], status, cc', nny')
        BY <1>4, <2>3, <2>6, <2>h, <3>1, FinishPcall
      <3> QED BY ONLY <3>1, <3>2, <2>3, status' = status
    <2>7. CASE Runner(b)
      <3>1. b.op # "close" /\ ~(b.op = "raw" /\ b.job = "pcall")
        BY <2>7 DEF Runner, Coroutined
      <3>2. r = AfterCall(Front(ci[t])) /\ cs' = SubSeq(C, 1, Len(C) - 1)
        BY <3>1, <2>2, <2>3, <2>h
      <3>3. Sound(SubSeq(C, 1, Len(C) - 1), [ci EXCEPT ![t] = r], status, cc', nny')
        BY <1>4, <2>3, <2>7, <2>h, <3>2, FinishC
      <3> QED BY ONLY <3>2, <3>3, <2>3, status' = status
    <2> QED BY <2>1, <2>5, <2>6, <2>7 DEF Calls
  <1> QED BY <1>1, <1>2, <1>3, <1>4 DEF Runner

\* C code of thread t, with frames s, calls over C.
CanEnter(C, s, t, inc) ==
    /\ Over(Last(C), CCall(t, Len(s) + 1, inc))
    /\ Runner(Last(C)) => /\ s # <<>>
                          /\ \/ Last(s).fn = "call"
                             \/ Last(s).fn = "pcall" /\ Last(s).ypcall /\ ~Last(s).recst
    /\ s # <<>> => /\ ~Parked(Last(s)) /\ Last(s).fn # "wrap"
                   /\ Blocking(Last(s)) => inc = 1 \/ Held(C, t, Len(s))
    /\ Last(C).op = "close" => Last(C).depth = Len(s)

\* ccall, with the error of vmkE_checkcstack.
LEMMA EnterSound ==
  ASSUME NEW C, NEW t, NEW s, ci \in FrameMap, Mid(C, [ci EXCEPT ![t] = s], status, cc, nny, t),
         NEW b \in Nat \ {0}, NEW inc \in {0, 1}, CanEnter(C, s, t, inc), Enter(t, s, C, b, inc)
  PROVE  Sound(cs', ci', status', cc', nny')
  <1> DEFINE F == [ci EXCEPT ![t] = s]
  <1>m. Mid(C, F, status, cc, nny, t) /\ F = [ci EXCEPT ![t] = s]
    OBVIOUS
  <1>1. /\ t \in Threads /\ F[t] = s /\ s \in Seq(Frame) /\ F \in FrameMap /\ cc \in Counters
        /\ \A z : [F EXCEPT ![t] = z] = [ci EXCEPT ![t] = z]
    <2>1. t \in Threads /\ F[t] \in Seq(Frame) /\ F \in FrameMap
      BY <1>m, RunningFacts
    <2> QED BY <2>1, <1>m DEF FrameMap, Mid
  <1> HIDE DEF F
  <1>2. CASE CStackError(cc[t] + 1)
    <2>1. Throw(t, s, C, "err")
      BY <1>2 DEF Enter
    <2> QED BY <2>1, ThrowSound
  <1>3. CASE ~CStackError(cc[t] + 1)
    <2>1. /\ ci' = [ci EXCEPT ![t] = Append(s, VmkFrame(b, TRUE))]
          /\ cs' = Append(C, CCall(t, Len(s) + 1, inc))
          /\ cc' = [cc EXCEPT ![t] = cc[t] + 1] /\ nny' = [nny EXCEPT ![t] = nny[t] + inc]
          /\ status' = status
      BY <1>3 DEF Enter, SetCount
    <2>2. cc[t] + 1 < ErrCCalls
      <3>1. cc[t] \in Nat
        BY <1>1 DEF Counters
      <3> QED BY <3>1, <1>3, CallsAssumption DEF CStackError
    <2> DEFINE d == Len(s) + 1
               a == CCall(t, d, inc)
    <2>a. a = CCall(t, d, inc) /\ d = Len(F[t]) + 1 /\ Over(Last(C), a)
      BY <1>1 DEF CanEnter
    <2>f. a.op = "call" /\ a.depth = d /\ d - 1 = Len(s) /\ Len(s) \in Nat
      BY <1>1 DEF CCall
    <2>s. cs' = Append(C, a)
      BY <2>1
    <2> HIDE DEF a, d
    <2>3. Caller(Last(C), a, Append(F[t], VmkFrame(b, TRUE)))
      <3> DEFINE u == Append(s, VmkFrame(b, TRUE))
      <3>1. Runner(Last(C)) => /\ u[Len(s)] = Last(s)
                               /\ \/ Last(s).fn = "call"
                                  \/ Last(s).fn = "pcall" /\ Last(s).ypcall /\ ~Last(s).recst
        <4> SUFFICES ASSUME Runner(Last(C)) PROVE u[Len(s)] = Last(s)
          BY DEF CanEnter
        <4>1. s # <<>>
          BY DEF CanEnter
        <4>0. s \in Seq(Frame)
          BY <1>1
        <4>2. Len(s) \in 1..Len(s) /\ Last(s) = s[Len(s)]
          BY ONLY <4>0, <4>1, Shortened
        <4> QED BY <4>2, <1>1
      <3>2. ~Entering(a)
        BY <2>f DEF Entering
      <3> HIDE DEF u
      <3>3. Caller(Last(C), a, u)
        BY <3>1, <3>2, <2>f DEF Caller
      <3> QED BY <3>3, <1>1 DEF u
    <2>4. /\ F[t] # <<>> => ~Parked(Last(F[t])) /\ Last(F[t]).fn # "wrap"
                           /\ (Blocking(Last(F[t])) => inc = 1 \/ Held(C, t, Len(F[t])))
          /\ Last(C).op = "close" => Last(C).depth = Len(F[t])
      BY <1>1 DEF CanEnter
    <2>5. Sound(Append(C, a), [F EXCEPT ![t] = Append(F[t], VmkFrame(b, TRUE))], status, cc', nny')
      <3>1. /\ Mid(C, F, status, cc, nny, t) /\ b \in Nat \ {0} /\ inc \in {0, 1}
            /\ cc' = [cc EXCEPT ![t] = cc[t] + 1] /\ nny' = [nny EXCEPT ![t] = nny[t] + inc]
        BY <1>m, <2>1
      <3> QED BY ONLY <2>2, <2>3, <2>4, <2>a, <3>1, PushCall
    <2>6. ci' = [F EXCEPT ![t] = Append(F[t], VmkFrame(b, TRUE))]
      BY <2>1, <1>1
    <2> QED BY ONLY <2>5, <2>6, <2>s, <2>1
  <1> QED BY <1>2, <1>3

\* vmkD_pcall makes a setjmp for the last frame of the running thread.
LEMMA MidPcall ==
  ASSUME NEW C, NEW F, NEW st, NEW c, NEW m, NEW t, Mid(C, F, st, c, m, t),
         Runner(Last(C)), Len(F[t]) > Last(C).depth,
         F[t] # <<>>, Last(F[t]).fn = "pcall", ~Last(F[t]).ypcall
  PROVE  Mid(Append(C, Raw(t, "pcall", Len(F[t]), c[t], m[t])), F, st, c, m, t)
  <1> DEFINE a == Raw(t, "pcall", Len(F[t]), c[t], m[t])
             E == Append(C, a)
  <1>1. /\ C \in Seq(Activation) /\ Shape(C) /\ t \in Threads /\ C # <<>> /\ t = Last(C).th
        /\ Len(C) \in Nat /\ Last(C) = C[Len(C)] /\ InC(C, t)
        /\ F[t] \in Seq(Frame) /\ Len(F[t]) \in Nat /\ Last(C).depth \in 0..Len(F[t])
        /\ c[t] = CCallsUpTo(C, Len(C)) /\ m[t] = NonYieldableUpTo(t, C, Len(C)) /\ RunningIn(C) = t
        /\ Good(C, F) /\ Exact(C, c, m) /\ CCallsUpTo(C, Len(C)) < ErrCCalls /\ ThreadsFit(C, F, st)
        /\ c \in Counters /\ m \in Counters
    BY RunningFacts DEF Mid
  <1>2. /\ a \in Activation /\ a.op = "raw" /\ a.th = t /\ a.job = "pcall" /\ a.depth = Len(F[t])
        /\ a.cc = c[t] /\ a.nny = m[t]
    BY <1>1 DEF Raw, Activation, Counters
  <1>h. a = Raw(t, "pcall", Len(F[t]), c[t], m[t]) /\ E = Append(C, a)
    OBVIOUS
  <1> HIDE DEF a, E
  <1>3. ~Entering(a) /\ ~Counted(a) /\ Protected(a)
    BY <1>2 DEF Entering, Counted, Protected, Coroutined
  <1>4. Over(Last(C), a) /\ Framed(a, F[t]) /\ Caller(Last(C), a, F[Last(C).th])
    <2>1. Over(Last(C), a)
      BY <1>1, <1>2, <1>3 DEF Over
    <2>2. Framed(a, F[t])
      <3>1. F[t][Len(F[t])] = Last(F[t])
        BY DEF Last
      <3> QED BY <3>1, <1>1, <1>2 DEF Framed
    <2> QED BY <2>1, <2>2, <1>2, <1>3 DEF Caller
  <1>5. Good(E, F)
    <2>1. (IF C = <<>> THEN Bottom(a) ELSE Over(Last(C), a)) /\ (Entering(a) => ~InC(C, a.th))
          /\ Framed(a, F[a.th]) /\ (C # <<>> => Caller(Last(C), a, F[Last(C).th]))
          /\ (a.op = "call" => Len(F[a.th]) <= a.depth) /\ Good(C, F) /\ a \in Activation
      BY <1>1, <1>2, <1>3, <1>4
    <2> QED BY ONLY <2>1, <1>h, GoodPush
  <1>6. /\ Exact(E, c, m) /\ CCallsUpTo(E, Len(E)) = CCallsUpTo(C, Len(C))
    BY <1>1, <1>2, <1>3, <1>h, ExactUncounted
  <1>7. E # <<>> /\ Last(E) = a
    BY <1>1, <1>2, <1>h, Appended
  <1>8. \A u : InC(E, u) <=> InC(C, u)
    BY <1>1, <1>2, <1>h, InAppend
  <1>9. ThreadsFit(E, F, st)
    <2>1. RunningIn(E) = t
      BY <1>2, <1>7 DEF RunningIn
    <2> QED BY <2>1, <1>1, <1>8 DEF ThreadsFit, ThreadFits
  <1>10. ASSUME NEW u \in Threads
         PROVE  /\ Frames(F[u])
                /\ st[u] # "err" => \A k \in DOMAIN F[u] :
                      Blocking(F[u][k]) => Held(E, u, k) \/ (u = t /\ k = Len(F[t]))
    BY <1>1, <1>2, <1>h, HeldAppend DEF Mid
  <1>11. Mid(E, F, st, c, m, t)
    BY <1>1, <1>2, <1>5, <1>6, <1>7, <1>9, <1>10 DEF Mid
  <1> QED BY <1>11, <1>h

\* What holds when the running thread t is to enter co, which is not in the C
\* stack, with frames q and x C calls.
Elsewhere(C, F, st, c, m, t, co, q, x) ==
    LET G == [F EXCEPT ![co] = q]
        c2 == [c EXCEPT ![co] = x]
        m2 == [m EXCEPT ![co] = 0]
    IN /\ Good(C, G) /\ Fits(C, G, [st EXCEPT ![co] = "ok"], co, 0)
       /\ c2 \in Counters /\ m2 \in Counters /\ Exact(C, c2, m2)
       /\ c2[co] = x /\ m2[co] = 0 /\ m2[co] = NonYieldableUpTo(co, C, Len(C))
       /\ G[t] = F[t] /\ G[co] = q /\ C # <<>> /\ Last(C).th = t
       /\ c[t] = CCallsUpTo(C, Len(C)) /\ CCallsUpTo(C, Len(C)) < ErrCCalls

\* Entering a thread that is out of the C stack, with frames that can go on.
LEMMA EntersElsewhere ==
  ASSUME NEW C, NEW F, NEW st, NEW c, NEW m, NEW t, Mid(C, F, st, c, m, t),
         F[t] # <<>>, ~Blocking(Last(F[t])), Runner(Last(C)),
         NEW co \in Cos, ~InC(C, co), NEW q \in Seq(Frame), Frames(q),
         \A k \in DOMAIN q : ~Blocking(q[k]), NEW x \in Nat
  PROVE  Elsewhere(C, F, st, c, m, t, co, q, x)
  <1> DEFINE G == [F EXCEPT ![co] = q]
             c2 == [c EXCEPT ![co] = x]
             m2 == [m EXCEPT ![co] = 0]
             st2 == [st EXCEPT ![co] = "ok"]
  <1>1. /\ C \in Seq(Activation) /\ Shape(C) /\ t \in Threads /\ C # <<>> /\ t = Last(C).th
        /\ Len(C) \in Nat /\ Last(C) = C[Len(C)] /\ InC(C, t) /\ Len(C) \in 1..Len(C)
        /\ F[t] \in Seq(Frame) /\ Len(F[t]) \in Nat /\ Last(C).depth \in 0..Len(F[t])
        /\ c[t] = CCallsUpTo(C, Len(C)) /\ RunningIn(C) = t /\ F \in FrameMap
        /\ Good(C, F) /\ Exact(C, c, m) /\ CCallsUpTo(C, Len(C)) < ErrCCalls /\ ThreadsFit(C, F, st)
        /\ c \in Counters /\ m \in Counters /\ st \in Statuses
    BY RunningFacts DEF Mid
  <1>2. co # t /\ co \in Threads /\ co # Main
    BY <1>1, CallsAssumption DEF Threads
  <1>3. G \in FrameMap /\ G[co] = q /\ \A u \in Threads : u # co => G[u] = F[u]
    BY <1>1, <1>2 DEF FrameMap
  <1>4. /\ c2 \in Counters /\ m2 \in Counters /\ c2[co] = x /\ m2[co] = 0
        /\ \A u \in Threads : u # co => c2[u] = c[u] /\ m2[u] = m[u]
    BY <1>1, <1>2 DEF Counters
  <1>5. st2 \in Statuses /\ st2[co] = "ok" /\ \A u \in Threads : u # co => st2[u] = st[u]
    BY <1>1, <1>2 DEF Statuses
  <1> HIDE DEF G, c2, m2, st2
  <1>6. Exact(C, c2, m2)
    <2>1. \A i \in DOMAIN C : C[i].th \in Threads /\ C[i].th # co
      <3>1. \A i \in DOMAIN C : C[i].th \in Threads
        BY <1>1, ShapeParts
      <3> QED BY <3>1 DEF InC
    <2> QED BY <2>1, <1>1, <1>4 DEF Exact, EndCounts
  <1>7. m2[co] = NonYieldableUpTo(co, C, Len(C))
    BY <1>1, <1>4, UncountedOut
  <1>8. Good(C, G)
    <2>1. Agree(F[t], F[t], Last(C).depth)
      BY <1>1, AgreeItself
    <2>2. Replaces(G, F, C, C[Len(C)])
      BY <2>1, <1>1, <1>2, <1>3 DEF Replaces
    <2>3. SubSeq(C, 1, Len(C)) = C
      BY <1>1
    <2>4. Len(C) \in 0..Len(C) /\ \A j \in (Len(C)+1)..Len(C) : FALSE
      BY <1>1
    <2>5. G[C[Len(C)].th] = F[C[Len(C)].th]
      BY <1>1, <1>2, <1>3
    <2>6. Replaces(G, F, SubSeq(C, 1, Len(C)), C[Len(C)])
      BY <2>2, <2>3
    <2>7. \A k \in DOMAIN G[C[Len(C)].th] : G[C[Len(C)].th][k].fresh =>
              k \in DOMAIN F[C[Len(C)].th] /\ F[C[Len(C)].th][k].fresh
      BY <2>5
    <2>8. Good(SubSeq(C, 1, Len(C)), G)
      BY ONLY <1>1, <1>3, <2>4, <2>6, <2>7, GoodPrefix
    <2> QED BY <2>3, <2>8
  <1>9. Fits(C, G, st2, co, 0)
    <2>1. ASSUME NEW u \in Threads
          PROVE  /\ Frames(G[u])
                 /\ st2[u] # "err" => \A k \in DOMAIN G[u] :
                       Blocking(G[u][k]) => Held(C, u, k) \/ (u = co /\ k = 0)
                 /\ ThreadFits(InC(C, u) \/ u = co, u = co, G[u], st2[u])
      <3>1. ThreadFits(InC(C, u), u = t, F[u], st[u])
        BY <1>1 DEF ThreadsFit, ThreadFits
      <3>2. CASE u = co
        BY <3>2, <1>3, <1>5 DEF ThreadFits
      <3>3. CASE u # co
        <4>1. Last(F[t]) = F[t][Len(F[t])]
          BY DEF Last
        <4> QED BY <3>1, <3>3, <4>1, <1>3, <1>5 DEF Mid, ThreadFits
      <3> QED BY <3>2, <3>3
    <2>2. st2[Main] = "ok"
      <3>1. Main \in Threads
        BY DEF Threads
      <3> QED BY <3>1, <1>1, <1>2, <1>5 DEF ThreadsFit
    <2> QED BY <1>5, <2>1, <2>2 DEF Fits
  <1>10. G[t] = F[t]
    BY <1>1, <1>2, <1>3
  <1> QED BY <1>1, <1>3, <1>4, <1>6, <1>7, <1>8, <1>9, <1>10 DEF Elsewhere, G, c2, m2, st2

\* vmk_closethread.
LEMMA CloseElsewhere ==
  ASSUME NEW C, NEW F, NEW st, NEW c, NEW m, NEW t, Mid(C, F, st, c, m, t),
         F[t] # <<>>, Last(F[t]).pc = "wait", Last(F[t]).fn \in {"close", "wrap"},
         Runner(Last(C)), Len(F[t]) > Last(C).depth, NEW co \in Cos, ~InC(C, co)
  PROVE  Sound(Append(Append(C, Raw(co, "close", 0, c[t], 0)), FClose(co, 0, 1, FALSE)),
               [F EXCEPT ![co] = <<>>], [st EXCEPT ![co] = "ok"],
               [c EXCEPT ![co] = c[t]], [m EXCEPT ![co] = 0])
  <1> DEFINE G == [F EXCEPT ![co] = <<>>]
             c2 == [c EXCEPT ![co] = c[t]]
             m2 == [m EXCEPT ![co] = 0]
             st2 == [st EXCEPT ![co] = "ok"]
             b == Raw(co, "close", 0, c2[co], m2[co])
             e == FClose(co, 0, 1, FALSE)
  <1>1. ~Blocking(Last(F[t]))
    <2>1. Last(F[t]).ypcall = Last(F[t]).ypcall
      OBVIOUS
    <2> QED BY DEF Blocking
  <1>2. c[t] \in Nat /\ t \in Threads /\ co \in Threads
    BY RunningFacts DEF Mid, Counters, Threads
  <1>3. <<>> \in Seq(Frame) /\ Frames(<<>>) /\ (\A k \in DOMAIN <<>> : ~Blocking(<<>>[k])) /\ Len(<<>>) = 0
    BY DEF Frames
  <1>4. Elsewhere(C, F, st, c, m, t, co, <<>>, c[t])
    BY <1>1, <1>2, <1>3, EntersElsewhere
  <1>5. /\ Good(C, G) /\ Fits(C, G, st2, co, 0)
        /\ c2 \in Counters /\ m2 \in Counters /\ Exact(C, c2, m2)
        /\ c2[co] = c[t] /\ m2[co] = 0 /\ m2[co] = NonYieldableUpTo(co, C, Len(C))
        /\ G[t] = F[t] /\ G[co] = <<>> /\ C # <<>> /\ Last(C).th = t
        /\ c[t] = CCallsUpTo(C, Len(C)) /\ CCallsUpTo(C, Len(C)) < ErrCCalls
    BY <1>4 DEF Elsewhere
  <1>b. b = Raw(co, "close", 0, c2[co], m2[co]) /\ e = FClose(co, 0, 1, FALSE)
        /\ b = Raw(co, "close", 0, c[t], 0)
    BY <1>5
  <1>6. b.op = "raw" /\ b.th = co /\ b.job = "close" /\ b.depth = 0
    BY DEF Raw
  <1> HIDE DEF G, c2, m2, st2, b, e
  <1>7. Entering(b) /\ Over(Last(C), b) /\ Framed(b, G[co])
    BY <1>3, <1>5, <1>6 DEF Entering, Over, Enters, Framed, Protected
  <1>8. Caller(Last(C), b, G[Last(C).th])
    BY <1>5, <1>6 DEF Caller
  <1>9. Sound(Append(Append(C, b), e), G, st2, c2, m2)
    <2>1. /\ Good(C, G) /\ C # <<>> /\ co \in Threads /\ ~InC(C, co) /\ 0 \in Nat /\ 1 \in Nat \ {0}
          /\ c2 \in Counters /\ m2 \in Counters /\ c2[co] = CCallsUpTo(C, Len(C))
          /\ m2[co] = NonYieldableUpTo(co, C, Len(C)) /\ CCallsUpTo(C, Len(C)) < ErrCCalls
          /\ Len(G[co]) = 0 /\ Exact(C, c2, m2) /\ Fits(C, G, st2, co, 0)
      BY <1>2, <1>3, <1>5
    <2> QED BY ONLY <2>1, <1>b, <1>7, <1>8, PushClose
  <1> QED BY <1>9, <1>b DEF G, c2, m2, st2

\* vmk_resume.
LEMMA ResumeElsewhere ==
  ASSUME NEW C, NEW F, NEW st, NEW c, NEW m, NEW t, Mid(C, F, st, c, m, t),
         F[t] # <<>>, Last(F[t]).pc = "wait", Last(F[t]).fn \in {"resume", "wrap"},
         Runner(Last(C)), Len(F[t]) > Last(C).depth, NEW co \in Cos, ~InC(C, co),
         NEW q \in Seq(Frame), Frames(q), \A k \in DOMAIN q : ~Blocking(q[k]),
         q # <<>> => ~Parked(Last(q)), c[t] + 1 < ErrCCalls
  PROVE  Sound(Append(C, Raw(co, "resume", 0, c[t] + 1, 0)),
               [F EXCEPT ![co] = q], [st EXCEPT ![co] = "ok"],
               [c EXCEPT ![co] = c[t] + 1], [m EXCEPT ![co] = 0])
  <1> DEFINE G == [F EXCEPT ![co] = q]
             c2 == [c EXCEPT ![co] = c[t] + 1]
             m2 == [m EXCEPT ![co] = 0]
             st2 == [st EXCEPT ![co] = "ok"]
  <1>1. ~Blocking(Last(F[t]))
    BY DEF Blocking
  <1>2. c[t] + 1 \in Nat
    <2>1. c[t] \in Nat
      BY RunningFacts DEF Mid, Counters
    <2> QED BY <2>1
  <1>4. Elsewhere(C, F, st, c, m, t, co, q, c[t] + 1)
    BY <1>1, <1>2, EntersElsewhere
  <1>5. /\ Good(C, G) /\ Fits(C, G, st2, co, 0)
        /\ c2 \in Counters /\ m2 \in Counters /\ Exact(C, c2, m2)
        /\ c2[co] = c[t] + 1 /\ m2[co] = 0 /\ m2[co] = NonYieldableUpTo(co, C, Len(C))
        /\ G[t] = F[t] /\ G[co] = q /\ C # <<>> /\ Last(C).th = t
        /\ c[t] = CCallsUpTo(C, Len(C))
    BY <1>4 DEF Elsewhere
  <1> HIDE DEF G, c2, m2, st2
  <1>6. Sound(Append(C, Raw(co, "resume", 0, c2[co], m2[co])), G, st2, c2, m2)
    <2>1. /\ Good(C, G) /\ C # <<>> /\ co \in Cos /\ ~InC(C, co) /\ Runner(Last(C))
          /\ "resume" \in {"resume", "unroll"} /\ c2 \in Counters /\ m2 \in Counters
          /\ Exact(C, c2, m2) /\ c2[co] = CCallsUpTo(C, Len(C)) + 1
          /\ m2[co] = NonYieldableUpTo(co, C, Len(C)) /\ CCallsUpTo(C, Len(C)) + 1 < ErrCCalls
          /\ Len(G[Last(C).th]) > Last(C).depth /\ Last(G[Last(C).th]).pc = "wait"
          /\ Last(G[Last(C).th]).fn \in {"resume", "wrap"}
          /\ (G[co] # <<>> => ~Parked(Last(G[co]))) /\ Fits(C, G, st2, co, 0)
      BY <1>5
    <2> QED BY ONLY <2>1, PushResume
  <1>7. Raw(co, "resume", 0, c2[co], m2[co]) = Raw(co, "resume", 0, c[t] + 1, 0)
    BY <1>5
  <1> QED BY <1>6, <1>7 DEF G, c2, m2, st2

=============================================================================
