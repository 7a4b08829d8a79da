------------------------- MODULE CoroutineLifeProofs -------------------------
(***************************************************************************)
(* What follows from CoroutineLife for any set of coroutines.              *)
(***************************************************************************)
EXTENDS CoroutineLife, TLAPS

LifeInv == TypeOK /\ NoReentry /\ LifeAgrees

LEMMA LifeInit == LifeAssumption => (Init => LifeInv)
<1> SUFFICES ASSUME LifeAssumption, Init PROVE LifeInv  OBVIOUS
<1>1. TypeOK  BY DEF Init, TypeOK
<1>2. NoReentry  BY DEF Init, NoReentry
<1>3. LifeAgrees  BY DEF LifeAssumption, Init, LifeAgrees, InChain
<1> QED  BY <1>1, <1>2, <1>3 DEF LifeInv

\* Entering the chain at its end (Resume and Close).
LEMMA Entering ==
    ASSUME LifeInv, NEW co \in Cos, NEW l \in {"active", "closing"},
           ~(life[co] \in {"active", "closing"}),
           active' = Append(active, co), life' = [life EXCEPT ![co] = l]
    PROVE  LifeInv'
<1> USE DEF LifeInv
<1>1. TypeOK'  BY DEF TypeOK
<1>2. /\ Len(active') = Len(active) + 1 /\ active'[Len(active) + 1] = co
      /\ Len(active) \in Nat
      /\ \A i \in 1..Len(active) : active'[i] = active[i]
  BY DEF TypeOK
<1>3. ~InChain(co)  BY DEF LifeAgrees
<1>4. NoReentry'  BY <1>2, <1>3 DEF NoReentry, InChain
<1>5. ASSUME NEW c \in Cos, c # co
      PROVE  life'[c] \in {"active", "closing"} <=> InChain(c)'
  <2>1. life'[c] = life[c]  BY <1>5 DEF TypeOK
  <2>2. InChain(c)' <=> InChain(c)  BY <1>2, <1>5 DEF InChain
  <2> QED  BY <2>1, <2>2 DEF LifeAgrees
<1>6. life'[co] \in {"active", "closing"} /\ InChain(co)'
  BY <1>2 DEF TypeOK, InChain
<1>7. LifeAgrees'  BY <1>5, <1>6 DEF LifeAgrees
<1> QED  BY <1>1, <1>4, <1>7

\* Leaving it from its end (Yield and End).
LEMMA Leaving ==
    ASSUME LifeInv, Len(active) > 1, NEW l \in {"suspended", "dead"},
           active' = Resumer, life' = [life EXCEPT ![Running] = l]
    PROVE  LifeInv'
<1> USE DEF LifeInv
<1>1. /\ Len(active') = Len(active) - 1 /\ Len(active) \in Nat
      /\ \A i \in 1..Len(active') : active'[i] = active[i]
      /\ active' \in Seq({Main} \cup Cos)
  BY DEF TypeOK, Resumer
<1>2. Running \in Cos  BY DEF TypeOK, Running, NoReentry
<1>3. TypeOK'  BY <1>1, <1>2 DEF TypeOK
<1>4. NoReentry'  BY <1>1 DEF NoReentry
<1>5. ASSUME NEW c \in Cos, c = Running PROVE ~InChain(c)'
  BY <1>1, <1>5 DEF InChain, Running, NoReentry
<1>6. ASSUME NEW c \in Cos, c # Running
      PROVE  life'[c] \in {"active", "closing"} <=> InChain(c)'
  <2>1. life'[c] = life[c]  BY <1>6 DEF TypeOK
  <2>2. InChain(c)' <=> InChain(c)  BY <1>1, <1>6 DEF InChain, Running
  <2> QED  BY <2>1, <2>2 DEF LifeAgrees
<1>7. ASSUME NEW c \in Cos, c = Running PROVE life'[c] = l
  BY <1>7 DEF TypeOK
<1>8. LifeAgrees'
  <2> SUFFICES ASSUME NEW c \in Cos
               PROVE  life'[c] \in {"active", "closing"} <=> InChain(c)'
    BY DEF LifeAgrees
  <2>1. CASE c = Running  BY <2>1, <1>5, <1>7, l # "active" /\ l # "closing"
  <2>2. CASE c # Running  BY <2>2, <1>6
  <2> QED  BY <2>1, <2>2
<1> QED  BY <1>3, <1>4, <1>8

LEMMA LifeStep == LifeInv /\ [Next]_vars => LifeInv'
<1> SUFFICES ASSUME LifeInv, [Next]_vars PROVE LifeInv'  OBVIOUS
<1>1. ASSUME NEW co \in Cos, Resume(co) PROVE LifeInv'
  BY <1>1, Entering DEF Resume
<1>2. ASSUME NEW co \in Cos, Close(co) PROVE LifeInv'
  BY <1>2, Entering DEF Close
<1>3. CASE Yield  BY <1>3, Leaving DEF Yield
<1>4. CASE End  BY <1>4, Leaving DEF End
<1>5. CASE Fail
  <2>1. Running \in Cos  BY <1>5 DEF Fail, LifeInv, TypeOK, Running, NoReentry
  <2>2. TypeOK' /\ NoReentry'
    BY <1>5, <2>1 DEF Fail, LifeInv, TypeOK, NoReentry
  <2>3. \A c \in Cos : (life'[c] \in {"active", "closing"}) = (life[c] \in {"active", "closing"})
    BY <1>5, <2>1 DEF Fail, LifeInv, TypeOK
  <2>4. \A c \in Cos : InChain(c)' = InChain(c)  BY <1>5 DEF Fail, InChain
  <2>5. LifeAgrees'  BY <2>3, <2>4 DEF LifeInv, LifeAgrees
  <2> QED  BY <2>2, <2>5 DEF LifeInv
<1>6. CASE UNCHANGED vars
  BY <1>6 DEF vars, LifeInv, TypeOK, NoReentry, LifeAgrees, InChain
<1> QED  BY <1>1, <1>2, <1>3, <1>4, <1>5, <1>6 DEF Next

\* However many coroutines resume and close each other, none is entered twice,
\* and 'auxstatus' agrees with the chain.
THEOREM LifeSafe == LifeAssumption => (Spec => [](TypeOK /\ NoReentry /\ LifeAgrees))
<1>1. LifeInv => TypeOK /\ NoReentry /\ LifeAgrees  BY DEF LifeInv
<1> QED  BY LifeInit, LifeStep, <1>1, PTL DEF Spec

\* A dead coroutine can be closed again, and nothing else.
THEOREM DeadForever == LifeAssumption => (Spec => DeadStaysDead)
<1>1. LifeInv /\ [Next]_vars =>
        [\A co \in Cos : life[co] \in {"dead", "closing"}
                         => life'[co] \in {"dead", "closing"}]_vars
  <2> SUFFICES ASSUME LifeInv, Next, NEW co \in Cos, life[co] \in {"dead", "closing"}
               PROVE  life'[co] \in {"dead", "closing"}
    OBVIOUS
  <2>1. CASE Yield  BY <2>1 DEF Yield, LifeInv, TypeOK, Running
  <2>2. CASE End  BY <2>2 DEF End, LifeInv, TypeOK
  <2>3. CASE Fail  BY <2>3 DEF Fail, LifeInv, TypeOK
  <2>4. ASSUME NEW c \in Cos, Resume(c) PROVE life'[co] \in {"dead", "closing"}
    BY <2>4 DEF Resume, LifeInv, TypeOK
  <2>5. ASSUME NEW c \in Cos, Close(c) PROVE life'[co] \in {"dead", "closing"}
    BY <2>5 DEF Close, LifeInv, TypeOK
  <2> QED  BY <2>1, <2>2, <2>3, <2>4, <2>5 DEF Next
<1> QED  BY LifeInit, LifeStep, <1>1, PTL DEF Spec, DeadStaysDead
=============================================================================
