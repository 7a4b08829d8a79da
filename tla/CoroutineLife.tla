---------------------------- MODULE CoroutineLife ----------------------------
(***************************************************************************)
(* What lcorolib.c promises of coroutines, as 'auxstatus' reports them: a   *)
(* thread is in the chain of threads that resumed each other, or it is      *)
(* suspended or dead.  Calls implements this specification.                 *)
(***************************************************************************)
EXTENDS Naturals, Sequences

CONSTANTS Main, Cos

\* The main thread is not a coroutine.
LifeAssumption == Main \notin Cos

VARIABLES
    active, \* Main, the thread it resumed or is closing, and so on: the last runs
    life    \* the life of each coroutine
vars == <<active, life>>

Init ==
    /\ active = <<Main>>
    /\ life = [co \in Cos |-> "suspended"]

Running == active[Len(active)]
Resumer == SubSeq(active, 1, Len(active) - 1)

Resume(co) ==
    /\ life[co] = "suspended"
    /\ active' = Append(active, co)
    /\ life' = [life EXCEPT ![co] = "active"]

Yield ==
    /\ Len(active) > 1 /\ life[Running] = "active"
    /\ active' = Resumer
    /\ life' = [life EXCEPT ![Running] = "suspended"]

\* Its function returned, failed, or its variables were closed.
End ==
    /\ Len(active) > 1
    /\ active' = Resumer
    /\ life' = [life EXCEPT ![Running] = "dead"]

\* coroutine.close: the close methods run as the coroutine.
Close(co) ==
    /\ life[co] \in {"suspended", "dead"}
    /\ active' = Append(active, co)
    /\ life' = [life EXCEPT ![co] = "closing"]

\* The function of 'wrap' closes the coroutine that failed.
Fail ==
    /\ Len(active) > 1 /\ life[Running] = "active"
    /\ life' = [life EXCEPT ![Running] = "closing"]
    /\ UNCHANGED active

Next == Yield \/ End \/ Fail \/ \E co \in Cos : Resume(co) \/ Close(co)

Spec == Init /\ [][Next]_vars

-----------------------------------------------------------------------------
(* Properties. *)

InChain(co) == \E i \in 1..Len(active) : active[i] = co

TypeOK ==
    /\ active \in Seq({Main} \cup Cos)
    /\ Len(active) > 0 /\ active[1] = Main
    /\ life \in [Cos -> {"active", "closing", "suspended", "dead"}]

\* No thread is resumed, or closed, while it is running or has resumed another.
NoReentry ==
    \A i, j \in 1..Len(active) : active[i] = active[j] => i = j

\* The status of a coroutine agrees with the chain of resumed threads.
LifeAgrees == \A co \in Cos : life[co] \in {"active", "closing"} <=> InChain(co)

\* A coroutine that ended, or is being closed, is never suspended again.
DeadStaysDead ==
    [][\A co \in Cos : life[co] \in {"dead", "closing"}
                       => life'[co] \in {"dead", "closing"}]_vars
=============================================================================
