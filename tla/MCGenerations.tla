---------------------------- MODULE MCGenerations ----------------------------
(***************************************************************************)
(* Instances of two parts of the system that have nothing in common but    *)
(* the thread that runs: calls and coroutines, within either of two        *)
(* bounds, and the generational mode of the collector.  A behaviour runs   *)
(* one of them.                                                            *)
(***************************************************************************)
EXTENDS MCCalls, GenerationalGC

VARIABLE part

\* An old closure or an old weak table, a table that may get a finalizer, and a userdata.
TypesUsed == {<<"closure", "table", "udata">>, <<"weak", "table">>}

PartsInit ==
    /\ part \in {"variables", "coroutines", "generations"} /\ Init /\ GenInit
    /\ part # "generations" => g.type[1] = "weak"

PartsNext ==
    \/ part = "variables" /\ Next /\ OneCoroutine' /\ UNCHANGED <<part, genVars>>
    \/ part = "coroutines" /\ Next /\ OneVariable' /\ UNCHANGED <<part, genVars>>
    \/ part = "generations" /\ GenNext /\ UNCHANGED <<part, vars>>

PartsSpec == PartsInit /\ [][PartsNext]_<<part, vars, genVars>>

PartsView == <<part, View, genVars>>
=============================================================================
