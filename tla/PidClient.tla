------------------------------ MODULE PidClient -----------------------------
(***************************************************************************)
(* One caller of pid.c, which allocates pids and releases those it holds   *)
(* in any order.                                                           *)
(***************************************************************************)
EXTENDS PidManager

CONSTANT caller
ASSUME ClientAssumption == caller \in Callers   \* the others do not call

VARIABLE held   \* the pids the caller got and did not release

vars == <<pidVars, held>>

Init == PidInit /\ held = {}

Allocate == (Start(caller) \/ AllocateStep(caller)) /\ UNCHANGED held

\* The caller takes note of what allocate_pid returned.
Receive ==
    /\ at[caller] = "returned"
    /\ at' = [at EXCEPT ![caller] = "idle"]
    /\ held' = held \cup ({result[caller]} \ {NONE})
    /\ UNCHANGED <<pid_map, last, next, n_loops, result>>

Release ==
    /\ at[caller] = "idle"
    /\ \E p \in held : release_pid(p) /\ held' = held \ {p}
    /\ UNCHANGED <<last, at, next, n_loops, result>>

Next == Allocate \/ Receive \/ Release

Spec == Init /\ [][Next]_vars

FairSpec == Spec /\ WF_vars(Allocate) /\ WF_vars(Receive)

TypeOK == PidTypeOK /\ held \subseteq Pids

\* Between two calls the map marks the pids the caller holds, no others.
MapIsHeld ==
    at[caller] = "idle" => held = {p \in Pids : pid_map[p] = 1}

\* allocate_pid says -1 only when the caller holds every pid, and never
\* gives out a pid that the caller holds already.
ResultIsFair ==
    at[caller] = "returned" =>
        IF result[caller] = NONE THEN held = Pids ELSE result[caller] \notin held

\* A call comes to an end although the search for a pid may go all around.
CallEnds == at[caller] # "idle" ~> at[caller] = "idle"

\* What the manager has given out: a pid is the caller's from the `return' on.
GivenOut == IF at[caller] = "returned" THEN held \cup ({result[caller]} \ {NONE})
                                       ELSE held

\* The manager is a pool of pids: every answer is a pid that was not given
\* out, or -1 when all were.
Pool == INSTANCE PidPool WITH held <- GivenOut, answer <- result[caller]
ImplementsPool == Pool!Spec
=============================================================================
