----------------------------- MODULE PidManager -----------------------------
(***************************************************************************)
(* demo/ch3/3.20/pid.c: a map of the pids in use and the pid given out     *)
(* last.  The functions take no lock.  A step is one access to a variable  *)
(* that the callers share: `last` is read twice at the start of            *)
(* allocate_pid, and once more for its return value.                       *)
(***************************************************************************)
EXTENDS Integers, FiniteSets

CONSTANTS PID_MIN, PID_MAX, Callers

ASSUME PidAssumption ==
    PID_MIN \in Nat \ {0} /\ PID_MAX \in Nat /\ PID_MIN <= PID_MAX

Pids == PID_MIN .. PID_MAX
SIZE == PID_MAX - PID_MIN + 1
NONE == -1

VARIABLES
    pid_map, last,
    at,       \* at[c]: where caller c is in allocate_pid, or outside it
    next,     \* the local variables of allocate_pid
    n_loops,
    result    \* result[c]: what allocate_pid returned last

pidVars == <<pid_map, last, at, next, n_loops, result>>

\* `at` has more places for the callers' own code.
PidTypeOK ==
    /\ pid_map \in [Pids -> {0, 1}]
    /\ last \in Pids
    /\ \A c \in Callers : /\ next[c] \in PID_MIN .. PID_MAX + 1
                          /\ n_loops[c] \in 0 .. SIZE
                          /\ result[c] \in Pids \cup {NONE}

\* allocate_map.
PidInit ==
    /\ pid_map = [p \in Pids |-> 0]
    /\ last = PID_MIN
    /\ at = [c \in Callers |-> "idle"]
    /\ next = [c \in Callers |-> PID_MIN]
    /\ n_loops = [c \in Callers |-> 0]
    /\ result = [c \in Callers |-> NONE]

(***************************************************************************)
(* allocate_pid                                                            *)
(***************************************************************************)

\* `last == PID_MAX`
Start(c) ==
    /\ at[c] = "idle"
    /\ n_loops' = [n_loops EXCEPT ![c] = 0]
    /\ \/ /\ last = PID_MAX
          /\ next' = [next EXCEPT ![c] = PID_MIN]
          /\ at' = [at EXCEPT ![c] = "scan"]
       \/ /\ last # PID_MAX
          /\ at' = [at EXCEPT ![c] = "reread"]
          /\ UNCHANGED next
    /\ UNCHANGED <<pid_map, last, result>>

\* `next = last + 1`
Reread(c) ==
    /\ at[c] = "reread"
    /\ next' = [next EXCEPT ![c] = last + 1]
    /\ at' = [at EXCEPT ![c] = "scan"]
    /\ UNCHANGED <<pid_map, last, n_loops, result>>

\* Mistake: the loop goes on until a pid is free.
ScanUnbounded(c) ==
    /\ at[c] = "scan"
    /\ next[c] \in Pids
    /\ \/ /\ pid_map[next[c]] = 1
          /\ n_loops' = [n_loops EXCEPT ![c] = (@ + 1) % SIZE]
          /\ next' = [next EXCEPT ![c] = IF @ = PID_MAX THEN PID_MIN
                                                        ELSE @ + 1]
          /\ UNCHANGED at
       \/ /\ pid_map[next[c]] = 0
          /\ at' = [at EXCEPT ![c] = "claim"]
          /\ UNCHANGED <<next, n_loops>>
    /\ UNCHANGED <<pid_map, last, result>>

\* Mistake: `<` for `<=` in the condition, so that the last pid is not tested.
ScanOneLess(c) ==
    /\ at[c] = "scan"
    /\ n_loops[c] < SIZE
    /\ next[c] \in Pids
    /\ \/ /\ n_loops[c] < SIZE - 1
          /\ pid_map[next[c]] = 1
          /\ n_loops' = [n_loops EXCEPT ![c] = @ + 1]
          /\ next' = [next EXCEPT ![c] = IF @ = PID_MAX THEN PID_MIN
                                                        ELSE @ + 1]
          /\ UNCHANGED at
       \/ /\ pid_map[next[c]] = 0 \/ n_loops[c] = SIZE - 1
          /\ at' = [at EXCEPT ![c] = "claim"]
          /\ UNCHANGED <<next, n_loops>>
    /\ UNCHANGED <<pid_map, last, result>>

\* The condition of the loop, and its body.
Scan(c) ==
    /\ at[c] = "scan"
    /\ n_loops[c] < SIZE
    /\ next[c] \in Pids
    /\ \/ /\ pid_map[next[c]] = 1
          /\ n_loops' = [n_loops EXCEPT ![c] = @ + 1]
          /\ next' = [next EXCEPT ![c] = IF @ = PID_MAX THEN PID_MIN
                                                        ELSE @ + 1]
          /\ UNCHANGED at
       \/ /\ pid_map[next[c]] = 0
          /\ at' = [at EXCEPT ![c] = "claim"]
          /\ UNCHANGED <<next, n_loops>>
    /\ UNCHANGED <<pid_map, last, result>>

GiveUp(c) ==
    /\ at[c] = "scan"
    /\ n_loops[c] = SIZE
    /\ result' = [result EXCEPT ![c] = NONE]
    /\ at' = [at EXCEPT ![c] = "returned"]
    /\ UNCHANGED <<pid_map, last, next, n_loops>>

\* Mistake: the pid is given out, but not marked.
ClaimUnmarked(c) ==
    /\ at[c] = "claim"
    /\ at' = [at EXCEPT ![c] = "setLast"]
    /\ UNCHANGED <<pid_map, last, next, n_loops, result>>

Claim(c) ==
    /\ at[c] = "claim"
    /\ pid_map' = [pid_map EXCEPT ![next[c]] = 1]
    /\ at' = [at EXCEPT ![c] = "setLast"]
    /\ UNCHANGED <<last, next, n_loops, result>>

SetLast(c) ==
    /\ at[c] = "setLast"
    /\ last' = next[c]
    /\ at' = [at EXCEPT ![c] = "readLast"]
    /\ UNCHANGED <<pid_map, next, n_loops, result>>

\* `return last`
Return(c) ==
    /\ at[c] = "readLast"
    /\ result' = [result EXCEPT ![c] = last]
    /\ at' = [at EXCEPT ![c] = "returned"]
    /\ UNCHANGED <<pid_map, last, next, n_loops>>

AllocateStep(c) == Reread(c) \/ Scan(c) \/ GiveUp(c) \/ Claim(c) \/ SetLast(c)
                   \/ Return(c)

(***************************************************************************)
(* release_pid                                                             *)
(***************************************************************************)

release_pid(p) == pid_map' = [pid_map EXCEPT ![p] = 0]
=============================================================================
