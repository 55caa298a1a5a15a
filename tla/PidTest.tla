------------------------------- MODULE PidTest ------------------------------
(***************************************************************************)
(* demo/ch3/3.20/test.c: threads that allocate and release pids, and a map *)
(* in_use, kept under a mutex, with which they look for pids given twice.  *)
(***************************************************************************)
EXTENDS PidManager

CONSTANT ITERATIONS

VARIABLES
    process,  \* "running", "exited", or "undefined" behaviour
    i,        \* i[c]: turns of the loop of thread c
    in_use,
    alarm     \* "***PID ALREADY IN USE****" was printed

testVars == <<pidVars, process, i, in_use, alarm>>

TestInit ==
    /\ PidInit
    /\ process = "running"
    /\ i = [c \in Callers |-> 0]
    /\ in_use = [p \in Pids |-> 0]
    /\ alarm = FALSE

Go(c, from, to) == at[c] = from /\ at' = [at EXCEPT ![c] = to]

AllocatePid(c) ==
    /\ process = "running"
    /\ i[c] < ITERATIONS
    /\ Start(c) \/ AllocateStep(c)
    /\ UNCHANGED <<process, i, in_use, alarm>>

\* When `last` became PID_MAX between the test and the second reading, next
\* is PID_MAX + 1 and the map is read beyond its end.
Overrun(c) ==
    /\ process = "running"
    /\ at[c] = "scan" /\ next[c] \notin Pids
    /\ process' = "undefined"
    /\ UNCHANGED <<pidVars, i, in_use, alarm>>

\* allocate_pid returned -1: the next turn of the loop.
NoPid(c) ==
    /\ process = "running"
    /\ Go(c, "returned", "idle")
    /\ result[c] = NONE
    /\ i' = [i EXCEPT ![c] = @ + 1]
    /\ UNCHANGED <<pid_map, last, next, n_loops, result, process, in_use,
                   alarm>>

\* Mistake: the `else` branch is lost.
MarkInUseNever(c) ==
    /\ process = "running"
    /\ Go(c, "returned", "use")
    /\ result[c] # NONE
    /\ alarm' = (alarm \/ in_use[result[c]] = 1)
    /\ UNCHANGED <<pid_map, last, next, n_loops, result, process, i, in_use>>

\* Under test_mutex: a pid that is in use is reported, any other is marked.
MarkInUse(c) ==
    /\ process = "running"
    /\ Go(c, "returned", "use")
    /\ result[c] # NONE
    /\ alarm' = (alarm \/ in_use[result[c]] = 1)
    /\ in_use' = [in_use EXCEPT ![result[c]] = 1]
    /\ UNCHANGED <<pid_map, last, next, n_loops, result, process, i>>

ReleasePid(c) ==
    /\ process = "running"
    /\ Go(c, "use", "clear")
    /\ release_pid(result[c])
    /\ UNCHANGED <<last, next, n_loops, result, process, i, in_use, alarm>>

\* Mistake: a pid that was in use is not cleared by the second one.
ClearInUseOnce(c) ==
    /\ process = "running"
    /\ Go(c, "clear", "idle")
    /\ in_use' = [in_use EXCEPT ![result[c]] = 1 - @]
    /\ i' = [i EXCEPT ![c] = @ + 1]
    /\ UNCHANGED <<pid_map, last, next, n_loops, result, process, alarm>>

\* Under test_mutex.
ClearInUse(c) ==
    /\ process = "running"
    /\ Go(c, "clear", "idle")
    /\ in_use' = [in_use EXCEPT ![result[c]] = 0]
    /\ i' = [i EXCEPT ![c] = @ + 1]
    /\ UNCHANGED <<pid_map, last, next, n_loops, result, process, alarm>>

Thread(c) == AllocatePid(c) \/ Overrun(c) \/ NoPid(c) \/ MarkInUse(c)
             \/ ReleasePid(c) \/ ClearInUse(c)

\* main() has joined all threads.
Exit ==
    /\ process = "running"
    /\ \A c \in Callers : i[c] = ITERATIONS
    /\ process' = "exited"
    /\ UNCHANGED <<pidVars, i, in_use, alarm>>

Ended == process # "running" /\ UNCHANGED testVars

TestNext == (\E c \in Callers : Thread(c)) \/ Exit \/ Ended

TestSpec == TestInit /\ [][TestNext]_testVars

TestTypeOK ==
    /\ PidTypeOK
    /\ process \in {"running", "exited", "undefined"}
    /\ i \in [Callers -> 0 .. ITERATIONS]
    /\ in_use \in [Pids -> {0, 1}]
    /\ alarm \in BOOLEAN

\* The threads between the two critical sections of the loop: they have marked
\* p in in_use, or found it marked, and have not cleared it.  A thread that
\* got p from allocate_pid and still waits for test_mutex is not one of them.
Markers(p) == {c \in Callers : at[c] \in {"use", "clear"} /\ result[c] = p}

\* Whatever the races, a pid that is marked in_use is the pid of a thread
\* that will clear it: at the end the map is empty.
InUseHasAMarker == \A p \in Pids : in_use[p] = 1 => Markers(p) # {}

\* What the test can see: two threads whose uses of one pid overlap, from the
\* one's mark to its clearing, raise the alarm.  While there is none, in_use
\* counts the threads that use each pid.  (A pid that two threads were given,
\* of whom one marks, releases and clears it before the other takes the
\* mutex, raises no alarm: the test sees nothing of that.)
OverlapIsReported ==
    ~alarm => \A p \in Pids : in_use[p] = Cardinality(Markers(p))
=============================================================================
