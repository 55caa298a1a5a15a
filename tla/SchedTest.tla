----------------------------- MODULE SchedTest ------------------------------
(***************************************************************************)
(* The scheduler benchmark of assignment 4: sched_test.c, which starts     *)
(* NUM_PROC processes of each kind and adds up what wait3 says of them,    *)
(* and the programs it starts: rw.c, calc_pi.c and rwpi.c, each with the   *)
(* default arguments sched_test gives it.                                  *)
(*                                                                         *)
(* vfork suspends the parent until its child has called exec, so that the  *)
(* two never run side by side in the parent's memory.  A child whose exec  *)
(* fails leaves the loop and returns from the function that called vfork:  *)
(* nothing is defined after that, and the model ends there.                *)
(***************************************************************************)
EXTENDS Integers

CONSTANTS
    NUM_PROC,       \* processes of each kind; may be negative
    Transfer,       \* DEFAULT_TRANSFERSIZE, in blocks of rw
    NumberSize,     \* what rwpi prints at a time, in the same unit
    MaxFailures     \* bound: system calls that fail or read too little

IO    == 1          \* the order in which main() calls runIOBound,
CPU   == 2          \* runCPUBound
MIXED == 3          \* and runMixed
Tests == IO .. MIXED

\* A process is named after the test and the turn of the loop it is made in.
Child == Tests \X (0 .. NUM_PROC - 1)

VARIABLES
    process,    \* "running", "exited", "failed" or "undefined"
    at,         \* where main() is
    test,       \* the test under way
    i,          \* the counter of its loop
    pid,        \* the global variable; only its sign is ever looked at
    counted,    \* the processes whose usage was added to each test's totals
    child,      \* where each process is
    amount,     \* its totalBytesWritten
    failures

main == <<process, at, test, i, pid, counted>>
vars == <<main, child, amount, failures>>

Init ==
    /\ process = "running"
    /\ at = "setup"
    /\ test = IO
    /\ i = 0
    /\ pid = 0
    /\ counted = [t \in Tests |-> {}]
    /\ child = [c \in Child |-> "unborn"]
    /\ amount = [c \in Child |-> 0]
    /\ failures = 0

Fail == failures < MaxFailures /\ failures' = failures + 1

(***************************************************************************)
(* sched_test.c                                                            *)
(***************************************************************************)

\* The output file and the scheduling policy.
Setup ==
    /\ at = "setup"
    /\ \/ at' = "fork" /\ UNCHANGED <<process, failures>>
       \/ Fail /\ process' = "failed" /\ UNCHANGED at
    /\ UNCHANGED <<test, i, pid, counted, child, amount>>

Vfork ==
    /\ at = "fork"
    /\ i < NUM_PROC
    /\ \/ /\ pid' = 0
          /\ at' = "child"
          /\ UNCHANGED <<i, failures>>
       \/ /\ Fail
          /\ pid' = -1
          /\ i' = i + 1
          /\ UNCHANGED at
    /\ UNCHANGED <<process, test, counted, child, amount>>

\* The child, in its parent's memory; when it has gone the parent goes on.
Exec ==
    /\ at = "child"
    /\ \/ /\ child' = [child EXCEPT ![<<test, i>>] = "begin"]
          /\ pid' = 1
          /\ i' = i + 1
          /\ at' = "fork"
          /\ UNCHANGED <<process, failures>>
       \/ /\ Fail
          /\ process' = "undefined"
          /\ UNCHANGED <<at, i, pid, child>>
    /\ UNCHANGED <<test, counted, amount>>

\* `if (pid > 0)'
LoopEnd ==
    /\ at = "fork"
    /\ i >= NUM_PROC
    /\ at' = IF pid > 0 THEN "wait" ELSE "next"
    /\ i' = 0
    /\ UNCHANGED <<process, test, pid, counted, child, amount, failures>>

\* wait3 returns -1 at once when there is no child to wait for.
NoChild == \A c \in Child : child[c] \in {"unborn", "reaped"}

Wait3 ==
    /\ at = "wait"
    /\ i < NUM_PROC
    /\ i' = i + 1
    /\ \/ NoChild /\ UNCHANGED <<child, counted>>
       \/ \E c \in Child :
             /\ child[c] \in {"succeeded", "gaveUp"}
             /\ child' = [child EXCEPT ![c] = "reaped"]
             /\ counted' = [counted EXCEPT ![test] = @ \cup {c}]
    /\ UNCHANGED <<process, at, test, pid, amount, failures>>

\* Mistake: one call of wait3 too few.
WaitEndEarly ==
    /\ at = "wait"
    /\ i >= NUM_PROC - 1
    /\ at' = "next"
    /\ UNCHANGED <<process, test, i, pid, counted, child, amount, failures>>

WaitEnd ==
    /\ at = "wait"
    /\ i >= NUM_PROC
    /\ at' = "next"
    /\ UNCHANGED <<process, test, i, pid, counted, child, amount, failures>>

\* The next test, or the table and the end.
NextTest ==
    /\ at = "next"
    /\ i' = 0
    /\ \/ /\ test < MIXED
          /\ test' = test + 1
          /\ at' = "fork"
          /\ UNCHANGED process
       \/ /\ test = MIXED
          /\ test' = test + 1
          /\ at' = "done"
          /\ process' = "exited"
    /\ UNCHANGED <<pid, counted, child, amount, failures>>

Main ==
    /\ process = "running"
    /\ Setup \/ Vfork \/ Exec \/ LoopEnd \/ Wait3 \/ WaitEnd \/ NextTest

(***************************************************************************)
(* The programs                                                            *)
(***************************************************************************)

GoTo(c, where) == child' = [child EXCEPT ![c] = where]

\* Any system call may fail: perror, and exit(EXIT_FAILURE).
GiveUp(c) == Fail /\ GoTo(c, "gaveUp") /\ UNCHANGED amount

\* rw: the default arguments, the buffer and the two files.
BeginRw(c) ==
    /\ child[c] = "begin" /\ c[1] = IO
    /\ \/ GoTo(c, "read") /\ UNCHANGED <<amount, failures>>
       \/ GiveUp(c)

\* A block is written only when all of it was read; after anything less the
\* file is rewound and read again.
Read(c) ==
    /\ child[c] = "read"
    /\ \/ GoTo(c, "write") /\ UNCHANGED <<amount, failures>>
       \/ Fail /\ UNCHANGED <<child, amount>>
       \/ GiveUp(c)

\* `while (totalBytesWritten < transfersize)'
Continue(c, where) ==
    GoTo(c, IF amount'[c] < Transfer THEN where ELSE "close")

\* Mistake: the loop goes on as long as not more than `transfersize' is written.
WriteBlockMore(c) ==
    /\ child[c] = "write" /\ c[1] = IO
    /\ \/ /\ amount' = [amount EXCEPT ![c] = @ + 1]
          /\ GoTo(c, IF amount'[c] <= Transfer THEN "read" ELSE "close")
          /\ UNCHANGED failures
       \/ GiveUp(c)

WriteBlock(c) ==
    /\ child[c] = "write" /\ c[1] = IO
    /\ \/ /\ amount' = [amount EXCEPT ![c] = @ + 1]
          /\ Continue(c, "read")
          /\ UNCHANGED failures
       \/ GiveUp(c)

\* calc_pi calls nothing that can fail.
CalcPi(c) ==
    /\ child[c] = "begin" /\ c[1] = CPU
    /\ GoTo(c, "succeeded")
    /\ UNCHANGED <<amount, failures>>

\* rwpi: the arguments, the buffer, the output file and the number.
BeginRwpi(c) ==
    /\ child[c] = "begin" /\ c[1] = MIXED
    /\ \/ GoTo(c, "write") /\ UNCHANGED <<amount, failures>>
       \/ GiveUp(c)

\* It writes its number until `transfersize' is reached.
WriteNumber(c) ==
    /\ child[c] = "write" /\ c[1] = MIXED
    /\ \/ /\ amount' = [amount EXCEPT ![c] = @ + NumberSize]
          /\ Continue(c, "write")
          /\ UNCHANGED failures
       \/ GiveUp(c)

\* The files are closed.
Close(c) ==
    /\ child[c] = "close"
    /\ \/ GoTo(c, "succeeded") /\ UNCHANGED <<amount, failures>>
       \/ GiveUp(c)

Run(c) ==
    /\ process # "undefined"
    /\ \/ BeginRw(c) \/ Read(c) \/ WriteBlock(c) \/ Close(c)
       \/ CalcPi(c)
       \/ BeginRwpi(c) \/ WriteNumber(c)
    /\ UNCHANGED main

(***************************************************************************)
(* Properties                                                              *)
(***************************************************************************)

Born(t) == {c \in Child : c[1] = t /\ child[c] # "unborn"}

\* The last vfork of the test failed, so that no process was waited for.
NotWaitedFor(t) ==
    /\ t < test
    /\ ~ \E c \in Born(t) : c[2] = NUM_PROC - 1

Clean(t) == t < test /\ \A s \in IO .. t : ~NotWaitedFor(s)

\* As long as the last vfork of no test has failed, the totals of a finished
\* test are those of all its processes and of no others, however many other
\* calls of vfork failed: no process is left over for the next test.
TotalsAreOfTheTest == \A t \in Tests : Clean(t) => counted[t] = Born(t)

\* A process that ends well wrote what it was asked to write: rw exactly, and
\* rwpi up to one number more.
WorkIsDone ==
    \A c \in Child :
        child[c] = "succeeded" =>
            CASE c[1] = IO -> amount[c] = Transfer
              [] c[1] = CPU -> amount[c] = 0
              [] c[1] = MIXED -> /\ Transfer <= amount[c]
                                 /\ amount[c] < Transfer + NumberSize
=============================================================================
