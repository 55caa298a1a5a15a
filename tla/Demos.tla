-------------------------------- MODULE Demos --------------------------------
(***************************************************************************)
(* The programs of processes, one of which runs: a program of module       *)
(* Programs, a copy through a pipe, or a benchmark that forks, in the      *)
(* earlier form (ForkSched) or in the one that was handed in (SchedTest).  *)
(***************************************************************************)
EXTENDS Programs, PipeCopy, ForkSched

CONSTANTS Processes, Transfer, NumberSize, MaxFailures   \* of SchedTest

ASSUME SchedAssumption ==
    /\ Processes \in Int \ {0}
    /\ Transfer \in Nat \ {0} /\ NumberSize \in Nat \ {0}
    /\ MaxFailures \in Nat

VARIABLES
    running,
    process, stage, test, loop, forked, counted, started, amount, failures

schedVars == <<process, stage, test, loop, forked, counted, started, amount,
               failures>>

Bench == INSTANCE SchedTest WITH
    NUM_PROC <- Processes, at <- stage, i <- loop, pid <- forked,
    child <- started

vars == <<running, programVars, copyVars, forkVars, schedVars>>

\* What does not run is in one initial state.
Init ==
    /\ ProgramInit /\ CopyInit /\ ForkInit /\ Bench!Init
    /\ running \in {"program", "copy", "rw", "pi", "benchmark"}
    /\ running = "program" \/ demo = "message"
    /\ running = "copy" \/ (system = "unix" /\ input \o output = <<>>)
    /\ running \in {"rw", "pi"} \/ inputSize = blocksize

Only(own) ==
    /\ UNCHANGED running
    /\ own # "program" => UNCHANGED programVars
    /\ own # "copy"    => UNCHANGED copyVars
    /\ own # "fork"    => UNCHANGED forkVars
    /\ own # "bench"   => UNCHANGED schedVars

Program(p)  == running = "program" /\ ProgramStep(p) /\ Only("program")
Copy(step)  == running = "copy" /\ step /\ Only("copy")
Parent      == running \in {"rw", "pi"} /\ ParentStep(running) /\ Only("fork")
ForkedChild(c) == running \in {"rw", "pi"} /\ ChildStep(c) /\ Only("fork")
Benchmark   == running = "benchmark" /\ Bench!Main /\ Only("bench")
Started(c)  == running = "benchmark" /\ Bench!Run(c) /\ Only("bench")

Next == \/ \E p \in DOMAIN at : Program(p)
        \/ Copy(CopyParent) \/ Copy(CopyChild)
        \/ Parent \/ (\E c \in Child : ForkedChild(c))
        \/ Benchmark \/ (\E c \in Bench!Child : Started(c))

Spec == Init /\ [][Next]_vars

Names == UNION {DOMAIN Code[d] : d \in DOMAIN Code}

\* Each process runs whenever it can.  Weak fairness is enough although the
\* whales compete for semaphores: each makes finitely many steps.
\* Calls of the benchmark fail, and reads end early, finitely often.
Fairness == /\ \A p \in Names : WF_vars(p \in DOMAIN at /\ Program(p))
            /\ WF_vars(Copy(CopyParent)) /\ WF_vars(Copy(CopyChild))
            /\ WF_vars(Parent) /\ \A c \in Child : WF_vars(ForkedChild(c))
            /\ WF_vars(Benchmark) /\ \A c \in Bench!Child : WF_vars(Started(c))

FairSpec == Spec /\ Fairness

\* Each program comes to its end, or to where it waits for what cannot come.
DemosEnd == <>(CASE running = "program" -> ProgramOver
                 [] running = "copy"    -> CopyOver
                 [] running = "benchmark" -> process # "running"
                 [] OTHER               -> parent \in Ended)

\* As long as the last vfork of no test has failed, the totals of a finished
\* test of sched_test are those of all its processes and of no others, however
\* many other calls of vfork failed: no process is left over for the next test.
TotalsAreOfTheTest == Bench!TotalsAreOfTheTest

\* A process of sched_test that ends well wrote what it was asked to write: rw
\* exactly, and rwpi up to one number more.
WorkIsDone == Bench!WorkIsDone
=============================================================================
