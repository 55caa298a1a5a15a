---------------------------- MODULE DemosProofs ----------------------------
(***************************************************************************)
(* Proofs about the programs of processes in Demos: the benchmark          *)
(* sched_test, for any number of processes and any transfer size; the copy *)
(* through a pipe, for any files, pipe and buffers; the earlier            *)
(* benchmarks, for any number of children and any block size; and the      *)
(* published solution of the whales, for any number of whales.             *)
(***************************************************************************)
EXTENDS Demos, FiniteSetTheorems, FunctionTheorems, SequenceTheorems, TLAPS

(***************************************************************************)
(* The benchmark sched_test                                                *)
(***************************************************************************)
Job   == Bench!Child
Tests == Bench!Tests
Where == {"unborn", "begin", "read", "write", "close", "succeeded", "gaveUp",
          "reaped"}

BenchTypes ==
    /\ stage \in {"setup", "fork", "child", "wait", "next", "done"}
    /\ test \in 1 .. 4 /\ (stage # "done" => test \in Tests)
    /\ loop \in Nat
    /\ stage = "setup" => loop = 0
    /\ stage = "fork" => loop = 0 \/ loop <= Processes
    /\ stage = "child" => loop < Processes
    /\ forked \in {-1, 0, 1}
    /\ counted \in [Tests -> SUBSET Job]
    /\ started \in [Job -> Where]
    /\ amount \in [Job -> Nat]

\* How much a process has written at each point.
AmountsFit ==
    \A c \in Job :
        /\ started[c] \in {"unborn", "begin"} \/ c[1] = 2 => amount[c] = 0
        /\ c[1] # 2 /\ started[c] \in {"read", "write"} => amount[c] < Transfer
        /\ c[1] = 1 /\ started[c] \in {"close", "succeeded"} =>
              amount[c] = Transfer
        /\ c[1] = 3 /\ started[c] \in {"close", "succeeded"} =>
              Transfer <= amount[c] /\ amount[c] < Transfer + NumberSize

\* The processes of test t that were not waited for yet.
Left(t) == {c \in Job : c[1] = t /\ started[c] \notin {"unborn", "reaped"}}

IsBorn(t, k) == <<t, k>> \in Job /\ started[<<t, k>>] # "unborn"

\* The last vfork of each test before t succeeded.
CleanBefore(t) == \A s \in Tests : s < t => IsBorn(s, Processes - 1)

\* Processes are made in order, one test after the other, and only what
\* wait3 returned is counted, in the test that is under way.
OrderOfTests ==
    /\ \A c \in Job : c[1] > test => started[c] = "unborn"
    /\ stage \in {"setup", "fork", "child"} =>
          \A c \in Job : c[1] = test /\ c[2] >= loop => started[c] = "unborn"
    /\ \A t \in Tests : t > test => counted[t] = {}
    /\ \A t \in Tests, c \in Job : c \in counted[t] => started[c] = "reaped"
    /\ \A c \in Job :
          c[1] = test /\ started[c] = "reaped" => c \in counted[test]

\* The sign of pid tells whether the last vfork of the loop succeeded.
PidTells ==
    stage = "fork" /\ loop > 0 /\ IsBorn(test, loop - 1) => forked > 0

\* While the loop waits, at least as many calls of wait3 are left as there are
\* processes, if no earlier test left any; after it none is left, unless the
\* last vfork failed.
EnoughWaits ==
    stage = "wait" /\ CleanBefore(test) =>
        Left(test) = {} \/ Cardinality(Left(test)) <= Processes - loop
NoneLeft ==
    stage = "next" /\ CleanBefore(test) /\ IsBorn(test, Processes - 1) =>
        Left(test) = {}

\* What is counted in a test after clean ones is its own.
CountsOwn ==
    \A t \in Tests : t <= test /\ CleanBefore(t) =>
        \A c \in counted[t] : c[1] = t

TotalsRight ==
    \A t \in Tests : t < test /\ CleanBefore(t + 1) =>
        /\ Left(t) = {}
        /\ \A c \in Job : c[1] = t /\ started[c] = "reaped" => c \in counted[t]

BenchInv == /\ BenchTypes /\ AmountsFit /\ OrderOfTests /\ PidTells
            /\ EnoughWaits /\ NoneLeft /\ CountsOwn /\ TotalsRight

\* A process is a test and a number.
LEMMA JobParts ==
    /\ \A c \in Job : /\ c[1] \in Tests /\ c[2] \in 0 .. Processes - 1
                      /\ c = <<c[1], c[2]>>
    /\ \A t \in Tests, k \in 0 .. Processes - 1 :
          /\ <<t, k>> \in Job
          /\ <<t, k>>[1] = t /\ <<t, k>>[2] = k
    /\ Tests = 1 .. 3 /\ Processes \in Int
  BY SchedAssumption
  DEF Job, Tests, Bench!Child, Bench!Tests, Bench!IO, Bench!MIXED

\* A step of Demos is one of the benchmark, or leaves it alone.
LEMMA BenchMoves ==
    [Next]_vars => \/ Bench!Main
                   \/ \E c \in Job : Bench!Run(c)
                   \/ UNCHANGED schedVars
  BY DEF Next, vars, Program, Copy, Parent, ForkedChild, Benchmark, Started,
     Only, Job

\* The benchmark begins with nothing made, written or counted.
LEMMA BenchInit == Init => BenchInv
<1> SUFFICES ASSUME Init PROVE BenchInv
  OBVIOUS
<1> USE JobParts DEF Init, Bench!Init
<1>1. BenchTypes
  BY DEF BenchTypes, Job, Tests, Where, Bench!IO
<1>2. AmountsFit /\ PidTells /\ EnoughWaits /\ NoneLeft
  BY DEF AmountsFit, PidTells, EnoughWaits, NoneLeft, Job
<1>3. OrderOfTests
  BY DEF OrderOfTests, Job, Tests, Bench!IO
<1>4. CountsOwn
  BY DEF CountsOwn, Tests
<1>5. TotalsRight
  BY DEF TotalsRight, Left, Job, Tests, Bench!IO
<1> QED
  BY <1>1, <1>2, <1>3, <1>4, <1>5 DEF BenchInv

\* Every step of the benchmark keeps the types.
LEMMA BenchTypesStep == BenchInv /\ [Next]_vars => BenchTypes'
<1> SUFFICES ASSUME BenchInv, [Next]_vars PROVE BenchTypes'
  OBVIOUS
<1> USE JobParts DEF BenchInv, BenchTypes
<1>1. CASE Bench!Main
  <2>1. CASE Bench!Setup
    BY <2>1 DEF Bench!Setup
  <2>2. CASE Bench!Vfork
    BY <2>2 DEF Bench!Vfork
  <2>3. CASE Bench!Exec
    BY <2>3 DEF Bench!Exec, Where
  <2>4. CASE Bench!LoopEnd
    BY <2>4 DEF Bench!LoopEnd
  <2>5. CASE Bench!Wait3
    <3>1. CASE UNCHANGED <<started, counted>>
      BY <2>5, <3>1 DEF Bench!Wait3
    <3>2. CASE ~UNCHANGED <<started, counted>>
      <4>1. PICK c \in Job :
              /\ started' = [started EXCEPT ![c] = "reaped"]
              /\ counted' = [counted EXCEPT ![test] = @ \cup {c}]
        BY <2>5, <3>2 DEF Bench!Wait3, Job
      <4> QED
        BY <2>5, <4>1 DEF Bench!Wait3, Where
    <3> QED
      BY <3>1, <3>2
  <2>6. CASE Bench!WaitEnd
    BY <2>6 DEF Bench!WaitEnd
  <2>7. CASE Bench!NextTest
    BY <2>7 DEF Bench!NextTest, Bench!MIXED
  <2> QED
    BY <1>1, <2>1, <2>2, <2>3, <2>4, <2>5, <2>6, <2>7 DEF Bench!Main
<1>2. ASSUME NEW c \in Job, Bench!Run(c) PROVE BenchTypes'
  <2>1. UNCHANGED <<stage, test, loop, forked, counted>>
    BY <1>2 DEF Bench!Run, Bench!main
  <2>2. started' \in [Job -> Where]
    BY <1>2 DEF Bench!Run, Bench!BeginRw, Bench!Read, Bench!WriteBlock,
       Bench!Close, Bench!CalcPi, Bench!BeginRwpi, Bench!WriteNumber,
       Bench!GoTo, Bench!GiveUp, Bench!Continue, Where
  <2>3. amount' \in [Job -> Nat]
    BY <1>2, SchedAssumption DEF Bench!Run, Bench!BeginRw, Bench!Read,
       Bench!WriteBlock, Bench!Close, Bench!CalcPi, Bench!BeginRwpi,
       Bench!WriteNumber, Bench!GiveUp
  <2> QED
    BY <2>1, <2>2, <2>3
<1>3. CASE UNCHANGED schedVars
  BY <1>3 DEF schedVars
<1> QED
  BY BenchMoves, <1>1, <1>2, <1>3

\* The process that vfork makes room for is new.
LEMMA ExecPlace ==
    ASSUME BenchInv, stage = "child"
    PROVE  <<test, loop>> \in Job /\ started[<<test, loop>>] = "unborn"
  BY JobParts DEF BenchInv, BenchTypes, OrderOfTests

\* What the programs write.
LEMMA AmountsStep == BenchInv /\ [Next]_vars => AmountsFit'
<1> SUFFICES ASSUME BenchInv, [Next]_vars PROVE AmountsFit'
  OBVIOUS
<1> USE JobParts, SchedAssumption DEF BenchInv, BenchTypes, AmountsFit
<1>1. CASE Bench!Main
  <2>1. amount' = amount
    BY <1>1 DEF Bench!Main, Bench!Setup, Bench!Vfork, Bench!Exec,
       Bench!LoopEnd, Bench!Wait3, Bench!WaitEnd, Bench!NextTest
  <2>2. CASE UNCHANGED started
    BY <2>1, <2>2
  <2>3. ASSUME NEW c \in Job, NEW w \in {"begin", "reaped"},
               w = "begin" => started[c] = "unborn",
               started' = [started EXCEPT ![c] = w]
        PROVE  AmountsFit'
    BY <2>1, <2>3
  <2>4. CASE Bench!Exec
    BY <2>2, <2>3, <2>4, ExecPlace DEF Bench!Exec
  <2>5. CASE Bench!Wait3
    BY <2>2, <2>3, <2>5 DEF Bench!Wait3, Job
  <2> QED
    BY <1>1, <2>2, <2>4, <2>5 DEF Bench!Main, Bench!Setup, Bench!Vfork,
       Bench!LoopEnd, Bench!WaitEnd, Bench!NextTest
<1>2. ASSUME NEW c \in Job, Bench!Run(c) PROVE AmountsFit'
  <2> USE DEF Bench!GoTo, Bench!GiveUp, Bench!Continue, Bench!IO, Bench!CPU,
      Bench!MIXED
  <2>1. CASE Bench!BeginRw(c)
    BY <2>1 DEF Bench!BeginRw
  <2>2. CASE Bench!Read(c)
    BY <2>2 DEF Bench!Read
  <2>3. CASE Bench!WriteBlock(c)
    BY <2>3 DEF Bench!WriteBlock
  <2>4. CASE Bench!Close(c)
    BY <2>4 DEF Bench!Close
  <2>5. CASE Bench!CalcPi(c)
    BY <2>5 DEF Bench!CalcPi
  <2>6. CASE Bench!BeginRwpi(c)
    BY <2>6 DEF Bench!BeginRwpi
  <2>7. CASE Bench!WriteNumber(c)
    BY <2>7 DEF Bench!WriteNumber
  <2> QED
    BY <1>2, <2>1, <2>2, <2>3, <2>4, <2>5, <2>6, <2>7 DEF Bench!Run
<1>3. CASE UNCHANGED schedVars
  BY <1>3 DEF schedVars
<1> QED
  BY BenchMoves, <1>1, <1>2, <1>3

\* A process that runs neither begins to exist nor is waited for.
LEMMA RunKeeps ==
    ASSUME BenchInv, NEW c \in Job, Bench!Run(c)
    PROVE  /\ UNCHANGED <<stage, test, loop, forked, counted>>
           /\ started[c] \notin {"unborn", "reaped"}
           /\ started'[c] \notin {"unborn", "reaped"}
           /\ \A d \in Job : d # c => started'[d] = started[d]
<1>1. UNCHANGED <<stage, test, loop, forked, counted>>
  BY DEF Bench!Run, Bench!main
<1> QED
  BY <1>1 DEF BenchInv, BenchTypes, Bench!Run, Bench!BeginRw, Bench!Read,
     Bench!WriteBlock, Bench!Close, Bench!CalcPi, Bench!BeginRwpi,
     Bench!WriteNumber, Bench!GoTo, Bench!GiveUp, Bench!Continue

(***************************************************************************)
(* The steps, as far as the totals depend on them.                         *)
(***************************************************************************)
Others(c) == \A d \in Job : d # c => started'[d] = started[d]
AlikeAt(c) == /\ started'[c] = "unborn" <=> started[c] = "unborn"
              /\ started'[c] = "reaped" <=> started[c] = "reaped"

Quiet == /\ UNCHANGED <<stage, test, loop, forked, counted>>
         /\ \A c \in Job : AlikeAt(c)

Loops == /\ UNCHANGED <<test, counted, started>>
         /\ \/ stage = "setup" /\ stage' = "fork" /\ UNCHANGED <<loop, forked>>
            \/ /\ stage = "fork" /\ stage' = "child" /\ UNCHANGED loop
               /\ loop < Processes
            \/ /\ stage = "fork" /\ stage' = "fork" /\ loop' = loop + 1
               /\ forked' = -1 /\ loop < Processes
            \/ /\ stage = "wait" /\ stage' = "next" /\ UNCHANGED loop
               /\ loop >= Processes

Leaves == /\ UNCHANGED <<test, counted, started>>
          /\ stage = "fork" /\ loop >= Processes /\ loop' = 0
          /\ stage' = IF forked > 0 THEN "wait" ELSE "next"

Makes(c) == /\ c = <<test, loop>> /\ stage = "child" /\ stage' = "fork"
            /\ started[c] = "unborn" /\ started'[c] = "begin" /\ Others(c)
            /\ loop' = loop + 1 /\ forked' = 1 /\ UNCHANGED <<test, counted>>

Reaps(c) == /\ stage = "wait" /\ stage' = "wait" /\ loop < Processes
            /\ loop' = loop + 1
            /\ started[c] \notin {"unborn", "reaped"}
            /\ started'[c] = "reaped" /\ Others(c) /\ UNCHANGED test
            /\ counted' = [counted EXCEPT ![test] = @ \cup {c}]

ReapsNone == /\ stage = "wait" /\ stage' = "wait" /\ loop' = loop + 1
             /\ Bench!NoChild /\ UNCHANGED <<test, counted, started>>

Turns == /\ stage = "next" /\ test' = test + 1 /\ loop' = 0
         /\ stage' \in {"fork", "done"}
         /\ UNCHANGED <<counted, started>>

\* The steps of the benchmark, as far as the totals go.
LEMMA TotalMoves ==
    BenchInv /\ [Next]_vars =>
        \/ Quiet \/ Loops \/ Leaves \/ ReapsNone \/ Turns
        \/ \E c \in Job : Makes(c) \/ Reaps(c)
<1> SUFFICES ASSUME BenchInv, [Next]_vars
             PROVE  \/ Quiet \/ Loops \/ Leaves \/ ReapsNone \/ Turns
                    \/ \E c \in Job : Makes(c) \/ Reaps(c)
  OBVIOUS
<1> USE JobParts
<1>1. CASE Bench!Main
  <2>1. CASE Bench!Setup
    BY <2>1 DEF Bench!Setup, Loops, Quiet, AlikeAt
  <2>2. CASE Bench!Vfork
    BY <2>2 DEF Bench!Vfork, Loops
  <2>3. CASE Bench!Exec
    <3>1. CASE UNCHANGED stage
      BY <2>3, <3>1 DEF Bench!Exec, Quiet, AlikeAt
    <3>2. CASE ~UNCHANGED stage
      <4> DEFINE c == <<test, loop>>
      <4>1. c \in Job /\ started[c] = "unborn"
        BY <2>3, ExecPlace DEF Bench!Exec
      <4>2. started' = [started EXCEPT ![c] = "begin"]
        BY <2>3, <3>2 DEF Bench!Exec
      <4>3. started'[c] = "begin" /\ Others(c)
        BY <4>1, <4>2 DEF BenchInv, BenchTypes, Others
      <4>4. Makes(c)
        BY <2>3, <3>2, <4>1, <4>3 DEF Bench!Exec, Makes
      <4> QED
        BY <4>1, <4>4
    <3> QED
      BY <3>1, <3>2
  <2>4. CASE Bench!LoopEnd
    BY <2>4 DEF Bench!LoopEnd, Leaves
  <2>5. CASE Bench!Wait3
    <3>1. CASE Bench!NoChild /\ UNCHANGED <<started, counted>>
      BY <2>5, <3>1 DEF Bench!Wait3, ReapsNone
    <3>2. ASSUME NEW c \in Job, started[c] \in {"succeeded", "gaveUp"},
                 started' = [started EXCEPT ![c] = "reaped"],
                 counted' = [counted EXCEPT ![test] = @ \cup {c}]
          PROVE  Reaps(c)
      <4>1. started'[c] = "reaped" /\ Others(c)
        BY <3>2 DEF BenchInv, BenchTypes, Others
      <4> QED
        BY <2>5, <3>2, <4>1 DEF Bench!Wait3, Reaps
    <3> QED
      BY <2>5, <3>1, <3>2 DEF Bench!Wait3, Job
  <2>6. CASE Bench!WaitEnd
    BY <2>6 DEF Bench!WaitEnd, Loops
  <2>7. CASE Bench!NextTest
    BY <2>7 DEF Bench!NextTest, Turns
  <2> QED
    BY <1>1, <2>1, <2>2, <2>3, <2>4, <2>5, <2>6, <2>7 DEF Bench!Main
<1>2. ASSUME NEW c \in Job, Bench!Run(c) PROVE Quiet
  BY <1>2, RunKeeps DEF Quiet, AlikeAt
<1>3. CASE UNCHANGED schedVars
  BY <1>3 DEF schedVars, Quiet, AlikeAt
<1> QED
  BY BenchMoves, <1>1, <1>2, <1>3

\* The order of the tests is kept.
LEMMA OrderStep == BenchInv /\ [Next]_vars => OrderOfTests'
<1> SUFFICES ASSUME BenchInv, [Next]_vars PROVE OrderOfTests'
  OBVIOUS
<1> USE JobParts DEF BenchInv, BenchTypes, OrderOfTests
<1>1. CASE Quiet
  BY <1>1 DEF Quiet, AlikeAt
<1>2. CASE Loops \/ Leaves \/ ReapsNone
  BY <1>2 DEF Loops, Leaves, ReapsNone
<1>3. CASE Turns
  BY <1>3 DEF Turns
<1>4. ASSUME NEW c \in Job, Makes(c) PROVE OrderOfTests'
  BY <1>4 DEF Makes, Others
<1>5. ASSUME NEW c \in Job, Reaps(c) PROVE OrderOfTests'
  <2>1. test \in Tests /\ c[1] \in Tests
    BY <1>5 DEF Reaps
  <2>2. \A t \in Tests : counted'[t] = IF t = test THEN counted[t] \cup {c}
                                                  ELSE counted[t]
    BY <1>5, <2>1 DEF Reaps
  <2> QED
    BY <1>5, <2>1, <2>2 DEF Reaps, Others
<1> QED
  BY TotalMoves, <1>1, <1>2, <1>3, <1>4, <1>5

\* Before the loop comes to its end, pid has the sign of the last vfork.
LEMMA PidStep == BenchInv /\ [Next]_vars => PidTells'
<1> SUFFICES ASSUME BenchInv, [Next]_vars PROVE PidTells'
  OBVIOUS
<1> USE JobParts DEF BenchInv, BenchTypes, PidTells, IsBorn
<1>1. CASE Quiet
  BY <1>1 DEF Quiet, AlikeAt
<1>2. CASE Loops
  BY <1>2 DEF Loops, OrderOfTests
<1>3. CASE Leaves \/ ReapsNone \/ Turns
  BY <1>3 DEF Leaves, ReapsNone, Turns
<1>4. ASSUME NEW c \in Job, Makes(c) \/ Reaps(c) PROVE PidTells'
  BY <1>4 DEF Makes, Reaps
<1> QED
  BY TotalMoves, <1>1, <1>2, <1>3, <1>4

\* A test that has begun stays as clean as it was.
LEMMA CleanKept ==
    ASSUME BenchInv, [Next]_vars, NEW t \in 1 .. 4, t <= test
    PROVE  /\ CleanBefore(t)' = CleanBefore(t)
           /\ test \in 1 .. 4 /\ test' \in 1 .. 4 /\ test <= test'
<1>1. \A s \in Tests : s < test =>
          (IsBorn(s, Processes - 1)' <=> IsBorn(s, Processes - 1))
  <2> USE JobParts DEF IsBorn
  <2>1. CASE Quiet
    BY <2>1 DEF Quiet, AlikeAt
  <2>2. CASE Loops \/ Leaves \/ ReapsNone \/ Turns
    BY <2>2 DEF Loops, Leaves, ReapsNone, Turns
  <2>3. ASSUME NEW c \in Job, Makes(c) \/ Reaps(c),
               NEW s \in Tests, s < test
        PROVE  IsBorn(s, Processes - 1)' <=> IsBorn(s, Processes - 1)
    BY <2>3 DEF Makes, Reaps, Others
  <2> QED
    BY TotalMoves, <2>1, <2>2, <2>3
<1>2. test \in 1 .. 4 /\ test' \in 1 .. 4 /\ test <= test'
  BY TotalMoves, BenchTypesStep
  DEF BenchInv, BenchTypes, Quiet, Loops, Leaves, ReapsNone, Turns, Makes, Reaps
<1> QED
  BY <1>1, <1>2, JobParts DEF CleanBefore

\* The processes that are left of a test are finitely many, at most as many
\* as are asked for.
LEMMA LeftFinite ==
    ASSUME NEW t \in Tests
    PROVE  /\ IsFiniteSet(Left(t))
           /\ Left(t) = {} \/ Cardinality(Left(t)) <= Processes
<1> DEFINE row == 0 .. Processes - 1
           mine == {c \in Job : c[1] = t}
           f == [k \in row |-> <<t, k>>]
<1>1. /\ IsFiniteSet(row)
      /\ Cardinality(row) = IF Processes <= 0 THEN 0 ELSE Processes
  <2>1. 0 \in Int /\ Processes - 1 \in Int /\ Processes \in Int
    BY JobParts
  <2>2. /\ IsFiniteSet(row)
        /\ Cardinality(row) = IF 0 > Processes - 1 THEN 0
                              ELSE (Processes - 1) - 0 + 1
    BY <2>1, FS_Interval
  <2> HIDE DEF row
  <2> QED
    BY <2>1, <2>2
<1>2. f \in Surjection(row, mine)
  <2>1. f \in [row -> mine]
    BY JobParts
  <2>2. ASSUME NEW c \in mine PROVE \E k \in row : f[k] = c
    BY <2>2, JobParts
  <2> QED
    BY <2>1, <2>2, Fun_IsSurj
<1>3. IsFiniteSet(mine) /\ Cardinality(mine) <= Cardinality(row)
  BY <1>1, <1>2, FS_Surjection
<1>4. /\ IsFiniteSet(Left(t)) /\ Cardinality(Left(t)) <= Cardinality(mine)
      /\ Left(t) \subseteq mine
  BY <1>3, FS_Subset DEF Left
<1>5. Cardinality(mine) \in Nat /\ Cardinality(Left(t)) \in Nat
  BY <1>3, <1>4, FS_CardinalityType
<1>6. Processes <= 0 => mine = {}
  BY JobParts
<1> QED
  BY <1>1, <1>3, <1>4, <1>5, <1>6, JobParts

\* If the earlier tests left nothing, wait3 returns a process of this test.
LEMMA ReapsOwn ==
    ASSUME BenchInv, NEW c \in Job, Reaps(c), CleanBefore(test)
    PROVE  c[1] = test
<1> USE JobParts
<1>1. c[1] \in Tests /\ c[1] <= test /\ test \in Tests
  BY DEF Reaps, BenchInv, BenchTypes, OrderOfTests
<1>2. ASSUME c[1] < test PROVE FALSE
  <2>1. CleanBefore(c[1] + 1)
    BY <1>1, <1>2 DEF CleanBefore
  <2>2. c \in Left(c[1])
    BY DEF Reaps, Left
  <2> QED
    BY <1>1, <1>2, <2>1, <2>2 DEF BenchInv, TotalsRight
<1> QED
  BY <1>1, <1>2

\* As many calls of wait3 are left as there are processes to wait for.
LEMMA WaitsStep == BenchInv /\ [Next]_vars => EnoughWaits'
<1> SUFFICES ASSUME BenchInv, [Next]_vars, stage' = "wait",
                    NEW t \in Tests, t = test', CleanBefore(t)'
             PROVE  \/ Left(t)' = {}
                    \/ Cardinality(Left(t)') <= Processes - loop'
  BY BenchTypesStep DEF EnoughWaits, BenchTypes
<1> USE JobParts
<1>1. CASE Quiet
  <2>1. Left(t)' = Left(t) /\ stage = "wait" /\ loop' = loop /\ test = t
    BY <1>1 DEF Quiet, AlikeAt, Left
  <2>2. CleanBefore(t)
    BY <2>1, CleanKept
  <2> QED
    BY <2>1, <2>2 DEF BenchInv, EnoughWaits
<1>2. CASE Loops \/ Turns
  BY <1>2 DEF Loops, Turns
<1>3. CASE Leaves
  <2>1. loop' = 0 /\ Left(t)' = Left(t)
    BY <1>3 DEF Leaves, Left
  <2> QED
    BY <2>1, LeftFinite
<1>4. CASE ReapsNone
  <2>1. Left(t)' = {}
    BY <1>4 DEF ReapsNone, Bench!NoChild, Left, Job
  <2> QED
    BY <2>1
<1>5. ASSUME NEW c \in Job, Makes(c) PROVE FALSE
  BY <1>5 DEF Makes
<1>6. ASSUME NEW c \in Job, Reaps(c)
      PROVE  \/ Left(t)' = {}
             \/ Cardinality(Left(t)') <= Processes - loop'
  <2>1. /\ stage = "wait" /\ test = t /\ loop' = loop + 1 /\ loop \in Nat
    BY <1>6 DEF Reaps, BenchInv, BenchTypes
  <2>2. CleanBefore(t)
    BY <2>1, CleanKept
  <2>3. Left(t)' = Left(t) \ {c}
    BY <1>6, <2>1 DEF Reaps, Others, Left, BenchInv, BenchTypes
  <2>4. c[1] = t
    BY <1>6, <2>1, <2>2, ReapsOwn
  <2>5. c \in Left(t)
    BY <1>6, <2>4 DEF Reaps, Left
  <2>6. Cardinality(Left(t)) <= Processes - loop
    BY <2>1, <2>2, <2>5 DEF BenchInv, EnoughWaits
  <2>7. /\ IsFiniteSet(Left(t))
        /\ Cardinality(Left(t) \ {c}) = Cardinality(Left(t)) - 1
    BY <2>5, LeftFinite, FS_RemoveElement
  <2>8. Cardinality(Left(t)) \in Nat
    BY <2>7, FS_CardinalityType
  <2> HIDE DEF Left
  <2> QED
    BY <2>1, <2>3, <2>6, <2>7, <2>8
<1> QED
  BY TotalMoves, <1>1, <1>2, <1>3, <1>4, <1>5, <1>6

\* After the last call of wait3 nothing is left.
LEMMA NoneLeftStep == BenchInv /\ [Next]_vars => NoneLeft'
<1> SUFFICES ASSUME BenchInv, [Next]_vars, stage' = "next",
                    NEW t \in Tests, t = test', CleanBefore(t)',
                    IsBorn(t, Processes - 1)'
             PROVE  Left(t)' = {}
  BY BenchTypesStep DEF NoneLeft, BenchTypes
<1> USE JobParts
<1>1. CASE Quiet
  <2>1. /\ Left(t)' = Left(t) /\ stage = "next" /\ test = t
        /\ IsBorn(t, Processes - 1)
    BY <1>1 DEF Quiet, AlikeAt, Left, IsBorn
  <2>2. CleanBefore(t)
    BY <2>1, CleanKept
  <2> QED
    BY <2>1, <2>2 DEF BenchInv, NoneLeft
<1>2. CASE Loops
  <2>1. /\ stage = "wait" /\ loop >= Processes /\ test = t
        /\ Left(t)' = Left(t) /\ loop \in Nat
    BY <1>2 DEF Loops, Left, BenchInv, BenchTypes
  <2>2. CleanBefore(t)
    BY <2>1, CleanKept
  <2>3. Left(t) = {} \/ Cardinality(Left(t)) <= Processes - loop
    BY <2>1, <2>2 DEF BenchInv, EnoughWaits
  <2>4. IsFiniteSet(Left(t)) /\ Cardinality(Left(t)) \in Nat
    BY LeftFinite, FS_CardinalityType
  <2>5. Cardinality(Left(t)) <= Processes - loop => Cardinality(Left(t)) = 0
    BY <2>1, <2>4
  <2> QED
    BY <2>1, <2>3, <2>4, <2>5, FS_EmptySet
<1>3. CASE Leaves
  <2>1. /\ stage = "fork" /\ loop >= Processes /\ test = t /\ ~(forked > 0)
        /\ IsBorn(t, Processes - 1)
    BY <1>3 DEF Leaves, IsBorn
  <2>2. Processes - 1 \in 0 .. Processes - 1 /\ loop = Processes
    BY <2>1 DEF IsBorn, BenchInv, BenchTypes, Job, Bench!Child
  <2> QED
    BY <2>1, <2>2 DEF BenchInv, PidTells
<1>4. CASE ReapsNone \/ Turns
  BY <1>4 DEF ReapsNone, Turns
<1>5. ASSUME NEW c \in Job, Makes(c) \/ Reaps(c) PROVE FALSE
  BY <1>5 DEF Makes, Reaps
<1> QED
  BY TotalMoves, <1>1, <1>2, <1>3, <1>4, <1>5

\* What is counted stays the test's own.
LEMMA OwnStep == BenchInv /\ [Next]_vars => CountsOwn'
<1> SUFFICES ASSUME BenchInv, [Next]_vars,
                    NEW t \in Tests, t <= test', CleanBefore(t)',
                    NEW c \in counted'[t]
             PROVE  c[1] = t
  BY DEF CountsOwn
<1> USE JobParts
<1>1. CASE c \in counted[t]
  <2>1. t <= test
    BY <1>1 DEF BenchInv, OrderOfTests, BenchTypes
  <2> QED
    BY <1>1, <2>1, CleanKept DEF BenchInv, CountsOwn
<1>2. CASE c \notin counted[t]
  <2>1. c \in Job /\ Reaps(c) /\ t = test
    BY <1>2, TotalMoves DEF Quiet, Loops, Leaves, ReapsNone, Turns, Makes,
       Reaps, BenchInv, BenchTypes
  <2>2. CleanBefore(t)
    BY <2>1, CleanKept DEF BenchInv, BenchTypes
  <2> QED
    BY <2>1, <2>2, ReapsOwn
<1> QED
  BY <1>1, <1>2

\* The totals of a test that is over stay right.
LEMMA TotalsStep == BenchInv /\ [Next]_vars => TotalsRight'
<1> SUFFICES ASSUME BenchInv, [Next]_vars,
                    NEW t \in Tests, t < test', CleanBefore(t + 1)'
             PROVE  /\ Left(t)' = {}
                    /\ \A c \in Job : c[1] = t /\ started'[c] = "reaped" =>
                                      c \in counted'[t]
  BY DEF TotalsRight
<1> USE JobParts
<1>1. CASE t < test
  <2>1. CleanBefore(t + 1) /\ t + 1 \in 1 .. 4
    BY <1>1, CleanKept DEF BenchInv, BenchTypes
  <2>2. /\ Left(t) = {}
        /\ \A c \in Job : c[1] = t /\ started[c] = "reaped" => c \in counted[t]
    BY <1>1, <2>1 DEF BenchInv, TotalsRight
  <2>3. CASE Quiet
    BY <2>2, <2>3 DEF Quiet, AlikeAt, Left
  <2>4. CASE Loops \/ Leaves \/ ReapsNone \/ Turns
    BY <2>2, <2>4 DEF Loops, Leaves, ReapsNone, Turns, Left
  <2>5. ASSUME NEW c \in Job, Makes(c) \/ Reaps(c)
        PROVE  /\ c[1] # t /\ counted'[t] = counted[t]
               /\ \A d \in Job : d[1] = t => started'[d] = started[d]
    BY <1>1, <2>2, <2>5 DEF Makes, Reaps, Others, Left, BenchInv, BenchTypes
  <2>6. ASSUME NEW c \in Job, Makes(c) \/ Reaps(c)
        PROVE  /\ Left(t)' = {}
               /\ \A d \in Job : d[1] = t /\ started'[d] = "reaped" =>
                                 d \in counted'[t]
    BY <2>2, <2>5, <2>6 DEF Left
  <2> QED
    BY TotalMoves, <2>3, <2>4, <2>6
<1>2. CASE t = test
  <2>1. Turns
    BY <1>2, TotalMoves DEF Quiet, Loops, Leaves, ReapsNone, Makes, Reaps
  <2>2. CleanBefore(test)' /\ IsBorn(test, Processes - 1)
    BY <1>2, <2>1 DEF CleanBefore, IsBorn, Turns
  <2>3. CleanBefore(test)
    BY <2>1, <2>2 DEF CleanBefore, IsBorn, Turns
  <2>4. Left(test) = {}
    BY <2>1, <2>2, <2>3 DEF BenchInv, NoneLeft, Turns
  <2> QED
    BY <1>2, <2>1, <2>4 DEF Turns, Left, BenchInv, OrderOfTests
<1>3. t <= test
  BY TotalMoves DEF Quiet, Loops, Leaves, ReapsNone, Makes, Reaps, Turns,
     BenchInv, BenchTypes
<1> QED
  BY <1>1, <1>2, <1>3 DEF BenchInv, BenchTypes

\* The invariant of the benchmark is inductive.
THEOREM BenchInvariant == Spec => []BenchInv
<1>1. BenchInv /\ [Next]_vars => BenchInv'
  BY BenchTypesStep, AmountsStep, OrderStep, PidStep, WaitsStep, NoneLeftStep,
     OwnStep, TotalsStep DEF BenchInv
<1> QED
  BY BenchInit, <1>1, PTL DEF Spec

\* As long as the last vfork of no test fails, the totals of a test that is
\* over are those of all its processes and of no others.
THEOREM TotalsCorrect == Spec => []TotalsAreOfTheTest
<1>1. BenchInv => TotalsAreOfTheTest
  <2> SUFFICES ASSUME BenchInv, NEW t \in Tests, Bench!Clean(t)
               PROVE  counted[t] = Bench!Born(t)
    BY DEF TotalsAreOfTheTest, Bench!TotalsAreOfTheTest, Tests
  <2> USE JobParts
  <2>1. t < test
    BY DEF Bench!Clean
  <2>2. ASSUME NEW s \in Tests, s <= t PROVE IsBorn(s, Processes - 1)
    <3>1. s < test /\ ~Bench!NotWaitedFor(s)
      BY <2>1, <2>2 DEF Bench!Clean, Bench!IO, BenchInv, BenchTypes
    <3>2. PICK c \in Bench!Born(s) : c[2] = Processes - 1
      BY <3>1 DEF Bench!NotWaitedFor
    <3> QED
      BY <3>2 DEF Bench!Born, IsBorn, Job
  <2>3. CleanBefore(t) /\ CleanBefore(t + 1)
    BY <2>2 DEF CleanBefore
  <2>4. /\ Left(t) = {}
        /\ \A c \in Job : c[1] = t /\ started[c] = "reaped" => c \in counted[t]
    BY <2>1, <2>3 DEF BenchInv, TotalsRight
  <2>5. \A c \in counted[t] : c \in Job /\ c[1] = t /\ started[c] = "reaped"
    BY <2>1, <2>3 DEF BenchInv, BenchTypes, CountsOwn, OrderOfTests
  <2> QED
    BY <2>4, <2>5 DEF Bench!Born, Left, Job
<1> QED
  BY BenchInvariant, <1>1, PTL

\* A process that ends well wrote what it was asked to write.
THEOREM WorkDone == Spec => []WorkIsDone
<1>1. BenchInv => WorkIsDone
  <2> SUFFICES ASSUME BenchInv, NEW c \in Job, started[c] = "succeeded"
               PROVE  /\ c[1] = 1 => amount[c] = Transfer
                      /\ c[1] = 2 => amount[c] = 0
                      /\ c[1] = 3 => /\ Transfer <= amount[c]
                                     /\ amount[c] < Transfer + NumberSize
    <3>1. \A c \in Job : c[1] = 1 \/ c[1] = 2 \/ c[1] = 3
      BY JobParts
    <3> QED
      BY <3>1 DEF WorkIsDone, Bench!WorkIsDone, Job, Bench!IO, Bench!CPU,
         Bench!MIXED
  <2> QED
    BY DEF BenchInv, AmountsFit
<1> QED
  BY BenchInvariant, <1>1, PTL

(***************************************************************************)
(* The copy through a pipe                                                 *)
(***************************************************************************)
Bytes == Seq(Nat)

CopyTypes ==
    /\ system \in {"unix", "windows"}
    /\ failed \in BOOLEAN
    /\ input \in Bytes /\ sending \in Bytes /\ pipe \in Bytes
    /\ copying \in Bytes /\ output \in Bytes
    /\ inPos \in 0 .. Len(input) /\ outPos \in 0 .. Len(output)

\* Who is where: the child exists between the parent's start and its own
\* end, and what they hold in their buffers and ends.
CopyPhase ==
    /\ parentAt \in {"open", "failure"} => childAt = "none" /\ pipe = <<>>
    /\ parentAt \in {"close read end", "read", "write", "end"} =>
          "parent" \in writers
    /\ parentAt \notin {"write", "end", "wait", "exited"} => sending = <<>>
    /\ childAt # "write" /\ ~failed => copying = <<>>
    /\ childAt \in {"none", "open", "close write end"} => outPos = 0
    /\ childAt = "open" => system = "windows"
    /\ childAt = "close write end" => system = "unix"
    /\ childAt = "no output" => failed
    /\ parentAt = "exited" => childAt = "exited"

\* What was read of the input is in the output, the child's buffer, the pipe
\* and the parent's buffer, one after the other, if nothing failed.
InOrder ==
    LET atPipe == outPos + Len(copying)
    IN /\ atPipe + Len(pipe) + Len(sending) = inPos
       /\ \A k \in 1 .. outPos : output[k] = input[k]
       /\ \A k \in 1 .. Len(copying) : copying[k] = input[outPos + k]
       /\ \A k \in 1 .. Len(pipe) : pipe[k] = input[atPipe + k]
       /\ \A k \in 1 .. Len(sending) :
             sending[k] = input[atPipe + Len(pipe) + k]

\* The end of the input, and then of the pipe, was reached.
Reached ==
    /\ parentAt \in {"end", "wait", "exited"} =>
          inPos = Len(input) /\ sending = <<>>
    /\ childAt \in {"end", "exited"} => writers = {} /\ pipe = <<>>
    /\ system = "windows" /\ childAt \notin {"none", "open"} =>
          Len(output) = outPos

CopyInv == CopyTypes /\ CopyPhase /\ (~failed => InOrder /\ Reached)


\* The cells of a part of a sequence.
LEMMA Part ==
    ASSUME NEW s \in Bytes, NEW m \in Nat, NEW n \in Nat, m + n <= Len(s)
    PROVE  /\ SubSeq(s, m + 1, m + n) \in Bytes
           /\ Len(SubSeq(s, m + 1, m + n)) = n
           /\ \A k \in 1 .. n : SubSeq(s, m + 1, m + n)[k] = s[m + k]
<1>1. Len(s) \in Nat BY LenProperties DEF Bytes
<1>2. \A k \in m + 1 .. m + n : s[k] \in Nat
    BY <1>1, ElementOfSeq DEF Bytes
<1>3. m + 1 \in Int /\ m + n \in Int OBVIOUS
<1>4. /\ SubSeq(s, m + 1, m + n) \in Seq(Nat)
      /\ Len(SubSeq(s, m + 1, m + n)) =
             IF m + 1 <= m + n THEN (m + n) - (m + 1) + 1 ELSE 0
      /\ \A k \in 1 .. (m + n) - (m + 1) + 1 :
             SubSeq(s, m + 1, m + n)[k] = s[(m + 1) + k - 1]
    BY <1>2, <1>3, SubSeqProperties
<1>5. \A k \in Int : (m + 1) + k - 1 = m + k
    OBVIOUS
<1>6. (m + n) - (m + 1) + 1 = n OBVIOUS
<1>7. SubSeq(s, m + 1, m + n) \in Bytes BY <1>4 DEF Bytes
<1>8. Len(SubSeq(s, m + 1, m + n)) = n BY <1>4, <1>6
<1>9. \A k \in 1 .. n : SubSeq(s, m + 1, m + n)[k] = s[m + k]
    <2>1. TAKE k \in 1 .. n
    <2>2. SubSeq(s, m + 1, m + n)[k] = s[(m + 1) + k - 1] BY <1>4, <1>6
    <2> QED BY <2>2, <1>5
<1> QED BY <1>7, <1>8, <1>9

\* A beginning, and what is left without it.
LEMMA FirstPart ==
    ASSUME NEW s \in Bytes, NEW n \in Nat, n <= Len(s)
    PROVE  /\ SubSeq(s, 1, n) \in Bytes
           /\ Len(SubSeq(s, 1, n)) = n
           /\ \A k \in 1 .. n : SubSeq(s, 1, n)[k] = s[k]
<1>1. PICK z \in Nat : z = 0 OBVIOUS
<1>2. z + 1 = 1 /\ z + n = n /\ \A k \in 1 .. n : z + k = k BY <1>1
<1>3. z + n <= Len(s) BY <1>2
<1>4. /\ SubSeq(s, z + 1, z + n) \in Bytes
      /\ Len(SubSeq(s, z + 1, z + n)) = n
      /\ \A k \in 1 .. n : SubSeq(s, z + 1, z + n)[k] = s[z + k]
    BY <1>3, Part
<1> QED BY <1>2, <1>4

\* What is left without a beginning.
LEMMA LastPart ==
    ASSUME NEW s \in Bytes, NEW n \in Nat, n <= Len(s)
    PROVE  /\ SubSeq(s, n + 1, Len(s)) \in Bytes
           /\ Len(SubSeq(s, n + 1, Len(s))) = Len(s) - n
           /\ \A k \in 1 .. Len(s) - n :
                 SubSeq(s, n + 1, Len(s))[k] = s[n + k]
<1>1. Len(s) \in Nat BY LenProperties DEF Bytes
<1>2. PICK d \in Nat : d = Len(s) - n /\ n + d = Len(s)
    <2>1. Len(s) - n \in Nat /\ n + (Len(s) - n) = Len(s) BY <1>1
    <2> QED BY <2>1
<1>3. n + d <= Len(s) BY <1>1, <1>2
<1>4. /\ SubSeq(s, n + 1, n + d) \in Bytes
      /\ Len(SubSeq(s, n + 1, n + d)) = d
      /\ \A k \in 1 .. d : SubSeq(s, n + 1, n + d)[k] = s[n + k]
    BY <1>3, Part
<1> QED BY <1>2, <1>4

\* One sequence after the other.
LEMMA Joined ==
    ASSUME NEW s \in Bytes, NEW t \in Bytes
    PROVE  /\ s \o t \in Bytes
           /\ Len(s \o t) = Len(s) + Len(t)
           /\ \A k \in 1 .. Len(s) : (s \o t)[k] = s[k]
           /\ \A k \in 1 .. Len(t) : (s \o t)[Len(s) + k] = t[k]
<1>1. Len(s) \in Nat /\ Len(t) \in Nat BY LenProperties DEF Bytes
<1>2. /\ s \o t \in Bytes
      /\ Len(s \o t) = Len(s) + Len(t)
      /\ \A k \in 1 .. Len(s) + Len(t) : (s \o t)[k] =
             IF k <= Len(s) THEN s[k] ELSE t[k - Len(s)]
    BY ConcatProperties DEF Bytes
<1>3. \A k \in 1 .. Len(s) : (s \o t)[k] = s[k] BY <1>1, <1>2
<1>4. \A k \in 1 .. Len(t) : (s \o t)[Len(s) + k] = t[k]
    <2>1. TAKE k \in 1 .. Len(t)
    <2>2. /\ Len(s) + k \in 1 .. Len(s) + Len(t)
          /\ ~(Len(s) + k <= Len(s))
          /\ Len(s) + k - Len(s) = k
        BY <1>1
    <2> QED BY <2>2, <1>2
<1> QED BY <1>2, <1>3, <1>4

\* Writing c over what is at position p, or beyond the end.
Over(o, c, p) == SubSeq(o, 1, p) \o c \o SubSeq(o, p + Len(c) + 1, Len(o))

\* Writing over a sequence leaves what is before and behind.
LEMMA WrittenOver ==
    ASSUME NEW o \in Bytes, NEW c \in Bytes, NEW p \in 0 .. Len(o)
    PROVE  /\ Over(o, c, p) \in Bytes
           /\ p + Len(c) <= Len(Over(o, c, p))
           /\ p = Len(o) => Len(Over(o, c, p)) = p + Len(c)
           /\ \A k \in 1 .. p : Over(o, c, p)[k] = o[k]
           /\ \A k \in 1 .. Len(c) : Over(o, c, p)[p + k] = c[k]
<1> DEFINE r == Over(o, c, p)
           before == SubSeq(o, 1, p)
           after  == SubSeq(o, p + Len(c) + 1, Len(o))
<1>1. Len(o) \in Nat /\ Len(c) \in Nat /\ p \in Nat /\ p <= Len(o)
    BY LenProperties DEF Bytes
<1>2. /\ before \in Bytes /\ Len(before) = p
      /\ \A k \in 1 .. p : before[k] = o[k]
    BY <1>1, FirstPart
<1>3. after \in Bytes /\ (p = Len(o) => Len(after) = 0)
    <2>1. CASE p + Len(c) <= Len(o)
        <3>1. p + Len(c) \in Nat BY <1>1
        <3>2. /\ after \in Bytes
              /\ Len(after) = Len(o) - (p + Len(c))
            BY <3>1, <2>1, LastPart
        <3>3. p = Len(o) => Len(o) - (p + Len(c)) = 0 BY <1>1, <2>1
        <3> QED BY <3>2, <3>3
    <2>2. CASE ~(p + Len(c) <= Len(o))
        <3>1. /\ p + Len(c) + 1 \in Int /\ Len(o) \in Int
              /\ Len(o) < p + Len(c) + 1
            BY <1>1, <2>2
        <3>2. after = <<>> BY <3>1, SubSeqEmpty
        <3> QED BY <3>2, EmptySeq DEF Bytes
    <2> QED BY <2>1, <2>2
<1>4. Len(after) \in Nat BY <1>3, LenProperties DEF Bytes
<1> HIDE DEF before, after
<1>5. /\ before \o c \in Bytes /\ Len(before \o c) = p + Len(c)
      /\ \A k \in 1 .. p : (before \o c)[k] = before[k]
      /\ \A k \in 1 .. Len(c) : (before \o c)[p + k] = c[k]
    BY <1>2, Joined
<1> DEFINE both == before \o c
<1>6. r = both \o after BY DEF before, after, Over
<1> HIDE DEF r
<1>7. /\ r \in Bytes /\ Len(r) = (p + Len(c)) + Len(after)
      /\ \A k \in 1 .. p + Len(c) : r[k] = both[k]
    <2>1. both \in Bytes /\ Len(both) = p + Len(c) BY <1>5
    <2> HIDE DEF both
    <2>2. /\ both \o after \in Bytes
          /\ Len(both \o after) = Len(both) + Len(after)
          /\ \A k \in 1 .. Len(both) : (both \o after)[k] = both[k]
        BY <2>1, <1>3, Joined
    <2> QED BY <2>1, <2>2, <1>6
<1>8. p + Len(c) <= Len(r) BY <1>1, <1>4, <1>7
<1>9. p = Len(o) => Len(r) = p + Len(c) BY <1>1, <1>3, <1>7
<1>10. \A k \in 1 .. p : r[k] = o[k]
    <2>1. TAKE k \in 1 .. p
    <2>2. k \in 1 .. p + Len(c) BY <1>1
    <2> QED BY <2>2, <1>2, <1>5, <1>7
<1>11. \A k \in 1 .. Len(c) : r[p + k] = c[k]
    <2>1. TAKE k \in 1 .. Len(c)
    <2>2. p + k \in 1 .. p + Len(c) BY <1>1
    <2> QED BY <2>2, <1>5, <1>7
<1> QED BY <1>7, <1>8, <1>9, <1>10, <1>11 DEF r

\* Nothing is copied at first.
LEMMA CopyBegins == ASSUME PipeCopyAssumption, CopyInit PROVE CopyInv
<1> USE DEF CopyInit
<1>1. PICK n \in Inputs : input = [k \in 1 .. n |-> k] OBVIOUS
<1>2. PICK m \in Olds : output = [k \in 1 .. m |-> 0] OBVIOUS
<1>3. n \in Nat /\ m \in Nat BY DEF PipeCopyAssumption
<1>4. input \in Bytes /\ Len(input) = n
    BY <1>1, <1>3 DEF Bytes
<1>5. output \in Bytes /\ Len(output) = m
    <2> HIDE DEF CopyInit
    <2>1. output \in [1 .. m -> Nat] BY <1>2, Zenon
    <2>2. output \in Seq(Nat) BY <2>1, <1>3
    <2>3. DOMAIN output = 1 .. m BY <1>2, Zenon
    <2>4. Len(output) = m BY <2>2, <2>3, <1>3
    <2> QED BY <2>2, <2>4 DEF Bytes
<1>6. CopyTypes
    <2>1. <<>> \in Bytes BY EmptySeq DEF Bytes
    <2>2. inPos \in 0 .. Len(input) /\ outPos \in 0 .. Len(output)
        <3>1. inPos = 0 /\ outPos = 0 OBVIOUS
        <3> HIDE DEF CopyInit
        <3>2. Len(input) \in Nat /\ Len(output) \in Nat
            BY <1>3, <1>4, <1>5
        <3> QED BY <3>1, <3>2
    <2> QED BY <2>1, <2>2, <1>4, <1>5 DEF CopyTypes
<1>7. CopyPhase BY DEF CopyPhase
<1>8. InOrder /\ Reached BY EmptySeq DEF InOrder, Reached
<1> QED BY <1>6, <1>7, <1>8 DEF CopyInv

\* The parent takes the next buffer of the input.
LEMMA ReadInputStep ==
    ASSUME PipeCopyAssumption, CopyInv, ReadInput PROVE CopyInv'
<1> USE DEF CopyInv
<1>1. PICK n \in Nat :
        \/ /\ n <= Len(input) - inPos
           /\ sending' = SubSeq(input, inPos + 1, inPos + n)
           /\ inPos' = inPos + n
           /\ parentAt' = IF n = 0 THEN "end" ELSE "write"
           /\ n = 0 => inPos = Len(input)
           /\ failed' = failed
        \/ /\ parentAt' = "end" /\ failed' = TRUE
           /\ UNCHANGED <<sending, inPos>>
    <2>1. /\ Len(input) \in Nat /\ inPos \in Nat /\ inPos <= Len(input)
          /\ Size[system] \in Nat \ {0}
        BY LenProperties DEF CopyTypes, Bytes, Size, PipeCopyAssumption
    <2> DEFINE left == Len(input) - inPos
               n    == IF left < Size[system] THEN left ELSE Size[system]
    <2>2. /\ n \in Nat /\ n <= Len(input) - inPos
          /\ n = 0 => inPos = Len(input)
        BY <2>1
    <2>3. \/ /\ sending' = SubSeq(input, inPos + 1, inPos + n)
             /\ inPos' = inPos + n
             /\ parentAt' = IF n = 0 THEN "end" ELSE "write"
             /\ UNCHANGED failed
          \/ /\ parentAt' = "end" /\ failed' = TRUE
             /\ UNCHANGED <<sending, inPos>>
        BY DEF ReadInput
    <2> HIDE DEF n
    <2> QED BY <2>2, <2>3
<1>2. /\ parentAt = "read"
      /\ UNCHANGED <<system, childAt, input, pipe, readers, writers, copying,
                     output, outPos>>
    BY DEF ReadInput
<1>3. CASE failed'
    <2>1. CopyPhase' BY <1>1, <1>2, <1>3, EmptySeq DEF CopyPhase
    <2>2. CASE UNCHANGED <<sending, inPos>>
        BY <2>1, <2>2, <1>1, <1>2, <1>3 DEF CopyTypes
    <2>3. CASE ~UNCHANGED <<sending, inPos>>
        <3>1. Len(input) \in Nat /\ inPos \in Nat /\ inPos + n <= Len(input)
            BY <1>1, <2>3, LenProperties DEF CopyTypes, Bytes
        <3>2. sending' = SubSeq(input, inPos + 1, inPos + n) BY <1>1, <2>3
        <3>3. input \in Bytes BY DEF CopyTypes
        <3>4. SubSeq(input, inPos + 1, inPos + n) \in Bytes
            BY <3>1, <3>3, Part
        <3>5. inPos' \in 0 .. Len(input) BY <1>1, <2>3, <3>1
        <3>6. CopyTypes'
            BY <3>2, <3>4, <3>5, <1>2, <1>3 DEF CopyTypes
        <3> QED BY <3>6, <2>1, <1>3
    <2> QED BY <2>2, <2>3
<1>4. CASE ~failed'
    <2>1. /\ sending' = SubSeq(input, inPos + 1, inPos + n)
          /\ inPos' = inPos + n /\ inPos + n <= Len(input)
          /\ parentAt' = IF n = 0 THEN "end" ELSE "write"
          /\ n = 0 => inPos = Len(input)
          /\ failed' = failed /\ ~failed
        BY <1>1, <1>4, LenProperties DEF CopyTypes, Bytes
    <2>2. /\ sending' \in Bytes /\ Len(sending') = n
          /\ \A k \in 1 .. n : sending'[k] = input[inPos + k]
        <3>1. input \in Bytes /\ inPos \in Nat BY DEF CopyTypes
        <3> QED BY <2>1, <3>1, Part
    <2>3. CopyTypes'
        <3>1. Len(input) \in Nat /\ inPos \in Nat
            BY LenProperties DEF CopyTypes, Bytes
        <3>2. inPos' \in 0 .. Len(input) BY <3>1, <2>1
        <3>3. sending' \in Bytes /\ failed' \in BOOLEAN
            BY <2>1, <2>2 DEF CopyTypes
        <3>4. UNCHANGED <<system, input, pipe, copying, output, outPos>>
            BY <1>2
        <3> QED BY <3>2, <3>3, <3>4 DEF CopyTypes
    <2>4. n = 0 => sending' = <<>> BY <2>2, EmptySeq DEF Bytes
    <2>5. CopyPhase' BY <2>1, <2>4, <1>2 DEF CopyPhase
    <2>6. sending = <<>> /\ Len(sending) = 0
        BY <1>2, EmptySeq DEF CopyPhase
    <2>7. /\ Len(copying) \in Nat /\ Len(pipe) \in Nat /\ outPos \in Nat
          /\ inPos \in Nat
        BY LenProperties DEF CopyTypes, Bytes
    <2>8. InOrder'
        <3>1. outPos + Len(copying) + Len(pipe) = inPos
            BY <2>1, <2>6, <2>7 DEF InOrder
        <3>2. outPos + Len(copying) + Len(pipe) + Len(sending') = inPos'
            BY <3>1, <2>1, <2>2, <2>7
        <3>3. \A k \in 1 .. Len(sending') :
                 sending'[k] = input[outPos + Len(copying) + Len(pipe) + k]
            BY <3>1, <2>2
        <3> QED BY <3>2, <3>3, <2>1, <1>2 DEF InOrder
    <2>9. Reached' BY <2>1, <2>4, <2>7, <1>2 DEF Reached
    <2> QED BY <2>3, <2>5, <2>8, <2>9
<1> QED BY <1>3, <1>4

\* A beginning of the parent's buffer moves to the end of the pipe.
LEMMA WritePipeStep ==
    ASSUME PipeCopyAssumption, CopyInv, WritePipe PROVE CopyInv'
<1> USE DEF CopyInv
<1>1. PICK n \in Nat :
        /\ n <= Len(sending)
        /\ pipe' = pipe \o SubSeq(sending, 1, n)
        /\ sending' = SubSeq(sending, n + 1, Len(sending))
    <2>1. Len(sending) \in Nat /\ Len(pipe) \in Nat
        BY LenProperties DEF CopyTypes, Bytes
    <2> DEFINE free == PIPE_SIZE - Len(pipe)
               n    == IF Len(sending) < free THEN Len(sending) ELSE free
    <2>2. /\ n > 0 /\ pipe' = pipe \o SubSeq(sending, 1, n)
          /\ sending' = SubSeq(sending, n + 1, Len(sending))
        BY DEF WritePipe
    <2>3. n \in Nat /\ n <= Len(sending)
        BY <2>1, <2>2 DEF PipeCopyAssumption
    <2> HIDE DEF n
    <2> QED BY <2>2, <2>3
<1>2. /\ parentAt = "write"
      /\ parentAt' = IF sending' = <<>> THEN "read" ELSE "write"
      /\ UNCHANGED <<system, childAt, input, inPos, readers, writers,
                     copying, output, outPos, failed>>
    BY DEF WritePipe
<1>3. /\ Len(copying) \in Nat /\ Len(pipe) \in Nat /\ Len(sending) \in Nat
      /\ outPos \in Nat /\ inPos \in Nat
    BY LenProperties DEF CopyTypes, Bytes
<1> DEFINE part == SubSeq(sending, 1, n)
<1>4. /\ part \in Bytes /\ Len(part) = n
      /\ \A k \in 1 .. n : part[k] = sending[k]
    BY <1>1, FirstPart DEF CopyTypes
<1>5. /\ sending' \in Bytes /\ Len(sending') = Len(sending) - n
      /\ \A k \in 1 .. Len(sending) - n : sending'[k] = sending[n + k]
    BY <1>1, LastPart DEF CopyTypes
<1> HIDE DEF part
<1>6. /\ pipe' \in Bytes /\ Len(pipe') = Len(pipe) + n
      /\ \A k \in 1 .. Len(pipe) : pipe'[k] = pipe[k]
      /\ \A k \in 1 .. n : pipe'[Len(pipe) + k] = part[k]
    <2>1. pipe \in Bytes BY DEF CopyTypes
    <2>2. /\ pipe \o part \in Bytes
          /\ Len(pipe \o part) = Len(pipe) + Len(part)
          /\ \A k \in 1 .. Len(pipe) : (pipe \o part)[k] = pipe[k]
          /\ \A k \in 1 .. Len(part) : (pipe \o part)[Len(pipe) + k] = part[k]
        BY <2>1, <1>4, Joined
    <2>3. pipe' = pipe \o part BY <1>1 DEF part
    <2> QED BY <2>2, <2>3, <1>4
<1>7. CopyTypes' BY <1>2, <1>5, <1>6 DEF CopyTypes
<1>8. CopyPhase' BY <1>2 DEF CopyPhase
<1>9. ASSUME ~failed' PROVE InOrder' /\ Reached'
    <2> DEFINE atPipe == outPos + Len(copying)
    <2>1. InOrder /\ Reached BY <1>2, <1>9
    <2>2. /\ atPipe \in Nat
          /\ atPipe + Len(pipe) + Len(sending) = inPos
          /\ \A k \in 1 .. Len(pipe) : pipe[k] = input[atPipe + k]
          /\ \A k \in 1 .. Len(sending) :
                sending[k] = input[atPipe + Len(pipe) + k]
        BY <2>1, <1>3 DEF InOrder
    <2> HIDE DEF atPipe
    <2>3. atPipe + Len(pipe') + Len(sending') = inPos
        BY <2>2, <1>1, <1>3, <1>5, <1>6
    <2>4. \A k \in 1 .. Len(pipe') : pipe'[k] = input[atPipe + k]
        <3>1. TAKE k \in 1 .. Len(pipe')
        <3>2. CASE k <= Len(pipe) BY <3>2, <2>2, <1>3, <1>6
        <3>3. CASE k > Len(pipe)
            <4>1. PICK j \in 1 .. n : k = Len(pipe) + j
                <5>1. k - Len(pipe) \in 1 .. n
                      /\ k = Len(pipe) + (k - Len(pipe))
                    BY <3>3, <1>3, <1>6
                <5> QED BY <5>1
            <4>2. pipe'[k] = sending[j] BY <4>1, <1>4, <1>6
            <4>3. j \in 1 .. Len(sending) BY <1>1, <1>3
            <4>4. sending[j] = input[atPipe + Len(pipe) + j] BY <4>3, <2>2
            <4>5. atPipe + Len(pipe) + j = atPipe + k BY <4>1, <2>2, <1>3
            <4> QED BY <4>2, <4>4, <4>5
        <3> QED BY <3>2, <3>3, <1>3
    <2>5. \A k \in 1 .. Len(sending') :
             sending'[k] = input[atPipe + Len(pipe') + k]
        <3>1. TAKE k \in 1 .. Len(sending')
        <3>2. n + k \in 1 .. Len(sending) BY <1>1, <1>3, <1>5
        <3>3. sending'[k] = input[atPipe + Len(pipe) + (n + k)]
            BY <3>2, <2>2, <1>5
        <3>4. atPipe + Len(pipe) + (n + k) = atPipe + Len(pipe') + k
            BY <2>2, <1>3, <1>6
        <3> QED BY <3>3, <3>4
    <2>6. InOrder' BY <2>1, <2>3, <2>4, <2>5, <1>2 DEF InOrder, atPipe
    <2>7. Reached'
        <3>1. ~(childAt \in {"end", "exited"})
            BY <2>1, <1>2 DEF Reached, CopyPhase
        <3> QED BY <3>1, <2>1, <1>2 DEF Reached
    <2> QED BY <2>6, <2>7
<1> QED BY <1>7, <1>8, <1>9

\* The rest of what the parent does moves no byte.
LEMMA CopyParentStep ==
    ASSUME PipeCopyAssumption, CopyInv, CopyParent PROVE CopyInv'
<1> USE DEF CopyInv
<1>1. CASE Refuse
    <2>1. UNCHANGED <<system, childAt, data, writers>> /\ parentAt' = "failure"
          /\ parentAt = "open"
        BY <1>1 DEF Refuse
    <2>2. CopyTypes' BY <2>1 DEF CopyTypes, data
    <2>3. CopyPhase' BY <2>1 DEF CopyPhase, data
    <2>4. (~failed => InOrder /\ Reached)'
        BY <2>1 DEF InOrder, Reached, data
    <2> QED BY <2>2, <2>3, <2>4
<1>2. CASE Start
    <2>1. /\ UNCHANGED <<system, data>> /\ parentAt = "open"
          /\ parentAt' = IF system = "unix" THEN "close read end" ELSE "read"
          /\ childAt' = IF system = "unix" THEN "close write end" ELSE "open"
          /\ "parent" \in writers'
        BY <1>2 DEF Start
    <2>2. CopyTypes' BY <2>1 DEF CopyTypes, data
    <2>3. CopyPhase' BY <2>1 DEF CopyPhase, data, CopyTypes
    <2>4. (~failed => InOrder /\ Reached)'
        BY <2>1 DEF InOrder, Reached, data, CopyTypes
    <2> QED BY <2>2, <2>3, <2>4
<1>3. CASE CloseReadEnd
    <2>1. /\ UNCHANGED <<system, childAt, data, writers>>
          /\ parentAt = "close read end" /\ parentAt' = "read"
        BY <1>3 DEF CloseReadEnd
    <2>2. CopyTypes' BY <2>1 DEF CopyTypes, data
    <2>3. CopyPhase' BY <2>1 DEF CopyPhase, data
    <2>4. (~failed => InOrder /\ Reached)'
        BY <2>1 DEF InOrder, Reached, data
    <2> QED BY <2>2, <2>3, <2>4
<1>4. CASE ReadInput BY <1>4, ReadInputStep
<1>5. CASE WritePipe BY <1>5, WritePipeStep
<1>6. CASE CloseWriteEnd
    <2>1. /\ UNCHANGED <<system, childAt, data>>
          /\ parentAt = "end" /\ parentAt' = "wait"
          /\ writers' = writers \ {"parent"}
        BY <1>6 DEF CloseWriteEnd
    <2>2. CopyTypes' BY <2>1 DEF CopyTypes, data
    <2>3. CopyPhase' BY <2>1 DEF CopyPhase, data
    <2>4. (~failed => InOrder /\ Reached)'
        BY <2>1 DEF InOrder, Reached, data
    <2> QED BY <2>2, <2>3, <2>4
<1>7. CASE WaitForChild
    <2>1. /\ UNCHANGED <<system, childAt, data, writers>>
          /\ parentAt = "wait" /\ parentAt' = "exited" /\ childAt = "exited"
        BY <1>7 DEF WaitForChild
    <2>2. CopyTypes' BY <2>1 DEF CopyTypes, data
    <2>3. CopyPhase' BY <2>1 DEF CopyPhase, data
    <2>4. (~failed => InOrder /\ Reached)'
        BY <2>1 DEF InOrder, Reached, data
    <2> QED BY <2>2, <2>3, <2>4
<1> QED BY <1>1, <1>2, <1>3, <1>4, <1>5, <1>6, <1>7 DEF CopyParent

\* The child takes a beginning of what is in the pipe, or finds its end.
LEMMA ReadPipeStep ==
    ASSUME PipeCopyAssumption, CopyInv, ReadPipe PROVE CopyInv'
<1> USE DEF CopyInv
<1>1. /\ Len(pipe) \in Nat /\ Len(copying) \in Nat /\ Len(sending) \in Nat
      /\ outPos \in Nat /\ inPos \in Nat
    BY LenProperties DEF CopyTypes, Bytes
<1>2. PICK n \in Nat :
        /\ n <= Len(pipe)
        /\ n = 0 => Len(pipe) = 0
        /\ copying' = SubSeq(pipe, 1, n)
        /\ pipe' = SubSeq(pipe, n + 1, Len(pipe))
        /\ childAt' = CASE n = 0 \/ childAt = "no output" -> "end"
                        [] OTHER                          -> "write"
    <2> DEFINE n == IF Len(pipe) < Room[system] THEN Len(pipe)
                    ELSE Room[system]
    <2>1. Room[system] \in Nat \ {0}
        BY DEF CopyTypes, Room, PipeCopyAssumption
    <2>2. /\ copying' = SubSeq(pipe, 1, n)
          /\ pipe' = SubSeq(pipe, n + 1, Len(pipe))
          /\ childAt' = CASE n = 0 \/ childAt = "no output" -> "end"
                          [] OTHER                          -> "write"
        BY DEF ReadPipe
    <2>3. n \in Nat /\ n <= Len(pipe) /\ (n = 0 => Len(pipe) = 0)
        BY <2>1, <1>1
    <2> HIDE DEF n
    <2> QED BY <2>2, <2>3
<1>3. /\ childAt \in {"read", "no output"}
      /\ pipe # <<>> \/ writers = {}
      /\ UNCHANGED <<system, parentAt, input, inPos, readers, writers, sending,
                     output, outPos, failed>>
    BY DEF ReadPipe
<1>4. /\ copying' \in Bytes /\ Len(copying') = n
      /\ \A k \in 1 .. n : copying'[k] = pipe[k]
    BY <1>2, FirstPart DEF CopyTypes
<1>5. /\ pipe' \in Bytes /\ Len(pipe') = Len(pipe) - n
      /\ \A k \in 1 .. Len(pipe) - n : pipe'[k] = pipe[n + k]
    BY <1>2, LastPart DEF CopyTypes
<1>6. childAt' \in {"end", "write"} /\ (childAt = "read" =>
          (childAt' = "end" <=> n = 0))
    BY <1>2, <1>3
<1>7. CopyTypes' BY <1>3, <1>4, <1>5 DEF CopyTypes
<1>8. n = 0 => copying' = <<>> /\ pipe' = <<>> /\ pipe = <<>>
    BY <1>1, <1>2, <1>4, <1>5, EmptySeq DEF CopyTypes, Bytes
<1>9. CopyPhase'
    <2>1. parentAt \notin {"open", "failure", "exited"}
        BY <1>3 DEF CopyPhase
    <2>2. childAt' # "write" /\ ~failed' => copying' = <<>>
        BY <1>3, <1>6, <1>8 DEF CopyPhase
    <2> QED BY <2>1, <2>2, <1>3, <1>6 DEF CopyPhase
<1>10. ASSUME ~failed' PROVE InOrder' /\ Reached'
    <2>1. InOrder /\ Reached /\ copying = <<>> /\ childAt = "read"
        BY <1>3, <1>10 DEF CopyPhase
    <2>2. Len(copying) = 0 BY <2>1, EmptySeq
    <2>3. /\ outPos + Len(pipe) + Len(sending) = inPos
          /\ \A k \in 1 .. Len(pipe) : pipe[k] = input[outPos + k]
          /\ \A k \in 1 .. Len(sending) :
                sending[k] = input[outPos + Len(pipe) + k]
        BY <2>1, <2>2, <1>1 DEF InOrder
    <2>4. /\ outPos + Len(copying') + Len(pipe') = outPos + Len(pipe)
          /\ outPos + Len(copying') = outPos + n
        BY <1>1, <1>4, <1>5
    <2>5. \A k \in 1 .. Len(copying') : copying'[k] = input[outPos + k]
        <3>1. TAKE k \in 1 .. Len(copying')
        <3>2. k \in 1 .. n BY <1>4
        <3>3. n <= Len(pipe) BY <1>2
        <3>4. k \in 1 .. Len(pipe) BY <3>2, <3>3, <1>1
        <3> QED BY <3>2, <3>4, <2>3, <1>4
    <2>6. \A k \in 1 .. Len(pipe') :
             pipe'[k] = input[outPos + Len(copying') + k]
        <3>1. TAKE k \in 1 .. Len(pipe')
        <3>2. n + k \in 1 .. Len(pipe)
            <4>1. k \in 1 .. Len(pipe) - n /\ n <= Len(pipe)
                BY <1>2, <1>5
            <4> QED BY <4>1, <1>1
        <3>3. pipe'[k] = input[outPos + (n + k)] BY <3>2, <2>3, <1>5
        <3>4. outPos + (n + k) = outPos + Len(copying') + k
            BY <2>4, <1>1
        <3> QED BY <3>3, <3>4
    <2>7. InOrder'
        <3>1. \A k \in 1 .. outPos : output[k] = input[k]
            BY <2>1 DEF InOrder
        <3> QED BY <3>1, <2>3, <2>4, <2>5, <2>6, <1>3 DEF InOrder
    <2>8. Reached' BY <2>1, <1>3, <1>6, <1>8 DEF Reached
    <2> QED BY <2>7, <2>8
<1> QED BY <1>7, <1>9, <1>10

\* The child's buffer goes to the output, at the position it has reached.
LEMMA WriteOutputStep ==
    ASSUME PipeCopyAssumption, CopyInv, WriteOutput PROVE CopyInv'
<1> USE DEF CopyInv
<1>1. /\ Len(pipe) \in Nat /\ Len(copying) \in Nat /\ Len(sending) \in Nat
      /\ outPos \in Nat /\ inPos \in Nat /\ Len(output) \in Nat
    BY LenProperties DEF CopyTypes, Bytes
<1>2. /\ childAt = "write" /\ copying' = <<>>
      /\ UNCHANGED <<system, parentAt, input, inPos, pipe, readers, writers,
                     sending>>
    BY DEF WriteOutput
<1>3. copying' \in Bytes /\ Len(copying') = 0
    BY <1>2, EmptySeq DEF Bytes
<1>4. CASE failed' /\ UNCHANGED <<output, outPos>>
    <2>1. failed' = TRUE /\ childAt' \in {"read", "end"}
        BY <1>2, <1>4 DEF WriteOutput, CopyTypes
    <2>2. CopyTypes' BY <2>1, <1>2, <1>3, <1>4 DEF CopyTypes
    <2>3. CopyPhase' BY <2>1, <1>2 DEF CopyPhase
    <2> QED BY <2>1, <2>2, <2>3
<1>5. CASE ~(failed' /\ UNCHANGED <<output, outPos>>)
    <2>1. /\ output' = SubSeq(output, 1, outPos) \o copying
                       \o SubSeq(output, outPos + Len(copying) + 1, Len(output))
          /\ outPos' = outPos + Len(copying)
          /\ childAt' = "read"
          /\ UNCHANGED failed
        BY <1>5 DEF WriteOutput
    <2>2. /\ output' \in Bytes
          /\ outPos + Len(copying) <= Len(output')
          /\ outPos = Len(output) => Len(output') = outPos + Len(copying)
          /\ \A k \in 1 .. outPos : output'[k] = output[k]
          /\ \A k \in 1 .. Len(copying) : output'[outPos + k] = copying[k]
        <3>1. output \in Bytes /\ copying \in Bytes
              /\ outPos \in 0 .. Len(output)
            BY DEF CopyTypes
        <3>2. output' = Over(output, copying, outPos) BY <2>1 DEF Over
        <3> QED BY <3>1, <3>2, WrittenOver
    <2>3. CopyTypes'
        <3>1. Len(output') \in Nat BY <2>2, LenProperties DEF Bytes
        <3>2. outPos' \in 0 .. Len(output')
            <4>1. outPos' <= Len(output') /\ outPos' \in Nat
                BY <2>1, <2>2, <1>1
            <4> QED BY <4>1, <3>1
        <3> QED BY <3>2, <2>1, <2>2, <1>2, <1>3 DEF CopyTypes
    <2>4. CopyPhase' BY <2>1, <1>2 DEF CopyPhase
    <2>5. ASSUME ~failed' PROVE InOrder' /\ Reached'
        <3>1. InOrder /\ Reached BY <2>1, <2>5
        <3>2. outPos' + Len(copying') = outPos + Len(copying)
            BY <2>1, <1>1, <1>3
        <3>3. \A k \in 1 .. outPos' : output'[k] = input[k]
            <4>1. TAKE k \in 1 .. outPos'
            <4>2. CASE k <= outPos
                BY <4>2, <3>1, <2>2, <1>1 DEF InOrder
            <4>3. CASE k > outPos
                <5>1. /\ k - outPos \in 1 .. Len(copying)
                      /\ k = outPos + (k - outPos)
                    BY <4>3, <2>1, <1>1
                <5>2. copying[k - outPos] = input[outPos + (k - outPos)]
                    BY <5>1, <3>1 DEF InOrder
                <5> QED BY <5>1, <5>2, <2>2
            <4> QED BY <4>2, <4>3, <2>1, <1>1
        <3>4. \A k \in 1 .. Len(copying') :
                 copying'[k] = input[outPos' + k]
            BY <1>3
        <3>5. /\ outPos + Len(copying) + Len(pipe) + Len(sending) = inPos
              /\ \A k \in 1 .. Len(pipe) :
                    pipe[k] = input[outPos + Len(copying) + k]
              /\ \A k \in 1 .. Len(sending) :
                    sending[k] = input[outPos + Len(copying) + Len(pipe) + k]
            BY <3>1 DEF InOrder
        <3>6. InOrder' BY <3>2, <3>3, <3>4, <3>5, <1>2 DEF InOrder
        <3>7. Reached' BY <3>1, <2>1, <2>2, <1>1, <1>2 DEF Reached
        <3> QED BY <3>6, <3>7
    <2> QED BY <2>3, <2>4, <2>5
<1> QED BY <1>4, <1>5

\* The child as a whole.
LEMMA CopyChildStep ==
    ASSUME PipeCopyAssumption, CopyInv, CopyChild PROVE CopyInv'
<1> USE DEF CopyInv
<1>1. CASE ChildCloseWriteEnd
    <2>1. /\ UNCHANGED <<system, parentAt, data>>
          /\ childAt = "close write end" /\ childAt' = "read"
          /\ writers' = writers \ {"child"}
        BY <1>1 DEF ChildCloseWriteEnd
    <2>2. CopyTypes' BY <2>1 DEF CopyTypes, data
    <2>3. CopyPhase' BY <2>1 DEF CopyPhase, data
    <2>4. (~failed => InOrder /\ Reached)'
        <3>1. system = "unix" BY <2>1 DEF CopyPhase
        <3> QED BY <3>1, <2>1 DEF InOrder, Reached, data
    <2> QED BY <2>2, <2>3, <2>4
<1>2. CASE CreateOutput
    <2>1. /\ childAt = "open" /\ outPos = 0
          /\ UNCHANGED <<system, parentAt, input, inPos, pipe, readers, writers,
                         sending, copying, outPos>>
        BY <1>2 DEF CreateOutput, CopyPhase
    <2>2. CASE childAt' = "read" /\ output' = <<>> /\ UNCHANGED failed
        <3>1. output' \in Bytes /\ Len(output') = 0
            BY <2>2, EmptySeq DEF Bytes
        <3>2. CopyTypes' BY <3>1, <2>1, <2>2 DEF CopyTypes
        <3>3. CopyPhase' BY <2>1, <2>2 DEF CopyPhase
        <3>4. (~failed => InOrder /\ Reached)'
            BY <3>1, <2>1, <2>2 DEF InOrder, Reached
        <3> QED BY <3>2, <3>3, <3>4
    <2>3. CASE childAt' = "no output" /\ failed' = TRUE /\ UNCHANGED output
        <3>1. CopyTypes' BY <2>1, <2>3 DEF CopyTypes
        <3>2. CopyPhase' BY <2>1, <2>3 DEF CopyPhase
        <3> QED BY <3>1, <3>2, <2>3
    <2> QED BY <1>2, <2>2, <2>3 DEF CreateOutput
<1>3. CASE ReadPipe BY <1>3, ReadPipeStep
<1>4. CASE WriteOutput BY <1>4, WriteOutputStep
<1>5. CASE ChildExit
    <2>1. /\ UNCHANGED <<system, parentAt, data, writers>>
          /\ childAt = "end" /\ childAt' = "exited"
        BY <1>5 DEF ChildExit
    <2>2. CopyTypes' BY <2>1 DEF CopyTypes, data
    <2>3. CopyPhase' BY <2>1 DEF CopyPhase, data
    <2>4. (~failed => InOrder /\ Reached)'
        BY <2>1 DEF InOrder, Reached, data
    <2> QED BY <2>2, <2>3, <2>4
<1> QED BY <1>1, <1>2, <1>3, <1>4, <1>5 DEF CopyChild

\* In these states the output is what the parent has read.
LEMMA CopyInvMeans == ASSUME CopyInv PROVE CopyIsFaithful
<1> SUFFICES ASSUME ~failed, parentAt # "failure"
             PROVE  /\ SubSeq(output, 1, outPos) = SubSeq(input, 1, outPos)
                    /\ parentAt = "exited" =>
                          /\ outPos = Len(input) /\ pipe = <<>>
                          /\ Len(output) > outPos => system = "unix"
    BY DEF CopyIsFaithful
<1>1. CopyTypes /\ CopyPhase /\ InOrder /\ Reached BY DEF CopyInv
<1>2. /\ Len(pipe) \in Nat /\ Len(copying) \in Nat /\ Len(sending) \in Nat
      /\ outPos \in Nat /\ inPos \in Nat /\ outPos <= Len(output)
      /\ inPos <= Len(input) /\ Len(input) \in Nat /\ Len(output) \in Nat
    BY <1>1, LenProperties DEF CopyTypes, Bytes
<1>3. outPos <= Len(input) BY <1>1, <1>2 DEF InOrder
<1>4. /\ SubSeq(output, 1, outPos) \in Bytes
      /\ Len(SubSeq(output, 1, outPos)) = outPos
      /\ \A k \in 1 .. outPos : SubSeq(output, 1, outPos)[k] = output[k]
    BY <1>1, <1>2, FirstPart DEF CopyTypes
<1>5. /\ SubSeq(input, 1, outPos) \in Bytes
      /\ Len(SubSeq(input, 1, outPos)) = outPos
      /\ \A k \in 1 .. outPos : SubSeq(input, 1, outPos)[k] = input[k]
    BY <1>1, <1>2, <1>3, FirstPart DEF CopyTypes
<1>6. SubSeq(output, 1, outPos) = SubSeq(input, 1, outPos)
    BY <1>1, <1>4, <1>5, SeqEqual DEF InOrder, Bytes
<1>7. ASSUME parentAt = "exited"
      PROVE  /\ outPos = Len(input) /\ pipe = <<>>
             /\ Len(output) > outPos => system = "unix"
    <2>1. /\ childAt = "exited" /\ sending = <<>> /\ pipe = <<>>
          /\ copying = <<>> /\ inPos = Len(input)
        BY <1>1, <1>7 DEF CopyPhase, Reached
    <2>2. outPos = Len(input)
        BY <2>1, <1>1, <1>2, EmptySeq DEF InOrder
    <2>3. system # "unix" => Len(output) = outPos
        BY <2>1, <1>1 DEF Reached, CopyTypes
    <2> QED BY <2>1, <2>2, <2>3, <1>2
<1> QED BY <1>6, <1>7

\* The copy through a pipe, next to the other programs: whatever the lengths
\* of the files, of the buffers and of the pipe, and however the two processes
\* take turns, the output is a beginning of the input, and the whole of it
\* when the parent has exited and nothing has failed.
THEOREM CopyFaithful == Spec => []CopyIsFaithful
<1>1. Init => CopyInv BY PipeCopyAssumption, CopyBegins DEF Init
<1>2. CopyInv /\ [Next]_vars => CopyInv'
    <2> SUFFICES ASSUME CopyInv, [Next]_vars PROVE CopyInv'
        OBVIOUS
    <2>1. CASE CopyParent BY <2>1, PipeCopyAssumption, CopyParentStep
    <2>2. CASE CopyChild BY <2>2, PipeCopyAssumption, CopyChildStep
    <2>3. CASE UNCHANGED copyVars
        BY <2>3 DEF copyVars, CopyInv, CopyTypes, CopyPhase, InOrder, Reached
    <2> QED BY <2>1, <2>2, <2>3 DEF Next, Program, Copy, Parent, ForkedChild,
                Benchmark, Started, Only, vars
<1>3. CopyInv => CopyIsFaithful BY CopyInvMeans
<1> QED BY <1>1, <1>2, <1>3, PTL DEF Spec

(***************************************************************************)
(* The earlier benchmarks rw and pi                                        *)
(***************************************************************************)
Life == {"none", "name", "calc", "read", "reset", "write", "close"} \cup Ended

ForkTypes ==
    /\ NUM_PROC \in -1 .. MAX_PROC /\ i \in Nat /\ (i <= NUM_PROC \/ i = 0)
    /\ parent \in {"args", "fork", "wait", "close"} \cup Ended
    /\ pid \in Child \cup {-1}
    /\ worker \in [Child -> Life]
    /\ inputSize \in InputSizes /\ offset \in 0 .. inputSize
    /\ block \in [Child -> Nat] /\ totalBytesWritten \in [Child -> Nat]
    /\ reads \in [0 .. inputSize -> Nat] /\ resets \in Nat
    /\ short \in BOOLEAN

\* Children are made one after the other, and have written nothing before.
ForkOrder ==
    /\ parent = "args" => i = 0
    /\ parent \in {"args", "fork"} =>
          \A c \in Child :
              c > i => worker[c] = "none" /\ totalBytesWritten[c] = 0
    /\ \A c \in Child :
          worker[c] \in {"name", "calc"} => totalBytesWritten[c] = 0

\* The offset is at the beginning of a block or at the end of the input; what
\* is before it may have been read once more than it was reset.
OffsetShared ==
    /\ offset % blocksize = 0 \/ offset = inputSize
    /\ \A b \in 0 .. inputSize :
          reads[b] <= resets + (IF b < offset THEN 1 ELSE 0)
    /\ \A c \in Child : worker[c] = "write" =>
          block[c] % blocksize = 0 /\ block[c] + blocksize <= inputSize

\* A child that goes on has written less than it should, and whole blocks if
\* no write was short.
TotalsFit ==
    \A c \in Child :
        /\ worker[c] \in {"read", "reset", "write"} =>
              /\ totalBytesWritten[c] < transfersize
              /\ short \/ totalBytesWritten[c] % blocksize = 0
        /\ worker[c] \in {"close", "EXIT_SUCCESS"}
              /\ totalBytesWritten[c] > 0 =>
              \/ totalBytesWritten[c] = transfersize
              \/ short /\ totalBytesWritten[c]
                             \in transfersize .. transfersize + blocksize - 1

\* The children wait was not called for, or did not return yet.
Unwaited == {c \in Child : worker[c] # "none"}

\* At least as many calls of wait are left as there are children.
WaitsSuffice ==
    /\ parent = "fork" => \A c \in Unwaited : c <= i
    /\ parent = "wait" =>
          Unwaited = {} \/ Cardinality(Unwaited) <= NUM_PROC - i
    /\ parent \in {"close"} \cup Ended /\ pid > 0 => Unwaited = {}

ForkInv == ForkTypes /\ ForkOrder /\ OffsetShared /\ TotalsFit /\ WaitsSuffice

\* Sums of multiples.
LEMMA NextMultiple ==
    ASSUME NEW a \in Nat, NEW b \in Nat \ {0}, a % b = 0
    PROVE  (a + b) % b = 0
<1> DEFINE q == a \div b
           r == (a + b) \div b
           m == (a + b) % b
<1>1. q \in Nat /\ a = b * q OBVIOUS
<1>2. r \in Nat /\ m \in 0 .. b - 1 /\ a + b = b * r + m OBVIOUS
<1> HIDE DEF q, r, m
<1>3. b * (q + 1) = b * r + m BY <1>1, <1>2
<1>4. CASE r <= q
    <2>1. b * r <= b * q BY <1>1, <1>2, <1>4
    <2>2. b * (q + 1) = b * q + b BY <1>1
    <2> QED BY <2>1, <2>2, <1>1, <1>2, <1>3
<1>5. CASE r > q + 1
    <2>1. q + 2 <= r BY <1>1, <1>2, <1>5
    <2>2. b * (q + 2) <= b * r BY <2>1, <1>1, <1>2
    <2>3. b * (q + 2) = b * (q + 1) + b BY <1>1
    <2> QED BY <2>2, <2>3, <1>1, <1>2, <1>3
<1>6. CASE r = q + 1 BY <1>6, <1>1, <1>2, <1>3 DEF m
<1> QED BY <1>4, <1>5, <1>6, <1>1, <1>2

\* Between a multiple and a greater one there is room for one more.
LEMMA MultipleFits ==
    ASSUME NEW a \in Nat, NEW t \in Nat, NEW b \in Nat \ {0},
           a % b = 0, t % b = 0, a < t
    PROVE  a + b <= t
<1>1. a = b * (a \div b) /\ t = b * (t \div b) OBVIOUS
<1>2. a \div b \in Nat /\ t \div b \in Nat OBVIOUS
<1>3. \A x, y \in Nat : b * x < b * y => b * x + b <= b * y
    <2> TAKE x, y \in Nat
    <2>1. CASE y <= x
        <3>1. b * y <= b * x BY <2>1
        <3> QED BY <3>1
    <2>2. CASE y > x
        <3>1. x + 1 <= y BY <2>2
        <3>2. b * (x + 1) <= b * y BY <3>1
        <3>3. b * (x + 1) = b * x + b OBVIOUS
        <3> QED BY <3>2, <3>3
    <2> QED BY <2>1, <2>2
<1> QED BY <1>1, <1>2, <1>3

\* No child is there, and the file offset is at the start.
LEMMA ForkBegins == ASSUME ForkSchedAssumption, ForkInit PROVE ForkInv
<1> USE DEF ForkInit
<1>1. /\ blocksize \in Nat \ {0} /\ transfersize \in Nat \ {0}
      /\ MAX_PROC \in Nat /\ inputSize \in Nat
    BY DEF ForkSchedAssumption
<1>2. 0 % blocksize = 0 BY <1>1
<1>3. ForkTypes
    <2>1. reads \in [0 .. inputSize -> Nat] BY <1>1
    <2>2. NUM_PROC \in -1 .. MAX_PROC /\ i \in Nat /\ i <= NUM_PROC
          /\ offset \in 0 .. inputSize
        BY <1>1
    <2>3. worker \in [Child -> Life] /\ parent = "args" /\ pid = -1
        BY DEF Life
    <2> QED BY <2>1, <2>2, <2>3 DEF ForkTypes
<1>4. ForkOrder BY DEF ForkOrder
<1>5. OffsetShared BY <1>1, <1>2 DEF OffsetShared
<1>6. TotalsFit BY DEF TotalsFit
<1>7. WaitsSuffice BY DEF WaitsSuffice, Unwaited
<1> QED BY <1>3, <1>4, <1>5, <1>6, <1>7 DEF ForkInv

\* What the parent does before it forks and after it has waited.
LEMMA ForkParentMoves ==
    ASSUME ForkSchedAssumption, ForkInv, NEW program,
           BadArguments \/ Arguments(program) \/ CloseInput(program)
    PROVE  ForkInv'
<1> USE DEF ForkInv
<1>1. /\ UNCHANGED <<i, pid, worker, io>>
      /\ \/ /\ UNCHANGED NUM_PROC /\ parent = "args"
            /\ parent' \in {"EXIT_FAILURE", "crashed"}
         \/ /\ parent = "args" /\ parent' = "fork"
            /\ NUM_PROC' \in 1 .. MAX_PROC \/ NUM_PROC' = -1
         \/ /\ UNCHANGED NUM_PROC /\ parent = "close"
            /\ parent' \in {"EXIT_SUCCESS", "EXIT_FAILURE"}
    BY DEF BadArguments, Arguments, CloseInput
<1>2. ForkTypes'
    BY <1>1 DEF ForkTypes, ForkOrder, Life, Ended, io, ForkSchedAssumption
<1>3. ForkOrder' BY <1>1 DEF ForkOrder, io
<1>4. OffsetShared' BY <1>1 DEF OffsetShared, io
<1>5. TotalsFit' BY <1>1 DEF TotalsFit, io
<1>6. WaitsSuffice'
    <2>1. Unwaited' = Unwaited BY <1>1 DEF Unwaited
    <2>2. parent = "args" => Unwaited = {}
        <3>1. \A c \in Child : c > 0 BY DEF Child
        <3> QED BY <3>1 DEF Unwaited, ForkOrder
    <2> QED BY <2>1, <2>2, <1>1 DEF WaitsSuffice
<1> QED BY <1>2, <1>3, <1>4, <1>5, <1>6

\* fork() makes the next child, or fails.
LEMMA ForkMoves ==
    ASSUME ForkSchedAssumption, ForkInv, NEW program, Fork(program)
    PROVE  ForkInv'
<1> USE DEF ForkInv
<1>1. /\ UNCHANGED <<NUM_PROC, parent, io>>
      /\ parent = "fork" /\ i < NUM_PROC /\ i' = i + 1
      /\ i + 1 \in Child
      /\ \/ /\ pid' = i + 1
            /\ \E s \in {"name", "calc"} :
                  worker' = [worker EXCEPT ![i + 1] = s]
         \/ pid' = -1 /\ UNCHANGED worker
    <2>1. /\ i \in Nat /\ NUM_PROC \in Int /\ NUM_PROC <= MAX_PROC
          /\ MAX_PROC \in Nat
        BY DEF ForkTypes, ForkSchedAssumption
    <2>2. i < NUM_PROC => i + 1 \in Child BY <2>1 DEF Child
    <2> QED BY <2>2 DEF Fork
<1>2. i \in Nat /\ NUM_PROC \in Int BY DEF ForkTypes, ForkSchedAssumption
<1>3. worker[i + 1] = "none" /\ totalBytesWritten[i + 1] = 0
    BY <1>1, <1>2 DEF ForkOrder
<1>4. \A c \in Child :
         \/ worker'[c] = worker[c]
         \/ c = i + 1 /\ worker'[c] \in {"name", "calc"}
    BY <1>1 DEF ForkTypes
<1>5. ForkTypes'
    <2>1. i' \in Nat /\ i' <= NUM_PROC BY <1>1, <1>2
    <2>2. pid' \in Child \cup {-1} BY <1>1
    <2>3. worker' \in [Child -> Life] BY <1>1 DEF ForkTypes, Life
    <2> QED BY <2>1, <2>2, <2>3, <1>1 DEF ForkTypes, io
<1>6. ForkOrder'
    <2>1. \A c \in Child : c > i + 1 => c > i /\ c # i + 1
        BY <1>2 DEF Child
    <2> QED BY <2>1, <1>1, <1>3, <1>4 DEF ForkOrder, io
<1>7. OffsetShared' BY <1>1, <1>4 DEF OffsetShared, io
<1>8. TotalsFit' BY <1>1, <1>4 DEF TotalsFit, io
<1>9. WaitsSuffice'
    <2>1. \A c \in Unwaited' : c \in Unwaited \/ c = i + 1
        BY <1>4 DEF Unwaited
    <2>2. \A c \in Unwaited : c <= i BY <1>1 DEF WaitsSuffice
    <2>3. \A c \in Unwaited' : c <= i + 1
        BY <2>1, <2>2, <1>2 DEF Unwaited, Child
    <2> QED BY <2>3, <1>1 DEF WaitsSuffice, Ended
<1> QED BY <1>5, <1>6, <1>7, <1>8, <1>9

\* As many calls of wait are to come as children can have been made.
LEMMA ForkedWaits ==
    ASSUME NUM_PROC \in Nat, i = NUM_PROC \/ i = 0, i >= NUM_PROC,
           \A c \in Unwaited : c <= i /\ c \in Nat \ {0},
           Unwaited' = Unwaited, UNCHANGED <<NUM_PROC, pid>>, i' = 0,
           parent' = IF pid > 0 THEN "wait" ELSE "close"
    PROVE  WaitsSuffice'
<1>1. i = NUM_PROC OBVIOUS
<1>2. Unwaited \subseteq 1 .. NUM_PROC BY <1>1
<1>3. IsFiniteSet(1 .. NUM_PROC) /\ Cardinality(1 .. NUM_PROC) = NUM_PROC
    <2>1. 1 \in Int /\ NUM_PROC \in Int OBVIOUS
    <2>2. /\ IsFiniteSet(1 .. NUM_PROC)
          /\ Cardinality(1 .. NUM_PROC) =
                 IF 1 > NUM_PROC THEN 0 ELSE NUM_PROC - 1 + 1
        BY <2>1, FS_Interval
    <2>3. (IF 1 > NUM_PROC THEN 0 ELSE NUM_PROC - 1 + 1) = NUM_PROC
        OBVIOUS
    <2> QED BY <2>2, <2>3
<1>4. Cardinality(Unwaited) <= NUM_PROC
    <2>1. Cardinality(Unwaited) <= Cardinality(1 .. NUM_PROC)
        BY <1>2, <1>3, FS_Subset
    <2> QED BY <2>1, <1>3
<1>5. NUM_PROC - 0 = NUM_PROC OBVIOUS
<1>6. Unwaited' = {} \/ Cardinality(Unwaited') <= NUM_PROC' - i'
    BY <1>4, <1>5
<1>7. /\ parent' \in {"wait", "close"}
      /\ parent' = "close" => ~(pid' > 0)
    OBVIOUS
<1> QED BY <1>6, <1>7 DEF WaitsSuffice, Ended

\* With a negative number of them no child is there, and none is waited for.
LEMMA ForkedMoves ==
    ASSUME ForkSchedAssumption, ForkInv, Forked PROVE ForkInv'
<1> USE DEF ForkInv
<1>1. /\ UNCHANGED <<NUM_PROC, pid, worker, io>>
      /\ parent = "fork" /\ i >= NUM_PROC /\ i' = 0
      /\ parent' \in {"wait", "close"}
      /\ NUM_PROC >= 0 => parent' = IF pid > 0 THEN "wait" ELSE "close"
    <2>1. NUM_PROC \in Int BY DEF ForkTypes
    <2> QED BY <2>1 DEF Forked
<1>2. NUM_PROC \in Int /\ i \in Nat /\ (i <= NUM_PROC \/ i = 0)
    BY DEF ForkTypes
<1>3. ForkTypes' BY <1>1, <1>2 DEF ForkTypes, io
<1>4. ForkOrder' BY <1>1 DEF ForkOrder, io
<1>5. OffsetShared' BY <1>1 DEF OffsetShared, io
<1>6. TotalsFit' BY <1>1 DEF TotalsFit, io
<1>7. WaitsSuffice'
    <2>1. Unwaited' = Unwaited BY <1>1 DEF Unwaited
    <2>2. \A c \in Unwaited : c <= i /\ c \in Nat \ {0}
        BY <1>1 DEF WaitsSuffice, Unwaited, Child
    <2>3. CASE NUM_PROC < 0
        <3>1. i = 0 BY <2>3, <1>2
        <3>2. Unwaited = {} BY <3>1, <2>2
        <3> QED BY <3>2, <2>1, <1>1 DEF WaitsSuffice
    <2>4. CASE NUM_PROC >= 0
        BY <2>1, <2>2, <2>4, <1>1, <1>2, ForkedWaits
    <2> QED BY <2>3, <2>4, <1>2
<1> QED BY <1>3, <1>4, <1>5, <1>6, <1>7

\* wait() returns for one child that has ended.
LEMMA WaitMoves ==
    ASSUME ForkSchedAssumption, ForkInv, WaitForAll PROVE ForkInv'
<1> USE DEF ForkInv
<1>1. UNCHANGED <<NUM_PROC, pid, io>> /\ parent = "wait"
    BY DEF WaitForAll
<1>2. NUM_PROC \in Int /\ i \in Nat
    BY DEF ForkTypes
<1>3. IsFiniteSet(Unwaited)
    <2>1. MAX_PROC \in Int /\ 1 \in Int BY DEF ForkSchedAssumption
    <2>2. IsFiniteSet(Child) BY <2>1, FS_Interval DEF Child
    <2> QED BY <2>2, FS_Subset DEF Unwaited
<1>4. CASE \E c \in Child : /\ i < NUM_PROC
                            /\ worker[c] \in Ended
                            /\ worker' = [worker EXCEPT ![c] = "none"]
                            /\ i' = i + 1 /\ UNCHANGED parent
    <2>1. PICK c \in Child : /\ i < NUM_PROC
                             /\ worker[c] \in Ended
                             /\ worker' = [worker EXCEPT ![c] = "none"]
                             /\ i' = i + 1 /\ UNCHANGED parent
        BY <1>4
    <2>2. ForkTypes' BY <2>1, <1>1, <1>2 DEF ForkTypes, Life, io
    <2>3. ForkOrder' BY <2>1, <1>1 DEF ForkOrder, ForkTypes, io
    <2>4. OffsetShared' BY <2>1, <1>1 DEF OffsetShared, ForkTypes, io
    <2>5. TotalsFit' BY <2>1, <1>1 DEF TotalsFit, ForkTypes, io
    <2>6. c \in Unwaited /\ Unwaited' = Unwaited \ {c}
        BY <2>1 DEF Unwaited, ForkTypes, Ended
    <2>7. Cardinality(Unwaited) <= NUM_PROC - i
        BY <2>6, <1>1 DEF WaitsSuffice
    <2>8. Cardinality(Unwaited') = Cardinality(Unwaited) - 1
        BY <2>6, <1>3, FS_RemoveElement
    <2>9. Cardinality(Unwaited) \in Nat BY <1>3, FS_CardinalityType
    <2>10. Cardinality(Unwaited') <= NUM_PROC' - i'
        BY <2>1, <2>7, <2>8, <2>9, <1>1, <1>2
    <2>11. WaitsSuffice' BY <2>1, <2>10, <1>1 DEF WaitsSuffice, Ended
    <2> QED BY <2>2, <2>3, <2>4, <2>5, <2>11
<1>5. CASE /\ i < NUM_PROC
           /\ (\A c \in Child : worker[c] = "none") /\ UNCHANGED worker
           /\ i' = i + 1 /\ UNCHANGED parent
    <2>1. ForkTypes' BY <1>5, <1>1, <1>2 DEF ForkTypes, io
    <2>2. ForkOrder' BY <1>5, <1>1 DEF ForkOrder, io
    <2>3. OffsetShared' BY <1>5, <1>1 DEF OffsetShared, io
    <2>4. TotalsFit' BY <1>5, <1>1 DEF TotalsFit, io
    <2>5. Unwaited' = {} BY <1>5 DEF Unwaited
    <2>6. WaitsSuffice' BY <2>5, <1>5, <1>1 DEF WaitsSuffice
    <2> QED BY <2>1, <2>2, <2>3, <2>4, <2>6
<1>6. CASE i >= NUM_PROC /\ parent' = "close" /\ UNCHANGED <<i, worker>>
    <2>1. ForkTypes' BY <1>6, <1>1 DEF ForkTypes, io
    <2>2. ForkOrder' BY <1>6, <1>1 DEF ForkOrder, io
    <2>3. OffsetShared' BY <1>6, <1>1 DEF OffsetShared, io
    <2>4. TotalsFit' BY <1>6, <1>1 DEF TotalsFit, io
    <2>5. Unwaited = {}
        <3>1. Unwaited = {} \/ Cardinality(Unwaited) <= NUM_PROC - i
            BY <1>1 DEF WaitsSuffice
        <3>2. NUM_PROC - i \in Int /\ NUM_PROC - i <= 0 BY <1>6, <1>2
        <3>3. Cardinality(Unwaited) \in Nat BY <1>3, FS_CardinalityType
        <3>4. Unwaited = {} \/ Cardinality(Unwaited) = 0
            BY <3>1, <3>2, <3>3
        <3> QED BY <3>4, <1>3, FS_EmptySet
    <2>6. Unwaited' = {} BY <2>5, <1>6 DEF Unwaited
    <2>7. WaitsSuffice' BY <2>6, <1>6 DEF WaitsSuffice
    <2> QED BY <2>1, <2>2, <2>3, <2>4, <2>7
<1> QED BY <1>4, <1>5, <1>6 DEF WaitForAll

\* What a child does does not touch the order of forks and waits.
LEMMA ChildGoes ==
    ASSUME ForkSchedAssumption, ForkInv, NEW c \in Child,
           NEW from \in Life \ {"none"}, NEW to \in Life \ {"none"},
           to \notin {"name", "calc"}, GoChild(c, from, to),
           UNCHANGED <<NUM_PROC, i, parent, pid>>,
           \A d \in Child : d # c =>
               totalBytesWritten'[d] = totalBytesWritten[d]
    PROVE  ForkOrder' /\ WaitsSuffice' /\ worker' \in [Child -> Life]
<1> USE DEF ForkInv
<1>1. /\ worker[c] = from /\ worker'[c] = to
      /\ \A d \in Child : d # c => worker'[d] = worker[d]
      /\ worker' \in [Child -> Life]
    BY DEF GoChild, ForkTypes
<1>2. Unwaited' = Unwaited BY <1>1 DEF Unwaited
<1>3. ForkOrder' BY <1>1 DEF ForkOrder
<1>4. WaitsSuffice' BY <1>2 DEF WaitsSuffice
<1> QED BY <1>1, <1>3, <1>4

\* A child that fails or has finished, or starts to read.
LEMMA ChildQuietMoves ==
    ASSUME ForkSchedAssumption, ForkInv, NEW c \in Child,
           NEW from \in {"name", "read", "write", "close", "calc"},
           NEW to \in {"read", "EXIT_SUCCESS", "EXIT_FAILURE"},
           \/ to = "EXIT_FAILURE"
           \/ from = "name" /\ to = "read"
           \/ from \in {"close", "calc"} /\ to = "EXIT_SUCCESS",
           GoChild(c, from, to), UNCHANGED <<NUM_PROC, i, parent, pid, io>>
    PROVE  ForkInv'
<1> USE DEF ForkInv
<1>1. UNCHANGED <<NUM_PROC, i, parent, pid, inputSize, offset, block,
                  totalBytesWritten, reads, resets, short>>
    BY DEF io
<1>2. /\ worker[c] = from /\ worker'[c] = to
      /\ \A d \in Child : d # c => worker'[d] = worker[d]
    BY DEF GoChild, ForkTypes
<1>3. /\ from \in Life \ {"none"} /\ to \in Life \ {"none"}
      /\ to \notin {"name", "calc"}
    BY DEF Life, Ended
<1>4. ForkOrder' /\ WaitsSuffice' /\ worker' \in [Child -> Life]
    BY <1>1, <1>3, ChildGoes
<1>5. ForkTypes' BY <1>1, <1>4 DEF ForkTypes
<1>6. OffsetShared'
    <2>1. \A d \in Child : worker'[d] = "write" => worker[d] = "write"
        BY <1>2
    <2> QED BY <2>1, <1>1 DEF OffsetShared
<1>7. TotalsFit'
    <2>1. from \in {"name", "calc"} => totalBytesWritten[c] = 0
        BY <1>2 DEF ForkOrder
    <2>2. 0 < transfersize /\ 0 % blocksize = 0
        BY DEF ForkSchedAssumption
    <2>3. to = "read" => from = "name" OBVIOUS
    <2>4. to = "EXIT_SUCCESS" => from \in {"close", "calc"} OBVIOUS
    <2> QED BY <2>1, <2>2, <2>3, <2>4, <1>1, <1>2 DEF TotalsFit
<1> QED BY <1>4, <1>5, <1>6, <1>7

\* A whole block is taken at the offset, where it was not since the reset; at
\* the end less than a block is.
LEMMA ReadBlockMoves ==
    ASSUME ForkSchedAssumption, ForkInv, NEW c \in Child, ReadInputBlock(c)
    PROVE  ForkInv'
<1> USE DEF ForkInv
<1>1. CASE GoChild(c, "read", "EXIT_FAILURE")
           /\ UNCHANGED <<NUM_PROC, i, parent, pid, io>>
    BY <1>1, ChildQuietMoves
<1> DEFINE left == inputSize - offset
           to   == IF left >= blocksize THEN "write" ELSE "reset"
<1>2. CASE /\ GoChild(c, "read", to)
           /\ IF left >= blocksize
              THEN /\ offset' = offset + blocksize
                   /\ block' = [block EXCEPT ![c] = offset]
                   /\ reads' = [reads EXCEPT ![offset] = @ + 1]
              ELSE offset' = inputSize /\ UNCHANGED <<block, reads>>
           /\ UNCHANGED <<NUM_PROC, i, parent, pid, inputSize,
                          totalBytesWritten, resets, short>>
    <2>1. /\ inputSize \in Nat /\ offset \in Nat /\ offset <= inputSize
          /\ blocksize \in Nat \ {0}
        BY DEF ForkTypes, ForkSchedAssumption
    <2>2. /\ worker[c] = "read" /\ worker'[c] = to
          /\ \A d \in Child : d # c => worker'[d] = worker[d]
        BY <1>2 DEF GoChild, ForkTypes
    <2>3. ForkOrder' /\ WaitsSuffice' /\ worker' \in [Child -> Life]
        <3>1. to \in Life \ {"none"} /\ to \notin {"name", "calc"}
              /\ "read" \in Life \ {"none"}
            BY DEF Life, Ended
        <3> QED BY <3>1, <1>2, ChildGoes
    <2>4. TotalsFit' BY <2>2, <1>2 DEF TotalsFit
    <2>5. CASE left >= blocksize
        <3>1. /\ offset' = offset + blocksize
              /\ block' = [block EXCEPT ![c] = offset]
              /\ reads' = [reads EXCEPT ![offset] = @ + 1]
            BY <2>5, <1>2
        <3>2. offset + blocksize <= inputSize /\ offset # inputSize
            BY <2>1, <2>5
        <3>3. offset' % blocksize = 0
            <4>1. offset % blocksize = 0 BY <3>2 DEF OffsetShared
            <4>2. (offset + blocksize) % blocksize = 0
                BY <4>1, <2>1, NextMultiple
            <4> QED BY <4>2, <3>1
        <3>4. ForkTypes'
            <4>1. offset' \in 0 .. inputSize BY <3>1, <3>2, <2>1
            <4>2. block' \in [Child -> Nat] BY <3>1, <2>1 DEF ForkTypes
            <4>3. reads' \in [0 .. inputSize -> Nat]
                BY <3>1 DEF ForkTypes
            <4> QED BY <4>1, <4>2, <4>3, <2>3, <1>2 DEF ForkTypes
        <3>5. \A b \in 0 .. inputSize :
                 reads'[b] <= resets + (IF b < offset' THEN 1 ELSE 0)
            <4>1. TAKE b \in 0 .. inputSize
            <4>2. /\ reads[b] \in Nat /\ resets \in Nat /\ b \in Int
                  /\ reads[b] <= resets + (IF b < offset THEN 1 ELSE 0)
                BY <2>1 DEF ForkTypes, OffsetShared
            <4>3. reads'[b] = IF b = offset THEN reads[b] + 1 ELSE reads[b]
                BY <3>1 DEF ForkTypes
            <4> QED BY <4>2, <4>3, <3>1, <2>1
        <3>6. \A d \in Child : worker'[d] = "write" =>
                 block'[d] % blocksize = 0 /\ block'[d] + blocksize <= inputSize
            <4>1. TAKE d \in Child
            <4>2. CASE d = c
                BY <4>2, <3>1, <3>2 DEF OffsetShared, ForkTypes
            <4>3. CASE d # c
                BY <4>3, <3>1, <2>2 DEF OffsetShared, ForkTypes
            <4> QED BY <4>2, <4>3
        <3>7. OffsetShared' BY <3>3, <3>5, <3>6, <1>2 DEF OffsetShared
        <3> QED BY <3>4, <3>7, <2>3, <2>4
    <2>6. CASE ~(left >= blocksize)
        <3>1. offset' = inputSize /\ UNCHANGED <<block, reads>>
              /\ to = "reset"
            BY <2>6, <1>2
        <3>2. ForkTypes' BY <3>1, <2>1, <2>3, <1>2 DEF ForkTypes
        <3>3. \A b \in 0 .. inputSize :
                 reads[b] <= resets + (IF b < inputSize THEN 1 ELSE 0)
            <4>1. TAKE b \in 0 .. inputSize
            <4>2. /\ reads[b] \in Nat /\ resets \in Nat
                  /\ reads[b] <= resets + (IF b < offset THEN 1 ELSE 0)
                BY DEF ForkTypes, OffsetShared
            <4> QED BY <4>2, <2>1
        <3>4. OffsetShared'
            BY <3>1, <3>3, <2>2, <1>2 DEF OffsetShared
        <3> QED BY <3>2, <3>4, <2>3, <2>4
    <2> QED BY <2>5, <2>6
<1> QED BY <1>1, <1>2 DEF ReadInputBlock

\* A child that met the end of the input sets the shared offset back.
LEMMA ResetMoves ==
    ASSUME ForkSchedAssumption, ForkInv, NEW c \in Child, Reset(c)
    PROVE  ForkInv'
<1> USE DEF ForkInv
<1>1. /\ GoChild(c, "reset", "read") /\ offset' = 0 /\ resets' = resets + 1
      /\ UNCHANGED <<NUM_PROC, i, parent, pid, inputSize, block,
                     totalBytesWritten, reads, short>>
    BY DEF Reset
<1>2. /\ worker[c] = "reset" /\ worker'[c] = "read"
      /\ \A d \in Child : d # c => worker'[d] = worker[d]
    BY <1>1 DEF GoChild, ForkTypes
<1>3. ForkOrder' /\ WaitsSuffice' /\ worker' \in [Child -> Life]
    <2>1. "reset" \in Life \ {"none"} /\ "read" \in Life \ {"none"}
        BY DEF Life
    <2> QED BY <2>1, <1>1, ChildGoes
<1>4. /\ inputSize \in Nat /\ 0 % blocksize = 0
    BY DEF ForkTypes, ForkSchedAssumption
<1>5. ForkTypes' BY <1>1, <1>3, <1>4 DEF ForkTypes
<1>6. TotalsFit' BY <1>1, <1>2 DEF TotalsFit
<1>7. \A b \in 0 .. inputSize :
         reads[b] <= resets + 1 + (IF b < 0 THEN 1 ELSE 0)
    <2>1. TAKE b \in 0 .. inputSize
    <2>2. /\ reads[b] \in Nat /\ resets \in Nat
          /\ reads[b] <= resets + (IF b < offset THEN 1 ELSE 0)
        BY DEF ForkTypes, OffsetShared
    <2> QED BY <2>2, <1>4
<1>8. OffsetShared' BY <1>1, <1>2, <1>4, <1>7 DEF OffsetShared
<1> QED BY <1>3, <1>5, <1>6, <1>8

\* Whole blocks lead to transfersize exactly, a short write past it.
LEMMA WriteBlockMoves ==
    ASSUME ForkSchedAssumption, ForkInv, NEW c \in Child, WriteBlock(c)
    PROVE  ForkInv'
<1> USE DEF ForkInv
<1>1. CASE GoChild(c, "write", "EXIT_FAILURE")
           /\ UNCHANGED <<NUM_PROC, i, parent, pid, io>>
    BY <1>1, ChildQuietMoves
<1>2. ASSUME NEW n \in 1 .. blocksize,
             GoChild(c, "write", IF totalBytesWritten[c] + n < transfersize
                                 THEN "read" ELSE "close"),
             totalBytesWritten' = [totalBytesWritten EXCEPT
                                       ![c] = totalBytesWritten[c] + n],
             short' = (short \/ n < blocksize),
             UNCHANGED <<NUM_PROC, i, parent, pid, inputSize, offset, block,
                         reads, resets>>
      PROVE  ForkInv'
    <2> DEFINE old == totalBytesWritten[c]
               to  == IF old + n < transfersize THEN "read"
                      ELSE "close"
    <2>1. /\ old \in Nat /\ n \in Nat \ {0} /\ n <= blocksize
          /\ blocksize \in Nat \ {0} /\ transfersize \in Nat
          /\ transfersize % blocksize = 0
        BY DEF ForkTypes, ForkSchedAssumption
    <2>2. /\ worker[c] = "write" /\ worker'[c] = to
          /\ \A d \in Child : d # c => worker'[d] = worker[d]
        BY <1>2 DEF GoChild, ForkTypes
    <2>3. /\ totalBytesWritten'[c] = old + n
          /\ \A d \in Child : d # c =>
                totalBytesWritten'[d] = totalBytesWritten[d]
        BY <1>2 DEF ForkTypes
    <2>4. ForkOrder' /\ WaitsSuffice' /\ worker' \in [Child -> Life]
        <3>1. to \in Life \ {"none"} /\ to \notin {"name", "calc"}
              /\ "write" \in Life \ {"none"}
            BY DEF Life, Ended
        <3> QED BY <3>1, <2>3, <1>2, ChildGoes
    <2>5. ForkTypes' BY <2>1, <2>4, <1>2 DEF ForkTypes
    <2>6. OffsetShared'
        <3>1. \A d \in Child : worker'[d] = "write" => worker[d] = "write"
            BY <2>2
        <3> QED BY <3>1, <1>2 DEF OffsetShared
    <2>7. old < transfersize /\ (short \/ old % blocksize = 0)
        BY <2>2 DEF TotalsFit
    <2>8. ~short' => n = blocksize /\ old % blocksize = 0
        <3>1. ~short' => ~short /\ ~(n < blocksize) BY <1>2
        <3>2. ~(n < blocksize) => n = blocksize BY <2>1
        <3> QED BY <3>1, <3>2, <2>7
    <2>9. ~short' => /\ (old + n) % blocksize = 0
                     /\ old + n <= transfersize
        <3>1. SUFFICES ASSUME ~short'
                       PROVE  /\ (old + n) % blocksize = 0
                              /\ old + n <= transfersize
            OBVIOUS
        <3>2. n = blocksize /\ old % blocksize = 0 BY <2>8, <3>1
        <3>3. (old + blocksize) % blocksize = 0
            BY <3>2, <2>1, NextMultiple
        <3>4. old + blocksize <= transfersize
            BY <3>2, <2>1, <2>7, MultipleFits
        <3> QED BY <3>2, <3>3, <3>4
    <2>10. old + n <= transfersize + blocksize - 1 BY <2>1, <2>7
    <2>11. worker'[c] \in {"read", "reset", "write"} =>
              /\ totalBytesWritten'[c] < transfersize
              /\ short' \/ totalBytesWritten'[c] % blocksize = 0
        BY <2>2, <2>3, <2>9
    <2>12. worker'[c] \in {"close", "EXIT_SUCCESS"} =>
              \/ totalBytesWritten'[c] = transfersize
              \/ short' /\ totalBytesWritten'[c]
                              \in transfersize .. transfersize + blocksize - 1
        <3>1. SUFFICES ASSUME worker'[c] \in {"close", "EXIT_SUCCESS"}
                       PROVE  \/ old + n = transfersize
                              \/ short' /\ old + n \in transfersize ..
                                            transfersize + blocksize - 1
            BY <2>3
        <3>2. old + n >= transfersize BY <3>1, <2>1, <2>2
        <3>3. CASE short'
            BY <3>2, <3>3, <2>1, <2>10
        <3>4. CASE ~short'
            BY <3>2, <3>4, <2>1, <2>9
        <3> QED BY <3>3, <3>4
    <2>13. short => short' BY <1>2
    <2> HIDE DEF old, to
    <2>14. TotalsFit'
        <3>1. SUFFICES ASSUME NEW d \in Child
              PROVE
              /\ worker'[d] \in {"read", "reset", "write"} =>
                    /\ totalBytesWritten'[d] < transfersize
                    /\ short' \/ totalBytesWritten'[d] % blocksize = 0
              /\ worker'[d] \in {"close", "EXIT_SUCCESS"}
                    /\ totalBytesWritten'[d] > 0 =>
                    \/ totalBytesWritten'[d] = transfersize
                    \/ short' /\ totalBytesWritten'[d]
                           \in transfersize .. transfersize + blocksize - 1
            BY DEF TotalsFit
        <3>2. CASE d = c BY <3>2, <2>11, <2>12
        <3>3. CASE d # c
            <4>1. /\ worker'[d] = worker[d]
                  /\ totalBytesWritten'[d] = totalBytesWritten[d]
                BY <3>3, <2>2, <2>3
            <4> QED BY <4>1, <2>13 DEF TotalsFit
        <3> QED BY <3>2, <3>3
    <2> QED BY <2>4, <2>5, <2>6, <2>14
<1> QED BY <1>1, <1>2 DEF WriteBlock

\* All steps of the two earlier benchmarks, next to the other programs.
LEMMA ForkStep ==
    ASSUME ForkSchedAssumption, ForkInv, [Next]_vars PROVE ForkInv'
<1>1. ASSUME NEW program, ParentStep(program) PROVE ForkInv'
    <2>1. CASE BadArguments \/ Arguments(program) \/ CloseInput(program)
        BY <2>1, ForkParentMoves
    <2>2. CASE Fork(program) BY <2>2, ForkMoves
    <2>3. CASE Forked BY <2>3, ForkedMoves
    <2>4. CASE WaitForAll BY <2>4, WaitMoves
    <2> QED BY <2>1, <2>2, <2>3, <2>4, <1>1 DEF ParentStep
<1>2. ASSUME NEW c \in Child, ChildStep(c) PROVE ForkInv'
    <2>1. CASE Name(c) BY <2>1, ChildQuietMoves DEF Name
    <2>2. CASE ReadInputBlock(c) BY <2>2, ReadBlockMoves
    <2>3. CASE Reset(c) BY <2>3, ResetMoves
    <2>4. CASE WriteBlock(c) BY <2>4, WriteBlockMoves
    <2>5. CASE calc(c) BY <2>5, ChildQuietMoves DEF calc
    <2>6. CASE CloseFiles(c) BY <2>6, ChildQuietMoves DEF CloseFiles
    <2> QED BY <2>1, <2>2, <2>3, <2>4, <2>5, <2>6, <1>2 DEF ChildStep
<1>3. CASE UNCHANGED forkVars
    BY <1>3 DEF forkVars, ForkInv, ForkTypes, ForkOrder, OffsetShared,
           TotalsFit, WaitsSuffice, Unwaited
<1> QED BY <1>1, <1>2, <1>3 DEF Next, Program, Copy, Parent, ForkedChild,
            Benchmark, Started, Only, vars

\* The invariant of the two earlier benchmarks.
LEMMA ForkInvariant == Spec => []ForkInv
<1>1. Init => ForkInv BY ForkSchedAssumption, ForkBegins DEF Init
<1>2. ForkInv /\ [Next]_vars => ForkInv'
    BY ForkSchedAssumption, ForkStep
<1> QED BY <1>1, <1>2, PTL DEF Spec

\* rw-sched: however the children move the offset they share, and whenever one
\* of them sets it back, what each writes are whole blocks of the input, none
\* is read again before a reset, and a child that succeeds has written
\* transfersize bytes, if no write was short.
THEOREM BlocksShared == Spec => []BlocksAreShared
<1>1. ForkInv => BlocksAreShared
    <2> SUFFICES ASSUME ForkInv PROVE BlocksAreShared
        OBVIOUS
    <2>1. \A b \in DOMAIN reads : reads[b] <= resets + 1
        <3>1. TAKE b \in DOMAIN reads
        <3>2. /\ b \in 0 .. inputSize /\ reads[b] \in Nat /\ resets \in Nat
              /\ reads[b] <= resets + (IF b < offset THEN 1 ELSE 0)
            BY DEF ForkInv, ForkTypes, OffsetShared
        <3> QED BY <3>2
    <2> QED BY <2>1 DEF ForkInv, OffsetShared, TotalsFit, BlocksAreShared
<1> QED BY <1>1, ForkInvariant, PTL

\* The parent of rw-sched and pi-sched ends only after its children, if the
\* last fork did not fail, whichever others did.
THEOREM ParentOutlives == Spec => []NoOrphans
<1>1. ForkInv => NoOrphans
    BY DEF ForkInv, WaitsSuffice, NoOrphans, Alive, Unwaited
<1> QED BY <1>1, ForkInvariant, PTL

(***************************************************************************)
(* The published solution of the whales                                    *)
(***************************************************************************)

\* The whales of kind K that have got beyond their call n.
Beyond(K, n) == {w \in K : at[w] > n}

WhaleTypes ==
    /\ at \in [Whales -> Nat]
    /\ \A w \in Whales :
          at[w] > 0 /\ at[w] <= IF w \in Matchmakers THEN 12 ELSE 5
    /\ over \in [Whales -> {"no", "exited"}]
    /\ \A w \in Whales : over[w] = "exited" =>
          at[w] > IF w \in Matchmakers THEN 11 ELSE 4
    /\ pending = [w \in Whales |-> {}]
    /\ value \in [Semaphore -> Nat]

\* Each semaphore counts the whales that signalled it and were not taken note
\* of yet: of males and females that arrived, and of births told to them.
SignalsCount ==
    /\ value["male"] + Cardinality(Beyond(Matchmakers, 1)) =
          Cardinality(Beyond(Males, 1))
    /\ value["female"] + Cardinality(Beyond(Matchmakers, 2)) =
          Cardinality(Beyond(Females, 1))
    /\ value["male_end"] + Cardinality(Beyond(Males, 3)) =
          Cardinality(Beyond(Matchmakers, 7))
    /\ value["female_end"] + Cardinality(Beyond(Females, 3)) =
          Cardinality(Beyond(Matchmakers, 8))

WhaleInv == demo = "solution" => WhaleTypes /\ SignalsCount

\* The kinds are finite and apart.
LEMMA WhalesFinite ==
    /\ IsFiniteSet(Males) /\ IsFiniteSet(Females) /\ IsFiniteSet(Matchmakers)
    /\ Males \subseteq Whales /\ Females \subseteq Whales
    /\ Matchmakers \subseteq Whales
    /\ Males \cap Females = {} /\ Females \cap Matchmakers = {}
    /\ Males \cap Matchmakers = {}
    /\ Whales = Males \cup Females \cup Matchmakers
  BY WhaleAssumption, FS_Subset DEF Whales

\* The code of each kind.
LEMMA WhaleCode ==
    /\ DOMAIN Code["solution"] = Whales
    /\ \A w \in Males : Code["solution"][w] = Male
    /\ \A w \in Females : Code["solution"][w] = Female
    /\ \A w \in Matchmakers : Code["solution"][w] = Matchmaker
    /\ Created["solution"] = {} /\ "solution" \in DOMAIN Code
  <1>1. Code["solution"] = [w \in Whales |->
                              CASE w \in Males   -> Male
                                [] w \in Females -> Female
                                [] OTHER         -> Matchmaker]
    BY DEF Code
  <1>2. "solution" \in DOMAIN Code BY DEF Code
  <1>3. Created["solution"] = {} BY <1>2 DEF Created
  <1> QED BY <1>1, <1>2, <1>3, WhalesFinite

\* A call of a whale takes one from semaphore s, adds one to it, or
\* leaves them all alone.
Takes(s)  == value[s] > 0 /\ value' = [value EXCEPT ![s] = @ - 1]
Gives(s)  == value' = [value EXCEPT ![s] = @ + 1]

\* What the three kinds of calls of the whales do.
LEMMA WhaleCalls ==
    ASSUME NEW p, NEW s
    PROVE  /\ Call(p, Wait(s)) =>
                 Takes(s) /\ Advance(p) /\ UNCHANGED <<over, pending>>
           /\ Call(p, Signal(s)) =>
                 Gives(s) /\ Advance(p) /\ UNCHANGED <<over, pending>>
           /\ Call(p, PrintCalf) =>
                 Advance(p) /\ UNCHANGED <<value, over, pending>>
  BY DEF Call, Wait, Signal, PrintCalf, SemWait, SemPost, Display, Takes,
         Gives

MaleMoves(p) ==
    \/ at[p] = 1 /\ Gives("male")
    \/ at[p] = 2 /\ Takes("male_start")
    \/ at[p] = 3 /\ Takes("male_end")
    \/ at[p] = 4 /\ Gives("matchmaker")
FemaleMoves(p) ==
    \/ at[p] = 1 /\ Gives("female")
    \/ at[p] = 2 /\ Takes("female_start")
    \/ at[p] = 3 /\ Takes("female_end")
    \/ at[p] = 4 /\ Gives("matchmaker")
MatchmakerMoves(p) ==
    \/ at[p] = 1 /\ Takes("male")
    \/ at[p] = 2 /\ Takes("female")
    \/ at[p] = 3 /\ Takes("mutex")
    \/ at[p] = 4 /\ Gives("male_start")
    \/ at[p] = 5 /\ Gives("female_start")
    \/ at[p] = 6 /\ UNCHANGED value
    \/ at[p] = 7 /\ Gives("male_end")
    \/ at[p] = 8 /\ Gives("female_end")
    \/ at[p] \in {9, 10} /\ Takes("matchmaker")
    \/ at[p] = 11 /\ Gives("mutex")

WhaleGoes(p) ==
    /\ over[p] = "no" /\ Advance(p) /\ UNCHANGED over
    /\ \/ p \in Males /\ MaleMoves(p)
       \/ p \in Females /\ FemaleMoves(p)
       \/ p \in Matchmakers /\ MatchmakerMoves(p)

WhaleExits(p) ==
    /\ at[p] > IF p \in Matchmakers THEN 11 ELSE 4
    /\ over[p] = "no" /\ over' = [over EXCEPT ![p] = "exited"]
    /\ UNCHANGED <<at, value>>

\* A step of the solution is a call of one whale, or its return.
LEMMA WhaleSteps ==
    ASSUME demo = "solution", WhaleTypes, NEW p \in Whales, ProgramStep(p)
    PROVE  (WhaleGoes(p) \/ WhaleExits(p)) /\ UNCHANGED <<demo, pending>>
<1>1. ~Deliver(p, "SIGQUIT")
  BY DEF Deliver, WhaleTypes
<1>2. Step(p, Code["solution"][p]) /\ UNCHANGED demo
  BY <1>1 DEF ProgramStep
<1>3. Running(p) /\ at[p] \in Nat /\ at[p] > 0
  BY <1>2 DEF Step, WhaleTypes, Running
<1>4. CASE p \in Males
  <2>1. Code["solution"][p] = Male /\ p \notin Matchmakers
    BY <1>4, WhaleCode, WhalesFinite
  <2>2. CASE at[p] \in DOMAIN Male /\ Call(p, Male[at[p]])
    <3>1. DOMAIN Male = 1 .. 4 BY DEF Male
    <3>2. /\ Male[1] = Signal("male") /\ Male[2] = Wait("male_start")
          /\ Male[3] = Wait("male_end") /\ Male[4] = Signal("matchmaker")
      BY DEF Male
    <3>3. at[p] = 1 \/ at[p] = 2 \/ at[p] = 3 \/ at[p] = 4
      BY <2>2, <3>1, <1>3
    <3> QED BY <2>2, <3>2, <3>3, <1>2, <1>3, <1>4, WhaleCalls
            DEF WhaleGoes, MaleMoves, Running
  <2>3. CASE ~(at[p] \in DOMAIN Male /\ Call(p, Male[at[p]]))
    <3>1. at[p] > Len(Male) /\ Ends(p, "exited", object)
          /\ UNCHANGED <<at, value, pending>>
      BY <2>1, <2>3, <1>2 DEF Step
    <3>2. Len(Male) = 4 BY DEF Male
    <3> QED BY <3>1, <3>2, <2>1, <1>2, <1>3 DEF WhaleExits, Ends, Running
  <2> QED BY <2>2, <2>3
<1>5. CASE p \in Females
  <2>1. Code["solution"][p] = Female /\ p \notin Matchmakers
    BY <1>5, WhaleCode, WhalesFinite
  <2>2. CASE at[p] \in DOMAIN Female /\ Call(p, Female[at[p]])
    <3>1. DOMAIN Female = 1 .. 4 BY DEF Female
    <3>2. /\ Female[1] = Signal("female") /\ Female[2] = Wait("female_start")
          /\ Female[3] = Wait("female_end")
          /\ Female[4] = Signal("matchmaker")
      BY DEF Female
    <3>3. at[p] = 1 \/ at[p] = 2 \/ at[p] = 3 \/ at[p] = 4
      BY <2>2, <3>1, <1>3
    <3> QED BY <2>2, <3>2, <3>3, <1>2, <1>3, <1>5, WhaleCalls
            DEF WhaleGoes, FemaleMoves, Running
  <2>3. CASE ~(at[p] \in DOMAIN Female /\ Call(p, Female[at[p]]))
    <3>1. at[p] > Len(Female) /\ Ends(p, "exited", object)
          /\ UNCHANGED <<at, value, pending>>
      BY <2>1, <2>3, <1>2 DEF Step
    <3>2. Len(Female) = 4 BY DEF Female
    <3> QED BY <3>1, <3>2, <2>1, <1>2, <1>3 DEF WhaleExits, Ends, Running
  <2> QED BY <2>2, <2>3
<1>6. CASE p \in Matchmakers
  <2>1. Code["solution"][p] = Matchmaker
    BY <1>6, WhaleCode
  <2>2. CASE at[p] \in DOMAIN Matchmaker /\ Call(p, Matchmaker[at[p]])
    <3>1. DOMAIN Matchmaker = 1 .. 11 BY DEF Matchmaker
    <3>2. /\ Matchmaker[1] = Wait("male") /\ Matchmaker[2] = Wait("female")
          /\ Matchmaker[3] = Wait("mutex")
          /\ Matchmaker[4] = Signal("male_start")
          /\ Matchmaker[5] = Signal("female_start")
          /\ Matchmaker[6] = PrintCalf
          /\ Matchmaker[7] = Signal("male_end")
          /\ Matchmaker[8] = Signal("female_end")
          /\ Matchmaker[9] = Wait("matchmaker")
          /\ Matchmaker[10] = Wait("matchmaker")
          /\ Matchmaker[11] = Signal("mutex")
      BY DEF Matchmaker
    <3>3. \/ at[p] = 1 \/ at[p] = 2 \/ at[p] = 3 \/ at[p] = 4 \/ at[p] = 5
          \/ at[p] = 6 \/ at[p] = 7 \/ at[p] = 8 \/ at[p] = 9 \/ at[p] = 10
          \/ at[p] = 11
      BY <2>2, <3>1, <1>3
    <3> QED BY <2>2, <3>2, <3>3, <1>2, <1>3, <1>6, WhaleCalls
            DEF WhaleGoes, MatchmakerMoves, Running
  <2>3. CASE ~(at[p] \in DOMAIN Matchmaker /\ Call(p, Matchmaker[at[p]]))
    <3>1. at[p] > Len(Matchmaker) /\ Ends(p, "exited", object)
          /\ UNCHANGED <<at, value, pending>>
      BY <2>1, <2>3, <1>2 DEF Step
    <3>2. Len(Matchmaker) = 11 BY DEF Matchmaker
    <3> QED BY <3>1, <3>2, <1>6, <1>2, <1>3 DEF WhaleExits, Ends, Running
  <2> QED BY <2>2, <2>3
<1> QED BY <1>4, <1>5, <1>6, WhalesFinite

\* A call more or less of one whale.
LEMMA BeyondMoves ==
    ASSUME NEW p \in Whales, WhaleTypes, Advance(p),
           NEW CONSTANT K, K \subseteq Whales, IsFiniteSet(K),
           NEW CONSTANT n \in Nat
    PROVE  /\ Cardinality(Beyond(K, n)) \in Nat
           /\ Cardinality(Beyond(K, n)') = Cardinality(Beyond(K, n))
                 + (IF p \in K /\ at[p] = n THEN 1 ELSE 0)
<1>1. IsFiniteSet(Beyond(K, n)) /\ Cardinality(Beyond(K, n)) \in Nat
  BY FS_Subset, FS_CardinalityType DEF Beyond
<1>2. /\ \A w \in K : at[w] \in Nat
      /\ at[p] \in Nat /\ at'[p] = at[p] + 1
      /\ \A w \in K : w # p => at'[w] = at[w]
  BY DEF WhaleTypes, Advance
<1>3. CASE p \in K /\ at[p] = n
  <2>1. Beyond(K, n)' = Beyond(K, n) \cup {p} /\ p \notin Beyond(K, n)
    BY <1>2, <1>3 DEF Beyond
  <2> QED BY <2>1, <1>1, <1>3, FS_AddElement
<1>4. CASE ~(p \in K /\ at[p] = n)
  <2>1. Beyond(K, n)' = Beyond(K, n)
    BY <1>2, <1>4 DEF Beyond
  <2> QED BY <2>1, <1>1, <1>4
<1> QED BY <1>3, <1>4

\* A whale that got further got that far.
LEMMA BeyondShrinks ==
    ASSUME WhaleTypes, NEW K, K \subseteq Whales, IsFiniteSet(K),
           NEW m \in Nat, NEW n \in Nat, m <= n
    PROVE  /\ Cardinality(Beyond(K, m)) \in Nat
           /\ Cardinality(Beyond(K, n)) \in Nat
           /\ Cardinality(Beyond(K, n)) <= Cardinality(Beyond(K, m))
<1>1. \A w \in K : at[w] \in Nat BY DEF WhaleTypes
<1>2. /\ Beyond(K, n) \in SUBSET Beyond(K, m)
      /\ Beyond(K, m) \in SUBSET K
  BY <1>1 DEF Beyond
<1>3. IsFiniteSet(Beyond(K, m))
  BY <1>2, FS_Subset
<1>4. /\ IsFiniteSet(Beyond(K, n))
      /\ Cardinality(Beyond(K, n)) <= Cardinality(Beyond(K, m))
  BY <1>2, <1>3, FS_Subset
<1> QED BY <1>3, <1>4, FS_CardinalityType

\* A whale between two calls makes a difference.
LEMMA BeyondFewer ==
    ASSUME WhaleTypes, NEW K, K \subseteq Whales, IsFiniteSet(K), NEW p \in K,
           NEW m \in Nat, NEW n \in Nat, m < at[p], at[p] <= n
    PROVE  Cardinality(Beyond(K, n)) < Cardinality(Beyond(K, m))
<1>1. \A w \in K : at[w] \in Nat BY DEF WhaleTypes
<1>2. Beyond(K, n) \in SUBSET (Beyond(K, m) \ {p}) /\ p \in Beyond(K, m)
  BY <1>1 DEF Beyond
<1>3. IsFiniteSet(Beyond(K, m)) /\ Cardinality(Beyond(K, m)) \in Nat
  BY FS_Subset, FS_CardinalityType DEF Beyond
<1>4. /\ IsFiniteSet(Beyond(K, m) \ {p})
      /\ Cardinality(Beyond(K, m) \ {p}) = Cardinality(Beyond(K, m)) - 1
  BY <1>2, <1>3, FS_RemoveElement
<1>5. /\ Cardinality(Beyond(K, n)) <= Cardinality(Beyond(K, m) \ {p})
      /\ IsFiniteSet(Beyond(K, n))
  BY <1>2, <1>4, FS_Subset
<1>6. Cardinality(Beyond(K, n)) \in Nat
  BY <1>5, FS_CardinalityType
<1> QED BY <1>3, <1>4, <1>5, <1>6

\* No whale has called anything, and no semaphore but the mutex is up.
LEMMA WhalesBegin == Init => WhaleInv
<1> SUFFICES ASSUME Init, demo = "solution"
             PROVE  WhaleTypes /\ SignalsCount
  BY DEF WhaleInv
<1>1. /\ at = [p \in Whales |-> 1] /\ over = [p \in Whales |-> "no"]
      /\ pending = [p \in Whales |-> {}]
      /\ value = [s \in Semaphore |-> IF s = "mutex" THEN 1 ELSE 0]
  BY WhaleCode DEF Init, ProgramInit
<1>2. WhaleTypes BY <1>1 DEF WhaleTypes
<1>3. \A K \in SUBSET Whales, n \in Nat \ {0} :
          Beyond(K, n) = {}
  BY <1>1 DEF Beyond
<1>4. /\ value["male"] = 0 /\ value["female"] = 0
      /\ value["male_end"] = 0 /\ value["female_end"] = 0
  BY <1>1 DEF Semaphore
<1>5. \A K \in {Males, Females, Matchmakers}, n \in {1, 2, 3, 7, 8} :
          Beyond(K, n) = {}
  BY <1>3, WhalesFinite
<1> HIDE DEF Beyond
<1> QED BY <1>2, <1>4, <1>5, FS_EmptySet DEF SignalsCount

\* What a semaphore holds after a call.
LEMMA ValueMoves ==
    ASSUME WhaleTypes, NEW s \in Semaphore, NEW r \in Semaphore
    PROVE  /\ Takes(s) => /\ value' \in [Semaphore -> Nat]
                          /\ value'[r] = value[r] - (IF r = s THEN 1 ELSE 0)
           /\ Gives(s) => /\ value' \in [Semaphore -> Nat]
                          /\ value'[r] = value[r] + (IF r = s THEN 1 ELSE 0)
  BY DEF WhaleTypes, Takes, Gives

\* A step keeps the types.
LEMMA WhaleTypesStep ==
    ASSUME WhaleTypes, NEW p \in Whales,
           WhaleGoes(p) \/ WhaleExits(p), UNCHANGED pending
    PROVE  WhaleTypes'
<1> USE DEF WhaleTypes
<1>1. CASE WhaleGoes(p)
  <2>1. /\ at' \in [Whales -> Nat]
        /\ \A w \in Whales : /\ at'[w] > 0 /\ at'[w] >= at[w]
                              /\ at'[w] <= IF w \in Matchmakers THEN 12 ELSE 5
        /\ over' = over
    BY <1>1, WhalesFinite
    DEF WhaleGoes, Advance, MaleMoves, FemaleMoves, MatchmakerMoves
  <2>2. \/ UNCHANGED value
        \/ \E s \in Semaphore : Takes(s) \/ Gives(s)
    BY <1>1 DEF WhaleGoes, MaleMoves, FemaleMoves, MatchmakerMoves, Semaphore
  <2>3. value' \in [Semaphore -> Nat]
    BY <2>2, ValueMoves
  <2> QED BY <2>1, <2>3
<1>2. CASE WhaleExits(p)
  BY <1>2 DEF WhaleExits
<1> QED BY <1>1, <1>2

\* A step keeps the count of the signals: every call that takes from a
\* semaphore or adds to it is one of those that the count is about.
LEMMA SignalsStep ==
    ASSUME WhaleTypes, SignalsCount, NEW p \in Whales,
           WhaleGoes(p) \/ WhaleExits(p)
    PROVE  SignalsCount'
<1>1. CASE WhaleExits(p)
  <2>1. at' = at /\ value' = value BY <1>1 DEF WhaleExits
  <2> QED BY <2>1 DEF SignalsCount, Beyond
<1>2. CASE WhaleGoes(p)
  <2>1. Advance(p) BY <1>2 DEF WhaleGoes
  <2> DEFINE M(n) == Cardinality(Beyond(Males, n))
             F(n) == Cardinality(Beyond(Females, n))
             K(n) == Cardinality(Beyond(Matchmakers, n))
  <2>2. \A n \in Nat : /\ M(n) \in Nat
                       /\ M(n)' = M(n) + (IF p \in Males /\ at[p] = n
                                          THEN 1 ELSE 0)
    BY <2>1, BeyondMoves, WhalesFinite
  <2>3. \A n \in Nat : /\ F(n) \in Nat
                       /\ F(n)' = F(n) + (IF p \in Females /\ at[p] = n
                                          THEN 1 ELSE 0)
    BY <2>1, BeyondMoves, WhalesFinite
  <2>4. \A n \in Nat : /\ K(n) \in Nat
                       /\ K(n)' = K(n) + (IF p \in Matchmakers /\ at[p] = n
                                          THEN 1 ELSE 0)
    BY <2>1, BeyondMoves, WhalesFinite
  <2>5. /\ value["male"] + K(1) = M(1) /\ value["female"] + K(2) = F(1)
        /\ value["male_end"] + M(3) = K(7)
        /\ value["female_end"] + F(3) = K(8)
    BY DEF SignalsCount
  <2>6. \A s \in Semaphore : value[s] \in Nat
    BY DEF WhaleTypes
  <2>7. {"male", "female", "male_end", "female_end", "male_start",
         "female_start", "matchmaker", "mutex"} \subseteq Semaphore
    BY DEF Semaphore
  <2>8. \A s \in Semaphore, r \in Semaphore :
           /\ Takes(s) => value'[r] = value[r] - (IF r = s THEN 1 ELSE 0)
           /\ Gives(s) => value'[r] = value[r] + (IF r = s THEN 1 ELSE 0)
    BY ValueMoves
  <2>9. /\ M(1) \in Nat /\ M(3) \in Nat /\ F(1) \in Nat /\ F(3) \in Nat
        /\ K(1) \in Nat /\ K(2) \in Nat /\ K(7) \in Nat /\ K(8) \in Nat
        /\ value["male"] \in Nat /\ value["female"] \in Nat
        /\ value["male_end"] \in Nat /\ value["female_end"] \in Nat
        /\ M(1)' = M(1) + (IF p \in Males /\ at[p] = 1 THEN 1 ELSE 0)
        /\ M(3)' = M(3) + (IF p \in Males /\ at[p] = 3 THEN 1 ELSE 0)
        /\ F(1)' = F(1) + (IF p \in Females /\ at[p] = 1 THEN 1 ELSE 0)
        /\ F(3)' = F(3) + (IF p \in Females /\ at[p] = 3 THEN 1 ELSE 0)
        /\ K(1)' = K(1) + (IF p \in Matchmakers /\ at[p] = 1 THEN 1 ELSE 0)
        /\ K(2)' = K(2) + (IF p \in Matchmakers /\ at[p] = 2 THEN 1 ELSE 0)
        /\ K(7)' = K(7) + (IF p \in Matchmakers /\ at[p] = 7 THEN 1 ELSE 0)
        /\ K(8)' = K(8) + (IF p \in Matchmakers /\ at[p] = 8 THEN 1 ELSE 0)
    BY <2>2, <2>3, <2>4, <2>6, <2>7
  <2> HIDE DEF M, F, K
  <2>10. CASE p \in Males
    <3>1. p \notin Females /\ p \notin Matchmakers
      BY <2>10, WhalesFinite
    <3>2. MaleMoves(p) BY <1>2, <3>1 DEF WhaleGoes
    <3>3. value'["male"] = value["male"] + (IF at[p] = 1 THEN 1 ELSE 0)
      BY <2>6, <2>7, <2>8, <3>2 DEF MaleMoves
    <3>4. value'["female"] = value["female"]
      BY <2>6, <2>7, <2>8, <3>2 DEF MaleMoves
    <3>5. value'["male_end"] = value["male_end"] - (IF at[p] = 3 THEN 1 ELSE 0)
      BY <2>6, <2>7, <2>8, <3>2 DEF MaleMoves
    <3>6. value'["female_end"] = value["female_end"]
      BY <2>6, <2>7, <2>8, <3>2 DEF MaleMoves
    <3>7. /\ value'["male"] + K(1)' = M(1)'
          /\ value'["female"] + K(2)' = F(1)'
          /\ value'["male_end"] + M(3)' = K(7)'
          /\ value'["female_end"] + F(3)' = K(8)'
      BY <2>5, <2>6, <2>7, <2>9, <2>10, <3>1, <3>3, <3>4, <3>5, <3>6
    <3> QED BY <3>7 DEF SignalsCount, M, F, K
  <2>11. CASE p \in Females
    <3>1. p \notin Males /\ p \notin Matchmakers
      BY <2>11, WhalesFinite
    <3>2. FemaleMoves(p) BY <1>2, <3>1 DEF WhaleGoes
    <3>3. value'["male"] = value["male"]
      BY <2>6, <2>7, <2>8, <3>2 DEF FemaleMoves
    <3>4. value'["female"] = value["female"] + (IF at[p] = 1 THEN 1 ELSE 0)
      BY <2>6, <2>7, <2>8, <3>2 DEF FemaleMoves
    <3>5. value'["male_end"] = value["male_end"]
      BY <2>6, <2>7, <2>8, <3>2 DEF FemaleMoves
    <3>6. value'["female_end"] =
             value["female_end"] - (IF at[p] = 3 THEN 1 ELSE 0)
      BY <2>6, <2>7, <2>8, <3>2 DEF FemaleMoves
    <3>7. /\ value'["male"] + K(1)' = M(1)'
          /\ value'["female"] + K(2)' = F(1)'
          /\ value'["male_end"] + M(3)' = K(7)'
          /\ value'["female_end"] + F(3)' = K(8)'
      BY <2>5, <2>6, <2>7, <2>9, <2>11, <3>1, <3>3, <3>4, <3>5, <3>6
    <3> QED BY <3>7 DEF SignalsCount, M, F, K
  <2>12. CASE p \in Matchmakers
    <3>1. p \notin Males /\ p \notin Females
      BY <2>12, WhalesFinite
    <3>2. MatchmakerMoves(p) BY <1>2, <3>1 DEF WhaleGoes
    <3>3. value'["male"] = value["male"] - (IF at[p] = 1 THEN 1 ELSE 0)
      BY <2>6, <2>7, <2>8, <3>2 DEF MatchmakerMoves
    <3>4. value'["female"] = value["female"] - (IF at[p] = 2 THEN 1 ELSE 0)
      BY <2>6, <2>7, <2>8, <3>2 DEF MatchmakerMoves
    <3>5. value'["male_end"] = value["male_end"] + (IF at[p] = 7 THEN 1 ELSE 0)
      BY <2>6, <2>7, <2>8, <3>2 DEF MatchmakerMoves
    <3>6. value'["female_end"] =
             value["female_end"] + (IF at[p] = 8 THEN 1 ELSE 0)
      BY <2>6, <2>7, <2>8, <3>2 DEF MatchmakerMoves
    <3>7. /\ value'["male"] + K(1)' = M(1)'
          /\ value'["female"] + K(2)' = F(1)'
          /\ value'["male_end"] + M(3)' = K(7)'
          /\ value'["female_end"] + F(3)' = K(8)'
      BY <2>5, <2>6, <2>7, <2>9, <2>12, <3>1, <3>3, <3>4, <3>5, <3>6
    <3> QED BY <3>7 DEF SignalsCount, M, F, K
  <2> QED BY <2>10, <2>11, <2>12, WhalesFinite
<1> QED BY <1>1, <1>2

\* A step of Demos that runs the solution is one of a whale.
LEMMA WhalesMove ==
    ASSUME WhaleInv, [Next]_vars, demo = "solution" \/ demo' = "solution"
    PROVE  /\ demo' = demo
           /\ \/ \E p \in Whales : /\ WhaleGoes(p) \/ WhaleExits(p)
                                   /\ UNCHANGED <<demo, pending>>
              \/ UNCHANGED programVars
<1>1. demo' = demo /\ demo = "solution" /\ WhaleTypes
  BY DEF Next, vars, Program, ProgramStep, Copy, Parent, ForkedChild,
     Benchmark, Started, Only, programVars, WhaleInv
<1>2. CASE \E p \in DOMAIN at : Program(p)
  <2>1. PICK p \in Whales : ProgramStep(p)
    BY <1>1, <1>2 DEF Program, WhaleTypes
  <2> QED BY <1>1, <2>1, WhaleSteps
<1>3. CASE UNCHANGED programVars
  BY <1>1, <1>3
<1> QED BY <1>1, <1>2, <1>3 DEF Next, vars, Copy, Parent, ForkedChild,
        Benchmark, Started, Only

\* All steps, next to the other programs.
LEMMA WhaleStep == WhaleInv /\ [Next]_vars => WhaleInv'
<1> SUFFICES ASSUME WhaleInv, [Next]_vars, demo' = "solution"
             PROVE  WhaleTypes' /\ SignalsCount'
  BY DEF WhaleInv
<1>1. WhaleTypes /\ SignalsCount
  BY WhalesMove DEF WhaleInv
<1>2. CASE UNCHANGED programVars
  BY <1>1, <1>2 DEF programVars, processVars, WhaleTypes, SignalsCount,
     Beyond
<1>3. CASE \E p \in Whales : /\ WhaleGoes(p) \/ WhaleExits(p)
                             /\ UNCHANGED <<demo, pending>>
  BY <1>1, <1>3, WhaleTypesStep, SignalsStep
<1> QED BY <1>2, <1>3, WhalesMove

\* What the abstract specification sees of the solution.
Arrived  == [k \in DOMAIN Kinds |->
    IF demo = "solution" THEN Cardinality(Beyond(Kinds[k], 1)) ELSE 0]
Born     == IF demo = "solution" THEN Cardinality(Beyond(Matchmakers, 6)) ELSE 0
Gone(K)  == {w \in K : over[w] = "exited"}
Returned == [k \in DOMAIN Kinds |->
    IF demo = "solution" THEN Cardinality(Gone(Kinds[k])) ELSE 0]

\* The kinds by their names.
LEMMA KindsAre ==
    /\ DOMAIN Kinds = {"male", "female", "matchmaker"}
    /\ Kinds["male"] = Males /\ Kinds["female"] = Females
    /\ Kinds["matchmaker"] = Matchmakers
    /\ \A k \in DOMAIN Kinds :
          IsFiniteSet(Kinds[k]) /\ Kinds[k] \subseteq Whales
  BY WhalesFinite DEF Kinds

\* A calf is born when the matchmaker has got beyond the sixth call.
LEMMA BirthsAre ==
    ASSUME WhaleInv, demo = "solution"
    PROVE  Births(Matchmakers, Matchmaker) = Cardinality(Beyond(Matchmakers, 6))
<1>1. \A k \in 1 .. 11 : Matchmaker[k] = PrintCalf <=> k = 6
  <2>1. TAKE k \in 1 .. 11
  <2>2. \A s : Wait(s) # PrintCalf /\ Signal(s) # PrintCalf
    <3>1. \A s : Wait(s)[1] = "wait" /\ Signal(s)[1] = "signal"
      BY DEF Wait, Signal
    <3>2. PrintCalf[1] = "print" BY DEF PrintCalf
    <3> QED BY <3>1, <3>2
  <2>3. \/ k = 1 \/ k = 2 \/ k = 3 \/ k = 4 \/ k = 5 \/ k = 6 \/ k = 7 \/ k = 8
        \/ k = 9 \/ k = 10 \/ k = 11
    OBVIOUS
  <2>4. /\ Matchmaker[1] = Wait("male") /\ Matchmaker[2] = Wait("female")
        /\ Matchmaker[3] = Wait("mutex")
        /\ Matchmaker[4] = Signal("male_start")
        /\ Matchmaker[5] = Signal("female_start")
        /\ Matchmaker[6] = PrintCalf
        /\ Matchmaker[7] = Signal("male_end")
        /\ Matchmaker[8] = Signal("female_end")
        /\ Matchmaker[9] = Wait("matchmaker")
        /\ Matchmaker[10] = Wait("matchmaker")
        /\ Matchmaker[11] = Signal("mutex")
    BY DEF Matchmaker
  <2> QED BY <2>2, <2>3, <2>4
<1>2. \A w \in Matchmakers : at[w] \in 1 .. 12
  BY WhalesFinite DEF WhaleInv, WhaleTypes
<1>3. \A w \in Matchmakers :
         (\E k \in 1 .. at[w] - 1 : Matchmaker[k] = PrintCalf) <=> at[w] > 6
  BY <1>1, <1>2
<1>4. {w \in Matchmakers : \E k \in 1 .. at[w] - 1 : Matchmaker[k] = PrintCalf}
      = Beyond(Matchmakers, 6)
  BY <1>3 DEF Beyond
<1> QED BY <1>4 DEF Births

\* The refinement mapping, in these terms.
LEMMA MappedTo ==
    ASSUME WhaleInv
    PROVE  /\ [k \in DOMAIN Kinds |-> CountOf(k, LAMBDA w : at[w] > 1)]
                 = Arrived
           /\ (IF demo = "solution" THEN Births(Matchmakers, Matchmaker) ELSE 0)
                 = Born
           /\ [k \in DOMAIN Kinds |-> CountOf(k, LAMBDA w : over[w] = "exited")]
                 = Returned
  BY BirthsAre DEF CountOf, Arrived, Born, Returned, Beyond, Gone

\* A whale that returns is one more.
LEMMA GoneMoves ==
    ASSUME WhaleTypes, NEW p \in Whales, WhaleExits(p),
           NEW CONSTANT K, K \subseteq Whales, IsFiniteSet(K)
    PROVE  /\ Cardinality(Gone(K)) \in Nat
           /\ Cardinality(Gone(K)') =
                 Cardinality(Gone(K)) + (IF p \in K THEN 1 ELSE 0)
<1>1. IsFiniteSet(Gone(K)) /\ Cardinality(Gone(K)) \in Nat
  BY FS_Subset, FS_CardinalityType DEF Gone
<1>2. p \notin Gone(K)
  BY DEF Gone, WhaleExits
<1>3. Gone(K)' = IF p \in K THEN Gone(K) \cup {p} ELSE Gone(K)
  BY DEF Gone, WhaleExits, WhaleTypes
<1>4. CASE p \in K
  BY <1>1, <1>2, <1>3, <1>4, FS_AddElement
<1>5. CASE p \notin K
  BY <1>1, <1>3, <1>5
<1> QED BY <1>4, <1>5

\* Before whale p returns, fewer of its kind have than have got beyond call n,
\* if that is one before their last.
LEMMA GoneFewer ==
    ASSUME WhaleTypes, NEW K, K \subseteq Whales, IsFiniteSet(K), NEW p \in K,
           over[p] = "no", NEW n \in Nat, at[p] > n,
           \A w \in K : n < IF w \in Matchmakers THEN 12 ELSE 5
    PROVE  Cardinality(Gone(K)) < Cardinality(Beyond(K, n))
<1>1. Gone(K) \subseteq Beyond(K, n) \ {p}
  BY DEF Gone, Beyond, WhaleTypes
<1>2. /\ IsFiniteSet(Beyond(K, n)) /\ Cardinality(Beyond(K, n)) \in Nat
      /\ p \in Beyond(K, n)
  BY FS_Subset, FS_CardinalityType DEF Beyond
<1>3. /\ IsFiniteSet(Beyond(K, n) \ {p})
      /\ Cardinality(Beyond(K, n) \ {p}) = Cardinality(Beyond(K, n)) - 1
  BY <1>2, FS_RemoveElement
<1>4. /\ IsFiniteSet(Gone(K))
      /\ Cardinality(Gone(K)) <= Cardinality(Beyond(K, n) \ {p})
  BY <1>1, <1>3, FS_Subset
<1>5. Cardinality(Gone(K)) \in Nat
  BY <1>4, FS_CardinalityType
<1> QED BY <1>2, <1>3, <1>4, <1>5

\* A whale that goes on: arrival, birth or neither.
LEMMA GoingIsPromised ==
    ASSUME WhaleTypes, SignalsCount, demo = "solution", demo' = demo,
           NEW p \in Whales, WhaleGoes(p)
    PROVE  \/ \E k \in DOMAIN Kinds :
                 /\ Arrived' = [Arrived EXCEPT ![k] = @ + 1]
                 /\ Born' = Born
           \/ /\ \A k \in DOMAIN Kinds : Born < Arrived[k]
              /\ Born' = Born + 1 /\ Arrived' = Arrived
           \/ Arrived' = Arrived /\ Born' = Born
<1>1. Advance(p) /\ at[p] \in Nat BY DEF WhaleGoes, WhaleTypes
<1>2. \A k \in DOMAIN Kinds :
         /\ Cardinality(Beyond(Kinds[k], 1)) \in Nat
         /\ Cardinality(Beyond(Kinds[k], 1)') =
               Cardinality(Beyond(Kinds[k], 1))
                  + (IF p \in Kinds[k] /\ at[p] = 1 THEN 1 ELSE 0)
  BY <1>1, BeyondMoves, KindsAre
<1>3. /\ Cardinality(Beyond(Matchmakers, 6)) \in Nat
      /\ Cardinality(Beyond(Matchmakers, 6)') =
            Cardinality(Beyond(Matchmakers, 6))
               + (IF p \in Matchmakers /\ at[p] = 6 THEN 1 ELSE 0)
  BY <1>1, BeyondMoves, WhalesFinite
<1>4. /\ \A k \in DOMAIN Kinds :
            /\ Arrived[k] = Cardinality(Beyond(Kinds[k], 1))
            /\ Arrived'[k] = Cardinality(Beyond(Kinds[k], 1)')
      /\ Born = Cardinality(Beyond(Matchmakers, 6))
      /\ Born' = Cardinality(Beyond(Matchmakers, 6)')
  BY DEF Arrived, Born
<1>5. /\ Arrived = [k \in DOMAIN Kinds |-> Arrived[k]]
      /\ Arrived' = [k \in DOMAIN Kinds |-> Arrived'[k]]
  BY DEF Arrived
<1>6. CASE at[p] = 1
  <2>1. PICK k \in DOMAIN Kinds : p \in Kinds[k]
    BY KindsAre, WhalesFinite
  <2>2. \A j \in DOMAIN Kinds : p \in Kinds[j] <=> j = k
    BY <2>1, KindsAre, WhalesFinite
  <2>3. \A j \in DOMAIN Kinds :
           Arrived'[j] = IF j = k THEN Arrived[j] + 1 ELSE Arrived[j]
    BY <1>2, <1>4, <1>6, <2>2
  <2>4. Arrived' = [Arrived EXCEPT ![k] = @ + 1]
    <3> HIDE DEF Arrived
    <3> QED BY <2>1, <2>3, <1>5
  <2>5. Born' = Born BY <1>3, <1>4, <1>6
  <2> QED BY <2>1, <2>4, <2>5
<1>7. CASE at[p] # 1
  <2>1. \A j \in DOMAIN Kinds : Arrived'[j] = Arrived[j]
    BY <1>2, <1>4, <1>7
  <2>2. Arrived' = Arrived
    <3> HIDE DEF Arrived
    <3> QED BY <2>1, <1>5
  <2>3. CASE p \in Matchmakers /\ at[p] = 6
    <3>1. Born' = Born + 1 BY <1>3, <1>4, <2>3
    <3>2. /\ Cardinality(Beyond(Matchmakers, 6))
                < Cardinality(Beyond(Matchmakers, 1))
          /\ Cardinality(Beyond(Matchmakers, 6))
                < Cardinality(Beyond(Matchmakers, 2))
      BY <2>3, BeyondFewer, WhalesFinite
    <3>3. value["male"] \in Nat /\ value["female"] \in Nat
      BY DEF WhaleTypes, Semaphore
    <3>4. \A n \in {1, 2} : Cardinality(Beyond(Matchmakers, n)) \in Nat
      BY BeyondShrinks, WhalesFinite
    <3>5. /\ Cardinality(Beyond(Males, 1)) \in Nat
          /\ Cardinality(Beyond(Females, 1)) \in Nat
      BY BeyondShrinks, WhalesFinite
    <3>6. /\ Born < Cardinality(Beyond(Males, 1))
          /\ Born < Cardinality(Beyond(Females, 1))
          /\ Born < Cardinality(Beyond(Matchmakers, 1))
      BY <1>3, <1>4, <3>2, <3>3, <3>4, <3>5 DEF SignalsCount
    <3>7. \A k \in DOMAIN Kinds : Born < Arrived[k]
      BY <3>6, <1>4, KindsAre
    <3> QED BY <2>2, <3>1, <3>7
  <2>4. CASE ~(p \in Matchmakers /\ at[p] = 6)
    <3>1. Born' = Born BY <1>3, <1>4, <2>4
    <3> QED BY <2>2, <3>1
  <2> QED BY <2>3, <2>4
<1> QED BY <1>6, <1>7

\* A whale that returns.
LEMMA ExitIsPromised ==
    ASSUME WhaleTypes, SignalsCount, demo = "solution", demo' = demo,
           NEW p \in Whales, WhaleExits(p)
    PROVE  /\ Arrived' = Arrived /\ Born' = Born
           /\ \E k \in DOMAIN Kinds :
                 /\ Returned[k] < Born
                 /\ Returned' = [Returned EXCEPT ![k] = @ + 1]
<1>1. at' = at /\ over[p] = "no" /\ at[p] \in Nat
  BY DEF WhaleExits, WhaleTypes
<1>2. Arrived' = Arrived /\ Born' = Born
  BY <1>1 DEF Arrived, Born, Beyond
<1>3. PICK k \in DOMAIN Kinds : p \in Kinds[k]
  BY KindsAre, WhalesFinite
<1>4. \A j \in DOMAIN Kinds : p \in Kinds[j] <=> j = k
  BY <1>3, KindsAre, WhalesFinite
<1>5. \A j \in DOMAIN Kinds :
         /\ Cardinality(Gone(Kinds[j])) \in Nat
         /\ Cardinality(Gone(Kinds[j])') =
               Cardinality(Gone(Kinds[j])) + (IF j = k THEN 1 ELSE 0)
  BY <1>4, GoneMoves, KindsAre
<1>6. /\ \A j \in DOMAIN Kinds :
            /\ Returned[j] = Cardinality(Gone(Kinds[j]))
            /\ Returned'[j] = Cardinality(Gone(Kinds[j])')
      /\ Returned = [j \in DOMAIN Kinds |-> Returned[j]]
      /\ Returned' = [j \in DOMAIN Kinds |-> Returned'[j]]
      /\ Born = Cardinality(Beyond(Matchmakers, 6))
  BY DEF Returned, Born
<1>7. Returned' = [Returned EXCEPT ![k] = @ + 1]
  <2>1. \A j \in DOMAIN Kinds :
           Returned'[j] = IF j = k THEN Returned[j] + 1 ELSE Returned[j]
    BY <1>5, <1>6
  <2> HIDE DEF Returned
  <2> QED BY <1>3, <1>6, <2>1
<1>8. Returned[k] < Born
  <2>1. value["male_end"] \in Nat /\ value["female_end"] \in Nat
    BY DEF WhaleTypes, Semaphore
  <2>2. /\ Cardinality(Beyond(Matchmakers, 6)) \in Nat
        /\ Cardinality(Beyond(Matchmakers, 7)) \in Nat
        /\ Cardinality(Beyond(Matchmakers, 8)) \in Nat
        /\ Cardinality(Beyond(Matchmakers, 7))
              <= Cardinality(Beyond(Matchmakers, 6))
        /\ Cardinality(Beyond(Matchmakers, 8))
              <= Cardinality(Beyond(Matchmakers, 6))
    BY BeyondShrinks, WhalesFinite
  <2>3. /\ Cardinality(Beyond(Males, 3)) \in Nat
        /\ Cardinality(Beyond(Females, 3)) \in Nat
    BY BeyondShrinks, WhalesFinite
  <2>4. CASE p \in Males
    <3>1. p \notin Matchmakers /\ \A w \in Males : w \notin Matchmakers
      BY <2>4, WhalesFinite
    <3>2. at[p] > 3 BY <1>1, <3>1 DEF WhaleExits
    <3>3. Cardinality(Gone(Males)) < Cardinality(Beyond(Males, 3))
      BY <1>1, <2>4, <3>1, <3>2, GoneFewer, WhalesFinite
    <3>4. k = "male" /\ Kinds[k] = Males BY <1>4, <2>4, KindsAre
    <3> QED BY <1>5, <1>6, <2>1, <2>2, <2>3, <3>3, <3>4 DEF SignalsCount
  <2>5. CASE p \in Females
    <3>1. p \notin Matchmakers /\ \A w \in Females : w \notin Matchmakers
      BY <2>5, WhalesFinite
    <3>2. at[p] > 3 BY <1>1, <3>1 DEF WhaleExits
    <3>3. Cardinality(Gone(Females)) < Cardinality(Beyond(Females, 3))
      BY <1>1, <2>5, <3>1, <3>2, GoneFewer, WhalesFinite
    <3>4. k = "female" /\ Kinds[k] = Females BY <1>4, <2>5, KindsAre
    <3> QED BY <1>5, <1>6, <2>1, <2>2, <2>3, <3>3, <3>4 DEF SignalsCount
  <2>6. CASE p \in Matchmakers
    <3>1. at[p] > 6 BY <1>1, <2>6 DEF WhaleExits
    <3>2. Cardinality(Gone(Matchmakers)) < Cardinality(Beyond(Matchmakers, 6))
      BY <1>1, <2>6, <3>1, GoneFewer, WhalesFinite
    <3>3. k = "matchmaker" /\ Kinds[k] = Matchmakers
      BY <1>4, <2>6, KindsAre
    <3> QED BY <1>6, <3>2, <3>3
  <2> QED BY <2>4, <2>5, <2>6, WhalesFinite
<1> QED BY <1>2, <1>3, <1>7, <1>8

\* The published solution of question 4 is a rendezvous, for any numbers of
\* males, females and matchmakers: a calf is born only of three whales that
\* have arrived and were at no birth before, and nobody returns without one.
THEOREM RendezvousKept == Spec => KeepsPromise
<1> DEFINE A == [k \in DOMAIN Kinds |-> CountOf(k, LAMBDA w : at[w] > 1)]
           B == IF demo = "solution" THEN Births(Matchmakers, Matchmaker) ELSE 0
           R == [k \in DOMAIN Kinds |->
                    CountOf(k, LAMBDA w : over[w] = "exited")]
<1>1. Init => WhaleInv BY WhalesBegin
<1>2. WhaleInv /\ [Next]_vars => WhaleInv' BY WhaleStep
<1>3. WhaleInv => A = Arrived /\ B = Born /\ R = Returned
  BY MappedTo
<1>4. WhaleInv' => A' = Arrived' /\ B' = Born' /\ R' = Returned'
  <2>1. (WhaleInv => A = Arrived /\ B = Born /\ R = Returned)'
    BY <1>3, PTL
  <2> HIDE DEF A, B, R
  <2> QED BY <2>1
<1>5. Init => Promise!Init
  <2> SUFFICES ASSUME Init PROVE Promise!Init
    OBVIOUS
  <2>1. WhaleInv BY WhalesBegin
  <2>2. /\ \A k \in DOMAIN Kinds : Beyond(Kinds[k], 1) = {} \/ demo # "solution"
        /\ Beyond(Matchmakers, 6) = {} \/ demo # "solution"
        /\ \A k \in DOMAIN Kinds : Gone(Kinds[k]) = {} \/ demo # "solution"
    BY WhaleCode, KindsAre, WhalesFinite
    DEF Init, ProgramInit, Beyond, Gone
  <2>3. /\ Arrived = [k \in DOMAIN Kinds |-> 0] /\ Born = 0
        /\ Returned = [k \in DOMAIN Kinds |-> 0]
    BY <2>2, FS_EmptySet DEF Arrived, Born, Returned
  <2> QED BY <2>1, <2>3, <1>3 DEF Promise!Init
<1>6. WhaleInv /\ WhaleInv' /\ [Next]_vars => [Promise!Next]_<<A, B, R>>
  <2> SUFFICES ASSUME WhaleInv, WhaleInv', [Next]_vars
               PROVE  Promise!Next \/ UNCHANGED <<A, B, R>>
    OBVIOUS
  <2>1. CASE demo # "solution" /\ demo' # "solution"
    <3>1. /\ Arrived' = Arrived /\ Born' = Born /\ Returned' = Returned
      BY <2>1 DEF Arrived, Born, Returned
    <3> HIDE DEF A, B, R
    <3> QED BY <1>3, <1>4, <3>1
  <2>2. CASE UNCHANGED programVars
    <3>1. /\ Arrived' = Arrived /\ Born' = Born /\ Returned' = Returned
      BY <2>2 DEF Arrived, Born, Returned, programVars, processVars, Beyond,
                  Gone
    <3> HIDE DEF A, B, R
    <3> QED BY <1>3, <1>4, <3>1
  <2>3. ASSUME demo = "solution", demo' = demo, NEW p \in Whales, WhaleGoes(p)
        PROVE  Promise!Next \/ UNCHANGED <<A, B, R>>
    <3>1. WhaleTypes /\ SignalsCount BY <2>3 DEF WhaleInv
    <3>2. Returned' = Returned BY <2>3 DEF Returned, Gone, WhaleGoes
    <3>3. CASE Arrived' = Arrived /\ Born' = Born
      <4> HIDE DEF A, B, R
      <4> QED BY <1>3, <1>4, <3>2, <3>3
    <3>4. ASSUME NEW k \in DOMAIN Kinds,
                 Arrived' = [Arrived EXCEPT ![k] = @ + 1], Born' = Born
          PROVE  Promise!Next
      <4>1. A' = [A EXCEPT ![k] = @ + 1] /\ B' = B /\ R' = R
        <5> HIDE DEF A, B, R
        <5> QED BY <1>3, <1>4, <3>2, <3>4
      <4>2. Promise!Arrive(k) BY <4>1 DEF Promise!Arrive
      <4> QED BY <4>2 DEF Promise!Next
    <3>5. CASE /\ \A k \in DOMAIN Kinds : Born < Arrived[k]
               /\ Born' = Born + 1 /\ Arrived' = Arrived
      <4>1. /\ \A k \in DOMAIN Kinds : B < A[k]
            /\ B' = B + 1 /\ A' = A /\ R' = R
        <5> HIDE DEF A, B, R
        <5> QED BY <1>3, <1>4, <3>2, <3>5
      <4>2. Promise!Birth BY <4>1 DEF Promise!Birth
      <4> QED BY <4>2 DEF Promise!Next
    <3> QED BY <2>3, <3>1, <3>3, <3>4, <3>5, GoingIsPromised
  <2>4. ASSUME demo = "solution", demo' = demo, NEW p \in Whales, WhaleExits(p)
        PROVE  Promise!Next
    <3>1. WhaleTypes /\ SignalsCount BY <2>4 DEF WhaleInv
    <3>2. PICK k \in DOMAIN Kinds :
             /\ Returned[k] < Born
             /\ Returned' = [Returned EXCEPT ![k] = @ + 1]
             /\ Arrived' = Arrived /\ Born' = Born
      BY <2>4, <3>1, ExitIsPromised
    <3>3. /\ R[k] < B /\ R' = [R EXCEPT ![k] = @ + 1] /\ A' = A /\ B' = B
      <4> HIDE DEF A, B, R
      <4> QED BY <1>3, <1>4, <3>2
    <3>4. Promise!Return(k) BY <3>3 DEF Promise!Return
    <3> QED BY <3>4 DEF Promise!Next
  <2> QED BY <2>1, <2>2, <2>3, <2>4, WhalesMove
<1> QED BY <1>1, <1>2, <1>5, <1>6, PTL DEF Spec, KeepsPromise, Promise!Spec

=============================================================================
