--------------------------- MODULE Chapter3Proofs ---------------------------
(***************************************************************************)
(* Proofs about the two programs of demo/ch3 that keep tables.             *)
(*                                                                         *)
(* pid.c, for every range of pids: with one caller it hands out no pid     *)
(* twice and refuses only when all pids are taken (PidClient); with any    *)
(* number of threads, for which it is not made, its test keeps the marks   *)
(* right and misses no double use (PidTest).                               *)
(*                                                                         *)
(* simple-shell.c, for any size of the history, any lines and any number   *)
(* of children (Shell): the history, which command runs with which         *)
(* arguments, that nothing is written past the buffer, and who is waited   *)
(* for.                                                                    *)
(***************************************************************************)
EXTENDS PidClient, PidTest, Shell, FiniteSetTheorems, SequenceTheorems,
        WellFoundedInduction, TLAPS

(***************************************************************************)
(* One caller                                                              *)
(***************************************************************************)

Marked == {p \in Pids : pid_map[p] = 1}

\* The pids that the loop of allocate_pid has looked at: the n_loops[caller]
\* ones before next[caller], around the end of the range if need be.
Seen(p) ==
    LET from == next[caller] - n_loops[caller]
    IN \/ from <= p /\ p < next[caller]
       \/ from + SIZE <= p

TypeInv ==
    /\ pid_map \in [Pids -> {0, 1}]
    /\ last \in Pids
    /\ at \in [Callers -> {"idle", "reread", "scan", "claim", "setLast",
                           "readLast", "returned"}]
    /\ next \in [Callers -> PID_MIN .. PID_MAX]
    /\ n_loops \in [Callers -> 0 .. SIZE]
    /\ result \in [Callers -> Pids \cup {NONE}]
    /\ held \subseteq Pids

\* What the call has found out so far.
Progress ==
    /\ at[caller] = "reread" => last # PID_MAX /\ n_loops[caller] = 0
    /\ at[caller] = "scan" => \A p \in Pids : Seen(p) => pid_map[p] = 1
    /\ at[caller] = "claim" => pid_map[next[caller]] = 0
    /\ at[caller] = "readLast" => last = next[caller]

\* Which pids are marked while a call is under way.
MarkedIsHeld ==
    /\ at[caller] \in {"idle", "reread", "scan", "claim"} => held = Marked
    /\ at[caller] \in {"setLast", "readLast"} =>
          next[caller] \notin held /\ Marked = held \cup {next[caller]}
    /\ at[caller] = "returned" =>
          /\ result[caller] \notin held
          /\ Marked = held \cup ({result[caller]} \ {NONE})
          /\ result[caller] = NONE => held = Pids

IInv == TypeInv /\ Progress /\ MarkedIsHeld

\* The constants, spelled out.
LEMMA Constants ==
    /\ caller \in Callers
    /\ PID_MIN \in Int /\ PID_MAX \in Int /\ PID_MIN > 0 /\ PID_MIN <= PID_MAX
    /\ SIZE = PID_MAX - PID_MIN + 1
    /\ NONE \notin Pids
    /\ \A p : p \in Pids <=> p \in Int /\ PID_MIN <= p /\ p <= PID_MAX
  BY PidAssumption, ClientAssumption DEF SIZE, Pids, NONE

\* The invariant holds at the start.
LEMMA InitInv == Init => IInv
<1> SUFFICES ASSUME Init PROVE IInv
  OBVIOUS
<1> USE Constants DEF Init, PidInit
<1>1. TypeInv
  BY DEF TypeInv
<1>2. Progress /\ MarkedIsHeld
  BY DEF Progress, MarkedIsHeld, Marked
<1> QED
  BY <1>1, <1>2 DEF IInv

\* Every step keeps the types.
LEMMA TypeStep == IInv /\ [Next]_vars => TypeInv'
<1> SUFFICES ASSUME IInv, [Next]_vars PROVE TypeInv'
  OBVIOUS
<1> USE Constants DEF IInv, TypeInv, Progress
<1>1. CASE Start(caller) /\ UNCHANGED held
  BY <1>1 DEF Start
<1>2. CASE Reread(caller) /\ UNCHANGED held
  BY <1>2 DEF Reread
<1>3. CASE Scan(caller) /\ UNCHANGED held
  BY <1>3 DEF Scan
<1>4. CASE GiveUp(caller) /\ UNCHANGED held
  BY <1>4 DEF GiveUp
<1>5. CASE Claim(caller) /\ UNCHANGED held
  BY <1>5 DEF Claim
<1>6. CASE SetLast(caller) /\ UNCHANGED held
  BY <1>6 DEF SetLast
<1>7. CASE Return(caller) /\ UNCHANGED held
  BY <1>7 DEF Return
<1>8. CASE Receive
  BY <1>8 DEF Receive
<1>9. CASE Release
  BY <1>9 DEF Release, release_pid
<1>10. CASE UNCHANGED vars
  BY <1>10 DEF vars, pidVars
<1> QED
  BY <1>1, <1>2, <1>3, <1>4, <1>5, <1>6, <1>7, <1>8, <1>9, <1>10
  DEF Next, Allocate, AllocateStep

\* The loop sees one pid more in each turn, and claims only what is free.
LEMMA ProgressStep == IInv /\ [Next]_vars => Progress'
<1> SUFFICES ASSUME IInv, [Next]_vars PROVE Progress'
  OBVIOUS
<1> USE Constants DEF IInv, TypeInv, Progress
<1>1. CASE Start(caller) /\ UNCHANGED held
  BY <1>1 DEF Start, Seen
<1>2. CASE Reread(caller) /\ UNCHANGED held
  <2>1. n_loops'[caller] = 0 /\ next'[caller] = last + 1
    BY <1>2 DEF Reread
  <2>2. \A p \in Pids : ~Seen(p)'
    BY <2>1 DEF Seen
  <2> QED
    BY <1>2, <2>2 DEF Reread
<1>3. CASE Scan(caller) /\ UNCHANGED held
  <2>1. CASE pid_map[next[caller]] = 1
    <3>1. at'[caller] = "scan" /\ n_loops'[caller] = n_loops[caller] + 1
      BY <1>3, <2>1 DEF Scan
    <3>2. ASSUME NEW p \in Pids, Seen(p)' PROVE Seen(p) \/ p = next[caller]
      BY <1>3, <2>1, <3>1, <3>2 DEF Scan, Seen
    <3> QED
      BY <1>3, <2>1, <3>1, <3>2 DEF Scan
  <2>2. CASE pid_map[next[caller]] = 0
    BY <1>3, <2>2 DEF Scan
  <2> QED
    BY <1>3, <2>1, <2>2 DEF Scan
<1>4. CASE GiveUp(caller) /\ UNCHANGED held
  BY <1>4 DEF GiveUp
<1>5. CASE Claim(caller) /\ UNCHANGED held
  BY <1>5 DEF Claim
<1>6. CASE SetLast(caller) /\ UNCHANGED held
  BY <1>6 DEF SetLast
<1>7. CASE Return(caller) /\ UNCHANGED held
  BY <1>7 DEF Return
<1>8. CASE Receive
  BY <1>8 DEF Receive
<1>9. CASE Release
  BY <1>9 DEF Release, release_pid
<1>10. CASE UNCHANGED vars
  BY <1>10 DEF vars, pidVars, Seen
<1> QED
  BY <1>1, <1>2, <1>3, <1>4, <1>5, <1>6, <1>7, <1>8, <1>9, <1>10
  DEF Next, Allocate, AllocateStep

\* When the loop has gone all around, every pid is marked.
LEMMA SeenAll ==
    IInv /\ at[caller] = "scan" /\ n_loops[caller] = SIZE => Marked = Pids
<1> SUFFICES ASSUME IInv, at[caller] = "scan", n_loops[caller] = SIZE,
                    NEW p \in Pids
             PROVE  pid_map[p] = 1
  BY DEF Marked
<1>1. Seen(p)
  BY Constants DEF IInv, TypeInv, Seen
<1> QED
  BY <1>1 DEF IInv, Progress

\* Marking and unmarking follow what the caller holds.
LEMMA MarkedStep == IInv /\ [Next]_vars => MarkedIsHeld'
<1> SUFFICES ASSUME IInv, [Next]_vars PROVE MarkedIsHeld'
  OBVIOUS
<1> USE Constants DEF IInv, TypeInv, MarkedIsHeld
<1>1. CASE Start(caller) /\ UNCHANGED held
  BY <1>1 DEF Start, Marked
<1>2. CASE Reread(caller) /\ UNCHANGED held
  BY <1>2 DEF Reread, Marked
<1>3. CASE Scan(caller) /\ UNCHANGED held
  BY <1>3 DEF Scan, Marked
<1>4. CASE GiveUp(caller) /\ UNCHANGED held
  BY <1>4, SeenAll DEF GiveUp, Marked
<1>5. CASE Claim(caller) /\ UNCHANGED held
  <2>1. next[caller] \in Pids /\ pid_map[next[caller]] = 0
    BY <1>5 DEF Claim, Progress
  <2>2. Marked' = Marked \cup {next[caller]}
    BY <1>5, <2>1 DEF Claim, Marked
  <2> QED
    BY <1>5, <2>1, <2>2 DEF Claim, Marked
<1>6. CASE SetLast(caller) /\ UNCHANGED held
  BY <1>6 DEF SetLast, Marked
<1>7. CASE Return(caller) /\ UNCHANGED held
  BY <1>7 DEF Return, Marked, Progress
<1>8. CASE Receive
  BY <1>8 DEF Receive, Marked
<1>9. CASE Release
  <2>1. PICK p \in held : release_pid(p) /\ held' = held \ {p}
    BY <1>9 DEF Release
  <2>2. Marked' = Marked \ {p}
    BY <2>1 DEF release_pid, Marked
  <2> QED
    BY <1>9, <2>1, <2>2 DEF Release
<1>10. CASE UNCHANGED vars
  BY <1>10 DEF vars, pidVars, Marked
<1> QED
  BY <1>1, <1>2, <1>3, <1>4, <1>5, <1>6, <1>7, <1>8, <1>9, <1>10
  DEF Next, Allocate, AllocateStep

\* The invariant is inductive.
THEOREM Invariant == Spec => []IInv
<1>1. IInv /\ [Next]_vars => IInv'
  BY TypeStep, ProgressStep, MarkedStep DEF IInv
<1> QED
  BY InitInv, <1>1, PTL DEF Spec

\* Between two calls the map marks exactly the pids that are held.
THEOREM MapCorrect == Spec => []MapIsHeld
<1>1. IInv => MapIsHeld
  BY DEF IInv, MarkedIsHeld, MapIsHeld, Marked
<1> QED
  BY Invariant, <1>1, PTL

\* No pid is given out twice, and -1 means that all are taken.
THEOREM ResultCorrect == Spec => []ResultIsFair
<1>1. IInv => ResultIsFair
  BY DEF IInv, MarkedIsHeld, ResultIsFair
<1> QED
  BY Invariant, <1>1, PTL

\* Every step is a step of the abstract pool of pids, or none.
THEOREM PoolRefinement == Spec => ImplementsPool
<1>1. Init => Pool!Init
  BY Constants DEF Init, PidInit, Pool!Init, GivenOut
<1>2. IInv /\ [Next]_vars => [Pool!Next]_<<GivenOut, result[caller]>>
  <2> SUFFICES ASSUME IInv, [Next]_vars
               PROVE  Pool!Next \/ UNCHANGED <<GivenOut, result[caller]>>
    OBVIOUS
  <2> USE Constants DEF IInv, TypeInv, GivenOut
  <2>1. CASE Start(caller) /\ UNCHANGED held
    BY <2>1 DEF Start
  <2>2. CASE (Reread(caller) \/ Scan(caller) \/ Claim(caller)
              \/ SetLast(caller)) /\ UNCHANGED held
    BY <2>2 DEF Reread, Scan, Claim, SetLast
  <2>3. CASE GiveUp(caller) /\ UNCHANGED held
    <3>1. held = Pids
      BY <2>3, SeenAll DEF GiveUp, MarkedIsHeld, Marked
    <3> QED
      BY <2>3, <3>1 DEF GiveUp, Pool!Next, Pool!Refuse
  <2>4. CASE Return(caller) /\ UNCHANGED held
    <3>1. last \in Pids \ held
      BY <2>4 DEF Return, MarkedIsHeld, Progress, Marked
    <3> QED
      BY <2>4, <3>1 DEF Return, Pool!Next, Pool!Allocate
  <2>5. CASE Receive
    BY <2>5 DEF Receive
  <2>6. CASE Release
    BY <2>6 DEF Release, Pool!Next, Pool!Release
  <2>7. CASE UNCHANGED vars
    BY <2>7 DEF vars, pidVars
  <2> QED
    BY <2>1, <2>2, <2>3, <2>4, <2>5, <2>6, <2>7 DEF Next, Allocate, AllocateStep
<1> QED
  BY Invariant, <1>1, <1>2, PTL DEF Spec, ImplementsPool, Pool!Spec

(***************************************************************************)
(* The test with its threads: nothing is assumed of what allocate_pid      *)
(* returns, but that it is a pid or -1.                                    *)
(***************************************************************************)

TestTypeInv ==
    /\ last \in Pids
    /\ at \in [Callers -> {"idle", "reread", "scan", "claim", "setLast",
                           "readLast", "returned", "use", "clear"}]
    /\ next \in [Callers -> Int]
    /\ result \in [Callers -> Pids \cup {NONE}]
    /\ in_use \in [Pids -> {0, 1}]
    /\ alarm \in BOOLEAN
    /\ \A c \in Callers :
          /\ at[c] \in {"claim", "setLast"} => next[c] \in Pids
          /\ at[c] \in {"use", "clear"} => result[c] \in Pids

\* OverlapIsReported without cardinalities.
OneMarker ==
    ~alarm => \A p \in Pids :
                  \/ in_use[p] = 0 /\ Markers(p) = {}
                  \/ in_use[p] = 1 /\ \E c \in Callers : Markers(p) = {c}

TestInv == TestTypeInv /\ OneMarker /\ InUseHasAMarker

\* The constants, spelled out.
LEMMA TestConstants ==
    /\ Pids \subseteq Int
    /\ NONE \notin Pids
    /\ PID_MIN \in Pids
    /\ PID_MIN \in Int
  BY PidAssumption DEF Pids, NONE

\* The invariant holds at the start.
LEMMA TestInitInv == TestInit => TestInv
<1> SUFFICES ASSUME TestInit PROVE TestInv
  OBVIOUS
<1> USE TestConstants DEF TestInit, PidInit
<1>1. TestTypeInv
  BY DEF TestTypeInv
<1>2. OneMarker /\ InUseHasAMarker
  BY DEF OneMarker, InUseHasAMarker, Markers
<1> QED
  BY <1>1, <1>2 DEF TestInv

\* The parts of allocate_pid keep the types, the marks and the alarm, and
\* move no thread into or out of the use of a pid.
LEMMA AllocateStays ==
    ASSUME TestTypeInv, NEW c \in Callers, AllocatePid(c)
    PROVE  /\ TestTypeInv'
           /\ \A p \in Pids : Markers(p)' = Markers(p)
<1> USE TestConstants DEF TestTypeInv, Markers
<1>1. UNCHANGED <<process, i, in_use, alarm>>
  BY DEF AllocatePid
<1>2. CASE Start(c)
  BY <1>1, <1>2 DEF Start
<1>3. CASE Reread(c)
  BY <1>1, <1>3 DEF Reread
<1>4. CASE Scan(c)
  BY <1>1, <1>4 DEF Scan
<1>5. CASE GiveUp(c)
  BY <1>1, <1>5 DEF GiveUp
<1>6. CASE Claim(c)
  BY <1>1, <1>6 DEF Claim
<1>7. CASE SetLast(c)
  BY <1>1, <1>7 DEF SetLast
<1>8. CASE Return(c)
  BY <1>1, <1>8 DEF Return
<1> QED
  BY <1>2, <1>3, <1>4, <1>5, <1>6, <1>7, <1>8 DEF AllocatePid, AllocateStep

\* One step of the test.
LEMMA TestStep == TestInv /\ [TestNext]_testVars => TestInv'
<1> SUFFICES ASSUME TestInv, [TestNext]_testVars PROVE TestInv'
  OBVIOUS
<1> USE TestConstants DEF TestInv, TestTypeInv, OneMarker, InUseHasAMarker
<1>1. ASSUME NEW c \in Callers, AllocatePid(c) PROVE TestInv'
  BY <1>1, AllocateStays DEF AllocatePid
<1>2. ASSUME NEW c \in Callers, Overrun(c) PROVE TestInv'
  BY <1>2 DEF Overrun, pidVars, Markers
<1>3. ASSUME NEW c \in Callers, NoPid(c) PROVE TestInv'
  BY <1>3 DEF NoPid, Go, Markers
<1>4. ASSUME NEW c \in Callers, MarkInUse(c) PROVE TestInv'
  <2> DEFINE r == result[c]
  <2>1. r \in Pids
    BY <1>4 DEF MarkInUse, Go
  <2>2. TestTypeInv'
    BY <1>4, <2>1 DEF MarkInUse, Go
  <2>3. \A p \in Pids :
            Markers(p)' = IF p = r THEN Markers(p) \cup {c} ELSE Markers(p)
    BY <1>4, <2>1 DEF MarkInUse, Go, Markers
  <2>4. in_use'[r] = 1 /\ \A p \in Pids \ {r} : in_use'[p] = in_use[p]
    BY <1>4, <2>1 DEF MarkInUse
  <2>5. InUseHasAMarker'
    BY <2>1, <2>3, <2>4
  <2>6. OneMarker'
    <3> SUFFICES ASSUME ~alarm' PROVE OneMarker'
      OBVIOUS
    <3>1. ~alarm /\ in_use[r] = 0
      BY <1>4, <2>1 DEF MarkInUse
    <3>2. \A p \in Pids : p = r => Markers(p) = {}
      BY <3>1
    <3>3. \A p \in Pids : p = r => Markers(p)' = {c} /\ in_use'[p] = 1
      BY <2>3, <2>4, <3>2
    <3> QED
      BY <2>3, <2>4, <3>1, <3>3
  <2> QED
    BY <2>2, <2>5, <2>6
<1>5. ASSUME NEW c \in Callers, ReleasePid(c) PROVE TestInv'
  <2>1. \A p \in Pids : Markers(p)' = Markers(p)
    BY <1>5 DEF ReleasePid, Go, Markers
  <2>2. TestTypeInv'
    BY <1>5 DEF ReleasePid, Go
  <2> QED
    BY <1>5, <2>1, <2>2 DEF ReleasePid
<1>6. ASSUME NEW c \in Callers, ClearInUse(c) PROVE TestInv'
  <2> DEFINE r == result[c]
  <2>1. r \in Pids /\ c \in Markers(r)
    BY <1>6 DEF ClearInUse, Go, Markers
  <2>2. TestTypeInv'
    BY <1>6, <2>1 DEF ClearInUse, Go
  <2>3. \A p \in Pids :
            Markers(p)' = IF p = r THEN Markers(p) \ {c} ELSE Markers(p)
    BY <1>6, <2>1 DEF ClearInUse, Go, Markers
  <2>4. in_use'[r] = 0 /\ \A p \in Pids \ {r} : in_use'[p] = in_use[p]
    BY <1>6, <2>1 DEF ClearInUse
  <2>5. InUseHasAMarker'
    BY <2>1, <2>3, <2>4
  <2>6. OneMarker'
    BY <1>6, <2>1, <2>3, <2>4 DEF ClearInUse
  <2> QED
    BY <2>2, <2>5, <2>6
<1>7. CASE Exit \/ Ended \/ UNCHANGED testVars
  BY <1>7 DEF Exit, Ended, testVars, pidVars, Markers
<1> QED
  BY <1>1, <1>2, <1>3, <1>4, <1>5, <1>6, <1>7 DEF TestNext, Thread

\* The invariant is inductive.
THEOREM TestInvariant == TestSpec => []TestInv
  BY TestInitInv, TestStep, PTL DEF TestSpec

\* A pid marked in_use is always the pid of a thread that will clear it.
THEOREM MarksAreCleared == TestSpec => []InUseHasAMarker
<1>1. TestInv => InUseHasAMarker
  BY DEF TestInv
<1> QED
  BY TestInvariant, <1>1, PTL

\* While the test raises no alarm, no two threads are between the mark and
\* the clearing of one pid: it reports every overlap of such uses, however
\* pid.c interleaves.
THEOREM OverlapsAreReported == TestSpec => []OverlapIsReported
<1>1. TestInv => OverlapIsReported
  BY FS_EmptySet, FS_Singleton DEF TestInv, OneMarker, OverlapIsReported
<1> QED
  BY TestInvariant, <1>1, PTL

(***************************************************************************)
(* The shell: children                                                     *)
(***************************************************************************)

\* Whoever is there was started in the background, or is the child that the
\* shell waits for.
ChildrenInv ==
    /\ proc \in [Pid -> {"free", "running", "zombie"}]
    /\ phase # "wait" => \A p \in Pid : proc[p] # "free" => p \in behind
    /\ phase = "wait" =>
          /\ child \in Pid /\ proc[child] # "free"
          /\ \A p \in Pid : proc[p] # "free" => p \in behind \cup {child}

\* A line is read without a look at the children.
LEMMA LinesOnly ==
    ASSUME setup
    PROVE  UNCHANGED children /\ phase = "read" /\ phase' # "wait"
<1>1. ASSUME NEW cells, NEW length, NEW meant, Execute(cells, length, meant)
      PROVE  UNCHANGED children /\ phase' # "wait"
  <2>1. \A c : (CASE c = "exit"    -> "exited"
                  [] c = "history" -> "read"
                  [] OTHER         -> "fork") # "wait"
    OBVIOUS
  <2> QED BY <1>1, <2>1 DEF Execute
<1>2. ASSUME NEW line \in Lines,
             \/ EmptyLine(line) \/ Command(line) \/ NoHistory(line)
             \/ RepeatLast(line) \/ RepeatNth(line)
      PROVE  UNCHANGED children /\ phase = "read" /\ phase' # "wait"
  <2>1. phase = "read"
    BY <1>2 DEF EmptyLine, Command, NoHistory, RepeatLast, RepeatNth, CanType
  <2>2. CASE EmptyLine(line) BY <2>1, <2>2 DEF EmptyLine
  <2>3. CASE Command(line) BY <2>1, <2>3, <1>1 DEF Command
  <2>4. CASE NoHistory(line) BY <2>1, <2>4 DEF NoHistory
  <2>5. CASE RepeatLast(line) BY <2>1, <2>5, <1>1 DEF RepeatLast, Restore
  <2>6. CASE RepeatNth(line) BY <2>1, <2>6, <1>1 DEF RepeatNth, Restore
  <2> QED BY <1>2, <2>2, <2>3, <2>4, <2>5, <2>6
<1> QED BY <1>2 DEF setup, ReadEof

\* Every step of the shell and of its children.
LEMMA ChildrenStep == ChildrenInv /\ [ShellNext]_shellVars => ChildrenInv'
<1> SUFFICES ASSUME ChildrenInv, [ShellNext]_shellVars PROVE ChildrenInv'
  OBVIOUS
<1> USE DEF ChildrenInv
<1>1. CASE setup
  BY <1>1, LinesOnly DEF children
<1>2. CASE EndInput \/ Stopped \/ ReadsForEver \/ UNCHANGED shellVars
  BY <1>2 DEF EndInput, Stopped, ReadsForEver, shellVars, children
<1>3. CASE Fork
  <2>1. PICK p \in Pid : /\ proc[p] = "free" /\ child' = p
                         /\ proc' = [proc EXCEPT ![p] = "running"]
                         /\ behind' = IF background THEN behind \cup {p}
                                                    ELSE behind
    BY <1>3 DEF Fork
  <2>2. phase = "fork" /\ phase' = IF background THEN "read" ELSE "wait"
    BY <1>3 DEF Fork
  <2> QED BY <2>1, <2>2
<1>4. CASE ForkFails
  BY <1>4 DEF ForkFails
<1>5. CASE Wait
  BY <1>5 DEF Wait
<1>6. CASE \E p \in Pid : ~Over /\ ChildEnds(p)
  BY <1>6 DEF ChildEnds
<1> QED BY <1>1, <1>2, <1>3, <1>4, <1>5, <1>6 DEF ShellNext

\* At the prompt only children of background commands are left, whenever the
\* children end and whichever of them wait() returns first.
THEOREM ForegroundWaitedFor == ShellSpec => []ForegroundIsOver
<1>1. ShellInit => ChildrenInv
  BY DEF ShellInit, ChildrenInv
<1>2. ChildrenInv => ForegroundIsOver
  BY DEF ChildrenInv, ForegroundIsOver
<1> QED BY <1>1, <1>2, ChildrenStep, PTL DEF ShellSpec

(***************************************************************************)
(* The shell: strings                                                      *)
(***************************************************************************)
IsString(s) == s \in Seq(Range(s))

\* A function on 1 .. n is a sequence.
LEMMA StringIs ==
    ASSUME NEW s
    PROVE  /\ IsString(s) => /\ Len(s) \in Nat /\ DOMAIN s = 1 .. Len(s)
                             /\ s = [u \in 1 .. Len(s) |-> s[u]]
           /\ \A S : s \in Seq(S) => IsString(s)
<1>1. IsString(s) => /\ Len(s) \in Nat /\ DOMAIN s = 1 .. Len(s)
                     /\ s = [u \in 1 .. Len(s) |-> s[u]]
  <2>1. IsString(s) => Len(s) \in Nat /\ s \in [1 .. Len(s) -> Range(s)]
    BY LenProperties DEF IsString
  <2> QED BY <2>1
<1>2. ASSUME NEW S, s \in Seq(S) PROVE IsString(s)
  <2>1. Len(s) \in Nat /\ s \in [1 .. Len(s) -> S]
    BY <1>2, LenProperties
  <2>2. s \in [1 .. Len(s) -> Range(s)]
    BY <2>1 DEF Range
  <2> QED BY <2>1, <2>2, SeqDef DEF IsString
<1> QED BY <1>1, <1>2

\* A part of a string that is within it.
LEMMA Cut ==
    ASSUME NEW s, IsString(s), NEW m \in Nat \ {0}, NEW n \in Nat,
           n <= Len(s)
    PROVE  /\ IsString(SubSeq(s, m, n))
           /\ Len(SubSeq(s, m, n)) = IF m <= n THEN n - m + 1 ELSE 0
           /\ \A u \in 1 .. n - m + 1 : SubSeq(s, m, n)[u] = s[m + u - 1]
<1>1. \A u \in m .. n : s[u] \in Range(s)
  BY StringIs DEF Range
<1>2. /\ SubSeq(s, m, n) \in Seq(Range(s))
      /\ Len(SubSeq(s, m, n)) = IF m <= n THEN n - m + 1 ELSE 0
      /\ \A u \in 1 .. n - m + 1 : SubSeq(s, m, n)[u] = s[m + u - 1]
  BY <1>1, SubSeqProperties
<1> QED BY <1>2, StringIs

\* One string after the other.
LEMMA Glued ==
    ASSUME NEW s, IsString(s), NEW t, IsString(t)
    PROVE  /\ IsString(s \o t) /\ Len(s \o t) = Len(s) + Len(t)
           /\ \A u \in 1 .. Len(s) : (s \o t)[u] = s[u]
           /\ \A u \in Len(s) + 1 .. Len(s) + Len(t) :
                 (s \o t)[u] = t[u - Len(s)]
<1> DEFINE S == Range(s) \cup Range(t)
<1>1. s \in Seq(S) /\ t \in Seq(S)
  BY SeqMonotonic DEF IsString
<1>2. Len(s) \in Nat /\ Len(t) \in Nat
  BY StringIs
<1>3. /\ s \o t \in Seq(S) /\ Len(s \o t) = Len(s) + Len(t)
      /\ \A u \in 1 .. Len(s) + Len(t) :
            (s \o t)[u] = IF u <= Len(s) THEN s[u] ELSE t[u - Len(s)]
  BY <1>1, ConcatProperties
<1> HIDE DEF S
<1>4. \A u \in 1 .. Len(s) : (s \o t)[u] = s[u]
  BY <1>2, <1>3
<1>5. \A u \in Len(s) + 1 .. Len(s) + Len(t) : (s \o t)[u] = t[u - Len(s)]
  BY <1>2, <1>3
<1> QED BY <1>3, <1>4, <1>5, StringIs

\* A set of numbers that is not empty has a least one.
LEMMA LeastIs ==
    ASSUME NEW I \in SUBSET Nat, I # {}
    PROVE  Min(I) \in I /\ \A u \in I : Min(I) <= u
<1> DEFINE R == {ss \in Nat \X Nat : ss[1] < ss[2]}
<1>1. IsWellFoundedOn(R, Nat)
  BY NatLessThanWellFounded DEF OpToRel
<1>2. PICK x \in I : \A y \in I : <<y, x>> \notin R
  BY <1>1, WFMin
<1>3. \A y \in I : x <= y
  <2>1. TAKE y \in I
  <2>2. <<y, x>> \in Nat \X Nat /\ <<y, x>>[1] = y /\ <<y, x>>[2] = x
    OBVIOUS
  <2>3. ~(y < x) BY <1>2, <2>2
  <2> QED BY <2>3
<1> QED BY <1>3 DEF Min

\* What comes before the first c, or everything.
IsBefore(b, s, c) ==
    /\ IsString(b) /\ Len(b) <= Len(s)
    /\ \A u \in 1 .. Len(b) : b[u] = s[u] /\ s[u] # c
    /\ Len(b) < Len(s) => s[Len(b) + 1] = c

\* Before finds it.
LEMMA BeforeIs ==
    ASSUME NEW s, IsString(s), NEW c
    PROVE  IsBefore(Before(s, c), s, c)
<1> DEFINE I == {u \in 1 .. Len(s) : s[u] = c}
<1>1. Len(s) \in Nat /\ DOMAIN s = 1 .. Len(s)
  BY StringIs
<1>2. CASE I = {}
  <2>1. Before(s, c) = s BY <1>1, <1>2 DEF Before
  <2> QED BY <1>1, <1>2, <2>1 DEF IsBefore
<1>3. CASE I # {}
  <2>1. SelectInSeq(s, LAMBDA x : x = c) = Min(I)
    BY <1>3 DEF SelectInSeq
  <2>2. Before(s, c) = SubSeq(s, 1, Min(I) - 1)
    BY <1>1, <1>3, <2>1 DEF Before
  <2>3. Min(I) \in I /\ \A u \in I : Min(I) <= u
    <3>1. I \in SUBSET Nat BY <1>1
    <3> HIDE DEF I
    <3> QED BY <3>1, <1>3, LeastIs
  <2>4. PICK m \in Nat : m = Min(I) - 1 /\ m + 1 <= Len(s) /\ s[m + 1] = c
    <3>1. PICK k \in 1 .. Len(s) : k = Min(I) /\ s[k] = c
      BY <2>3
    <3>2. k - 1 \in Nat /\ (k - 1) + 1 = k /\ k <= Len(s)
      BY <1>1
    <3> QED BY <3>1, <3>2
  <2> HIDE DEF I
  <2>5. \A u \in 1 .. m : s[u] # c
    BY <2>3, <2>4, <1>1 DEF I
  <2>6. PICK one \in Nat \ {0} : one = 1
    OBVIOUS
  <2>7. /\ IsString(SubSeq(s, one, m))
        /\ Len(SubSeq(s, one, m)) = IF one <= m THEN m - one + 1 ELSE 0
        /\ \A u \in 1 .. m - one + 1 : SubSeq(s, one, m)[u] = s[one + u - 1]
    BY <2>4, <1>1, Cut
  <2>8. /\ IsString(SubSeq(s, 1, m)) /\ Len(SubSeq(s, 1, m)) = m
        /\ \A u \in 1 .. m : SubSeq(s, 1, m)[u] = s[u]
    <3>1. m - one + 1 = m /\ (one <= m <=> m # 0)
          /\ \A u \in Int : one + u - 1 = u
      BY <2>6
    <3> QED BY <2>6, <2>7, <3>1
  <2> QED BY <2>2, <2>4, <2>5, <2>8, <1>1 DEF IsBefore
<1> QED BY <1>2, <1>3

\* There is only one such.
LEMMA BeforeIsOne ==
    ASSUME NEW s, NEW t, IsString(s), IsString(t), NEW c, NEW a, NEW b,
           IsBefore(a, s, c), IsBefore(b, t, c),
           NEW n \in Nat, n <= Len(s), n <= Len(t),
           \A u \in 1 .. n : s[u] = t[u],
           (Len(s) = n /\ Len(t) = n) \/ (n > 0 /\ s[n] = c)
    PROVE  a = b
<1>1. /\ Len(a) \in Nat /\ Len(b) \in Nat /\ Len(s) \in Nat /\ Len(t) \in Nat
      /\ a = [u \in 1 .. Len(a) |-> a[u]]
      /\ b = [u \in 1 .. Len(b) |-> b[u]]
  BY StringIs DEF IsBefore
<1>2. Len(a) <= n /\ Len(b) <= n
  BY <1>1 DEF IsBefore
<1>3. Len(a) = Len(b)
  <2>1. ~(Len(a) < Len(b))
    <3>1. SUFFICES ASSUME Len(a) < Len(b) PROVE FALSE
      OBVIOUS
    <3>2. /\ Len(a) + 1 \in 1 .. n /\ Len(a) + 1 \in 1 .. Len(b)
          /\ Len(a) < Len(s)
      BY <3>1, <1>1, <1>2
    <3>3. s[Len(a) + 1] = c BY <3>2 DEF IsBefore
    <3>4. t[Len(a) + 1] # c BY <3>2 DEF IsBefore
    <3> QED BY <3>2, <3>3, <3>4
  <2>2. ~(Len(b) < Len(a))
    <3>1. SUFFICES ASSUME Len(b) < Len(a) PROVE FALSE
      OBVIOUS
    <3>2. /\ Len(b) + 1 \in 1 .. n /\ Len(b) + 1 \in 1 .. Len(a)
          /\ Len(b) < Len(t)
      BY <3>1, <1>1, <1>2
    <3>3. t[Len(b) + 1] = c BY <3>2 DEF IsBefore
    <3>4. s[Len(b) + 1] # c BY <3>2 DEF IsBefore
    <3> QED BY <3>2, <3>3, <3>4
  <2>3. Len(a) \in Nat /\ Len(b) \in Nat BY <1>1
  <2> QED BY <2>1, <2>2, <2>3
<1>4. \A u \in 1 .. Len(a) : a[u] = b[u]
  <2>1. TAKE u \in 1 .. Len(a)
  <2>2. u \in 1 .. n /\ u \in 1 .. Len(b) BY <1>1, <1>2, <1>3
  <2>3. a[u] = s[u] BY DEF IsBefore
  <2>4. b[u] = t[u] BY <2>2 DEF IsBefore
  <2> QED BY <2>2, <2>3, <2>4
<1> QED BY <1>1, <1>3, <1>4

\* read and strcpy put a string in front of what is there.
LEMMA PutIs ==
    ASSUME NEW cells, IsString(cells), NEW s, IsString(s)
    PROVE  /\ IsString(Put(cells, s)) /\ Len(s) <= Len(Put(cells, s))
           /\ \A u \in 1 .. Len(s) : Put(cells, s)[u] = s[u]
<1> DEFINE rest == SubSeq(cells, Len(s) + 1, Len(cells))
<1>1. Len(s) \in Nat /\ Len(cells) \in Nat
  BY StringIs
<1>2. PICK m \in Nat \ {0} : m = Len(s) + 1
  BY <1>1
<1>3. IsString(SubSeq(cells, m, Len(cells)))
  BY <1>1, Cut
<1>4. IsString(rest)
  BY <1>2, <1>3
<1>5. Len(rest) \in Nat
  BY <1>4, StringIs
<1> HIDE DEF rest
<1>6. /\ IsString(s \o rest) /\ Len(s \o rest) = Len(s) + Len(rest)
      /\ \A u \in 1 .. Len(s) : (s \o rest)[u] = s[u]
  BY <1>4, Glued
<1>7. Put(cells, s) = s \o rest
  BY DEF Put, rest
<1> QED BY <1>1, <1>5, <1>6, <1>7

(***************************************************************************)
(* The shell: the buffer                                                   *)
(***************************************************************************)
IsBuffer(cells) == IsString(cells) /\ Len(cells) = MAX_LINE

\* A string that fits leaves the buffer as long as it was.
LEMMA PutFits ==
    ASSUME NEW cells, IsBuffer(cells), NEW s, IsString(s), Len(s) <= MAX_LINE
    PROVE  IsBuffer(Put(cells, s))
<1> DEFINE rest == SubSeq(cells, Len(s) + 1, Len(cells))
<1>1. PICK n \in Nat : n = Len(s)
  BY StringIs
<1>2. PICK l \in Nat : l = MAX_LINE /\ l = Len(cells) /\ n <= l
  BY <1>1, StringIs DEF IsBuffer
<1>3. PICK m \in Nat \ {0} : m = n + 1
  BY <1>1
<1>4. /\ IsString(SubSeq(cells, m, l))
      /\ Len(SubSeq(cells, m, l)) = IF m <= l THEN l - m + 1 ELSE 0
  BY <1>2, Cut DEF IsBuffer
<1>5. rest = SubSeq(cells, m, l)
  BY <1>1, <1>2, <1>3
<1> HIDE DEF rest
<1>6. Len(rest) = l - n
  BY <1>2, <1>3, <1>4, <1>5
<1>7. IsString(s \o rest) /\ Len(s \o rest) = Len(s) + Len(rest)
  BY <1>4, <1>5, Glued
<1>8. Put(cells, s) = s \o rest
  BY DEF Put, rest
<1>9. Len(s \o rest) = l
  BY <1>1, <1>2, <1>6, <1>7
<1> QED BY <1>2, <1>7, <1>8, <1>9 DEF IsBuffer

\* What is copied from a buffer with a NUL in it is shorter than the buffer.
LEMMA CopyFits ==
    ASSUME NEW cells, IsBuffer(cells), NUL \in Range(cells)
    PROVE  /\ IsString(CString(cells)) /\ Len(CString(cells)) < MAX_LINE
           /\ \A u \in 1 .. Len(CString(cells)) : CString(cells)[u] # NUL
<1> DEFINE h == Before(cells, NUL)
<1>1. IsBefore(h, cells, NUL)
  BY BeforeIs DEF IsBuffer
<1> HIDE DEF h
<1>2. Len(h) \in Nat /\ Len(cells) \in Nat /\ DOMAIN cells = 1 .. Len(cells)
  BY <1>1, StringIs DEF IsBefore, IsBuffer
<1>3. Len(h) # Len(cells)
  <2>1. SUFFICES ASSUME Len(h) = Len(cells) PROVE FALSE
    OBVIOUS
  <2>2. \A u \in 1 .. Len(cells) : cells[u] # NUL
    BY <2>1, <1>1 DEF IsBefore
  <2> QED BY <2>2, <1>2 DEF Range
<1> QED BY <1>1, <1>2, <1>3 DEF IsBefore, IsBuffer, CString, h

\* A line that leaves a NUL in the buffer has its newline.
LEMMA LineEnds ==
    ASSUME NEW cells, IsBuffer(cells), NEW line \in Lines,
           NUL \in Range(Put(cells, line))
    PROVE  /\ IsString(line) /\ Len(line) \in Nat /\ Len(line) > 0
           /\ line[Len(line)] = NL
           /\ \A u \in 1 .. Len(line) : line[u] # NUL
<1> DEFINE p == Put(cells, line)
<1>1. /\ line \in Seq(Range(line)) /\ Len(line) \in 1 .. MAX_LINE
      /\ line[Len(line)] = NL \/ Len(line) = MAX_LINE
      /\ NUL \notin Range(line) /\ MAX_LINE \in Nat
  BY ShellAssumption
<1>2. IsString(line)
  BY <1>1 DEF IsString
<1>3. Len(line) \in Nat /\ DOMAIN line = 1 .. Len(line)
  BY <1>2, StringIs
<1>4. \A u \in 1 .. Len(line) : line[u] # NUL
  BY <1>1, <1>3 DEF Range
<1>5. Len(line) # MAX_LINE
  <2>1. SUFFICES ASSUME Len(line) = MAX_LINE PROVE FALSE
    OBVIOUS
  <2>2. IsBuffer(p)
    BY <1>1, <1>2, PutFits
  <2>3. \A u \in 1 .. Len(line) : p[u] = line[u]
    BY <1>2, PutIs DEF IsBuffer
  <2> HIDE DEF p
  <2>4. DOMAIN p = 1 .. Len(line)
    BY <2>1, <2>2, StringIs DEF IsBuffer
  <2>5. NUL \notin Range(p)
    BY <2>3, <2>4, <1>4 DEF Range
  <2> QED BY <2>5 DEF p
<1>6. Len(line) > 0
  <2>1. Len(line) \in 1 .. MAX_LINE BY ShellAssumption
  <2> QED BY <2>1, <1>3
<1>7. line[Len(line)] = NL BY <1>1, <1>5
<1> QED BY <1>2, <1>3, <1>4, <1>6, <1>7

\* A line is in the buffer as it was typed, whatever is behind it.
LEMMA LineIsRead ==
    ASSUME NEW cells, IsBuffer(cells), NEW line \in Lines,
           NUL \in Range(Put(cells, line))
    PROVE  /\ IsBuffer(Put(cells, line))
           /\ \E u \in 1 .. Len(CString(Put(cells, line))) :
                 CString(Put(cells, line))[u] = NL
           /\ Before(CString(Put(cells, line)), NL) = Before(line, NL)
<1> DEFINE p == Put(cells, line)
           h == Before(p, NUL)
<1>1. /\ IsString(line) /\ Len(line) \in Nat /\ Len(line) > 0
      /\ line[Len(line)] = NL /\ \A u \in 1 .. Len(line) : line[u] # NUL
  BY LineEnds
<1>2. /\ IsString(p) /\ Len(line) <= Len(p)
      /\ \A u \in 1 .. Len(line) : p[u] = line[u]
  BY <1>1, PutIs DEF IsBuffer
<1>3. IsBuffer(p)
  BY <1>1, PutFits, ShellAssumption
<1> HIDE DEF p
<1>4. IsBefore(h, p, NUL)
  BY <1>2, BeforeIs
<1>5. IsString(h) /\ Len(h) \in Nat /\ Len(p) \in Nat
  BY <1>2, <1>4, StringIs DEF IsBefore
<1> HIDE DEF h
<1>6. Len(line) <= Len(h)
  <2>1. SUFFICES ASSUME Len(h) < Len(line) PROVE FALSE
    BY <1>1, <1>5
  <2>2. Len(h) + 1 \in 1 .. Len(line) /\ Len(h) < Len(p)
    BY <2>1, <1>1, <1>2, <1>5
  <2>3. p[Len(h) + 1] = NUL BY <2>2, <1>4 DEF IsBefore
  <2> QED BY <2>2, <2>3, <1>1, <1>2
<1>7. \A u \in 1 .. Len(line) : h[u] = line[u]
  <2>1. TAKE u \in 1 .. Len(line)
  <2>2. u \in 1 .. Len(h) BY <1>1, <1>5, <1>6
  <2> QED BY <2>2, <1>2, <1>4 DEF IsBefore
<1>8. IsBefore(Before(h, NL), h, NL) /\ IsBefore(Before(line, NL), line, NL)
  BY <1>1, <1>5, BeforeIs
<1>9. Before(h, NL) = Before(line, NL)
  BY <1>1, <1>5, <1>6, <1>7, <1>8, BeforeIsOne
<1>10. \E u \in 1 .. Len(h) : h[u] = NL
  <2>1. Len(line) \in 1 .. Len(line) /\ Len(line) \in 1 .. Len(h)
    BY <1>1, <1>5, <1>6
  <2> QED BY <2>1, <1>1, <1>7
<1> QED BY <1>3, <1>9, <1>10 DEF CString, h, p

\* What is taken from the history is in the buffer as it is there.
LEMMA RestoredIsRead ==
    ASSUME NEW cells, IsString(cells), NEW h, IsString(h),
           \A u \in 1 .. Len(h) : h[u] # NUL
    PROVE  /\ IsString(strcpy(cells, h)) /\ CString(strcpy(cells, h)) = h
           /\ Len(h) < Len(strcpy(cells, h))
           /\ \A u \in 1 .. Len(h) : strcpy(cells, h)[u] = h[u]
           /\ strcpy(cells, h)[Len(h) + 1] = NUL
<1> DEFINE t == Append(h, NUL)
           p == Put(cells, t)
<1>1. Len(h) \in Nat /\ DOMAIN h = 1 .. Len(h)
  BY StringIs
<1>2. CString(h) = h
  BY <1>1 DEF CString, Before
<1>3. /\ IsString(t) /\ Len(t) = Len(h) + 1 /\ t[Len(h) + 1] = NUL
      /\ \A u \in 1 .. Len(h) : t[u] = h[u]
  <2>1. h \in Seq(Range(h) \cup {NUL})
    BY SeqMonotonic DEF IsString
  <2>2. /\ t \in Seq(Range(h) \cup {NUL}) /\ Len(t) = Len(h) + 1
        /\ \A u \in 1 .. Len(h) + 1 :
              t[u] = IF u <= Len(h) THEN h[u] ELSE NUL
    BY <2>1, AppendProperties
  <2> HIDE DEF t
  <2>3. \A u \in 1 .. Len(h) : t[u] = h[u] BY <1>1, <2>2
  <2>4. t[Len(h) + 1] = NUL BY <1>1, <2>2
  <2> QED BY <2>2, <2>3, <2>4, StringIs
<1> HIDE DEF t
<1>4. /\ IsString(p) /\ Len(t) <= Len(p)
      /\ \A u \in 1 .. Len(t) : p[u] = t[u]
  BY <1>3, PutIs
<1> HIDE DEF p
<1>5. IsBefore(h, t, NUL)
  BY <1>1, <1>3 DEF IsBefore
<1>6. IsBefore(Before(p, NUL), p, NUL)
  BY <1>4, BeforeIs
<1>7. Before(p, NUL) = h
  <2>1. Len(t) \in Nat /\ Len(t) > 0 BY <1>1, <1>3
  <2>2. p[Len(t)] = NUL BY <2>1, <1>1, <1>3, <1>4
  <2> QED BY <1>3, <1>4, <1>5, <1>6, <2>1, <2>2, BeforeIsOne
<1>8. strcpy(cells, h) = p
  BY <1>2 DEF strcpy, p, t
<1>9. /\ Len(h) < Len(p) /\ p[Len(h) + 1] = NUL
      /\ \A u \in 1 .. Len(h) : p[u] = h[u]
  <2>1. Len(p) \in Nat BY <1>4, StringIs
  <2>2. Len(h) + 1 \in 1 .. Len(t) /\ \A u \in 1 .. Len(h) : u \in 1 .. Len(t)
    BY <1>1, <1>3
  <2> QED BY <2>1, <2>2, <1>1, <1>3, <1>4
<1> QED BY <1>4, <1>7, <1>8, <1>9 DEF CString

\* A string shorter than the buffer can be copied to it.
LEMMA StrcpyFits ==
    ASSUME NEW cells, IsBuffer(cells), NEW h, IsString(h),
           Len(h) < MAX_LINE, \A u \in 1 .. Len(h) : h[u] # NUL
    PROVE  IsBuffer(strcpy(cells, h)) /\ NUL \in Range(strcpy(cells, h))
<1> DEFINE t == Append(h, NUL)
           e == strcpy(cells, h)
<1>1. Len(h) \in Nat /\ DOMAIN h = 1 .. Len(h) /\ MAX_LINE \in Nat
  BY StringIs, ShellAssumption
<1>2. IsString(t) /\ Len(t) = Len(h) + 1
  <2>1. h \in Seq(Range(h) \cup {NUL})
    BY SeqMonotonic DEF IsString
  <2>2. t \in Seq(Range(h) \cup {NUL}) /\ Len(t) = Len(h) + 1
    BY <2>1, AppendProperties
  <2> HIDE DEF t
  <2> QED BY <2>2, StringIs
<1>3. e = Put(cells, t)
  <2>1. CString(h) = h BY <1>1 DEF CString, Before
  <2> QED BY <2>1 DEF strcpy
<1> HIDE DEF t
<1>4. Len(t) <= MAX_LINE
  BY <1>1, <1>2
<1>5. IsBuffer(e)
  BY <1>2, <1>3, <1>4, PutFits
<1>6. e[Len(h) + 1] = NUL /\ Len(h) < Len(e)
  BY RestoredIsRead DEF IsBuffer
<1> HIDE DEF e
<1>7. Len(e) \in Nat /\ DOMAIN e = 1 .. Len(e)
  BY <1>5, StringIs DEF IsBuffer
<1>8. Len(h) + 1 \in DOMAIN e
  BY <1>1, <1>6, <1>7
<1>9. NUL \in Range(e)
  BY <1>6, <1>8 DEF Range
<1> QED BY <1>5, <1>9 DEF e

(***************************************************************************)
(* The shell: the history                                                  *)
(***************************************************************************)

\* A set of numbers up to k that is not empty has a greatest one.
LEMMA GreatestIs ==
    ASSUME NEW k \in Nat, NEW I \in SUBSET (1 .. k), I # {}
    PROVE  \E m \in I : \A u \in I : u <= m
<1> DEFINE J == {j \in Nat : k - j \in I}
<1>1. PICK u \in I : TRUE OBVIOUS
<1>2. k - u \in J
  <2>1. u \in 1 .. k BY <1>1
  <2>2. k - u \in Nat /\ k - (k - u) = u BY <2>1
  <2> QED BY <2>2, <1>1
<1>3. J \in SUBSET Nat /\ J # {} BY <1>2
<1>4. Min(J) \in J /\ \A j \in J : Min(J) <= j
  <2> HIDE DEF J
  <2> QED BY <1>3, LeastIs
<1>5. PICK j \in Nat : k - j \in I /\ \A n \in J : j <= n
  BY <1>4
<1>6. \A n \in I : n <= k - j
  <2>1. TAKE n \in I
  <2>2. k - n \in J /\ n \in Nat OBVIOUS
  <2>3. j <= k - n BY <2>2, <1>5
  <2> QED BY <2>2, <2>3
<1> QED BY <1>5, <1>6

\* Numbers of one slot are a round apart.
LEMMA RoundApart ==
    ASSUME NEW M \in Nat \ {0}, NEW a \in Nat, NEW b \in Nat, a < b,
           a % M = b % M
    PROVE  a + M <= b
<1> DEFINE q == a \div M
           p == b \div M
           r == a % M
           s == b % M
<1>1. q \in Nat /\ r \in 0 .. M - 1 /\ a = M * q + r OBVIOUS
<1>2. p \in Nat /\ s \in 0 .. M - 1 /\ b = M * p + s OBVIOUS
<1>3. r = s OBVIOUS
<1> HIDE DEF q, p, r, s
<1>4. M * q \in Int /\ M * p \in Int BY <1>1, <1>2
<1>5. p > q
  <2>1. SUFFICES ASSUME p <= q PROVE FALSE
    BY <1>1, <1>2
  <2>2. M * p <= M * q BY <2>1, <1>1, <1>2
  <2> QED BY <2>2, <1>1, <1>2, <1>3, <1>4
<1>6. M * (q + 1) <= M * p
  <2>1. q + 1 <= p BY <1>1, <1>2, <1>5
  <2> QED BY <2>1, <1>1, <1>2
<1>7. M * (q + 1) = M * q + M BY <1>1
<1> QED BY <1>1, <1>2, <1>3, <1>4, <1>6, <1>7

\* What "!n" means, for each slot, that it is in the ring, and that it fits
\* the buffer.
RingInv ==
    /\ IsBuffer(inputBuffer) /\ IsString(log)
    /\ command_count = Len(log)
    /\ history = [s \in Slot |-> history[s]]
    /\ display_history = [s \in Slot |-> display_history[s]]
    /\ \A s \in Slot :
          /\ IsString(history[s]) /\ Len(history[s]) < MAX_LINE
          /\ \A u \in 1 .. Len(history[s]) : history[s][u] # NUL
          /\ Before(history[s], NL) = Meant(s)
          /\ display_history[s] = Meant(s)

\* The commands that went to slot n.
Round(n) == {m \in DOMAIN log : (m - 1) % MAX_COMMANDS = n}

\* The greatest number of a slot is the one that counts.
LEMMA MeantIs ==
    ASSUME IsString(log), NEW n
    PROVE  /\ Round(n) = {} => Meant(n) = <<>>
           /\ \A m \in Round(n) :
                 (\A o \in Round(n) : o <= m) => Meant(n) = log[m]
<1>1. Round(n) \subseteq Nat
  BY StringIs DEF Round
<1>2. Meant(n) = IF Round(n) = {} THEN <<>>
                 ELSE log[CHOOSE m \in Round(n) : \A o \in Round(n) : o <= m]
  BY DEF Meant, Round
<1>3. ASSUME NEW m \in Round(n), \A o \in Round(n) : o <= m
      PROVE  Meant(n) = log[m]
  <2>1. \A k \in Round(n) : (\A o \in Round(n) : o <= k) => k = m
    BY <1>1, <1>3
  <2>2. (CHOOSE k \in Round(n) : \A o \in Round(n) : o <= k) = m
    BY <1>3, <2>1
  <2> QED BY <1>2, <1>3, <2>2
<1> QED BY <1>2, <1>3

\* The next command makes one slot mean something else.
LEMMA MeantGrows ==
    ASSUME IsString(log), NEW c, log' = Append(log, c), NEW CONSTANT n \in Slot
    PROVE  /\ IsString(log') /\ Len(log') = Len(log) + 1
           /\ Meant(n)' = IF n = Len(log) % MAX_COMMANDS THEN c ELSE Meant(n)
<1>1. Len(log) \in Nat /\ DOMAIN log = 1 .. Len(log)
  BY StringIs
<1>2. /\ IsString(log') /\ Len(log') = Len(log) + 1
      /\ DOMAIN log' = 1 .. Len(log) + 1
      /\ log'[Len(log) + 1] = c
      /\ \A u \in 1 .. Len(log) : log'[u] = log[u]
  <2>1. log \in Seq(Range(log) \cup {c})
    BY SeqMonotonic DEF IsString
  <2>2. /\ log' \in Seq(Range(log) \cup {c}) /\ Len(log') = Len(log) + 1
        /\ \A u \in 1 .. Len(log) + 1 :
              log'[u] = IF u <= Len(log) THEN log[u] ELSE c
    BY <2>1, AppendProperties
  <2>3. IsString(log') /\ DOMAIN log' = 1 .. Len(log')
    BY <2>2, StringIs
  <2>4. \A u \in 1 .. Len(log) : log'[u] = log[u] BY <1>1, <2>2
  <2>5. log'[Len(log) + 1] = c BY <1>1, <2>2
  <2> QED BY <2>2, <2>3, <2>4, <2>5
<1>3. /\ Round(n)' = {} => Meant(n)' = <<>>
      /\ \A m \in Round(n)' :
            (\A o \in Round(n)' : o <= m) => Meant(n)' = log'[m]
  <2>1. Meant(n)' = IF Round(n)' = {} THEN <<>>
                    ELSE log'[CHOOSE m \in Round(n)' :
                                  \A o \in Round(n)' : o <= m]
    BY DEF Meant, Round
  <2>2. Round(n)' \subseteq Nat
    BY <1>1, <1>2 DEF Round
  <2>3. ASSUME NEW m \in Round(n)', \A o \in Round(n)' : o <= m
        PROVE  Meant(n)' = log'[m]
    <3>1. \A k \in Round(n)' : (\A o \in Round(n)' : o <= k) => k = m
      BY <2>2, <2>3
    <3>2. (CHOOSE k \in Round(n)' : \A o \in Round(n)' : o <= k) = m
      BY <2>3, <3>1
    <3> QED BY <2>1, <2>3, <3>2
  <2> QED BY <2>1, <2>3
<1>4. CASE n = Len(log) % MAX_COMMANDS
  <2>1. Len(log) + 1 \in Round(n)'
    <3>1. Len(log) + 1 \in DOMAIN log' BY <1>1, <1>2
    <3>2. (Len(log) + 1) - 1 = Len(log) BY <1>1
    <3> QED BY <1>4, <3>1, <3>2 DEF Round
  <2>2. \A o \in Round(n)' : o <= Len(log) + 1
    BY <1>1, <1>2 DEF Round
  <2> QED BY <1>2, <1>3, <1>4, <2>1, <2>2
<1>5. CASE n # Len(log) % MAX_COMMANDS
  <2>1. Round(n)' = Round(n)
    <3>1. ASSUME NEW m \in Round(n)' PROVE m \in Round(n)
      <4>1. m \in 1 .. Len(log) + 1 /\ (m - 1) % MAX_COMMANDS = n
        BY <3>1, <1>2 DEF Round
      <4>2. m # Len(log) + 1
        <5>1. (Len(log) + 1) - 1 = Len(log) BY <1>1
        <5> QED BY <4>1, <5>1, <1>5
      <4>3. m \in DOMAIN log BY <4>1, <4>2, <1>1
      <4> QED BY <4>1, <4>3 DEF Round
    <3>2. Round(n) \subseteq Round(n)' BY <1>1, <1>2 DEF Round
    <3> QED BY <3>1, <3>2
  <2>2. CASE Round(n) = {}
    BY <2>1, <2>2, <1>2, <1>3, <1>5, MeantIs
  <2>3. CASE Round(n) # {}
    <3>1. Round(n) \in SUBSET (1 .. Len(log)) BY <1>1 DEF Round
    <3>2. PICK m \in Round(n) : \A o \in Round(n) : o <= m
      BY <3>1, <2>3, <1>1, GreatestIs
    <3>3. Meant(n)' = log'[m] BY <2>1, <3>2, <1>3
    <3>4. Meant(n) = log[m] BY <3>2, MeantIs
    <3>5. log'[m] = log[m] BY <3>1, <1>2
    <3> QED BY <3>3, <3>4, <3>5, <1>2, <1>5
  <2> QED BY <2>2, <2>3
<1> QED BY <1>2, <1>4, <1>5

\* The last commands are what their slots mean.
LEMMA InRing ==
    ASSUME IsString(log), NEW n \in DOMAIN log, n + MAX_COMMANDS > Len(log)
    PROVE  /\ (n - 1) % MAX_COMMANDS \in Slot
           /\ Meant((n - 1) % MAX_COMMANDS) = log[n]
<1>1. /\ Len(log) \in Nat /\ DOMAIN log = 1 .. Len(log)
      /\ MAX_COMMANDS \in Nat \ {0}
  BY StringIs, ShellAssumption
<1>2. n - 1 \in Nat
  BY <1>1
<1> DEFINE k == (n - 1) % MAX_COMMANDS
<1>3. n \in Round(k)
  BY DEF Round
<1>4. ASSUME NEW o \in Round(k) PROVE o <= n
  <2>1. o \in 1 .. Len(log) /\ (o - 1) % MAX_COMMANDS = k
    BY <1>1, <1>4 DEF Round
  <2>2. SUFFICES ASSUME n < o PROVE FALSE
    BY <1>1, <2>1
  <2>3. o - 1 \in Nat /\ n - 1 < o - 1 BY <1>1, <2>1, <2>2
  <2>4. (n - 1) + MAX_COMMANDS <= o - 1
    BY <1>1, <1>2, <2>1, <2>3, RoundApart
  <2> QED BY <2>1, <2>4, <1>1
<1>5. k \in Slot
  <2>1. \A M \in Nat \ {0}, a \in Nat : a % M \in 0 .. M - 1
    OBVIOUS
  <2> QED BY <2>1, <1>1, <1>2 DEF Slot
<1> HIDE DEF k
<1>6. Meant(k) = log[n]
  BY <1>3, <1>4, MeantIs
<1> QED BY <1>5, <1>6 DEF k

\* A command is added to the history.
LEMMA ExecuteKeeps ==
    ASSUME RingInv, NEW cells, IsBuffer(cells), NEW length, NEW meant,
           Execute(cells, length, meant), Before(CString(cells), NL) = meant
    PROVE  RingInv'
<1> DEFINE k == command_count % MAX_COMMANDS
           h == CString(cells)
<1>1. /\ history' = [history EXCEPT ![k] = h]
      /\ display_history' = [display_history EXCEPT ![k] = meant]
      /\ command_count' = command_count + 1 /\ log' = Append(log, meant)
      /\ inputBuffer' = [u \in DOMAIN cells |-> Parse(cells, length).cells[u]]
  BY DEF Execute, addtohistory
<1>2. /\ IsString(log) /\ command_count = Len(log) /\ Len(log) \in Nat
      /\ DOMAIN history = Slot /\ DOMAIN display_history = Slot
  BY StringIs DEF RingInv
<1>3. \A n \in Slot : /\ IsString(log') /\ Len(log') = Len(log) + 1
                      /\ Meant(n)' = IF n = k THEN meant ELSE Meant(n)
  BY <1>1, <1>2, MeantGrows
<1>4. k \in Slot
  <2>1. \A M \in Nat \ {0}, a \in Nat : a % M \in 0 .. M - 1
    OBVIOUS
  <2> QED BY <2>1, <1>2, ShellAssumption DEF Slot
<1>5. IsBuffer(inputBuffer')
  <2>1. Len(cells) \in Nat /\ DOMAIN cells = 1 .. Len(cells)
    BY StringIs DEF IsBuffer
  <2> DEFINE S == {Parse(cells, length).cells[u] : u \in 1 .. Len(cells)}
  <2>2. inputBuffer' \in [1 .. Len(cells) -> S]
    BY <1>1, <2>1
  <2> HIDE DEF S
  <2>3. inputBuffer' \in Seq(S) /\ DOMAIN inputBuffer' = 1 .. Len(cells)
    BY <2>1, <2>2, SeqDef
  <2>4. Len(inputBuffer') = Len(cells)
    BY <2>1, <2>3, LenProperties
  <2> QED BY <2>3, <2>4, StringIs DEF IsBuffer
<1>6. \A s \in Slot :
         /\ history'[s] = IF s = k THEN h ELSE history[s]
         /\ display_history'[s] = IF s = k THEN meant ELSE display_history[s]
  BY <1>1, <1>2
<1>7. /\ history' = [s \in Slot |-> history'[s]]
      /\ display_history' = [s \in Slot |-> display_history'[s]]
  BY <1>1, <1>2
<1>8. /\ IsString(h) /\ Len(h) < MAX_LINE /\ Before(h, NL) = meant
      /\ \A u \in 1 .. Len(h) : h[u] # NUL
  <2>1. NUL \in Range(cells) BY DEF Execute
  <2> QED BY <2>1, CopyFits
<1> HIDE DEF k, h
<1>9. ASSUME NEW s \in Slot
      PROVE  /\ IsString(history'[s]) /\ Len(history'[s]) < MAX_LINE
             /\ \A u \in 1 .. Len(history'[s]) : history'[s][u] # NUL
             /\ Before(history'[s], NL) = Meant(s)'
             /\ display_history'[s] = Meant(s)'
  <2>1. CASE s = k
    BY <2>1, <1>3, <1>6, <1>8
  <2>2. CASE s # k
    BY <2>2, <1>3, <1>6 DEF RingInv
  <2> QED BY <2>1, <2>2
<1>10. IsString(log') /\ command_count' = Len(log')
  BY <1>1, <1>2, <1>3, <1>4
<1> QED BY <1>5, <1>7, <1>9, <1>10 DEF RingInv

\* The shell does not look at the commands between two lines.
LEMMA RingIdle ==
    ASSUME RingInv,
           UNCHANGED <<history, display_history, command_count, log>>,
           IsBuffer(inputBuffer')
    PROVE  RingInv'
<1>1. \A s \in Slot : Meant(s)' = Meant(s)
  BY DEF Meant
<1> QED BY <1>1 DEF RingInv

\* Every step of the shell.
LEMMA RingStep == RingInv /\ [ShellNext]_shellVars => RingInv'
<1> SUFFICES ASSUME RingInv, [ShellNext]_shellVars PROVE RingInv'
  OBVIOUS
<1>1. IsBuffer(inputBuffer) /\ IsString(log) /\ command_count = Len(log)
  BY DEF RingInv
<1>2. ASSUME NEW line \in Lines PROVE IsBuffer(Put(inputBuffer, line))
  <2>1. IsString(line) /\ Len(line) <= MAX_LINE
    BY ShellAssumption DEF IsString
  <2> QED BY <2>1, <1>1, PutFits
<1>3. ASSUME NEW line \in Lines, EmptyLine(line) \/ NoHistory(line)
      PROVE  RingInv'
  <2>1. /\ UNCHANGED <<history, display_history, command_count, log>>
        /\ inputBuffer' = Put(inputBuffer, line)
    BY <1>3 DEF EmptyLine, NoHistory
  <2> QED BY <2>1, <1>2, RingIdle
<1>4. ASSUME NEW line \in Lines, Command(line) PROVE RingInv'
  <2>1. CASE Execute(Put(inputBuffer, line), Len(line), Before(line, NL))
    <3>1. NUL \in Range(Put(inputBuffer, line)) BY <2>1 DEF Execute
    <3> QED BY <2>1, <3>1, <1>1, <1>2, LineIsRead, ExecuteKeeps
  <2>2. CASE UNCHANGED setupVars
    BY <2>2, <1>1, RingIdle DEF setupVars
  <2> QED BY <1>4, <2>1, <2>2 DEF Command
<1>5. ASSUME NEW line \in Lines, NEW n \in Slot, NEW meant,
             Restore(line, n, meant), meant = Meant(n)
      PROVE  RingInv'
  <2>1. /\ IsString(history[n]) /\ Len(history[n]) < MAX_LINE
        /\ \A u \in 1 .. Len(history[n]) : history[n][u] # NUL
        /\ Before(history[n], NL) = meant
    BY <1>5 DEF RingInv
  <2> DEFINE cells == strcpy(Put(inputBuffer, line), history[n])
  <2>2. IsBuffer(cells) /\ CString(cells) = history[n]
    BY <1>2, <1>5, <2>1, RestoredIsRead, StrcpyFits DEF IsBuffer
  <2>3. Execute(cells, Len(history[n]) + 1, meant)
    BY <1>5 DEF Restore
  <2> HIDE DEF cells
  <2> QED BY <2>1, <2>2, <2>3, ExecuteKeeps
<1>6. ASSUME NEW line \in Lines, RepeatLast(line) PROVE RingInv'
  <2>1. /\ command_count > 0
        /\ Restore(line, (command_count - 1) % MAX_COMMANDS,
                   log[command_count])
    BY <1>6 DEF RepeatLast
  <2>2. /\ command_count \in DOMAIN log
        /\ command_count + MAX_COMMANDS > Len(log)
    BY <1>1, <2>1, StringIs, ShellAssumption
  <2> QED BY <1>1, <1>5, <2>1, <2>2, InRing
<1>7. ASSUME NEW line \in Lines, RepeatNth(line) PROVE RingInv'
  <2>1. CASE \E n \in Slot : Restore(line, n, Meant(n))
    BY <2>1, <1>5
  <2>2. CASE UNCHANGED setupVars
    BY <2>2, <1>1, RingIdle DEF setupVars
  <2> QED BY <1>7, <2>1, <2>2 DEF RepeatNth
<1>8. CASE UNCHANGED setupVars
  BY <1>8, <1>1, RingIdle DEF setupVars
<1> QED BY <1>3, <1>4, <1>6, <1>7, <1>8
        DEF ShellNext, setup, ReadEof, EndInput, Fork, ForkFails, Wait,
            ChildEnds, Stopped, ReadsForEver, shellVars

\* Before the first command.
LEMMA RingInit == ShellInit => RingInv
<1> SUFFICES ASSUME ShellInit PROVE RingInv
  OBVIOUS
<1>1. IsBuffer(inputBuffer)
  BY ShellAssumption DEF ShellInit, IsBuffer, IsString
<1>2. log = <<>> /\ command_count = 0
      /\ history = [s \in Slot |-> <<>>]
      /\ display_history = [s \in Slot |-> <<>>]
  BY DEF ShellInit
<1>3. IsString(<<>>) /\ Len(<<>>) = 0
  BY EmptySeq, StringIs
<1>4. \A s : Round(s) = {}
  BY <1>2 DEF Round
<1>5. \A s : Meant(s) = <<>>
  BY <1>2, <1>3, <1>4, MeantIs
<1>6. Before(<<>>, NL) = <<>>
  BY DEF Before
<1>7. \A s \in Slot : history[s] = <<>> /\ display_history[s] = <<>>
  BY <1>2
<1>8. Len(<<>>) < MAX_LINE
  BY <1>3, ShellAssumption
<1> QED BY <1>1, <1>2, <1>3, <1>5, <1>6, <1>7, <1>8 DEF RingInv

\* The ring shows the last MAX_COMMANDS commands, each under the number that
\* brings it back, for any history size, any numbers after "!" and any lines:
\* a command repeated from the history is entered as the command it repeats.
THEOREM HistoryKept == ShellSpec => []HistoryIsLog
<1>1. RingInv => HistoryIsLog
  <2> SUFFICES ASSUME RingInv, NEW n \in DOMAIN log,
                      n + MAX_COMMANDS > Len(log)
               PROVE  /\ display_history[(n - 1) % MAX_COMMANDS] = log[n]
                      /\ Before(history[(n - 1) % MAX_COMMANDS], NL) = log[n]
    BY DEF HistoryIsLog
  <2>1. IsString(log) BY DEF RingInv
  <2> QED BY <2>1, InRing DEF RingInv
<1> QED BY <1>1, RingInit, RingStep, PTL DEF ShellSpec

(***************************************************************************)
(* The shell: what runs                                                    *)
(***************************************************************************)

\* The parser between two cells.
Parser(cells, start, words, bg, outside) ==
    [cells |-> cells, start |-> start, words |-> words, background |-> bg,
     outside |-> outside]
IsParser(p) ==
    p = Parser(p.cells, p.start, p.words, p.background, p.outside)

\* What holds at first and is kept by each turn of a loop holds at its end.
LEMMA UpTo ==
    ASSUME NEW n \in Nat, NEW I, 0 \in I,
           \A j \in 0 .. n - 1 : j \in I => j + 1 \in I
    PROVE  \A j \in 0 .. n : j \in I
<1> DEFINE J == {j \in 0 .. n : j \notin I}
<1>1. SUFFICES ASSUME J # {} PROVE FALSE
  OBVIOUS
<1>2. J \in SUBSET Nat OBVIOUS
<1>3. PICK m \in J : \A j \in J : m <= j
  <2> HIDE DEF J
  <2> QED BY <1>1, <1>2, LeastIs
<1>4. m \in 0 .. n /\ m \notin I /\ m # 0
  BY <1>3
<1>5. m - 1 \in 0 .. n - 1 /\ (m - 1) + 1 = m
  BY <1>4
<1>6. m - 1 \in I
  <2>1. SUFFICES ASSUME m - 1 \in J PROVE FALSE
    BY <1>5
  <2> QED BY <1>3, <1>4, <2>1
<1> QED BY <1>4, <1>5, <1>6

\* The parser before it has looked at any cell.
NoCellYet(cells) == Parser(cells, 0, <<>>, FALSE, FALSE)
Runs(run, cells, n) ==
    run = [j \in 0 .. n |-> IF j = 0 THEN NoCellYet(cells)
                                     ELSE ParseCell(run[j - 1], j)]

\* The loop of setup() has a state after each cell.
LEMMA ParserRuns ==
    ASSUME NEW cells, NEW n \in Nat
    PROVE  \E run : /\ run[0] = NoCellYet(cells) /\ run[n] = Parse(cells, n)
                    /\ \A j \in 0 .. n - 1 :
                          run[j + 1] = ParseCell(run[j], j + 1)
<1> DEFINE I == {m \in Nat : \E run : Runs(run, cells, m)}
<1>1. 0 \in I
  <2> DEFINE run == [j \in 0 .. 0 |-> NoCellYet(cells)]
  <2>1. run = [j \in 0 .. 0 |-> IF j = 0 THEN NoCellYet(cells)
                                         ELSE ParseCell(run[j - 1], j)]
    OBVIOUS
  <2> HIDE DEF run
  <2> QED BY <2>1 DEF Runs
<1>2. ASSUME NEW m \in 0 .. n - 1, m \in I PROVE m + 1 \in I
  <2>1. PICK run : Runs(run, cells, m) BY <1>2
  <2>2. \A j \in 0 .. m : run[j] = IF j = 0 THEN NoCellYet(cells)
                                   ELSE ParseCell(run[j - 1], j)
    BY <2>1 DEF Runs
  <2> DEFINE more == [j \in 0 .. m + 1 |-> IF j = m + 1
                                           THEN ParseCell(run[m], m + 1)
                                           ELSE run[j]]
  <2>3. \A j \in 0 .. m + 1 :
           more[j] = IF j = 0 THEN NoCellYet(cells)
                              ELSE ParseCell(more[j - 1], j)
    <3>1. TAKE j \in 0 .. m + 1
    <3>2. CASE j = m + 1
      <4>1. j # 0 /\ j - 1 = m /\ m \in 0 .. m + 1 /\ m # m + 1
        BY <3>2, <1>2
      <4>2. more[j] = ParseCell(run[m], j) /\ more[m] = run[m]
        BY <3>2, <4>1
      <4> QED BY <4>1, <4>2
    <3>3. CASE j # m + 1
      <4>1. j \in 0 .. m /\ more[j] = run[j] BY <3>3, <1>2
      <4>2. CASE j = 0 BY <4>1, <4>2, <2>2
      <4>3. CASE j # 0
        <5>1. j - 1 \in 0 .. m + 1 /\ j - 1 # m + 1 BY <4>1, <4>3
        <5>2. more[j - 1] = run[j - 1] BY <5>1
        <5> HIDE DEF more
        <5> QED BY <4>1, <4>3, <5>2, <2>2
      <4> QED BY <4>2, <4>3
    <3> QED BY <3>2, <3>3
  <2>4. more = [j \in 0 .. m + 1 |-> more[j]] OBVIOUS
  <2>5. m + 1 \in Nat BY <1>2
  <2> HIDE DEF more
  <2>6. Runs(more, cells, m + 1) BY <2>3, <2>4 DEF Runs
  <2> QED BY <2>5, <2>6
<1>3. n \in I
  <2> HIDE DEF I
  <2> QED BY <1>1, <1>2, UpTo
<1> DEFINE f == CHOOSE run : Runs(run, cells, n)
<1>4. Runs(f, cells, n) BY <1>3
<1>5. Parse(cells, n) = f[n] BY DEF Parse, Runs, NoCellYet, Parser
<1> HIDE DEF f
<1>6. \A j \in 0 .. n : f[j] = IF j = 0 THEN NoCellYet(cells)
                               ELSE ParseCell(f[j - 1], j)
  BY <1>4 DEF Runs
<1>7. f[0] = NoCellYet(cells) BY <1>6
<1>8. ASSUME NEW j \in 0 .. n - 1 PROVE f[j + 1] = ParseCell(f[j], j + 1)
  <2>1. j + 1 \in 0 .. n /\ j + 1 # 0 /\ (j + 1) - 1 = j OBVIOUS
  <2> QED BY <2>1, <1>6
<1> QED BY <1>5, <1>7, <1>8

\* The fields of the parser's state.
LEMMA Fields ==
    ASSUME NEW c, NEW s, NEW w, NEW b, NEW o
    PROVE  LET q == Parser(c, s, w, b, o)
           IN /\ IsParser(q) /\ q.cells = c /\ q.start = s /\ q.words = w
              /\ q.background = b /\ q.outside = o
BY DEF IsParser, Parser

Begun(p, n) == IF p.start = 0 THEN n ELSE p.start
Added(p)    == IF p.start = 0 THEN p.words ELSE Append(p.words, p.start)

\* The two characters that the parser looks for besides the newline.
Blank == " "
Amp   == "&"

\* One turn of the loop, for each kind of cell.
LEMMA CellIs ==
    ASSUME NEW p, IsParser(p), NEW n
    PROVE  /\ p.cells[n] = Blank =>
                 ParseCell(p, n) =
                    Parser([p.cells EXCEPT ![n] = NUL], 0, Added(p),
                           p.background, p.outside)
           /\ p.cells[n] = NL =>
                 ParseCell(p, n) =
                    Parser([p.cells EXCEPT ![n] = NUL], p.start, Added(p),
                           p.background, p.outside)
           /\ p.cells[n] = Amp /\ n = 1 =>
                 ParseCell(p, n) =
                    Parser(p.cells, 1, p.words, TRUE, TRUE)
           /\ p.cells[n] = Amp /\ n # 1 =>
                 ParseCell(p, n) =
                    Parser([p.cells EXCEPT ![n - 1] = NUL], Begun(p, n),
                           p.words, TRUE, p.outside)
           /\ p.cells[n] \notin {Blank, NL, Amp} =>
                 ParseCell(p, n) =
                    Parser(p.cells, Begun(p, n), p.words,
                           p.background, p.outside)
<1>1. NL # Blank /\ NL # Amp /\ Blank # Amp
  BY ShellAssumption DEF Blank, Amp
<1> USE DEF Parser, IsParser, ParseCell, Blank, Amp, Begun, Added
<1>2. CASE p.cells[n] = Blank
  BY <1>1, <1>2
<1>3. CASE p.cells[n] = NL
  BY <1>1, <1>3
<1>4. CASE p.cells[n] = Amp /\ n = 1
  BY <1>1, <1>4
<1>5. CASE p.cells[n] = Amp /\ n # 1
  BY <1>1, <1>5
<1>6. CASE p.cells[n] \notin {Blank, NL, Amp}
  BY <1>6
<1> QED BY <1>2, <1>3, <1>4, <1>5, <1>6

(***************************************************************************)
(* What is parsed: a command c, the newline, and whatever is behind it.    *)
(***************************************************************************)

IsLine(cells, c) ==
    /\ IsString(cells) /\ IsString(c) /\ WellFormed(c)
    /\ Len(c) < Len(cells) /\ cells[Len(c) + 1] = NL
    /\ \A u \in 1 .. Len(c) : cells[u] = c[u] /\ c[u] \notin {NL, NUL}

\* w enumerates the numbers of S from the least to the greatest.
Lists(w, S) ==
    /\ w \in Seq(Nat) /\ Range(w) = S
    /\ \A j, k \in 1 .. Len(w) : j < k => w[j] < w[k]

\* A greater number goes to the end.
LEMMA ListsMore ==
    ASSUME NEW w, NEW S, Lists(w, S), NEW x \in Nat, \A y \in S : y < x
    PROVE  /\ Lists(Append(w, x), S \cup {x})
           /\ Append(w, x) # <<>> /\ Front(Append(w, x)) = w
<1> DEFINE v == Append(w, x)
<1>1. /\ v \in Seq(Nat) /\ Len(v) = Len(w) + 1 /\ v # <<>>
      /\ \A u \in 1 .. Len(w) + 1 : v[u] = IF u <= Len(w) THEN w[u] ELSE x
  BY AppendProperties DEF Lists
<1>2. Len(w) \in Nat /\ DOMAIN w = 1 .. Len(w) /\ w \in [1 .. Len(w) -> Nat]
  BY LenProperties DEF Lists
<1>3. DOMAIN v = 1 .. Len(w) + 1
  BY <1>1, LenProperties
<1> HIDE DEF v
<1>4. v[Len(w) + 1] = x /\ \A u \in 1 .. Len(w) : v[u] = w[u]
  BY <1>1, <1>2
<1>5. Range(v) = S \cup {x}
  <2>1. S = {w[u] : u \in 1 .. Len(w)} BY <1>2 DEF Lists, Range
  <2>2. Range(v) = {v[u] : u \in 1 .. Len(w) + 1} BY <1>3 DEF Range
  <2>3. 1 .. Len(w) + 1 = (1 .. Len(w)) \cup {Len(w) + 1} BY <1>2
  <2> QED BY <2>1, <2>2, <2>3, <1>4
<1>6. ASSUME NEW j \in 1 .. Len(v), NEW k \in 1 .. Len(v), j < k
      PROVE  v[j] < v[k]
  <2>1. j \in 1 .. Len(w) /\ v[j] = w[j] /\ w[j] \in S
    <3>1. j \in 1 .. Len(w) BY <1>1, <1>2, <1>6
    <3>2. w[j] \in S BY <3>1, <1>2 DEF Lists, Range
    <3> QED BY <3>1, <3>2, <1>4
  <2>2. CASE k = Len(w) + 1 BY <2>1, <2>2, <1>4
  <2>3. CASE k # Len(w) + 1
    <3>1. k \in 1 .. Len(w) BY <2>3, <1>1, <1>2
    <3> QED BY <3>1, <2>1, <1>4, <1>6 DEF Lists
  <2> QED BY <2>2, <2>3
<1>7. Front(v) = w
  <2>1. Front(v) \in Seq(Nat) /\ Len(Front(v)) = Len(v) - 1
        /\ \A u \in 1 .. Len(v) - 1 : Front(v)[u] = v[u]
    <3>1. Front(v) = SubSeq(v, 1, Len(v) - 1) BY DEF Front
    <3>2. IsString(v) BY <1>1, StringIs
    <3>3. PICK one \in Nat \ {0} : one = 1 OBVIOUS
    <3>4. PICK l \in Nat : l = Len(v) - 1
      <4>1. Len(v) - 1 = Len(w) BY <1>1, <1>2
      <4> QED BY <4>1, <1>2
    <3>5. l <= Len(v) BY <3>4, <1>1, <1>2
    <3>6. /\ Len(SubSeq(v, one, l)) = IF one <= l THEN l - one + 1 ELSE 0
          /\ \A u \in 1 .. l - one + 1 :
                SubSeq(v, one, l)[u] = v[one + u - 1]
      BY <3>2, <3>5, Cut
    <3>7. \A u \in 1 .. l : u \in 1 .. l - one + 1 /\ one + u - 1 = u
      BY <3>3
    <3>8. \A u \in one .. l : v[u] \in Nat
      BY <1>1, <1>2, <3>3, <3>4, ElementOfSeq
    <3>9. SubSeq(v, one, l) \in Seq(Nat)
      BY <1>1, <3>8, SubSeqProperties
    <3>10. Len(SubSeq(v, one, l)) = l
      BY <3>3, <3>6
    <3> QED BY <3>1, <3>3, <3>4, <3>6, <3>7, <3>9, <3>10
  <2>2. Len(v) - 1 = Len(w) BY <1>1, <1>2
  <2>3. \A u \in 1 .. Len(w) : Front(v)[u] = w[u] BY <2>1, <2>2, <1>4
  <2> QED BY <2>1, <2>2, <2>3, SeqEqual DEF Lists
<1> QED BY <1>1, <1>5, <1>6, <1>7 DEF Lists, v

\* What the buffer says of the command.
LEMMA LineIs ==
    ASSUME NEW cells, NEW c, IsLine(cells, c)
    PROVE  /\ Len(c) \in Nat /\ Len(cells) \in Nat /\ Len(c) < Len(cells)
           /\ cells = [u \in 1 .. Len(cells) |-> cells[u]]
           /\ cells[Len(c) + 1] = NL
           /\ \A u \in 1 .. Len(c) : cells[u] \notin {NL, NUL}
           /\ \A u \in 1 .. Len(c) : cells[u] = Amp =>
                 u > 1 /\ u = Len(c) /\ cells[u - 1] = Blank
           /\ FirstOfWord(c) =
                 {u \in 1 .. Len(c) : /\ cells[u] # Blank /\ cells[u] # Amp
                                      /\ u = 1 \/ cells[u - 1] = Blank}
<1>1. /\ Len(c) \in Nat /\ DOMAIN c = 1 .. Len(c)
      /\ Len(cells) \in Nat /\ cells = [u \in 1 .. Len(cells) |-> cells[u]]
  BY StringIs DEF IsLine
<1>2. \A u \in 1 .. Len(c) : u = 1 \/ u - 1 \in 1 .. Len(c)
  BY <1>1
<1>3. \A u \in 1 .. Len(c) : cells[u] = Amp =>
         u > 1 /\ u = Len(c) /\ cells[u - 1] = Blank
  <2>1. TAKE u \in 1 .. Len(c)
  <2>2. HAVE cells[u] = Amp
  <2>3. c[u] = Amp BY <2>2 DEF IsLine
  <2>4. u > 1 /\ u = Len(c) /\ c[u - 1] = Blank
    BY <2>3, <1>1 DEF IsLine, WellFormed, Blank, Amp
  <2>5. u - 1 \in 1 .. Len(c) BY <2>4, <1>1
  <2>6. cells[u - 1] = c[u - 1]
    <3> HIDE <1>3
    <3> QED BY <2>5 DEF IsLine
  <2> QED BY <2>4, <2>6
<1>4. FirstOfWord(c) = {u \in 1 .. Len(c) :
                           /\ cells[u] # Blank /\ cells[u] # Amp
                           /\ u = 1 \/ cells[u - 1] = Blank}
  <2>1. ASSUME NEW u \in 1 .. Len(c)
        PROVE  /\ c[u] = cells[u]
               /\ (u = 1 \/ c[u - 1] = Blank) <=>
                     (u = 1 \/ cells[u - 1] = Blank)
    <3>1. CASE u = 1 BY <3>1 DEF IsLine
    <3>2. CASE u - 1 \in 1 .. Len(c) BY <3>2 DEF IsLine
    <3> QED BY <3>1, <3>2, <1>2
  <2> QED BY <2>1, <1>1 DEF FirstOfWord, Blank, Amp
<1> QED BY <1>1, <1>3, <1>4 DEF IsLine

\* After the cells 1 .. k of the command: the last word begins at s, if one
\* has begun, and these words are complete.
Begins(cells, k, s) ==
    IF k = 0 \/ cells[k] = Blank
    THEN s = 0
    ELSE /\ s \in 1 .. k /\ \A u \in s .. k : cells[u] # Blank
         /\ s = 1 \/ cells[s - 1] = Blank
Complete(c, k, s) == {u \in FirstOfWord(c) : u <= k /\ (s = 0 \/ u < s)}

\* How they change with the next cell.
LEMMA NextCell ==
    ASSUME NEW cells, NEW c, IsLine(cells, c),
           NEW m \in Nat, m <= Len(c), NEW s \in Nat, Begins(cells, m, s)
    PROVE  /\ s # 0 /\ cells[s] # Amp =>
                 /\ Complete(c, m, 0) = Complete(c, m, s) \cup {s}
                 /\ \A u \in Complete(c, m, s) : u < s
           /\ m < Len(c) /\ cells[m + 1] = Blank =>
                 /\ Begins(cells, m + 1, 0)
                 /\ Complete(c, m + 1, 0) = Complete(c, m, 0)
           /\ m < Len(c) /\ cells[m + 1] # Blank =>
                 IF s = 0
                 THEN /\ Begins(cells, m + 1, m + 1)
                      /\ Complete(c, m + 1, m + 1) = Complete(c, m, 0)
                 ELSE /\ Begins(cells, m + 1, s)
                      /\ Complete(c, m + 1, s) = Complete(c, m, s)
<1>1. PICK n \in Nat : n = Len(c)
  BY LineIs
<1>2. /\ \A u \in 1 .. n : cells[u] = Amp => u = n
      /\ FirstOfWord(c) =
            {u \in 1 .. n : /\ cells[u] # Blank /\ cells[u] # Amp
                            /\ u = 1 \/ cells[u - 1] = Blank}
  BY <1>1, LineIs
<1>3. \A u : u \in FirstOfWord(c) <=>
                /\ u \in 1 .. n /\ cells[u] # Blank /\ cells[u] # Amp
                /\ u = 1 \/ cells[u - 1] = Blank
  BY <1>2
<1>4. m <= n BY <1>1
<1>5. ASSUME s # 0, cells[s] # Amp
      PROVE  /\ Complete(c, m, 0) = Complete(c, m, s) \cup {s}
             /\ \A u \in Complete(c, m, s) : u < s
  <2>1. /\ s \in 1 .. m /\ \A u \in s .. m : cells[u] # Blank
        /\ s = 1 \/ cells[s - 1] = Blank
    BY <1>5 DEF Begins
  <2>2. s \in FirstOfWord(c) BY <2>1, <1>3, <1>4, <1>5
  <2>3. ASSUME NEW u \in FirstOfWord(c), u <= m PROVE u <= s
    <3>1. u \in 1 .. n /\ (u = 1 \/ cells[u - 1] = Blank) BY <1>3
    <3>2. SUFFICES ASSUME s < u PROVE FALSE BY <3>1
    <3>3. u - 1 \in s .. m /\ u # 1 BY <3>1, <3>2, <2>1, <2>3
    <3> QED BY <3>1, <3>3, <2>1
  <2>4. \A u \in FirstOfWord(c) : u \in Nat BY <1>3
  <2>5. \A u \in FirstOfWord(c) : u <= m <=> (u <= m /\ u < s) \/ u = s
    BY <2>1, <2>3, <2>4
  <2>6. Complete(c, m, 0) = Complete(c, m, s) \cup {s}
    BY <2>2, <2>5, <1>5 DEF Complete
  <2> QED BY <2>6, <1>5 DEF Complete
<1>6. PICK k \in 1 .. n + 1 : k = m + 1
  BY <1>4
<1>7. ASSUME m < n, cells[k] = Blank
      PROVE  /\ Begins(cells, k, 0)
             /\ Complete(c, k, 0) = Complete(c, m, 0)
  <2>1. k \notin FirstOfWord(c) BY <1>3, <1>7
  <2>2. \A u \in FirstOfWord(c) : u \in Nat BY <1>3
  <2>3. \A u \in FirstOfWord(c) : u <= k <=> u <= m
    BY <2>1, <2>2, <1>6
  <2> QED BY <2>3, <1>7 DEF Begins, Complete
<1>8. ASSUME m < n, cells[k] # Blank, s = 0
      PROVE  /\ Begins(cells, k, k)
             /\ Complete(c, k, k) = Complete(c, m, 0)
  <2>1. \A u \in FirstOfWord(c) : u \in Nat BY <1>3
  <2>2. \A u \in FirstOfWord(c) : u <= k /\ u < k <=> u <= m
    BY <2>1, <1>6
  <2>3. Complete(c, k, k) = Complete(c, m, 0)
    BY <2>2, <1>6 DEF Complete
  <2>4. m = 0 \/ cells[m] = Blank BY <1>8 DEF Begins
  <2>5. k = 1 \/ cells[k - 1] = Blank
    <3>1. k - 1 = m BY <1>6
    <3> QED BY <2>4, <3>1, <1>6
  <2>6. \A u \in k .. k : cells[u] # Blank BY <1>8, <1>6
  <2> QED BY <2>3, <2>5, <2>6, <1>6, <1>8 DEF Begins
<1>9. ASSUME m < n, cells[k] # Blank, s # 0
       PROVE  /\ Begins(cells, k, s)
              /\ Complete(c, k, s) = Complete(c, m, s)
  <2>1. /\ s \in 1 .. m /\ \A u \in s .. m : cells[u] # Blank
        /\ s = 1 \/ cells[s - 1] = Blank
    BY <1>9 DEF Begins
  <2>2. \A u \in s .. k : cells[u] # Blank
    <3>1. \A u \in s .. k : u \in s .. m \/ u = k BY <1>6
    <3> QED BY <3>1, <2>1, <1>9
  <2>3. \A u \in FirstOfWord(c) : u \in Nat BY <1>3
  <2>4. \A u \in FirstOfWord(c) : u < s => u <= k /\ u <= m
    BY <2>1, <2>3, <1>6
  <2>5. Complete(c, k, s) = Complete(c, m, s)
    BY <2>4, <1>9 DEF Complete
  <2>6. s \in 1 .. k /\ k # 0 BY <2>1, <1>6
  <2> QED BY <2>1, <2>2, <2>5, <2>6, <1>9 DEF Begins
<1> QED BY <1>1, <1>5, <1>6, <1>7, <1>8, <1>9

\* The cells when the blanks up to k have been replaced.
Blanked(cells, k) == [u \in 1 .. Len(cells) |->
                         IF u <= k /\ cells[u] = Blank THEN NUL ELSE cells[u]]

\* The cell that is parsed next, and what becomes of it.
LEMMA BlankedIs ==
    ASSUME NEW cells, Len(cells) \in Nat, NEW k \in 1 .. Len(cells)
    PROVE  /\ Blanked(cells, k - 1)[k] = cells[k]
           /\ cells[k] = Blank =>
                 [Blanked(cells, k - 1) EXCEPT ![k] = NUL] = Blanked(cells, k)
           /\ cells[k] # Blank => Blanked(cells, k - 1) = Blanked(cells, k)
           /\ cells[k] # Blank /\ k > 1 /\ cells[k - 1] = Blank =>
                 [Blanked(cells, k - 1) EXCEPT ![k - 1] = NUL]
                    = Blanked(cells, k)
<1>1. PICK m \in Nat : k = m + 1 /\ m = k - 1
  <2>1. k - 1 \in Nat /\ k = (k - 1) + 1 OBVIOUS
  <2> QED BY <2>1
<1>2. \A u \in 1 .. Len(cells) : u <= k <=> u <= m \/ u = k
  BY <1>1
<1>3. ~(k <= m) BY <1>1
<1>4. CASE cells[k] = Blank
  BY <1>1, <1>2, <1>3, <1>4 DEF Blanked
<1>5. CASE cells[k] # Blank
  <2>1. Blanked(cells, m) = Blanked(cells, k)
    BY <1>1, <1>2, <1>3, <1>5 DEF Blanked
  <2>2. Blanked(cells, m)[k] = cells[k]
    BY <1>3 DEF Blanked
  <2>3. ASSUME k > 1, cells[m] = Blank
        PROVE  [Blanked(cells, m) EXCEPT ![m] = NUL] = Blanked(cells, m)
    <3>1. m \in 1 .. Len(cells) /\ m <= m BY <1>1, <2>3
    <3>2. Blanked(cells, m)[m] = NUL BY <3>1, <2>3 DEF Blanked
    <3> QED BY <3>1, <3>2 DEF Blanked
  <2> QED BY <2>1, <2>2, <2>3, <1>1, <1>5
<1> QED BY <1>4, <1>5

\* The background flag after the cells 1 .. k.
Flag(cells, k) == IF k > 0 /\ cells[k] = Amp THEN TRUE ELSE FALSE

\* The parser after the cells 1 .. k of the command.
At(p, cells, c, k) ==
    \E s \in Nat, w \in Seq(Nat) :
       /\ p = Parser(Blanked(cells, k), s, w, Flag(cells, k), FALSE)
       /\ Begins(cells, k, s) /\ Lists(w, Complete(c, k, s))

\* Before the loop.
LEMMA AtStart ==
    ASSUME NEW cells, NEW c, IsLine(cells, c)
    PROVE  At(NoCellYet(cells), cells, c, 0)
<1>1. /\ Len(cells) \in Nat /\ cells = [u \in 1 .. Len(cells) |-> cells[u]]
      /\ FirstOfWord(c) \subseteq 1 .. Len(c)
  BY LineIs
<1>2. Blanked(cells, 0) = cells
  <2>1. \A u \in 1 .. Len(cells) : ~(u <= 0) BY <1>1
  <2> QED BY <2>1, <1>1 DEF Blanked
<1>3. Complete(c, 0, 0) = {}
  BY <1>1 DEF Complete
<1>4. Lists(<<>>, {})
  <2>1. <<>> \in Seq(Nat) /\ Len(<<>>) = 0 BY EmptySeq
  <2>2. Range(<<>>) = {} BY DEF Range
  <2> QED BY <2>1, <2>2 DEF Lists
<1>5. Begins(cells, 0, 0) BY DEF Begins
<1>6. Flag(cells, 0) = FALSE BY DEF Flag
<1>7. NoCellYet(cells) = Parser(Blanked(cells, 0), 0, <<>>, Flag(cells, 0),
                                FALSE)
  BY <1>2, <1>6 DEF NoCellYet
<1>8. <<>> \in Seq(Nat) BY EmptySeq
<1>9. Lists(<<>>, Complete(c, 0, 0)) BY <1>3, <1>4
<1> QED BY <1>5, <1>7, <1>8, <1>9 DEF At

\* A turn of the loop within the command.
LEMMA AtStep ==
    ASSUME NEW cells, NEW c, IsLine(cells, c), NEW p,
           NEW m \in Nat, m < Len(c), At(p, cells, c, m)
    PROVE  At(ParseCell(p, m + 1), cells, c, m + 1)
<1>1. PICK s \in Nat, w \in Seq(Nat) :
         /\ p = Parser(Blanked(cells, m), s, w, Flag(cells, m), FALSE)
         /\ Begins(cells, m, s) /\ Lists(w, Complete(c, m, s))
  BY DEF At
<1>2. /\ IsParser(p) /\ p.cells = Blanked(cells, m) /\ p.start = s
      /\ p.words = w /\ p.background = Flag(cells, m) /\ p.outside = FALSE
  BY <1>1 DEF Parser, IsParser
<1>3. /\ Len(c) \in Nat /\ Len(cells) \in Nat /\ Len(c) < Len(cells)
      /\ \A u \in 1 .. Len(c) : cells[u] \notin {NL, NUL}
      /\ \A u \in 1 .. Len(c) : cells[u] = Amp =>
            u > 1 /\ u = Len(c) /\ cells[u - 1] = Blank
  BY LineIs
<1>4. PICK k \in 1 .. Len(c) : k = m + 1 /\ m = k - 1
  <2>1. m + 1 \in 1 .. Len(c) /\ m = (m + 1) - 1 BY <1>3
  <2> QED BY <2>1
<1>5. k \in 1 .. Len(cells) /\ k > 0 /\ cells[k] # NL BY <1>3
<1>6. /\ p.cells[k] = cells[k]
      /\ cells[k] = Blank =>
            [p.cells EXCEPT ![k] = NUL] = Blanked(cells, k)
      /\ cells[k] # Blank => p.cells = Blanked(cells, k)
      /\ cells[k] # Blank /\ k > 1 /\ cells[k - 1] = Blank =>
            [p.cells EXCEPT ![k - 1] = NUL] = Blanked(cells, k)
  <2>1. /\ Blanked(cells, k - 1)[k] = cells[k]
        /\ cells[k] = Blank =>
              [Blanked(cells, k - 1) EXCEPT ![k] = NUL] = Blanked(cells, k)
        /\ cells[k] # Blank => Blanked(cells, k - 1) = Blanked(cells, k)
        /\ cells[k] # Blank /\ k > 1 /\ cells[k - 1] = Blank =>
              [Blanked(cells, k - 1) EXCEPT ![k - 1] = NUL]
                 = Blanked(cells, k)
    BY <1>3, <1>5, BlankedIs
  <2>2. p.cells = Blanked(cells, k - 1) BY <1>2, <1>4
  <2> QED BY <2>1, <2>2
<1>7. Flag(cells, m) = FALSE
  BY <1>3, <1>4 DEF Flag
<1>8. Blank # Amp
  BY DEF Blank, Amp
<1>9. /\ s # 0 /\ cells[s] # Amp =>
            /\ Complete(c, m, 0) = Complete(c, m, s) \cup {s}
            /\ \A u \in Complete(c, m, s) : u < s
      /\ cells[k] = Blank => /\ Begins(cells, k, 0)
                             /\ Complete(c, k, 0) = Complete(c, m, 0)
      /\ cells[k] # Blank =>
            IF s = 0
            THEN Begins(cells, k, k) /\ Complete(c, k, k) = Complete(c, m, 0)
            ELSE Begins(cells, k, s) /\ Complete(c, k, s) = Complete(c, m, s)
  BY <1>1, <1>3, <1>4, NextCell
<1>10. CASE cells[k] = Blank
  <2>1. ParseCell(p, k) = Parser([p.cells EXCEPT ![k] = NUL], 0, Added(p),
                                 p.background, p.outside)
    BY <1>2, <1>6, <1>10, CellIs
  <2>2. Lists(Added(p), Complete(c, k, 0))
    <3>1. CASE s = 0
      BY <3>1, <1>1, <1>2, <1>9, <1>10 DEF Added
    <3>2. CASE s # 0
      <4>1. cells[s] # Amp
        <5>1. s \in 1 .. m BY <3>2, <1>1 DEF Begins
        <5> QED BY <5>1, <1>3
      <4>2. Lists(Append(w, s), Complete(c, m, s) \cup {s})
        BY <3>2, <4>1, <1>1, <1>9, ListsMore
      <4>3. Complete(c, m, s) \cup {s} = Complete(c, k, 0)
        BY <3>2, <4>1, <1>9, <1>10
      <4> QED BY <3>2, <4>2, <4>3, <1>2 DEF Added
    <3> QED BY <3>1, <3>2
  <2>3. Flag(cells, k) = FALSE BY <1>8, <1>10 DEF Flag
  <2>4. ParseCell(p, k) = Parser(Blanked(cells, k), 0, Added(p),
                                 Flag(cells, k), FALSE)
    BY <2>1, <2>3, <1>2, <1>6, <1>7, <1>10
  <2>5. Added(p) \in Seq(Nat) /\ Begins(cells, k, 0)
    BY <2>2, <1>9, <1>10 DEF Lists
  <2>6. At(ParseCell(p, k), cells, c, k)
    BY <2>2, <2>4, <2>5 DEF At
  <2> QED BY <2>6, <1>4
<1>11. CASE cells[k] = Amp
  <2>1. k > 1 /\ cells[k - 1] = Blank /\ k # 1 BY <1>3, <1>11
  <2>2. s = 0 BY <2>1, <1>1, <1>4 DEF Begins
  <2>3. ParseCell(p, k) = Parser([p.cells EXCEPT ![k - 1] = NUL], Begun(p, k),
                                 p.words, TRUE, p.outside)
    BY <2>1, <1>2, <1>6, <1>11, CellIs
  <2>4. Flag(cells, k) = TRUE BY <1>5, <1>11 DEF Flag
  <2>5. ParseCell(p, k) = Parser(Blanked(cells, k), k, w, Flag(cells, k),
                                 FALSE)
    BY <2>1, <2>2, <2>3, <2>4, <1>2, <1>6, <1>8, <1>11 DEF Begun
  <2>6. k \in Nat /\ Begins(cells, k, k) /\ Lists(w, Complete(c, k, k))
    BY <2>2, <1>1, <1>8, <1>9, <1>11
  <2>7. At(ParseCell(p, k), cells, c, k)
    BY <2>5, <2>6 DEF At
  <2> QED BY <2>7, <1>4
<1>12. CASE cells[k] # Blank /\ cells[k] # Amp
  <2>1. ParseCell(p, k) = Parser(p.cells, Begun(p, k), p.words, p.background,
                                 p.outside)
    BY <1>2, <1>5, <1>6, <1>12, CellIs
  <2>2. Flag(cells, k) = FALSE BY <1>12 DEF Flag
  <2>3. PICK t \in Nat : t = IF s = 0 THEN k ELSE s OBVIOUS
  <2>4. ParseCell(p, k) = Parser(Blanked(cells, k), t, w, Flag(cells, k),
                                 FALSE)
    BY <2>1, <2>2, <2>3, <1>2, <1>6, <1>7, <1>12 DEF Begun
  <2>5. Begins(cells, k, t) /\ Lists(w, Complete(c, k, t))
    <3>1. CASE s = 0 BY <3>1, <2>3, <1>1, <1>9, <1>12
    <3>2. CASE s # 0 BY <3>2, <2>3, <1>1, <1>9, <1>12
    <3> QED BY <3>1, <3>2
  <2>6. At(ParseCell(p, k), cells, c, k)
    BY <2>4, <2>5 DEF At
  <2> QED BY <2>6, <1>4
<1> QED BY <1>10, <1>11, <1>12

\* What the parser leaves in the cells when it has passed the newline.
Separated(cells, n) == [u \in 1 .. Len(cells) |->
                       IF (u <= n /\ cells[u] = Blank) \/ u = n + 1
                       THEN NUL ELSE cells[u]]

\* The words of the command, and the "&" after them if there is one.
Found(words, c, flag) ==
    \E w \in Seq(Nat) :
       /\ Lists(w, FirstOfWord(c))
       /\ flag = FALSE => words = w
       /\ flag = TRUE => \E x \in Nat : words = Append(w, x)

\* The command is parsed up to its newline or further, and nothing behind the
\* newline spoils it.
Unspoiled(cells, c, length) ==
    /\ length \in Nat /\ Len(c) < length /\ length <= Len(cells)
    /\ \A u \in Len(c) + 2 .. length : cells[u] \notin {Blank, NL, Amp}

\* The parser behind the newline.
LEMMA Behind ==
    ASSUME NEW p, IsParser(p), NEW l \in Nat,
           p.cells[l] \notin {Blank, NL, Amp}
    PROVE  ParseCell(p, l) =
              Parser(p.cells, Begun(p, l), p.words, p.background, p.outside)
BY CellIs

\* What the parser has found when it is done.
LEMMA ParsedIs ==
    ASSUME NEW cells, NEW c, IsLine(cells, c), NEW length,
           Unspoiled(cells, c, length)
    PROVE  LET q == Parse(cells, length)
           IN /\ q.outside = FALSE /\ q.background = Flag(cells, Len(c))
              /\ q.cells = Separated(cells, Len(c))
              /\ Found(q.words, c, Flag(cells, Len(c)))
<1>1. PICK run : /\ run[0] = NoCellYet(cells)
                 /\ run[length] = Parse(cells, length)
                 /\ \A j \in 0 .. length - 1 :
                       run[j + 1] = ParseCell(run[j], j + 1)
  BY ParserRuns DEF Unspoiled
<1> PICK l \in Nat : l = length
  BY DEF Unspoiled
<1>2. /\ Len(c) < l /\ l <= Len(cells)
       /\ \A u \in Len(c) + 2 .. l : cells[u] \notin {Blank, NL, Amp}
  BY DEF Unspoiled
<1>3. /\ Len(c) \in Nat /\ Len(cells) \in Nat /\ Len(c) < Len(cells)
      /\ cells[Len(c) + 1] = NL
      /\ \A u \in 1 .. Len(c) : cells[u] = Amp =>
            u > 1 /\ u = Len(c) /\ cells[u - 1] = Blank
      /\ FirstOfWord(c) =
            {u \in 1 .. Len(c) : /\ cells[u] # Blank /\ cells[u] # Amp
                                 /\ u = 1 \/ cells[u - 1] = Blank}
  BY LineIs
<1>4. PICK n \in Nat : n = Len(c)
  BY <1>3
<1> DEFINE I == {j \in 0 .. n : At(run[j], cells, c, j)}
<1>5. 0 \in I
  BY <1>1, AtStart
<1>6. ASSUME NEW j \in 0 .. n - 1, j \in I PROVE j + 1 \in I
  <2>1. j \in Nat /\ j < Len(c) /\ j \in 0 .. length - 1
        /\ j + 1 \in 0 .. n
    BY <1>4, <1>2
  <2>2. At(ParseCell(run[j], j + 1), cells, c, j + 1)
    BY <2>1, <1>6, AtStep
  <2> QED BY <2>1, <2>2, <1>1
<1>7. n \in I
  <2> HIDE DEF I
  <2>1. \A j \in 0 .. n : j \in I BY <1>5, <1>6, UpTo
  <2> QED BY <2>1
<1>8. PICK s \in Nat, w \in Seq(Nat) :
         /\ run[n] = Parser(Blanked(cells, n), s, w, Flag(cells, n), FALSE)
         /\ Begins(cells, n, s) /\ Lists(w, Complete(c, n, s))
  BY <1>7 DEF At
<1>9. PICK p : p = run[n] OBVIOUS
<1>10. /\ IsParser(p) /\ p.cells = Blanked(cells, n) /\ p.start = s
      /\ p.words = w /\ p.background = Flag(cells, n) /\ p.outside = FALSE
  BY <1>8, <1>9 DEF Parser, IsParser
<1>11. PICK k \in 1 .. Len(cells) : k = n + 1
  BY <1>3, <1>4
<1>12. cells[k] = NL /\ p.cells[k] = NL
  <2>1. ~(k <= n) BY <1>11
  <2> QED BY <2>1, <1>3, <1>4, <1>10, <1>11 DEF Blanked
<1>13. [p.cells EXCEPT ![k] = NUL] = Separated(cells, n)
  BY <1>10, <1>11 DEF Blanked, Separated
<1>14. ParseCell(p, k) = Parser(Separated(cells, n), s, Added(p),
                                Flag(cells, n), FALSE)
  BY <1>10, <1>12, <1>13, CellIs
<1>15. run[k] = ParseCell(p, k)
  <2>1. n \in 0 .. length - 1 BY <1>4, <1>2
  <2> QED BY <2>1, <1>1, <1>9, <1>11
<1>16. Found(Added(p), c, Flag(cells, n))
  <2>1. FirstOfWord(c) = Complete(c, n, 0)
    BY <1>3, <1>4 DEF Complete
  <2>2. CASE Flag(cells, n) = TRUE
    <3>1. n > 0 /\ cells[n] = Amp BY <2>2 DEF Flag
    <3>2. cells[n - 1] = Blank /\ Amp # Blank /\ n \in 1 .. Len(c) /\ n > 1
      <4>1. Amp # Blank BY DEF Amp, Blank
      <4>2. n \in 1 .. Len(c) BY <3>1, <1>4
      <4> QED BY <3>1, <4>1, <4>2, <1>3, <1>4
    <3>3. s = n BY <3>1, <3>2, <1>8, <1>4 DEF Begins
    <3>4. \A u \in FirstOfWord(c) : u <= n /\ u < n
      BY <3>1, <1>3, <1>4
    <3>5. Complete(c, n, s) = FirstOfWord(c)
      BY <3>3, <3>4 DEF Complete
    <3>6. Added(p) = Append(w, s) BY <3>2, <3>3, <1>10 DEF Added
    <3>7. Lists(w, FirstOfWord(c)) BY <3>5, <1>8
    <3> QED BY <2>2, <3>6, <3>7 DEF Found
  <2>3. CASE Flag(cells, n) = FALSE
    <3>1. n = 0 \/ cells[n] # Amp BY <2>3 DEF Flag
    <3>2. CASE s = 0
      <4>1. Added(p) = w /\ Lists(w, FirstOfWord(c))
        BY <3>2, <2>1, <1>8, <1>10 DEF Added
      <4> QED BY <4>1, <2>3 DEF Found
    <3>3. CASE s # 0
      <4>1. s \in 1 .. n BY <3>3, <1>8 DEF Begins
      <4>2. cells[s] # Amp BY <4>1, <3>1, <1>3, <1>4
      <4>3. /\ Complete(c, n, 0) = Complete(c, n, s) \cup {s}
            /\ \A u \in Complete(c, n, s) : u < s
        BY <3>3, <4>2, <1>4, <1>8, NextCell
      <4>4. Lists(Append(w, s), Complete(c, n, s) \cup {s})
        BY <4>3, <1>8, ListsMore
      <4>5. Added(p) = Append(w, s) BY <3>3, <1>10 DEF Added
      <4>6. Lists(Append(w, s), FirstOfWord(c)) BY <4>3, <4>4, <2>1
      <4>7. Append(w, s) \in Seq(Nat) BY <4>6 DEF Lists
      <4> QED BY <4>5, <4>6, <4>7, <2>3 DEF Found
    <3> QED BY <3>2, <3>3
  <2> QED BY <2>2, <2>3 DEF Flag
<1> DEFINE Done(t) ==
        Parser(Separated(cells, n), t, Added(p), Flag(cells, n), FALSE)
           J == {j \in 0 .. l : j > n => \E t : run[j] = Done(t)}
<1>17. ASSUME NEW j \in 0 .. l - 1, j \in J PROVE j + 1 \in J
  <2>1. j + 1 \in 0 .. l /\ (j + 1 > n <=> j = n \/ j > n)
        /\ j \in 0 .. length - 1
    BY <1>4
  <2>2. CASE j = n
    <3>1. run[j + 1] = Done(s) BY <2>2, <1>11, <1>14, <1>15
    <3> QED BY <3>1, <2>1
  <2>3. CASE j > n
    <3>1. PICK t : run[j] = Done(t) BY <2>3, <1>17
    <3>2. PICK e : e = run[j] OBVIOUS
    <3>3. /\ IsParser(e) /\ e.cells = Separated(cells, n) /\ e.words = Added(p)
          /\ e.background = Flag(cells, n) /\ e.outside = FALSE
      BY <3>1, <3>2 DEF Parser, IsParser
    <3>4. PICK m \in Nat : m = j + 1 OBVIOUS
    <3>5. /\ m \in Len(c) + 2 .. l /\ m \in 1 .. Len(cells)
          /\ m # n + 1 /\ ~(m <= n)
      BY <2>3, <3>4, <1>3, <1>4, <1>2
    <3>6. e.cells[m] = cells[m]
      BY <3>3, <3>5 DEF Separated
    <3>7. ParseCell(e, m) = Parser(e.cells, Begun(e, m), e.words,
                                   e.background, e.outside)
      BY <3>3, <3>5, <3>6, <1>2, Behind
    <3>8. run[j + 1] = Done(Begun(e, m))
      BY <3>2, <3>3, <3>4, <3>7, <2>1, <1>1
    <3> QED BY <3>8, <2>1
  <2>4. CASE j < n
    <3>1. ~(j + 1 > n) BY <2>4, <1>4
    <3> QED BY <3>1, <2>1
  <2>5. j < n \/ j = n \/ j > n BY <1>4
  <2> HIDE DEF J
  <2> QED BY <2>2, <2>3, <2>4, <2>5
<1>18. \E t : Parse(cells, length) =
                 Parser(Separated(cells, n), t, Added(p), Flag(cells, n), FALSE)
  <2>1. 0 \in J
    <3>1. 0 \in 0 .. l /\ ~(0 > n) BY <1>4
    <3> QED BY <3>1
  <2>2. l \in J
    <3> HIDE DEF J
    <3>1. \A j \in 0 .. l : j \in J BY <2>1, <1>17, UpTo
    <3> QED BY <3>1
  <2>3. l > n BY <1>4, <1>2
  <2> QED BY <2>2, <2>3, <1>1
<1>19. PICK t : Parse(cells, length) =
                 Parser(Separated(cells, n), t, Added(p), Flag(cells, n), FALSE)
  BY <1>18
<1>20. PICK q : q = Parse(cells, length) OBVIOUS
<1>21. /\ q.cells = Separated(cells, n) /\ q.words = Added(p)
       /\ q.background = Flag(cells, n) /\ q.outside = FALSE
  BY <1>19, <1>20 DEF Parser
<1> QED BY <1>4, <1>16, <1>20, <1>21

\* A word as exec is given it is the word that was typed.
LEMMA WordIs ==
    ASSUME NEW cells, NEW c, IsLine(cells, c), NEW x \in 1 .. Len(c)
    PROVE  Word(Separated(cells, Len(c)), x) =
              Before(SubSeq(c, x, Len(c)), " ")
<1> DEFINE e == Separated(cells, Len(c))
           s == SubSeq(e, x, Len(e))
           t == SubSeq(c, x, Len(c))
           b == Before(t, Blank)
<1>1. /\ Len(c) \in Nat /\ Len(cells) \in Nat /\ Len(c) < Len(cells)
      /\ \A u \in 1 .. Len(c) : cells[u] \notin {NL, NUL}
  BY LineIs
<1>2. PICK n \in Nat : n = Len(c)
  BY <1>1
<1>3. PICK l \in Nat : l = Len(cells)
  BY <1>1
<1>4. IsString(c) /\ \A u \in 1 .. n : cells[u] = c[u]
  BY <1>2 DEF IsLine
<1>5. /\ IsString(e) /\ Len(e) = l
      /\ \A u \in 1 .. l : e[u] = IF (u <= n /\ cells[u] = Blank) \/ u = n + 1
                                  THEN NUL ELSE cells[u]
  <2> DEFINE S == {e[u] : u \in 1 .. l}
  <2>1. e = [u \in 1 .. l |-> IF (u <= n /\ cells[u] = Blank) \/ u = n + 1
                              THEN NUL ELSE cells[u]]
    BY <1>2, <1>3 DEF Separated
  <2> HIDE DEF e
  <2>2. e \in [1 .. l -> S] BY <2>1
  <2> HIDE DEF S
  <2>3. e \in Seq(S) BY <2>2, SeqDef
  <2>4. Len(e) = l BY <2>1, <2>3, LenProperties
  <2> QED BY <2>1, <2>3, <2>4, StringIs
<1> HIDE DEF e
<1>6. /\ IsString(s) /\ Len(s) = l - x + 1
      /\ \A u \in 1 .. l - x + 1 : s[u] = e[x + u - 1]
  BY <1>1, <1>2, <1>3, <1>5, Cut
<1>7. /\ IsString(t) /\ Len(t) = n - x + 1
      /\ \A u \in 1 .. n - x + 1 : t[u] = c[x + u - 1]
  <2>1. x \in Nat \ {0} /\ x <= n BY <1>1, <1>2
  <2> QED BY <2>1, <1>2, <1>4, Cut
<1> HIDE DEF s, t
<1>8. IsBefore(b, t, Blank)
  BY <1>7, BeforeIs
<1>9. IsBefore(Before(s, NUL), s, NUL)
  BY <1>6, BeforeIs
<1> HIDE DEF b
<1>10. PICK m \in Nat : m = Len(b) /\ m <= n - x + 1
  BY <1>7, <1>8, StringIs DEF IsBefore
<1>11. x <= n /\ n < l
  BY <1>1, <1>2, <1>3
<1>12. IsBefore(b, s, NUL)
  <2>1. ASSUME NEW u \in 1 .. m PROVE b[u] = s[u] /\ s[u] # NUL
    <3>1. PICK v \in 1 .. n : v = x + u - 1 BY <1>10, <1>11, <1>2
    <3>2. u \in 1 .. n - x + 1 /\ u \in 1 .. l - x + 1 /\ v \in 1 .. l
          /\ v # n + 1
      BY <1>10, <1>11
    <3>3. b[u] = t[u] /\ t[u] # Blank BY <1>8, <1>10 DEF IsBefore
    <3>4. t[u] = cells[v] BY <3>1, <3>2, <1>4, <1>7
    <3>5. s[u] = cells[v] BY <3>1, <3>2, <3>3, <3>4, <1>5, <1>6
    <3>6. cells[v] # NUL BY <1>1, <1>2
    <3> QED BY <3>3, <3>4, <3>5, <3>6
  <2>2. ASSUME m < Len(s) PROVE s[m + 1] = NUL
    <3>1. CASE m < n - x + 1
      <4>1. PICK v \in 1 .. n : v = x + m BY <3>1, <1>10, <1>11, <1>2
      <4>2. /\ m + 1 \in 1 .. n - x + 1 /\ m + 1 \in 1 .. l - x + 1
            /\ v \in 1 .. l /\ v <= n /\ x + (m + 1) - 1 = v
        BY <3>1, <4>1, <1>10, <1>11
      <4>3. t[m + 1] = Blank BY <3>1, <1>7, <1>8, <1>10 DEF IsBefore
      <4>4. cells[v] = Blank BY <4>1, <4>2, <4>3, <1>4, <1>7
      <4> QED BY <4>2, <4>4, <1>5, <1>6
    <3>2. CASE m = n - x + 1
      <4>1. /\ m + 1 \in 1 .. l - x + 1 /\ n + 1 \in 1 .. l
            /\ x + (m + 1) - 1 = n + 1
        BY <3>2, <1>10, <1>11
      <4> QED BY <4>1, <1>5, <1>6
    <3> QED BY <3>1, <3>2, <1>10, <1>11
  <2>3. IsString(b) /\ m <= Len(s)
    BY <1>6, <1>8, <1>10, <1>11 DEF IsBefore
  <2> QED BY <2>1, <2>2, <2>3, <1>10 DEF IsBefore
<1>13. Len(s) \in Nat BY <1>6, StringIs
<1>14. Before(s, NUL) = b
  BY <1>6, <1>9, <1>12, <1>13, BeforeIsOne
<1> QED BY <1>14 DEF Word, CString, e, s, t, b, Blank

\* All words but the last, when exec is to be given one less.
LEMMA FrontWords ==
    ASSUME NEW cells, NEW w \in Seq(Nat), NEW x \in Nat
    PROVE  Front([k \in DOMAIN Append(w, x) |-> Word(cells, Append(w, x)[k])])
              = [k \in DOMAIN w |-> Word(cells, w[k])]
<1> DEFINE v == Append(w, x)
           ws == [k \in DOMAIN w |-> Word(cells, w[k])]
           vs == [k \in DOMAIN v |-> Word(cells, v[k])]
           S  == {Word(cells, y) : y \in Nat}
<1>1. PICK n \in Nat : n = Len(w)
  BY LenProperties
<1>2. /\ v \in Seq(Nat) /\ Len(v) = n + 1 /\ DOMAIN v = 1 .. n + 1
      /\ \A u \in 1 .. n : v[u] = w[u]
  BY <1>1, AppendProperties, LenProperties
<1>3. DOMAIN w = 1 .. n /\ w \in [1 .. n -> Nat] /\ v \in [1 .. n + 1 -> Nat]
  BY <1>1, <1>2, LenProperties
<1> HIDE DEF v
<1>4. ws \in [1 .. n -> S] /\ vs \in [1 .. n + 1 -> S]
  BY <1>2, <1>3
<1>5. \A u \in 1 .. n : vs[u] = ws[u]
  BY <1>2, <1>3
<1> HIDE DEF ws, vs, S
<1>6. /\ ws \in Seq(S) /\ Len(ws) = n
      /\ vs \in Seq(S) /\ Len(vs) = n + 1
  <2>1. n + 1 \in Nat OBVIOUS
  <2>2. ws \in Seq(S) /\ vs \in Seq(S) BY <1>4, <2>1, SeqDef
  <2>3. DOMAIN ws = 1 .. n /\ DOMAIN vs = 1 .. n + 1 BY <1>4
  <2> QED BY <2>1, <2>2, <2>3, LenProperties
<1>7. Front(vs) = SubSeq(vs, 1, n)
  <2>1. (n + 1) - 1 = n OBVIOUS
  <2> QED BY <2>1, <1>6 DEF Front
<1>8. \A u \in 1 .. n : vs[u] \in S
  BY <1>4
<1>9. PICK one \in Nat : one = 1 OBVIOUS
<1>10. /\ SubSeq(vs, one, n) \in Seq(S)
       /\ Len(SubSeq(vs, one, n)) = IF one <= n THEN n - one + 1 ELSE 0
       /\ \A u \in 1 .. n - one + 1 : SubSeq(vs, one, n)[u] = vs[one + u - 1]
  BY <1>8, <1>9, SubSeqProperties
<1>11. Len(SubSeq(vs, one, n)) = n
  BY <1>9, <1>10
<1>12. \A u \in 1 .. n : SubSeq(vs, one, n)[u] = ws[u]
  <2>1. \A u \in 1 .. n : u \in 1 .. n - one + 1 /\ one + u - 1 = u
    BY <1>9
  <2> QED BY <2>1, <1>5, <1>10
<1>13. SubSeq(vs, one, n) = ws
  BY <1>6, <1>10, <1>11, <1>12, SeqEqual
<1> QED BY <1>7, <1>9, <1>13 DEF v, ws, vs

\* exec is given the words of the command, without the "&" that starts it in
\* the background.
LEMMA ArgumentsAre ==
    ASSUME NEW cells, NEW c, IsLine(cells, c), NEW length,
           Unspoiled(cells, c, length)
    PROVE  /\ AreWordsOf(Arguments(Parse(cells, length)), c)
           /\ Parse(cells, length).background = InBackground(c)
<1>1. PICK q : q = Parse(cells, length) OBVIOUS
<1>2. /\ q.background = Flag(cells, Len(c))
      /\ q.cells = Separated(cells, Len(c))
  BY <1>1, ParsedIs
<1>3. PICK w \in Seq(Nat) :
         /\ Lists(w, FirstOfWord(c))
         /\ Flag(cells, Len(c)) = FALSE => q.words = w
         /\ Flag(cells, Len(c)) = TRUE =>
               \E x \in Nat : q.words = Append(w, x)
  <2>1. Found(Parse(cells, length).words, c, Flag(cells, Len(c)))
    BY ParsedIs
  <2> QED BY <2>1, <1>1 DEF Found
<1> DEFINE ws == [k \in DOMAIN w |-> Word(q.cells, w[k])]
<1>4. Arguments(q) = ws
  <2>1. CASE Flag(cells, Len(c)) = TRUE
    <3>1. PICK x \in Nat : q.words = Append(w, x) BY <2>1, <1>3
    <3>2. Front([k \in DOMAIN Append(w, x) |->
                    Word(q.cells, Append(w, x)[k])]) = ws
      BY FrontWords
    <3>3. Arguments(q) = Front([k \in DOMAIN Append(w, x) |->
                                   Word(q.cells, Append(w, x)[k])])
      BY <2>1, <3>1, <1>2 DEF Arguments
    <3> QED BY <3>2, <3>3
  <2>2. CASE Flag(cells, Len(c)) = FALSE
    BY <2>2, <1>2, <1>3 DEF Arguments
  <2> QED BY <2>1, <2>2 DEF Flag
<1>5. /\ Len(c) \in Nat /\ DOMAIN c = 1 .. Len(c)
      /\ FirstOfWord(c) \subseteq 1 .. Len(c)
  BY LineIs, StringIs DEF IsLine
<1>6. /\ DOMAIN w = 1 .. Len(w) /\ Len(w) \in Nat
      /\ w = [k \in DOMAIN w |-> w[k]]
      /\ Range(w) = FirstOfWord(c)
      /\ \A j, k \in 1 .. Len(w) : j < k => w[j] < w[k]
  BY <1>3, LenProperties DEF Lists
<1>7. \A k \in DOMAIN w : w[k] \in FirstOfWord(c) /\ w[k] \in 1 .. Len(c)
  BY <1>5, <1>6 DEF Range
<1>8. \A k \in DOMAIN w : ws[k] = Before(SubSeq(c, w[k], Len(c)), " ")
  BY <1>2, <1>7, WordIs
<1>9. DOMAIN ws = DOMAIN w OBVIOUS
<1>10. w \in [DOMAIN ws -> DOMAIN c]
  BY <1>5, <1>6, <1>7, <1>9
<1> HIDE DEF ws
<1>11. AreWordsOf(ws, c)
  BY <1>6, <1>8, <1>9, <1>10 DEF AreWordsOf
<1>12. q.background = InBackground(c)
  <2>1. PICK n \in Nat : n = Len(c) BY <1>5
  <2>2. Flag(cells, n) = TRUE <=> n > 0 /\ cells[n] = Amp
    BY DEF Flag
  <2>3. InBackground(c) <=> n > 0 /\ c[n] = Amp
    <3>1. c = <<>> <=> n = 0
      BY <2>1, EmptySeq DEF IsLine, IsString
    <3>2. Last(c) = c[n] BY <2>1 DEF Last
    <3> QED BY <3>1, <3>2, <2>1 DEF InBackground, Amp
  <2>4. n > 0 => cells[n] = c[n]
    <3>1. n > 0 => n \in 1 .. Len(c) BY <2>1
    <3> QED BY <3>1 DEF IsLine
  <2>5. Flag(cells, n) \in BOOLEAN /\ InBackground(c) \in BOOLEAN
    BY DEF Flag, InBackground
  <2>6. Flag(cells, n) = InBackground(c)
    BY <2>2, <2>3, <2>4, <2>5
  <2> QED BY <2>1, <2>6, <1>2
<1> QED BY <1>1, <1>4, <1>11, <1>12

(***************************************************************************)
(* The shell: the commands that run                                        *)
(***************************************************************************)

\* A line that is typed, in the buffer.
LEMMA TypedIsLine ==
    ASSUME NEW cells, IsBuffer(cells), NEW line \in Lines,
           NUL \in Range(Put(cells, line)), WellFormed(Before(line, NL))
    PROVE  /\ IsLine(Put(cells, line), Before(line, NL))
           /\ Unspoiled(Put(cells, line), Before(line, NL), Len(line))
<1> DEFINE c == Before(line, NL)
           p == Put(cells, line)
<1>1. /\ line[Len(line)] = NL /\ \A u \in 1 .. Len(line) : line[u] # NUL
      /\ \A u \in DOMAIN line : line[u] = NL => u = Len(line)
  BY LineEnds, TerminalAssumption
<1>2. IsString(line) BY LineEnds
<1>3. Len(line) \in Nat \ {0} /\ DOMAIN line = 1 .. Len(line)
  BY <1>2, LineEnds, StringIs
<1>4. IsBefore(c, line, NL) BY <1>2, BeforeIs
<1> HIDE DEF c
<1>5. Len(c) \in Nat BY <1>4, StringIs DEF IsBefore
<1>6. Len(line) = Len(c) + 1
  <2>1. Len(c) # Len(line)
    <3>1. Len(line) \in 1 .. Len(line) BY <1>3
    <3> QED BY <3>1, <1>1, <1>4 DEF IsBefore
  <2>2. Len(c) < Len(line) BY <2>1, <1>3, <1>4, <1>5 DEF IsBefore
  <2>3. Len(c) + 1 \in 1 .. Len(line) /\ line[Len(c) + 1] = NL
    BY <2>2, <1>3, <1>4, <1>5 DEF IsBefore
  <2> QED BY <2>3, <1>1, <1>3
<1>7. /\ IsString(p) /\ Len(line) <= Len(p)
      /\ \A u \in 1 .. Len(line) : p[u] = line[u]
  BY <1>2, PutIs DEF IsBuffer
<1> HIDE DEF p
<1>8. Len(p) \in Nat BY <1>7, StringIs
<1>9. Len(c) < Len(p) /\ p[Len(c) + 1] = NL
  <2>1. Len(c) + 1 \in 1 .. Len(line) BY <1>3, <1>5, <1>6
  <2> QED BY <2>1, <1>1, <1>5, <1>6, <1>7, <1>8
<1>10. ASSUME NEW u \in 1 .. Len(c) PROVE p[u] = c[u] /\ c[u] \notin {NL, NUL}
  <2>1. u \in 1 .. Len(line) BY <1>5, <1>6
  <2>2. c[u] = line[u] /\ line[u] # NL BY <1>4 DEF IsBefore
  <2>3. line[u] # NUL BY <2>1, <1>1
  <2> QED BY <2>1, <2>2, <2>3, <1>7
<1>11. IsString(c) BY <1>4 DEF IsBefore
<1>12. Unspoiled(p, c, Len(line))
  <2>1. Len(c) + 2 .. Len(line) = {} BY <1>3, <1>5, <1>6
  <2>2. Len(line) \in Nat /\ Len(c) < Len(line) BY <1>3, <1>5, <1>6
  <2> QED BY <2>1, <2>2, <1>7 DEF Unspoiled
<1> QED BY <1>7, <1>9, <1>10, <1>11, <1>12 DEF IsLine, c, p

\* A line from the history, in the buffer, if nothing behind it spoils it.
LEMMA RestoredIsLine ==
    ASSUME NEW cells, IsString(cells), NEW h, IsString(h),
           \A u \in 1 .. Len(h) : h[u] # NUL,
           \E u \in 1 .. Len(h) : h[u] = NL,
           \A u, v \in DOMAIN h :
              u < v /\ h[u] = NL => h[v] \notin {Blank, NL, Amp},
           WellFormed(Before(h, NL))
    PROVE  LET e == strcpy(cells, h)
               c == Before(h, NL)
           IN IsLine(e, c) /\ Unspoiled(e, c, Len(h) + 1)
<1> DEFINE e == strcpy(cells, h)
           c == Before(h, NL)
<1>1. /\ IsString(e) /\ Len(h) < Len(e) /\ e[Len(h) + 1] = NUL
      /\ \A u \in 1 .. Len(h) : e[u] = h[u]
  BY RestoredIsRead
<1> HIDE DEF e
<1>2. Len(h) \in Nat /\ DOMAIN h = 1 .. Len(h) /\ Len(e) \in Nat
  BY <1>1, StringIs
<1>3. IsBefore(c, h, NL) BY BeforeIs
<1> HIDE DEF c
<1>4. Len(c) \in Nat /\ IsString(c) BY <1>3, StringIs DEF IsBefore
<1>5. PICK l \in 1 .. Len(h) : h[l] = NL
  BY <1>2
<1>6. Len(c) < Len(h) /\ h[Len(c) + 1] = NL
  <2>1. ~(l <= Len(c))
    <3>1. l <= Len(c) => l \in 1 .. Len(c) BY <1>4
    <3> QED BY <3>1, <1>3, <1>5 DEF IsBefore
  <2>2. Len(c) < Len(h) BY <2>1, <1>2, <1>4, <1>5
  <2> QED BY <2>2, <1>3 DEF IsBefore
<1>7. PICK m \in DOMAIN h : m = Len(c) + 1 /\ h[m] = NL
  BY <1>2, <1>4, <1>6
<1>8. Len(c) < Len(e) /\ e[Len(c) + 1] = NL
  BY <1>1, <1>2, <1>4, <1>6, <1>7
<1>9. ASSUME NEW u \in 1 .. Len(c) PROVE e[u] = c[u] /\ c[u] \notin {NL, NUL}
  <2>1. u \in 1 .. Len(h) BY <1>2, <1>4, <1>6
  <2>2. c[u] = h[u] /\ h[u] # NL BY <1>3 DEF IsBefore
  <2> QED BY <2>1, <2>2, <1>1
<1>10. ASSUME NEW u \in Len(c) + 2 .. Len(h) + 1
       PROVE  e[u] \notin {Blank, NL, Amp}
  <2>1. CASE u = Len(h) + 1
    <3>1. NUL \notin {Blank, NL, Amp} BY ShellAssumption DEF Blank, Amp
    <3> QED BY <2>1, <3>1, <1>1
  <2>2. CASE u # Len(h) + 1
    <3>1. u \in DOMAIN h /\ u \in 1 .. Len(h) /\ m < u
      BY <2>2, <1>2, <1>4, <1>7
    <3>2. h[u] \notin {Blank, NL, Amp} BY <3>1, <1>7
    <3> QED BY <3>1, <3>2, <1>1
  <2> QED BY <2>1, <2>2
<1>11. Unspoiled(e, c, Len(h) + 1)
  <2>1. Len(h) + 1 \in Nat /\ Len(c) < Len(h) + 1 /\ Len(h) + 1 <= Len(e)
    BY <1>1, <1>2, <1>4, <1>6
  <2> QED BY <2>1, <1>10 DEF Unspoiled
<1> QED BY <1>1, <1>4, <1>8, <1>9, <1>11 DEF IsLine, c, e

\* A slot of the history that was never used.
LEMMA NothingIs ==
    ASSUME NEW cells, IsString(cells)
    PROVE  LET q == Parse(strcpy(cells, <<>>), Len(<<>>) + 1)
           IN /\ AreWordsOf(Arguments(q), <<>>)
              /\ q.background = InBackground(<<>>)
<1> DEFINE e == strcpy(cells, <<>>)
<1>1. IsString(<<>>) /\ Len(<<>>) = 0 /\ DOMAIN <<>> = {}
  <2>1. IsString(<<>>) /\ Len(<<>>) = 0 BY EmptySeq, StringIs
  <2>2. DOMAIN <<>> = {} OBVIOUS
  <2> QED BY <2>1, <2>2
<1>2. \A u \in 1 .. Len(<<>>) : <<>>[u] # NUL
  <2>1. 1 .. Len(<<>>) = {} BY <1>1
  <2> QED BY <2>1
<1>3. e[1] = NUL
  <2>1. e[Len(<<>>) + 1] = NUL BY <1>1, <1>2, RestoredIsRead
  <2>2. Len(<<>>) + 1 = 1 BY <1>1
  <2> QED BY <2>1, <2>2
<1> HIDE DEF e
<1>4. PICK run : /\ run[0] = NoCellYet(e) /\ run[1] = Parse(e, 1)
                 /\ \A j \in 0 .. 1 - 1 : run[j + 1] = ParseCell(run[j], j + 1)
  BY ParserRuns
<1>5. PICK p : p = NoCellYet(e) OBVIOUS
<1>6. /\ IsParser(p) /\ p.cells = e /\ p.words = <<>>
      /\ p.background = FALSE /\ p.outside = FALSE
  BY <1>5 DEF NoCellYet, Parser, IsParser
<1>7. PICK q : q = Parse(e, 1) OBVIOUS
<1>8. q = ParseCell(p, 1)
  <2>1. 0 \in 0 .. 1 - 1 /\ 0 + 1 = 1 OBVIOUS
  <2> QED BY <2>1, <1>4, <1>5, <1>7
<1>9. q = Parser(p.cells, Begun(p, 1), p.words, p.background, p.outside)
  <2>1. p.cells[1] \notin {Blank, NL, Amp}
    BY <1>3, <1>6, ShellAssumption DEF Blank, Amp
  <2> QED BY <2>1, <1>6, <1>8, CellIs
<1>10. q.words = <<>> /\ q.background = FALSE
  BY <1>6, <1>9 DEF Parser
<1>11. Arguments(q) = [k \in DOMAIN <<>> |-> Word(q.cells, <<>>[k])]
  BY <1>10 DEF Arguments
<1>12. DOMAIN Arguments(q) = {}
  BY <1>1, <1>11
<1>13. AreWordsOf(Arguments(q), <<>>)
  <2>1. FirstOfWord(<<>>) = {} BY <1>1 DEF FirstOfWord
  <2> DEFINE to == [k \in {} |-> 0]
  <2>2. to \in [DOMAIN Arguments(q) -> DOMAIN <<>>] /\ Range(to) = {}
    BY <1>12 DEF Range
  <2> HIDE DEF to
  <2> QED BY <2>1, <2>2, <1>12 DEF AreWordsOf
<1>14. InBackground(<<>>) = FALSE
  BY DEF InBackground
<1>15. Len(<<>>) + 1 = 1 BY <1>1
<1> QED BY <1>7, <1>10, <1>13, <1>14, <1>15 DEF e

\* Something behind the first newline of h that the parser does not pass.
Spoils(h) == \E u, v \in DOMAIN h :
                u < v /\ h[u] = NL /\ h[v] \in {" ", NL, "&"}

\* A slot that has been used holds a newline: the line was copied with it.
HasNewline(h) == h = <<>> \/ \E u \in 1 .. Len(h) : h[u] = NL
LinesInv == \A s \in Slot : HasNewline(history[s])
RunsInv  == RingInv /\ LinesInv /\ RunsWhatItShows

\* A command is entered and parsed.
LEMMA ExecuteRuns ==
    ASSUME RunsInv, NEW cells, NEW length, NEW meant,
           Execute(cells, length, meant), HasNewline(CString(cells)),
           LET h == CString(cells)
           IN WellFormed(meant) =>
                 \/ restored' = TRUE /\ Spoils(h)
                 \/ /\ AreWordsOf(Arguments(Parse(cells, length)), meant)
                    /\ Parse(cells, length).background = InBackground(meant)
    PROVE  LinesInv' /\ RunsWhatItShows'
<1> DEFINE k == command_count % MAX_COMMANDS
           h == CString(cells)
           q == Parse(cells, length)
<1>1. /\ history' = [history EXCEPT ![k] = h]
      /\ command_count' = command_count + 1 /\ log' = Append(log, meant)
      /\ background' = q.background
      /\ phase' = "fork" => args' = Arguments(q)
  BY DEF Execute, addtohistory
<1>2. /\ IsString(log) /\ command_count = Len(log) /\ Len(log) \in Nat
      /\ DOMAIN history = Slot /\ MAX_COMMANDS \in Nat \ {0}
  BY StringIs, ShellAssumption DEF RunsInv, RingInv
<1>3. k \in Slot
  <2>1. \A M \in Nat \ {0}, a \in Nat : a % M \in 0 .. M - 1
    OBVIOUS
  <2> QED BY <2>1, <1>2 DEF Slot
<1>4. (command_count' - 1) % MAX_COMMANDS = k
  BY <1>1, <1>2
<1>5. log'[command_count'] = meant
  <2>1. log \in Seq(Range(log) \cup {meant})
    BY <1>2, SeqMonotonic DEF IsString
  <2>2. Append(log, meant)[Len(log) + 1] = meant
    BY <2>1, AppendProperties
  <2> QED BY <2>2, <1>1, <1>2
<1> HIDE DEF k, h, q
<1>6. \A s \in Slot : history'[s] = IF s = k THEN h ELSE history[s]
  BY <1>1, <1>2
<1>7. LinesInv'
  <2>1. ASSUME NEW s \in Slot PROVE HasNewline(history'[s])
    <3>1. CASE s = k BY <3>1, <1>6 DEF h
    <3>2. CASE s # k BY <3>2, <1>6 DEF RunsInv, LinesInv
    <3> QED BY <3>1, <3>2
  <2> QED BY <2>1 DEF LinesInv, HasNewline
<1>8. ASSUME phase' = "fork", WellFormed(log'[command_count'])
      PROVE  \/ restored' /\ Spoiled'
             \/ /\ AreWordsOf(args', log'[command_count'])
                /\ background' = InBackground(log'[command_count'])
  <2>1. WellFormed(meant) BY <1>5, <1>8
  <2>2. CASE /\ AreWordsOf(Arguments(q), meant)
             /\ q.background = InBackground(meant)
    BY <2>2, <1>1, <1>5, <1>8
  <2>3. CASE restored' = TRUE /\ Spoils(h)
    <3>1. history'[(command_count' - 1) % MAX_COMMANDS] = h
      BY <1>3, <1>4, <1>6
    <3>2. Spoiled' BY <2>3, <3>1 DEF Spoiled, Spoils
    <3> QED BY <2>3, <3>2
  <2> QED BY <2>1, <2>2, <2>3 DEF h, q
<1>9. RunsWhatItShows'
  BY <1>8 DEF RunsWhatItShows
<1> QED BY <1>7, <1>9

\* Every step of the shell.
LEMMA RunsStep == RunsInv /\ [ShellNext]_shellVars => RunsInv'
<1> SUFFICES ASSUME RunsInv, [ShellNext]_shellVars PROVE RunsInv'
  OBVIOUS
<1>1. RingInv' BY RingStep DEF RunsInv
<1>2. IsBuffer(inputBuffer) /\ IsString(log) /\ command_count = Len(log)
  BY DEF RunsInv, RingInv
<1>3. ASSUME NEW line \in Lines PROVE IsString(Put(inputBuffer, line))
  <2>1. IsString(line) BY ShellAssumption DEF IsString
  <2> QED BY <2>1, <1>2, PutIs DEF IsBuffer
<1>4. ASSUME UNCHANGED history, phase' # "fork"
      PROVE  LinesInv' /\ RunsWhatItShows'
  BY <1>4 DEF RunsInv, LinesInv, HasNewline, RunsWhatItShows
<1>5. ASSUME UNCHANGED <<phase, setupVars>>
      PROVE  LinesInv' /\ RunsWhatItShows'
  BY <1>5 DEF RunsInv, LinesInv, HasNewline, RunsWhatItShows, Spoiled,
              setupVars
<1>6. ASSUME NEW line \in Lines, Command(line)
      PROVE  LinesInv' /\ RunsWhatItShows'
  <2> DEFINE cells == Put(inputBuffer, line)
             meant == Before(line, NL)
  <2>1. CASE Execute(cells, Len(line), meant)
    <3>1. NUL \in Range(cells) BY <2>1 DEF Execute
    <3>2. HasNewline(CString(cells))
      BY <3>1, <1>2, LineIsRead DEF HasNewline
    <3>3. WellFormed(meant) =>
             /\ AreWordsOf(Arguments(Parse(cells, Len(line))), meant)
             /\ Parse(cells, Len(line)).background = InBackground(meant)
      BY <3>1, <1>2, TypedIsLine, ArgumentsAre
    <3> HIDE DEF cells, meant
    <3> QED BY <2>1, <3>2, <3>3, ExecuteRuns
  <2>2. CASE UNCHANGED setupVars /\ phase' = "undefined"
    BY <2>2, <1>4 DEF setupVars
  <2> QED BY <1>6, <2>1, <2>2 DEF Command
<1>7. ASSUME NEW line \in Lines, NEW n \in Slot, NEW meant,
             Restore(line, n, meant), meant = Meant(n)
      PROVE  LinesInv' /\ RunsWhatItShows'
  <2>1. PICK h : h = history[n] OBVIOUS
  <2>2. /\ IsString(h) /\ \A u \in 1 .. Len(h) : h[u] # NUL
        /\ Before(h, NL) = meant /\ HasNewline(h)
    BY <2>1, <1>7 DEF RunsInv, RingInv, LinesInv
  <2> DEFINE cells == strcpy(Put(inputBuffer, line), h)
             q     == Parse(cells, Len(h) + 1)
  <2>3. Execute(cells, Len(h) + 1, meant) /\ restored' = TRUE
    BY <2>1, <1>7 DEF Restore
  <2>4. CString(cells) = h
    BY <2>2, <1>3, RestoredIsRead
  <2>5. WellFormed(meant) =>
           \/ restored' = TRUE /\ Spoils(h)
           \/ /\ AreWordsOf(Arguments(q), meant)
              /\ q.background = InBackground(meant)
    <3>1. CASE h = <<>>
      <4>1. meant = <<>> BY <3>1, <2>2 DEF Before
      <4> QED BY <3>1, <4>1, <1>3, NothingIs
    <3>2. CASE h # <<>> /\ ~Spoils(h)
      <4>1. \E u \in 1 .. Len(h) : h[u] = NL BY <3>2, <2>2 DEF HasNewline
      <4>2. ASSUME WellFormed(meant)
            PROVE  /\ AreWordsOf(Arguments(q), meant)
                   /\ q.background = InBackground(meant)
        <5>1. \A u, v \in DOMAIN h :
                 u < v /\ h[u] = NL => h[v] \notin {Blank, NL, Amp}
          BY <3>2 DEF Spoils, Blank, Amp
        <5>2. IsLine(cells, meant) /\ Unspoiled(cells, meant, Len(h) + 1)
          BY <4>1, <4>2, <5>1, <2>2, <1>3, RestoredIsLine
        <5> HIDE DEF cells
        <5> QED BY <5>2, ArgumentsAre
      <4> QED BY <4>2
    <3> QED BY <3>1, <3>2, <2>3
  <2> HIDE DEF cells, q
  <2>6. /\ HasNewline(CString(cells)) /\ q = Parse(cells, Len(h) + 1)
    BY <2>2, <2>4 DEF q
  <2> QED BY <2>3, <2>4, <2>5, <2>6, ExecuteRuns
<1>8. ASSUME NEW line \in Lines, RepeatLast(line)
      PROVE  LinesInv' /\ RunsWhatItShows'
  <2>1. /\ command_count > 0
        /\ Restore(line, (command_count - 1) % MAX_COMMANDS,
                   log[command_count])
    BY <1>8 DEF RepeatLast
  <2>2. /\ command_count \in DOMAIN log
        /\ command_count + MAX_COMMANDS > Len(log)
    BY <1>2, <2>1, StringIs, ShellAssumption
  <2> QED BY <1>2, <1>7, <2>1, <2>2, InRing
<1>9. ASSUME NEW line \in Lines, RepeatNth(line)
      PROVE  LinesInv' /\ RunsWhatItShows'
  <2>1. CASE \E n \in Slot : Restore(line, n, Meant(n))
    BY <2>1, <1>7
  <2>2. CASE UNCHANGED setupVars /\ phase' = "undefined"
    BY <2>2, <1>4 DEF setupVars
  <2> QED BY <1>9, <2>1, <2>2 DEF RepeatNth
<1>10. ASSUME NEW line \in Lines, EmptyLine(line) \/ NoHistory(line)
       PROVE  LinesInv' /\ RunsWhatItShows'
  <2>1. CASE EmptyLine(line)
    <3>1. UNCHANGED history /\ phase' # "fork"
      BY <2>1 DEF EmptyLine, CanType
    <3> QED BY <3>1, <1>4
  <2>2. CASE NoHistory(line)
    <3>1. UNCHANGED history /\ args' = Unset
      BY <2>2 DEF NoHistory
    <3> QED BY <3>1 DEF RunsInv, LinesInv, HasNewline, RunsWhatItShows
  <2> QED BY <1>10, <2>1, <2>2
<1>11. ASSUME UNCHANGED setupVars, phase' # "fork"
       PROVE  LinesInv' /\ RunsWhatItShows'
  <2>1. UNCHANGED history BY <1>11 DEF setupVars
  <2> QED BY <2>1, <1>4, <1>11
<1>12. LinesInv' /\ RunsWhatItShows'
  <2>1. CASE setup
    <3>1. CASE ReadEof
      BY <3>1, <1>11 DEF ReadEof
    <3> QED BY <2>1, <3>1, <1>6, <1>8, <1>9, <1>10 DEF setup
  <2>2. CASE Fork \/ ForkFails \/ Wait
    <3>1. UNCHANGED setupVars /\ phase' # "fork"
      BY <2>2 DEF Fork, ForkFails, Wait
    <3> QED BY <3>1, <1>11
  <2>3. CASE \/ EndInput \/ Stopped \/ ReadsForEver
            \/ UNCHANGED shellVars
            \/ \E p \in Pid : ~Over /\ ChildEnds(p)
    <3>1. UNCHANGED <<phase, setupVars>>
      BY <2>3 DEF EndInput, Stopped, ReadsForEver, ChildEnds, shellVars
    <3> QED BY <3>1, <1>5
  <2> QED BY <2>1, <2>2, <2>3 DEF ShellNext
<1> QED BY <1>1, <1>12 DEF RunsInv

\* The child is given the words of the command that the history shows, and
\* the command is started in the background if it ends in "&", for any lines
\* that read can give: a command that is typed, whatever older lines left in
\* the buffer; a command from the history, whatever they left behind it but a
\* blank, a newline or an "&".
THEOREM RightCommandRuns == ShellSpec => []RunsWhatItShows
<1>1. ShellInit => RunsInv
  <2>1. ShellInit => RingInv BY RingInit
  <2>2. ShellInit => LinesInv
    BY DEF ShellInit, LinesInv, HasNewline
  <2>3. ShellInit => RunsWhatItShows
    BY DEF ShellInit, RunsWhatItShows
  <2> QED BY <2>1, <2>2, <2>3 DEF RunsInv
<1>2. RunsInv => RunsWhatItShows
  BY DEF RunsInv
<1> QED BY <1>1, <1>2, RunsStep, PTL DEF ShellSpec

(***************************************************************************)
(* The shell: types                                                        *)
(***************************************************************************)

\* The variables that the lemmas on the ring and the children leave open.
PlacesOK ==
    /\ phase \in {"read", "fork", "wait", "exited", "undefined"}
    /\ child \in Pid \cup {None} /\ behind \subseteq Pid
ShellInv == RingInv /\ ChildrenInv /\ PlacesOK

\* Every step of the shell.
LEMMA PlacesStep == PlacesOK /\ [ShellNext]_shellVars => PlacesOK'
<1> SUFFICES ASSUME PlacesOK, [ShellNext]_shellVars PROVE PlacesOK'
  OBVIOUS
<1> USE DEF PlacesOK
<1>1. ASSUME NEW cells, NEW length, NEW meant, Execute(cells, length, meant)
      PROVE  PlacesOK'
  <2>1. phase' \in {"read", "fork", "exited", "undefined"}
        /\ UNCHANGED <<child, behind>>
    BY <1>1 DEF Execute, children
  <2> QED BY <2>1
<1>2. ASSUME UNCHANGED <<child, behind>>,
             phase' \in {phase, "read", "fork", "wait", "exited", "undefined"}
      PROVE  PlacesOK'
  BY <1>2
<1>3. ASSUME NEW line \in Lines,
             \/ EmptyLine(line) \/ Command(line) \/ NoHistory(line)
             \/ RepeatLast(line) \/ RepeatNth(line)
      PROVE  PlacesOK'
  <2>1. CASE EmptyLine(line) BY <2>1, <1>2 DEF EmptyLine, children
  <2>2. CASE Command(line) BY <2>2, <1>1, <1>2 DEF Command, children
  <2>3. CASE NoHistory(line) BY <2>3, <1>2 DEF NoHistory, children
  <2>4. CASE RepeatLast(line) BY <2>4, <1>1 DEF RepeatLast, Restore
  <2>5. CASE RepeatNth(line)
    BY <2>5, <1>1, <1>2 DEF RepeatNth, Restore, children
  <2> QED BY <1>3, <2>1, <2>2, <2>3, <2>4, <2>5
<1>4. CASE setup
  <2>1. CASE ReadEof BY <2>1, <1>2 DEF ReadEof, children
  <2> QED BY <1>3, <1>4, <2>1 DEF setup
<1>5. CASE \/ EndInput \/ Stopped \/ ReadsForEver \/ UNCHANGED shellVars
           \/ \E p \in Pid : ~Over /\ ChildEnds(p)
  <2>1. UNCHANGED <<phase, child, behind>>
    BY <1>5 DEF EndInput, Stopped, ReadsForEver, ChildEnds, shellVars,
                children
  <2> QED BY <2>1, <1>2
<1>6. CASE Fork \/ ForkFails \/ Wait
  BY <1>6 DEF Fork, ForkFails, Wait
<1> QED BY <1>4, <1>5, <1>6 DEF ShellNext

\* Types, for any lines that read can give and whatever was in the buffer:
\* what addtohistory copies to a slot of the history fits it, and so what is
\* restored fits the buffer, unless the shell has come to a strcpy from a
\* buffer without a NUL, which is where the model ends as "undefined".
THEOREM ShellTypes == ShellSpec => []ShellTypeOK
<1>1. ShellInit => ChildrenInv /\ PlacesOK
  BY DEF ShellInit, ChildrenInv, PlacesOK
<1>2. ShellInv => ShellTypeOK
  BY DEF ShellInv, RingInv, ChildrenInv, PlacesOK, IsBuffer, ShellTypeOK
<1>3. ShellInv /\ [ShellNext]_shellVars => ShellInv'
  BY RingStep, ChildrenStep, PlacesStep DEF ShellInv
<1> QED BY <1>1, <1>2, <1>3, RingInit, PTL DEF ShellSpec, ShellInv
=============================================================================
