------------------------------ MODULE ForkSched ------------------------------
(***************************************************************************)
(* prog_assign/assignment-4, the programs before sched_test: rw-sched.c    *)
(* ("rw") and pi-sched.c ("pi").  The parent forks up to MAX_PROC children *)
(* and waits.  Those of "rw" all read the input through the descriptor     *)
(* opened before the fork, and so share its offset; each writes a file of  *)
(* its own.                                                                *)
(***************************************************************************)
EXTENDS Integers, FiniteSets, Sequences

CONSTANTS
    MAX_PROC,                 \* bound: processes asked for
    blocksize, transfersize,  \* in bytes
    InputSizes                \* lengths of the input file

ASSUME ForkSchedAssumption ==
    /\ MAX_PROC \in Nat /\ InputSizes \subseteq Nat
    /\ blocksize \in Nat \ {0} /\ transfersize \in Nat \ {0}
    /\ transfersize % blocksize = 0
    /\ \A n \in InputSizes : n >= blocksize   \* shorter: the loop never ends

VARIABLES
    NUM_PROC, i,
    parent,            \* "args", "fork", "wait", "close" or how it ended
    pid,               \* the result of the last fork: a child, or -1
    worker,            \* worker[c]: where child c is
    inputSize,
    offset,            \* of the input, shared
    block,             \* block[c]: where the block c has read begins
    totalBytesWritten, \* by each child
    \* The history:
    reads,             \* reads[b]: how often the block at b was read whole
    resets,            \* how often the offset was set to 0
    short              \* some write wrote less than asked

forkVars == <<NUM_PROC, i, parent, pid, worker, inputSize, offset, block,
              totalBytesWritten, reads, resets, short>>
io == <<inputSize, offset, block, totalBytesWritten, reads, resets, short>>

Child == 1 .. MAX_PROC
Ended == {"EXIT_SUCCESS", "EXIT_FAILURE", "crashed"}
Alive == {c \in Child : worker[c] \notin Ended \cup {"none"}}

ForkInit ==
    /\ NUM_PROC = 0 /\ i = 0 /\ parent = "args" /\ pid = -1
    /\ worker = [c \in Child |-> "none"]
    /\ inputSize \in InputSizes /\ offset = 0
    /\ block = [c \in Child |-> 0]
    /\ totalBytesWritten = [c \in Child |-> 0]
    /\ reads = [b \in 0 .. inputSize |-> 0]
    /\ resets = 0 /\ short = FALSE

(***************************************************************************)
(* main()                                                                  *)
(***************************************************************************)

\* Arguments that are refused, a file or a policy that is; or one argument too
\* few, which is not noticed: the number of processes is taken from NULL.
BadArguments ==
    /\ parent = "args" /\ parent' \in {"EXIT_FAILURE", "crashed"}
    /\ UNCHANGED <<NUM_PROC, i, pid, worker, io>>

\* "pi" refuses no processes, but takes a negative number of them.
Arguments(program) ==
    /\ parent = "args" /\ parent' = "fork"
    /\ NUM_PROC' \in 1 .. MAX_PROC \/ (program = "pi" /\ NUM_PROC' = -1)
    /\ UNCHANGED <<i, pid, worker, io>>

\* A fork that fails is reported, and the loop goes on.
Fork(program) ==
    /\ parent = "fork" /\ i < NUM_PROC
    /\ i' = i + 1
    /\ \/ /\ pid' = i + 1
          /\ worker' = [worker EXCEPT
                    ![i + 1] = IF program = "rw" THEN "name" ELSE "calc"]
       \/ pid' = -1 /\ UNCHANGED worker
    /\ UNCHANGED <<NUM_PROC, parent, io>>

\* Only if the last fork did not fail the parent waits.  If there was none, pid
\* was never set, and may hold anything.
Forked ==
    /\ parent = "fork" /\ i >= NUM_PROC
    /\ IF NUM_PROC < 0 THEN parent' \in {"wait", "close"}
       ELSE parent' = IF pid > 0 THEN "wait" ELSE "close"
    /\ i' = 0
    /\ UNCHANGED <<NUM_PROC, pid, worker, io>>

\* Mistake: one wait less than there are processes.
WaitOneLess ==
    /\ parent = "wait"
    /\ \/ /\ i < NUM_PROC - 1
          /\ \/ \E c \in Child : /\ worker[c] \in Ended
                                 /\ worker' = [worker EXCEPT ![c] = "none"]
             \/ (\A c \in Child : worker[c] = "none") /\ UNCHANGED worker
          /\ i' = i + 1 /\ UNCHANGED parent
       \/ i >= NUM_PROC - 1 /\ parent' = "close" /\ UNCHANGED <<i, worker>>
    /\ UNCHANGED <<NUM_PROC, pid, io>>

\* NUM_PROC calls of wait, which fail when no child is left.
WaitForAll ==
    /\ parent = "wait"
    /\ \/ /\ i < NUM_PROC
          /\ \/ \E c \in Child : /\ worker[c] \in Ended
                                 /\ worker' = [worker EXCEPT ![c] = "none"]
             \/ (\A c \in Child : worker[c] = "none") /\ UNCHANGED worker
          /\ i' = i + 1 /\ UNCHANGED parent
       \/ i >= NUM_PROC /\ parent' = "close" /\ UNCHANGED <<i, worker>>
    /\ UNCHANGED <<NUM_PROC, pid, io>>

\* The end of main(); "rw" closes its input, which may fail.
CloseInput(program) ==
    /\ parent = "close"
    /\ \/ parent' = "EXIT_SUCCESS"
       \/ program = "rw" /\ parent' = "EXIT_FAILURE"
    /\ UNCHANGED <<NUM_PROC, i, pid, worker, io>>

(***************************************************************************)
(* write_to_file() and calc(), in a child                                  *)
(***************************************************************************)
GoChild(c, from, to) ==
    worker[c] = from /\ worker' = [worker EXCEPT ![c] = to]

\* With the default name rv is not initialized, and what it holds may look
\* like an error; or the output cannot be opened.
Name(c) ==
    /\ GoChild(c, "name", "read") \/ GoChild(c, "name", "EXIT_FAILURE")
    /\ UNCHANGED <<NUM_PROC, i, parent, pid, io>>

\* Mistake: the child reads at an offset of its own.
ReadOwnOffset(c) ==
    LET mine == totalBytesWritten[c] % inputSize
        left == inputSize - mine
    IN /\ \/ GoChild(c, "read", IF left >= blocksize THEN "write" ELSE "reset")
          \/ GoChild(c, "read", "EXIT_FAILURE")
       /\ offset' = offset
       /\ IF left >= blocksize
          THEN /\ block' = [block EXCEPT ![c] = mine]
               /\ reads' = [reads EXCEPT ![mine] = @ + 1]
          ELSE UNCHANGED <<block, reads>>
       /\ UNCHANGED <<NUM_PROC, i, parent, pid, inputSize, totalBytesWritten,
                      resets, short>>

\* read: the kernel moves the shared offset along in one step.
ReadInputBlock(c) ==
    LET left == inputSize - offset
    IN \/ /\ GoChild(c, "read", IF left >= blocksize THEN "write" ELSE "reset")
          /\ IF left >= blocksize
             THEN /\ offset' = offset + blocksize
                  /\ block' = [block EXCEPT ![c] = offset]
                  /\ reads' = [reads EXCEPT ![offset] = @ + 1]
             ELSE offset' = inputSize /\ UNCHANGED <<block, reads>>
          /\ UNCHANGED <<NUM_PROC, i, parent, pid, inputSize,
                         totalBytesWritten, resets, short>>
       \/ /\ GoChild(c, "read", "EXIT_FAILURE")
          /\ UNCHANGED <<NUM_PROC, i, parent, pid, io>>

\* What is read after the last whole block is dropped, and the offset of all
\* the children set to 0, wherever the others have moved it meanwhile.
Reset(c) ==
    /\ GoChild(c, "reset", "read")
    /\ offset' = 0 /\ resets' = resets + 1
    /\ UNCHANGED <<NUM_PROC, i, parent, pid, inputSize, block,
                   totalBytesWritten, reads, short>>

\* write, which may write a part, or fail; then the test of the loop.
WriteBlock(c) ==
    \/ \E n \in 1 .. blocksize :
          LET total == totalBytesWritten[c] + n
          IN /\ GoChild(c, "write",
                        IF total < transfersize THEN "read" ELSE "close")
             /\ totalBytesWritten' = [totalBytesWritten EXCEPT ![c] = total]
             /\ short' = (short \/ n < blocksize)
             /\ UNCHANGED <<NUM_PROC, i, parent, pid, inputSize, offset, block,
                            reads, resets>>
    \/ /\ GoChild(c, "write", "EXIT_FAILURE")
       /\ UNCHANGED <<NUM_PROC, i, parent, pid, io>>

\* The output, and back in main() the input; either close may fail.
CloseFiles(c) ==
    /\ \/ GoChild(c, "close", "EXIT_SUCCESS")
       \/ GoChild(c, "close", "EXIT_FAILURE")
    /\ UNCHANGED <<NUM_PROC, i, parent, pid, io>>

calc(c) == /\ GoChild(c, "calc", "EXIT_SUCCESS")
           /\ UNCHANGED <<NUM_PROC, i, parent, pid, io>>

ParentStep(program) == BadArguments \/ Arguments(program) \/ Fork(program)
                       \/ Forked \/ WaitForAll \/ CloseInput(program)
ChildStep(c) == Name(c) \/ ReadInputBlock(c) \/ Reset(c) \/ WriteBlock(c)
                \/ CloseFiles(c) \/ calc(c)

(***************************************************************************)
(* Correctness                                                             *)
(***************************************************************************)

\* Although the children move one offset, and reset it at any moment, every
\* block that is written is one of the blocks of the input, and the children
\* share them out: none is read again before a reset.  A child that succeeds
\* has written transfersize bytes, and no more unless a write was short.
BlocksAreShared ==
    /\ \A c \in Child : worker[c] = "write" =>
          block[c] % blocksize = 0 /\ block[c] + blocksize <= inputSize
    /\ \A b \in DOMAIN reads : reads[b] <= resets + 1
    /\ \A c \in Child :
          worker[c] = "EXIT_SUCCESS" /\ totalBytesWritten[c] > 0 =>
          \/ totalBytesWritten[c] = transfersize
          \/ short /\ totalBytesWritten[c] \in transfersize .. transfersize
                                                              + blocksize - 1

\* However the parent ends, it outlives its children, unless the last fork
\* failed.
NoOrphans == parent \in Ended /\ pid > 0 => Alive = {}
=============================================================================
