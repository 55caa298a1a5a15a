------------------------------- MODULE PipeCopy -------------------------------
(***************************************************************************)
(* demo/ch3/3.27: a parent reads a file and writes it to a pipe, its child *)
(* reads the pipe and writes the copy.  unix/filecopy.c goes byte by byte  *)
(* and ignores errors of write; windows/FileCopy.c and child_1.c go buffer *)
(* by buffer and stop at an error.                                         *)
(*                                                                         *)
(* The pipe is external: reading waits for data or for the last write end  *)
(* to be closed, writing waits for room or for the last read end to be.    *)
(***************************************************************************)
EXTENDS Integers, SequencesExt

CONSTANTS
    Inputs, Olds,   \* lengths of the input, and of the output before
    PIPE_SIZE,
    ParentBuffer, ChildBuffer   \* per system, in bytes

ASSUME PipeCopyAssumption ==
    /\ Inputs \subseteq Nat /\ Olds \subseteq Nat
    /\ PIPE_SIZE \in Nat \ {0}
    /\ ParentBuffer \in Nat \ {0} /\ ChildBuffer \in Nat \ {0}

VARIABLES
    system,             \* "unix" or "windows"
    parentAt, childAt,
    input, inPos,
    pipe, readers, writers,   \* the pipe, and who holds an end of it
    sending, copying,         \* the buffers of the two
    output, outPos,
    failed              \* history: a read or a write failed

copyVars == <<system, parentAt, childAt, input, inPos, pipe, readers, writers,
              sending, copying, output, outPos, failed>>
data == <<input, inPos, pipe, sending, copying, output, outPos, failed>>

Size == [unix |-> 1, windows |-> ParentBuffer]
Room == [unix |-> 1, windows |-> ChildBuffer]

CopyInit ==
    /\ system \in {"unix", "windows"}
    /\ parentAt = "open" /\ childAt = "none"
    /\ \E n \in Inputs : input = [k \in 1 .. n |-> k]
    /\ \E n \in Olds : output = [k \in 1 .. n |-> 0]
    /\ inPos = 0 /\ outPos = 0 /\ pipe = <<>>
    /\ readers = {} /\ writers = {}
    /\ sending = <<>> /\ copying = <<>>
    /\ failed = FALSE

(***************************************************************************)
(* The parent                                                              *)
(***************************************************************************)

\* A file or the pipe cannot be opened, or the child not created.
Refuse ==
    /\ parentAt = "open" /\ parentAt' = "failure"
    /\ UNCHANGED <<system, childAt, data, readers, writers>>

\* fork copies all ends; CreateProcess all but the write end.
Start ==
    /\ parentAt = "open"
    /\ parentAt' = IF system = "unix" THEN "close read end" ELSE "read"
    /\ childAt' = IF system = "unix" THEN "close write end" ELSE "open"
    /\ readers' = {"parent", "child"}
    /\ writers' = IF system = "unix" THEN {"parent", "child"} ELSE {"parent"}
    /\ UNCHANGED <<system, data>>

\* filecopy.c only: FileCopy.c keeps its read end.
CloseReadEnd ==
    /\ parentAt = "close read end" /\ parentAt' = "read"
    /\ readers' = readers \ {"parent"}
    /\ UNCHANGED <<system, childAt, data, writers>>

\* Mistake: a buffer that is not full passes for the end of the file.
ReadFullOnly ==
    /\ parentAt = "read"
    /\ LET left == Len(input) - inPos
           n    == IF left < Size[system] THEN left ELSE Size[system]
       IN /\ sending' = SubSeq(input, inPos + 1, inPos + n)
          /\ inPos' = inPos + n
          /\ parentAt' = IF n < 2 THEN "end" ELSE "write"
          /\ UNCHANGED failed
    /\ UNCHANGED <<system, childAt, input, pipe, readers, writers, copying,
                   output, outPos>>

\* An error ends the loop like the end of the file.
ReadInput ==
    /\ parentAt = "read"
    /\ \/ LET left == Len(input) - inPos
              n    == IF left < Size[system] THEN left ELSE Size[system]
          IN /\ sending' = SubSeq(input, inPos + 1, inPos + n)
             /\ inPos' = inPos + n
             /\ parentAt' = IF n = 0 THEN "end" ELSE "write"
             /\ UNCHANGED failed
       \/ parentAt' = "end" /\ failed' = TRUE /\ UNCHANGED <<sending, inPos>>
    /\ UNCHANGED <<system, childAt, input, pipe, readers, writers, copying,
                   output, outPos>>

\* A write may be a part of the buffer at a time.  Somebody always reads: the
\* child, or it has ended and FileCopy.c holds a read end itself.
WritePipe ==
    LET free == PIPE_SIZE - Len(pipe)
        n    == IF Len(sending) < free THEN Len(sending) ELSE free
    IN /\ parentAt = "write" /\ n > 0
       /\ pipe' = pipe \o SubSeq(sending, 1, n)
       /\ sending' = SubSeq(sending, n + 1, Len(sending))
       /\ parentAt' = IF sending' = <<>> THEN "read" ELSE "write"
       /\ UNCHANGED <<system, childAt, input, inPos, readers, writers,
                      copying, output, outPos, failed>>

CloseWriteEnd ==
    /\ parentAt = "end" /\ parentAt' = "wait"
    /\ writers' = writers \ {"parent"}
    /\ UNCHANGED <<system, childAt, data, readers>>

WaitForChild ==
    /\ parentAt = "wait" /\ childAt = "exited"
    /\ parentAt' = "exited"
    /\ UNCHANGED <<system, childAt, data, readers, writers>>

CopyParent == Refuse \/ Start \/ CloseReadEnd \/ ReadInput \/ WritePipe
              \/ CloseWriteEnd \/ WaitForChild

(***************************************************************************)
(* The child                                                               *)
(***************************************************************************)

\* Mistake: the child keeps the write end it inherits.
KeepWriteEnd ==
    /\ childAt = "close write end" /\ childAt' = "read"
    /\ UNCHANGED <<system, parentAt, data, readers, writers>>

ChildCloseWriteEnd ==
    /\ childAt = "close write end" /\ childAt' = "read"
    /\ writers' = writers \ {"child"}
    /\ UNCHANGED <<system, parentAt, data, readers>>

\* child_1.c: CREATE_ALWAYS empties the output.  Nobody looks at the handle;
\* the first WriteFile fails if there is none.
CreateOutput ==
    /\ childAt = "open"
    /\ \/ childAt' = "read" /\ output' = <<>> /\ UNCHANGED failed
       \/ childAt' = "no output" /\ failed' = TRUE /\ UNCHANGED output
    /\ UNCHANGED <<system, parentAt, input, inPos, pipe, readers, writers,
                   sending, copying, outPos>>

ReadPipe ==
    /\ childAt \in {"read", "no output"} /\ (pipe # <<>> \/ writers = {})
    /\ LET n == IF Len(pipe) < Room[system] THEN Len(pipe) ELSE Room[system]
       IN /\ copying' = SubSeq(pipe, 1, n)
          /\ pipe' = SubSeq(pipe, n + 1, Len(pipe))
          /\ childAt' = CASE n = 0 \/ childAt = "no output" -> "end"
                          [] OTHER                          -> "write"
    /\ UNCHANGED <<system, parentAt, input, inPos, readers, writers, sending,
                   output, outPos, failed>>

\* The output of filecopy.c is not emptied first, but written over.
WriteOutput ==
    /\ childAt = "write"
    /\ \/ /\ output' = SubSeq(output, 1, outPos) \o copying
                       \o SubSeq(output, outPos + Len(copying) + 1, Len(output))
          /\ outPos' = outPos + Len(copying)
          /\ childAt' = "read"
          /\ UNCHANGED failed
       \/ /\ failed' = TRUE
          /\ childAt' = IF system = "unix" THEN "read" ELSE "end"
          /\ UNCHANGED <<output, outPos>>
    /\ copying' = <<>>
    /\ UNCHANGED <<system, parentAt, input, inPos, pipe, readers, writers,
                   sending>>

ChildExit ==
    /\ childAt = "end" /\ childAt' = "exited"
    /\ readers' = readers \ {"child"}
    /\ UNCHANGED <<system, parentAt, data, writers>>

CopyChild == ChildCloseWriteEnd \/ CreateOutput \/ ReadPipe \/ WriteOutput
             \/ ChildExit

(***************************************************************************)
(* Correctness                                                             *)
(***************************************************************************)

\* What is written is a beginning of the input, in order.  If nothing has
\* failed it is all of it when the parent exits, although nobody checks the
\* results; only an output that was longer keeps its end, on Unix.
CopyIsFaithful ==
    ~failed /\ parentAt # "failure" =>
        /\ SubSeq(output, 1, outPos) = SubSeq(input, 1, outPos)
        /\ parentAt = "exited" =>
              /\ outPos = Len(input) /\ pipe = <<>>
              /\ Len(output) > outPos => system = "unix"

\* Both end, unless the Windows child has left a full pipe to a parent that
\* could read it itself.
CopyOver == \/ parentAt = "failure"
            \/ parentAt = "exited" /\ childAt = "exited"
            \/ system = "windows" /\ failed /\ childAt = "exited"
=============================================================================
