----------------------------- MODULE CharDriver -----------------------------
(***************************************************************************)
(* prog_assign/assignment-2/submit: the character driver char_module.c and *)
(* its test program test_char_driver.c, of which several may run.  The     *)
(* driver has no lock: one action for each of its accesses to m_offset, so *)
(* that the calls of several processes interleave between them.            *)
(*                                                                         *)
(* `length` is ignored by the driver, and not modelled.  A message is a    *)
(* sequence of bytes; what the driver calls strlen(buffer) is its length.  *)
(***************************************************************************)
EXTENDS Integers, Sequences

CONSTANTS
    Testers,      \* processes that run test_char_driver
    Messages,     \* what their users type after "w"
    Byte, NUL,    \* what messages are made of, and what nobody wrote yet
    BUFFER_SIZE

ASSUME CharDriverAssumption ==
    /\ BUFFER_SIZE \in Nat \ {0}
    /\ Messages \subseteq Seq(Byte)

VARIABLES
    registered,     \* the module is loaded and its device registered
    device_buffer, m_offset,
    at,             \* where a tester is
    str,            \* str[t]: the message t writes
    u_buffer_len,   \* the driver's local, for each caller
    loaded,         \* the value of m_offset that += adds to
    buffer,         \* what the driver copied for the last read of t
    status,         \* what that read returned
    \* The history:
    accepted,       \* bytes that write() reported as written, in order
    known,          \* how many these were when t opened the device to read
    overlapped,     \* two calls of char_driver_write were under way at once
    outside         \* an access was outside device_buffer or the message

driver == <<registered, device_buffer, m_offset>>
local  == <<str, u_buffer_len, loaded, buffer, status>>
ghost  == <<accepted, known, overlapped, outside>>
vars   == <<driver, at, local, ghost>>

Place == {"prompt", "read", "count", "print",
          "write", "cut", "copy", "load", "store", "close", "exited"}

Writing(t) == at[t] \in {"cut", "copy", "load", "store"}

Contents == [i \in 1 .. IF m_offset < BUFFER_SIZE THEN m_offset
                                                  ELSE BUFFER_SIZE
                |-> device_buffer[i - 1]]

Zeroed == [i \in 0 .. BUFFER_SIZE - 1 |-> NUL]

Init ==
    /\ registered = FALSE
    /\ device_buffer = Zeroed
    /\ m_offset = 0
    /\ at = [t \in Testers |-> "prompt"]
    /\ str = [t \in Testers |-> <<>>]
    /\ u_buffer_len = [t \in Testers |-> 0]
    /\ loaded = [t \in Testers |-> 0]
    /\ buffer = [t \in Testers |-> <<>>]
    /\ status = [t \in Testers |-> 0]
    /\ accepted = <<>>
    /\ known = [t \in Testers |-> 0]
    /\ overlapped = FALSE /\ outside = FALSE

Go(t, from, to) == at[t] = from /\ at' = [at EXCEPT ![t] = to]

(***************************************************************************)
(* The module.  It owns the file operations (THIS_MODULE), so that it is   *)
(* not removed while a tester has the device open.                         *)
(***************************************************************************)

\* register_chrdev may fail; the module is loaded all the same.
char_driver_init ==
    /\ ~registered
    /\ registered' \in BOOLEAN
    /\ device_buffer' = Zeroed /\ m_offset' = 0 /\ accepted' = <<>>
    /\ UNCHANGED <<at, local, known, overlapped, outside>>

\* Mistake: the module does not say who owns its operations.
RemovedWhileOpen ==
    /\ registered /\ registered' = FALSE
    /\ device_buffer' = Zeroed /\ m_offset' = 0 /\ accepted' = <<>>
    /\ UNCHANGED <<at, local, known, overlapped, outside>>

char_driver_exit ==
    /\ registered /\ registered' = FALSE
    /\ \A t \in Testers : at[t] \in {"prompt", "exited"}
    /\ device_buffer' = Zeroed /\ m_offset' = 0 /\ accepted' = <<>>
    /\ UNCHANGED <<at, local, known, overlapped, outside>>

(***************************************************************************)
(* test_char_driver                                                        *)
(***************************************************************************)

\* "r", or "w" and a message; without a device the open fails and nothing
\* happens.
read_buff(t) ==
    /\ registered
    /\ Go(t, "prompt", "read")
    /\ known' = [known EXCEPT ![t] = Len(accepted)]
    /\ UNCHANGED <<driver, local, accepted, overlapped, outside>>

write_buff(t) ==
    /\ registered
    /\ Go(t, "prompt", "write")
    /\ \E m \in Messages : str' = [str EXCEPT ![t] = m]
    /\ UNCHANGED <<driver, u_buffer_len, loaded, buffer, status, ghost>>

\* The output and close() at the end of both; their locals are gone.
Close(t) ==
    /\ Go(t, "print", "prompt") \/ Go(t, "close", "prompt")
    /\ str' = [str EXCEPT ![t] = <<>>]
    /\ buffer' = [buffer EXCEPT ![t] = <<>>]
    /\ u_buffer_len' = [u_buffer_len EXCEPT ![t] = 0]
    /\ loaded' = [loaded EXCEPT ![t] = 0]
    /\ status' = [status EXCEPT ![t] = 0]
    /\ known' = [known EXCEPT ![t] = 0]
    /\ UNCHANGED <<driver, accepted, overlapped, outside>>

Quit(t) == Go(t, "prompt", "exited") /\ UNCHANGED <<driver, local, ghost>>

(***************************************************************************)
(* char_driver_read                                                        *)
(***************************************************************************)

\* copy_to_user takes m_offset bytes, whatever was asked for.
ReadCopy(t) ==
    /\ Go(t, "read", "count")
    /\ buffer' = [buffer EXCEPT ![t] = Contents]
    /\ outside' = (outside \/ m_offset > BUFFER_SIZE)
    /\ UNCHANGED <<driver, str, u_buffer_len, loaded, status, accepted,
                   known, overlapped>>

\* The result is m_offset again, which may have grown since the copy.
ReadCount(t) ==
    /\ Go(t, "count", "print")
    /\ status' = [status EXCEPT ![t] = m_offset]
    /\ UNCHANGED <<driver, str, u_buffer_len, loaded, buffer, ghost>>

(***************************************************************************)
(* char_driver_write                                                       *)
(***************************************************************************)

\* strlen and the test of the room that is left.
WriteTest(t) ==
    /\ Go(t, "write",
          IF Len(str[t]) + m_offset >= BUFFER_SIZE THEN "cut" ELSE "copy")
    /\ u_buffer_len' = [u_buffer_len EXCEPT ![t] = Len(str[t])]
    /\ overlapped' = (overlapped \/ \E o \in Testers \ {t} : Writing(o))
    /\ UNCHANGED <<driver, str, loaded, buffer, status, accepted, known,
                   outside>>

\* Mistake: room for the end of the string, too.
WriteCutTooLong(t) ==
    /\ Go(t, "cut", "copy")
    /\ u_buffer_len' = [u_buffer_len EXCEPT ![t] = BUFFER_SIZE - m_offset + 1]
    /\ UNCHANGED <<driver, str, loaded, buffer, status, ghost>>

\* What does not fit is dropped, and the write reports what it took (the
\* comment at char_module.c:61 promises a negative result instead).  Past the end of the buffer the unsigned
\* difference is huge, and copy_from_user refuses it.
WriteCut(t) ==
    /\ \/ /\ m_offset <= BUFFER_SIZE
          /\ Go(t, "cut", "copy")
          /\ u_buffer_len' =
                [u_buffer_len EXCEPT ![t] = BUFFER_SIZE - m_offset]
          /\ UNCHANGED outside
       \/ /\ m_offset > BUFFER_SIZE
          /\ Go(t, "cut", "close")
          /\ outside' = TRUE
          /\ UNCHANGED u_buffer_len
    /\ UNCHANGED <<driver, str, loaded, buffer, status, accepted, known,
                   overlapped>>

\* Mistake: the copy goes to the start of the buffer.
WriteCopyToStart(t) ==
    /\ Go(t, "copy", "load")
    /\ device_buffer' =
          [i \in 0 .. BUFFER_SIZE - 1 |->
              IF i < u_buffer_len[t] THEN str[t][i + 1] ELSE device_buffer[i]]
    /\ UNCHANGED <<registered, m_offset, local, ghost>>

\* copy_from_user, to where m_offset is now.  If that is not where it was
\* the length may be more than the message's (what follows it is a NUL).
WriteCopy(t) ==
    /\ Go(t, "copy", "load")
    /\ device_buffer' =
          [i \in 0 .. BUFFER_SIZE - 1 |->
              IF i >= m_offset /\ i < m_offset + u_buffer_len[t]
              THEN IF i - m_offset < Len(str[t])
                   THEN str[t][i - m_offset + 1] ELSE NUL
              ELSE device_buffer[i]]
    /\ outside' = (outside \/ u_buffer_len[t] > Len(str[t])
                           \/ m_offset + u_buffer_len[t] > BUFFER_SIZE)
    /\ UNCHANGED <<registered, m_offset, local, accepted, known, overlapped>>

\* m_offset += u_buffer_len, in two accesses.
WriteLoad(t) ==
    /\ Go(t, "load", "store")
    /\ loaded' = [loaded EXCEPT ![t] = m_offset]
    /\ UNCHANGED <<driver, str, u_buffer_len, buffer, status, ghost>>

\* ... and the return.  What is accepted after two writes overlapped is not
\* recorded: nothing is said about it.
WriteStore(t) ==
    /\ Go(t, "store", "close")
    /\ m_offset' = loaded[t] + u_buffer_len[t]
    /\ accepted' = IF overlapped THEN accepted
                   ELSE accepted \o SubSeq(str[t], 1, u_buffer_len[t])
    /\ UNCHANGED <<registered, device_buffer, local, known, overlapped,
                   outside>>

(***************************************************************************)
(* The system                                                              *)
(***************************************************************************)

char_driver_read(t)  == ReadCopy(t) \/ ReadCount(t)
char_driver_write(t) == WriteTest(t) \/ WriteCut(t) \/ WriteCopy(t)
                        \/ WriteLoad(t) \/ WriteStore(t)
Tester(t) == read_buff(t) \/ write_buff(t) \/ Close(t) \/ Quit(t)

Next == \/ char_driver_init \/ char_driver_exit
        \/ \E t \in Testers :
              char_driver_read(t) \/ char_driver_write(t) \/ Tester(t)

Spec == Init /\ [][Next]_vars

(***************************************************************************)
(* Correctness                                                             *)
(***************************************************************************)

\* What the driver's writes reported as written is what the device holds, in
\* order, and no access is outside its buffer, unless two writes overlapped.
HoldsAccepted == ~overlapped => accepted = Contents /\ ~outside

\* A read needs no lock as long as the writes do not overlap each other: it
\* gives a beginning of what was accepted, all of what was accepted before
\* the device was opened included.  The count it returns is at least that.
ReadsAccepted ==
    \A t \in Testers : at[t] \in {"count", "print"} /\ ~overlapped =>
        /\ Len(buffer[t]) \in known[t] .. Len(accepted)
        /\ buffer[t] = SubSeq(accepted, 1, Len(buffer[t]))
        /\ at[t] = "print" => status[t] \in Len(buffer[t]) .. BUFFER_SIZE

\* Every change of the device is a message appended, cut where the buffer
\* ends, or the removal of the module, until two writes overlap.
AL == INSTANCE AppendLog WITH log <- Contents, broken <- overlapped,
                              Room <- BUFFER_SIZE
ImplementsLog == AL!Spec
=============================================================================
