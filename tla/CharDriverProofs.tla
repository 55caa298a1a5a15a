-------------------------- MODULE CharDriverProofs --------------------------
(***************************************************************************)
(* Proofs about the character driver, for any number of test programs, any *)
(* messages and any size of the buffer.  The driver has no lock; what it   *)
(* promises it promises until two writes overlap, and the argument follows *)
(* the only writer through its accesses to m_offset.                       *)
(***************************************************************************)
EXTENDS CharDriver, SequenceTheorems, TLAPS

Cell == Byte \cup {NUL}

TypeInv ==
    /\ registered \in BOOLEAN
    /\ device_buffer \in [0 .. BUFFER_SIZE - 1 -> Cell]
    /\ m_offset \in Nat
    /\ at \in [Testers -> Place]
    /\ str \in [Testers -> Seq(Byte)]
    /\ u_buffer_len \in [Testers -> Nat]
    /\ loaded \in [Testers -> Nat]
    /\ buffer \in [Testers -> Seq(Cell)]
    /\ status \in [Testers -> Nat]
    /\ accepted \in Seq(Cell)
    /\ known \in [Testers -> Nat]
    /\ overlapped \in BOOLEAN
    /\ outside \in BOOLEAN

\* The module stays while a tester has the device open; what a tester writes
\* is a message.
Opened ==
    \A t \in Testers :
        /\ at[t] \notin {"prompt", "exited"} => registered
        /\ at[t] = "write" \/ Writing(t) => str[t] \in Messages

\* The device holds what was accepted, byte by byte.
Held ==
    /\ ~outside
    /\ m_offset <= BUFFER_SIZE
    /\ Len(accepted) = m_offset
    /\ \A i \in 1 .. m_offset : accepted[i] = device_buffer[i - 1]

OneWriter == \A t, o \in Testers : Writing(t) /\ Writing(o) => t = o

\* The length is that of the message, or what is left of the buffer.
Fits(t) ==
    /\ u_buffer_len[t] <= Len(str[t])
    /\ m_offset + u_buffer_len[t] <= BUFFER_SIZE
    /\ u_buffer_len[t] = Len(str[t]) \/ m_offset + u_buffer_len[t] = BUFFER_SIZE

\* The writer, on its way through char_driver_write.
WriterInv(t) ==
    /\ at[t] = "cut" => Len(str[t]) + m_offset >= BUFFER_SIZE
    /\ at[t] \in {"copy", "load", "store"} => Fits(t)
    /\ at[t] \in {"load", "store"} =>
          \A i \in 1 .. u_buffer_len[t] :
              device_buffer[m_offset + i - 1] = str[t][i]
    /\ at[t] = "store" => loaded[t] = m_offset

\* A reader, between its open and its output.
ReaderInv(t) ==
    /\ at[t] \in {"read", "count", "print"} => known[t] <= m_offset
    /\ at[t] \in {"count", "print"} =>
          /\ Len(buffer[t]) \in known[t] .. m_offset
          /\ \A i \in 1 .. Len(buffer[t]) : buffer[t][i] = accepted[i]
    /\ at[t] = "print" => status[t] \in Len(buffer[t]) .. m_offset

Alone == /\ Held
         /\ OneWriter
         /\ \A t \in Testers : WriterInv(t) /\ ReaderInv(t)

IInv == /\ TypeInv
        /\ Opened
        /\ ~overlapped => Alone

\* Contents as a sequence.
LEMMA ContentsSeq ==
    ASSUME TypeInv
    PROVE  /\ Contents \in Seq(Cell)
           /\ Len(Contents) = IF m_offset < BUFFER_SIZE THEN m_offset
                                                        ELSE BUFFER_SIZE
           /\ \A i \in 1 .. Len(Contents) : Contents[i] = device_buffer[i - 1]
<1> DEFINE n == IF m_offset < BUFFER_SIZE THEN m_offset ELSE BUFFER_SIZE
<1>1. n \in Nat /\ n <= BUFFER_SIZE
  BY CharDriverAssumption DEF TypeInv
<1>2. \A i \in 1 .. n : device_buffer[i - 1] \in Cell
  BY <1>1, CharDriverAssumption DEF TypeInv
<1>3. Contents = [i \in 1 .. n |-> device_buffer[i - 1]]
  BY DEF Contents
<1> QED
  BY <1>1, <1>2, <1>3

\* The invariant holds at first.
LEMMA DriverInit == Init => IInv
<1> SUFFICES ASSUME Init PROVE IInv
  OBVIOUS
<1>1. TypeInv
  <2>1. device_buffer \in [0 .. BUFFER_SIZE - 1 -> Cell]
    BY DEF Init, Zeroed, Cell
  <2>2. << >> \in Seq(Byte) /\ << >> \in Seq(Cell)
    OBVIOUS
  <2>3. at \in [Testers -> Place] /\ m_offset \in Nat
    BY DEF Init, Place
  <2> QED
    BY <2>1, <2>2, <2>3 DEF Init, TypeInv
<1>2. Opened
  BY DEF Init, Opened, Writing
<1>3. Alone
  BY CharDriverAssumption DEF Init, Alone, Held, OneWriter, WriterInv,
     ReaderInv, Writing
<1> QED
  BY <1>1, <1>2, <1>3 DEF IInv

\* Every step keeps the types.
LEMMA TypeStep == IInv /\ [Next]_vars => TypeInv'
<1> SUFFICES ASSUME IInv, [Next]_vars PROVE TypeInv'
  OBVIOUS
<1> USE CharDriverAssumption DEF IInv, TypeInv, driver, local, ghost, Go
<1>1. CASE char_driver_init
  BY <1>1 DEF char_driver_init, Zeroed, Cell
<1>2. CASE char_driver_exit
  <2>1. device_buffer' \in [0 .. BUFFER_SIZE - 1 -> Cell]
    BY <1>2 DEF char_driver_exit, Zeroed, Cell
  <2>2. /\ registered' = FALSE /\ m_offset' = 0 /\ accepted' = << >>
        /\ UNCHANGED <<at, str, u_buffer_len, loaded, buffer, status, known,
                       overlapped, outside>>
    BY <1>2 DEF char_driver_exit
  <2>3. accepted' \in Seq(Cell)
    BY <2>2
  <2> QED
    BY <2>1, <2>2, <2>3
<1>3. ASSUME NEW t \in Testers, char_driver_read(t)
      PROVE  TypeInv'
  <2>1. CASE ReadCopy(t)
    BY <2>1, ContentsSeq DEF ReadCopy, Place
  <2>2. CASE ReadCount(t)
    BY <2>2 DEF ReadCount, Place
  <2> QED
    BY <1>3, <2>1, <2>2 DEF char_driver_read
<1>4. ASSUME NEW t \in Testers, char_driver_write(t)
      PROVE  TypeInv'
  <2>1. CASE WriteTest(t)
    <3>1. at' \in [Testers -> Place] /\ overlapped' \in BOOLEAN
      BY <2>1 DEF WriteTest, Place
    <3>2. u_buffer_len' \in [Testers -> Nat]
      BY <2>1 DEF WriteTest
    <3> QED
      BY <2>1, <3>1, <3>2 DEF WriteTest
  <2>2. CASE WriteCut(t)
    <3>1. at' \in [Testers -> Place] /\ outside' \in BOOLEAN
      BY <2>2 DEF WriteCut, Place
    <3>2. u_buffer_len' \in [Testers -> Nat]
      <4>1. CASE m_offset <= BUFFER_SIZE
        <5>1. BUFFER_SIZE - m_offset \in Nat
          BY <4>1
        <5> QED
          BY <2>2, <4>1, <5>1 DEF WriteCut
      <4>2. CASE m_offset > BUFFER_SIZE
        BY <2>2, <4>2 DEF WriteCut
      <4> QED
        BY <4>1, <4>2
    <3> QED
      BY <2>2, <3>1, <3>2 DEF WriteCut
  <2>3. CASE WriteCopy(t)
    <3>1. at' \in [Testers -> Place] /\ outside' \in BOOLEAN
      BY <2>3 DEF WriteCopy, Place
    <3>2. device_buffer' \in [0 .. BUFFER_SIZE - 1 -> Cell]
      BY <2>3 DEF WriteCopy, Cell
    <3> QED
      BY <2>3, <3>1, <3>2 DEF WriteCopy
  <2>4. CASE WriteLoad(t)
    BY <2>4 DEF WriteLoad, Place
  <2>5. CASE WriteStore(t)
    <3>1. at' \in [Testers -> Place] /\ m_offset' \in Nat
      BY <2>5 DEF WriteStore, Place
    <3>2. accepted' \in Seq(Cell)
      <4>1. CASE overlapped
        BY <2>5, <4>1 DEF WriteStore
      <4>2. CASE ~overlapped
        <5>1. u_buffer_len[t] \in Nat /\ u_buffer_len[t] <= Len(str[t])
          BY <2>5, <4>2 DEF Alone, WriterInv, Fits, WriteStore
        <5>2. \A i \in 1 .. u_buffer_len[t] : str[t][i] \in Cell
          BY <5>1 DEF Cell
        <5>3. SubSeq(str[t], 1, u_buffer_len[t]) \in Seq(Cell)
          BY <5>1, <5>2, SubSeqProperties
        <5> QED
          BY <2>5, <4>2, <5>3, ConcatProperties DEF WriteStore
      <4> QED
        BY <4>1, <4>2
    <3> QED
      BY <2>5, <3>1, <3>2 DEF WriteStore
  <2> QED
    BY <1>4, <2>1, <2>2, <2>3, <2>4, <2>5 DEF char_driver_write
<1>5. ASSUME NEW t \in Testers, Tester(t)
      PROVE  TypeInv'
  <2>1. CASE read_buff(t)
    BY <2>1 DEF read_buff, Place
  <2>2. CASE write_buff(t)
    BY <2>2 DEF write_buff, Place
  <2>3. CASE Close(t)
    <3>1. at' \in [Testers -> Place]
      BY <2>3 DEF Close, Place
    <3>2. str' \in [Testers -> Seq(Byte)] /\ buffer' \in [Testers -> Seq(Cell)]
      BY <2>3 DEF Close
    <3>3. /\ u_buffer_len' \in [Testers -> Nat] /\ loaded' \in [Testers -> Nat]
          /\ status' \in [Testers -> Nat] /\ known' \in [Testers -> Nat]
      BY <2>3 DEF Close
    <3> QED
      BY <2>3, <3>1, <3>2, <3>3 DEF Close
  <2>4. CASE Quit(t)
    BY <2>4 DEF Quit, Place
  <2> QED
    BY <1>5, <2>1, <2>2, <2>3, <2>4 DEF Tester
<1>6. CASE UNCHANGED vars
  BY <1>6 DEF vars
<1> QED
  BY <1>1, <1>2, <1>3, <1>4, <1>5, <1>6 DEF Next

\* The module is not removed under a tester, and a message stays one.
LEMMA OpenedStep == IInv /\ [Next]_vars => Opened'
<1> SUFFICES ASSUME IInv, [Next]_vars, NEW o \in Testers
             PROVE  /\ at'[o] \notin {"prompt", "exited"} => registered'
                    /\ at'[o] = "write" \/ Writing(o)' => str'[o] \in Messages
  BY DEF Opened
<1> USE DEF IInv, TypeInv, Opened, driver, local, ghost, Go, Writing
<1>1. CASE char_driver_init
  BY <1>1 DEF char_driver_init
<1>2. CASE char_driver_exit
  BY <1>2 DEF char_driver_exit
<1>3. ASSUME NEW t \in Testers, char_driver_read(t)
      PROVE  /\ at'[o] \notin {"prompt", "exited"} => registered'
             /\ at'[o] = "write" \/ Writing(o)' => str'[o] \in Messages
  BY <1>3 DEF char_driver_read, ReadCopy, ReadCount
<1>4. ASSUME NEW t \in Testers, char_driver_write(t)
      PROVE  /\ at'[o] \notin {"prompt", "exited"} => registered'
             /\ at'[o] = "write" \/ Writing(o)' => str'[o] \in Messages
  <2>1. registered' = registered /\ str' = str
    BY <1>4 DEF char_driver_write, WriteTest, WriteCut, WriteCopy, WriteLoad,
       WriteStore
  <2>2. at[t] = "write" \/ Writing(t)
    BY <1>4 DEF char_driver_write, WriteTest, WriteCut, WriteCopy, WriteLoad,
       WriteStore
  <2>3. o # t => at'[o] = at[o]
    BY <1>4 DEF char_driver_write, WriteTest, WriteCut, WriteCopy, WriteLoad,
       WriteStore
  <2> QED
    BY <2>1, <2>2, <2>3
<1>5. ASSUME NEW t \in Testers, Tester(t)
      PROVE  /\ at'[o] \notin {"prompt", "exited"} => registered'
             /\ at'[o] = "write" \/ Writing(o)' => str'[o] \in Messages
  <2>1. CASE read_buff(t)
    BY <2>1 DEF read_buff
  <2>2. CASE write_buff(t)
    BY <2>2 DEF write_buff
  <2>3. CASE Close(t)
    BY <2>3 DEF Close
  <2>4. CASE Quit(t)
    BY <2>4 DEF Quit
  <2> QED
    BY <1>5, <2>1, <2>2, <2>3, <2>4 DEF Tester
<1>6. CASE UNCHANGED vars
  BY <1>6 DEF vars
<1> QED
  BY <1>1, <1>2, <1>3, <1>4, <1>5, <1>6 DEF Next

\* Loading and removing the module: nobody has the device open, and nothing
\* is accepted any more.
LEMMA ModuleStep ==
    ASSUME IInv, ~overlapped', char_driver_init \/ char_driver_exit
    PROVE  Alone'
<1>1. /\ m_offset' = 0 /\ accepted' = << >>
      /\ UNCHANGED <<at, str, u_buffer_len, loaded, buffer, status, known,
                     overlapped, outside>>
  BY DEF char_driver_init, char_driver_exit, local
<1>2. \A t \in Testers : at[t] \in {"prompt", "exited"}
  BY DEF char_driver_init, char_driver_exit, IInv, Opened
<1>3. Held'
  BY <1>1, CharDriverAssumption DEF Held, IInv, Alone
<1>4. OneWriter' /\ \A t \in Testers : WriterInv(t)' /\ ReaderInv(t)'
  BY <1>1, <1>2 DEF OneWriter, WriterInv, ReaderInv, Writing
<1> QED
  BY <1>3, <1>4 DEF Alone

\* Steps of a tester outside the driver.
LEMMA TesterStep ==
    ASSUME IInv, ~overlapped', NEW t \in Testers, Tester(t)
    PROVE  Alone'
<1>1. /\ UNCHANGED <<registered, device_buffer, m_offset, accepted,
                     overlapped, outside>>
      /\ Alone
  BY DEF Tester, read_buff, write_buff, Close, Quit, driver, ghost, IInv
<1>2. /\ at[t] \in {"prompt", "print", "close"}
      /\ at'[t] \in {"read", "write", "prompt", "exited"}
      /\ \A o \in Testers \ {t} : at'[o] = at[o]
  BY DEF Tester, read_buff, write_buff, Close, Quit, Go, IInv, TypeInv
<1>3. \A o \in Testers \ {t} :
          UNCHANGED <<str[o], u_buffer_len[o], loaded[o], buffer[o],
                      status[o], known[o]>>
  BY DEF Tester, read_buff, write_buff, Close, Quit, local, ghost, IInv,
     TypeInv
<1>4. Held'
  BY <1>1 DEF Alone, Held
<1>5. OneWriter'
  BY <1>1, <1>2 DEF Alone, OneWriter, Writing
<1>6. ASSUME NEW o \in Testers PROVE WriterInv(o)' /\ ReaderInv(o)'
  <2>1. CASE o # t
    BY <1>1, <1>2, <1>3, <2>1 DEF Alone, WriterInv, ReaderInv, Fits
  <2>2. CASE o = t
    <3>1. WriterInv(t)'
      BY <1>2 DEF WriterInv
    <3>2. at'[t] = "read" => known'[t] = Len(accepted)
      BY <1>2 DEF Tester, read_buff, write_buff, Close, Quit, Go, IInv,
         TypeInv
    <3>3. Len(accepted) = m_offset /\ m_offset \in Nat /\ m_offset' = m_offset
      BY <1>1 DEF Alone, Held, IInv, TypeInv
    <3>4. ReaderInv(t)'
      BY <1>2, <3>2, <3>3 DEF ReaderInv
    <3> QED
      BY <2>2, <3>1, <3>4
  <2> QED
    BY <2>1, <2>2
<1> QED
  BY <1>4, <1>5, <1>6 DEF Alone

\* A read: the copy and the count.
LEMMA ReadStep ==
    ASSUME IInv, ~overlapped', NEW t \in Testers, char_driver_read(t)
    PROVE  Alone'
<1>1. /\ UNCHANGED <<registered, device_buffer, m_offset, str, u_buffer_len,
                     loaded, accepted, known, overlapped>>
      /\ Alone
  BY DEF char_driver_read, ReadCopy, ReadCount, driver, ghost, IInv
<1>2. /\ at[t] \in {"read", "count"}
      /\ at'[t] \in {"count", "print"}
      /\ \A o \in Testers \ {t} : at'[o] = at[o]
  BY DEF char_driver_read, ReadCopy, ReadCount, Go, IInv, TypeInv
<1>3. \A o \in Testers \ {t} : UNCHANGED <<buffer[o], status[o]>>
  BY DEF char_driver_read, ReadCopy, ReadCount, IInv, TypeInv
<1>4. Held'
  <2>1. ~outside /\ m_offset <= BUFFER_SIZE /\ m_offset \in Nat
    BY <1>1 DEF Alone, Held, IInv, TypeInv
  <2>2. ~(m_offset > BUFFER_SIZE)
    BY <2>1, CharDriverAssumption
  <2>3. CASE ReadCopy(t)
    <3>1. outside' = (outside \/ m_offset > BUFFER_SIZE)
      BY <2>3 DEF ReadCopy
    <3> QED
      BY <1>1, <2>1, <2>2, <3>1 DEF Alone, Held
  <2>4. CASE ReadCount(t)
    BY <1>1, <2>1, <2>4 DEF ReadCount, ghost, Alone, Held
  <2> QED
    BY <2>3, <2>4 DEF char_driver_read
<1>5. OneWriter'
  BY <1>1, <1>2 DEF Alone, OneWriter, Writing
<1>6. ASSUME NEW o \in Testers \ {t} PROVE WriterInv(o)' /\ ReaderInv(o)'
  BY <1>1, <1>2, <1>3 DEF Alone, WriterInv, ReaderInv, Fits
<1>7. WriterInv(t)'
  BY <1>2 DEF WriterInv
<1>8. ReaderInv(t)'
  <2>1. CASE ReadCopy(t)
    <3>1. at'[t] = "count" /\ buffer'[t] = Contents /\ at[t] = "read"
      BY <2>1 DEF ReadCopy, Go, IInv, TypeInv
    <3>2. /\ Len(Contents) = m_offset
          /\ \A i \in 1 .. m_offset : Contents[i] = accepted[i]
      <4>1. TypeInv /\ m_offset \in Nat
        BY DEF IInv, TypeInv
      <4>2. Len(Contents) = m_offset
        BY <1>1, <4>1, ContentsSeq, CharDriverAssumption DEF Alone, Held
      <4> QED
        BY <1>1, <4>1, <4>2, ContentsSeq DEF Alone, Held
    <3>3. known[t] <= m_offset /\ known[t] \in Nat /\ m_offset \in Nat
      BY <1>1, <3>1 DEF Alone, ReaderInv, IInv, TypeInv
    <3> QED
      BY <1>1, <3>1, <3>2, <3>3 DEF ReaderInv
  <2>2. CASE ReadCount(t)
    <3>1. /\ at[t] = "count" /\ at'[t] = "print" /\ buffer' = buffer
          /\ status'[t] = m_offset
      BY <2>2 DEF ReadCount, Go, IInv, TypeInv
    <3>2. Len(buffer[t]) \in Nat /\ known[t] \in Nat /\ m_offset \in Nat
      BY DEF IInv, TypeInv
    <3> QED
      BY <1>1, <3>1, <3>2 DEF ReaderInv, Alone
  <2> QED
    BY <2>1, <2>2 DEF char_driver_read
<1> QED
  BY <1>4, <1>5, <1>6, <1>7, <1>8 DEF Alone

\* What every access of a write leaves alone, the other testers above all.
LEMMA WriteFrame ==
    ASSUME IInv, NEW t \in Testers, char_driver_write(t)
    PROVE  /\ UNCHANGED <<registered, str, buffer, status, known>>
           /\ at[t] = "write" \/ Writing(t)
           /\ \A o \in Testers \ {t} :
                 UNCHANGED <<at[o], u_buffer_len[o], loaded[o]>>
  BY DEF char_driver_write, WriteTest, WriteCut, WriteCopy, WriteLoad,
     WriteStore, driver, local, ghost, Go, Writing, IInv, TypeInv

\* The test of the room: from here on the tester is the only writer.
LEMMA WriteTestStep ==
    ASSUME IInv, ~overlapped', NEW t \in Testers, WriteTest(t)
    PROVE  Alone'
<1>1. ~overlapped /\ \A o \in Testers \ {t} : ~Writing(o)
  BY DEF WriteTest
<1>2. /\ UNCHANGED <<device_buffer, m_offset, accepted, outside>>
      /\ Alone
  BY <1>1 DEF WriteTest, driver, IInv
<1>3. /\ UNCHANGED <<registered, str, buffer, status, known>>
      /\ \A o \in Testers \ {t} :
            UNCHANGED <<at[o], u_buffer_len[o], loaded[o]>>
  BY WriteFrame DEF char_driver_write
<1>4. /\ at'[t] = IF Len(str[t]) + m_offset >= BUFFER_SIZE THEN "cut" ELSE "copy"
      /\ u_buffer_len'[t] = Len(str[t])
  BY DEF WriteTest, Go, IInv, TypeInv
<1>5. Held' /\ OneWriter'
  BY <1>1, <1>2, <1>3 DEF Alone, Held, OneWriter, Writing
<1>6. ASSUME NEW o \in Testers \ {t} PROVE WriterInv(o)' /\ ReaderInv(o)'
  BY <1>2, <1>3 DEF Alone, WriterInv, ReaderInv, Fits
<1>7. Len(str[t]) \in Nat /\ m_offset \in Nat /\ BUFFER_SIZE \in Nat
  BY CharDriverAssumption DEF IInv, TypeInv
<1>8. WriterInv(t)'
  BY <1>2, <1>3, <1>4, <1>7 DEF WriterInv, Fits
<1>9. ReaderInv(t)'
  BY <1>4 DEF ReaderInv
<1> QED
  BY <1>5, <1>6, <1>8, <1>9 DEF Alone

\* The message is cut so that it ends where the buffer does.
LEMMA WriteCutStep ==
    ASSUME IInv, ~overlapped', NEW t \in Testers, WriteCut(t)
    PROVE  Alone'
<1>1. /\ UNCHANGED <<device_buffer, m_offset, accepted, overlapped>>
      /\ Alone /\ m_offset <= BUFFER_SIZE
      /\ m_offset \in Nat /\ BUFFER_SIZE \in Nat
  BY CharDriverAssumption DEF WriteCut, driver, IInv, TypeInv, Alone, Held
<1>2. /\ UNCHANGED <<registered, str, buffer, status, known>>
      /\ \A o \in Testers \ {t} :
            UNCHANGED <<at[o], u_buffer_len[o], loaded[o]>>
  BY WriteFrame DEF char_driver_write
<1>3. ~(m_offset > BUFFER_SIZE)
  BY <1>1
<1>4. /\ at[t] = "cut" /\ at'[t] = "copy" /\ UNCHANGED outside
      /\ u_buffer_len'[t] = BUFFER_SIZE - m_offset
  BY <1>3 DEF WriteCut, Go, IInv, TypeInv
<1>5. Held'
  BY <1>1, <1>4 DEF Alone, Held
<1>6. OneWriter'
  BY <1>1, <1>2, <1>4 DEF Alone, OneWriter, Writing
<1>7. ASSUME NEW o \in Testers \ {t} PROVE WriterInv(o)' /\ ReaderInv(o)'
  BY <1>1, <1>2 DEF Alone, WriterInv, ReaderInv, Fits
<1>8. Len(str[t]) \in Nat /\ Len(str[t]) + m_offset >= BUFFER_SIZE
  BY <1>1, <1>4 DEF Alone, WriterInv, IInv, TypeInv
<1>9. WriterInv(t)' /\ ReaderInv(t)'
  BY <1>1, <1>2, <1>4, <1>8 DEF WriterInv, ReaderInv, Fits
<1> QED
  BY <1>5, <1>6, <1>7, <1>9 DEF Alone

\* The copy goes behind all that was accepted before.
LEMMA WriteCopyStep ==
    ASSUME IInv, ~overlapped', NEW t \in Testers, WriteCopy(t)
    PROVE  Alone'
<1>1. /\ UNCHANGED <<m_offset, u_buffer_len, loaded, accepted, overlapped>>
      /\ Alone /\ m_offset <= BUFFER_SIZE
      /\ m_offset \in Nat /\ BUFFER_SIZE \in Nat
  BY CharDriverAssumption DEF WriteCopy, local, IInv, TypeInv, Alone, Held
<1>2. /\ UNCHANGED <<registered, str, buffer, status, known>>
      /\ \A o \in Testers \ {t} :
            UNCHANGED <<at[o], u_buffer_len[o], loaded[o]>>
  BY WriteFrame DEF char_driver_write
<1>3. at[t] = "copy" /\ at'[t] = "load"
  BY DEF WriteCopy, Go, IInv, TypeInv
<1>4. /\ Fits(t)
      /\ u_buffer_len[t] \in Nat /\ Len(str[t]) \in Nat
  BY <1>1, <1>3 DEF Alone, WriterInv, IInv, TypeInv
<1>5. \A i \in 0 .. BUFFER_SIZE - 1 :
          device_buffer'[i] = IF i >= m_offset /\ i < m_offset + u_buffer_len[t]
                              THEN IF i - m_offset < Len(str[t])
                                   THEN str[t][i - m_offset + 1] ELSE NUL
                              ELSE device_buffer[i]
  BY DEF WriteCopy
<1>6. \A i \in 1 .. m_offset : device_buffer'[i - 1] = device_buffer[i - 1]
  BY <1>1, <1>4, <1>5
<1>7. \A i \in 1 .. u_buffer_len[t] :
          device_buffer'[m_offset + i - 1] = str[t][i]
  <2> TAKE i \in 1 .. u_buffer_len[t]
  <2>1. m_offset + i - 1 \in 0 .. BUFFER_SIZE - 1
    BY <1>1, <1>4 DEF Fits
  <2>2. (m_offset + i - 1) - m_offset + 1 = i /\ i <= Len(str[t])
    BY <1>1, <1>4 DEF Fits
  <2> QED
    BY <1>1, <1>4, <1>5, <2>1, <2>2
<1>8. ~outside'
  <2>1. outside' = (outside \/ u_buffer_len[t] > Len(str[t])
                            \/ m_offset + u_buffer_len[t] > BUFFER_SIZE)
    BY DEF WriteCopy
  <2>2. /\ ~(u_buffer_len[t] > Len(str[t]))
        /\ ~(m_offset + u_buffer_len[t] > BUFFER_SIZE)
    BY <1>1, <1>4 DEF Fits
  <2> QED
    BY <1>1, <2>1, <2>2 DEF Alone, Held
<1>9. Held'
  BY <1>1, <1>6, <1>8 DEF Alone, Held
<1>10. OneWriter'
  BY <1>1, <1>2, <1>3 DEF Alone, OneWriter, Writing
<1>11. ASSUME NEW o \in Testers \ {t} PROVE WriterInv(o)' /\ ReaderInv(o)'
  <2>1. ~Writing(o)
    BY <1>1, <1>3 DEF Alone, OneWriter, Writing
  <2>2. ReaderInv(o)'
    BY <1>1, <1>2 DEF Alone, ReaderInv
  <2> QED
    BY <1>2, <2>1, <2>2 DEF WriterInv, Writing
<1>12. WriterInv(t)' /\ ReaderInv(t)'
  BY <1>1, <1>2, <1>3, <1>4, <1>7 DEF WriterInv, ReaderInv, Fits
<1> QED
  BY <1>9, <1>10, <1>11, <1>12 DEF Alone

\* The offset is loaded for the addition.
LEMMA WriteLoadStep ==
    ASSUME IInv, ~overlapped', NEW t \in Testers, WriteLoad(t)
    PROVE  Alone'
<1>1. /\ UNCHANGED <<device_buffer, m_offset, u_buffer_len, accepted,
                     overlapped, outside>>
      /\ Alone
  BY DEF WriteLoad, driver, ghost, IInv
<1>2. /\ UNCHANGED <<registered, str, buffer, status, known>>
      /\ \A o \in Testers \ {t} :
            UNCHANGED <<at[o], u_buffer_len[o], loaded[o]>>
  BY WriteFrame DEF char_driver_write
<1>3. at[t] = "load" /\ at'[t] = "store" /\ loaded'[t] = m_offset
  BY DEF WriteLoad, Go, IInv, TypeInv
<1>4. Held'
  BY <1>1 DEF Alone, Held
<1>5. OneWriter'
  BY <1>1, <1>2, <1>3 DEF Alone, OneWriter, Writing
<1>6. ASSUME NEW o \in Testers \ {t} PROVE WriterInv(o)' /\ ReaderInv(o)'
  BY <1>1, <1>2 DEF Alone, WriterInv, ReaderInv, Fits
<1>7. WriterInv(t)' /\ ReaderInv(t)'
  BY <1>1, <1>2, <1>3 DEF Alone, WriterInv, ReaderInv, Fits
<1> QED
  BY <1>4, <1>5, <1>6, <1>7 DEF Alone

\* What a writer adds to what was accepted: the part that fitted.
LEMMA StoreAppends ==
    ASSUME IInv, ~overlapped, NEW t \in Testers, WriteStore(t)
    PROVE  LET u == u_buffer_len[t]
           IN  /\ u \in Nat /\ u <= Len(str[t])
               /\ m_offset' = m_offset + u
               /\ accepted' \in Seq(Cell)
               /\ Len(accepted') = m_offset + u
               /\ \A i \in 1 .. m_offset + u :
                     accepted'[i] = IF i <= m_offset THEN accepted[i]
                                                     ELSE str[t][i - m_offset]
<1> DEFINE u == u_buffer_len[t]
           part == SubSeq(str[t], 1, u)
<1>1. Alone /\ at[t] = "store"
  BY DEF IInv, WriteStore, Go
<1>2. /\ u \in Nat /\ u <= Len(str[t]) /\ loaded[t] = m_offset
      /\ m_offset \in Nat /\ Len(accepted) = m_offset
      /\ str[t] \in Seq(Byte) /\ accepted \in Seq(Cell)
  BY <1>1 DEF Alone, Held, WriterInv, Fits, IInv, TypeInv
<1>3. \A i \in 1 .. u : str[t][i] \in Cell
  BY <1>2 DEF Cell
<1>4. /\ part \in Seq(Cell) /\ Len(part) = u
      /\ \A i \in 1 .. u : part[i] = str[t][i]
  BY <1>2, <1>3, SubSeqProperties
<1>5. accepted' = accepted \o part /\ m_offset' = m_offset + u
  BY <1>2 DEF WriteStore
<1> HIDE DEF u, part
<1>6. /\ accepted \o part \in Seq(Cell)
      /\ Len(accepted \o part) = m_offset + u
      /\ \A i \in 1 .. m_offset + u :
            (accepted \o part)[i] = IF i <= m_offset THEN accepted[i]
                                                     ELSE part[i - m_offset]
  <2>1. accepted \in Seq(Cell) /\ part \in Seq(Cell)
    BY <1>2, <1>4
  <2>2. /\ accepted \o part \in Seq(Cell)
        /\ Len(accepted \o part) = Len(accepted) + Len(part)
        /\ \A i \in 1 .. Len(accepted) + Len(part) :
              (accepted \o part)[i] = IF i <= Len(accepted) THEN accepted[i]
                                      ELSE part[i - Len(accepted)]
    BY <2>1, ConcatProperties
  <2>3. Len(accepted) = m_offset /\ Len(part) = u
    BY <1>2, <1>4
  <2> QED
    BY <2>2, <2>3
<1>7. \A i \in 1 .. m_offset + u : ~(i <= m_offset) => i - m_offset \in 1 .. u
  BY <1>2
<1>8. \A i \in 1 .. m_offset + u :
          accepted'[i] = IF i <= m_offset THEN accepted[i]
                                          ELSE str[t][i - m_offset]
  BY <1>4, <1>5, <1>6, <1>7
<1> QED
  BY <1>2, <1>5, <1>6, <1>8 DEF u

\* The offset moves behind what the copy wrote, and readers keep a beginning.
LEMMA WriteStoreStep ==
    ASSUME IInv, ~overlapped', NEW t \in Testers, WriteStore(t)
    PROVE  Alone'
<1> DEFINE u == u_buffer_len[t]
<1>1. /\ UNCHANGED <<device_buffer, u_buffer_len, loaded, overlapped, outside>>
      /\ Alone
  BY DEF WriteStore, local, IInv
<1>2. /\ UNCHANGED <<registered, str, buffer, status, known>>
      /\ \A o \in Testers \ {t} :
            UNCHANGED <<at[o], u_buffer_len[o], loaded[o]>>
  BY WriteFrame DEF char_driver_write
<1>3. at[t] = "store" /\ at'[t] = "close"
  BY DEF WriteStore, Go, IInv, TypeInv
<1>4. /\ u \in Nat /\ m_offset' = m_offset + u
      /\ Len(accepted') = m_offset + u
      /\ \A i \in 1 .. m_offset + u :
            accepted'[i] = IF i <= m_offset THEN accepted[i]
                                            ELSE str[t][i - m_offset]
  BY <1>1, StoreAppends
<1>5. /\ m_offset \in Nat /\ BUFFER_SIZE \in Nat
      /\ m_offset + u <= BUFFER_SIZE
      /\ \A i \in 1 .. u : device_buffer[m_offset + i - 1] = str[t][i]
  BY <1>1, <1>3, CharDriverAssumption DEF Alone, WriterInv, Fits, IInv, TypeInv
<1> HIDE DEF u
<1>6. Held'
  <2>1. ASSUME NEW i \in 1 .. m_offset + u
        PROVE  accepted'[i] = device_buffer[i - 1]
    <3>1. CASE i <= m_offset
      BY <1>1, <1>4, <1>5, <3>1 DEF Alone, Held
    <3>2. CASE ~(i <= m_offset)
      <4>1. i - m_offset \in 1 .. u /\ m_offset + (i - m_offset) - 1 = i - 1
        BY <1>4, <1>5, <3>2
      <4>2. device_buffer[m_offset + (i - m_offset) - 1] = str[t][i - m_offset]
        BY <1>5, <4>1
      <4> QED
        BY <1>4, <3>2, <4>1, <4>2
    <3> QED
      BY <3>1, <3>2
  <2> QED
    BY <1>1, <1>4, <1>5, <2>1 DEF Alone, Held
<1>7. OneWriter'
  BY <1>1, <1>2, <1>3 DEF Alone, OneWriter, Writing
<1>8. ASSUME NEW o \in Testers \ {t} PROVE WriterInv(o)' /\ ReaderInv(o)'
  <2>1. ~Writing(o)
    BY <1>1, <1>3 DEF Alone, OneWriter, Writing
  <2>2. ReaderInv(o)
    BY <1>1 DEF Alone
  <2>3. /\ known[o] \in Nat /\ status[o] \in Nat /\ Len(buffer[o]) \in Nat
    BY DEF IInv, TypeInv
  <2>4. ReaderInv(o)'
    BY <1>2, <1>4, <1>5, <2>2, <2>3 DEF ReaderInv
  <2> QED
    BY <1>2, <2>1, <2>4 DEF WriterInv, Writing
<1>9. WriterInv(t)' /\ ReaderInv(t)'
  BY <1>3 DEF WriterInv, ReaderInv
<1> QED
  BY <1>6, <1>7, <1>8, <1>9 DEF Alone

\* That two writes overlapped is never forgotten.
LEMMA OverlapStays == IInv /\ [Next]_vars => (overlapped => overlapped')
<1> SUFFICES ASSUME IInv, [Next]_vars, overlapped PROVE overlapped'
  OBVIOUS
<1>1. CASE char_driver_init \/ char_driver_exit
  BY <1>1 DEF char_driver_init, char_driver_exit
<1>2. ASSUME NEW t \in Testers, char_driver_read(t) \/ Tester(t)
      PROVE  overlapped'
  BY <1>2 DEF char_driver_read, ReadCopy, ReadCount, Tester, read_buff,
     write_buff, Close, Quit, ghost
<1>3. ASSUME NEW t \in Testers, char_driver_write(t)
      PROVE  overlapped'
  BY <1>3 DEF char_driver_write, WriteTest, WriteCut, WriteCopy, WriteLoad,
     WriteStore, ghost
<1>4. CASE UNCHANGED vars
  BY <1>4 DEF vars, ghost
<1> QED
  BY <1>1, <1>2, <1>3, <1>4 DEF Next

\* A step that does nothing keeps what is said of the variables.
LEMMA StutterAlone ==
    ASSUME Alone, UNCHANGED vars
    PROVE  Alone'
<1>1. UNCHANGED <<device_buffer, m_offset, at, str, u_buffer_len, loaded,
                  buffer, status, accepted, known, outside>>
  BY DEF vars, driver, local, ghost
<1>2. Held' /\ OneWriter'
  BY <1>1 DEF Alone, Held, OneWriter, Writing
<1>3. ASSUME NEW o \in Testers PROVE WriterInv(o)' /\ ReaderInv(o)'
  BY <1>1 DEF Alone, WriterInv, ReaderInv, Fits
<1> QED
  BY <1>2, <1>3 DEF Alone

\* Every step keeps the invariant.
LEMMA DriverStep == IInv /\ [Next]_vars => IInv'
<1> SUFFICES ASSUME IInv, [Next]_vars PROVE IInv'
  OBVIOUS
<1>1. TypeInv' /\ Opened'
  BY TypeStep, OpenedStep
<1>2. ASSUME ~overlapped' PROVE Alone'
  <2>1. CASE char_driver_init \/ char_driver_exit
    BY <1>2, <2>1, ModuleStep
  <2>2. ASSUME NEW t \in Testers, char_driver_read(t) PROVE Alone'
    BY <1>2, <2>2, ReadStep
  <2>3. ASSUME NEW t \in Testers, char_driver_write(t) PROVE Alone'
    BY <1>2, <2>3, WriteTestStep, WriteCutStep, WriteCopyStep, WriteLoadStep,
       WriteStoreStep DEF char_driver_write
  <2>4. ASSUME NEW t \in Testers, Tester(t) PROVE Alone'
    BY <1>2, <2>4, TesterStep
  <2>5. CASE UNCHANGED vars
    <3>1. ~overlapped
      BY <1>2, OverlapStays
    <3> QED
      BY <2>5, <3>1, StutterAlone DEF IInv
  <2> QED
    BY <2>1, <2>2, <2>3, <2>4, <2>5 DEF Next
<1> QED
  BY <1>1, <1>2 DEF IInv

\* For any number of test programs and any messages: the types are kept, the
\* module stays while its device is open, and until two writes overlap the
\* offset, the buffer and what every caller of the driver remembers of them
\* agree.
THEOREM DriverInvariant == Spec => []IInv
  BY DriverInit, DriverStep, PTL DEF Spec

\* What the invariant says of the buffer, in terms of sequences.
LEMMA HeldContents == IInv => HoldsAccepted
<1> SUFFICES ASSUME IInv, ~overlapped PROVE accepted = Contents /\ ~outside
  BY DEF HoldsAccepted
<1>1. TypeInv /\ Held
  BY DEF IInv, Alone
<1>2. Contents \in Seq(Cell) /\ Len(Contents) = m_offset
  BY <1>1, ContentsSeq, CharDriverAssumption DEF Held, TypeInv
<1>3. \A i \in 1 .. Len(accepted) : accepted[i] = Contents[i]
  BY <1>1, <1>2, ContentsSeq DEF Held
<1>4. accepted = Contents
  BY <1>1, <1>2, <1>3, SeqEqual DEF Held, TypeInv
<1> QED
  BY <1>1, <1>4 DEF Held

\* char_driver_write reports as written what the device then holds, in order,
\* and never reaches outside its buffer, until two writes overlap.
THEOREM AcceptedIsHeld == Spec => []HoldsAccepted
  BY DriverInvariant, HeldContents, PTL

\* What char_driver_read gives is a beginning of what was accepted, with all
\* that was accepted before the open, until two writes overlap.
THEOREM ReadsAreAccepted == Spec => []ReadsAccepted
<1>1. IInv => ReadsAccepted
  <2> SUFFICES ASSUME IInv, NEW t \in Testers,
                      at[t] \in {"count", "print"}, ~overlapped
               PROVE  /\ Len(buffer[t]) \in known[t] .. Len(accepted)
                      /\ buffer[t] = SubSeq(accepted, 1, Len(buffer[t]))
                      /\ at[t] = "print" =>
                            status[t] \in Len(buffer[t]) .. BUFFER_SIZE
    BY DEF ReadsAccepted
  <2> DEFINE n == Len(buffer[t])
  <2>1. Held /\ ReaderInv(t)
    BY DEF IInv, Alone
  <2>2. /\ buffer[t] \in Seq(Cell) /\ accepted \in Seq(Cell)
        /\ n \in Nat /\ known[t] \in Nat /\ status[t] \in Nat
        /\ m_offset \in Nat /\ BUFFER_SIZE \in Nat
    BY CharDriverAssumption DEF IInv, TypeInv
  <2>3. Len(accepted) = m_offset /\ m_offset <= BUFFER_SIZE
    BY <2>1 DEF Held
  <2>4. n \in known[t] .. m_offset
    BY <2>1 DEF ReaderInv
  <2>5. \A i \in 1 .. n : buffer[t][i] = accepted[i]
    BY <2>1 DEF ReaderInv
  <2>6. \A i \in 1 .. n : accepted[i] \in Cell
    BY <2>2, <2>3, <2>4
  <2>7. /\ SubSeq(accepted, 1, n) \in Seq(Cell)
        /\ Len(SubSeq(accepted, 1, n)) = n
        /\ \A i \in 1 .. n : SubSeq(accepted, 1, n)[i] = accepted[i]
    BY <2>2, <2>6, SubSeqProperties
  <2>8. buffer[t] = SubSeq(accepted, 1, n)
    BY <2>2, <2>5, <2>7, SeqEqual
  <2>9. at[t] = "print" => status[t] \in n .. BUFFER_SIZE
    BY <2>1, <2>2, <2>3 DEF ReaderInv
  <2> QED
    BY <2>3, <2>4, <2>8, <2>9
<1> QED
  BY <1>1, DriverInvariant, PTL

\* The store makes the log one message longer, cut where the buffer ends.
LEMMA StoreCuts ==
    ASSUME IInv, ~overlapped, NEW t \in Testers, WriteStore(t)
    PROVE  str[t] \in Messages /\ accepted' = AL!Cut(accepted \o str[t])
<1> DEFINE u == u_buffer_len[t]
           whole == accepted \o str[t]
           n == IF Len(whole) < BUFFER_SIZE THEN Len(whole) ELSE BUFFER_SIZE
<1>1. Alone /\ at[t] = "store"
  BY DEF IInv, WriteStore, Go
<1>2. str[t] \in Messages
  BY <1>1 DEF IInv, Opened, Writing
<1>3. /\ u \in Nat /\ u <= Len(str[t])
      /\ accepted' \in Seq(Cell)
      /\ Len(accepted') = m_offset + u
      /\ \A i \in 1 .. m_offset + u :
            accepted'[i] = IF i <= m_offset THEN accepted[i]
                                            ELSE str[t][i - m_offset]
  BY StoreAppends
<1>4. /\ Fits(t) /\ Len(accepted) = m_offset
      /\ m_offset \in Nat /\ BUFFER_SIZE \in Nat /\ Len(str[t]) \in Nat
      /\ str[t] \in Seq(Byte) /\ accepted \in Seq(Cell)
  BY <1>1, CharDriverAssumption DEF Alone, Held, WriterInv, IInv, TypeInv
<1>5. str[t] \in Seq(Cell)
  <2>1. \A i \in 1 .. Len(str[t]) : str[t][i] \in Cell
    BY <1>4 DEF Cell
  <2> QED
    BY <1>4, <2>1
<1>6. /\ whole \in Seq(Cell)
      /\ Len(whole) = Len(accepted) + Len(str[t])
      /\ \A i \in 1 .. Len(accepted) + Len(str[t]) :
            whole[i] = IF i <= Len(accepted) THEN accepted[i]
                                             ELSE str[t][i - Len(accepted)]
  BY <1>4, <1>5, ConcatProperties
<1>7. n = m_offset + u
  BY <1>3, <1>4, <1>6 DEF Fits
<1>8. AL!Cut(whole) = SubSeq(whole, 1, n)
  BY DEF AL!Cut
<1> HIDE DEF u, whole, n
<1>9. \A i \in 1 .. m_offset + u : accepted'[i] = whole[i] /\ whole[i] \in Cell
  BY <1>3, <1>4, <1>6 DEF u
<1>10. /\ SubSeq(whole, 1, n) \in Seq(Cell)
       /\ Len(SubSeq(whole, 1, n)) = m_offset + u
       /\ \A i \in 1 .. m_offset + u : SubSeq(whole, 1, n)[i] = whole[i]
  BY <1>3, <1>4, <1>7, <1>9, SubSeqProperties DEF u
<1>11. accepted' = SubSeq(whole, 1, n)
  BY <1>3, <1>9, <1>10, SeqEqual DEF u
<1> QED
  BY <1>2, <1>8, <1>11 DEF whole

\* A step of the driver is a step of the log: a store appends, loading and
\* removing the module clear it, and whatever else happens leaves it alone.
LEMMA LogStep ==
    ASSUME IInv, HoldsAccepted, HoldsAccepted', [Next]_vars
    PROVE  [AL!Next]_<<Contents, overlapped>>
<1>1. CASE overlapped'
  BY <1>1 DEF AL!Next, AL!Break
<1>2. CASE ~overlapped'
  <2>1. ~overlapped
    BY <1>2, OverlapStays
  <2>2. Contents = accepted /\ Contents' = accepted'
    BY <1>2, <2>1 DEF HoldsAccepted
  <2>3. CASE char_driver_init \/ char_driver_exit
    <3>1. accepted' = << >>
      BY <2>3 DEF char_driver_init, char_driver_exit
    <3> QED
      BY <1>2, <2>1, <2>2, <3>1 DEF AL!Next, AL!Clear
  <2>4. ASSUME NEW t \in Testers, WriteStore(t)
        PROVE  AL!Next
    BY <1>2, <2>1, <2>2, <2>4, StoreCuts DEF AL!Next, AL!Append1
  <2>5. CASE accepted' = accepted
    <3>1. overlapped \in BOOLEAN /\ overlapped' \in BOOLEAN
      BY TypeStep DEF IInv, TypeInv
    <3>2. overlapped = FALSE /\ overlapped' = FALSE
      BY <1>2, <2>1, <3>1
    <3> QED
      BY <2>2, <2>5, <3>2
  <2>6. ASSUME NEW t \in Testers,
               char_driver_read(t) \/ Tester(t) \/ WriteTest(t)
               \/ WriteCut(t) \/ WriteCopy(t) \/ WriteLoad(t)
        PROVE  accepted' = accepted
    BY <2>6 DEF char_driver_read, ReadCopy, ReadCount, Tester, read_buff,
       write_buff, Close, Quit, WriteTest, WriteCut, WriteCopy, WriteLoad,
       ghost
  <2>7. UNCHANGED vars => accepted' = accepted
    BY DEF vars, ghost
  <2> QED
    BY <2>3, <2>4, <2>5, <2>6, <2>7 DEF Next, char_driver_write
<1> QED
  BY <1>1, <1>2

\* The driver, its module loaded and removed and any number of test programs
\* calling it, implements the log of AppendLog, until two writes overlap.
THEOREM DriverIsALog == Spec => ImplementsLog
<1>1. Init => AL!Init
  <2> SUFFICES ASSUME Init PROVE AL!Init
    OBVIOUS
  <2>1. IInv
    BY DriverInit
  <2>2. ~overlapped /\ accepted = << >>
    BY DEF Init
  <2>3. Contents = << >>
    BY <2>1, <2>2, HeldContents DEF HoldsAccepted
  <2> QED
    BY <2>2, <2>3 DEF AL!Init
<1>2. IInv /\ HoldsAccepted /\ HoldsAccepted' /\ [Next]_vars
          => [AL!Next]_<<Contents, overlapped>>
  BY LogStep
<1> QED
  BY <1>1, <1>2, DriverInvariant, AcceptedIsHeld, PTL
     DEF Spec, ImplementsLog, AL!Spec
=============================================================================
