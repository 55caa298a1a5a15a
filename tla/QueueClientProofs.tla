-------------------------- MODULE QueueClientProofs --------------------------
(***************************************************************************)
(* Proofs of the promises of queue.h, for a ring of any size, any payloads *)
(* and any legal sequence of calls.                                        *)
(***************************************************************************)
EXTENDS QueueClient, QueueProofs

N == SizeFor(RequestedSize)

\* The ring keeps its shape and, until it is torn down, what was accepted is
\* what was returned followed by what waits in the ring.
IInv == /\ TypeOK
        /\ RingShape(q)
        /\ live => accepted = returned \o Contents(q)

\* A queue has at least one slot, whatever size is asked for.
LEMMA SizeIsPositive ==
    /\ N \in Nat \ {0}
    /\ queue_init(RequestedSize) = queue_init(N)
  BY QueueClientAssumption DEF N, SizeFor, QUEUEMAXSIZE, queue_init

\* A fresh queue is well formed and has no contents.
LEMMA FreshQueue ==
    LET r == queue_init(RequestedSize)
    IN r \in QueueType(Payload, N) /\ RingShape(r) /\ Contents(r) = << >>
<1> DEFINE r == queue_init(RequestedSize)
<1>1. r \in QueueType(Payload, N) /\ queue_is_empty(r) /\ RingShape(r)
  BY SizeIsPositive, InitType, InitShape
<1> HIDE DEF r
<1>2. Contents(r) \in Seq(Payload) /\ Len(Contents(r)) = 0
  BY <1>1, SizeIsPositive, QueueClientAssumption, ContentsOf, ContentsType
<1> QED
  BY <1>1, <1>2 DEF r

\* queue_cleanup leaves a ring without contents.
LEMMA CleanQueue ==
    ASSUME TypeOK, Cleanup
    PROVE  /\ q' \in QueueType(Payload, N) /\ RingShape(q')
           /\ Contents(q') = << >>
<1>1. /\ q \in QueueType(Payload, N)
      /\ q' = [q EXCEPT !.front = q.rear,
                        !.array = [i \in DOMAIN q.array |-> NULL]]
  BY DEF TypeOK, Cleanup, N
<1>2. /\ q'.front = q.rear /\ q'.rear = q.rear /\ q'.maxSize = N
      /\ q'.array = [i \in 0 .. N - 1 |-> NULL]
      /\ q'.rear \in 0 .. N - 1
  BY <1>1 DEF QueueType
<1>3. q' \in QueueType(Payload, N)
  BY <1>1, <1>2 DEF QueueType
<1>4. queue_is_empty(q') /\ RingShape(q')
  BY <1>2 DEF queue_is_empty, RingShape
<1>5. Contents(q') \in Seq(Payload) /\ Len(Contents(q')) = 0
  BY <1>3, <1>4, SizeIsPositive, QueueClientAssumption, ContentsOf,
     ContentsType
<1> QED
  BY <1>3, <1>4, <1>5

\* The contents of the ring are a sequence of payloads.
LEMMA Waiting ==
    ASSUME TypeOK, RingShape(q)
    PROVE  Contents(q) \in Seq(Payload) /\ Len(Contents(q)) = Size(q)
  BY ContentsType, SizeIsPositive, QueueClientAssumption DEF TypeOK, N

\* The invariant holds at first.
LEMMA ClientInit == Init => IInv
<1> SUFFICES ASSUME Init PROVE IInv
  OBVIOUS
<1>1. /\ q \in QueueType(Payload, N) /\ RingShape(q) /\ Contents(q) = << >>
      /\ accepted = << >> /\ returned = << >> /\ live = TRUE
  BY FreshQueue DEF Init
<1> QED
  BY <1>1 DEF IInv, TypeOK, N

\* Every call keeps the invariant.
LEMMA ClientStep == IInv /\ [Next]_vars => IInv'
<1> SUFFICES ASSUME IInv, [Next]_vars PROVE IInv'
  OBVIOUS
<1> DEFINE c == Contents(q)
<1>1. /\ q \in QueueType(Payload, N) /\ RingShape(q)
      /\ live \in BOOLEAN
      /\ accepted \in Seq(Payload) /\ returned \in Seq(Payload)
      /\ c \in Seq(Payload)
  BY Waiting DEF IInv, TypeOK, N
<1>2. ASSUME NEW p \in Payload, Push(p) PROVE IInv'
  <2>1. CASE queue_is_full(q)
    <3>1. q' = q /\ UNCHANGED <<live, accepted, returned>>
      BY <1>2, <2>1 DEF Push, queue_push, PushStatus, QUEUE_SUCCESS,
                        QUEUE_FAILURE
    <3> QED
      BY <3>1 DEF IInv, TypeOK
  <2>2. CASE ~queue_is_full(q)
    <3>1. /\ q' = queue_push(q, p) /\ accepted' = Append(accepted, p)
          /\ live /\ UNCHANGED <<live, returned>>
      BY <1>2, <2>2 DEF Push, PushStatus, QUEUE_SUCCESS
    <3>2. q' \in QueueType(Payload, N) /\ RingShape(q')
      BY <1>1, <3>1, PushType, PushShape, SizeIsPositive,
         QueueClientAssumption
    <3>3. Contents(queue_push(q, p)) = Append(c, p)
      BY <1>1, <2>2, PushContents, SizeIsPositive, QueueClientAssumption
    <3>4. accepted = returned \o c
      BY <3>1 DEF IInv
    <3> HIDE DEF c
    <3>5. Append(returned \o c, p) = returned \o Append(c, p)
      BY <1>1, SMTT(60)
    <3>6. accepted' = returned' \o Contents(q')
      BY <3>1, <3>3, <3>4, <3>5
    <3>7. accepted' \in Seq(Payload) /\ returned' \in Seq(Payload)
      BY <1>1, <3>1
    <3> QED
      BY <1>1, <3>1, <3>2, <3>6, <3>7 DEF IInv, TypeOK, N
  <2> QED
    BY <2>1, <2>2
<1>3. ASSUME Pop PROVE IInv'
  <2>1. CASE queue_is_empty(q)
    <3>1. q' = q /\ UNCHANGED <<live, accepted, returned>>
      BY <1>3, <2>1 DEF Pop, queue_pop, Popped
    <3> QED
      BY <3>1 DEF IInv, TypeOK
  <2>2. CASE ~queue_is_empty(q)
    <3>1. /\ q' \in QueueType(Payload, N) /\ RingShape(q')
          /\ Popped(q) # NULL /\ Popped(q) \in Payload
      BY <1>1, <1>3, <2>2, PopType, PopShape, SizeIsPositive,
         QueueClientAssumption DEF Pop
    <3>2. /\ c # << >> /\ Popped(q) = Head(c)
          /\ Contents(queue_pop(q)) = Tail(c)
      BY <1>1, <2>2, PopContents, SizeIsPositive, QueueClientAssumption
    <3>3. /\ returned' = Append(returned, Popped(q)) /\ q' = queue_pop(q)
          /\ live /\ UNCHANGED <<live, accepted>>
      BY <1>3, <3>1 DEF Pop
    <3>4. accepted = returned \o c
      BY <3>3 DEF IInv
    <3> HIDE DEF c
    <3>5. returned \o c = Append(returned, Head(c)) \o Tail(c)
      BY <1>1, <3>2
    <3>6. accepted' = returned' \o Contents(q')
      BY <3>2, <3>3, <3>4, <3>5
    <3>7. accepted' \in Seq(Payload) /\ returned' \in Seq(Payload)
      BY <1>1, <3>1, <3>3
    <3> QED
      BY <1>1, <3>1, <3>3, <3>6, <3>7 DEF IInv, TypeOK, N
  <2> QED
    BY <2>1, <2>2
<1>4. ASSUME Cleanup PROVE IInv'
  BY <1>1, <1>4, CleanQueue DEF Cleanup, IInv, TypeOK, N
<1>5. ASSUME Reinit PROVE IInv'
  BY <1>1, <1>5, FreshQueue DEF Reinit, IInv, TypeOK, N
<1>6. CASE UNCHANGED vars
  BY <1>6 DEF vars, IInv, TypeOK
<1> QED
  BY <1>2, <1>3, <1>4, <1>5, <1>6 DEF Next

\* The invariant holds throughout.
THEOREM ClientInvariant == Spec => []IInv
  BY ClientInit, ClientStep, PTL DEF Spec

\* Payloads are returned in the order in which they were accepted, none lost
\* and none twice (queue_push and queue_pop).
THEOREM Fifo_Order == Spec => []FirstInFirstOut
<1>1. IInv => FirstInFirstOut
  BY DEF IInv, FirstInFirstOut
<1> QED
  BY <1>1, ClientInvariant, PTL

\* A push is refused when, and only when, maxSize payloads wait, and a pop
\* gives NULL when, and only when, none does.
THEOREM ExactRefusals == Spec => []RefusalsAreExact
<1>1. IInv => RefusalsAreExact
  <2> SUFFICES ASSUME IInv, live PROVE RefusalsAreExact
    BY DEF RefusalsAreExact
  <2>1. /\ q \in QueueType(Payload, N) /\ RingShape(q)
        /\ accepted \in Seq(Payload) /\ returned \in Seq(Payload)
        /\ accepted = returned \o Contents(q)
        /\ q.maxSize = N
        /\ q.front \in 0 .. N - 1 /\ q.rear \in 0 .. N - 1
    BY DEF IInv, TypeOK, N, QueueType
  <2>2. Contents(q) \in Seq(Payload) /\ Len(Contents(q)) = Size(q)
    BY Waiting DEF IInv
  <2>3. Len(accepted) - Len(returned) = Size(q)
    BY <2>1, <2>2
  <2>4. /\ queue_is_full(q) => Size(q) = N
        /\ queue_is_empty(q) => Size(q) = 0
        /\ ~queue_is_full(q) =>
              Size(q) = IF q.front <= q.rear THEN q.rear - q.front
                                             ELSE q.rear - q.front + N
    BY <2>1, ContentsOf, SizeIsPositive
  <2>5. queue_is_full(q) <=> Size(q) = N
    BY <2>1, <2>4, SizeIsPositive
  <2>6. queue_is_empty(q) <=> Size(q) = 0
    BY <2>1, <2>4, SizeIsPositive DEF queue_is_full, queue_is_empty
  <2>7. Popped(q) = NULL <=> queue_is_empty(q)
    BY <2>1, PopShape, SizeIsPositive, QueueClientAssumption DEF Popped
  <2> QED
    BY <2>1, <2>3, <2>5, <2>6, <2>7
       DEF RefusalsAreExact, PushStatus, QUEUE_SUCCESS, QUEUE_FAILURE
<1> QED
  BY <1>1, ClientInvariant, PTL

\* The ring implements the bounded first-in first-out buffer.
THEOREM ClientRefinement == Spec => ImplementsFifo
<1>1. Init => Fifo!Init
  BY FreshQueue DEF Init, Fifo!Init
<1>2. IInv /\ [Next]_vars => [Fifo!Next \/ Fifo!Discard]_(Contents(q))
  <2> SUFFICES ASSUME IInv, [Next]_vars
               PROVE  [Fifo!Next \/ Fifo!Discard]_(Contents(q))
    OBVIOUS
  <2>1. q \in QueueType(Payload, N) /\ RingShape(q)
    BY DEF IInv, TypeOK, N
  <2>2. ASSUME NEW p \in Payload, Push(p)
        PROVE  Fifo!Next \/ Contents(q)' = Contents(q)
    <3>1. CASE queue_is_full(q)
      BY <2>2, <3>1 DEF Push, queue_push
    <3>2. CASE ~queue_is_full(q)
      <4>1. /\ Contents(queue_push(q, p)) = Append(Contents(q), p)
            /\ Len(Contents(q)) < N
        BY <2>1, <3>2, PushContents, SizeIsPositive, QueueClientAssumption
      <4> QED
        BY <2>2, <4>1 DEF Push, Fifo!Next, Fifo!Put, N
    <3> QED
      BY <3>1, <3>2
  <2>3. ASSUME Pop
        PROVE  Fifo!Next \/ Contents(q)' = Contents(q)
    <3>1. CASE queue_is_empty(q)
      BY <2>3, <3>1 DEF Pop, queue_pop
    <3>2. CASE ~queue_is_empty(q)
      <4>1. /\ Contents(q) # << >>
            /\ Contents(queue_pop(q)) = Tail(Contents(q))
        BY <2>1, <3>2, PopContents, SizeIsPositive, QueueClientAssumption
      <4> QED
        BY <2>3, <4>1 DEF Pop, Fifo!Next, Fifo!Get
    <3> QED
      BY <3>1, <3>2
  <2>4. ASSUME Cleanup PROVE Fifo!Discard
    BY <2>4, CleanQueue DEF IInv, Fifo!Discard
  <2>5. ASSUME Reinit PROVE Fifo!Discard
    BY <2>5, FreshQueue DEF Reinit, Fifo!Discard
  <2>6. CASE UNCHANGED vars
    BY <2>6 DEF vars
  <2> QED
    BY <2>2, <2>3, <2>4, <2>5, <2>6 DEF Next
<1> QED
  BY <1>1, <1>2, ClientInvariant, PTL
     DEF Spec, ImplementsFifo, Fifo!SpecWithDiscard
=============================================================================
