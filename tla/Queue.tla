-------------------------------- MODULE Queue --------------------------------
(***************************************************************************)
(* The ring buffer of prog_assign/assignment-3/submit/queue.c, as pure     *)
(* operators on the value of a `queue` structure.  A slot whose payload is *)
(* NULL is free; front = rear is both the empty and the full ring, and the *)
(* payload under front tells them apart.                                   *)
(*                                                                         *)
(* A function of queue.c that changes the structure and returns a value is *)
(* two operators here: the new structure, and the value returned.          *)
(***************************************************************************)
EXTENDS Integers, Sequences

CONSTANT NULL

QUEUEMAXSIZE  == 50
QUEUE_FAILURE == -1
QUEUE_SUCCESS == 0

\* The size a caller of queue_init gets for the size it asks for.
SizeFor(size) == IF size > 0 THEN size ELSE QUEUEMAXSIZE

\* A queue structure over Payload whose ring has n slots.
QueueType(Payload, n) ==
    [array : [0 .. n - 1 -> Payload \cup {NULL}],
     front : 0 .. n - 1, rear : 0 .. n - 1, maxSize : {n}]

queue_init(size) ==
    [array   |-> [i \in 0 .. SizeFor(size) - 1 |-> NULL],
     front   |-> 0,
     rear    |-> 0,
     maxSize |-> SizeFor(size)]

\* Mistake: the ring is declared full one payload early, the usual test of
\* rings that keep a slot free.
IsFullOneEarly(q) == (q.rear + 1) % q.maxSize = q.front

\* Mistake: a pop that leaves its payload in the slot.
PopKeepingPayload(q) ==
    IF q.front = q.rear /\ q.array[q.front] = NULL
    THEN q
    ELSE [q EXCEPT !.front = (q.front + 1) % q.maxSize]

\* Mistake: a push that does not ask whether the ring is full.
PushUnchecked(q, payload) ==
    [q EXCEPT !.array[q.rear] = payload,
              !.rear = (q.rear + 1) % q.maxSize]

queue_is_empty(q) == q.front = q.rear /\ q.array[q.front] = NULL

queue_is_full(q) == q.front = q.rear /\ q.array[q.front] # NULL

\* queue_pop: the payload returned, and the ring it leaves.
Popped(q) == IF queue_is_empty(q) THEN NULL ELSE q.array[q.front]

queue_pop(q) ==
    IF queue_is_empty(q)
    THEN q
    ELSE [q EXCEPT !.array[q.front] = NULL,
                   !.front = (q.front + 1) % q.maxSize]

\* queue_push: the status returned, and the ring it leaves.
PushStatus(q) == IF queue_is_full(q) THEN QUEUE_FAILURE ELSE QUEUE_SUCCESS

queue_push(q, payload) ==
    IF queue_is_full(q)
    THEN q
    ELSE [q EXCEPT !.array[q.rear] = payload,
                   !.rear = (q.rear + 1) % q.maxSize]

(***************************************************************************)
(* The abstract value of a ring: its payloads from front to rear.          *)
(***************************************************************************)
Distance(q) == (q.rear - q.front) % q.maxSize

Size(q) == IF queue_is_full(q) THEN q.maxSize ELSE Distance(q)

Contents(q) == [k \in 1 .. Size(q) |-> q.array[(q.front + k - 1) % q.maxSize]]

(***************************************************************************)
(* The shape of a ring that only queue_push and queue_pop have changed:    *)
(* its payloads are exactly in the slots from front up to rear.            *)
(***************************************************************************)
InUse(q, s) == IF q.front < q.rear THEN q.front <= s /\ s < q.rear
                                   ELSE q.front <= s \/ s < q.rear

RingShape(q) ==
    IF q.front = q.rear
    THEN \/ \A s \in DOMAIN q.array : q.array[s] = NULL
         \/ \A s \in DOMAIN q.array : q.array[s] # NULL
    ELSE \A s \in DOMAIN q.array : q.array[s] # NULL <=> InUse(q, s)
=============================================================================
