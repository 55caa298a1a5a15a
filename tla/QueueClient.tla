----------------------------- MODULE QueueClient -----------------------------
(***************************************************************************)
(* One thread that calls the functions of queue.c in any order it may:     *)
(* queue_init, then pushes and pops (successful or refused), then          *)
(* queue_cleanup, after which only queue_init is legal again.              *)
(*                                                                         *)
(* `accepted` and `returned` are history variables: the payloads whose     *)
(* push succeeded and those that pops gave back, since the last            *)
(* queue_init.                                                             *)
(***************************************************************************)
EXTENDS Queue

CONSTANTS Payload,     \* what the caller puts in the queue, never NULL
          RequestedSize, \* the argument of queue_init
          MaxPushes    \* bound on the successful pushes between two queue_init

ASSUME QueueClientAssumption ==
    /\ NULL \notin Payload
    /\ RequestedSize \in Int
    /\ MaxPushes \in Nat

VARIABLES q,         \* the queue structure
          live,      \* between queue_init and queue_cleanup
          accepted,
          returned

vars == <<q, live, accepted, returned>>

TypeOK == /\ q \in QueueType(Payload, SizeFor(RequestedSize))
          /\ live \in BOOLEAN
          /\ accepted \in Seq(Payload)
          /\ returned \in Seq(Payload)

Init == /\ q = queue_init(RequestedSize)
        /\ live = TRUE
        /\ accepted = << >>
        /\ returned = << >>

\* queue_push(&q, payload): a refused push changes nothing.
Push(payload) ==
    /\ live
    /\ Len(accepted) < MaxPushes
    /\ q' = queue_push(q, payload)
    /\ accepted' = IF PushStatus(q) = QUEUE_SUCCESS
                   THEN Append(accepted, payload)
                   ELSE accepted
    /\ UNCHANGED <<live, returned>>

\* queue_pop(&q): NULL from an empty queue.
Pop ==
    /\ live
    /\ q' = queue_pop(q)
    /\ returned' = IF Popped(q) = NULL THEN returned
                                       ELSE Append(returned, Popped(q))
    /\ UNCHANGED <<live, accepted>>

\* queue_cleanup(&q): pops until the ring is empty, then frees the slots.
Cleanup ==
    /\ live
    /\ live' = FALSE
    /\ q' = [q EXCEPT !.front = q.rear,
                      !.array = [i \in DOMAIN q.array |-> NULL]]
    /\ UNCHANGED <<accepted, returned>>

\* queue_init(&q, RequestedSize) on a queue that was cleaned up.
Reinit ==
    /\ ~live
    /\ live' = TRUE
    /\ q' = queue_init(RequestedSize)
    /\ accepted' = << >>
    /\ returned' = << >>

Next == (\E payload \in Payload : Push(payload)) \/ Pop \/ Cleanup \/ Reinit

Spec == Init /\ [][Next]_vars

(***************************************************************************)
(* Properties                                                              *)
(***************************************************************************)

\* The payloads come back in the order they were accepted, none lost and
\* none twice, whatever the position of the ring: what queue.h means by
\* "return element from queue in FIFO order".
FirstInFirstOut == live => accepted = returned \o Contents(q)

\* A push is refused exactly when maxSize payloads are waiting, and a pop
\* gives NULL exactly when none is (queue.h on QUEUE_FAILURE and on NULL).
RefusalsAreExact ==
    live => LET waiting == Len(accepted) - Len(returned)
            IN /\ (PushStatus(q) = QUEUE_FAILURE) <=> (waiting = q.maxSize)
               /\ (Popped(q) = NULL) <=> (waiting = 0)

\* The ring implements the bounded first-in first-out buffer: every call
\* puts, gets or discards at the abstract buffer, or leaves it unchanged.
Fifo == INSTANCE BoundedFifo WITH Values <- Payload,
                                  Capacity <- SizeFor(RequestedSize),
                                  buffer <- Contents(q)

ImplementsFifo == Fifo!SpecWithDiscard
=============================================================================
