----------------------------- MODULE BoundedFifo -----------------------------
(***************************************************************************)
(* What a bounded first-in first-out buffer promises to its users: at most *)
(* Capacity values, delivered in the order in which they were accepted.    *)
(* The ring buffer of prog_assign/assignment-3/submit/queue.c and the      *)
(* hostname queue shared by the threads of multi-lookup.c both implement   *)
(* this specification.                                                     *)
(***************************************************************************)
EXTENDS Integers, Sequences

CONSTANTS Values,    \* what can be put in the buffer
          Capacity   \* the largest number of values it holds

VARIABLE buffer

Put(v) == /\ Len(buffer) < Capacity
          /\ buffer' = Append(buffer, v)

Get == /\ buffer # << >>
       /\ buffer' = Tail(buffer)

\* Everything is discarded at once: the buffer is torn down.
Discard == buffer' = << >>

Init == buffer = << >>

Next == (\E v \in Values : Put(v)) \/ Get

\* A buffer that is only put to and got from.
Spec == Init /\ [][Next]_buffer

\* A buffer that its owner may also tear down.
SpecWithDiscard == Init /\ [][Next \/ Discard]_buffer
=============================================================================
