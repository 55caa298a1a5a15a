----------------------------- MODULE Rendezvous -----------------------------
(***************************************************************************)
(* What question 4 of problem set 3 asks for: whales of three kinds        *)
(* arrive; a calf is born only of three whales that have arrived and have  *)
(* not been at a birth before; nobody returns without a calf.              *)
(***************************************************************************)
EXTENDS Naturals

CONSTANT Kind

VARIABLES
    arrived,   \* arrived[k]: how many of kind k have come
    births,
    returned   \* returned[k]: how many of kind k have gone again

Init == /\ arrived = [k \in Kind |-> 0]
        /\ births = 0
        /\ returned = [k \in Kind |-> 0]

Arrive(k) == /\ arrived' = [arrived EXCEPT ![k] = @ + 1]
             /\ UNCHANGED <<births, returned>>

Birth == /\ \A k \in Kind : births < arrived[k]
         /\ births' = births + 1
         /\ UNCHANGED <<arrived, returned>>

Return(k) == /\ returned[k] < births
             /\ returned' = [returned EXCEPT ![k] = @ + 1]
             /\ UNCHANGED <<arrived, births>>

Next == Birth \/ \E k \in Kind : Arrive(k) \/ Return(k)

Spec == Init /\ [][Next]_<<arrived, births, returned>>
=============================================================================
