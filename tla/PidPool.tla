------------------------------ MODULE PidPool -------------------------------
(***************************************************************************)
(* What a pid manager promises: it hands out pids that nobody holds, takes *)
(* them back, and refuses only when all are held.  `answer' is what the    *)
(* last request was answered with.                                         *)
(***************************************************************************)
CONSTANTS Pids, NONE

VARIABLES held, answer

Init == held = {} /\ answer \in Pids \cup {NONE}

Allocate == \E p \in Pids \ held : held' = held \cup {p} /\ answer' = p

Refuse == held = Pids /\ answer' = NONE /\ UNCHANGED held

Release == \E p \in held : held' = held \ {p} /\ UNCHANGED answer

Next == Allocate \/ Refuse \/ Release

Spec == Init /\ [][Next]_<<held, answer>>
=============================================================================
