------------------------------ MODULE AppendLog ------------------------------
(***************************************************************************)
(* What a character device that collects text promises: a log of at most   *)
(* Room bytes.  A message is appended whole, or as much of it as there is  *)
(* room for; nothing is taken back but by clearing everything.  The        *)
(* promise ends when the device says that it is broken.                    *)
(*                                                                         *)
(* That a message which does not fit is cut, and not refused, is what the  *)
(* code of char_driver_write does; the comment at char_module.c:61 says    *)
(* that its result is negative when the buffer overflows.                  *)
(***************************************************************************)
EXTENDS Integers, Sequences

CONSTANTS Messages, Room

VARIABLES log, broken

Cut(s) == SubSeq(s, 1, IF Len(s) < Room THEN Len(s) ELSE Room)

Init == log = <<>> /\ ~broken

Append1(m) == ~broken /\ ~broken' /\ log' = Cut(log \o m)
Clear      == ~broken /\ ~broken' /\ log' = <<>>
Break      == broken'

Next == (\E m \in Messages : Append1(m)) \/ Clear \/ Break

Spec == Init /\ [][Next]_<<log, broken>>
=============================================================================
