--------------------------- MODULE MCMultiLookup ---------------------------
(***************************************************************************)
(* Finite instances of MultiLookup.                                        *)
(***************************************************************************)
EXTENDS MultiLookup

\* Three names in two files, for two request threads that compete for the
\* two slots of the queue.
TwoAndOne == [i \in 1 .. 2 |-> IF i = 1 THEN 2 ELSE 1]
=============================================================================
