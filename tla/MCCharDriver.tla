---------------------------- MODULE MCCharDriver ----------------------------
(***************************************************************************)
(* Two test programs, as many as it takes for calls to overlap, messages   *)
(* of one and two bytes and a buffer of four: a write fits exactly or with *)
(* room, is cut in the middle, or finds the buffer full.                   *)
(***************************************************************************)
EXTENDS CharDriver, TLC

CONSTANTS t1, t2, a, b, c

MCTesters  == {t1, t2}
MCByte     == {a, b, c}
MCMessages == {<<a>>, <<b, c>>}
Symmetric  == Permutations(MCTesters)
=============================================================================
