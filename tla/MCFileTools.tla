----------------------------- MODULE MCFileTools -----------------------------
(***************************************************************************)
(* Two clients, two names, one request of others.  The file has up to      *)
(* three cells for freads of two, in the clear, encrypted with k1, or cut  *)
(* short; the tool is given k1 or k2.                                      *)
(***************************************************************************)
EXTENDS FileTools

CONSTANTS c1, c2, a, b, k1, k2

MCClient == {c1, c2}
MCHolder == MCClient \cup {"in", "out"}
MCCell   == {Clear(a)}
With(v, k) == [v |-> v, key |-> k]
MCInitialData == {<<>>, <<Clear(a)>>, <<Clear(a), Clear(b), Clear(a)>>,
                  <<With(a, k1), With(b, k1), With(Padding, k1)>>,
                  <<With(a, k1), With(b, k1)>>, <<With(Padding, k1)>>}
MCInitialAttr == {<<>>, <<Clear(a)>>}
=============================================================================
