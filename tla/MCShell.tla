------------------------------- MODULE MCShell -------------------------------
(***************************************************************************)
(* A history of two commands, up to four lines: simple commands, one with  *)
(* an argument, one in the background, with and without a blank before     *)
(* the "&", one that fills the buffer, and every use of the history.       *)
(***************************************************************************)
EXTENDS Shell

MCLines == {<<"a", NL>>, <<"a", " ", "b", NL>>, <<"a", " ", "&", NL>>,
            <<"a", "&", NL>>, <<"a", " ", "b", " ", "c", NL>>,
            <<"!", "!", NL>>, <<"!", "0", NL>>, <<"!", "1", NL>>,
            <<"!", "0", "1", NL>>, <<"!", "1", "0", NL>>, <<"!", "a", NL>>,
            <<"history", NL>>, <<"exit", NL>>, <<NL>>}

MCGarbage == {<<NUL, NUL, NUL, NUL, NUL, NUL>>, <<NL, NL, "&", NUL, NUL, NUL>>,
              <<"a", "a", "a", "a", "a", "a">>}
=============================================================================
