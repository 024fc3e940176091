----------------------------- MODULE MCScanner -----------------------------
(* The texts of the run of Scanner. *)
EXTENDS Scanner

LOCAL Few  == {"\n", "f", "n", "1", ".", "'", "#", "-", ">"}
LOCAL Many == Few \union {" ", "i", "=", "&", "@"}

LOCAL Samples == {
  <<"r", "e", "t", "u", "r", "n", " ", "f", "o", "r", "_", "1", "(", "x", ")", ";">>,
  <<"1", "2", ".", "5", ".", "6", "7", ".", ".", "8", ".", ".", ".", ".", "9">>,
  <<"#", " ", "'", "\n", "'", "#", "\n", "'", "'", "'", "I", "n", "t", ":", "=", "=">>,
  <<"a", "&", "&", "&", "|", "|", "|", "!", "=", "=", "<", "=", "/", "/", "/", "\t">>}

MCTexts == UNION {[1 .. n -> Many] : n \in 0 .. 3} \union [1 .. 4 -> Few] \union Samples
=============================================================================
