----------------------------- MODULE MCStringsPool -----------------------------
(***************************************************************************)
(* Five texts, the empty one among them, with hashes that collide in the    *)
(* home, in the tag, in both, and that wrap round the end of the table.     *)
(***************************************************************************)
EXTENDS StringsPool

MCTexts == {<<>>, <<1>>, <<2>>, <<1, 2>>, <<3>>}

\* Homes among four slots: 3, 3, 3, 0, 2.  Tags: 1, 1, 3, 1, 3.
MCHash == [t \in Texts |->
  CASE t = <<>>     -> 3
    [] t = <<1>>    -> 7
    [] t = <<2>>    -> 19
    [] t = <<1, 2>> -> 8
    [] OTHER        -> 18]
=============================================================================
