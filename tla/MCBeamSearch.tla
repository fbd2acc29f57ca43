---------------------------- MODULE MCBeamSearch ----------------------------
(***************************************************************************)
(* Instances of BeamSearch for TLC.  Sentences of up to three tokens, with *)
(* words of one and of two pieces; beams so small that they are cut, with  *)
(* stacks so small that they fill, and beams that hold everything.  Paths  *)
(* can end before the sentence, in the second search, too.                 *)
(***************************************************************************)
EXTENDS ParseTrees

Sizes(b, w, s) == [beam |-> b, word_beam |-> w, shift |-> s, particles |-> 0]
Particles(K) == [beam |-> MoreRows, word_beam |-> 0, shift |-> 0, particles |-> K]

ShiftFirst == <<"SHIFT", "REDUCE", "S", "X", "FINISH">>
OpenFirst == <<"S", "REDUCE", "SHIFT", "X", "FINISH">>
CloseFirst == <<"REDUCE", "X", "SHIFT", "S", "FINISH">>
Pairs ==
  {<<ShiftFirst, ShiftFirst>>, <<ShiftFirst, OpenFirst>>, <<OpenFirst, CloseFirst>>}

Short == {<<TRUE>>, <<TRUE, TRUE>>, <<FALSE, TRUE>>}
Long == {<<TRUE, TRUE, TRUE>>, <<FALSE, TRUE, TRUE>>, <<TRUE, FALSE, TRUE>>}

SmallCases ==
  [in_order : BOOLEAN, ends : Short \cup Long, prefer : Pairs,
   sizes : {Sizes(1, 1, 0), Sizes(2, 1, 1), Sizes(3, 0, 1)}, bound : {-1, 2, 4}]
  \cup [in_order : BOOLEAN, ends : Short, prefer : {<<ShiftFirst, ShiftFirst>>},
        sizes : {Sizes(Everything, Everything, 0)}, bound : {-1}]
  \cup [in_order : BOOLEAN, ends : Short \cup Long, prefer : Pairs,
        sizes : {Particles(1), Particles(3), Particles(7)}, bound : {-1, 2}]
=============================================================================
