------------------------- MODULE MCProbingHashTable -------------------------
(***************************************************************************)
(* Instances of ProbingHashTable for TLC.  Keys are numbers; up to their   *)
(* names, every hash function is one that does not decrease.  Its values   *)
(* are chosen to differ before and after the table doubles: 2 and 5, 0 and *)
(* 3 ... share a bucket of the small table, not of the large one.          *)
(***************************************************************************)
EXTENDS ProbingHashTable

Increasing(Values) ==
  {h \in [Keys -> Values] : \A j, k \in Keys : j < k => h[j] <= h[k]}
SmallHashes == Increasing({0, 2, 3, 5})
=============================================================================
