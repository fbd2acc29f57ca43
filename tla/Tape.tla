-------------------------------- MODULE Tape --------------------------------
(***************************************************************************)
(* What a RewindableStream promises: a cursor over numbered records that   *)
(* can go back to a mark, and a front of records sent on that never passes *)
(* the mark, and that ends exactly at the cursor when the tape is closed.  *)
(***************************************************************************)
EXTENDS Naturals

CONSTANT None  \* no mark has been set

VARIABLES pos, mark, sent, closed
vars == <<pos, mark, sent, closed>>

Init == pos = 0 /\ mark = None /\ sent = 0 /\ closed = FALSE


\* While the cursor stays or moves on, finished records may be sent.
Forward ==
  /\ ~closed
  /\ pos' \in {pos, pos + 1}
  /\ sent' \in sent .. (IF mark = None THEN pos' ELSE mark)
  /\ UNCHANGED <<mark, closed>>

Mark ==
  /\ ~closed
  /\ mark' = pos
  /\ sent' \in sent .. pos
  /\ UNCHANGED <<pos, closed>>

Rewind ==
  /\ ~closed
  /\ mark # None
  /\ pos' = mark
  /\ UNCHANGED <<mark, sent, closed>>

Close ==
  /\ ~closed
  /\ closed' = TRUE
  /\ mark' = None
  /\ sent' = pos
  /\ UNCHANGED pos

Next == Forward \/ Mark \/ Rewind \/ Close

Spec == Init /\ [][Next]_vars
=============================================================================
