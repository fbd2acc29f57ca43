------------------------------ MODULE Pipeline ------------------------------
(***************************************************************************)
(* What a Chain promises to its workers: the blocks the first worker emits *)
(* reach every later worker, each exactly once and in the order they were  *)
(* emitted, and a run ends only after the last worker has had them all.    *)
(***************************************************************************)
EXTENDS Naturals

CONSTANTS MaxWorkers,  \* positions 1 .. MaxWorkers may be filled
          MaxRuns      \* how often the chain is used

Positions == 1 .. MaxWorkers + 1
Last == MaxWorkers + 1   \* the worker that closes the loop

VARIABLES runs,        \* runs begun
          open,        \* a run is under way
          workers,     \* workers added in this run
          delivered    \* position -> blocks it has had (emitted, for the first)

vars == <<runs, open, workers, delivered>>

Upstream(t) == IF t = Last THEN workers ELSE t - 1

Init ==
  /\ runs = 0
  /\ open = FALSE
  /\ workers = 0
  /\ delivered = [t \in Positions |-> 0]

Begin ==
  /\ ~open
  /\ runs < MaxRuns
  /\ runs' = runs + 1
  /\ open' = TRUE
  /\ workers' = 1
  /\ delivered' = [t \in Positions |-> 0]

Join ==
  /\ open
  /\ workers < MaxWorkers
  /\ workers' = workers + 1
  /\ UNCHANGED <<runs, open, delivered>>

Emit ==
  /\ open
  /\ delivered' = [delivered EXCEPT ![1] = @ + 1]
  /\ UNCHANGED <<runs, open, workers>>

Deliver(t) ==
  /\ open
  /\ delivered[t] < delivered[Upstream(t)]
  /\ delivered' = [delivered EXCEPT ![t] = @ + 1]
  /\ UNCHANGED <<runs, open, workers>>

\* Waiting for the run returns only when nothing is left on the way.
End ==
  /\ open
  /\ \A t \in 2 .. workers : delivered[t] = delivered[1]
  /\ delivered[Last] = delivered[1]
  /\ open' = FALSE
  /\ workers' = 0
  /\ UNCHANGED <<runs, delivered>>

Next ==
  \/ Begin \/ Join \/ Emit \/ End
  \/ \E t \in (2 .. workers) \cup {Last} : Deliver(t)

Spec == Init /\ [][Next]_vars
=============================================================================
