---------------------------- MODULE BlockingFifo ----------------------------
(***************************************************************************)
(* What a producer/consumer queue promises to the threads that share it:   *)
(* a bounded FIFO on which every call takes effect at one instant between  *)
(* its start and its return, and on which a call that fails (the copy of   *)
(* the element threw) takes no effect at all.                              *)
(***************************************************************************)
EXTENDS Naturals, Sequences

CONSTANTS Producers,  \* threads that call Produce
          Consumers,  \* threads that call Consume
          Values,     \* what is passed through the queue
          Size,       \* capacity of the queue
          Null        \* "no value"

VARIABLES queue,      \* the elements in the queue, oldest first
          status,     \* where each thread is in its call
          given,      \* the argument of each producer's latest call
          got         \* the value a consumer's call is about to return

vars == <<queue, status, given, got>>

Threads == Producers \cup Consumers

Init ==
  /\ queue = << >>
  /\ status = [t \in Threads |-> "idle"]
  /\ given = [p \in Producers |-> Null]
  /\ got = [c \in Consumers |-> Null]

CallProduce(p) ==
  /\ status[p] = "idle"
  /\ \E v \in Values : given' = [given EXCEPT ![p] = v]
  /\ status' = [status EXCEPT ![p] = "called"]
  /\ UNCHANGED <<queue, got>>

Put(p) ==
  /\ status[p] = "called"
  /\ Len(queue) < Size
  /\ queue' = Append(queue, given[p])
  /\ status' = [status EXCEPT ![p] = "done"]
  /\ UNCHANGED <<given, got>>

ReturnProduce(p) ==
  /\ status[p] = "done"
  /\ status' = [status EXCEPT ![p] = "idle"]
  /\ UNCHANGED <<queue, given, got>>

CallConsume(c) ==
  /\ status[c] = "idle"
  /\ status' = [status EXCEPT ![c] = "called"]
  /\ UNCHANGED <<queue, given, got>>

Take(c) ==
  /\ status[c] = "called"
  /\ queue # << >>
  /\ got' = [got EXCEPT ![c] = Head(queue)]
  /\ queue' = Tail(queue)
  /\ status' = [status EXCEPT ![c] = "done"]
  /\ UNCHANGED given

ReturnConsume(c) ==
  /\ status[c] = "done"
  /\ status' = [status EXCEPT ![c] = "idle"]
  /\ got' = [got EXCEPT ![c] = Null]
  /\ UNCHANGED <<queue, given>>

\* A call that raises an exception leaves everything but the caller alone.
Fail(t) ==
  /\ status[t] = "called"
  /\ status' = [status EXCEPT ![t] = "idle"]
  /\ UNCHANGED <<queue, given, got>>

Next ==
  \/ \E p \in Producers : CallProduce(p) \/ Put(p) \/ ReturnProduce(p) \/ Fail(p)
  \/ \E c \in Consumers : CallConsume(c) \/ Take(c) \/ ReturnConsume(c) \/ Fail(c)

Spec == Init /\ [][Next]_vars
=============================================================================
