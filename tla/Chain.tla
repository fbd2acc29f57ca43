------------------------------- MODULE Chain -------------------------------
(***************************************************************************)
(* util/stream/chain.{hh,cc}: a ring of worker threads through which a     *)
(* fixed set of memory blocks circulates.  Position t consumes blocks from *)
(* queue t and produces them into queue t + 1; the last position (the      *)
(* Recycler, or WriteAndRecycle) closes the ring by producing into queue   *)
(* 1.  The end of the data is a poison block that follows the last real    *)
(* one around the ring.  The queues are PCQueues; each Produce and Consume *)
(* is one atomic step here, which PCQueue's refinement of BlockingFifo     *)
(* justifies.  The main thread adds workers, closes the loop, waits, and   *)
(* may use the chain again.                                                *)
(*                                                                         *)
(* A worker holds a Link; pc says where it is in the Link's code:          *)
(*    "init"     Link::Init                                                *)
(*    "work"     the loop's body, current_ being a real block              *)
(*    "produce", "consume", "pass"   the three steps of operator++         *)
(*    "end"      poison is at hand: what is left of Run, and ~Link         *)
(*    "gone"     there is no Link any more                                 *)
(*    "unwind"   ~Link, its block being a real one; "caught" behind it     *)
(*    "none"     no such thread                                            *)
(* An exception can leave Run before there is a Link, from the loop, and   *)
(* after it (failing); the thread ends in the handler that aborts.         *)
(***************************************************************************)
EXTENDS Naturals, Sequences, FiniteSets

CONSTANTS Blocks,       \* the block_count blocks of the chain
          Poison,       \* a Block whose memory pointer is NULL
          MaxWorkers,   \* bound on the workers added to a chain
          MaxData,      \* bound on the blocks the first worker fills in a run
          MaxRuns,      \* bound on the uses of the chain
          WorkersThrow  \* whether a worker's Run may throw

ASSUME BlocksAssumption == IsFiniteSet(Blocks) /\ Blocks # {} /\ Poison \notin Blocks
ASSUME BoundsAssumption == MaxWorkers \in Nat \ {0} /\ MaxData \in Nat /\ MaxRuns \in Nat \ {0}

BlockCount == Cardinality(Blocks)
Positions == 1 .. MaxWorkers + 1
Source == 1
Closer == MaxWorkers + 1

VARIABLES
  main,             \* where the main thread is
  runs,             \* runs begun
  memory,           \* memory_ is allocated
  queues,           \* queues_: the contents of each PCQueue
  complete_called,
  pc,               \* position -> its thread's place
  current,          \* position -> its Link's current_
  poisoned,         \* position -> its Link's poisoned_
  failing,          \* position -> an exception is leaving its worker's Run, or has left it
  data,             \* block -> which of the source's blocks it carries
  full,             \* block -> its valid size is the block size
  seen,             \* position -> the latest data its worker has handled
  drained           \* Wait's loop counter

mainVars == <<main, runs, memory, complete_called, drained>>
vars == <<mainVars, queues, pc, current, poisoned, failing, data, full, seen>>

Workers == Len(queues) - 1
Running == queues # << >>
InFault(t) == IF t = Closer THEN Workers ELSE t   \* fault: not the last queue
In(t) == IF t = Closer THEN Len(queues) ELSE t
Out(t) == IF t = Closer THEN 1 ELSE t + 1

Init ==
  /\ main = "idle"
  /\ runs = 0
  /\ memory = FALSE
  /\ queues = << >>
  /\ complete_called = FALSE
  /\ pc = [t \in Positions |-> "none"]
  /\ current = [t \in Positions |-> Poison]
  /\ poisoned = [t \in Positions |-> TRUE]
  /\ failing = [t \in Positions |-> FALSE]
  /\ data = [b \in Blocks |-> 0]
  /\ full = [b \in Blocks |-> TRUE]
  /\ seen = [t \in Positions |-> 0]
  /\ drained = 0

Move(t, from, to) ==
  /\ pc[t] = from
  /\ pc' = [pc EXCEPT ![t] = to]

\* out_->Produce(x): blocks while the queue is full.
Produce(t, x) ==
  /\ Len(queues[Out(t)]) < BlockCount
  /\ queues' = [queues EXCEPT ![Out(t)] = Append(@, x)]

\* in_->Consume(current_): blocks while the queue is empty.  A real block goes
\* to the worker, poison does not.
Consume(t, from, ifPoison) ==
  /\ pc[t] = from
  /\ queues[In(t)] # << >>
  /\ current' = [current EXCEPT ![t] = Head(queues[In(t)])]
  /\ queues' = [queues EXCEPT ![In(t)] = Tail(@)]
  /\ pc' = [pc EXCEPT ![t] = IF current'[t] = Poison THEN ifPoison ELSE "work"]

-----------------------------------------------------------------------------
(* Faults: plausible mistakes in the actions below, each of which breaks a *)
(* property.  No specification uses them.                                  *)

\* ~Link passes poison on although an exception is unwinding.
LinkDestroyFault(t) ==
  /\ Move(t, "end", "gone") \/ Move(t, "unwind", "caught")
  /\ IF ~poisoned[t] THEN Produce(t, Poison) ELSE UNCHANGED queues
  /\ UNCHANGED <<mainVars, current, poisoned, failing, data, full, seen>>

\* The block is handed on before it has been written out.
RecycleEarly ==
  /\ Move(Closer, "work", "produce")
  /\ Produce(Closer, current[Closer])
  /\ seen' = [seen EXCEPT ![Closer] = data[current[Closer]]]
  /\ full' = [full EXCEPT ![current[Closer]] = TRUE]
  /\ UNCHANGED <<mainVars, current, poisoned, failing, data>>

\* complete_called_ is not reset for the next run.
DrainPoisonFault ==
  /\ main = "draining"
  /\ queues[1] # << >>
  /\ Head(queues[1]) = Poison
  /\ queues' = << >>
  /\ \E release \in BOOLEAN : memory' = ~release
  /\ main' = "idle"
  /\ UNCHANGED <<runs, complete_called, drained, pc, current, poisoned, failing, data, full, seen>>

-----------------------------------------------------------------------------
(* Link, in the thread of the worker that owns it                          *)

LinkInit(t) ==
  /\ ~failing[t]
  /\ Consume(t, "init", "end")
  /\ poisoned' = [poisoned EXCEPT ![t] = FALSE]
  /\ UNCHANGED <<mainVars, failing, data, full, seen>>

\* operator++: hand the block on ...
LinkProduce(t) ==
  /\ Move(t, "produce", "consume")
  /\ Produce(t, current[t])
  /\ UNCHANGED <<mainVars, current, poisoned, failing, data, full, seen>>

\* ... take the next one ...
LinkConsume(t) ==
  /\ Consume(t, "consume", "pass")
  /\ UNCHANGED <<mainVars, poisoned, failing, data, full, seen>>

\* ... and pass poison on at once.
LinkPass(t) ==
  /\ Move(t, "pass", "end")
  /\ poisoned' = [poisoned EXCEPT ![t] = TRUE]
  /\ Produce(t, current[t])
  /\ UNCHANGED <<mainVars, current, failing, data, full, seen>>

\* ~Link: poison that arrived first of all has not been passed on yet; a real
\* block means an exception is unwinding, and nothing is passed on.
LinkDestroy(t) ==
  /\ Move(t, "end", "gone") \/ Move(t, "unwind", "caught")
  /\ IF current[t] = Poison /\ ~poisoned[t]
       THEN Produce(t, current[t])
       ELSE UNCHANGED queues
  /\ UNCHANGED <<mainVars, current, poisoned, failing, data, full, seen>>

-----------------------------------------------------------------------------
(* The workers' loop bodies                                                *)

\* Set the valid size of the source's block and hand it on.
Fill ==
  /\ Move(Source, "work", "produce")
  /\ seen[Source] < MaxData
  /\ seen' = [seen EXCEPT ![Source] = @ + 1]
  /\ data' = [data EXCEPT ![current[Source]] = seen'[Source]]
  /\ \E whole \in BOOLEAN : full' = [full EXCEPT ![current[Source]] = whole]
  /\ UNCHANGED <<mainVars, queues, current, poisoned>>

\* The first worker (Read::Run and its like) fills a block, wholly or partly.
SourceFill ==
  /\ ~failing[Source]
  /\ Fill
  /\ UNCHANGED failing

\* End of the file: Link::Poison, then the loop is left.
SourcePoison ==
  /\ Move(Source, "work", "end")
  /\ current' = [current EXCEPT ![Source] = Poison]
  /\ Produce(Source, Poison)
  /\ poisoned' = [poisoned EXCEPT ![Source] = TRUE]
  /\ UNCHANGED <<mainVars, failing, data, full, seen>>

\* A worker in the middle handles the block.
Handle(t) ==
  /\ t \notin {Source, Closer}
  /\ Move(t, "work", "produce")
  /\ seen' = [seen EXCEPT ![t] = data[current[t]]]
  /\ UNCHANGED <<mainVars, queues, current, poisoned, failing, data, full>>

\* Recycler and WriteAndRecycle: the latter writes the block out; both reset
\* its valid size.
Recycle ==
  /\ Move(Closer, "work", "produce")
  /\ seen' = [seen EXCEPT ![Closer] = data[current[Closer]]]
  /\ full' = [full EXCEPT ![current[Closer]] = TRUE]
  /\ UNCHANGED <<mainVars, queues, current, poisoned, failing, data>>

\* An exception leaves the loop, where the Link has a real block; or what comes
\* before the Link or after the loop (PRead::Run, PWrite::Run, AdjustCounts::Run).
\* The workers that close the ring have nothing but the loop.
WorkerThrow(t) ==
  /\ WorkersThrow
  /\ ~failing[t]
  /\ failing' = [failing EXCEPT ![t] = TRUE]
  /\ \/ Move(t, "work", "unwind")
     \/ t # Closer /\ pc[t] \in {"init", "end"} /\ UNCHANGED pc
  /\ UNCHANGED <<mainVars, queues, current, poisoned, data, full, seen>>

\* CorpusCount's ~Writer does not tell the exception that is leaving the loop
\* from the end of the corpus: it hands on the block as far as it is filled, and
\* then poisons the Link.
WriterThrow ==
  /\ WorkersThrow
  /\ ~failing[Source]
  /\ failing' = [failing EXCEPT ![Source] = TRUE]
  /\ Fill

\* Thread::operator() catches the exception and aborts the process.
UnhandledException(t) ==
  /\ failing[t]
  /\ pc[t] \in {"init", "caught", "gone"}
  /\ main' = "aborted"
  /\ UNCHANGED <<runs, memory, complete_called, drained,
                 queues, pc, current, poisoned, failing, data, full, seen>>

WorkerStep(t) ==
  \/ LinkInit(t) \/ LinkProduce(t) \/ LinkConsume(t) \/ LinkPass(t) \/ LinkDestroy(t)
  \/ t = Source /\ (SourceFill \/ SourcePoison \/ WriterThrow)
  \/ Handle(t)
  \/ t = Closer /\ Recycle
  \/ WorkerThrow(t) \/ UnhandledException(t)

-----------------------------------------------------------------------------
(* The main thread                                                         *)

\* Start: a lead queue holding every block at its full size.
StartedQueues == {q \in [1 .. BlockCount -> Blocks] :
                    \A i, j \in 1 .. BlockCount : q[i] = q[j] => i = j}

\* operator>>(worker) on a chain that is not running: Start, then Add.
AddFirst ==
  /\ main = "idle"
  /\ ~Running
  /\ runs < MaxRuns
  /\ runs' = runs + 1
  /\ memory' = TRUE
  /\ queues' = <<CHOOSE q \in StartedQueues : TRUE, << >>>>
  /\ full' = [b \in Blocks |-> TRUE]
  /\ pc' = [pc EXCEPT ![Source] = "init"]
  /\ seen' = [t \in Positions |-> 0]
  /\ UNCHANGED <<main, complete_called, drained, current, poisoned, failing, data>>

Add ==
  /\ main = "idle"
  /\ Running
  /\ ~complete_called
  /\ Workers < MaxWorkers
  /\ queues' = Append(queues, << >>)
  /\ pc' = [pc EXCEPT ![Workers + 1] = "init"]
  /\ UNCHANGED <<mainVars, current, poisoned, failing, data, full, seen>>

\* The thread that closes the ring starts.
Complete ==
  /\ complete_called' = TRUE
  /\ pc' = [pc EXCEPT ![Closer] = "init"]

CompleteLoop ==
  /\ main = "idle"
  /\ Running
  /\ ~complete_called
  /\ Complete
  /\ UNCHANGED <<main, runs, memory, drained, queues, current, poisoned, failing, data, full, seen>>

Wait ==
  /\ main = "idle"
  /\ Running
  /\ main' = "joining"
  /\ IF complete_called THEN UNCHANGED <<complete_called, pc>> ELSE Complete
  /\ UNCHANGED <<runs, memory, drained, queues, current, poisoned, failing, data, full, seen>>

\* threads_.clear() joins every thread.
Ended(t) == pc[t] = "none" \/ (pc[t] = "gone" /\ ~failing[t])
JoinThreads ==
  /\ main = "joining"
  /\ \A t \in Positions : Ended(t)
  /\ main' = "draining"
  /\ drained' = 0
  /\ pc' = [t \in Positions |-> "none"]
  /\ UNCHANGED <<runs, memory, complete_called, queues, current, poisoned, failing, data, full, seen>>

DrainBlock ==
  /\ main = "draining"
  /\ queues[1] # << >>
  /\ Head(queues[1]) # Poison
  /\ queues' = [queues EXCEPT ![1] = Tail(@)]
  /\ IF drained = BlockCount
       THEN main' = "without poison" /\ UNCHANGED drained
       ELSE drained' = drained + 1 /\ UNCHANGED main
  /\ UNCHANGED <<runs, memory, complete_called, pc, current, poisoned, failing, data, full, seen>>

\* The poison came home: the queues go, and the memory if asked.
DrainPoison ==
  /\ main = "draining"
  /\ queues[1] # << >>
  /\ Head(queues[1]) = Poison
  /\ queues' = << >>
  /\ complete_called' = FALSE
  /\ \E release \in BOOLEAN : memory' = ~release
  /\ main' = "idle"
  /\ UNCHANGED <<runs, drained, pc, current, poisoned, failing, data, full, seen>>

MainWaiting == JoinThreads \/ DrainBlock \/ DrainPoison
MainStep == AddFirst \/ Add \/ CompleteLoop \/ Wait \/ MainWaiting

-----------------------------------------------------------------------------
\* All runs are over, or the process is dead.
Stopped ==
  /\ main = "aborted" \/ (~Running /\ runs = MaxRuns)
  /\ UNCHANGED vars

Next ==
  \/ main # "aborted" /\ (MainStep \/ \E t \in Positions : WorkerStep(t))
  \/ Stopped

Spec == Init /\ [][Next]_vars

\* The operating system runs every thread that can run; nothing is assumed of
\* the program that uses the chain.
FairSpec ==
  /\ Spec
  /\ WF_vars(MainWaiting)
  /\ \A t \in Positions : WF_vars(main # "aborted" /\ WorkerStep(t))

-----------------------------------------------------------------------------
(* Properties                                                              *)

\* Every variable keeps its type.
TypeOK ==
  /\ main \in {"idle", "joining", "draining", "without poison", "aborted"}
  /\ runs \in 0 .. MaxRuns
  /\ memory \in BOOLEAN /\ complete_called \in BOOLEAN
  /\ queues \in Seq(Seq(Blocks \cup {Poison}))
  /\ pc \in [Positions -> {"none", "init", "work", "produce", "consume", "pass",
                           "end", "unwind", "caught", "gone"}]
  /\ current \in [Positions -> Blocks \cup {Poison}]
  /\ poisoned \in [Positions -> BOOLEAN] /\ failing \in [Positions -> BOOLEAN]
  /\ data \in [Blocks -> 0 .. MaxData]
  /\ full \in [Blocks -> BOOLEAN]
  /\ seen \in [Positions -> 0 .. MaxData]
  /\ drained \in 0 .. BlockCount

\* A thread works on a block only between taking it from its input queue and
\* handing it on, so no block is ever in two hands, or in a hand and a queue:
\* the workers touch the blocks' memory without any lock.
Holders(b) == {t \in Positions : pc[t] \in {"work", "produce", "unwind"} /\ current[t] = b}
QueuePlaces(b) ==
  {place \in (1 .. Len(queues)) \X (1 .. BlockCount) :
     place[2] <= Len(queues[place[1]]) /\ queues[place[1]][place[2]] = b}
OneHolder ==
  \A b \in Blocks : Cardinality(Holders(b)) + Cardinality(QueuePlaces(b)) <= 1

\* "This queue can accomodate all blocks" (Start): no Produce ever has to wait,
\* the poison's included, so the ring cannot deadlock on full queues.
ProduceNeverWaits ==
  \A t \in Positions :
    (pc[t] \in {"work", "produce", "pass"} \/ (pc[t] = "end" /\ ~poisoned[t]))
      => Len(queues[Out(t)]) < BlockCount

\* The input of t is over; t has passed the poison on.
Over(t) == pc[t] \in {"pass", "end", "gone"}
Sent(t) == pc[t] = "gone" \/ (pc[t] = "end" /\ poisoned[t])

\* A worker whose input is over has seen everything the source has handed on, so
\* poison never overtakes or truncates data on its way through the ring.
Upstream(t) == IF t = Closer THEN Workers ELSE t - 1
PoisonMeansComplete ==
  \A t \in Positions \ {Source} :
    Over(t) /\ Running => seen[t] = seen[Source]

\* The queues and the blocks' memory outlive every thread that uses them.
NothingDangles ==
  (~Running \/ ~memory) => \A t \in Positions : pc[t] \in {"none", "gone"}

\* The source gets every block at its full size, in a later run of the chain and
\* however little of the block was used when it went around before.
ArrivesWhole == pc[Source] = "work" => full[current[Source]]

\* What holds of the ring at any time, whoever is in the middle of a step.
RingInvariant ==
  /\ TypeOK /\ OneHolder /\ ProduceNeverWaits /\ PoisonMeansComplete /\ NothingDangles
  /\ ArrivesWhole

\* A run in which a worker fails has no result.  The main thread does not get
\* past joining that worker, however late the exception comes (behind the poison,
\* too) and whatever the other workers do until the process is aborted.  And the
\* workers behind it are not told that their input is over, unless it passes
\* poison on itself: either that of its own input, so they have had everything,
\* or the one ~Writer makes, and then they do take the beginning of a corpus
\* for all of it.
FailureHasNoResult ==
  \A s \in Positions : failing[s] =>
    /\ Running /\ main \in {"idle", "joining", "aborted"}
    /\ ~Sent(s) => \A t \in Positions : t > s => ~Over(t)

\* The ring implements an in-order, lossless, exactly-once pipeline.
Abstract == INSTANCE Pipeline WITH
  runs <- runs,
  open <- Running,
  workers <- IF Running THEN Workers ELSE 0,
  delivered <- seen

ImplementsPipeline == Abstract!Spec

\* A chain somebody waits for finishes: no worker, no queue and no drain stays
\* blocked, and a worker's exception ends the process instead of the wait.
WaitReturns == main = "joining" ~> main \in {"idle", "aborted"}
=============================================================================
