----------------------------- MODULE ChainProofs -----------------------------
(***************************************************************************)
(* TLAPS proofs about the ring of util/stream/chain.{hh,cc}, for any       *)
(* number of blocks, workers, runs and any length of data.                 *)
(*                                                                         *)
(* The blocks are a set that circulates and the poison is one mark that    *)
(* goes once around, so the invariant says where each of them can be:      *)
(*   - a block is in one hand or at one place of one queue (Apart);        *)
(*   - the poison is the last element of a queue (PoisonLast), and behind  *)
(*     it, all the way from the source, everybody has passed it on         *)
(*     (PoisonFollows);                                                    *)
(*   - the source gives up the block it holds when it sends the poison, so *)
(*     from then on one block is nowhere, and the poison has the room of   *)
(*     that block in every queue (BlockLost);                              *)
(*   - a queue holds just what its writer has sent on and its reader not   *)
(*     yet received, in the order of the data (Flow);                      *)
(*   - the lead queue holds blocks that have been reset (Whole).           *)
(* An exception may be on its way in any of these states (Failures).       *)
(* Every worker's step is one of a few effects on the ring (RingStep), and *)
(* each part of the invariant is shown to survive those effects and the    *)
(* main thread's steps.                                                    *)
(***************************************************************************)
EXTENDS Chain, FiniteSetTheorems, TLAPS

\* A run in which workers may be at work; the main thread has joined nobody.
Live == Running /\ main \in {"idle", "joining", "aborted"}

\* t has a real block.
Holds(t) == pc[t] \in {"work", "produce", "unwind"}

\* Which threads and queues there are in each phase of the main thread.
Shape ==
  /\ Len(queues) \in {0} \cup 2 .. MaxWorkers + 1
  /\ main # "without poison"
  /\ ~Running => main = "idle" /\ ~complete_called
  /\ Running => memory
  /\ ~Live => \A t \in Positions : pc[t] = "none"
  /\ Live => \A t \in Positions :
       /\ pc[t] # "none" <=> t \in 1 .. Workers \/ (t = Closer /\ complete_called)
       /\ pc[t] = "none" => seen[t] = 0
  /\ main = "joining" => complete_called

\* What a Link's two fields hold at each place of its code.
Links ==
  \A t \in Positions :
    /\ Holds(t) => current[t] \in Blocks
    /\ pc[t] \in {"pass", "end"} => current[t] = Poison
    /\ pc[t] \in {"work", "produce", "consume", "pass", "unwind"} => ~poisoned[t]

\* Whoever is told that the data is over, and every queue the poison is in, has
\* only workers before it that passed the poison on; poison in the lead queue
\* comes from the thread that closes the ring, and stays there.
PoisonFollows ==
  Live =>
   /\ \A s, t \in Positions : s < t /\ pc[s] # "none" /\ Over(t) => Sent(s)
   /\ \A q \in 2 .. Len(queues) : \A i \in 1 .. Len(queues[q]) :
        queues[q][i] = Poison => \A s \in 1 .. q - 1 : Sent(s)
   /\ \A i \in 1 .. Len(queues[1]) : queues[1][i] = Poison => Sent(Closer)
   /\ Sent(Closer) => queues[1] # << >> /\ queues[1][Len(queues[1])] = Poison

\* Nothing follows the poison in a queue.
PoisonLast ==
  \A q \in 1 .. Len(queues) : \A i \in 1 .. Len(queues[q]) :
        queues[q][i] = Poison => i = Len(queues[q])

\* The block in which the source met the end of the data has left the ring.
Nowhere(b) ==
  /\ \A t \in Positions : Holds(t) => current[t] # b
  /\ \A q \in 1 .. Len(queues) : \A i \in 1 .. Len(queues[q]) : queues[q][i] # b
BlockLost == (Live /\ Over(Source)) \/ main = "draining" => \E b \in Blocks : Nowhere(b)

\* A block is in one hand, or at one place of one queue.
Apart ==
  /\ \A s, t \in Positions : Holds(s) /\ Holds(t) /\ current[s] = current[t] => s = t
  /\ \A t \in Positions : Holds(t) =>
       \A q \in 1 .. Len(queues) : \A i \in 1 .. Len(queues[q]) : queues[q][i] # current[t]
  /\ \A p, q \in 1 .. Len(queues) : \A i \in 1 .. Len(queues[p]), j \in 1 .. Len(queues[q]) :
       queues[p][i] = queues[q][j] /\ queues[p][i] # Poison => p = q /\ i = j

\* Who reads queue q, how many blocks t has received and sent on, and how many
\* real blocks queue q holds.
Reader(q) == IF q = Len(queues) THEN Closer ELSE q
Received(t) == IF pc[t] \in {"work", "unwind", "caught"} THEN seen[t] + 1 ELSE seen[t]
SentOn(t) == IF pc[t] = "produce" THEN seen[t] - 1 ELSE seen[t]
Real(q) ==
  IF queues[q] # << >> /\ queues[q][Len(queues[q])] = Poison
    THEN Len(queues[q]) - 1
    ELSE Len(queues[q])

\* The data in t's hand is the next one (or the one just handled), and t has
\* had it all when its input is over.
Stamped(t) ==
  /\ t # Source /\ pc[t] = "work" => data[current[t]] = seen[t] + 1
  /\ pc[t] = "produce" => data[current[t]] = seen[t] /\ seen[t] > 0
  /\ Over(t) => seen[t] = seen[Source]

\* What was sent into queue q and is not yet received is in it, in order.
InOrder(q) ==
  /\ Received(Reader(q)) + Real(q) = SentOn(q - 1)
  /\ \A i \in 1 .. Len(queues[q]) :
       queues[q][i] # Poison => data[queues[q][i]] = Received(Reader(q)) + i
Flow ==
  Live => /\ \A t \in Positions : Stamped(t)
          /\ \A q \in 2 .. Len(queues) : InOrder(q)

\* While Wait drains the lead queue the poison is at its end, within the count.
Drained ==
  main = "draining" =>
    /\ queues[1] # << >> /\ queues[1][Len(queues[1])] = Poison
    /\ drained + Len(queues[1]) <= BlockCount
    /\ \A t \in 1 .. Workers \cup {Closer} : seen[t] = seen[Source]

\* An exception leaves a thread that is there, until it is joined.
Failures == \A t \in Positions : failing[t] => pc[t] # "none"

\* The blocks on their way from the last worker to the first have their full size.
Whole ==
  /\ ArrivesWhole
  /\ pc[Closer] = "produce" => full[current[Closer]]
  /\ Running => \A i \in 1 .. Len(queues[1]) : queues[1][i] # Poison => full[queues[1][i]]

\* The inductive invariant.
IInv ==
  /\ TypeOK /\ Shape /\ Links /\ Failures /\ PoisonFollows /\ PoisonLast
  /\ BlockLost /\ Apart /\ Whole /\ Flow /\ Drained

-----------------------------------------------------------------------------
(* The effects a worker's step has on the ring.                            *)

\* Take what is first in the input queue.
Takes(t) ==
  /\ pc[t] \in {"init", "consume"}
  /\ queues[In(t)] # << >>
  /\ queues' = [queues EXCEPT ![In(t)] = Tail(@)]
  /\ current' = [current EXCEPT ![t] = queues[In(t)][1]]
  /\ poisoned' = [poisoned EXCEPT ![t] = FALSE]
  /\ \E over \in {"end", "pass"} :
       pc' = [pc EXCEPT ![t] = IF queues[In(t)][1] = Poison THEN over ELSE "work"]
  /\ UNCHANGED <<mainVars, failing, data, full, seen>>

\* Hand the block on.
Hands(t) == LinkProduce(t)

\* Put poison into the output queue: ~Link, operator++ or Link::Poison.
Poisons(t) ==
  /\ pc[t] \in {"work", "pass", "end"} /\ (pc[t] = "work" => t = Source) /\ ~poisoned[t]
  /\ Produce(t, Poison)
  /\ current' = [current EXCEPT ![t] = Poison]
  /\ \E in \in BOOLEAN : /\ poisoned' = [poisoned EXCEPT ![t] = in]
                         /\ pc' = [pc EXCEPT ![t] = IF in THEN "end" ELSE "gone"]
  /\ UNCHANGED <<mainVars, failing, data, full, seen>>

\* Fill the block, or read what it carries.
Handles(t) ==
  /\ pc[t] = "work"
  /\ pc' = [pc EXCEPT ![t] = "produce"]
  /\ seen[t] + 1 \in 1 .. MaxData
  /\ seen' = [seen EXCEPT ![t] = seen[t] + 1]
  /\ data' = [data EXCEPT ![current[t]] = seen[t] + 1]
  /\ t # Source => data[current[t]] = seen[t] + 1
  /\ full' \in [Blocks -> BOOLEAN] /\ (t = Closer => full'[current[t]] = TRUE)
  /\ \A b \in Blocks : b # current[t] => full'[b] = full[b]
  /\ failing' \in {failing, [failing EXCEPT ![t] = TRUE]}
  /\ UNCHANGED <<mainVars, queues, current, poisoned>>

\* Leave the loop by an exception, or the Link after the poison.
Leaves(t) ==
  /\ \/ pc[t] = "work" /\ pc' = [pc EXCEPT ![t] = "unwind"]
     \/ pc[t] = "unwind" /\ pc' = [pc EXCEPT ![t] = "caught"]
     \/ pc[t] = "end" /\ poisoned[t] /\ pc' = [pc EXCEPT ![t] = "gone"]
  /\ failing' \in {failing, [failing EXCEPT ![t] = TRUE]}
  /\ UNCHANGED <<mainVars, queues, current, poisoned, data, full, seen>>

\* Have an exception before or after the loop, or end in the handler.
Fails(t) ==
  /\ pc[t] \in {"init", "end", "caught", "gone"}
  /\ main' \in {main, "aborted"}
  /\ failing' = [failing EXCEPT ![t] = TRUE]
  /\ UNCHANGED <<runs, memory, complete_called, drained,
                 queues, pc, current, poisoned, data, full, seen>>

\* The main thread completes the loop, or goes on to join.
Closes == CompleteLoop \/ Wait

-----------------------------------------------------------------------------
\* Facts about sequences of any kind of element.
LEMMA SeqElement ==
  ASSUME NEW S, NEW s \in Seq(S), NEW i \in 1 .. Len(s)
  PROVE  s[i] \in S /\ i \in DOMAIN s
OBVIOUS

LEMMA SeqNonempty ==
  ASSUME NEW S, NEW s \in Seq(S)
  PROVE  Len(s) \in Nat /\ (s = << >> <=> Len(s) = 0)
OBVIOUS

LEMMA SeqExcept ==
  ASSUME NEW S, NEW s \in Seq(S), NEW i \in 1 .. Len(s), NEW x \in S
  PROVE  LET u == [s EXCEPT ![i] = x]
         IN  /\ u \in Seq(S) /\ Len(u) = Len(s) /\ u[i] = x
             /\ \A j \in 1 .. Len(s) : j # i => u[j] = s[j]
OBVIOUS

LEMMA SeqAppend ==
  ASSUME NEW S, NEW s \in Seq(S), NEW x \in S
  PROVE  /\ Append(s, x) \in Seq(S) /\ Len(s) \in Nat /\ Len(Append(s, x)) = Len(s) + 1
         /\ Append(s, x)[Len(s) + 1] = x
         /\ \A i \in 1 .. Len(s) : Append(s, x)[i] = s[i]
OBVIOUS

LEMMA SeqTail ==
  ASSUME NEW S, NEW s \in Seq(S), s # << >>
  PROVE  /\ Tail(s) \in Seq(S) /\ Len(s) \in Nat \ {0} /\ Len(Tail(s)) = Len(s) - 1
         /\ Head(s) = s[1] /\ s[1] \in S
         /\ \A i \in 1 .. Len(s) - 1 : Tail(s)[i] = s[i + 1]
OBVIOUS

\* A chain has a finite number of blocks, and at least one.
LEMMA CountType == BlockCount \in Nat \ {0} /\ IsFiniteSet(Blocks)
BY BlocksAssumption, FS_CardinalityType, FS_EmptySet DEF BlockCount

\* What kind of thing a queue of the ring is.
LEMMA QueueType ==
  ASSUME TypeOK, NEW q \in 1 .. Len(queues)
  PROVE  /\ Len(queues) \in Nat /\ queues[q] \in Seq(Blocks \cup {Poison})
         /\ Len(queues[q]) \in Nat /\ (queues[q] = << >> <=> Len(queues[q]) = 0)
         /\ \A i \in 1 .. Len(queues[q]) : queues[q][i] \in Blocks \cup {Poison}
<1>1. queues \in Seq(Seq(Blocks \cup {Poison}))
  BY DEF TypeOK
<1>2. queues[q] \in Seq(Blocks \cup {Poison}) /\ Len(queues) \in Nat
  BY <1>1, SeqElement, SeqNonempty
<1> QED
  BY <1>2, SeqElement, SeqNonempty

\* The places of the positions of a run.
LEMMA Places ==
  ASSUME TypeOK, Shape, NEW t \in Positions, pc[t] # "none"
  PROVE  /\ Live /\ Len(queues) \in 2 .. MaxWorkers + 1 /\ MaxWorkers \in Nat
         /\ t \in 1 .. Workers \/ t = Closer
         /\ In(t) \in 1 .. Len(queues) /\ Out(t) \in 1 .. Len(queues)
         /\ Source = 1 /\ Closer = MaxWorkers + 1 /\ Workers = Len(queues) - 1
<1>1. Live /\ queues # << >>
  BY DEF Shape, Live, Running
<1>2. Len(queues) \in 2 .. MaxWorkers + 1 /\ MaxWorkers \in Nat
  <2>1. queues \in Seq(Seq(Blocks \cup {Poison}))
    BY DEF TypeOK
  <2>2. Len(queues) # 0
    BY <1>1, <2>1, SeqNonempty
  <2> QED
    BY <2>2, BoundsAssumption DEF Shape
<1>3. t \in 1 .. Workers \/ t = Closer
  BY <1>1, <1>2 DEF Shape, Workers
<1>4. Source = 1 /\ Closer = MaxWorkers + 1 /\ Workers = Len(queues) - 1
  BY DEF Source, Closer, Workers
<1>5. In(t) \in 1 .. Len(queues) /\ Out(t) \in 1 .. Len(queues)
  BY <1>2, <1>3, <1>4 DEF In, Out
<1> QED
  BY <1>1, <1>2, <1>3, <1>4, <1>5

\* The queues after a Produce.
LEMMA Appended ==
  ASSUME TypeOK, NEW t \in Positions, Out(t) \in 1 .. Len(queues),
         NEW x \in Blocks \cup {Poison}, Produce(t, x)
  PROVE  LET o == Out(t) n == Len(queues[o])
         IN  /\ queues' \in Seq(Seq(Blocks \cup {Poison})) /\ Len(queues') = Len(queues)
             /\ \A q \in 1 .. Len(queues) : q # o => queues'[q] = queues[q]
             /\ n \in Nat /\ n < BlockCount /\ Len(queues'[o]) = n + 1
             /\ \A i \in 1 .. n : queues'[o][i] = queues[o][i]
             /\ queues'[o][n + 1] = x
<1> DEFINE B == Blocks \cup {Poison} o == Out(t) q0 == queues[o] q1 == Append(q0, x)
<1>1. queues \in Seq(Seq(B))
  BY DEF TypeOK
<1>2. q0 \in Seq(B)
  BY <1>1, SeqElement
<1>3. q1 \in Seq(B) /\ Len(q0) \in Nat /\ Len(q1) = Len(q0) + 1 /\ q1[Len(q0) + 1] = x
      /\ \A i \in 1 .. Len(q0) : q1[i] = q0[i]
  BY <1>2, SeqAppend
<1>4. queues' = [queues EXCEPT ![o] = q1] /\ Len(q0) < BlockCount
  BY DEF Produce
<1> HIDE DEF B, o, q0, q1
<1>5. queues' \in Seq(Seq(B)) /\ Len(queues') = Len(queues) /\ queues'[o] = q1
      /\ \A q \in 1 .. Len(queues) : q # o => queues'[q] = queues[q]
  BY <1>1, <1>3, <1>4, SeqExcept DEF o
<1> QED
  BY <1>3, <1>4, <1>5 DEF B, o, q0

\* The queues after the first element of one was taken.
LEMMA Removed ==
  ASSUME TypeOK, NEW k \in 1 .. Len(queues), queues[k] # << >>,
         queues' = [queues EXCEPT ![k] = Tail(@)]
  PROVE  LET n == Len(queues[k])
         IN  /\ queues' \in Seq(Seq(Blocks \cup {Poison})) /\ Len(queues') = Len(queues)
             /\ \A q \in 1 .. Len(queues) : q # k => queues'[q] = queues[q]
             /\ n \in Nat \ {0} /\ Len(queues'[k]) = n - 1
             /\ \A i \in 1 .. n - 1 : queues'[k][i] = queues[k][i + 1]
             /\ Head(queues[k]) = queues[k][1] /\ queues[k][1] \in Blocks \cup {Poison}
<1> DEFINE B == Blocks \cup {Poison} q0 == queues[k] q1 == Tail(q0)
<1>1. queues \in Seq(Seq(B))
  BY DEF TypeOK
<1>2. q0 \in Seq(B)
  BY <1>1, SeqElement
<1>3. q1 \in Seq(B) /\ Len(q0) \in Nat \ {0} /\ Len(q1) = Len(q0) - 1
      /\ Head(q0) = q0[1] /\ q0[1] \in B
      /\ \A i \in 1 .. Len(q0) - 1 : q1[i] = q0[i + 1]
  BY <1>2, SeqTail
<1>4. queues' = [queues EXCEPT ![k] = q1]
  OBVIOUS
<1> HIDE DEF B, q0, q1
<1>5. queues' \in Seq(Seq(B)) /\ Len(queues') = Len(queues) /\ queues'[k] = q1
      /\ \A q \in 1 .. Len(queues) : q # k => queues'[q] = queues[q]
  BY <1>1, <1>3, <1>4, SeqExcept
<1> QED
  BY <1>3, <1>5 DEF B, q0

\* Distinct blocks without b among them are fewer than all blocks.
LEMMA Pigeonhole ==
  ASSUME NEW n \in Nat, NEW f, NEW b \in Blocks,
         \A i \in 1 .. n : f[i] \in Blocks \ {b},
         \A i, j \in 1 .. n : f[i] = f[j] => i = j
  PROVE  n < BlockCount
<1> DEFINE g == [i \in 1 .. n |-> f[i]]
<1>1. g \in Injection(1 .. n, Blocks \ {b})
  BY DEF Injection, IsInjective
<1>2. IsFiniteSet(Blocks \ {b}) /\ Cardinality(Blocks \ {b}) = BlockCount - 1
  BY CountType, FS_RemoveElement DEF BlockCount
<1>3. Cardinality(1 .. n) <= Cardinality(Blocks \ {b})
  BY <1>1, <1>2, FS_Injection DEF ExistsInjection
<1>4. Cardinality(1 .. n) = n
  BY FS_Interval
<1> QED
  BY <1>2, <1>3, <1>4, CountType

\* Who has not passed the poison on has none before him.
LEMMA NoPoisonAhead ==
  ASSUME TypeOK, Shape, PoisonFollows, NEW t \in Positions, pc[t] # "none", ~Sent(t)
  PROVE  \A i \in 1 .. Len(queues[Out(t)]) : queues[Out(t)][i] # Poison
<1>1. Live /\ Len(queues) \in 2 .. MaxWorkers + 1 /\ Out(t) \in 1 .. Len(queues)
  BY Places
<1>2. CASE t = Closer
  BY <1>1, <1>2 DEF PoisonFollows, Out
<1>3. CASE t # Closer
  <2>1. Out(t) = t + 1 /\ t \in 1 .. Out(t) - 1 /\ Out(t) \in 2 .. Len(queues)
    BY <1>1, <1>3, BoundsAssumption DEF Out, Positions
  <2> QED
    BY <1>1, <2>1 DEF PoisonFollows
<1> QED
  BY <1>2, <1>3

\* The source never meets the poison: the closing thread passes it on last.
LEMMA SourceTakesBlocks ==
  ASSUME TypeOK, Shape, PoisonFollows, pc[Source] \in {"init", "consume"}, queues[1] # << >>
  PROVE  queues[1][1] # Poison /\ ~Sent(Closer)
<1>1. Source \in Positions /\ Closer \in Positions /\ Source < Closer
  BY BoundsAssumption DEF Source, Closer, Positions
<1>2. Live /\ Len(queues) \in 2 .. MaxWorkers + 1 /\ MaxWorkers \in Nat
  BY <1>1, Places
<1>3. ~Sent(Closer)
  BY <1>1, <1>2 DEF PoisonFollows, Sent, Over
<1>4. 1 \in 1 .. Len(queues[1])
  BY <1>2, QueueType
<1> QED
  BY <1>2, <1>3, <1>4 DEF PoisonFollows

-----------------------------------------------------------------------------
\* What the actions do to the ring, whatever their names are.
RingStep(t) == Takes(t) \/ Hands(t) \/ Poisons(t) \/ Handles(t) \/ Leaves(t) \/ Fails(t)

\* Consume, with the new value of current_ made explicit.
LEMMA Consumed ==
  ASSUME TypeOK, Shape, NEW t \in Positions,
         NEW from \in {"init", "consume"}, NEW over \in {"end", "pass"}, Consume(t, from, over)
  PROVE  /\ pc[t] = from /\ queues[In(t)] # << >>
         /\ queues' = [queues EXCEPT ![In(t)] = Tail(@)]
         /\ current' = [current EXCEPT ![t] = queues[In(t)][1]]
         /\ pc' = [pc EXCEPT ![t] = IF queues[In(t)][1] = Poison THEN over ELSE "work"]
<1> DEFINE k == In(t)
<1>1. pc[t] = from /\ pc[t] # "none" /\ queues[k] # << >>
      /\ queues' = [queues EXCEPT ![k] = Tail(@)]
  BY DEF Consume
<1>2. k \in 1 .. Len(queues)
  BY <1>1, Places
<1>3. Head(queues[k]) = queues[k][1]
  BY <1>1, <1>2, QueueType, SeqTail
<1>4. current \in [Positions -> Blocks \cup {Poison}]
  BY DEF TypeOK
<1>5. current' = [current EXCEPT ![t] = queues[k][1]] /\ current'[t] = queues[k][1]
  BY <1>3, <1>4 DEF Consume
<1> QED
  BY <1>1, <1>5 DEF Consume

\* Every step of a worker has one of the effects above.
LEMMA WorkerStepIsRingStep ==
  ASSUME TypeOK, Shape, Links, Flow, NEW t \in Positions, WorkerStep(t)
  PROVE  RingStep(t)
<1>1. /\ current \in [Positions -> Blocks \cup {Poison}] /\ poisoned \in [Positions -> BOOLEAN]
      /\ data \in [Blocks -> 0 .. MaxData] /\ seen \in [Positions -> 0 .. MaxData]
      /\ full \in [Blocks -> BOOLEAN] /\ MaxData \in Nat
  BY BoundsAssumption DEF TypeOK
<1>2. CASE LinkInit(t)
  BY <1>2, Consumed DEF LinkInit, Takes, RingStep
<1>3. CASE LinkConsume(t)
  <2>1. Consume(t, "consume", "pass")
    BY <1>3 DEF LinkConsume
  <2>2. pc[t] = "consume" /\ ~poisoned[t]
    BY <2>1, Consumed DEF Links
  <2>3. poisoned' = [poisoned EXCEPT ![t] = FALSE]
    BY <1>1, <1>3, <2>2 DEF LinkConsume
  <2> QED
    BY <1>3, <2>1, <2>3, Consumed DEF LinkConsume, Takes, RingStep
<1>4. CASE LinkProduce(t)
  BY <1>4 DEF Hands, RingStep
<1>5. CASE LinkPass(t)
  <2>1. pc[t] = "pass" /\ pc' = [pc EXCEPT ![t] = "end"] /\ current[t] = Poison /\ ~poisoned[t]
    BY <1>5 DEF LinkPass, Move, Links
  <2>2. current' = [current EXCEPT ![t] = Poison]
    BY <1>1, <1>5, <2>1 DEF LinkPass
  <2> QED
    BY <1>5, <2>1, <2>2 DEF LinkPass, Poisons, RingStep
<1>6. CASE LinkDestroy(t)
  <2>1. CASE current[t] = Poison /\ ~poisoned[t]
    <3>1. pc[t] = "end" /\ pc' = [pc EXCEPT ![t] = "gone"]
      BY <1>6, <2>1, BlocksAssumption DEF LinkDestroy, Move, Links, Holds
    <3>2. current' = [current EXCEPT ![t] = Poison] /\ poisoned' = [poisoned EXCEPT ![t] = FALSE]
      BY <1>1, <1>6, <2>1 DEF LinkDestroy
    <3> QED
      BY <1>6, <2>1, <3>1, <3>2 DEF LinkDestroy, Poisons, RingStep
  <2>2. CASE ~(current[t] = Poison /\ ~poisoned[t])
    <3>1. \/ pc[t] = "end" /\ poisoned[t] /\ pc' = [pc EXCEPT ![t] = "gone"]
          \/ pc[t] = "unwind" /\ pc' = [pc EXCEPT ![t] = "caught"]
      BY <1>6, <2>2 DEF LinkDestroy, Move, Links
    <3> QED
      BY <1>6, <2>2, <3>1 DEF LinkDestroy, Leaves, RingStep
  <2> QED
    BY <2>1, <2>2
<1>0. Closer # Source
  BY BoundsAssumption DEF Closer, Source
<1>7. CASE t = Source /\ (SourceFill \/ WriterThrow)
  <2>0. t = Source /\ Fill /\ failing' \in {failing, [failing EXCEPT ![t] = TRUE]}
    BY <1>7 DEF SourceFill, WriterThrow
  <2>1. seen[t] + 1 \in 1 .. MaxData /\ seen' = [seen EXCEPT ![t] = seen[t] + 1]
        /\ seen'[t] = seen[t] + 1
    BY <1>1, <2>0 DEF Fill
  <2>2. data' = [data EXCEPT ![current[t]] = seen[t] + 1]
    BY <2>0, <2>1 DEF Fill
  <2>3. full' \in [Blocks -> BOOLEAN] /\ \A b \in Blocks : b # current[t] => full'[b] = full[b]
    BY <1>1, <2>0 DEF Fill
  <2> QED
    BY <1>0, <2>0, <2>1, <2>2, <2>3 DEF Fill, Move, Handles, RingStep
<1>8. CASE t = Source /\ SourcePoison
  <2>1. ~poisoned[t]
    BY <1>8 DEF SourcePoison, Move, Links
  <2> QED
    BY <1>8, <2>1 DEF SourcePoison, Move, Poisons, RingStep
<1>9. CASE t # Source /\ (Handle(t) \/ (t = Closer /\ Recycle))
  <2>1. /\ pc[t] = "work" /\ pc' = [pc EXCEPT ![t] = "produce"]
        /\ seen' = [seen EXCEPT ![t] = data[current[t]]]
        /\ UNCHANGED <<mainVars, queues, current, poisoned, failing, data>>
    BY <1>9 DEF Handle, Recycle, Move
  <2>2. current[t] \in Blocks /\ Live
    BY <2>1, Places DEF Links, Holds
  <2>3. /\ full' \in [Blocks -> BOOLEAN] /\ (t = Closer => full'[current[t]] = TRUE)
        /\ \A b \in Blocks : b # current[t] => full'[b] = full[b]
    <3>1. CASE Handle(t)
      BY <1>1, <3>1 DEF Handle
    <3>2. CASE t = Closer /\ Recycle
      <4>1. full' = [full EXCEPT ![current[t]] = TRUE]
        BY <3>2 DEF Recycle
      <4> QED
        BY <1>1, <2>2, <4>1
    <3> QED
      BY <1>9, <3>1, <3>2
  <2>4. data[current[t]] = seen[t] + 1
    BY <1>9, <2>1, <2>2 DEF Flow, Stamped
  <2>5. seen[t] + 1 \in 1 .. MaxData
    BY <1>1, <2>2, <2>4
  <2>6. data' = [data EXCEPT ![current[t]] = seen[t] + 1]
    BY <1>1, <2>1, <2>2, <2>4
  <2> QED
    BY <2>1, <2>3, <2>4, <2>5, <2>6 DEF Handles, RingStep
<1>10. CASE WorkerThrow(t)
  BY <1>10 DEF WorkerThrow, Move, Leaves, Fails, mainVars, RingStep
<1>11. CASE UnhandledException(t)
  <2>1. failing' = [failing EXCEPT ![t] = TRUE]
    BY <1>11 DEF UnhandledException, TypeOK
  <2> QED
    BY <1>11, <2>1 DEF UnhandledException, Fails, RingStep
<1>12. Handle(t) => t # Source
  BY DEF Handle
<1>13. \/ LinkInit(t) \/ LinkProduce(t) \/ LinkConsume(t) \/ LinkPass(t) \/ LinkDestroy(t)
       \/ t = Source /\ (SourceFill \/ WriterThrow)
       \/ t = Source /\ SourcePoison
       \/ t # Source /\ (Handle(t) \/ (t = Closer /\ Recycle))
       \/ WorkerThrow(t) \/ UnhandledException(t)
  BY <1>0, <1>12 DEF WorkerStep
<1> QED
  BY <1>2, <1>3, <1>4, <1>5, <1>6, <1>7, <1>8, <1>9, <1>10, <1>11, <1>13

\* Start fills the lead queue with every block, once.
LEMMA LeadQueue ==
  LET lead == CHOOSE q \in StartedQueues : TRUE
  IN  /\ lead \in Seq(Blocks \cup {Poison}) /\ Len(lead) = BlockCount
      /\ \A i \in 1 .. BlockCount : lead[i] \in Blocks
      /\ \A i, j \in 1 .. BlockCount : lead[i] = lead[j] => i = j
<1> DEFINE lead == CHOOSE q \in StartedQueues : TRUE
<1>1. PICK f : f \in Bijection(1 .. BlockCount, Blocks)
  BY CountType, FS_CardinalityType DEF BlockCount, ExistsBijection
<1>2. f \in StartedQueues
  BY <1>1 DEF Bijection, Injection, IsInjective, StartedQueues
<1>3. lead \in StartedQueues
  BY <1>2
<1> QED
  BY <1>3, CountType DEF StartedQueues

\* The queues after the first worker was added, and after another one was.
LEMMA Started ==
  ASSUME AddFirst, TypeOK
  PROVE  /\ queues' \in Seq(Seq(Blocks \cup {Poison})) /\ Len(queues') = 2
         /\ Len(queues'[1]) = BlockCount /\ queues'[2] = << >> /\ Len(queues'[2]) = 0
         /\ \A i \in 1 .. BlockCount : queues'[1][i] \in Blocks
         /\ \A i, j \in 1 .. BlockCount : queues'[1][i] = queues'[1][j] => i = j
<1> DEFINE lead == CHOOSE q \in StartedQueues : TRUE
<1>1. queues' = <<lead, << >>>>
  BY DEF AddFirst
<1>2. lead \in Seq(Blocks \cup {Poison}) /\ << >> \in Seq(Blocks \cup {Poison}) /\ Len(lead) = BlockCount
  BY LeadQueue
<1> HIDE DEF lead
<1>3. queues' \in Seq(Seq(Blocks \cup {Poison})) /\ Len(queues') = 2
      /\ queues'[1] = lead /\ queues'[2] = << >>
  BY <1>1, <1>2
<1> QED
  BY <1>2, <1>3, LeadQueue DEF lead

LEMMA Widened ==
  ASSUME Add, TypeOK
  PROVE  LET n == Len(queues)
         IN  /\ queues' \in Seq(Seq(Blocks \cup {Poison})) /\ n \in Nat /\ Len(queues') = n + 1
             /\ queues'[n + 1] = << >> /\ Len(queues'[n + 1]) = 0
             /\ \A q \in 1 .. n : queues'[q] = queues[q]
<1> DEFINE B == Seq(Blocks \cup {Poison})
<1>1. queues \in Seq(B) /\ << >> \in B /\ queues' = Append(queues, << >>)
  BY DEF TypeOK, Add
<1> HIDE DEF B
<1>2. /\ queues' \in Seq(B) /\ Len(queues) \in Nat /\ Len(queues') = Len(queues) + 1
      /\ queues'[Len(queues) + 1] = << >>
      /\ \A q \in 1 .. Len(queues) : queues'[q] = queues[q]
  BY <1>1, SeqAppend
<1> QED
  BY <1>2 DEF B

\* Every step keeps the types.
LEMMA TypeRing ==
  ASSUME TypeOK, Shape, Links, NEW t \in Positions, RingStep(t)
  PROVE  TypeOK'
<1>1. CASE Takes(t)
  <2>1. In(t) \in 1 .. Len(queues) /\ queues[In(t)] # << >>
    BY <1>1, Places DEF Takes
  <2>2. queues' \in Seq(Seq(Blocks \cup {Poison})) /\ queues[In(t)][1] \in Blocks \cup {Poison}
    BY <1>1, <2>1, Removed DEF Takes
  <2> QED
    BY <1>1, <2>2 DEF Takes, TypeOK, mainVars
<1>2. CASE Hands(t)
  <2>1. Out(t) \in 1 .. Len(queues) /\ current[t] \in Blocks \cup {Poison}
    BY <1>2, Places DEF Hands, LinkProduce, Move, TypeOK
  <2>2. queues' \in Seq(Seq(Blocks \cup {Poison}))
    BY <1>2, <2>1, Appended DEF Hands, LinkProduce
  <2> QED
    BY <1>2, <2>2 DEF Hands, LinkProduce, Move, TypeOK, mainVars
<1>3. CASE Poisons(t)
  <2>1. Out(t) \in 1 .. Len(queues)
    BY <1>3, Places DEF Poisons
  <2>2. queues' \in Seq(Seq(Blocks \cup {Poison}))
    BY <1>3, <2>1, Appended DEF Poisons
  <2> QED
    BY <1>3, <2>2 DEF Poisons, TypeOK, mainVars
<1>4. CASE Handles(t)
  <2>1. /\ pc' = [pc EXCEPT ![t] = "produce"] /\ full' \in [Blocks -> BOOLEAN]
        /\ UNCHANGED <<main, runs, memory, complete_called, drained, queues, current, poisoned>>
    BY <1>4 DEF Handles, TypeOK, mainVars
  <2>2. seen[t] + 1 \in 0 .. MaxData
    BY <1>4, BoundsAssumption DEF Handles
  <2>3. seen' \in [Positions -> 0 .. MaxData]
    BY <1>4, <2>2 DEF Handles, TypeOK
  <2>4. data' \in [Blocks -> 0 .. MaxData]
    BY <1>4, <2>2 DEF Handles, TypeOK
  <2>5. failing' \in [Positions -> BOOLEAN]
    BY <1>4 DEF Handles, TypeOK
  <2> QED
    BY <2>1, <2>3, <2>4, <2>5 DEF TypeOK
<1>5. CASE Leaves(t)
  BY <1>5 DEF Leaves, TypeOK, mainVars
<1>6. CASE Fails(t)
  BY <1>6 DEF Fails, TypeOK
<1> QED
  BY <1>1, <1>2, <1>3, <1>4, <1>5, <1>6 DEF RingStep

LEMMA TypeMain ==
  ASSUME TypeOK, Shape, MainStep
  PROVE  TypeOK'
<1> USE BoundsAssumption
<1>1. CASE AddFirst
  <2>1. queues' \in Seq(Seq(Blocks \cup {Poison}))
    BY <1>1, Started
  <2>2. runs' \in 0 .. MaxRuns
    BY <1>1 DEF AddFirst, TypeOK
  <2>3. full' \in [Blocks -> BOOLEAN] /\ seen' \in [Positions -> 0 .. MaxData]
    BY <1>1 DEF AddFirst
  <2>4. /\ memory' \in BOOLEAN /\ pc' = [pc EXCEPT ![Source] = "init"]
        /\ UNCHANGED <<main, complete_called, drained, current, poisoned, failing, data>>
    BY <1>1 DEF AddFirst
  <2> QED
    BY <2>1, <2>2, <2>3, <2>4 DEF TypeOK
<1>2. CASE Add
  <2>1. queues' \in Seq(Seq(Blocks \cup {Poison}))
    BY <1>2, Widened
  <2> QED
    BY <1>2, <2>1 DEF Add, TypeOK, mainVars
<1>3. CASE Closes
  BY <1>3 DEF Closes, CompleteLoop, Wait, Complete, TypeOK
<1>4. CASE JoinThreads
  BY <1>4, CountType DEF JoinThreads, TypeOK
<1>5. CASE DrainBlock
  <2>1. queues # << >>
    BY <1>5 DEF DrainBlock, Shape, Running
  <2>2. 1 \in 1 .. Len(queues)
    <3>1. queues \in Seq(Seq(Blocks \cup {Poison}))
      BY DEF TypeOK
    <3> QED
      BY <2>1, <3>1, SeqNonempty
  <2>3. queues' \in Seq(Seq(Blocks \cup {Poison}))
    BY <1>5, <2>2, Removed DEF DrainBlock
  <2>4. drained' \in 0 .. BlockCount /\ main' \in {"draining", "without poison"}
    <3>1. drained \in 0 .. BlockCount /\ BlockCount \in Nat
      BY CountType DEF TypeOK
    <3>2. CASE drained = BlockCount
      BY <1>5, <3>1, <3>2 DEF DrainBlock
    <3>3. CASE drained # BlockCount
      BY <1>5, <3>1, <3>3 DEF DrainBlock
    <3> QED
      BY <3>2, <3>3
  <2>5. UNCHANGED <<runs, memory, complete_called, pc, current, poisoned, failing, data, full, seen>>
    BY <1>5 DEF DrainBlock
  <2> QED
    BY <2>3, <2>4, <2>5 DEF TypeOK
<1>6. CASE DrainPoison
  <2>1. /\ queues' = << >> /\ complete_called' = FALSE /\ main' = "idle"
        /\ UNCHANGED <<runs, drained, pc, current, poisoned, failing, data, full, seen>>
    BY <1>6 DEF DrainPoison
  <2>2. memory' \in BOOLEAN
    BY <1>6 DEF DrainPoison
  <2>3. << >> \in Seq(Seq(Blocks \cup {Poison}))
    OBVIOUS
  <2> QED
    BY <2>1, <2>2, <2>3 DEF TypeOK
<1> QED
  BY <1>1, <1>2, <1>3, <1>4, <1>5, <1>6 DEF MainStep, MainWaiting, Closes

-----------------------------------------------------------------------------
\* What a step of position t leaves alone.
LEMMA RingFrame ==
  ASSUME TypeOK, Shape, Links, NEW t \in Positions, RingStep(t)
  PROVE  /\ pc[t] # "none" /\ pc'[t] # "none" /\ Live /\ Live'
         /\ Len(queues') = Len(queues) /\ Len(queues) \in 2 .. MaxWorkers + 1
         /\ Workers' = Workers /\ main' \in {main, "aborted"}
         /\ memory' = memory /\ complete_called' = complete_called
         /\ \A s \in Positions : s # t =>
              pc'[s] = pc[s] /\ current'[s] = current[s] /\ poisoned'[s] = poisoned[s] /\ seen'[s] = seen[s]
<1>1. TypeOK'
  BY TypeRing
<1>2. pc[t] # "none"
  BY DEF RingStep, Takes, Hands, LinkProduce, Move, Poisons, Handles, Leaves, Fails
<1>3. Live /\ Len(queues) \in 2 .. MaxWorkers + 1
  BY <1>2, Places
<1>4. Len(queues') = Len(queues)
  <2>1. CASE Takes(t)
    BY <1>2, <2>1, Places, Removed DEF Takes
  <2>2. CASE Hands(t)
    <3>1. current[t] \in Blocks \cup {Poison}
      BY DEF TypeOK
    <3> QED
      BY <1>2, <2>2, <3>1, Places, Appended DEF Hands, LinkProduce
  <2>3. CASE Poisons(t)
    BY <1>2, <2>3, Places, Appended DEF Poisons
  <2>4. CASE Handles(t) \/ Leaves(t) \/ Fails(t)
    BY <2>4 DEF Handles, Leaves, Fails
  <2> QED
    BY <2>1, <2>2, <2>3, <2>4 DEF RingStep
<1>5. pc'[t] # "none"
  <2>1. CASE Takes(t)
    BY <2>1 DEF Takes, TypeOK
  <2>2. CASE Hands(t)
    BY <2>2 DEF Hands, LinkProduce, Move, TypeOK
  <2>3. CASE Poisons(t)
    BY <2>3 DEF Poisons, TypeOK
  <2>4. CASE Handles(t)
    BY <2>4 DEF Handles, TypeOK
  <2>5. CASE Leaves(t)
    BY <2>5 DEF Leaves, TypeOK
  <2>6. CASE Fails(t)
    BY <1>2, <2>6 DEF Fails
  <2> QED
    BY <2>1, <2>2, <2>3, <2>4, <2>5, <2>6 DEF RingStep
<1>6. main' \in {main, "aborted"} /\ memory' = memory /\ complete_called' = complete_called
  BY DEF RingStep, Takes, Hands, LinkProduce, Poisons, Handles, Leaves, Fails, mainVars
<1>7. ASSUME NEW s \in Positions, s # t
      PROVE  pc'[s] = pc[s] /\ current'[s] = current[s] /\ poisoned'[s] = poisoned[s] /\ seen'[s] = seen[s]
  <2> USE <1>7
  <2>1. CASE Takes(t)
    BY <2>1 DEF Takes, TypeOK
  <2>2. CASE Hands(t)
    BY <2>2 DEF Hands, LinkProduce, Move, TypeOK
  <2>3. CASE Poisons(t)
    BY <2>3 DEF Poisons, TypeOK
  <2>4. CASE Handles(t)
    BY <2>4 DEF Handles, TypeOK
  <2>5. CASE Leaves(t)
    BY <2>5 DEF Leaves, TypeOK
  <2>6. CASE Fails(t)
    BY <2>6 DEF Fails
  <2> QED
    BY <2>1, <2>2, <2>3, <2>4, <2>5, <2>6 DEF RingStep
<1>8. Workers' = Workers
  BY <1>4 DEF Workers
<1>9. Live'
  <2>1. queues' # << >>
    <3>1. queues' \in Seq(Seq(Blocks \cup {Poison}))
      BY <1>1 DEF TypeOK
    <3> QED
      BY <1>3, <1>4, <3>1, SeqNonempty
  <2> QED
    BY <1>3, <1>6, <2>1 DEF Live, Running
<1> QED
  BY <1>2, <1>3, <1>4, <1>5, <1>6, <1>7, <1>8, <1>9

\* A worker keeps its thread until it is joined.
LEMMA ShapeRing ==
  ASSUME TypeOK, Shape, Links, NEW t \in Positions, RingStep(t)
  PROVE  Shape'
<1>1. /\ pc[t] # "none" /\ pc'[t] # "none" /\ Live /\ Live'
      /\ Len(queues') = Len(queues) /\ Workers' = Workers
      /\ main' \in {main, "aborted"} /\ memory' = memory /\ complete_called' = complete_called
      /\ \A s \in Positions : s # t => pc'[s] = pc[s] /\ seen'[s] = seen[s]
  BY RingFrame
<1>2. Running /\ Running'
  BY <1>1 DEF Live
<1>3. ASSUME NEW s \in Positions
      PROVE  /\ pc'[s] # "none" <=> s \in 1 .. Workers \/ (s = Closer /\ complete_called)
             /\ pc'[s] = "none" => seen'[s] = 0
  <2>1. /\ pc[s] # "none" <=> s \in 1 .. Workers \/ (s = Closer /\ complete_called)
        /\ pc[s] = "none" => seen[s] = 0
    BY <1>1 DEF Shape
  <2> QED
    BY <1>1, <2>1
<1>4. main' # "without poison" /\ (main' = "joining" => complete_called')
  BY <1>1 DEF Shape
<1> QED
  BY <1>1, <1>2, <1>3, <1>4 DEF Shape

\* A step of a worker keeps the fields of the Links consistent.
LEMMA LinksRing ==
  ASSUME TypeOK, Shape, Links, NEW t \in Positions, RingStep(t)
  PROVE  Links'
<1>1. TypeOK' /\ \A s \in Positions : s # t =>
              pc'[s] = pc[s] /\ current'[s] = current[s] /\ poisoned'[s] = poisoned[s]
  BY RingFrame, TypeRing
<1>2. /\ pc'[t] \in {"work", "produce", "unwind"} => current'[t] \in Blocks
      /\ pc'[t] \in {"pass", "end"} => current'[t] = Poison
      /\ pc'[t] \in {"work", "produce", "consume", "pass", "unwind"} => ~poisoned'[t]
  <2>0. /\ pc[t] \in {"work", "produce", "unwind"} => current[t] \in Blocks
        /\ pc[t] \in {"pass", "end"} => current[t] = Poison
        /\ pc[t] \in {"work", "produce", "consume", "pass", "unwind"} => ~poisoned[t]
    BY DEF Links, Holds
  <2>1. CASE Takes(t)
    <3>1. In(t) \in 1 .. Len(queues) /\ queues[In(t)] # << >>
      BY <2>1, Places DEF Takes
    <3>2. queues[In(t)][1] \in Blocks \cup {Poison}
      BY <2>1, <3>1, Removed DEF Takes
    <3>3. current'[t] = queues[In(t)][1] /\ ~poisoned'[t]
      BY <2>1 DEF Takes, TypeOK
    <3>4. pc'[t] = "work" \/ (queues[In(t)][1] = Poison /\ pc'[t] \in {"end", "pass"})
      BY <2>1 DEF Takes, TypeOK
    <3>5. pc'[t] = "work" => queues[In(t)][1] # Poison
      BY <2>1 DEF Takes, TypeOK
    <3> QED
      BY <3>2, <3>3, <3>4, <3>5
  <2>2. CASE Hands(t)
    BY <2>0, <2>2 DEF Hands, LinkProduce, Move, TypeOK
  <2>3. CASE Poisons(t)
    BY <2>3 DEF Poisons, TypeOK
  <2>4. CASE Handles(t)
    BY <2>0, <2>4 DEF Handles, TypeOK
  <2>5. CASE Leaves(t)
    BY <2>0, <2>5 DEF Leaves, TypeOK
  <2>6. CASE Fails(t)
    BY <2>0, <2>6 DEF Fails
  <2> QED
    BY <2>1, <2>2, <2>3, <2>4, <2>5, <2>6 DEF RingStep
<1> QED
  BY <1>1, <1>2 DEF Links, Holds

\* The queue the main thread drains is there.
LEMMA LeadIsThere ==
  ASSUME TypeOK, Shape, main = "draining"
  PROVE  Running /\ Len(queues) \in 2 .. MaxWorkers + 1 /\ MaxWorkers \in Nat /\ 1 \in 1 .. Len(queues)
<1>1. Running /\ queues \in Seq(Seq(Blocks \cup {Poison})) /\ MaxWorkers \in Nat
  BY BoundsAssumption DEF TypeOK, Shape
<1>2. Len(queues) # 0
  BY <1>1, SeqNonempty DEF Running
<1> QED
  BY <1>1, <1>2 DEF Shape

\* As long as the poison is in the lead queue, the drain never counts too far.
LEMMA DrainGoesOn ==
  ASSUME TypeOK, Shape, Drained, DrainBlock
  PROVE  /\ drained' = drained + 1 /\ main' = "draining"
         /\ queues' = [queues EXCEPT ![1] = Tail(@)] /\ queues[1] # << >> /\ queues[1][1] # Poison
         /\ UNCHANGED <<runs, memory, complete_called, pc, current, poisoned, failing, data, full, seen>>
<1>1. main = "draining" /\ queues[1] # << >> /\ Head(queues[1]) # Poison
  BY DEF DrainBlock
<1>2. 1 \in 1 .. Len(queues)
  BY <1>1, LeadIsThere
<1>3. Len(queues[1]) \in Nat \ {0} /\ queues[1][1] = Head(queues[1])
  BY <1>1, <1>2, QueueType, SeqTail
<1>4. drained # BlockCount
  BY <1>1, <1>3, CountType DEF Drained, TypeOK
<1> QED
  BY <1>1, <1>3, <1>4 DEF DrainBlock

\* The main thread brings up and takes down threads and queues together.
LEMMA ShapeMain ==
  ASSUME TypeOK, Shape, Drained, MainStep
  PROVE  Shape'
<1>1. CASE AddFirst
  <2>1. main = "idle" /\ ~Running /\ ~complete_called /\ complete_called' = complete_called
        /\ main' = main /\ memory' = TRUE /\ pc' = [pc EXCEPT ![Source] = "init"]
        /\ seen' = [t \in Positions |-> 0]
    BY <1>1 DEF AddFirst, Shape
  <2>2. \A t \in Positions : pc[t] = "none"
    BY <2>1 DEF Shape, Live
  <2>3. Len(queues') = 2 /\ queues' \in Seq(Seq(Blocks \cup {Poison}))
    BY <1>1, Started
  <2>4. queues' # << >> /\ Workers' = 1 /\ MaxWorkers \in Nat \ {0}
    BY <2>3, SeqNonempty, BoundsAssumption DEF Workers
  <2>5. Running' /\ Live'
    BY <2>1, <2>4 DEF Running, Live
  <2>6. ASSUME NEW t \in Positions
        PROVE  /\ pc'[t] # "none" <=> t \in 1 .. Workers' \/ (t = Closer /\ complete_called')
               /\ pc'[t] = "none" => seen'[t] = 0
    <3>1. pc'[t] = IF t = 1 THEN "init" ELSE "none"
      BY <2>1, <2>2 DEF TypeOK, Source
    <3> QED
      BY <2>1, <2>4, <3>1 DEF Positions
  <2> QED
    BY <2>1, <2>3, <2>4, <2>5, <2>6 DEF Shape
<1>2. CASE Add
  <2>1. main = "idle" /\ Running /\ ~complete_called /\ Workers < MaxWorkers
        /\ main' = main /\ complete_called' = complete_called /\ memory' = memory /\ seen' = seen
        /\ pc' = [pc EXCEPT ![Workers + 1] = "init"] /\ Live
    BY <1>2 DEF Add, mainVars, Live
  <2>2. queues' \in Seq(Seq(Blocks \cup {Poison})) /\ Len(queues') = Len(queues) + 1
    BY <1>2, Widened
  <2>3. Len(queues) \in 2 .. MaxWorkers /\ MaxWorkers \in Nat
    <3>1. queues \in Seq(Seq(Blocks \cup {Poison})) /\ queues # << >>
      BY <2>1 DEF TypeOK, Running
    <3>2. Len(queues) \in Nat \ {0}
      BY <3>1, SeqNonempty
    <3> QED
      BY <2>1, <3>2, BoundsAssumption DEF Shape, Workers
  <2>4. queues' # << >>
    BY <2>2, <2>3, SeqNonempty
  <2>5. Running' /\ Live' /\ Workers' = Workers + 1 /\ Workers \in 1 .. MaxWorkers - 1
    BY <2>1, <2>2, <2>3, <2>4 DEF Running, Live, Workers
  <2>6. ASSUME NEW t \in Positions
        PROVE  /\ pc'[t] # "none" <=> t \in 1 .. Workers' \/ (t = Closer /\ complete_called')
               /\ pc'[t] = "none" => seen'[t] = 0
    <3>1. /\ pc[t] # "none" <=> t \in 1 .. Workers \/ (t = Closer /\ complete_called)
          /\ pc[t] = "none" => seen[t] = 0
      BY <2>1 DEF Shape
    <3>2. pc'[t] = IF t = Workers + 1 THEN "init" ELSE pc[t]
      BY <2>1 DEF TypeOK
    <3> QED
      BY <2>1, <2>5, <3>1, <3>2 DEF Positions
  <2> QED
    BY <2>1, <2>2, <2>3, <2>5, <2>6 DEF Shape
<1>3. CASE Closes
  <2>1. main = "idle" /\ Running /\ main' \in {"idle", "joining"} /\ complete_called'
        /\ memory' = memory /\ seen' = seen /\ queues' = queues
    BY <1>3 DEF Closes, CompleteLoop, Wait, Complete
  <2>2. Live /\ Live' /\ Running' /\ Workers' = Workers
    BY <2>1 DEF Live, Running, Workers
  <2>3. ASSUME NEW t \in Positions
        PROVE  /\ pc'[t] # "none" <=> t \in 1 .. Workers \/ t = Closer
               /\ pc'[t] = "none" => seen'[t] = 0
    <3>1. /\ pc[t] # "none" <=> t \in 1 .. Workers \/ (t = Closer /\ complete_called)
          /\ pc[t] = "none" => seen[t] = 0
      BY <2>2 DEF Shape
    <3>2. CASE complete_called
      BY <1>3, <2>1, <3>1, <3>2 DEF Closes, CompleteLoop, Wait
    <3>3. CASE ~complete_called
      <4>1. pc' = [pc EXCEPT ![Closer] = "init"]
        BY <1>3, <3>3 DEF Closes, CompleteLoop, Wait, Complete
      <4>2. pc'[t] = IF t = Closer THEN "init" ELSE pc[t]
        BY <4>1 DEF TypeOK
      <4> QED
        BY <2>1, <3>1, <3>3, <4>2
    <3> QED
      BY <3>2, <3>3
  <2> QED
    BY <2>1, <2>2, <2>3 DEF Shape
<1>4. CASE JoinThreads
  <2>1. main = "joining" /\ main' = "draining" /\ queues' = queues /\ memory' = memory
        /\ \A t \in Positions : pc'[t] = "none"
    BY <1>4 DEF JoinThreads
  <2>2. Running' /\ ~Live'
    BY <2>1 DEF Shape, Running, Live
  <2> QED
    BY <2>1, <2>2 DEF Shape, Running
<1>5. CASE DrainBlock
  <2>1. main' = "draining" /\ queues' = [queues EXCEPT ![1] = Tail(@)] /\ queues[1] # << >>
        /\ memory' = memory /\ pc' = pc
    BY <1>5, DrainGoesOn
  <2>2. main = "draining" /\ Running /\ ~Live /\ 1 \in 1 .. Len(queues)
        /\ Len(queues) \in 2 .. MaxWorkers + 1 /\ MaxWorkers \in Nat
    BY <1>5, LeadIsThere DEF DrainBlock, Live
  <2>3. Len(queues') = Len(queues) /\ queues' \in Seq(Seq(Blocks \cup {Poison}))
    BY <2>1, <2>2, Removed
  <2>4. Running' /\ ~Live'
    BY <2>1, <2>2, <2>3, SeqNonempty DEF Running, Live
  <2> QED
    BY <2>1, <2>2, <2>3, <2>4 DEF Shape
<1>6. CASE DrainPoison
  <2>1. main = "draining" /\ main' = "idle" /\ queues' = << >> /\ ~complete_called' /\ pc' = pc
    BY <1>6 DEF DrainPoison
  <2>2. ~Running' /\ ~Live' /\ Len(queues') = 0
    BY <2>1 DEF Running, Live
  <2>3. \A t \in Positions : pc[t] = "none"
    BY <2>1 DEF Shape, Live
  <2> QED
    BY <2>1, <2>2, <2>3 DEF Shape
<1> QED
  BY <1>1, <1>2, <1>3, <1>4, <1>5, <1>6 DEF MainStep, MainWaiting, Closes

\* The main thread touches no Link of a running worker.
LEMMA LinksMain ==
  ASSUME TypeOK, Links, MainStep
  PROVE  Links'
<1>1. UNCHANGED <<current, poisoned>>
  BY DEF MainStep, MainWaiting, AddFirst, Add, CompleteLoop, Wait, JoinThreads, DrainBlock, DrainPoison
<1>2. ASSUME NEW t \in Positions
      PROVE  pc'[t] = pc[t] \/ pc'[t] \in {"init", "none"}
  BY DEF TypeOK, MainStep, MainWaiting, AddFirst, Add, CompleteLoop, Wait, Complete, JoinThreads,
         DrainBlock, DrainPoison
<1> QED
  BY <1>1, <1>2 DEF Links, Holds

\* A worker that fails is there, and stays.
LEMMA FailuresRing ==
  ASSUME TypeOK, Shape, Links, Failures, NEW t \in Positions, RingStep(t)
  PROVE  Failures'
<1>1. pc'[t] # "none" /\ \A s \in Positions : s # t => pc'[s] = pc[s]
  BY RingFrame
<1>2. \A s \in Positions : s # t => failing'[s] = failing[s]
  BY DEF RingStep, Takes, Hands, LinkProduce, Poisons, Handles, Leaves, Fails, TypeOK
<1> QED
  BY <1>1, <1>2 DEF Failures

\* The main thread joins no thread that ends in the handler.
LEMMA FailuresMain ==
  ASSUME TypeOK, Failures, MainStep
  PROVE  Failures'
<1>1. failing' = failing
  BY DEF MainStep, MainWaiting, AddFirst, Add, CompleteLoop, Wait, JoinThreads, DrainBlock, DrainPoison
<1>2. CASE JoinThreads
  <2>1. \A t \in Positions : ~failing[t]
    BY <1>2 DEF JoinThreads, Ended, Failures
  <2> QED
    BY <1>1, <2>1 DEF Failures
<1>3. CASE ~JoinThreads
  <2>1. \A t \in Positions : pc'[t] = pc[t] \/ pc'[t] = "init"
    BY <1>3 DEF TypeOK, MainStep, MainWaiting, AddFirst, Add, CompleteLoop, Wait, Complete,
                DrainBlock, DrainPoison
  <2> QED
    BY <1>1, <2>1 DEF Failures
<1> QED
  BY <1>2, <1>3

-----------------------------------------------------------------------------
\* The threads of a live run.
LEMMA WhoIsThere ==
  ASSUME TypeOK, Shape, Live
  PROVE  /\ \A s \in 1 .. Workers : s \in Positions /\ pc[s] # "none"
         /\ \A s \in Positions : pc[s] # "none" => s \in 1 .. Workers \/ (s = Closer /\ complete_called)
         /\ \A s \in Positions : pc[s] = "none" => seen[s] = 0
         /\ Len(queues) \in 2 .. MaxWorkers + 1 /\ MaxWorkers \in Nat \ {0} /\ Workers \in 1 .. MaxWorkers
         /\ Workers = Len(queues) - 1 /\ Closer = MaxWorkers + 1 /\ Closer \in Positions
         /\ Positions = 1 .. MaxWorkers + 1
<1>1. queues \in Seq(Seq(Blocks \cup {Poison})) /\ queues # << >>
  BY DEF TypeOK, Live, Running
<1>2. Len(queues) \in Nat \ {0} /\ MaxWorkers \in Nat \ {0}
  BY <1>1, SeqNonempty, BoundsAssumption
<1>3. Len(queues) \in 2 .. MaxWorkers + 1 /\ Workers = Len(queues) - 1 /\ Workers \in 1 .. MaxWorkers
  <2>1. Len(queues) \in {0} \cup 2 .. MaxWorkers + 1
    BY DEF Shape
  <2> QED
    BY <1>2, <2>1 DEF Workers
<1>4. Closer = MaxWorkers + 1 /\ Closer \in Positions /\ Positions = 1 .. MaxWorkers + 1
  BY <1>2 DEF Closer, Positions
<1>5. \A s \in Positions :
        /\ pc[s] # "none" <=> s \in 1 .. Workers \/ (s = Closer /\ complete_called)
        /\ pc[s] = "none" => seen[s] = 0
  BY DEF Shape
<1>6. ASSUME NEW s \in 1 .. Workers PROVE s \in Positions
  BY <1>2, <1>3, <1>4, <1>6
<1> QED
  BY <1>2, <1>3, <1>4, <1>5, <1>6

\* A step that handles, leaves or fails takes nothing and hands nothing on.
LEMMA NothingTaken ==
  ASSUME TypeOK, NEW t \in Positions, Handles(t) \/ Leaves(t) \/ Fails(t)
  PROVE  ~Takes(t) /\ ~Hands(t)
<1>1. \/ pc[t] \notin {"init", "consume", "produce"}
      \/ pc'[t] = pc[t]
  BY DEF Handles, Leaves, Fails
<1>2. Takes(t) => pc[t] \in {"init", "consume"} /\ pc'[t] \in {"work", "end", "pass"}
  BY DEF Takes, TypeOK
<1>3. Hands(t) => pc[t] = "produce" /\ pc'[t] = "consume"
  BY DEF Hands, LinkProduce, Move, TypeOK
<1> QED
  BY <1>1, <1>2, <1>3

\* Only poison ends an input, and only Poisons passes the end on.
LEMMA OverAndSent ==
  ASSUME TypeOK, Shape, Links, NEW t \in Positions, RingStep(t)
  PROVE  /\ \A s \in Positions : s # t => (Over(s)' <=> Over(s)) /\ (Sent(s)' <=> Sent(s))
         /\ Over(t) => Over(t)'
         /\ Sent(t) => Sent(t)'
         /\ Sent(t)' => Sent(t) \/ Poisons(t)
         /\ Over(t)' => \/ Over(t)
                        \/ Poisons(t) /\ t = Source
                        \/ Takes(t) /\ queues[In(t)][1] = Poison
         /\ Takes(t) => ~Over(t) /\ ~Sent(t)
         /\ Hands(t) => ~Over(t) /\ ~Sent(t)
         /\ Poisons(t) => ~Sent(t) /\ Sent(t)' /\ (Over(t) \/ t = Source)
<1>1. \A s \in Positions : s # t => (Over(s)' <=> Over(s)) /\ (Sent(s)' <=> Sent(s))
  BY RingFrame DEF Over, Sent
<1> USE DEF Over, Sent
<1>2. CASE Takes(t)
  <2>1. pc[t] \in {"init", "consume"} /\ ~poisoned'[t]
    BY <1>2 DEF Takes, TypeOK
  <2>2. \/ pc'[t] = "work"
        \/ pc'[t] \in {"end", "pass"} /\ queues[In(t)][1] = Poison
    BY <1>2 DEF Takes, TypeOK
  <2> QED
    BY <1>1, <1>2, <2>1, <2>2 DEF Hands, LinkProduce, Move, Poisons
<1>3. CASE Hands(t)
  <2>1. pc[t] = "produce" /\ pc'[t] = "consume"
    BY <1>3 DEF Hands, LinkProduce, Move, TypeOK
  <2> QED
    BY <1>1, <2>1 DEF Takes, Poisons
<1>4. CASE Poisons(t)
  <2>1. pc[t] \in {"work", "pass", "end"} /\ (pc[t] = "work" => t = Source) /\ ~poisoned[t]
    BY <1>4 DEF Poisons
  <2>2. pc'[t] = "gone" \/ (pc'[t] = "end" /\ poisoned'[t])
    BY <1>4 DEF Poisons, TypeOK
  <2>3. ~Takes(t) /\ ~Hands(t)
    BY <2>1 DEF Takes, Hands, LinkProduce, Move
  <2>4. ~Sent(t) /\ Sent(t)' /\ (Over(t) \/ t = Source) /\ Over(t)'
    BY <2>1, <2>2
  <2> HIDE DEF Over, Sent
  <2> QED
    BY <1>1, <1>4, <2>3, <2>4
<1>5. CASE Handles(t)
  <2>1. pc[t] = "work" /\ pc'[t] = "produce"
    BY <1>5 DEF Handles, TypeOK
  <2>2. ~Poisons(t)
    <3>1. Poisons(t) => pc'[t] \in {"end", "gone"}
      BY DEF Poisons, TypeOK
    <3> QED
      BY <2>1, <3>1
  <2> QED
    BY <1>1, <2>1, <2>2 DEF Takes, Hands, LinkProduce, Move
<1>6. CASE Leaves(t) \/ Fails(t)
  <2>1. \/ pc[t] = "work" /\ pc'[t] = "unwind"
        \/ pc[t] = "unwind" /\ pc'[t] = "caught"
        \/ pc[t] = "end" /\ poisoned[t] /\ pc'[t] = "gone"
        \/ pc'[t] = pc[t] /\ poisoned' = poisoned /\ current' = current /\ queues' = queues
    BY <1>6 DEF Leaves, Fails, TypeOK
  <2>2. ~Poisons(t)
    <3>1. Poisons(t) => pc'[t] \in {"end", "gone"} /\ ~poisoned[t]
      BY DEF Poisons, TypeOK
    <3>2. Poisons(t) => pc'[t] # pc[t] \/ poisoned'[t] # poisoned[t]
      BY DEF Poisons, TypeOK
    <3> QED
      BY <2>1, <3>1, <3>2
  <2>3. ~Takes(t) /\ ~Hands(t)
    BY <1>6, NothingTaken
  <2>4. poisoned' = poisoned
    BY <1>6 DEF Leaves, Fails
  <2>5. (Sent(t)' <=> Sent(t)) /\ (Over(t)' <=> Over(t))
    BY <2>1, <2>4
  <2> HIDE DEF Over, Sent
  <2> QED
    BY <1>1, <2>2, <2>3, <2>5
<1> QED
  BY <1>2, <1>3, <1>4, <1>5, <1>6 DEF RingStep

\* Only Poisons puts poison into a queue.
LEMMA PoisonComesFrom ==
  ASSUME TypeOK, Shape, Links, BlocksAssumption, NEW t \in Positions, RingStep(t),
         NEW q \in 1 .. Len(queues), NEW i \in 1 .. Len(queues'[q]), queues'[q][i] = Poison
  PROVE  \/ \E j \in 1 .. Len(queues[q]) : queues[q][j] = Poison
         \/ q = Out(t) /\ Poisons(t)
<1>1. pc[t] # "none"
  BY RingFrame
<1>2. Out(t) \in 1 .. Len(queues) /\ In(t) \in 1 .. Len(queues)
  BY <1>1, Places
<1>3. CASE Takes(t)
  <2>1. CASE q = In(t)
    <3>1. Len(queues[q]) \in Nat \ {0} /\ Len(queues'[q]) = Len(queues[q]) - 1
          /\ \A j \in 1 .. Len(queues[q]) - 1 : queues'[q][j] = queues[q][j + 1]
      BY <1>2, <1>3, <2>1, Removed DEF Takes
    <3>2. i + 1 \in 1 .. Len(queues[q]) /\ queues[q][i + 1] = Poison
      BY <3>1
    <3> QED
      BY <3>2
  <2>2. CASE q # In(t)
    BY <1>2, <1>3, <2>2, Removed DEF Takes
  <2> QED
    BY <2>1, <2>2
<1>4. CASE Hands(t)
  <2>1. current[t] \in Blocks /\ Produce(t, current[t])
    BY <1>4 DEF Hands, LinkProduce, Move, Links, Holds
  <2>2. CASE q = Out(t)
    <3>1. Len(queues[q]) \in Nat /\ Len(queues'[q]) = Len(queues[q]) + 1
          /\ queues'[q][Len(queues[q]) + 1] = current[t]
          /\ \A j \in 1 .. Len(queues[q]) : queues'[q][j] = queues[q][j]
      BY <1>2, <2>1, <2>2, Appended
    <3>2. i # Len(queues[q]) + 1
      BY <2>1, <3>1
    <3> QED
      BY <3>1, <3>2
  <2>3. CASE q # Out(t)
    BY <1>2, <2>1, <2>3, Appended
  <2> QED
    BY <2>2, <2>3
<1>5. CASE Poisons(t)
  <2>1. CASE q # Out(t)
    BY <1>2, <1>5, <2>1, Appended DEF Poisons
  <2> QED
    BY <1>5, <2>1
<1>6. CASE Handles(t) \/ Leaves(t) \/ Fails(t)
  BY <1>6 DEF Handles, Leaves, Fails
<1> QED
  BY <1>3, <1>4, <1>5, <1>6 DEF RingStep

\* A step of a worker lets the poison overtake nothing.
LEMMA PoisonFollowsRing ==
  ASSUME TypeOK, Shape, Links, PoisonFollows, NEW t \in Positions, RingStep(t)
  PROVE  PoisonFollows'
<1>1. /\ pc[t] # "none" /\ Live /\ Len(queues') = Len(queues) /\ Len(queues) \in 2 .. MaxWorkers + 1
      /\ \A s \in Positions : s # t => pc'[s] = pc[s]
  BY RingFrame
<1>2. /\ Out(t) \in 1 .. Len(queues) /\ In(t) \in 1 .. Len(queues) /\ MaxWorkers \in Nat
      /\ Source = 1 /\ Closer = MaxWorkers + 1 /\ Workers = Len(queues) - 1
      /\ t \in 1 .. Workers \/ t = Closer
  BY <1>1, Places
<1>3. Positions = 1 .. MaxWorkers + 1
  BY DEF Positions
<1>4. /\ \A s \in Positions : Sent(s) => Sent(s)'
      /\ Takes(t) => ~Over(t) /\ ~Sent(t)
      /\ Poisons(t) => ~Sent(t) /\ Sent(t)' /\ (Over(t) \/ t = Source)
  BY OverAndSent
<1>5. \A s \in Positions : s < t /\ pc[s] # "none" => s \in 1 .. Workers
  <2>1. \A s \in Positions : pc[s] # "none" => s \in 1 .. Workers \/ s = Closer
    BY <1>1, WhoIsThere
  <2> QED
    BY <1>2, <1>3, <2>1
<1>6. \A s \in 1 .. Workers : pc[s] # "none" /\ s \in Positions
  BY <1>1, WhoIsThere
<1>7. ASSUME NEW s \in Positions, NEW u \in Positions, s < u, pc'[s] # "none", Over(u)'
      PROVE  Sent(s)'
  <2>1. pc[s] # "none"
    BY <1>1, <1>7
  <2>2. CASE Over(u)
    BY <1>1, <1>4, <1>7, <2>1, <2>2 DEF PoisonFollows
  <2>3. CASE u = t /\ ~Over(t)
    <3>1. Takes(t) /\ queues[In(t)][1] = Poison
      BY <1>2, <1>3, <1>7, <2>3, OverAndSent
    <3>2. In(t) # 1
      <4>1. In(t) = 1 => t = Source
        BY <1>1, <1>2 DEF In
      <4>2. In(t) = 1 => queues[1] # << >> /\ pc[Source] \in {"init", "consume"}
        BY <3>1, <4>1 DEF Takes
      <4> QED
        BY <3>1, <4>2, SourceTakesBlocks
    <3>3. s \in 1 .. In(t) - 1
      BY <1>2, <1>3, <1>5, <1>7, <2>1, <2>3 DEF In
    <3>4. 1 \in 1 .. Len(queues[In(t)])
      BY <1>2, <3>1, QueueType DEF Takes
    <3>5. In(t) \in 2 .. Len(queues)
      BY <1>1, <1>2, <3>2
    <3>6. Sent(s)
      BY <1>1, <3>1, <3>3, <3>4, <3>5 DEF PoisonFollows
    <3> QED
      BY <1>4, <3>6
  <2> QED
    BY <1>7, <2>2, <2>3, OverAndSent
<1>8. ASSUME NEW q \in 2 .. Len(queues), NEW i \in 1 .. Len(queues'[q]), queues'[q][i] = Poison,
             NEW s \in 1 .. q - 1
      PROVE  Sent(s)'
  <2>1. s \in Positions /\ s \in 1 .. Workers /\ q \in 1 .. Len(queues)
    BY <1>1, <1>2, <1>3
  <2>2. CASE \E j \in 1 .. Len(queues[q]) : queues[q][j] = Poison
    BY <1>1, <1>4, <2>1, <2>2 DEF PoisonFollows
  <2>3. CASE q = Out(t) /\ Poisons(t)
    <3>1. s = t \/ s < t
      BY <1>1, <1>2, <2>3 DEF Out
    <3>2. CASE s < t
      <4>1. Over(t)
        BY <1>2, <1>4, <2>3, <3>2
      <4> QED
        BY <1>1, <1>4, <1>6, <2>1, <3>2, <4>1 DEF PoisonFollows
    <3> QED
      BY <1>4, <2>3, <3>1, <3>2
  <2> QED
    BY <1>8, <2>1, <2>2, <2>3, PoisonComesFrom, BlocksAssumption
<1>9. ASSUME NEW i \in 1 .. Len(queues'[1]), queues'[1][i] = Poison
      PROVE  Sent(Closer)'
  <2>1. Closer \in Positions /\ 1 \in 1 .. Len(queues)
    BY <1>1, <1>2, <1>3
  <2>2. CASE \E j \in 1 .. Len(queues[1]) : queues[1][j] = Poison
    BY <1>1, <1>4, <2>1, <2>2 DEF PoisonFollows
  <2>3. CASE 1 = Out(t) /\ Poisons(t)
    <3>1. t = Closer
      BY <1>1, <1>2, <2>3 DEF Out
    <3> QED
      BY <1>4, <2>3, <3>1
  <2> QED
    BY <1>9, <2>1, <2>2, <2>3, PoisonComesFrom, BlocksAssumption
<1>10. ASSUME Sent(Closer)'
       PROVE  queues'[1] # << >> /\ queues'[1][Len(queues'[1])] = Poison
  <2>1. Closer \in Positions /\ 1 \in 1 .. Len(queues)
    BY <1>1, <1>2, <1>3
  <2>2. CASE Sent(Closer)
    <3>1. queues[1] # << >> /\ queues[1][Len(queues[1])] = Poison
      BY <1>1, <2>2 DEF PoisonFollows
    <3>2. queues'[1] = queues[1]
      <4>1. CASE Takes(t)
        <5>1. CASE In(t) = 1
          <6>1. t = Source
            BY <1>1, <1>2, <5>1 DEF In
          <6> QED
            BY <2>2, <3>1, <4>1, <6>1, SourceTakesBlocks DEF Takes
        <5>2. CASE In(t) # 1
          BY <1>2, <2>1, <4>1, <5>2, Removed DEF Takes
        <5> QED
          BY <5>1, <5>2
      <4>2. CASE Hands(t) \/ Poisons(t)
        <5>1. t # Closer
          BY <2>2, <4>2, OverAndSent
        <5>2. Out(t) # 1
          BY <1>2, <5>1 DEF Out
        <5>3. \E x \in Blocks \cup {Poison} : Produce(t, x)
          BY <4>2 DEF Hands, LinkProduce, Poisons, TypeOK
        <5> QED
          BY <1>2, <2>1, <5>2, <5>3, Appended
      <4>3. CASE Handles(t) \/ Leaves(t) \/ Fails(t)
        BY <4>3 DEF Handles, Leaves, Fails
      <4> QED
        BY <4>1, <4>2, <4>3 DEF RingStep
    <3> QED
      BY <3>1, <3>2
  <2>3. CASE t = Closer /\ Poisons(t)
    <3>1. Out(t) = 1 /\ Produce(t, Poison)
      BY <2>3 DEF Out, Poisons
    <3>2. /\ queues' \in Seq(Seq(Blocks \cup {Poison})) /\ Len(queues[1]) \in Nat
          /\ Len(queues'[1]) = Len(queues[1]) + 1 /\ queues'[1][Len(queues[1]) + 1] = Poison
      BY <2>1, <3>1, Appended
    <3>3. queues'[1] \in Seq(Blocks \cup {Poison})
      BY <1>1, <2>1, <3>2, SeqElement
    <3> QED
      BY <3>2, <3>3, SeqNonempty
  <2> QED
    BY <1>10, <2>1, <2>2, <2>3, OverAndSent
<1> QED
  BY <1>1, <1>7, <1>8, <1>9, <1>10 DEF PoisonFollows

\* Nobody is added, joined or drained in front of the poison.
LEMMA PoisonFollowsMain ==
  ASSUME TypeOK, Shape, PoisonFollows, Drained, MainStep
  PROVE  PoisonFollows'
<1>1. CASE AddFirst
  <2>1. main = "idle" /\ ~Running /\ pc' = [pc EXCEPT ![Source] = "init"]
    BY <1>1 DEF AddFirst
  <2>2. ASSUME NEW t \in Positions PROVE pc'[t] \in {"init", "none"}
    BY <2>1 DEF Shape, Live, TypeOK
  <2>3. \A t \in Positions : ~Over(t)' /\ ~Sent(t)'
    BY <2>2 DEF Over, Sent
  <2>4. Len(queues') = 2 /\ Len(queues'[1]) = BlockCount /\ Len(queues'[2]) = 0
        /\ \A i \in 1 .. BlockCount : queues'[1][i] \in Blocks
    BY <1>1, Started
  <2>5. \A q \in 2 .. Len(queues') : Len(queues'[q]) = 0
    BY <2>4
  <2>6. Closer \in Positions
    BY BoundsAssumption DEF Closer, Positions
  <2> QED
    BY <2>3, <2>4, <2>5, <2>6, BlocksAssumption DEF PoisonFollows
<1>2. CASE Add
  <2>1. Live /\ ~complete_called /\ Workers < MaxWorkers /\ poisoned' = poisoned
        /\ pc' = [pc EXCEPT ![Workers + 1] = "init"]
    BY <1>2 DEF Add, Live
  <2>2. /\ Len(queues) \in Nat /\ Len(queues') = Len(queues) + 1 /\ Len(queues'[Len(queues) + 1]) = 0
        /\ \A q \in 1 .. Len(queues) : queues'[q] = queues[q]
    BY <1>2, Widened
  <2>3. Workers = Len(queues) - 1 /\ Len(queues) \in 2 .. MaxWorkers + 1 /\ MaxWorkers \in Nat
        /\ Closer = MaxWorkers + 1 /\ Positions = 1 .. MaxWorkers + 1
    BY <2>1, WhoIsThere
  <2>4. \A t \in Positions : pc[t] # "none" => t \in 1 .. Workers
    BY <2>1, WhoIsThere
  <2>5. ASSUME NEW t \in Positions
        PROVE  /\ t = Workers + 1 => pc'[t] = "init" /\ pc[t] = "none"
               /\ t # Workers + 1 => pc'[t] = pc[t]
    <3>1. t = Workers + 1 => pc[t] = "none"
      BY <2>3, <2>4
    <3>2. pc' = [pc EXCEPT ![Workers + 1] = "init"] /\ DOMAIN pc = Positions
      BY <2>1 DEF TypeOK
    <3> QED
      BY <3>1, <3>2
  <2>6. \A t \in Positions : (Over(t)' <=> Over(t)) /\ (Sent(t)' <=> Sent(t))
    BY <2>1, <2>5 DEF Over, Sent
  <2>7. ASSUME NEW s \in Positions, NEW t \in Positions, s < t, pc'[s] # "none", Over(t)'
        PROVE  Sent(s)'
    <3>1. Over(t) /\ t \in 1 .. Workers
      BY <2>4, <2>6, <2>7 DEF Over
    <3>2. s # Workers + 1
      BY <2>3, <2>7, <3>1
    <3> QED
      BY <2>1, <2>5, <2>6, <2>7, <3>1, <3>2 DEF PoisonFollows
  <2>8. ASSUME NEW q \in 2 .. Len(queues'), NEW i \in 1 .. Len(queues'[q]), queues'[q][i] = Poison,
               NEW s \in 1 .. q - 1
        PROVE  Sent(s)'
    <3>1. q \in 2 .. Len(queues) /\ queues'[q] = queues[q]
      BY <2>2, <2>8
    <3>2. Sent(s) /\ s \in Positions
      BY <2>1, <2>3, <2>8, <3>1 DEF PoisonFollows
    <3> QED
      BY <2>6, <3>2
  <2>9. queues'[1] = queues[1] /\ (Sent(Closer)' <=> Sent(Closer))
    BY <2>2, <2>3, <2>6
  <2> QED
    BY <2>1, <2>7, <2>8, <2>9 DEF PoisonFollows
<1>3. CASE Closes
  <2>1. Live /\ queues' = queues /\ poisoned' = poisoned
    BY <1>3 DEF Closes, CompleteLoop, Wait, Live
  <2>2. Closer = MaxWorkers + 1 /\ Closer \in Positions /\ Positions = 1 .. MaxWorkers + 1
        /\ Workers \in 1 .. MaxWorkers /\ MaxWorkers \in Nat
    BY <2>1, WhoIsThere
  <2>3. CASE pc' = pc
    BY <2>1, <2>3 DEF PoisonFollows, Over, Sent
  <2>4. CASE ~complete_called
    <3>1. pc' = [pc EXCEPT ![Closer] = "init"]
      BY <1>3, <2>4 DEF Closes, CompleteLoop, Wait, Complete
    <3>2. pc[Closer] = "none"
      BY <2>1, <2>2, <2>4, WhoIsThere
    <3>3. ASSUME NEW t \in Positions
          PROVE  IF t = Closer THEN pc'[t] = "init" /\ pc[t] = "none" ELSE pc'[t] = pc[t]
      BY <3>1, <3>2 DEF TypeOK
    <3>4. \A t \in Positions : (Over(t)' <=> Over(t)) /\ (Sent(t)' <=> Sent(t))
      BY <2>1, <3>3 DEF Over, Sent
    <3>5. ASSUME NEW s \in Positions, NEW t \in Positions, s < t, pc'[s] # "none", Over(t)'
          PROVE  Sent(s)'
      <4>1. s # Closer
        BY <2>2, <3>5
      <4> QED
        BY <2>1, <3>3, <3>4, <3>5, <4>1 DEF PoisonFollows
    <3>6. ASSUME NEW q \in 2 .. Len(queues), NEW s \in 1 .. q - 1
          PROVE  s \in Positions
      <4>1. Len(queues) \in 2 .. MaxWorkers + 1
        BY <2>1, WhoIsThere
      <4> QED
        BY <2>2, <3>6, <4>1
    <3>7. /\ \A q \in 2 .. Len(queues) : \A i \in 1 .. Len(queues[q]) :
               queues[q][i] = Poison => \A s \in 1 .. q - 1 : Sent(s)'
          /\ \A i \in 1 .. Len(queues[1]) : queues[1][i] = Poison => Sent(Closer)'
          /\ Sent(Closer)' => queues[1] # << >> /\ queues[1][Len(queues[1])] = Poison
      BY <2>1, <2>2, <3>4, <3>6 DEF PoisonFollows
    <3> QED
      BY <2>1, <3>5, <3>7 DEF PoisonFollows
  <2> QED
    BY <1>3, <2>3, <2>4 DEF Closes, CompleteLoop, Wait
<1>4. CASE JoinThreads \/ DrainBlock \/ DrainPoison
  <2>1. main' = "draining" \/ queues' = << >>
    BY <1>4, DrainGoesOn DEF JoinThreads, DrainPoison
  <2> QED
    BY <2>1 DEF PoisonFollows, Live, Running
<1> QED
  BY <1>1, <1>2, <1>3, <1>4 DEF MainStep, MainWaiting, Closes

-----------------------------------------------------------------------------
\* Whoever sends poison on sends nothing after it.
LEMMA PoisonLastRing ==
  ASSUME TypeOK, Shape, Links, PoisonFollows, PoisonLast, NEW t \in Positions, RingStep(t)
  PROVE  PoisonLast'
<1>1. pc[t] # "none" /\ Len(queues') = Len(queues)
  BY RingFrame
<1>2. Out(t) \in 1 .. Len(queues) /\ In(t) \in 1 .. Len(queues)
  BY <1>1, Places
<1>3. SUFFICES ASSUME NEW q \in 1 .. Len(queues), NEW i \in 1 .. Len(queues'[q]), queues'[q][i] = Poison
               PROVE  i = Len(queues'[q])
  BY <1>1 DEF PoisonLast
<1>4. CASE Takes(t)
  <2>1. CASE q = In(t)
    <3>1. Len(queues[q]) \in Nat \ {0} /\ Len(queues'[q]) = Len(queues[q]) - 1
          /\ \A j \in 1 .. Len(queues[q]) - 1 : queues'[q][j] = queues[q][j + 1]
      BY <1>2, <1>4, <2>1, Removed DEF Takes
    <3>2. i + 1 \in 1 .. Len(queues[q]) /\ queues[q][i + 1] = Poison
      BY <1>3, <3>1
    <3>3. i + 1 = Len(queues[q])
      BY <3>2 DEF PoisonLast
    <3> QED
      BY <3>1, <3>3
  <2>2. CASE q # In(t)
    <3>1. queues'[q] = queues[q]
      BY <1>2, <1>4, <2>2, Removed DEF Takes
    <3> QED
      BY <1>3, <3>1 DEF PoisonLast
  <2> QED
    BY <2>1, <2>2
<1>5. CASE Hands(t) \/ Poisons(t)
  <2>1. PICK x \in Blocks \cup {Poison} : Produce(t, x)
    BY <1>5 DEF Hands, LinkProduce, Poisons, TypeOK
  <2>2. CASE q = Out(t)
    <3>1. ~Sent(t)
      BY <1>5, OverAndSent
    <3>2. \A j \in 1 .. Len(queues[q]) : queues[q][j] # Poison
      BY <1>1, <2>2, <3>1, NoPoisonAhead
    <3>3. Len(queues[q]) \in Nat /\ Len(queues'[q]) = Len(queues[q]) + 1
          /\ \A j \in 1 .. Len(queues[q]) : queues'[q][j] = queues[q][j]
      BY <1>2, <2>1, <2>2, Appended
    <3>4. i \in 1 .. Len(queues[q]) => queues'[q][i] # Poison
      BY <3>2, <3>3
    <3>5. i \in 1 .. Len(queues[q]) + 1
      BY <1>3, <3>3
    <3> QED
      BY <1>3, <3>3, <3>4, <3>5
  <2>3. CASE q # Out(t)
    <3>1. queues'[q] = queues[q]
      BY <1>2, <2>1, <2>3, Appended
    <3> QED
      BY <1>3, <3>1 DEF PoisonLast
  <2> QED
    BY <2>2, <2>3
<1>6. CASE Handles(t) \/ Leaves(t) \/ Fails(t)
  BY <1>3, <1>6 DEF Handles, Leaves, Fails, PoisonLast
<1> QED
  BY <1>4, <1>5, <1>6 DEF RingStep

\* The main thread puts nothing behind the poison.
LEMMA PoisonLastMain ==
  ASSUME TypeOK, Shape, PoisonLast, Drained, MainStep
  PROVE  PoisonLast'
<1>1. CASE AddFirst
  <2>1. Len(queues') = 2 /\ Len(queues'[1]) = BlockCount /\ Len(queues'[2]) = 0
        /\ \A i \in 1 .. BlockCount : queues'[1][i] \in Blocks
    BY <1>1, Started
  <2> QED
    BY <2>1, BlocksAssumption DEF PoisonLast
<1>2. CASE Add
  <2>1. /\ Len(queues) \in Nat /\ Len(queues') = Len(queues) + 1 /\ Len(queues'[Len(queues) + 1]) = 0
        /\ \A q \in 1 .. Len(queues) : queues'[q] = queues[q]
    BY <1>2, Widened
  <2> QED
    BY <2>1 DEF PoisonLast
<1>3. CASE Closes \/ JoinThreads
  BY <1>3 DEF Closes, CompleteLoop, Wait, JoinThreads, PoisonLast
<1>4. CASE DrainBlock
  <2>1. queues' = [queues EXCEPT ![1] = Tail(@)] /\ queues[1] # << >> /\ 1 \in 1 .. Len(queues)
    BY <1>4, DrainGoesOn, LeadIsThere DEF DrainBlock
  <2>2. /\ Len(queues') = Len(queues) /\ \A q \in 1 .. Len(queues) : q # 1 => queues'[q] = queues[q]
        /\ Len(queues[1]) \in Nat \ {0} /\ Len(queues'[1]) = Len(queues[1]) - 1
        /\ \A i \in 1 .. Len(queues[1]) - 1 : queues'[1][i] = queues[1][i + 1]
    BY <2>1, Removed
  <2>3. ASSUME NEW i \in 1 .. Len(queues'[1]), queues'[1][i] = Poison
        PROVE  i = Len(queues'[1])
    <3>1. i + 1 \in 1 .. Len(queues[1]) /\ queues[1][i + 1] = Poison
      BY <2>2, <2>3
    <3>2. i + 1 = Len(queues[1])
      BY <2>1, <3>1 DEF PoisonLast
    <3> QED
      BY <2>2, <3>2
  <2> QED
    BY <2>2, <2>3 DEF PoisonLast
<1>5. CASE DrainPoison
  <2>1. Len(queues') = 0
    BY <1>5 DEF DrainPoison
  <2> QED
    BY <2>1 DEF PoisonLast
<1> QED
  BY <1>1, <1>2, <1>3, <1>4, <1>5 DEF MainStep, MainWaiting, Closes

-----------------------------------------------------------------------------
\* Where the elements of the queues come from.
LEMMA PlacesAfterTail ==
  ASSUME TypeOK, NEW k \in 1 .. Len(queues), queues[k] # << >>,
         queues' = [queues EXCEPT ![k] = Tail(@)],
         NEW q \in 1 .. Len(queues), NEW i \in 1 .. Len(queues'[q])
  PROVE  LET j == IF q = k THEN i + 1 ELSE i
         IN  j \in 1 .. Len(queues[q]) /\ queues'[q][i] = queues[q][j]
<1>1. CASE q = k
  <2>1. Len(queues[q]) \in Nat \ {0} /\ Len(queues'[q]) = Len(queues[q]) - 1
        /\ \A j \in 1 .. Len(queues[q]) - 1 : queues'[q][j] = queues[q][j + 1]
    BY <1>1, Removed
  <2> QED
    BY <1>1, <2>1
<1>2. CASE q # k
  BY <1>2, Removed
<1> QED
  BY <1>1, <1>2

\* Where an element of a queue was before a Produce.
LEMMA PlacesAfterAppend ==
  ASSUME TypeOK, NEW t \in Positions, Out(t) \in 1 .. Len(queues),
         NEW x \in Blocks \cup {Poison}, Produce(t, x),
         NEW q \in 1 .. Len(queues), NEW i \in 1 .. Len(queues'[q])
  PROVE  \/ i \in 1 .. Len(queues[q]) /\ queues'[q][i] = queues[q][i]
         \/ q = Out(t) /\ i = Len(queues[q]) + 1 /\ queues'[q][i] = x
<1>1. CASE q = Out(t)
  <2>1. /\ Len(queues[q]) \in Nat /\ Len(queues'[q]) = Len(queues[q]) + 1
        /\ \A j \in 1 .. Len(queues[q]) : queues'[q][j] = queues[q][j]
        /\ queues'[q][Len(queues[q]) + 1] = x
    BY <1>1, Appended
  <2> QED
    BY <1>1, <2>1
<1>2. CASE q # Out(t)
  BY <1>2, Appended
<1> QED
  BY <1>1, <1>2

\* A step of a worker duplicates no block.
LEMMA ApartRing ==
  ASSUME TypeOK, Shape, Links, Apart, NEW t \in Positions, RingStep(t)
  PROVE  Apart'
<1>1. /\ pc[t] # "none" /\ Len(queues') = Len(queues)
      /\ \A s \in Positions : s # t => (Holds(s)' <=> Holds(s)) /\ current'[s] = current[s]
  BY RingFrame DEF Holds
<1>2. Out(t) \in 1 .. Len(queues) /\ In(t) \in 1 .. Len(queues)
  BY <1>1, Places
<1>3. /\ \A s, u \in Positions : Holds(s) /\ Holds(u) /\ current[s] = current[u] => s = u
      /\ \A u \in Positions : Holds(u) =>
           \A q \in 1 .. Len(queues) : \A i \in 1 .. Len(queues[q]) : queues[q][i] # current[u]
      /\ \A p, q \in 1 .. Len(queues) : \A i \in 1 .. Len(queues[p]), j \in 1 .. Len(queues[q]) :
           queues[p][i] = queues[q][j] /\ queues[p][i] # Poison => p = q /\ i = j
  BY DEF Apart
<1>4. CASE Takes(t)
  <2> DEFINE k == In(t)  x == queues[k][1]  old(q, i) == IF q = k THEN i + 1 ELSE i
  <2>1. queues[k] # << >> /\ queues' = [queues EXCEPT ![k] = Tail(@)]
        /\ current'[t] = x /\ (Holds(t)' => x # Poison)
    BY <1>4 DEF Takes, TypeOK, Holds
  <2>2. \A q \in 1 .. Len(queues) : \A i \in 1 .. Len(queues'[q]) :
          old(q, i) \in 1 .. Len(queues[q]) /\ queues'[q][i] = queues[q][old(q, i)]
    BY <1>2, <2>1, PlacesAfterTail
  <2>3. k \in 1 .. Len(queues) /\ 1 \in 1 .. Len(queues[k])
    BY <1>2, <2>1, QueueType
  <2> HIDE DEF k, x
  <2>4. \A q \in 1 .. Len(queues) : \A i \in 1 .. Len(queues'[q]) : q = k => old(q, i) # 1
    OBVIOUS
  <2>5. \A p, q \in 1 .. Len(queues) : \A i \in 1 .. Len(queues'[p]), j \in 1 .. Len(queues'[q]) :
          p = q /\ old(p, i) = old(q, j) => i = j
    OBVIOUS
  <2> HIDE DEF old
  <2>6. ASSUME NEW s \in Positions, NEW u \in Positions, Holds(s)', Holds(u)', current'[s] = current'[u]
        PROVE  s = u
    <3>1. CASE s # t /\ u # t
      BY <1>1, <1>3, <2>6, <3>1
    <3>2. CASE s = t /\ u # t
      BY <1>1, <1>3, <2>1, <2>3, <2>6, <3>2 DEF x
    <3>3. CASE s # t /\ u = t
      BY <1>1, <1>3, <2>1, <2>3, <2>6, <3>3 DEF x
    <3> QED
      BY <3>1, <3>2, <3>3
  <2>7. ASSUME NEW u \in Positions, Holds(u)', NEW q \in 1 .. Len(queues), NEW i \in 1 .. Len(queues'[q])
        PROVE  queues'[q][i] # current'[u]
    <3>1. old(q, i) \in 1 .. Len(queues[q]) /\ queues'[q][i] = queues[q][old(q, i)]
      BY <2>2
    <3>2. CASE u # t
      BY <1>1, <1>3, <2>7, <3>1, <3>2
    <3>3. CASE u = t
      <4>1. x # Poison /\ current'[u] = x
        BY <2>1, <2>7, <3>3
      <4>2. queues[q][old(q, i)] = queues[k][1] => q = k /\ old(q, i) = 1
        BY <1>3, <2>3, <3>1, <4>1 DEF x
      <4> QED
        BY <2>4, <3>1, <4>1, <4>2 DEF x
    <3> QED
      BY <3>2, <3>3
  <2>8. ASSUME NEW p \in 1 .. Len(queues), NEW q \in 1 .. Len(queues),
               NEW i \in 1 .. Len(queues'[p]), NEW j \in 1 .. Len(queues'[q]),
               queues'[p][i] = queues'[q][j], queues'[p][i] # Poison
        PROVE  p = q /\ i = j
    <3>1. /\ old(p, i) \in 1 .. Len(queues[p]) /\ queues'[p][i] = queues[p][old(p, i)]
          /\ old(q, j) \in 1 .. Len(queues[q]) /\ queues'[q][j] = queues[q][old(q, j)]
      BY <2>2
    <3>2. \A a \in 1 .. Len(queues[p]), b \in 1 .. Len(queues[q]) :
            queues[p][a] = queues[q][b] /\ queues[p][a] # Poison => p = q /\ a = b
      BY <1>3
    <3>3. p = q /\ old(p, i) = old(q, j)
      BY <2>8, <3>1, <3>2
    <3> QED
      BY <2>5, <3>3
  <2> QED
    BY <1>1, <2>6, <2>7, <2>8 DEF Apart
<1>5. CASE Hands(t) \/ Poisons(t)
  <2>1. PICK x \in Blocks \cup {Poison} : Produce(t, x) /\ (x = Poison \/ (x = current[t] /\ Holds(t)))
    BY <1>5 DEF Hands, LinkProduce, Poisons, TypeOK, Holds, Move
  <2>2. ~Holds(t)'
    BY <1>5 DEF Hands, LinkProduce, Move, Poisons, TypeOK, Holds
  <2>3. \A q \in 1 .. Len(queues) : \A i \in 1 .. Len(queues'[q]) :
          \/ i \in 1 .. Len(queues[q]) /\ queues'[q][i] = queues[q][i]
          \/ q = Out(t) /\ i = Len(queues[q]) + 1 /\ queues'[q][i] = x
    BY <1>2, <2>1, PlacesAfterAppend
  <2>4. \A s, u \in Positions : Holds(s)' /\ Holds(u)' /\ current'[s] = current'[u] => s = u
    BY <1>1, <1>3, <2>2
  <2>5. ASSUME NEW u \in Positions, Holds(u)', NEW q \in 1 .. Len(queues), NEW i \in 1 .. Len(queues'[q])
        PROVE  queues'[q][i] # current'[u]
    <3>1. u # t /\ Holds(u) /\ current'[u] = current[u] /\ current[u] \in Blocks
      BY <1>1, <2>2, <2>5 DEF Links
    <3>2. x # current[u]
      BY <1>3, <2>1, <3>1, BlocksAssumption
    <3> QED
      BY <1>3, <2>3, <3>1, <3>2
  <2>6. ASSUME NEW p \in 1 .. Len(queues), NEW q \in 1 .. Len(queues),
               NEW i \in 1 .. Len(queues'[p]), NEW j \in 1 .. Len(queues'[q]),
               queues'[p][i] = queues'[q][j], queues'[p][i] # Poison
        PROVE  p = q /\ i = j
    <3>1. \A r \in 1 .. Len(queues) : \A l \in 1 .. Len(queues[r]) : x = Poison \/ queues[r][l] # x
      BY <1>3, <2>1
    <3>2. \/ i \in 1 .. Len(queues[p]) /\ queues'[p][i] = queues[p][i]
          \/ p = Out(t) /\ i = Len(queues[p]) + 1 /\ queues'[p][i] = x
      BY <2>3
    <3>3. \/ j \in 1 .. Len(queues[q]) /\ queues'[q][j] = queues[q][j]
          \/ q = Out(t) /\ j = Len(queues[q]) + 1 /\ queues'[q][j] = x
      BY <2>3
    <3> QED
      BY <1>3, <2>6, <3>1, <3>2, <3>3
  <2>7. \A u \in Positions : Holds(u)' =>
          \A q \in 1 .. Len(queues') : \A i \in 1 .. Len(queues'[q]) : queues'[q][i] # current'[u]
    BY <1>1, <2>5
  <2>8. \A p, q \in 1 .. Len(queues') : \A i \in 1 .. Len(queues'[p]), j \in 1 .. Len(queues'[q]) :
          queues'[p][i] = queues'[q][j] /\ queues'[p][i] # Poison => p = q /\ i = j
    BY <1>1, <2>6
  <2> QED
    BY <2>4, <2>7, <2>8 DEF Apart
<1>6. CASE Handles(t) \/ Leaves(t) \/ Fails(t)
  <2>1. queues' = queues /\ current' = current
    BY <1>6 DEF Handles, Leaves, Fails
  <2>2. Holds(t)' => Holds(t)
    BY <1>6 DEF Handles, Leaves, Fails, Holds, TypeOK
  <2>3. \A u \in Positions : Holds(u)' => Holds(u)
    BY <1>1, <2>2
  <2> QED
    BY <1>3, <2>1, <2>3 DEF Apart
<1> QED
  BY <1>4, <1>5, <1>6 DEF RingStep

\* Start hands out every block once; the drain only takes blocks away.
LEMMA ApartMain ==
  ASSUME TypeOK, Shape, Apart, Drained, MainStep
  PROVE  Apart'
<1>1. /\ \A s, u \in Positions : Holds(s) /\ Holds(u) /\ current[s] = current[u] => s = u
      /\ \A u \in Positions : Holds(u) =>
           \A q \in 1 .. Len(queues) : \A i \in 1 .. Len(queues[q]) : queues[q][i] # current[u]
      /\ \A p, q \in 1 .. Len(queues) : \A i \in 1 .. Len(queues[p]), j \in 1 .. Len(queues[q]) :
           queues[p][i] = queues[q][j] /\ queues[p][i] # Poison => p = q /\ i = j
  BY DEF Apart
<1>2. current' = current
  BY DEF MainStep, MainWaiting, AddFirst, Add, CompleteLoop, Wait, JoinThreads, DrainBlock, DrainPoison
<1>3. \A u \in Positions : Holds(u)' => Holds(u)
  BY DEF MainStep, MainWaiting, AddFirst, Add, CompleteLoop, Wait, Complete, JoinThreads,
         DrainBlock, DrainPoison, Holds, TypeOK
<1>4. \A s, u \in Positions : Holds(s)' /\ Holds(u)' /\ current'[s] = current'[u] => s = u
  BY <1>1, <1>2, <1>3
<1>5. CASE AddFirst
  <2>1. /\ Len(queues') = 2 /\ Len(queues'[1]) = BlockCount /\ Len(queues'[2]) = 0
        /\ \A i, j \in 1 .. BlockCount : queues'[1][i] = queues'[1][j] => i = j
    BY <1>5, Started
  <2>2. \A t \in Positions : pc[t] = "none"
    BY <1>5 DEF AddFirst, Shape, Live
  <2>3. \A u \in Positions : ~Holds(u)'
    BY <1>3, <2>2 DEF Holds
  <2>4. \A p, q \in 1 .. Len(queues') : \A i \in 1 .. Len(queues'[p]), j \in 1 .. Len(queues'[q]) :
          queues'[p][i] = queues'[q][j] /\ queues'[p][i] # Poison => p = q /\ i = j
    BY <2>1, CountType
  <2> QED
    BY <1>4, <2>3, <2>4 DEF Apart
<1>6. CASE Add
  <2>1. /\ Len(queues) \in Nat /\ Len(queues') = Len(queues) + 1 /\ Len(queues'[Len(queues) + 1]) = 0
        /\ \A q \in 1 .. Len(queues) : queues'[q] = queues[q]
    BY <1>6, Widened
  <2>2. \A q \in 1 .. Len(queues') : \A i \in 1 .. Len(queues'[q]) :
          q \in 1 .. Len(queues) /\ queues'[q] = queues[q]
    BY <2>1
  <2>3. \A u \in Positions : Holds(u)' =>
          \A q \in 1 .. Len(queues') : \A i \in 1 .. Len(queues'[q]) : queues'[q][i] # current'[u]
    <3> SUFFICES ASSUME NEW u \in Positions, Holds(u)',
                        NEW q \in 1 .. Len(queues'), NEW i \in 1 .. Len(queues'[q])
                 PROVE  queues'[q][i] # current'[u]
      OBVIOUS
    <3>1. q \in 1 .. Len(queues) /\ queues'[q] = queues[q]
      BY <2>2
    <3>2. Holds(u) /\ current'[u] = current[u]
      BY <1>2, <1>3
    <3> QED
      BY <1>1, <3>1, <3>2
  <2>4. \A p, q \in 1 .. Len(queues') : \A i \in 1 .. Len(queues'[p]), j \in 1 .. Len(queues'[q]) :
          queues'[p][i] = queues'[q][j] /\ queues'[p][i] # Poison => p = q /\ i = j
    BY <1>1, <2>2
  <2> QED
    BY <1>4, <2>3, <2>4 DEF Apart
<1>7. CASE Closes \/ JoinThreads
  <2>1. queues' = queues
    BY <1>7 DEF Closes, CompleteLoop, Wait, JoinThreads
  <2> QED
    BY <1>1, <1>2, <1>3, <1>4, <2>1 DEF Apart
<1>8. CASE DrainBlock
  <2>1. queues' = [queues EXCEPT ![1] = Tail(@)] /\ queues[1] # << >> /\ 1 \in 1 .. Len(queues)
    BY <1>8, DrainGoesOn, LeadIsThere DEF DrainBlock
  <2>2. Len(queues') = Len(queues)
    BY <2>1, Removed
  <2>3. \A t \in Positions : pc[t] = "none"
    BY <1>8 DEF DrainBlock, Shape, Live
  <2>4. \A u \in Positions : ~Holds(u)'
    BY <1>3, <2>3 DEF Holds
  <2>5. ASSUME NEW p \in 1 .. Len(queues), NEW q \in 1 .. Len(queues),
               NEW i \in 1 .. Len(queues'[p]), NEW j \in 1 .. Len(queues'[q]),
               queues'[p][i] = queues'[q][j], queues'[p][i] # Poison
        PROVE  p = q /\ i = j
    <3> DEFINE a == IF p = 1 THEN i + 1 ELSE i  b == IF q = 1 THEN j + 1 ELSE j
    <3>1. a \in 1 .. Len(queues[p]) /\ queues'[p][i] = queues[p][a]
          /\ b \in 1 .. Len(queues[q]) /\ queues'[q][j] = queues[q][b]
      BY <2>1, PlacesAfterTail
    <3>2. p = q /\ a = b => i = j
      OBVIOUS
    <3> HIDE DEF a, b
    <3>3. \A c \in 1 .. Len(queues[p]), d \in 1 .. Len(queues[q]) :
            queues[p][c] = queues[q][d] /\ queues[p][c] # Poison => p = q /\ c = d
      BY <1>1
    <3> QED
      BY <2>5, <3>1, <3>2, <3>3
  <2>6. \A p, q \in 1 .. Len(queues') : \A i \in 1 .. Len(queues'[p]), j \in 1 .. Len(queues'[q]) :
          queues'[p][i] = queues'[q][j] /\ queues'[p][i] # Poison => p = q /\ i = j
    BY <2>2, <2>5
  <2> QED
    BY <1>4, <2>4, <2>6 DEF Apart
<1>9. CASE DrainPoison
  <2>1. Len(queues') = 0
    BY <1>9 DEF DrainPoison
  <2> QED
    BY <1>4, <2>1 DEF Apart
<1> QED
  BY <1>5, <1>6, <1>7, <1>8, <1>9 DEF MainStep, MainWaiting, Closes

\* A block is reset before it is put into the lead queue, and is not touched there.
LEMMA WholeRing ==
  ASSUME TypeOK, Shape, Links, Apart, Whole, NEW t \in Positions, RingStep(t)
  PROVE  Whole'
<1>1. /\ pc[t] # "none" /\ Len(queues') = Len(queues) /\ Len(queues) \in 2 .. MaxWorkers + 1
      /\ \A s \in Positions : s # t => pc'[s] = pc[s] /\ current'[s] = current[s]
  BY RingFrame
<1>2. /\ Out(t) \in 1 .. Len(queues) /\ In(t) \in 1 .. Len(queues) /\ Running
      /\ Source \in Positions /\ Closer \in Positions /\ Source # Closer
      /\ 1 \in 1 .. Len(queues) /\ In(Source) = 1 /\ (Out(t) = 1 => t = Closer)
  BY <1>1, Places, BoundsAssumption DEF Live, Source, Closer, Positions, In, Out
<1>3. /\ pc[Source] = "work" => full[current[Source]]
      /\ pc[Closer] = "produce" => full[current[Closer]]
      /\ \A i \in 1 .. Len(queues[1]) : queues[1][i] # Poison => full[queues[1][i]]
  BY <1>2 DEF Whole, ArrivesWhole
<1>4. CASE Takes(t)
  <2>1. queues[In(t)] # << >> /\ queues' = [queues EXCEPT ![In(t)] = Tail(@)] /\ full' = full
    BY <1>4 DEF Takes
  <2>2. /\ current'[t] = queues[In(t)][1] /\ pc'[t] \in {"end", "pass", "work"}
        /\ pc'[t] = "work" => current'[t] # Poison
    BY <1>4 DEF Takes, TypeOK
  <2>3. \A i \in 1 .. Len(queues'[1]) : queues'[1][i] # Poison => full[queues'[1][i]]
    BY <1>2, <1>3, <2>1, PlacesAfterTail
  <2>4. t = Source => 1 \in 1 .. Len(queues[1])
    BY <1>2, <2>1, QueueType
  <2>5. pc'[Source] = "work" => full[current'[Source]]
    BY <1>1, <1>2, <1>3, <2>2, <2>4
  <2>6. pc'[Closer] = "produce" => full[current'[Closer]]
    BY <1>1, <1>2, <1>3, <2>2
  <2> QED
    BY <2>1, <2>3, <2>5, <2>6 DEF Whole, ArrivesWhole
<1>5. CASE Hands(t) \/ Poisons(t)
  <2>1. PICK x \in Blocks \cup {Poison} :
          Produce(t, x) /\ (x = Poison \/ (x = current[t] /\ pc[t] = "produce"))
    BY <1>5 DEF Hands, LinkProduce, Poisons, TypeOK, Move
  <2>2. full' = full /\ pc'[t] \in {"consume", "end", "gone"}
    BY <1>5 DEF Hands, LinkProduce, Move, Poisons, TypeOK
  <2>3. \A i \in 1 .. Len(queues'[1]) : queues'[1][i] # Poison => full[queues'[1][i]]
    BY <1>2, <1>3, <2>1, PlacesAfterAppend
  <2>4. pc'[Source] = "work" => full[current'[Source]]
    BY <1>1, <1>2, <1>3, <2>2
  <2>5. pc'[Closer] = "produce" => full[current'[Closer]]
    BY <1>1, <1>2, <1>3, <2>2
  <2> QED
    BY <2>2, <2>3, <2>4, <2>5 DEF Whole, ArrivesWhole
<1>6. CASE Handles(t)
  <2>1. /\ pc[t] = "work" /\ pc'[t] = "produce" /\ queues' = queues /\ current' = current
        /\ Holds(t) /\ current[t] \in Blocks
    BY <1>6 DEF Handles, TypeOK, Holds, Links
  <2>2. \A b \in Blocks : b # current[t] => full'[b] = full[b]
    BY <1>6 DEF Handles
  <2>4. \A i \in 1 .. Len(queues[1]) : queues[1][i] # Poison => full'[queues[1][i]]
    <3> SUFFICES ASSUME NEW i \in 1 .. Len(queues[1]), queues[1][i] # Poison PROVE full'[queues[1][i]]
      OBVIOUS
    <3>1. queues[1][i] \in Blocks
      BY <1>2, QueueType
    <3>2. queues[1][i] # current[t]
      BY <1>2, <2>1 DEF Apart
    <3> QED
      BY <1>3, <2>2, <3>1, <3>2
  <2>5. pc'[Source] = "work" => full'[current'[Source]]
    <3>1. SUFFICES ASSUME pc'[Source] = "work" PROVE full'[current[Source]]
      BY <2>1
    <3>2. t # Source /\ pc[Source] = "work" /\ current[Source] \in Blocks /\ Holds(Source)
      BY <1>1, <1>2, <2>1, <3>1 DEF Holds, Links
    <3>3. current[Source] # current[t]
      BY <1>2, <2>1, <3>2 DEF Apart
    <3> QED
      BY <1>3, <2>2, <3>2, <3>3
  <2>6. pc'[Closer] = "produce" => full'[current'[Closer]]
    <3>1. CASE t = Closer
      <4>1. full'[current[t]] = TRUE
        BY <1>6, <3>1 DEF Handles
      <4> QED
        BY <2>1, <3>1, <4>1
    <3>2. CASE t # Closer /\ pc'[Closer] = "produce"
      <4>1. pc[Closer] = "produce" /\ current[Closer] \in Blocks /\ Holds(Closer)
        BY <1>1, <1>2, <3>2 DEF Holds, Links
      <4>2. current[Closer] # current[t]
        BY <1>2, <2>1, <3>2, <4>1 DEF Apart
      <4> QED
        BY <1>3, <2>1, <2>2, <4>1, <4>2
    <3> QED
      BY <3>1, <3>2
  <2> QED
    BY <2>1, <2>4, <2>5, <2>6 DEF Whole, ArrivesWhole
<1>7. CASE Leaves(t) \/ Fails(t)
  <2>1. /\ queues' = queues /\ current' = current /\ full' = full
        /\ pc'[t] \notin {"work", "produce"}
    BY <1>7 DEF Leaves, Fails, TypeOK
  <2>2. \A s \in Positions : pc'[s] \in {"work", "produce"} => pc'[s] = pc[s]
    BY <1>1, <2>1
  <2> QED
    BY <1>2, <1>3, <2>1, <2>2 DEF Whole, ArrivesWhole
<1> QED
  BY <1>4, <1>5, <1>6, <1>7 DEF RingStep

\* Start puts whole blocks into the lead queue.
LEMMA WholeMain ==
  ASSUME TypeOK, Shape, Whole, Drained, MainStep
  PROVE  Whole'
<1>1. Source \in Positions /\ Closer \in Positions
  BY BoundsAssumption DEF Source, Closer, Positions
<1>2. current' = current /\ \A s \in Positions : pc'[s] \in {"work", "produce"} => pc'[s] = pc[s]
  BY DEF MainStep, MainWaiting, AddFirst, Add, CompleteLoop, Wait, Complete, JoinThreads,
         DrainBlock, DrainPoison, TypeOK
<1>3. CASE AddFirst
  <2>1. full' = [b \in Blocks |-> TRUE]
    BY <1>3 DEF AddFirst
  <2>2. \A s \in Positions : pc'[s] \notin {"work", "produce"}
    BY <1>2, <1>3 DEF AddFirst, Shape, Live
  <2>3. \A i \in 1 .. Len(queues'[1]) : full'[queues'[1][i]]
    BY <1>3, <2>1, Started
  <2> QED
    BY <1>1, <2>2, <2>3 DEF Whole, ArrivesWhole
<1>4. CASE ~AddFirst
  <2>1. full' = full
    BY <1>4 DEF MainStep, MainWaiting, Add, CompleteLoop, Wait, JoinThreads, DrainBlock, DrainPoison
  <2>2. Running' => \A i \in 1 .. Len(queues'[1]) : queues'[1][i] # Poison => full[queues'[1][i]]
    <3>1. CASE Add
      <4>1. Running /\ Len(queues) \in Nat \ {0}
        BY <3>1, SeqNonempty DEF Add, TypeOK, Running
      <4>2. queues'[1] = queues[1]
        BY <3>1, <4>1, Widened
      <4> QED
        BY <4>1, <4>2 DEF Whole
    <3>2. CASE Closes \/ JoinThreads
      BY <3>2 DEF Closes, CompleteLoop, Wait, JoinThreads, Whole, Running
    <3>3. CASE DrainBlock
      <4>1. Running /\ 1 \in 1 .. Len(queues)
        BY <3>3, LeadIsThere DEF DrainBlock
      <4>2. queues' = [queues EXCEPT ![1] = Tail(@)] /\ queues[1] # << >>
        BY <3>3 DEF DrainBlock
      <4> QED
        BY <4>1, <4>2, PlacesAfterTail DEF Whole
    <3>4. CASE DrainPoison
      BY <3>4 DEF DrainPoison, Running
    <3> QED
      BY <1>4, <3>1, <3>2, <3>3, <3>4 DEF MainStep, MainWaiting, Closes
  <2> QED
    BY <1>1, <1>2, <2>1, <2>2 DEF Whole, ArrivesWhole
<1> QED
  BY <1>3, <1>4

-----------------------------------------------------------------------------
\* A block that is lost stays lost.
LEMMA NowhereRing ==
  ASSUME TypeOK, Shape, Links, NEW t \in Positions, RingStep(t), NEW b \in Blocks, Nowhere(b)
  PROVE  Nowhere(b)'
<1>1. /\ pc[t] # "none" /\ Len(queues') = Len(queues)
      /\ \A s \in Positions : s # t => (Holds(s)' <=> Holds(s)) /\ current'[s] = current[s]
  BY RingFrame DEF Holds
<1>2. Out(t) \in 1 .. Len(queues) /\ In(t) \in 1 .. Len(queues)
  BY <1>1, Places
<1>3. /\ \A s \in Positions : Holds(s) => current[s] # b
      /\ \A q \in 1 .. Len(queues) : \A i \in 1 .. Len(queues[q]) : queues[q][i] # b
  BY DEF Nowhere
<1>4. CASE Takes(t)
  <2>1. queues[In(t)] # << >> /\ queues' = [queues EXCEPT ![In(t)] = Tail(@)]
        /\ current'[t] = queues[In(t)][1]
    BY <1>4 DEF Takes, TypeOK
  <2>2. 1 \in 1 .. Len(queues[In(t)])
    BY <1>2, <2>1, QueueType
  <2>3. ASSUME NEW q \in 1 .. Len(queues), NEW i \in 1 .. Len(queues'[q])
        PROVE  \E j \in 1 .. Len(queues[q]) : queues'[q][i] = queues[q][j]
    <3> DEFINE j == IF q = In(t) THEN i + 1 ELSE i
    <3>1. j \in 1 .. Len(queues[q]) /\ queues'[q][i] = queues[q][j]
      BY <1>2, <2>1, PlacesAfterTail
    <3> HIDE DEF j
    <3> QED
      BY <3>1
  <2>4. ASSUME NEW q \in 1 .. Len(queues), NEW i \in 1 .. Len(queues'[q])
        PROVE  queues'[q][i] # b
    <3>1. PICK j \in 1 .. Len(queues[q]) : queues'[q][i] = queues[q][j]
      BY <2>3
    <3> QED
      BY <1>3, <3>1
  <2>5. current'[t] # b
    <3>1. \A i \in 1 .. Len(queues[In(t)]) : queues[In(t)][i] # b
      BY <1>2, <1>3
    <3> QED
      BY <2>1, <2>2, <3>1
  <2> QED
    BY <1>1, <1>3, <2>4, <2>5 DEF Nowhere
<1>5. CASE Hands(t) \/ Poisons(t)
  <2>1. PICK x \in Blocks \cup {Poison} : Produce(t, x) /\ (x = Poison \/ (x = current[t] /\ Holds(t)))
    BY <1>5 DEF Hands, LinkProduce, Poisons, TypeOK, Holds, Move
  <2>2. ~Holds(t)'
    BY <1>5 DEF Hands, LinkProduce, Move, Poisons, TypeOK, Holds
  <2>3. \A q \in 1 .. Len(queues) : \A i \in 1 .. Len(queues'[q]) :
          \/ i \in 1 .. Len(queues[q]) /\ queues'[q][i] = queues[q][i]
          \/ q = Out(t) /\ i = Len(queues[q]) + 1 /\ queues'[q][i] = x
    BY <1>2, <2>1, PlacesAfterAppend
  <2>4. x # b
    BY <1>3, <2>1, BlocksAssumption
  <2>5. \A q \in 1 .. Len(queues') : \A i \in 1 .. Len(queues'[q]) : queues'[q][i] # b
    BY <1>1, <1>3, <2>3, <2>4
  <2>6. \A s \in Positions : Holds(s)' => current'[s] # b
    BY <1>1, <1>3, <2>2
  <2> QED
    BY <2>5, <2>6 DEF Nowhere
<1>6. CASE Handles(t) \/ Leaves(t) \/ Fails(t)
  <2>1. queues' = queues /\ current' = current
    BY <1>6 DEF Handles, Leaves, Fails
  <2>2. Holds(t)' => Holds(t)
    BY <1>6 DEF Handles, Leaves, Fails, Holds, TypeOK
  <2>3. \A u \in Positions : Holds(u)' => Holds(u)
    BY <1>1, <2>2
  <2> QED
    BY <1>3, <2>1, <2>3 DEF Nowhere
<1> QED
  BY <1>4, <1>5, <1>6 DEF RingStep

\* The source loses its block when it sends the poison.
LEMMA BlockLostRing ==
  ASSUME TypeOK, Shape, Links, PoisonFollows, BlockLost, Apart, NEW t \in Positions, RingStep(t)
  PROVE  BlockLost'
<1>1. /\ pc[t] # "none" /\ Len(queues') = Len(queues) /\ Live /\ main' # "draining"
      /\ \A s \in Positions : s # t => (Holds(s)' <=> Holds(s)) /\ current'[s] = current[s]
  BY RingFrame DEF Holds, Live
<1>2. Source \in Positions /\ Out(t) \in 1 .. Len(queues)
  BY <1>1, Places, BoundsAssumption DEF Source, Positions
<1>3. SUFFICES ASSUME Over(Source)' PROVE (\E b \in Blocks : Nowhere(b))'
  BY <1>1 DEF BlockLost
<1>4. CASE Over(Source)
  <2>1. PICK b \in Blocks : Nowhere(b)
    BY <1>1, <1>4 DEF BlockLost
  <2>2. Nowhere(b)'
    BY <2>1, NowhereRing
  <2> QED
    BY <2>2
<1>5. CASE ~Over(Source)
  <2>1. t = Source /\ (Poisons(t) \/ (Takes(t) /\ queues[In(t)][1] = Poison))
    BY <1>2, <1>3, <1>5, OverAndSent
  <2>2. ~Takes(t) \/ queues[In(t)][1] # Poison
    <3>1. In(t) = 1
      BY <2>1, BoundsAssumption DEF In, Source, Closer
    <3> QED
      BY <2>1, <3>1, SourceTakesBlocks DEF Takes
  <2>3. Poisons(t) /\ Produce(t, Poison) /\ Holds(t)
    BY <1>5, <2>1, <2>2 DEF Poisons, Over, Holds
  <2>4. PICK b \in Blocks : b = current[t]
    BY <2>3 DEF Links
  <2>5. \A q \in 1 .. Len(queues) : \A i \in 1 .. Len(queues'[q]) :
          \/ i \in 1 .. Len(queues[q]) /\ queues'[q][i] = queues[q][i]
          \/ queues'[q][i] = Poison
    BY <1>2, <2>3, PlacesAfterAppend
  <2>6. \A q \in 1 .. Len(queues') : \A i \in 1 .. Len(queues'[q]) : queues'[q][i] # b
    BY <1>1, <2>3, <2>4, <2>5, BlocksAssumption DEF Apart
  <2>7. ~Holds(t)'
    BY <2>3 DEF Poisons, Holds, TypeOK
  <2>8. \A s \in Positions : Holds(s)' => current'[s] # b
    BY <1>1, <2>3, <2>4, <2>7 DEF Apart
  <2>9. Nowhere(b)'
    BY <2>6, <2>8 DEF Nowhere
  <2> QED
    BY <2>4, <2>9
<1> QED
  BY <1>4, <1>5

\* No block comes back while the main thread drains the ring.
LEMMA BlockLostMain ==
  ASSUME TypeOK, Shape, BlockLost, Drained, MainStep
  PROVE  BlockLost'
<1>1. current' = current
  BY DEF MainStep, MainWaiting, AddFirst, Add, CompleteLoop, Wait, JoinThreads, DrainBlock, DrainPoison
<1>2. \A u \in Positions : (Holds(u)' => Holds(u)) /\ (Over(u)' => Over(u))
  BY DEF MainStep, MainWaiting, AddFirst, Add, CompleteLoop, Wait, Complete, JoinThreads,
         DrainBlock, DrainPoison, Holds, Over, TypeOK
<1>3. Source \in Positions
  BY BoundsAssumption DEF Source, Positions
<1>4. ASSUME NEW b \in Blocks, Nowhere(b),
             \A q \in 1 .. Len(queues') : \A i \in 1 .. Len(queues'[q]) :
               q \in 1 .. Len(queues) /\ \E j \in 1 .. Len(queues[q]) : queues'[q][i] = queues[q][j]
      PROVE  Nowhere(b)'
  BY <1>1, <1>2, <1>4 DEF Nowhere
<1>5. CASE AddFirst
  <2>1. main' = "idle" /\ \A t \in Positions : pc[t] = "none"
    BY <1>5 DEF AddFirst, Shape, Live
  <2>2. ~Over(Source)'
    BY <1>2, <1>3, <2>1 DEF Over
  <2> QED
    BY <2>1, <2>2 DEF BlockLost
<1>6. CASE Add \/ Closes \/ JoinThreads
  <2>1. SUFFICES ASSUME (Live' /\ Over(Source)') \/ main' = "draining"
                 PROVE  (\E b \in Blocks : Nowhere(b))'
    BY DEF BlockLost
  <2>2. Live
    BY <1>6 DEF Add, Closes, CompleteLoop, Wait, JoinThreads, Live, Shape
  <2>3. Over(Source)
    <3>1. CASE main' = "draining"
      <4>1. JoinThreads
        BY <1>6, <3>1 DEF Add, Closes, CompleteLoop, Wait, mainVars
      <4>2. pc[Source] # "none"
        <5>1. Source \in 1 .. Workers
          BY <2>2, WhoIsThere DEF Source
        <5> QED
          BY <2>2, <5>1, WhoIsThere
      <4> QED
        BY <1>3, <4>1, <4>2 DEF JoinThreads, Ended, Over
    <3>2. CASE Over(Source)'
      BY <1>2, <1>3, <3>2
    <3> QED
      BY <2>1, <3>1, <3>2
  <2>4. PICK b \in Blocks : Nowhere(b)
    BY <2>2, <2>3 DEF BlockLost
  <2>5. CASE Add
    <3>1. /\ Len(queues) \in Nat /\ Len(queues') = Len(queues) + 1 /\ Len(queues'[Len(queues) + 1]) = 0
          /\ \A q \in 1 .. Len(queues) : queues'[q] = queues[q]
      BY <2>5, Widened
    <3>2. \A q \in 1 .. Len(queues') : \A i \in 1 .. Len(queues'[q]) :
            q \in 1 .. Len(queues) /\ queues'[q] = queues[q]
      BY <3>1
    <3> QED
      BY <1>4, <2>4, <3>2
  <2>6. CASE Closes \/ JoinThreads
    <3>1. queues' = queues
      BY <2>6 DEF Closes, CompleteLoop, Wait, JoinThreads
    <3> QED
      BY <1>4, <2>4, <3>1
  <2> QED
    BY <1>6, <2>5, <2>6
<1>7. CASE DrainBlock
  <2>1. queues' = [queues EXCEPT ![1] = Tail(@)] /\ queues[1] # << >> /\ 1 \in 1 .. Len(queues)
        /\ main = "draining"
    BY <1>7, DrainGoesOn, LeadIsThere DEF DrainBlock
  <2>2. Len(queues') = Len(queues)
    BY <2>1, Removed
  <2>3. PICK b \in Blocks : Nowhere(b)
    BY <2>1 DEF BlockLost
  <2>4. ASSUME NEW q \in 1 .. Len(queues), NEW i \in 1 .. Len(queues'[q])
        PROVE  \E j \in 1 .. Len(queues[q]) : queues'[q][i] = queues[q][j]
    <3> DEFINE j == IF q = 1 THEN i + 1 ELSE i
    <3>1. j \in 1 .. Len(queues[q]) /\ queues'[q][i] = queues[q][j]
      BY <2>1, PlacesAfterTail
    <3> HIDE DEF j
    <3> QED
      BY <3>1
  <2>5. Nowhere(b)'
    BY <1>4, <2>2, <2>3, <2>4
  <2> QED
    BY <2>5 DEF BlockLost
<1>8. CASE DrainPoison
  <2>1. main' = "idle" /\ queues' = << >>
    BY <1>8 DEF DrainPoison
  <2> QED
    BY <2>1 DEF BlockLost, Live, Running
<1> QED
  BY <1>5, <1>6, <1>7, <1>8 DEF MainStep, MainWaiting, Closes

-----------------------------------------------------------------------------
\* How many real blocks a queue holds.
LEMMA RealBlocks ==
  ASSUME TypeOK, PoisonLast, NEW q \in 1 .. Len(queues)
  PROVE  /\ Real(q) \in Nat
         /\ (\A i \in 1 .. Len(queues[q]) : queues[q][i] # Poison) => Real(q) = Len(queues[q])
         /\ (\E i \in 1 .. Len(queues[q]) : queues[q][i] = Poison) => Real(q) = Len(queues[q]) - 1
<1>1. Len(queues[q]) \in Nat /\ (queues[q] = << >> <=> Len(queues[q]) = 0)
  BY QueueType
<1>2. CASE \A i \in 1 .. Len(queues[q]) : queues[q][i] # Poison
  <2>1. queues[q] # << >> => queues[q][Len(queues[q])] # Poison
    BY <1>1, <1>2
  <2> QED
    BY <1>1, <1>2, <2>1 DEF Real
<1>3. CASE \E i \in 1 .. Len(queues[q]) : queues[q][i] = Poison
  <2>1. PICK i \in 1 .. Len(queues[q]) : queues[q][i] = Poison
    BY <1>3
  <2>2. i = Len(queues[q])
    BY <2>1 DEF PoisonLast
  <2>3. Real(q) = Len(queues[q]) - 1 /\ Len(queues[q]) \in Nat \ {0}
    BY <1>1, <2>1, <2>2 DEF Real
  <2> QED
    BY <1>3, <2>3
<1> QED
  BY <1>2, <1>3

\* A queue never holds all the blocks when one of them is nowhere.
LEMMA RoomForPoison ==
  ASSUME TypeOK, PoisonLast, Apart, NEW q \in 1 .. Len(queues), NEW b \in Blocks,
         \A i \in 1 .. Len(queues[q]) : queues[q][i] # b
  PROVE  Real(q) < BlockCount
<1> DEFINE n == Real(q) f == queues[q]
<1>1. n \in Nat /\ n <= Len(f) /\ \A i \in 1 .. n : f[i] # Poison
  <2>1. Len(f) \in Nat
    BY QueueType
  <2>2. CASE \A i \in 1 .. Len(f) : f[i] # Poison
    BY <2>1, <2>2, RealBlocks
  <2>3. CASE \E i \in 1 .. Len(f) : f[i] = Poison
    <3>1. n = Len(f) - 1 /\ n \in Nat
      BY <2>3, RealBlocks
    <3>2. \A i \in 1 .. Len(f) : f[i] = Poison => i = Len(f)
      BY DEF PoisonLast
    <3> HIDE DEF n, f
    <3> QED
      BY <2>1, <3>1, <3>2
  <2> QED
    BY <2>2, <2>3
<1>2. \A i \in 1 .. Len(f) : f[i] \in Blocks \cup {Poison}
  BY QueueType
<1>3. \A i, j \in 1 .. Len(f) : f[i] = f[j] /\ f[i] # Poison => i = j
  BY DEF Apart
<1>4. Len(f) \in Nat
  BY QueueType
<1> HIDE DEF n, f
<1>5. \A i \in 1 .. n : f[i] \in Blocks \ {b}
  <2>1. \A i \in 1 .. Len(f) : f[i] # b
    BY DEF f
  <2> QED
    BY <1>1, <1>2, <1>4, <2>1
<1>6. \A i, j \in 1 .. n : f[i] = f[j] => i = j
  BY <1>1, <1>3, <1>4
<1>7. n < BlockCount
  BY <1>1, <1>5, <1>6, Pigeonhole
<1> QED
  BY <1>7 DEF n

\* No worker runs while the main thread drains the ring.
LEMMA DrainedRing ==
  ASSUME TypeOK, Shape, Links, NEW t \in Positions, RingStep(t)
  PROVE  Drained'
<1>1. main' # "draining"
  BY RingFrame DEF Live
<1> QED
  BY <1>1 DEF Drained

\* When every thread has ended the poison is home and all data was seen.
LEMMA DrainedMain ==
  ASSUME TypeOK, Shape, PoisonFollows, PoisonLast, BlockLost, Apart, Flow, Drained, MainStep
  PROVE  Drained'
<1>1. CASE JoinThreads
  <2>1. Live /\ complete_called /\ drained' = 0 /\ UNCHANGED <<queues, seen>>
        /\ \A t \in Positions : pc[t] \in {"none", "gone"}
    BY <1>1 DEF JoinThreads, Ended, Live, Shape
  <2>2. /\ \A t \in 1 .. Workers : t \in Positions /\ pc[t] # "none"
        /\ Closer \in Positions /\ pc[Closer] # "none" /\ Workers \in 1 .. MaxWorkers /\ MaxWorkers \in Nat
    BY <2>1, WhoIsThere DEF Shape
  <2>3. \A t \in 1 .. Workers \cup {Closer} : t \in Positions /\ Over(t) /\ Sent(t)
    BY <2>1, <2>2 DEF Over, Sent
  <2>4. Source \in 1 .. Workers
    BY <2>2 DEF Source
  <2>5. queues[1] # << >> /\ queues[1][Len(queues[1])] = Poison
    BY <2>1, <2>3 DEF PoisonFollows
  <2>6. PICK b \in Blocks : Nowhere(b)
    BY <2>1, <2>3, <2>4 DEF BlockLost
  <2>7. 1 \in 1 .. Len(queues)
    BY <2>1, WhoIsThere
  <2>8. Len(queues[1]) \in Nat \ {0} /\ Real(1) = Len(queues[1]) - 1
    BY <2>5, <2>7, QueueType DEF Real
  <2>9. Real(1) < BlockCount
    BY <2>6, <2>7, RoomForPoison DEF Nowhere
  <2>10. Len(queues[1]) <= BlockCount
    BY <2>8, <2>9, CountType
  <2>11. \A t \in 1 .. Workers \cup {Closer} : seen[t] = seen[Source]
    BY <2>1, <2>3 DEF Flow, Stamped
  <2>12. Workers' = Workers
    BY <2>1 DEF Workers
  <2> QED
    BY <2>1, <2>5, <2>8, <2>10, <2>11, <2>12 DEF Drained
<1>2. CASE DrainBlock
  <2>0. drained' = drained + 1 /\ seen' = seen /\ queues[1][1] # Poison /\ main = "draining"
    BY <1>2, DrainGoesOn DEF DrainBlock
  <2>1. queues' = [queues EXCEPT ![1] = Tail(@)] /\ queues[1] # << >> /\ 1 \in 1 .. Len(queues)
    BY <1>2, <2>0, DrainGoesOn, LeadIsThere
  <2> DEFINE n == Len(queues[1])
  <2>2. queues' \in Seq(Seq(Blocks \cup {Poison})) /\ Len(queues') = Len(queues)
    BY <2>1, Removed
  <2>3. /\ n \in Nat \ {0} /\ Len(queues'[1]) = n - 1
        /\ \A i \in 1 .. n - 1 : queues'[1][i] = queues[1][i + 1]
    BY <2>1, Removed
  <2>4. queues[1][n] = Poison /\ drained + n <= BlockCount
    BY <2>0 DEF Drained
  <2>5. drained \in Nat /\ BlockCount \in Nat
    <3>1. BlockCount \in Nat
      BY CountType
    <3>2. drained \in 0 .. BlockCount
      BY DEF TypeOK
    <3> QED
      BY <3>1, <3>2
  <2> HIDE DEF n
  <2>6. n - 1 \in 1 .. n - 1 /\ (n - 1) + 1 = n
    BY <2>0, <2>3, <2>4
  <2>7. queues'[1][Len(queues'[1])] = Poison
    BY <2>3, <2>4, <2>6
  <2>9. queues'[1] # << >>
    <3>1. queues'[1] \in Seq(Blocks \cup {Poison})
      BY <2>1, <2>2, SeqElement
    <3>2. Len(queues'[1]) # 0
      BY <2>3, <2>6
    <3> QED
      BY <3>1, <3>2, SeqNonempty
  <2>10. drained' + Len(queues'[1]) <= BlockCount
    BY <2>0, <2>3, <2>4, <2>5
  <2>8. Workers' = Workers
    BY <2>2 DEF Workers
  <2> QED
    BY <2>0, <2>7, <2>8, <2>9, <2>10 DEF Drained
<1>3. CASE AddFirst \/ Add \/ Closes \/ DrainPoison
  <2>1. main' # "draining"
    BY <1>3 DEF AddFirst, Add, Closes, CompleteLoop, Wait, DrainPoison, mainVars
  <2> QED
    BY <2>1 DEF Drained
<1> QED
  BY <1>1, <1>2, <1>3 DEF MainStep, MainWaiting, Closes

-----------------------------------------------------------------------------
\* Who is at the two ends of a queue of a run.
LEMMA Ends ==
  ASSUME TypeOK, Shape, Live, NEW q \in 2 .. Len(queues)
  PROVE  /\ Reader(q) \in Positions /\ Reader(q) # Source
         /\ q - 1 \in 1 .. Workers /\ q - 1 \in Positions /\ pc[q - 1] # "none"
         /\ q \in 1 .. Len(queues) /\ Source = 1
         /\ \A t \in Positions : pc[t] # "none" =>
              (Reader(q) = t <=> In(t) = q) /\ (q - 1 = t <=> Out(t) = q)
<1>1. /\ Len(queues) \in 2 .. MaxWorkers + 1 /\ MaxWorkers \in Nat \ {0} /\ Workers = Len(queues) - 1
      /\ Closer = MaxWorkers + 1 /\ Positions = 1 .. MaxWorkers + 1 /\ Source = 1
      /\ \A t \in Positions : pc[t] # "none" => t \in 1 .. Workers \/ t = Closer
      /\ \A t \in 1 .. Workers : t \in Positions /\ pc[t] # "none"
  BY WhoIsThere DEF Source
<1>2. Reader(q) \in Positions /\ Reader(q) # Source
  BY <1>1 DEF Reader
<1>3. q - 1 \in 1 .. Workers /\ q \in 1 .. Len(queues)
  BY <1>1
<1>4. ASSUME NEW t \in Positions, pc[t] # "none"
      PROVE  (Reader(q) = t <=> In(t) = q) /\ (q - 1 = t <=> Out(t) = q)
  <2>1. t \in 1 .. Workers \/ t = Closer
    BY <1>1, <1>4
  <2> QED
    BY <1>1, <2>1 DEF Reader, In, Out
<1> QED
  BY <1>1, <1>2, <1>3, <1>4

\* The counts are numbers.
LEMMA CountsAreNumbers ==
  ASSUME TypeOK, NEW t \in Positions
  PROVE  Received(t) \in Nat /\ SentOn(t) \in Int /\ seen[t] \in Nat
<1>1. seen[t] \in 0 .. MaxData /\ MaxData \in Nat
  BY BoundsAssumption DEF TypeOK
<1> QED
  BY <1>1 DEF Received, SentOn

\* What a step does to the numbers of blocks received and sent on.
LEMMA CountsRing ==
  ASSUME TypeOK, Shape, Links, NEW t \in Positions, RingStep(t)
  PROVE  /\ \A s \in Positions : s # t => Received(s)' = Received(s) /\ SentOn(s)' = SentOn(s)
         /\ (~Takes(t) \/ current'[t] = Poison) /\ t # Source => Received(t)' = Received(t)
         /\ Takes(t) /\ current'[t] # Poison => Received(t)' = Received(t) + 1
         /\ ~Hands(t) => SentOn(t)' = SentOn(t)
         /\ Hands(t) => SentOn(t)' = SentOn(t) + 1 /\ SentOn(t) + 1 = seen[t]
<1>1. \A s \in Positions : s # t => Received(s)' = Received(s) /\ SentOn(s)' = SentOn(s)
  BY RingFrame DEF Received, SentOn
<1>2. seen[t] \in Nat /\ DOMAIN pc = Positions /\ DOMAIN seen = Positions
  BY CountsAreNumbers DEF TypeOK
<1>3. CASE Takes(t)
  <2>1. pc[t] \in {"init", "consume"} /\ seen'[t] = seen[t]
    BY <1>3 DEF Takes
  <2>2. IF current'[t] = Poison THEN pc'[t] \in {"end", "pass"} ELSE pc'[t] = "work"
    BY <1>3 DEF Takes, TypeOK
  <2>3. ~Hands(t)
    BY <2>1 DEF Hands, LinkProduce, Move
  <2>4. SentOn(t)' = SentOn(t)
    BY <2>1, <2>2 DEF SentOn
  <2>5. Received(t)' = IF current'[t] = Poison THEN Received(t) ELSE Received(t) + 1
    BY <2>1, <2>2 DEF Received
  <2> QED
    BY <1>1, <1>3, <2>3, <2>4, <2>5
<1>4. CASE Hands(t)
  <2>1. pc[t] = "produce" /\ pc'[t] = "consume" /\ seen'[t] = seen[t]
    BY <1>2, <1>4 DEF Hands, LinkProduce, Move
  <2>2. ~Takes(t)
    BY <2>1 DEF Takes
  <2>3. Received(t)' = Received(t) /\ SentOn(t)' = seen[t] /\ SentOn(t) = seen[t] - 1
    BY <2>1 DEF Received, SentOn
  <2> QED
    BY <1>1, <1>2, <1>4, <2>2, <2>3
<1>5. CASE Poisons(t)
  <2>1. pc[t] \in {"work", "pass", "end"} /\ (pc[t] = "work" => t = Source) /\ seen'[t] = seen[t]
    BY <1>5 DEF Poisons
  <2>2. pc'[t] \in {"end", "gone"}
    BY <1>2, <1>5 DEF Poisons
  <2>3. ~Takes(t) /\ ~Hands(t)
    BY <2>1 DEF Takes, Hands, LinkProduce, Move
  <2>4. (t # Source => Received(t)' = Received(t)) /\ SentOn(t)' = SentOn(t)
    BY <2>1, <2>2 DEF Received, SentOn
  <2> QED
    BY <1>1, <2>3, <2>4
<1>6. CASE Handles(t)
  <2>1. pc[t] = "work" /\ pc'[t] = "produce" /\ seen'[t] = seen[t] + 1
    BY <1>2, <1>6 DEF Handles
  <2>2. ~Takes(t) /\ ~Hands(t)
    BY <2>1 DEF Takes, Hands, LinkProduce, Move
  <2>3. Received(t)' = Received(t) /\ SentOn(t)' = SentOn(t)
    BY <1>2, <2>1 DEF Received, SentOn
  <2> QED
    BY <1>1, <2>2, <2>3
<1>7. CASE Leaves(t) \/ Fails(t)
  <2>1. /\ \/ pc[t] = "work" /\ pc'[t] = "unwind"
           \/ pc[t] = "unwind" /\ pc'[t] = "caught"
           \/ pc[t] = "end" /\ pc'[t] = "gone"
           \/ pc'[t] = pc[t] /\ pc[t] # "produce"
        /\ seen'[t] = seen[t]
    BY <1>2, <1>7 DEF Leaves, Fails
  <2>2. ~Takes(t) /\ ~Hands(t)
    BY <1>7, NothingTaken
  <2>3. Received(t)' = Received(t) /\ SentOn(t)' = SentOn(t)
    BY <2>1 DEF Received, SentOn
  <2> QED
    BY <1>1, <2>2, <2>3
<1> QED
  BY <1>3, <1>4, <1>5, <1>6, <1>7 DEF RingStep

\* A queue nobody touched is in order as before.
LEMMA InOrderKept ==
  ASSUME Len(queues') = Len(queues), NEW q \in 2 .. Len(queues), InOrder(q),
         queues'[q] = queues[q],
         Received(Reader(q))' = Received(Reader(q)), SentOn(q - 1)' = SentOn(q - 1),
         \A i \in 1 .. Len(queues[q]) :
           queues[q][i] # Poison => data'[queues[q][i]] = data[queues[q][i]]
  PROVE  InOrder(q)'
<1>1. Real(q)' = Real(q)
  BY DEF Real
<1> QED
  BY <1>1 DEF InOrder

\* Only Handles writes to a block, and only to the one in hand.
LEMMA DataKept ==
  ASSUME TypeOK, NEW t \in Positions, RingStep(t), NEW b \in Blocks, Handles(t) => b # current[t]
  PROVE  data'[b] = data[b]
<1>1. CASE Handles(t)
  BY <1>1 DEF Handles, TypeOK
<1>2. CASE ~Handles(t)
  <2>1. data' = data
    BY <1>2 DEF RingStep, Takes, Hands, LinkProduce, Poisons, Leaves, Fails
  <2> QED
    BY <2>1
<1> QED
  BY <1>1, <1>2

\* Once any position's input is over, the source is done.
LEMMA SourceIsDone ==
  ASSUME TypeOK, Shape, Links, PoisonFollows, NEW t \in Positions, RingStep(t),
         NEW s \in Positions, Over(s)
  PROVE  seen'[Source] = seen[Source]
<1>1. Live /\ Source \in Positions /\ pc[Source] # "none" /\ (s # Source => Source < s)
  <2>1. Live
    BY RingFrame
  <2>2. 1 \in 1 .. Workers /\ Positions = 1 .. MaxWorkers + 1 /\ MaxWorkers \in Nat
    BY <2>1, WhoIsThere
  <2> QED
    BY <2>1, <2>2, WhoIsThere DEF Source
<1>2. Over(Source)
  BY <1>1 DEF PoisonFollows, Sent, Over
<1>3. CASE t = Source
  <2>1. ~Handles(t)
    BY <1>2, <1>3 DEF Handles, Over
  <2> QED
    BY <2>1 DEF RingStep, Takes, Hands, LinkProduce, Poisons, Leaves, Fails
<1>4. CASE t # Source
  BY <1>1, <1>4, RingFrame
<1> QED
  BY <1>3, <1>4

\* The other positions' blocks are as they were.
LEMMA StampedOthers ==
  ASSUME TypeOK, Shape, Links, PoisonFollows, Apart, Flow, NEW t \in Positions, RingStep(t),
         NEW s \in Positions, s # t
  PROVE  Stamped(s)'
<1>1. /\ pc'[s] = pc[s] /\ current'[s] = current[s] /\ seen'[s] = seen[s] /\ Live
      /\ (Over(s)' <=> Over(s))
  BY RingFrame, OverAndSent
<1>2. Stamped(s)
  BY <1>1 DEF Flow
<1>3. ASSUME pc[s] \in {"work", "produce"}
      PROVE  data'[current[s]] = data[current[s]]
  <2>1. Holds(s) /\ current[s] \in Blocks
    BY <1>3 DEF Links, Holds
  <2>2. Handles(t) => Holds(t)
    BY DEF Handles, Holds
  <2>3. Handles(t) => current[s] # current[t]
    BY <2>1, <2>2 DEF Apart
  <2> QED
    BY <2>1, <2>3, DataKept
<1>4. s # Source /\ pc[s] = "work" => data'[current[s]] = seen[s] + 1
  BY <1>2, <1>3 DEF Stamped
<1>5. pc[s] = "produce" => data'[current[s]] = seen[s] /\ seen[s] > 0
  BY <1>2, <1>3 DEF Stamped
<1>6. Over(s) => seen[s] = seen'[Source]
  BY <1>2, SourceIsDone DEF Stamped
<1> QED
  BY <1>1, <1>4, <1>5, <1>6 DEF Stamped

\* The position that moves: what it takes is the next of its data, and poison
\* comes only after all of them.
LEMMA StampedSelf ==
  ASSUME TypeOK, Shape, Links, PoisonFollows, PoisonLast, Flow, NEW t \in Positions, RingStep(t)
  PROVE  Stamped(t)'
<1>1. pc[t] # "none" /\ Live
  BY RingFrame
<1>2. /\ In(t) \in 1 .. Len(queues) /\ Source = 1 /\ Closer = MaxWorkers + 1
      /\ Len(queues) \in 2 .. MaxWorkers + 1 /\ MaxWorkers \in Nat /\ Workers = Len(queues) - 1
      /\ t \in 1 .. Workers \/ t = Closer
  BY <1>1, Places
<1>3. seen[t] \in Nat /\ DOMAIN pc = Positions /\ DOMAIN seen = Positions /\ Stamped(t)
  BY <1>1, CountsAreNumbers DEF TypeOK, Flow
<1>4. CASE Takes(t)
  <2> DEFINE k == In(t) x == queues[k][1]
  <2>1. /\ pc[t] \in {"init", "consume"} /\ queues[k] # << >> /\ seen' = seen /\ data' = data
        /\ current'[t] = x
    BY <1>4 DEF Takes, TypeOK
  <2>2. IF x = Poison THEN pc'[t] \in {"end", "pass"} ELSE pc'[t] = "work"
    BY <1>4 DEF Takes, TypeOK
  <2>3. CASE t = Source
    <3>1. x # Poison
      <4>1. k = 1
        BY <1>2, <2>3 DEF In
      <4> QED
        BY <2>1, <2>3, <4>1, SourceTakesBlocks
    <3> QED
      BY <2>2, <2>3, <3>1 DEF Stamped, Over
  <2>4. CASE t # Source
    <3>1. k \in 2 .. Len(queues)
      BY <1>2, <2>4 DEF In
    <3>2. /\ Reader(k) = t /\ k - 1 \in Positions /\ k - 1 \in 1 .. k - 1 /\ InOrder(k)
          /\ 1 \in 1 .. Len(queues[k])
      BY <1>1, <1>2, <2>1, <3>1, Ends, QueueType DEF Flow
    <3>3. Received(t) = seen[t]
      BY <2>1 DEF Received
    <3> HIDE DEF k
    <3>4. x # Poison => data[x] = seen[t] + 1
      BY <3>2, <3>3 DEF InOrder
    <3>5. ASSUME x = Poison
          PROVE  seen[t] = seen[Source]
      <4>1. Real(k) = 0
        <5>1. k \in 1 .. Len(queues)
          BY <1>2 DEF k
        <5>2. \A i \in 1 .. Len(queues[k]) : queues[k][i] = Poison => i = Len(queues[k])
          BY <5>1 DEF PoisonLast
        <5>3. /\ \E i \in 1 .. Len(queues[k]) : queues[k][i] = Poison
              /\ Len(queues[k]) = 1
          BY <3>2, <3>5, <5>2
        <5> QED
          <6>1. Real(k) = Len(queues[k]) - 1
            BY <5>1, <5>3, RealBlocks
          <6> QED
            BY <5>3, <6>1
      <4>2. seen[t] = SentOn(k - 1)
        <5>1. Received(Reader(k)) + Real(k) = SentOn(k - 1)
          BY <3>2 DEF InOrder
        <5> QED
          BY <1>3, <3>2, <3>3, <4>1, <5>1
      <4>3. Sent(k - 1)
        <5>1. \A i \in 1 .. Len(queues[k]) : queues[k][i] = Poison => \A s \in 1 .. k - 1 : Sent(s)
          BY <1>1, <3>1 DEF PoisonFollows
        <5> QED
          BY <3>2, <3>5, <5>1
      <4>4. SentOn(k - 1) = seen[k - 1] /\ Over(k - 1)
        BY <4>3 DEF Sent, SentOn, Over
      <4>5. seen[k - 1] = seen[Source]
        BY <1>1, <3>2, <4>4 DEF Flow, Stamped
      <4> QED
        BY <4>2, <4>4, <4>5
    <3> QED
      BY <2>1, <2>2, <3>4, <3>5 DEF Stamped, Over
  <2> QED
    BY <2>3, <2>4
<1>5. CASE Hands(t)
  <2>1. pc'[t] = "consume"
    BY <1>3, <1>5 DEF Hands, LinkProduce, Move
  <2> QED
    BY <2>1 DEF Stamped, Over
<1>6. CASE Poisons(t)
  <2>1. seen' = seen /\ pc'[t] \in {"end", "gone"}
    BY <1>3, <1>6 DEF Poisons
  <2>2. Over(t) \/ t = Source
    BY <1>6, OverAndSent
  <2> QED
    BY <1>3, <2>1, <2>2 DEF Stamped
<1>7. CASE Handles(t)
  <2>1. pc[t] = "work" /\ pc'[t] = "produce" /\ seen'[t] = seen[t] + 1 /\ current' = current
    BY <1>3, <1>7 DEF Handles
  <2>2. current[t] \in Blocks
    BY <2>1 DEF Links, Holds
  <2>3. data'[current[t]] = seen[t] + 1
    BY <1>7, <2>2 DEF Handles, TypeOK
  <2> QED
    BY <1>3, <2>1, <2>3 DEF Stamped, Over
<1>8. CASE Leaves(t) \/ Fails(t)
  <2>1. /\ seen' = seen /\ current' = current /\ data' = data /\ (Over(t)' => Over(t))
        /\ pc'[t] \in {"unwind", "caught", "gone"} \/ pc'[t] = pc[t]
    BY <1>3, <1>8 DEF Leaves, Fails, Over
  <2> QED
    BY <1>3, <2>1 DEF Stamped
<1> QED
  BY <1>4, <1>5, <1>6, <1>7, <1>8 DEF RingStep

\* Taking the first block keeps the rest of the queue in order.
LEMMA InOrderTakes ==
  ASSUME TypeOK, Shape, Links, PoisonLast, Flow, NEW t \in Positions, Takes(t),
         NEW q \in 2 .. Len(queues), q = In(t)
  PROVE  InOrder(q)'
<1> DEFINE n == Len(queues[q]) x == queues[q][1] r == Received(t)
<1>1. RingStep(t) /\ pc[t] # "none" /\ Live /\ Len(queues') = Len(queues)
  <2>1. RingStep(t)
    BY DEF RingStep
  <2> QED
    BY <2>1, RingFrame
<1>2. /\ Reader(q) = t /\ q - 1 \in Positions /\ q \in 1 .. Len(queues) /\ InOrder(q)
      /\ t # Source /\ q - 1 # t
  <2>1. Reader(q) = t /\ q - 1 \in Positions /\ q \in 1 .. Len(queues) /\ t # Source
    BY <1>1, Ends
  <2>2. q - 1 # t
    <3>1. Len(queues) \in 2 .. MaxWorkers + 1 /\ Closer = MaxWorkers + 1 /\ MaxWorkers \in Nat
      BY <1>1, WhoIsThere
    <3> QED
      BY <3>1 DEF In
  <2> QED
    BY <1>1, <2>1, <2>2 DEF Flow
<1>3. /\ queues[q] # << >> /\ queues' = [queues EXCEPT ![q] = Tail(@)] /\ current'[t] = x
      /\ data' = data
  BY DEF Takes, TypeOK
<1>4. /\ n \in Nat \ {0} /\ Len(queues'[q]) = n - 1
      /\ \A i \in 1 .. n - 1 : queues'[q][i] = queues[q][i + 1]
  BY <1>2, <1>3, Removed
<1>5. Reader(q)' = t
  BY <1>1, <1>2 DEF Reader
<1>6. /\ SentOn(q - 1)' = SentOn(q - 1) /\ r \in Nat /\ SentOn(q - 1) \in Int
      /\ r + Real(q) = SentOn(q - 1)
      /\ \A i \in 1 .. n : queues[q][i] # Poison => data[queues[q][i]] = r + i
  BY <1>1, <1>2, CountsRing, CountsAreNumbers DEF InOrder
<1>7. Received(t)' = IF x = Poison THEN r ELSE r + 1
  BY <1>1, <1>2, <1>3, CountsRing
<1>8. \A i \in 1 .. n : queues[q][i] = Poison => i = n
  BY <1>2 DEF PoisonLast
<1>9. TypeOK' /\ q \in 1 .. Len(queues')
  BY <1>1, <1>2, TypeRing
<1>10. queues'[q] = << >> <=> n - 1 = 0
  <2>1. queues' \in Seq(Seq(Blocks \cup {Poison}))
    BY <1>9 DEF TypeOK
  <2>2. queues'[q] \in Seq(Blocks \cup {Poison})
    BY <1>9, <2>1, SeqElement
  <2> QED
    BY <1>4, <2>2, SeqNonempty
<1>11. Real(q) = IF queues[q][n] = Poison THEN n - 1 ELSE n
  BY <1>3 DEF Real
<1>12. Real(q)' = IF n - 1 # 0 /\ queues'[q][n - 1] = Poison THEN n - 2 ELSE n - 1
  BY <1>4, <1>10 DEF Real
<1> HIDE DEF n, r
<1>13. n - 1 # 0 => queues'[q][n - 1] = queues[q][n]
  BY <1>4
<1>14. CASE x = Poison
  <2>1. n = 1
    BY <1>4, <1>8, <1>14
  <2>2. Real(q) = 0 /\ Real(q)' = 0
    BY <1>11, <1>12, <1>14, <2>1
  <2>3. Received(Reader(q))' + Real(q)' = SentOn(q - 1)'
    BY <1>5, <1>6, <1>7, <1>14, <2>2
  <2>4. Len(queues'[q]) = 0
    BY <1>4, <2>1
  <2> QED
    BY <2>3, <2>4 DEF InOrder
<1>15. CASE x # Poison
  <2>1. Real(q)' = Real(q) - 1 /\ Real(q) \in Int
    <3>1. n = 1 => queues[q][n] # Poison
      BY <1>15
    <3> QED
      BY <1>4, <1>11, <1>12, <1>13, <3>1
  <2>2. Received(Reader(q))' = r + 1
    BY <1>5, <1>7, <1>15
  <2>3. Received(Reader(q))' + Real(q)' = SentOn(q - 1)'
    BY <1>6, <2>1, <2>2
  <2>4. ASSUME NEW i \in 1 .. n - 1, queues'[q][i] # Poison
        PROVE  data'[queues'[q][i]] = r + 1 + i
    <3>1. i + 1 \in 1 .. n /\ queues'[q][i] = queues[q][i + 1]
      BY <1>4
    <3>2. data[queues[q][i + 1]] = r + (i + 1)
      BY <1>6, <2>4, <3>1
    <3>3. r \in Nat /\ i \in Nat
      BY <1>4, <1>6
    <3>4. r + (i + 1) = r + 1 + i
      BY <3>3
    <3> QED
      BY <1>3, <3>1, <3>2, <3>4
  <2> QED
    BY <1>4, <2>2, <2>3, <2>4 DEF InOrder
<1> QED
  BY <1>14, <1>15

\* A block handed on carries the number that is next in the queue.
LEMMA InOrderPuts ==
  ASSUME TypeOK, Shape, Links, PoisonFollows, PoisonLast, Flow, NEW t \in Positions,
         Hands(t) \/ Poisons(t), NEW q \in 2 .. Len(queues), q = Out(t)
  PROVE  InOrder(q)'
<1> DEFINE n == Len(queues[q]) r == Received(Reader(q))
<1>1. RingStep(t) /\ pc[t] # "none" /\ Live /\ Len(queues') = Len(queues) /\ ~Sent(t)
  <2>1. RingStep(t)
    BY DEF RingStep
  <2> QED
    BY <2>1, RingFrame, OverAndSent
<1>2. /\ Reader(q) \in Positions /\ Reader(q) # t /\ q - 1 = t
      /\ q \in 1 .. Len(queues) /\ InOrder(q)
  <2>1. Reader(q) \in Positions /\ q - 1 = t /\ q \in 1 .. Len(queues) /\ (Reader(q) = t => In(t) = q)
    BY <1>1, Ends
  <2>2. In(t) # q
    <3>1. Len(queues) \in 2 .. MaxWorkers + 1 /\ Closer = MaxWorkers + 1 /\ MaxWorkers \in Nat
      BY <1>1, WhoIsThere
    <3> QED
      BY <2>1, <3>1 DEF In
  <2> QED
    BY <1>1, <2>1, <2>2 DEF Flow
<1>3. PICK x \in Blocks \cup {Poison} :
        /\ Produce(t, x)
        /\ Hands(t) => x = current[t] /\ x \in Blocks /\ data[x] = seen[t]
        /\ Poisons(t) => x = Poison
        /\ Hands(t) <=> x # Poison
  <2>1. CASE Hands(t)
    <3>1. pc[t] = "produce" /\ Produce(t, current[t]) /\ current[t] \in Blocks
      BY <2>1 DEF Hands, LinkProduce, Move, Links, Holds
    <3>2. data[current[t]] = seen[t]
      BY <1>1, <3>1 DEF Flow, Stamped
    <3>3. ~Poisons(t)
      BY <3>1 DEF Poisons
    <3> QED
      BY <2>1, <3>1, <3>2, <3>3, BlocksAssumption
  <2>2. CASE ~Hands(t)
    BY <2>2 DEF Poisons
  <2> QED
    BY <2>1, <2>2
<1>4. /\ n \in Nat /\ Len(queues'[q]) = n + 1 /\ queues'[q][n + 1] = x
      /\ \A i \in 1 .. n : queues'[q][i] = queues[q][i]
  BY <1>2, <1>3, Appended
<1>5. \A i \in 1 .. n : queues[q][i] # Poison
  BY <1>1, NoPoisonAhead
<1>6. Real(q) = n
  BY <1>2, <1>5, RealBlocks
<1>7. Real(q)' = IF x = Poison THEN n ELSE n + 1
  <2>1. TypeOK' /\ q \in 1 .. Len(queues')
    BY <1>1, <1>2, TypeRing
  <2>2. queues' \in Seq(Seq(Blocks \cup {Poison}))
    BY <2>1 DEF TypeOK
  <2>3. queues'[q] \in Seq(Blocks \cup {Poison})
    BY <2>1, <2>2, SeqElement
  <2>4. Len(queues'[q]) # 0
    BY <1>4
  <2>5. queues'[q] # << >>
    BY <2>3, <2>4, SeqNonempty
  <2>6. Real(q)' = IF x = Poison THEN n + 1 - 1 ELSE n + 1
    BY <1>4, <2>5 DEF Real
  <2> QED
    BY <1>4, <2>6
<1>8. Received(Reader(q))' = r /\ r \in Nat
  <2>1. Reader(q)' = Reader(q)
    BY <1>1 DEF Reader
  <2> QED
    BY <1>1, <1>2, <2>1, CountsRing, CountsAreNumbers
<1> DEFINE c == SentOn(t)
<1>9. /\ c \in Int /\ SentOn(q - 1) = c
      /\ SentOn(q - 1)' = IF x = Poison THEN c ELSE c + 1
      /\ x # Poison => data[x] = c + 1
  <2>1. SentOn(t) \in Int /\ SentOn(q - 1) = SentOn(t) /\ SentOn(q - 1)' = SentOn(t)'
    BY <1>2, CountsAreNumbers
  <2>2. CASE Hands(t)
    BY <1>1, <1>3, <2>1, <2>2, CountsRing
  <2>3. CASE ~Hands(t)
    BY <1>1, <1>3, <2>1, <2>3, CountsRing
  <2> QED
    BY <2>2, <2>3
<1>10. /\ r + n = c
       /\ \A i \in 1 .. n : data[queues[q][i]] = r + i
  BY <1>2, <1>5, <1>6, <1>9 DEF InOrder
<1>11. data' = data
  BY DEF Hands, LinkProduce, Poisons
<1> HIDE DEF n, r, c
<1>12. Received(Reader(q))' + Real(q)' = SentOn(q - 1)'
  <2>1. n \in Nat /\ r \in Nat /\ c \in Int /\ r + n = c
    BY <1>4, <1>8, <1>9, <1>10
  <2>2. CASE x = Poison
    BY <1>7, <1>8, <1>9, <2>1, <2>2
  <2>3. CASE x # Poison
    <3>1. r + (n + 1) = c + 1
      BY <2>1
    <3> QED
      BY <1>7, <1>8, <1>9, <2>3, <3>1
  <2> QED
    BY <2>2, <2>3
<1>13. ASSUME NEW i \in 1 .. n + 1, queues'[q][i] # Poison
       PROVE  data'[queues'[q][i]] = r + i
  <2>1. CASE i \in 1 .. n
    BY <1>4, <1>10, <1>11, <2>1
  <2>2. CASE i = n + 1
    <3>1. queues'[q][i] = x /\ x # Poison
      BY <1>4, <1>13, <2>2
    <3>2. data'[queues'[q][i]] = c + 1
      BY <1>9, <1>11, <3>1
    <3>3. n \in Nat /\ r \in Nat /\ c \in Int /\ r + n = c
      BY <1>4, <1>8, <1>9, <1>10
    <3>4. c + 1 = r + i
      BY <2>2, <3>3
    <3> QED
      BY <3>2, <3>4
  <2> QED
    BY <1>4, <2>1, <2>2
<1> QED
  BY <1>4, <1>8, <1>12, <1>13 DEF InOrder

\* A step of a worker loses, repeats and reorders nothing.
LEMMA FlowRing ==
  ASSUME TypeOK, Shape, Links, PoisonFollows, PoisonLast, Apart, Flow,
         NEW t \in Positions, RingStep(t)
  PROVE  Flow'
<1>1. pc[t] # "none" /\ Live /\ Len(queues') = Len(queues)
  BY RingFrame
<1>2. \A s \in Positions : Stamped(s)'
  BY StampedOthers, StampedSelf
<1>3. ASSUME NEW q \in 2 .. Len(queues)
      PROVE  InOrder(q)'
  <2>1. /\ Reader(q) \in Positions /\ Reader(q) # Source /\ q - 1 \in Positions
        /\ q \in 1 .. Len(queues) /\ (Reader(q) = t <=> In(t) = q) /\ (q - 1 = t <=> Out(t) = q)
    BY <1>1, Ends
  <2>2. Out(t) \in 1 .. Len(queues) /\ In(t) \in 1 .. Len(queues)
    BY <1>1, Places
  <2>3. InOrder(q)
    BY <1>1 DEF Flow
  <2>4. Reader(q)' = Reader(q)
    BY <1>1 DEF Reader
  <2>5. CASE Takes(t) /\ q # In(t)
    <3>1. queues'[q] = queues[q] /\ data' = data
      BY <2>1, <2>2, <2>5, Removed DEF Takes
    <3>2. ~Hands(t)
      BY <2>5 DEF Takes, Hands, LinkProduce, Move
    <3>3. Received(Reader(q))' = Received(Reader(q)) /\ SentOn(q - 1)' = SentOn(q - 1)
      BY <2>1, <2>4, <2>5, <3>2, CountsRing
    <3> QED
      BY <1>1, <2>3, <3>1, <3>3, InOrderKept
  <2>6. CASE (Hands(t) \/ Poisons(t)) /\ q # Out(t)
    <3>1. PICK x \in Blocks \cup {Poison} : Produce(t, x)
      BY <2>6 DEF Hands, LinkProduce, Poisons, TypeOK
    <3>2. queues'[q] = queues[q] /\ data' = data
      BY <2>1, <2>2, <2>6, <3>1, Appended DEF Hands, LinkProduce, Poisons
    <3>3. ~Takes(t)
      BY <2>6 DEF Takes, Hands, LinkProduce, Move, Poisons
    <3>4. Received(Reader(q))' = Received(Reader(q)) /\ SentOn(q - 1)' = SentOn(q - 1)
      BY <2>1, <2>4, <2>6, <3>3, CountsRing
    <3> QED
      BY <1>1, <2>3, <3>2, <3>4, InOrderKept
  <2>7. CASE Handles(t) \/ Leaves(t) \/ Fails(t)
    <3>1. queues' = queues /\ ~Takes(t) /\ ~Hands(t)
      BY <2>7, NothingTaken DEF Handles, Leaves, Fails
    <3>2. Received(Reader(q))' = Received(Reader(q)) /\ SentOn(q - 1)' = SentOn(q - 1)
      BY <2>1, <2>4, <3>1, CountsRing
    <3>3. ASSUME NEW i \in 1 .. Len(queues[q]), queues[q][i] # Poison
          PROVE  data'[queues[q][i]] = data[queues[q][i]]
      <4>1. queues[q][i] \in Blocks
        BY <2>1, <3>3, QueueType
      <4>2. Handles(t) => queues[q][i] # current[t]
        BY <2>1 DEF Handles, Holds, Apart
      <4> QED
        BY <4>1, <4>2, DataKept
    <3> QED
      BY <1>1, <2>3, <3>1, <3>2, <3>3, InOrderKept
  <2> QED
    BY <2>5, <2>6, <2>7, InOrderTakes, InOrderPuts DEF RingStep
<1> QED
  BY <1>1, <1>2, <1>3 DEF Flow

\* The main thread adds empty queues and threads that have seen nothing.
LEMMA FlowMain ==
  ASSUME TypeOK, Shape, Flow, Drained, MainStep
  PROVE  Flow'
<1>1. CASE AddFirst
  <2>1. ~Running /\ pc' = [pc EXCEPT ![Source] = "init"] /\ seen' = [t \in Positions |-> 0]
    BY <1>1 DEF AddFirst
  <2>2. ASSUME NEW t \in Positions PROVE pc'[t] \in {"init", "none"} /\ seen'[t] = 0
    BY <2>1 DEF Shape, Live, TypeOK
  <2>3. \A t \in Positions : Stamped(t)'
    BY <2>2 DEF Stamped, Over
  <2>4. Len(queues') = 2 /\ queues'[2] = << >> /\ Len(queues'[2]) = 0
    BY <1>1, Started
  <2>5. Reader(2)' = Closer /\ Real(2)' = 0
    BY <2>4 DEF Reader, Real
  <2>6. Closer \in Positions /\ 1 \in Positions
    BY BoundsAssumption DEF Closer, Positions
  <2>7. Received(Closer)' = 0 /\ SentOn(1)' = 0
    BY <2>2, <2>6 DEF Received, SentOn
  <2>8. InOrder(2)'
    BY <2>4, <2>5, <2>7 DEF InOrder
  <2>9. \A q \in 2 .. Len(queues') : q = 2
    BY <2>4
  <2> QED
    BY <2>3, <2>8, <2>9 DEF Flow
<1>2. CASE Add
  <2>0. PICK n \in Nat : n = Len(queues)
    BY <1>2, Widened
  <2>1. Live /\ ~complete_called /\ Workers < MaxWorkers /\ UNCHANGED <<current, data, seen>>
        /\ pc' = [pc EXCEPT ![Workers + 1] = "init"]
    BY <1>2 DEF Add, Live
  <2>2. /\ n \in Nat /\ Len(queues') = n + 1 /\ queues'[n + 1] = << >> /\ Len(queues'[n + 1]) = 0
        /\ \A q \in 1 .. n : queues'[q] = queues[q]
    BY <1>2, <2>0, Widened
  <2>3. Workers = n - 1 /\ n \in 2 .. MaxWorkers + 1 /\ MaxWorkers \in Nat
        /\ Closer = MaxWorkers + 1 /\ Positions = 1 .. MaxWorkers + 1
    BY <2>0, <2>1, WhoIsThere
  <2>4. n \in 2 .. MaxWorkers /\ Workers + 1 = n /\ n \in Positions /\ Closer \in Positions /\ n # Closer
    BY <2>1, <2>3
  <2>5. pc[n] = "none" /\ pc[Closer] = "none" /\ seen[n] = 0 /\ seen[Closer] = 0
    <3>1. \A t \in Positions : pc[t] # "none" => t \in 1 .. Workers
      BY <2>1, WhoIsThere
    <3>2. n \notin 1 .. Workers /\ Closer \notin 1 .. Workers
      BY <2>3, <2>4
    <3>3. pc[n] = "none" /\ pc[Closer] = "none"
      BY <2>4, <3>1, <3>2
    <3> QED
      BY <2>1, <2>4, <3>3, WhoIsThere
  <2>6. pc'[n] = "init" /\ \A t \in Positions : t # n => pc'[t] = pc[t]
    <3>1. DOMAIN pc = Positions
      BY DEF TypeOK
    <3> QED
      BY <2>1, <2>4, <3>1
  <2>7. ASSUME NEW t \in Positions
        PROVE  Stamped(t)'
    <3>1. Stamped(t) /\ UNCHANGED <<current, data, seen>>
      BY <2>1 DEF Flow
    <3> QED
      BY <2>6, <3>1 DEF Stamped, Over
  <2>8. ASSUME NEW t \in Positions
        PROVE  Received(t)' = Received(t) /\ SentOn(t)' = SentOn(t)
    BY <2>1, <2>5, <2>6 DEF Received, SentOn
  <2>9. Received(n) = 0 /\ Received(Closer) = 0 /\ SentOn(n) = 0
    BY <2>5 DEF Received, SentOn
  <2>10. ASSUME NEW q \in 2 .. n
         PROVE  InOrder(q)'
    <3>1. InOrder(q)
      BY <2>0, <2>1 DEF Flow
    <3>2. q \in 1 .. n /\ q - 1 \in Positions /\ q \in Positions
      BY <2>3, <2>4
    <3>3. queues'[q] = queues[q] /\ data' = data
      BY <2>1, <2>2, <3>2
    <3>4. Real(q)' = Real(q)
      BY <3>3 DEF Real
    <3>5. Reader(q)' = q /\ Reader(q) = (IF q = n THEN Closer ELSE q)
      BY <2>0, <2>2, <2>3 DEF Reader
    <3>6. Received(Reader(q))' = Received(Reader(q))
      <4>1. Received(q)' = Received(q)
        BY <2>8, <3>2
      <4>2. Received(Reader(q))' = Received(q)
        BY <3>5, <4>1 DEF Received
      <4>3. Received(Reader(q)) = Received(q)
        BY <2>9, <3>5
      <4> QED
        BY <4>2, <4>3
    <3>7. SentOn(q - 1)' = SentOn(q - 1)
      BY <2>8, <3>2
    <3> QED
      BY <3>1, <3>3, <3>4, <3>6, <3>7 DEF InOrder
  <2>11. InOrder(n + 1)'
    <3>1. Reader(n + 1)' = Closer /\ Real(n + 1)' = 0
      BY <2>2 DEF Reader, Real
    <3>2. Received(Reader(n + 1))' = 0
      BY <2>4, <2>8, <2>9, <3>1 DEF Received
    <3>3. SentOn(n)' = 0 /\ (n + 1) - 1 = n
      BY <2>2, <2>4, <2>8, <2>9
    <3>4. SentOn((n + 1) - 1)' = 0
      BY <3>3 DEF SentOn
    <3> QED
      BY <2>2, <3>1, <3>2, <3>4 DEF InOrder
  <2>12. \A q \in 2 .. Len(queues') : q \in 2 .. n \/ q = n + 1
    BY <2>2
  <2> QED
    BY <2>7, <2>10, <2>11, <2>12 DEF Flow
<1>3. CASE Closes
  <2>1. Live /\ UNCHANGED <<queues, current, data, seen>>
    BY <1>3 DEF Closes, CompleteLoop, Wait, Live
  <2>2. ASSUME NEW t \in Positions
        PROVE  pc'[t] = pc[t] \/ (pc[t] = "none" /\ pc'[t] = "init")
    <3>1. CASE complete_called
      BY <1>3, <3>1 DEF Closes, CompleteLoop, Wait
    <3>2. CASE ~complete_called
      <4>1. pc' = [pc EXCEPT ![Closer] = "init"] /\ DOMAIN pc = Positions
        BY <1>3, <3>2 DEF Closes, CompleteLoop, Wait, Complete, TypeOK
      <4>2. Closer \in Positions /\ pc[Closer] = "none"
        <5>1. Closer \in Positions /\ Closer \notin 1 .. Workers
          <6>1. /\ Workers \in 1 .. MaxWorkers /\ MaxWorkers \in Nat
                /\ Closer = MaxWorkers + 1 /\ Closer \in Positions
            BY <2>1, WhoIsThere
          <6> QED
            BY <6>1
        <5> QED
          BY <2>1, <3>2, <5>1, WhoIsThere
      <4> QED
        BY <4>1, <4>2
    <3> QED
      BY <3>1, <3>2
  <2>3. ASSUME NEW t \in Positions
        PROVE  Stamped(t)' /\ Received(t)' = Received(t) /\ SentOn(t)' = SentOn(t)
    <3>1. Stamped(t)
      BY <2>1 DEF Flow
    <3> QED
      BY <2>1, <2>2, <3>1 DEF Stamped, Over, Received, SentOn
  <2>4. ASSUME NEW q \in 2 .. Len(queues)
        PROVE  InOrder(q)'
    <3>1. InOrder(q) /\ Reader(q) \in Positions /\ q - 1 \in Positions
      BY <2>1, Ends DEF Flow
    <3>2. Reader(q)' = Reader(q)
      BY <2>1 DEF Reader
    <3>3. Received(Reader(q))' = Received(Reader(q)) /\ SentOn(q - 1)' = SentOn(q - 1)
      BY <2>3, <3>1, <3>2
    <3> QED
      BY <2>1, <3>1, <3>3, InOrderKept
  <2> QED
    BY <2>1, <2>3, <2>4 DEF Flow
<1>4. CASE JoinThreads \/ DrainBlock \/ DrainPoison
  <2>1. main' = "draining" \/ queues' = << >>
    BY <1>4, DrainGoesOn DEF JoinThreads, DrainPoison
  <2> QED
    BY <2>1 DEF Flow, Live, Running
<1> QED
  BY <1>1, <1>2, <1>3, <1>4 DEF MainStep, MainWaiting, Closes

-----------------------------------------------------------------------------
\* The invariant holds of an idle chain, and every step keeps it.
LEMMA InitInvariant ==
  ASSUME Init
  PROVE  IInv
<1>1. queues = << >> /\ Len(queues) = 0 /\ queues \in Seq(Seq(Blocks \cup {Poison}))
  BY DEF Init
<1>2. \A t \in Positions : pc[t] = "none"
  BY DEF Init
<1>3. TypeOK
  <2>1. BlockCount \in Nat /\ MaxRuns \in Nat /\ MaxData \in Nat
    BY CountType, BoundsAssumption
  <2>2. runs \in 0 .. MaxRuns /\ drained \in 0 .. BlockCount
    BY <2>1 DEF Init
  <2>3. seen \in [Positions -> 0 .. MaxData] /\ data \in [Blocks -> 0 .. MaxData]
    BY <2>1 DEF Init
  <2> QED
    BY <1>1, <2>2, <2>3 DEF Init, TypeOK
<1>4. ~Live /\ ~Running /\ main = "idle" /\ ~complete_called
  BY <1>1 DEF Init, Live, Running
<1>5. Shape
  BY <1>1, <1>2, <1>4 DEF Shape
<1>6. Links
  BY <1>2 DEF Links, Holds
<1>7. PoisonFollows /\ PoisonLast /\ BlockLost /\ Flow /\ Drained
  BY <1>1, <1>4 DEF PoisonFollows, PoisonLast, BlockLost, Flow, Drained
<1>8. Apart
  BY <1>1, <1>2 DEF Apart, Holds
<1>9. Failures
  BY DEF Init, Failures
<1>10. Whole
  <2>1. Source \in Positions /\ Closer \in Positions
    BY BoundsAssumption DEF Source, Closer, Positions
  <2> QED
    BY <1>2, <1>4, <2>1 DEF Whole, ArrivesWhole
<1> QED
  BY <1>3, <1>5, <1>6, <1>7, <1>8, <1>9, <1>10 DEF IInv

LEMMA NextInvariant ==
  ASSUME IInv, [Next]_vars
  PROVE  IInv'
<1>1. /\ TypeOK /\ Shape /\ Links /\ PoisonFollows /\ PoisonLast
      /\ BlockLost /\ Apart /\ Whole /\ Flow /\ Drained /\ Failures
  BY DEF IInv
<1>2. CASE MainStep
  BY <1>1, <1>2, TypeMain, ShapeMain, LinksMain, PoisonFollowsMain, PoisonLastMain,
     BlockLostMain, ApartMain, WholeMain, FlowMain, DrainedMain, FailuresMain DEF IInv
<1>3. ASSUME NEW t \in Positions, WorkerStep(t)
      PROVE  IInv'
  <2>1. RingStep(t)
    BY <1>1, <1>3, WorkerStepIsRingStep
  <2> QED
    BY <1>1, <2>1, TypeRing, ShapeRing, LinksRing, PoisonFollowsRing, PoisonLastRing,
       BlockLostRing, ApartRing, WholeRing, FlowRing, DrainedRing, FailuresRing DEF IInv
<1>4. CASE UNCHANGED vars
  <2> USE <1>4 DEF vars, mainVars
  <2>1. TypeOK'
    BY <1>1 DEF TypeOK
  <2>2. Shape' /\ Live' = Live
    BY <1>1 DEF Shape, Live, Running, Workers
  <2>3. Links' /\ PoisonFollows' /\ PoisonLast'
    BY <1>1 DEF Links, Holds, PoisonFollows, PoisonLast, Live, Running, Over, Sent
  <2>4. BlockLost' /\ Apart' /\ Failures' /\ Whole'
    BY <1>1 DEF Failures, Whole, ArrivesWhole, BlockLost, Apart, Nowhere, Holds, Live, Running, Over
  <2>5. Flow' /\ Drained'
    BY <1>1 DEF Flow, Stamped, InOrder, Drained, Live, Running, Over, Received, SentOn, Reader, Real, Workers
  <2> QED
    BY <2>1, <2>2, <2>3, <2>4, <2>5 DEF IInv
<1> QED
  BY <1>2, <1>3, <1>4 DEF Next, Stopped

\* The invariant of the ring of chain.cc: in every state of every execution
\* the blocks are apart, the poison follows the data, and the data is in order.
THEOREM Invariance == Spec => []IInv
<1>1. Init => IInv
  BY InitInvariant
<1>2. IInv /\ [Next]_vars => IInv'
  BY NextInvariant
<1> QED
  BY <1>1, <1>2, PTL DEF Spec

-----------------------------------------------------------------------------
(* What the invariant says of the ring: the properties that TLC checks on  *)
(* small chains, and that Chain implements Pipeline.  A worker handling a  *)
(* block maps to the pipeline's delivery of it, the addition of a worker   *)
(* to Begin or Join, and the poison's return to End; everything else, the  *)
(* whole traffic of the queues included, is a stutter.                     *)

\* The size of a set without two elements.
LEMMA AtMostOne ==
  ASSUME NEW S, \A x, y \in S : x = y
  PROVE  Cardinality(S) \in {0, 1} /\ (S = {} => Cardinality(S) = 0)
<1>1. S = {} \/ \E x : S = {x}
  OBVIOUS
<1> QED
  BY <1>1, FS_EmptySet, FS_Singleton

\* A block apart from itself has at most one place.
LEMMA EachBlockOnce ==
  ASSUME Apart
  PROVE  OneHolder
<1> SUFFICES ASSUME NEW b \in Blocks
             PROVE  Cardinality(Holders(b)) + Cardinality(QueuePlaces(b)) <= 1
  BY DEF OneHolder
<1>1. \A t \in Holders(b) : t \in Positions /\ Holds(t) /\ current[t] = b
  BY DEF Holders, Holds
<1>2. \A s, t \in Holders(b) : s = t
  BY <1>1 DEF Apart
<1>3. \A p \in QueuePlaces(b) :
        /\ p = <<p[1], p[2]>> /\ p[1] \in 1 .. Len(queues) /\ p[2] \in 1 .. Len(queues[p[1]])
        /\ queues[p[1]][p[2]] = b
  <2>1. TAKE p \in QueuePlaces(b)
  <2>2. /\ p \in (1 .. Len(queues)) \X (1 .. BlockCount)
        /\ p[2] <= Len(queues[p[1]]) /\ queues[p[1]][p[2]] = b
    BY DEF QueuePlaces
  <2> QED
    BY <2>2
<1>4. \A p, r \in QueuePlaces(b) : p = r
  <2>1. b # Poison
    BY BlocksAssumption
  <2>2. \A p, r \in QueuePlaces(b) : p[1] = r[1] /\ p[2] = r[2]
    BY <1>3, <2>1 DEF Apart
  <2> QED
    BY <1>3, <2>2
<1>5. Holders(b) = {} \/ QueuePlaces(b) = {}
  <2> SUFFICES ASSUME NEW t \in Holders(b), NEW p \in QueuePlaces(b) PROVE FALSE
    OBVIOUS
  <2> QED
    BY <1>1, <1>3 DEF Apart
<1>6. /\ Cardinality(Holders(b)) \in {0, 1} /\ (Holders(b) = {} => Cardinality(Holders(b)) = 0)
      /\ Cardinality(QueuePlaces(b)) \in {0, 1}
      /\ (QueuePlaces(b) = {} => Cardinality(QueuePlaces(b)) = 0)
  BY <1>2, <1>4, AtMostOne
<1> QED
  BY <1>5, <1>6

\* There is room before whoever has sent no poison, if the queue lacks a block.
LEMMA RoomAhead ==
  ASSUME TypeOK, Shape, PoisonFollows, PoisonLast, Apart,
         NEW t \in Positions, pc[t] # "none", ~Sent(t), NEW b \in Blocks,
         \A i \in 1 .. Len(queues[Out(t)]) : queues[Out(t)][i] # b
  PROVE  Len(queues[Out(t)]) < BlockCount
<1>1. Out(t) \in 1 .. Len(queues)
  BY Places
<1>2. Real(Out(t)) = Len(queues[Out(t)])
  BY <1>1, NoPoisonAhead, RealBlocks
<1>3. Real(Out(t)) < BlockCount
  BY <1>1, RoomForPoison
<1> QED
  BY <1>2, <1>3

\* A block in hand has its own place in the next queue; the poison has that of
\* the block the source gave up.
LEMMA ProduceHasRoom ==
  ASSUME TypeOK, Shape, Links, PoisonFollows, PoisonLast, BlockLost, Apart
  PROVE  ProduceNeverWaits
<1> SUFFICES ASSUME NEW t \in Positions,
                    pc[t] \in {"work", "produce", "pass"} \/ (pc[t] = "end" /\ ~poisoned[t])
             PROVE  Len(queues[Out(t)]) < BlockCount
  BY DEF ProduceNeverWaits
<1>1. pc[t] # "none" /\ ~Sent(t) /\ Live /\ Out(t) \in 1 .. Len(queues)
  BY Places DEF Sent
<1>2. CASE pc[t] \in {"work", "produce"}
  <2>1. Holds(t) /\ current[t] \in Blocks
    BY <1>2 DEF Holds, Links
  <2>2. \A i \in 1 .. Len(queues[Out(t)]) : queues[Out(t)][i] # current[t]
    BY <1>1, <2>1 DEF Apart
  <2> QED
    BY <1>1, <2>1, <2>2, RoomAhead
<1>3. CASE pc[t] \in {"pass", "end"}
  <2>1. Over(t)
    BY <1>3 DEF Over
  <2>2. Over(Source)
    <3>1. CASE t = Source
      BY <2>1, <3>1
    <3>2. CASE t # Source
      <4>1. /\ Source = 1 /\ Source \in Positions /\ Workers \in 1 .. MaxWorkers
            /\ MaxWorkers \in Nat /\ Positions = 1 .. MaxWorkers + 1
            /\ \A s \in 1 .. Workers : pc[s] # "none"
        BY <1>1, WhoIsThere DEF Source
      <4>2. Source < t /\ pc[Source] # "none"
        BY <3>2, <4>1
      <4>3. Sent(Source)
        BY <1>1, <2>1, <4>1, <4>2 DEF PoisonFollows
      <4> QED
        BY <4>3 DEF Sent, Over
    <3> QED
      BY <3>1, <3>2
  <2>3. PICK b \in Blocks : Nowhere(b)
    BY <1>1, <2>2 DEF BlockLost
  <2>4. \A i \in 1 .. Len(queues[Out(t)]) : queues[Out(t)][i] # b
    BY <1>1, <2>3 DEF Nowhere
  <2> QED
    BY <1>1, <2>4, RoomAhead
<1> QED
  BY <1>2, <1>3

\* Safe sharing of the blocks' memory, room in every queue, complete inputs and
\* live queues, of chain.cc's ring at every moment of every run.
THEOREM RingInvariantHolds == Spec => []RingInvariant
<1>1. IInv => RingInvariant
  <2> SUFFICES ASSUME IInv PROVE RingInvariant
    OBVIOUS
  <2>1. OneHolder
    BY EachBlockOnce DEF IInv
  <2>2. ProduceNeverWaits
    BY ProduceHasRoom DEF IInv
  <2>3. PoisonMeansComplete
    BY DEF IInv, PoisonMeansComplete, Shape, Flow, Stamped, Over
  <2>4. NothingDangles
    BY DEF IInv, NothingDangles, Shape, Live
  <2> QED
    BY <2>1, <2>2, <2>3, <2>4 DEF IInv, Whole, RingInvariant
<1> QED
  BY <1>1, Invariance, PTL

\* Whenever and wherever an exception leaves a worker of chain.cc's ring, Wait
\* does not return from joining it; and the workers behind are not told that the
\* data is over unless the failing one passes poison on itself, as ~Writer does.
THEOREM FailureNeverHasResult == Spec => []FailureHasNoResult
<1>1. IInv => FailureHasNoResult
  <2> SUFFICES ASSUME IInv, NEW s \in Positions, failing[s]
               PROVE  /\ Running /\ main \in {"idle", "joining", "aborted"}
                      /\ ~Sent(s) => \A t \in Positions : t > s => ~Over(t)
    BY DEF FailureHasNoResult
  <2>1. pc[s] # "none"
    BY DEF IInv, Failures
  <2>2. Live
    BY <2>1, Places DEF IInv
  <2>3. ASSUME ~Sent(s), NEW t \in Positions, t > s PROVE ~Over(t)
    <3>1. s < t
      BY <2>3 DEF Positions
    <3> QED
      BY <2>1, <2>2, <2>3, <3>1 DEF IInv, PoisonFollows
  <2> QED
    BY <2>2, <2>3 DEF Live
<1> QED
  BY <1>1, Invariance, PTL

\* Wait's abort, "Chain ending without poison.", is never reached: the drain
\* meets the poison before it has counted block_count blocks.
NeverWithoutPoison == main # "without poison"
THEOREM EndsWithPoison == Spec => []NeverWithoutPoison
<1>1. IInv => NeverWithoutPoison
  BY DEF IInv, Shape, NeverWithoutPoison
<1> QED
  BY <1>1, Invariance, PTL

-----------------------------------------------------------------------------
\* The abstract view of the state.
View == <<runs, Running, IF Running THEN Workers ELSE 0, seen>>

\* An idle chain is an idle pipeline.
LEMMA RefineInit ==
  ASSUME Init
  PROVE  Abstract!Init
BY DEF Init, Running, Positions, Abstract!Init, Abstract!Positions

\* The main thread begins, widens and ends a run of the pipeline.
LEMMA RefineMain ==
  ASSUME IInv, MainStep
  PROVE  Abstract!Begin \/ Abstract!Join \/ Abstract!End \/ UNCHANGED View
<1>0. TypeOK /\ Shape /\ Drained
  BY DEF IInv
<1>1. CASE AddFirst
  <2>1. Len(queues') = 2
    BY <1>0, <1>1, Started
  <2>2. Running' /\ Workers' = 1
    BY <1>1, <2>1 DEF AddFirst, Running, Workers
  <2> QED
    BY <1>1, <2>2 DEF AddFirst, Abstract!Begin, Abstract!Positions, Positions
<1>2. CASE Add
  <2>1. Len(queues) \in Nat /\ Len(queues') = Len(queues) + 1
    BY <1>0, <1>2, Widened
  <2>2. queues' # << >> /\ Workers' = Workers + 1
    BY <1>2, <2>1 DEF Add, Workers
  <2> QED
    BY <1>2, <2>2 DEF Add, Running, mainVars, Abstract!Join
<1>3. CASE Closes \/ JoinThreads
  BY <1>3 DEF Closes, CompleteLoop, Wait, JoinThreads, View, Running, Workers
<1>4. CASE DrainBlock
  <2>1. /\ queues # << >> /\ queues' = [queues EXCEPT ![1] = Tail(@)]
        /\ UNCHANGED <<runs, seen>> /\ queues[1] # << >> /\ main = "draining"
    BY <1>0, <1>4 DEF DrainBlock, Shape, Running
  <2>2. Len(queues) \in Nat \ {0} /\ 1 \in 1 .. Len(queues)
    BY <1>0, <2>1, LeadIsThere
  <2>3. queues' \in Seq(Seq(Blocks \cup {Poison})) /\ Len(queues') = Len(queues)
    BY <1>0, <2>1, <2>2, Removed
  <2>4. queues' # << >>
    BY <2>2, <2>3
  <2> QED
    BY <2>1, <2>3, <2>4 DEF View, Running, Workers
<1>5. CASE DrainPoison
  <2>1. main = "draining" /\ Running /\ queues' = << >> /\ UNCHANGED <<runs, seen>>
    BY <1>0, <1>5 DEF DrainPoison, Shape
  <2>2. \A t \in 1 .. Workers \cup {Closer} : seen[t] = seen[Source]
    BY <1>0, <2>1 DEF Drained
  <2>3. /\ Closer = Abstract!Last /\ Source = 1 /\ Running' = FALSE
        /\ (IF Running THEN Workers ELSE 0)' = 0
    BY <2>1 DEF Closer, Source, Abstract!Last, Running
  <2>4. 2 .. Workers \subseteq 1 .. Workers
    <3>1. Len(queues) \in Nat
      BY <1>0, SeqNonempty DEF TypeOK
    <3> QED
      BY <3>1 DEF Workers
  <2>5. /\ \A t \in 2 .. (IF Running THEN Workers ELSE 0) : seen[t] = seen[1]
        /\ seen[Abstract!Last] = seen[1]
    BY <2>1, <2>2, <2>3, <2>4
  <2> QED
    BY <2>1, <2>3, <2>5 DEF Abstract!End
<1> QED
  BY <1>1, <1>2, <1>3, <1>4, <1>5 DEF MainStep, MainWaiting, Closes

\* A worker that has taken a block has not had all its upstream neighbour has.
LEMMA MoreToCome ==
  ASSUME IInv, NEW t \in Positions \ {Source}, pc[t] = "work"
  PROVE  t \in 2 .. Workers \cup {Closer} /\ seen[t] < seen[Upstream(t)]
<1>1. TypeOK /\ Shape /\ PoisonLast /\ Flow
  BY DEF IInv
<1>2. /\ Live /\ Len(queues) \in 2 .. MaxWorkers + 1 /\ MaxWorkers \in Nat
      /\ t \in 1 .. Workers \/ t = Closer
      /\ Source = 1 /\ Closer = MaxWorkers + 1 /\ Workers = Len(queues) - 1
  BY <1>1, Places
<1>3. t \in 2 .. Workers \cup {Closer}
  BY <1>2
<1>4. PICK q \in 2 .. Len(queues) : q = In(t) /\ q - 1 = Upstream(t)
  BY <1>2, <1>3 DEF In, Upstream
<1>5. Reader(q) = t /\ q - 1 \in Positions /\ q \in 1 .. Len(queues)
  BY <1>1, <1>2, <1>4, Ends
<1>6. seen[t] + 1 + Real(q) = SentOn(q - 1)
  <2>1. InOrder(q)
    BY <1>1, <1>2 DEF Flow
  <2> QED
    BY <1>5, <2>1 DEF InOrder, Received
<1>7. Real(q) \in Nat /\ seen[t] \in Nat /\ seen[q - 1] \in Nat
  BY <1>1, <1>5, RealBlocks, CountsAreNumbers
<1>8. SentOn(q - 1) \in Int /\ SentOn(q - 1) <= seen[q - 1]
  BY <1>7 DEF SentOn
<1>9. seen[t] < seen[q - 1]
  BY <1>6, <1>7, <1>8
<1> QED
  BY <1>3, <1>4, <1>9

\* A worker emits or delivers when it handles its block.
LEMMA RefineRing ==
  ASSUME IInv, NEW t \in Positions, RingStep(t)
  PROVE  \/ Abstract!Emit
         \/ t \in 2 .. Workers \cup {Closer} /\ Abstract!Deliver(t)
         \/ UNCHANGED View
<1>0. TypeOK /\ Shape /\ Links
  BY DEF IInv
<1>1. pc[t] # "none" /\ Running /\ UNCHANGED runs
  <2>1. pc[t] # "none"
    BY <1>0, RingFrame
  <2> QED
    BY <1>0, <2>1, Places, RingFrame DEF Live, RingStep, Takes, Hands, LinkProduce, Poisons,
       Handles, Leaves, Fails, mainVars
<1>2. Running' /\ Workers' = Workers
  <2>1. Len(queues') = Len(queues) /\ queues \in Seq(Seq(Blocks \cup {Poison})) /\ TypeOK'
    BY <1>0, RingFrame, TypeRing DEF TypeOK
  <2>2. queues' \in Seq(Seq(Blocks \cup {Poison}))
    BY <2>1 DEF TypeOK
  <2> QED
    BY <1>1, <2>1, <2>2, SeqNonempty DEF Running, Workers
<1>3. CASE Handles(t)
  <2>1. pc[t] = "work" /\ seen' = [seen EXCEPT ![t] = @ + 1]
    BY <1>3 DEF Handles
  <2>2. CASE t = Source
    BY <1>1, <1>2, <2>1, <2>2 DEF Source, Abstract!Emit
  <2>3. CASE t # Source
    <3>1. t \in 2 .. Workers \cup {Closer} /\ seen[t] < seen[Upstream(t)]
      BY <2>1, <2>3, MoreToCome
    <3>2. Upstream(t) = IF t = Abstract!Last THEN Workers ELSE t - 1
      BY DEF Upstream, Closer, Abstract!Last
    <3> QED
      BY <1>1, <1>2, <2>1, <3>1, <3>2 DEF Abstract!Deliver, Abstract!Upstream
  <2> QED
    BY <2>2, <2>3
<1>4. CASE ~Handles(t)
  <2>1. seen' = seen
    BY <1>4 DEF RingStep, Takes, Hands, LinkProduce, Poisons, Leaves, Fails
  <2> QED
    BY <1>1, <1>2, <2>1 DEF View
<1> QED
  BY <1>3, <1>4

\* Every step is one of the pipeline's, or a stutter.
LEMMA RefineStep ==
  ASSUME IInv, [Next]_vars
  PROVE  [Abstract!Next]_Abstract!vars
<1>1. CASE MainStep
  BY <1>1, RefineMain DEF View, Abstract!vars, Abstract!Next
<1>2. ASSUME NEW t \in Positions, WorkerStep(t)
      PROVE  [Abstract!Next]_Abstract!vars
  <2>1. RingStep(t)
    BY <1>2, WorkerStepIsRingStep DEF IInv
  <2>2. \/ Abstract!Emit
        \/ t \in 2 .. Workers \cup {Closer} /\ Abstract!Deliver(t)
        \/ UNCHANGED View
    BY <2>1, RefineRing
  <2>3. CASE t \in 2 .. Workers \cup {Closer} /\ Abstract!Deliver(t)
    <3>1. t \in 2 .. (IF Running THEN Workers ELSE 0) \cup {Abstract!Last}
      BY <2>3 DEF Abstract!Deliver, Closer, Abstract!Last
    <3> QED
      BY <2>3, <3>1 DEF Abstract!Next
  <2> QED
    BY <2>2, <2>3 DEF View, Abstract!vars, Abstract!Next
<1>3. CASE UNCHANGED vars
  BY <1>3 DEF vars, mainVars, Running, Workers, Abstract!vars
<1> QED
  BY <1>1, <1>2, <1>3 DEF Next, Stopped

\* For any number of blocks and workers and any length of data, every worker
\* has every block that the first one emitted, once and in order, and Wait
\* returns only after the last has had them all.
THEOREM Refinement == Spec => ImplementsPipeline
<1>1. Init => Abstract!Init
  BY RefineInit
<1>2. IInv /\ [Next]_vars => [Abstract!Next]_Abstract!vars
  BY RefineStep
<1> QED
  BY <1>1, <1>2, Invariance, PTL DEF Spec, ImplementsPipeline, Abstract!Spec

=============================================================================
