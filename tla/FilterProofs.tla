----------------------------- MODULE FilterProofs -----------------------------
(***************************************************************************)
(* TLAPS proofs about the threaded filter (lm/filter/thread.hh), for any   *)
(* finite sets of batches and workers and any input.                       *)
(*                                                                         *)
(* The first proofs count.  A batch's copies in the stack, the three       *)
(* queues, the deque and the workers' hands make one (OneOwner), and every *)
(* step is shown to move one copy or none.  The step for which this is not *)
(* plain is the output worker's: it puts a batch at the place ordering_    *)
(* has for its sequence number, and would destroy a batch that were there  *)
(* already.  Numbers says that there is none: the numbers of batches under *)
(* way are different, they lie in base_sequence .. Limit - 1, and a batch  *)
(* in ordering_ is at its own number's place.  Phases ties the program     *)
(* counters to what the threads hold: the main thread never takes the top  *)
(* of an empty stack, and has every batch when it writes itself.           *)
(*                                                                         *)
(* The others are about what the batches hold, with one output file and a  *)
(* filter that answers what it is meant to (OneOutput).  Content says that *)
(* there is a line up to which everything is through, that the lines read  *)
(* since are in the batches on their way, each in one run, and that the    *)
(* runs follow each other as the batches' numbers do.  Draining says that  *)
(* poison comes after everything else in its queue.                        *)
(***************************************************************************)
EXTENDS FilterController, FiniteSetTheorems, SequenceTheorems, WellFoundedInduction, TLAPS

\* The types of what holds batches, and of the numbers.
BatchTypes ==
  /\ local_read \in Seq(Batches) /\ to_read \in Seq(Batches)
  /\ to_filter \in Seq(Requests) /\ to_output \in Seq(Requests) /\ ordering \in Seq(Requests)
  /\ sequence \in Nat \ {0} /\ base_sequence \in Nat /\ number \in [Batches -> Nat]
  /\ filter \in [Filters -> [at : {"consume", "call_filter", "produce", "exit"}, batch : Requests]]
  /\ after \in {"new_input", "collect"}

\* The top batch has been given a number that it was not handed over with.  The numbers
\* below Limit are those of batches handed over.
Filling == main \in {"read", "flush_input", "end_length", "close_filters", "close_output", "done"}
Limit == IF Filling THEN sequence - 1 ELSE sequence

\* What each program counter implies about the holders of batches.
Phases ==
  /\ Filling \/ main = "new_input" => local_read # << >>
  /\ main = "end_length" => Len(local_read) = QueueSize
  /\ \A i \in 1 .. Len(to_output) :
       to_output[i] = Null => main \in {"close_output", "done", "undefined"}
  /\ writer = "return" => FrontReady
  /\ \A f \in Filters : filter[f].batch \in Batches <=> filter[f].at \in {"call_filter", "produce"}

\* Nobody but the main thread has b.
UnderWay(b) == Copies(local_read, b) = 0 /\ Copies(to_read, b) = 0

\* Numbers of batches under way.
Numbers ==
  /\ base_sequence <= Limit
  /\ Filling => number[Top] = Limit
  /\ \A b \in Batches : UnderWay(b) => number[b] \in base_sequence .. Limit - 1
  /\ \A b, c \in Batches : UnderWay(b) /\ UnderWay(c) /\ number[b] = number[c] => b = c
  /\ \A i \in 1 .. Len(ordering) :
       ordering[i] # Null => number[ordering[i]] = base_sequence + (i - 1)

\* The inductive invariant.
IInv == BatchTypes /\ Phases /\ OneOwner /\ Numbers

-----------------------------------------------------------------------------
(* Sequences, and the copies of a batch in them                            *)

\* Lengths, domains and elements of a sequence.
LEMMA SeqFacts ==
  ASSUME NEW S, NEW q \in Seq(S)
  PROVE  Len(q) \in Nat /\ DOMAIN q = 1 .. Len(q) /\ (q = << >> <=> Len(q) = 0)
         /\ \A i \in 1 .. Len(q) : q[i] \in S
OBVIOUS

\* PCQueue::Produce, MoveRead's push: what a sequence with one more element holds.
LEMMA AppendFacts ==
  ASSUME NEW S, NEW q \in Seq(S), NEW x \in S
  PROVE  /\ Append(q, x) \in Seq(S) /\ DOMAIN Append(q, x) = DOMAIN q \cup {Len(q) + 1}
         /\ Len(Append(q, x)) = Len(q) + 1 /\ Len(q) + 1 \notin DOMAIN q
         /\ Append(q, x)[Len(q) + 1] = x
         /\ \A i \in DOMAIN q : Append(q, x)[i] = q[i]
OBVIOUS

\* A sequence without its first element.
LEMMA TailFacts ==
  ASSUME NEW S, NEW q \in Seq(S), q # << >>
  PROVE  /\ Tail(q) \in Seq(S) /\ Len(q) \in Nat \ {0} /\ Len(Tail(q)) = Len(q) - 1
         /\ Head(q) = q[1] /\ q[1] \in S
         /\ \A i \in 1 .. Len(q) - 1 : Tail(q)[i] = q[i + 1]
OBVIOUS

\* A sequence that is not empty has a first element.
LEMMA FirstFacts ==
  ASSUME NEW S, NEW q \in Seq(S), q # << >>
  PROVE  1 \in 1 .. Len(q) /\ q[1] \in S /\ Head(q) = q[1]
<1>1. q[1] \in S /\ Len(q) \in Nat \ {0} /\ Head(q) = q[1]
  BY TailFacts
<1> QED
  BY <1>1

\* A stack without its top (local_read_.pop_back).
LEMMA FrontFacts ==
  ASSUME NEW S, NEW q \in Seq(S), q # << >>
  PROVE  /\ Front(q) \in Seq(S) /\ Len(q) \in Nat \ {0} /\ Len(Front(q)) = Len(q) - 1
         /\ Last(q) = q[Len(q)] /\ Last(q) \in S
         /\ \A i \in 1 .. Len(q) - 1 : Front(q)[i] = q[i]
<1>1. Len(q) \in Nat \ {0} /\ DOMAIN q = 1 .. Len(q)
  BY SeqFacts
<1>2. Front(q) = [i \in 1 .. Len(q) - 1 |-> q[i]]
  BY <1>1, SubSeqProperties DEF Front
<1> QED
  BY <1>1, <1>2 DEF Last

\* The places of b in a sequence are finitely many; there are none when b is not in it.
LEMMA CopiesType ==
  ASSUME NEW S, NEW q \in Seq(S), NEW b
  PROVE  /\ IsFiniteSet({i \in DOMAIN q : q[i] = b}) /\ Copies(q, b) \in Nat
         /\ Copies(q, b) = 0 <=> \A i \in 1 .. Len(q) : q[i] # b
<1>1. DOMAIN q = 1 .. Len(q) /\ Len(q) \in Nat
  BY SeqFacts
<1> DEFINE P == {i \in DOMAIN q : q[i] = b}
<1>2. IsFiniteSet(1 .. Len(q)) /\ P \in SUBSET (1 .. Len(q))
  BY <1>1, FS_Interval
<1>3. IsFiniteSet(P)
  BY <1>2, FS_Subset
<1>4. Cardinality(P) \in Nat /\ (Cardinality(P) = 0 <=> P = {})
  BY <1>3, FS_CardinalityType, FS_EmptySet
<1> QED
  BY <1>1, <1>3, <1>4 DEF Copies

\* An element that is appended is one copy more of itself.
LEMMA CopiesAppend ==
  ASSUME NEW S, NEW q \in Seq(S), NEW x \in S, NEW b
  PROVE  Copies(Append(q, x), b) = Copies(q, b) + (IF x = b THEN 1 ELSE 0)
<1> DEFINE P == {i \in DOMAIN q : q[i] = b}
           R == {i \in DOMAIN Append(q, x) : Append(q, x)[i] = b}
<1>1. IsFiniteSet(P) /\ Cardinality(P) \in Nat
  BY CopiesType DEF Copies
<1>2. R = IF x = b THEN P \cup {Len(q) + 1} ELSE P
  BY AppendFacts
<1>3. Len(q) + 1 \notin P
  BY AppendFacts
<1>4. Copies(q, b) = Cardinality(P) /\ Copies(Append(q, x), b) = Cardinality(R)
  BY DEF Copies
<1> HIDE DEF P, R
<1>5. Cardinality(P \cup {Len(q) + 1}) = Cardinality(P) + 1
  BY <1>1, <1>3, FS_AddElement
<1> QED
  BY <1>1, <1>2, <1>4, <1>5

\* The first element that is taken off is one copy less of itself.
LEMMA CopiesTail ==
  ASSUME NEW S, NEW q \in Seq(S), q # << >>, NEW b
  PROVE  Copies(q, b) = Copies(Tail(q), b) + (IF Head(q) = b THEN 1 ELSE 0)
<1> DEFINE P == {i \in DOMAIN q : q[i] = b}
           R == {i \in DOMAIN Tail(q) : Tail(q)[i] = b}
           f == [i \in R |-> i + 1]
<1>1. IsFiniteSet(R) /\ IsFiniteSet(P)
  <2>1. Tail(q) \in Seq(S)
    BY TailFacts
  <2> QED
    BY <2>1, CopiesType
<1>2. DOMAIN q = 1 .. Len(q) /\ DOMAIN Tail(q) = 1 .. Len(q) - 1 /\ Len(q) \in Nat \ {0}
  BY TailFacts, SeqFacts
<1>3. f \in Bijection(R, P \ {1})
  <2>1. \A i \in R : f[i] \in P \ {1}
    BY <1>2, TailFacts
  <2>2. \A i, j \in R : f[i] = f[j] => i = j
    BY <1>2
  <2>3. \A j \in P \ {1} : j - 1 \in R /\ f[j - 1] = j
    <3> SUFFICES ASSUME NEW j \in P \ {1} PROVE j - 1 \in R /\ f[j - 1] = j
      OBVIOUS
    <3>1. j \in 2 .. Len(q) /\ q[j] = b
      BY <1>2
    <3>2. j - 1 \in 1 .. Len(q) - 1 /\ j - 1 + 1 = j
      BY <1>2, <3>1
    <3>3. Tail(q)[j - 1] = q[j - 1 + 1]
      BY <3>2, TailFacts
    <3> QED
      BY <1>2, <3>1, <3>2, <3>3
  <2> HIDE DEF P, R, f
  <2>4. f \in [R -> P \ {1}]
    BY <2>1 DEF f
  <2>5. f \in Injection(R, P \ {1})
    BY <2>2, <2>4 DEF Injection, IsInjective
  <2>6. f \in Surjection(R, P \ {1})
    BY <2>3, <2>4 DEF Surjection
  <2> QED
    BY <2>5, <2>6 DEF Bijection
<1>4. Cardinality(P \ {1}) = Cardinality(R)
  <2> HIDE DEF P, R, f
  <2>1. ExistsBijection(R, P \ {1})
    BY <1>3 DEF ExistsBijection
  <2> QED
    BY <1>1, <2>1, FS_Bijection
<1>5. 1 \in P <=> Head(q) = b
  BY <1>2, TailFacts
<1>6. Cardinality(P \ {1}) = IF 1 \in P THEN Cardinality(P) - 1 ELSE Cardinality(P)
  BY <1>1, FS_RemoveElement
<1>7. Cardinality(P) \in Nat
  BY <1>1, FS_CardinalityType
<1>8. Copies(q, b) = Cardinality(P) /\ Copies(Tail(q), b) = Cardinality(R)
  BY DEF Copies
<1> HIDE DEF P, R
<1> QED
  BY <1>4, <1>5, <1>6, <1>7, <1>8

\* The top that is taken off is one copy less of itself.
LEMMA CopiesFront ==
  ASSUME NEW S, NEW q \in Seq(S), q # << >>, NEW b
  PROVE  Copies(q, b) = Copies(Front(q), b) + (IF Last(q) = b THEN 1 ELSE 0)
<1>1. Front(q) \in Seq(S) /\ Last(q) \in S
  BY FrontFacts
<1>2. q = Append(Front(q), Last(q))
  <2>1. Append(Front(q), Last(q)) \in Seq(S) /\ Len(q) \in Nat \ {0}
        /\ Len(Append(Front(q), Last(q))) = Len(q)
    BY <1>1, AppendFacts, FrontFacts
  <2>2. \A i \in 1 .. Len(q) : Append(Front(q), Last(q))[i] = q[i]
    <3>1. \A i \in 1 .. Len(q) - 1 : Append(Front(q), Last(q))[i] = q[i]
      BY <1>1, FrontFacts
    <3>2. Append(Front(q), Last(q))[Len(q)] = q[Len(q)]
      BY <1>1, FrontFacts
    <3> QED
      BY <2>1, <3>1, <3>2
  <2> QED
    BY <2>1, <2>2, SeqEqual
<1>3. Copies(Append(Front(q), Last(q)), b) = Copies(Front(q), b) + (IF Last(q) = b THEN 1 ELSE 0)
  BY <1>1, CopiesAppend
<1> QED
  BY <1>2, <1>3

\* The larger of two numbers (the resize of ordering_).
LEMMA MaxOfTwo ==
  ASSUME NEW m \in Nat, NEW n \in Nat
  PROVE  Max({m, n}) = IF m >= n THEN m ELSE n
BY DEF Max

\* The filter workers that have batch b.
With(b) == Cardinality({f \in Filters : filter[f].batch = b})

\* Finitely many filter workers have b; none when b is in no worker's hands.
LEMMA WithType ==
  ASSUME NEW b
  PROVE  /\ With(b) \in Nat
         /\ With(b) = 0 <=> \A f \in Filters : filter[f].batch # b
<1> DEFINE P == {f \in Filters : filter[f].batch = b}
<1>1. IsFiniteSet(P)
  <2>1. P \in SUBSET Filters
    OBVIOUS
  <2> QED
    BY <2>1, FiltersAssumption, FS_Subset
<1>2. Cardinality(P) \in Nat /\ (Cardinality(P) = 0 <=> P = {})
  BY <1>1, FS_CardinalityType, FS_EmptySet
<1> QED
  BY <1>2 DEF With

\* A filter worker takes a batch, or gives up the one it has.
LEMMA WithMoves ==
  ASSUME BatchTypes, NEW f \in Filters, NEW to, NEW b,
         \A g \in Filters : filter'[g] = IF g = f THEN to ELSE filter[g],
         b = filter[f].batch => b # to.batch
  PROVE  With(b)' = With(b) + (IF to.batch = b THEN 1 ELSE 0) - (IF filter[f].batch = b THEN 1 ELSE 0)
<1> DEFINE P == {g \in Filters : filter[g].batch = b}
           R == {g \in Filters : filter'[g].batch = b}
<1>1. IsFiniteSet(P) /\ Cardinality(P) \in Nat
  <2>1. P \in SUBSET Filters
    OBVIOUS
  <2>2. IsFiniteSet(P)
    BY <2>1, FiltersAssumption, FS_Subset
  <2> QED
    BY <2>2, FS_CardinalityType
<1>2. R = IF to.batch = b THEN P \cup {f} ELSE P \ {f}
  OBVIOUS
<1>3. f \in P <=> filter[f].batch = b
  OBVIOUS
<1>4. With(b) = Cardinality(P) /\ With(b)' = Cardinality(R)
  BY DEF With
<1> HIDE DEF P, R
<1>5. Cardinality(P \cup {f}) = IF f \in P THEN Cardinality(P) ELSE Cardinality(P) + 1
  BY <1>1, FS_AddElement
<1>6. Cardinality(P \ {f}) = IF f \in P THEN Cardinality(P) - 1 ELSE Cardinality(P)
  BY <1>1, FS_RemoveElement
<1>7. CASE to.batch = b
  BY <1>1, <1>2, <1>3, <1>4, <1>5, <1>7
<1>8. CASE to.batch # b
  BY <1>1, <1>2, <1>3, <1>4, <1>6, <1>8
<1> QED
  BY <1>7, <1>8

\* The holders of batches are sequences.
LEMMA HolderTypes ==
  ASSUME BatchTypes
  PROVE  /\ local_read \in Seq(Batches) /\ to_read \in Seq(Batches)
         /\ to_filter \in Seq(Requests) /\ to_output \in Seq(Requests)
         /\ ordering \in Seq(Requests)
BY DEF BatchTypes

\* The counts of b in all its possible places are natural numbers.
LEMMA CountTypes ==
  ASSUME BatchTypes, NEW b
  PROVE  /\ Copies(local_read, b) \in Nat /\ Copies(to_read, b) \in Nat
         /\ Copies(to_filter, b) \in Nat /\ Copies(to_output, b) \in Nat
         /\ Copies(ordering, b) \in Nat /\ With(b) \in Nat
<1>1. /\ local_read \in Seq(Batches) /\ to_read \in Seq(Batches)
      /\ to_filter \in Seq(Requests) /\ to_output \in Seq(Requests) /\ ordering \in Seq(Requests)
  BY DEF BatchTypes
<1> QED
  BY <1>1, CopiesType, WithType

\* OneOwner in terms of the counts.
LEMMA Owners ==
  ASSUME OneOwner, NEW b \in Batches
  PROVE  Copies(local_read, b) + Copies(to_read, b) + Copies(to_filter, b)
           + Copies(to_output, b) + Copies(ordering, b) + With(b) = 1
BY DEF OneOwner, With

\* The top of the main thread's stack is a batch it has.
LEMMA TopFacts ==
  ASSUME BatchTypes, local_read # << >>
  PROVE  /\ Top \in Batches /\ Front(local_read) \in Seq(Batches)
         /\ Len(local_read) \in Nat \ {0} /\ Top = local_read[Len(local_read)]
         /\ \A b : Copies(local_read, b) = Copies(Front(local_read), b) + (IF Top = b THEN 1 ELSE 0)
<1>1. local_read \in Seq(Batches)
  BY DEF BatchTypes
<1> QED
  BY <1>1, FrontFacts, CopiesFront DEF Top


\* The actions that leave every batch where it is.
Stays ==
  \/ ReadNGram \/ ReadEnd \/ FlushInputEmpty \/ StartInput \/ CollectDone \/ EndLength
  \/ EndOfInput \/ PoisonFilter \/ JoinFilters \/ JoinWriter
  \/ (\E f \in Filters : CallFilter(f)) \/ WriterFlush \/ WriterPause \/ UNCHANGED vars

\* The actions that take a batch back.
Receives == MoveRead \/ Collect

\* Every step leaves all batches in place or moves one of them.
LEMMA Kinds ==
  ASSUME [Next]_vars
  PROVE  \/ Stays \/ FlushInput \/ Receives
         \/ (\E f \in Filters : FilterConsume(f) \/ FilterProduce(f))
         \/ WriterConsume \/ WriterReturn
BY DEF Next, MainStep, FilterStep, WriterStep, Finished, Stays, Receives

\* Poison is no batch.
LEMMA NullIsNone ==
  ASSUME NEW q \in Seq(Requests), NEW b \in Batches
  PROVE  /\ Append(q, Null) \in Seq(Requests) /\ Copies(Append(q, Null), b) = Copies(q, b)
<1>1. Null \in Requests /\ Null # b
  BY BatchesAssumption DEF Requests
<1>2. Append(q, Null) \in Seq(Requests)
  BY <1>1, AppendFacts
<1>3. Copies(Append(q, Null), b) = Copies(q, b) + (IF Null = b THEN 1 ELSE 0)
  BY <1>1, CopiesAppend
<1>4. Copies(q, b) \in Nat
  BY CopiesType
<1> QED
  BY <1>1, <1>2, <1>3, <1>4

\* What the actions that move no batch do.
LEMMA StaysFacts ==
  ASSUME BatchTypes, Stays
  PROVE  /\ UNCHANGED <<local_read, to_read, ordering, base_sequence>>
         /\ to_filter' \in {to_filter, Append(to_filter, Null)}
         /\ to_output' \in {to_output, Append(to_output, Null)}
         /\ \A f \in Filters : filter'[f].batch = filter[f].batch
         /\ filter' = filter \/ \E f \in Filters : CallFilter(f)
         /\ UNCHANGED <<number, sequence>> \/ NewInput(local_read)
         /\ after' \in {after, "new_input", "collect"}
<1>1. ASSUME NEW f \in Filters, CallFilter(f)
      PROVE  \A g \in Filters : filter'[g].batch = filter[g].batch
  BY <1>1 DEF CallFilter, BatchTypes
<1> QED
  BY <1>1 DEF Stays, ReadNGram, ReadEnd, FlushInputEmpty, StartInput, CollectDone, EndLength,
       EndOfInput, PoisonFilter, JoinFilters, JoinWriter, CallFilter, WriterFlush, WriterPause,
       vars, mainVars, filterVars, writerVars

\* Nobody's batches change in a step that moves none.
LEMMA OwnersStays ==
  ASSUME BatchTypes, OneOwner, Stays
  PROVE  OneOwner'
<1> SUFFICES ASSUME NEW b \in Batches
             PROVE  Copies(local_read', b) + Copies(to_read', b) + Copies(to_filter', b)
                      + Copies(to_output', b) + Copies(ordering', b) + With(b)' = 1
  BY DEF OneOwner, With
<1>1. UNCHANGED <<local_read, to_read, ordering>>
  BY StaysFacts
<1>2. Copies(to_filter', b) = Copies(to_filter, b) /\ Copies(to_output', b) = Copies(to_output, b)
  BY StaysFacts, NullIsNone DEF BatchTypes
<1>3. With(b)' = With(b)
  <2>1. \A f \in Filters : filter'[f].batch = filter[f].batch
    BY StaysFacts
  <2>2. {f \in Filters : filter'[f].batch = b} = {f \in Filters : filter[f].batch = b}
    BY <2>1
  <2> QED
    BY <2>2 DEF With
<1> QED
  BY <1>1, <1>2, <1>3, Owners

\* The types survive a step that moves no batch.
LEMMA TypesStays ==
  ASSUME BatchTypes, Phases, Stays
  PROVE  BatchTypes'
<1>1. local_read' \in Seq(Batches) /\ to_read' \in Seq(Batches) /\ ordering' \in Seq(Requests)
      /\ base_sequence' \in Nat
  BY StaysFacts DEF BatchTypes
<1>2. to_filter' \in Seq(Requests) /\ to_output' \in Seq(Requests)
  <2>1. Null \in Requests /\ to_filter \in Seq(Requests) /\ to_output \in Seq(Requests)
    BY DEF Requests, BatchTypes
  <2>2. Append(to_filter, Null) \in Seq(Requests) /\ Append(to_output, Null) \in Seq(Requests)
    BY <2>1, AppendFacts
  <2> QED
    BY <2>1, <2>2, StaysFacts
<1>3. sequence' \in Nat \ {0} /\ number' \in [Batches -> Nat]
  <2>1. sequence \in Nat \ {0} /\ number \in [Batches -> Nat]
    BY DEF BatchTypes
  <2>0. UNCHANGED <<number, sequence>> \/ NewInput(local_read)
    BY StaysFacts
  <2>2. CASE UNCHANGED <<number, sequence>>
    BY <2>1, <2>2
  <2>3. CASE NewInput(local_read)
    <3>1. number' = [number EXCEPT ![Last(local_read)] = sequence] /\ sequence' = sequence + 1
      BY <2>3 DEF NewInput
    <3>2. sequence + 1 \in Nat \ {0} /\ sequence \in Nat
      BY <2>1
    <3> QED
      BY <2>1, <3>1, <3>2
  <2> QED
    BY ONLY <2>0, <2>2, <2>3
<1>4. filter' \in [Filters -> [at : {"consume", "call_filter", "produce", "exit"}, batch : Requests]]
  <2>1. filter \in [Filters -> [at : {"consume", "call_filter", "produce", "exit"}, batch : Requests]]
    BY DEF BatchTypes
  <2>2. ASSUME NEW f \in Filters, CallFilter(f)
        PROVE  filter' = [filter EXCEPT ![f].at = "produce"]
    BY <2>2 DEF CallFilter
  <2>3. ASSUME NEW f \in Filters, filter' = [filter EXCEPT ![f].at = "produce"]
        PROVE  filter' \in [Filters -> [at : {"consume", "call_filter", "produce", "exit"}, batch : Requests]]
    BY ONLY <2>1, <2>3
  <2>4. filter' = filter \/ \E f \in Filters : CallFilter(f)
    BY StaysFacts
  <2> QED
    BY <2>1, <2>2, <2>3, <2>4
<1>5. after' \in {"new_input", "collect"}
  BY StaysFacts DEF BatchTypes
<1> QED
  BY <1>1, <1>2, <1>3, <1>4, <1>5 DEF BatchTypes

\* FlushInput: the batch handed over is the top of the stack.
LEMMA TypesFlushInput ==
  ASSUME BatchTypes, Phases, FlushInput
  PROVE  /\ BatchTypes' /\ local_read' = Front(local_read)
         /\ to_filter' = Append(to_filter, Top) /\ Top \in Batches
         /\ UNCHANGED <<to_read, to_output, ordering, filter, number, sequence, base_sequence>>
<1>1. local_read # << >> /\ local_read' = Front(local_read) /\ to_filter' = Append(to_filter, Top)
      /\ UNCHANGED <<to_read, to_output, ordering, filter, number, sequence, base_sequence, after>>
  BY DEF FlushInput, Phases, Filling, filterVars, writerVars
<1>2. Top \in Batches /\ local_read' \in Seq(Batches)
  BY <1>1, TopFacts
<1>3. to_filter' \in Seq(Requests)
  <2>1. to_filter \in Seq(Requests) /\ Top \in Requests
    BY <1>2 DEF BatchTypes, Requests
  <2> QED
    BY <1>1, <2>1, AppendFacts
<1> QED
  BY <1>1, <1>2, <1>3 DEF BatchTypes

\* MoveRead and the loop of Flush: the batch taken back is pushed on the stack.
LEMMA TypesReceives ==
  ASSUME BatchTypes, Receives
  PROVE  /\ BatchTypes' /\ to_read # << >> /\ to_read' = Tail(to_read)
         /\ Head(to_read) \in Batches /\ local_read' = Append(local_read, Head(to_read))
         /\ UNCHANGED <<to_filter, to_output, ordering, filter, number, sequence, base_sequence>>
<1>1. to_read # << >> /\ to_read' = Tail(to_read) /\ local_read' = Append(local_read, Head(to_read))
      /\ UNCHANGED <<to_filter, to_output, ordering, filter, number, sequence, base_sequence, after>>
  BY DEF Receives, MoveRead, Collect, Received, filterVars, writerVars
<1>2. to_read \in Seq(Batches) /\ local_read \in Seq(Batches)
  BY DEF BatchTypes
<1>3. Head(to_read) \in Batches /\ to_read' \in Seq(Batches)
  BY <1>1, <1>2, TailFacts
<1>4. local_read' \in Seq(Batches)
  BY <1>1, <1>2, <1>3, AppendFacts
<1> QED
  BY <1>1, <1>3, <1>4 DEF BatchTypes

\* A worker takes what is at the front of the filter pool's queue.
LEMMA TypesFilterConsume ==
  ASSUME BatchTypes, NEW f \in Filters, FilterConsume(f)
  PROVE  /\ BatchTypes' /\ to_filter # << >> /\ to_filter' = Tail(to_filter)
         /\ Head(to_filter) \in Requests
         /\ filter' = [filter EXCEPT ![f] =
                         [at |-> IF Head(to_filter) = Null THEN "exit" ELSE "call_filter",
                          batch |-> Head(to_filter)]]
         /\ UNCHANGED <<local_read, to_read, to_output, ordering, number, sequence, base_sequence,
                        main, writer>>
<1>1. to_filter # << >> /\ to_filter' = Tail(to_filter)
      /\ UNCHANGED <<local_read, to_read, to_output, ordering, number, sequence, base_sequence, after,
                     main, writer>>
  BY DEF FilterConsume, mainVars, writerVars
<1>2. to_filter \in Seq(Requests)
  BY DEF BatchTypes
<1>3. Head(to_filter) \in Requests /\ to_filter' \in Seq(Requests)
  BY <1>1, <1>2, TailFacts
<1>4. filter' = [filter EXCEPT ![f] =
                   [at |-> IF Head(to_filter) = Null THEN "exit" ELSE "call_filter",
                    batch |-> Head(to_filter)]]
  BY DEF FilterConsume
<1>5. filter' \in [Filters -> [at : {"consume", "call_filter", "produce", "exit"}, batch : Requests]]
  BY <1>3, <1>4 DEF BatchTypes
<1> QED
  BY <1>1, <1>3, <1>4, <1>5 DEF BatchTypes

\* A worker sends its batch to the output worker.
LEMMA TypesFilterProduce ==
  ASSUME BatchTypes, NEW f \in Filters, FilterProduce(f)
  PROVE  /\ BatchTypes' /\ to_output' = Append(to_output, filter[f].batch)
         /\ filter[f].at = "produce" /\ filter[f].batch \in Requests
         /\ filter' = [filter EXCEPT ![f] = [at |-> "consume", batch |-> Null]]
         /\ UNCHANGED <<local_read, to_read, to_filter, ordering, number, sequence, base_sequence,
                        main, writer>>
<1>1. to_output' = Append(to_output, filter[f].batch) /\ filter[f].at = "produce"
      /\ filter' = [filter EXCEPT ![f] = [at |-> "consume", batch |-> Null]]
      /\ UNCHANGED <<local_read, to_read, to_filter, ordering, number, sequence, base_sequence, after,
                     main, writer>>
  BY DEF FilterProduce, mainVars, writerVars
<1>2. filter[f].batch \in Requests /\ to_output \in Seq(Requests)
  BY DEF BatchTypes
<1>3. to_output' \in Seq(Requests)
  BY <1>1, <1>2, AppendFacts
<1>4. filter' \in [Filters -> [at : {"consume", "call_filter", "produce", "exit"}, batch : Requests]]
  BY <1>1 DEF BatchTypes, Requests
<1> QED
  BY <1>1, <1>2, <1>3, <1>4 DEF BatchTypes

\* The output worker gives the front of ordering_ back.
LEMMA TypesWriterReturn ==
  ASSUME BatchTypes, Phases, WriterReturn
  PROVE  /\ BatchTypes' /\ ordering # << >> /\ ordering' = Tail(ordering)
         /\ Head(ordering) \in Batches /\ to_read' = Append(to_read, Head(ordering))
         /\ base_sequence' = base_sequence + 1
         /\ UNCHANGED <<local_read, to_filter, to_output, filter, number, sequence, main>>
<1>1. ordering # << >> /\ Head(ordering) # Null /\ ordering' = Tail(ordering)
      /\ to_read' = Append(to_read, Head(ordering)) /\ base_sequence' = base_sequence + 1
      /\ UNCHANGED <<local_read, to_filter, to_output, filter, number, sequence, main, after>>
  BY DEF WriterReturn, Phases, FrontReady, mainVars, filterVars
<1>2. ordering \in Seq(Requests) /\ to_read \in Seq(Batches)
  BY DEF BatchTypes
<1>3. Head(ordering) \in Batches /\ ordering' \in Seq(Requests)
  BY <1>1, <1>2, TailFacts DEF Requests
<1>4. to_read' \in Seq(Batches)
  BY <1>1, <1>2, <1>3, AppendFacts
<1>5. base_sequence' \in Nat
  <2>1. base_sequence \in Nat
    BY DEF BatchTypes
  <2> QED
    BY <1>1, <2>1
<1> QED
  BY <1>1, <1>3, <1>4, <1>5 DEF BatchTypes

\* A batch handed over leaves the main thread for the queue.
LEMMA OwnersFlushInput ==
  ASSUME BatchTypes, Phases, OneOwner, FlushInput
  PROVE  OneOwner'
<1> SUFFICES ASSUME NEW b \in Batches
             PROVE  Copies(local_read', b) + Copies(to_read', b) + Copies(to_filter', b)
                      + Copies(to_output', b) + Copies(ordering', b) + With(b)' = 1
  BY DEF OneOwner, With
<1>1. /\ local_read' = Front(local_read) /\ to_filter' = Append(to_filter, Top)
      /\ UNCHANGED <<to_read, to_output, ordering, filter>> /\ Top \in Requests
  BY TypesFlushInput DEF Requests
<1>2. Copies(local_read, b) = Copies(local_read', b) + (IF Top = b THEN 1 ELSE 0)
  BY <1>1, TopFacts DEF FlushInput, Phases, Filling
<1>3. Copies(local_read', b) \in Nat
  BY TypesFlushInput, CopiesType DEF BatchTypes
<1>4. Copies(to_filter', b) = Copies(to_filter, b) + (IF Top = b THEN 1 ELSE 0)
  BY <1>1, HolderTypes, CopiesAppend
<1>5. With(b)' = With(b)
  BY <1>1 DEF With
<1>6. Copies(local_read, b) + Copies(to_read, b) + Copies(to_filter, b)
        + Copies(to_output, b) + Copies(ordering, b) + With(b) = 1
  BY Owners
<1>7. /\ Copies(local_read, b) \in Nat /\ Copies(to_read, b) \in Nat
      /\ Copies(to_filter, b) \in Nat /\ Copies(to_output, b) \in Nat
      /\ Copies(ordering, b) \in Nat /\ With(b) \in Nat
  BY CountTypes
<1> QED
  BY <1>1, <1>2, <1>3, <1>4, <1>5, <1>6, <1>7

\* A batch taken back leaves the queue for the main thread.
LEMMA OwnersReceives ==
  ASSUME BatchTypes, Phases, OneOwner, Receives
  PROVE  OneOwner'
<1> SUFFICES ASSUME NEW b \in Batches
             PROVE  Copies(local_read', b) + Copies(to_read', b) + Copies(to_filter', b)
                      + Copies(to_output', b) + Copies(ordering', b) + With(b)' = 1
  BY DEF OneOwner, With
<1> DEFINE x == Head(to_read)
<1>1. /\ to_read # << >> /\ to_read' = Tail(to_read) /\ x \in Batches
      /\ local_read' = Append(local_read, x)
      /\ UNCHANGED <<to_filter, to_output, ordering, filter>>
  BY TypesReceives
<1>2. Copies(to_read, b) = Copies(to_read', b) + (IF x = b THEN 1 ELSE 0)
  BY <1>1, HolderTypes, CopiesTail
<1>3. Copies(to_read', b) \in Nat
  BY TypesReceives, CopiesType DEF BatchTypes
<1>4. Copies(local_read', b) = Copies(local_read, b) + (IF x = b THEN 1 ELSE 0)
  BY <1>1, HolderTypes, CopiesAppend
<1>5. With(b)' = With(b)
  BY <1>1 DEF With
<1> HIDE DEF x
<1>6. /\ Copies(local_read', b) \in Nat /\ Copies(local_read, b) \in Nat
      /\ Copies(to_read, b) \in Nat /\ Copies(to_filter, b) \in Nat
      /\ Copies(to_output, b) \in Nat /\ Copies(ordering, b) \in Nat /\ With(b) \in Nat
  BY <1>4, CountTypes
<1>7. Copies(to_filter', b) = Copies(to_filter, b) /\ Copies(to_output', b) = Copies(to_output, b)
      /\ Copies(ordering', b) = Copies(ordering, b)
  BY <1>1
<1>8. Copies(local_read, b) + Copies(to_read, b) + Copies(to_filter, b)
        + Copies(to_output, b) + Copies(ordering, b) + With(b) = 1
  BY Owners
<1>9. Copies(local_read', b) + Copies(to_read', b) = Copies(local_read, b) + Copies(to_read, b)
  BY <1>2, <1>3, <1>4, <1>6
<1> QED
  BY <1>3, <1>5, <1>6, <1>7, <1>8, <1>9

\* A batch consumed leaves the queue for the worker.
LEMMA OwnersFilterConsume ==
  ASSUME BatchTypes, Phases, OneOwner, NEW f \in Filters, FilterConsume(f)
  PROVE  OneOwner'
<1> SUFFICES ASSUME NEW b \in Batches
             PROVE  Copies(local_read', b) + Copies(to_read', b) + Copies(to_filter', b)
                      + Copies(to_output', b) + Copies(ordering', b) + With(b)' = 1
  BY DEF OneOwner, With
<1> DEFINE x == Head(to_filter)
           to == [at |-> IF x = Null THEN "exit" ELSE "call_filter", batch |-> x]
<1>1. /\ to_filter # << >> /\ to_filter' = Tail(to_filter) /\ x \in Requests
      /\ filter' = [filter EXCEPT ![f] = to]
      /\ UNCHANGED <<local_read, to_read, to_output, ordering>>
  BY TypesFilterConsume
<1>2. Copies(to_filter, b) = Copies(to_filter', b) + (IF x = b THEN 1 ELSE 0)
  BY <1>1, HolderTypes, CopiesTail
<1>3. Copies(to_filter', b) \in Nat
  BY TypesFilterConsume, CopiesType DEF BatchTypes
<1>4. filter[f].batch \notin Batches
  BY DEF FilterConsume, Phases
<1>5. With(b)' = With(b) + (IF x = b THEN 1 ELSE 0)
  <2>1. \A g \in Filters : filter'[g] = IF g = f THEN to ELSE filter[g]
    BY <1>1 DEF BatchTypes
  <2>2. filter[f].batch # b /\ to.batch = x
    BY <1>4
  <2> HIDE DEF to, x
  <2>3. With(b)' = With(b) + (IF to.batch = b THEN 1 ELSE 0) - (IF filter[f].batch = b THEN 1 ELSE 0)
    BY <2>1, <2>2, WithMoves
  <2> QED
    BY <2>2, <2>3, WithType
<1> HIDE DEF x, to
<1>6. Copies(local_read, b) + Copies(to_read, b) + Copies(to_filter, b)
        + Copies(to_output, b) + Copies(ordering, b) + With(b) = 1
  BY Owners
<1>7. /\ Copies(local_read, b) \in Nat /\ Copies(to_read, b) \in Nat
      /\ Copies(to_filter, b) \in Nat /\ Copies(to_output, b) \in Nat
      /\ Copies(ordering, b) \in Nat /\ With(b) \in Nat
  BY CountTypes
<1>8. UNCHANGED <<local_read, to_read, to_output, ordering>>
  BY <1>1
<1> QED
  BY <1>2, <1>3, <1>5, <1>6, <1>7, <1>8

\* A batch produced leaves the worker for the queue.
LEMMA OwnersFilterProduce ==
  ASSUME BatchTypes, Phases, OneOwner, NEW f \in Filters, FilterProduce(f)
  PROVE  OneOwner'
<1> SUFFICES ASSUME NEW b \in Batches
             PROVE  Copies(local_read', b) + Copies(to_read', b) + Copies(to_filter', b)
                      + Copies(to_output', b) + Copies(ordering', b) + With(b)' = 1
  BY DEF OneOwner, With
<1> DEFINE x == filter[f].batch  to == [at |-> "consume", batch |-> Null]
<1>1. /\ to_output' = Append(to_output, x) /\ x \in Requests
      /\ filter' = [filter EXCEPT ![f] = to]
      /\ UNCHANGED <<local_read, to_read, to_filter, ordering>>
  BY TypesFilterProduce
<1>2. Copies(to_output', b) = Copies(to_output, b) + (IF x = b THEN 1 ELSE 0)
  BY <1>1, HolderTypes, CopiesAppend
<1>3. With(b)' = With(b) - (IF x = b THEN 1 ELSE 0) /\ With(b)' \in Nat
  <2>1. \A g \in Filters : filter'[g] = IF g = f THEN to ELSE filter[g]
    BY <1>1 DEF BatchTypes
  <2>2. to.batch = Null /\ Null # b
    BY BatchesAssumption
  <2> HIDE DEF to
  <2>3. With(b)' = With(b) + (IF to.batch = b THEN 1 ELSE 0) - (IF filter[f].batch = b THEN 1 ELSE 0)
    BY <2>1, <2>2, WithMoves
  <2>4. With(b) \in Nat /\ (With(b) = 0 => x # b)
    BY WithType
  <2> QED
    BY <2>2, <2>3, <2>4
<1> HIDE DEF x
<1>6. Copies(local_read, b) + Copies(to_read, b) + Copies(to_filter, b)
        + Copies(to_output, b) + Copies(ordering, b) + With(b) = 1
  BY Owners
<1>7. /\ Copies(local_read, b) \in Nat /\ Copies(to_read, b) \in Nat
      /\ Copies(to_filter, b) \in Nat /\ Copies(to_output, b) \in Nat
      /\ Copies(ordering, b) \in Nat /\ With(b) \in Nat
  BY CountTypes
<1>8. /\ Copies(local_read', b) = Copies(local_read, b) /\ Copies(to_read', b) = Copies(to_read, b)
      /\ Copies(to_filter', b) = Copies(to_filter, b) /\ Copies(ordering', b) = Copies(ordering, b)
  BY <1>1
<1>9. Copies(to_output', b) + With(b)' = Copies(to_output, b) + With(b)
  <2>1. CASE x = b
    BY <1>2, <1>3, <1>7, <2>1
  <2>2. CASE x # b
    BY <1>2, <1>3, <1>7, <2>2
  <2> QED
    BY <2>1, <2>2
<1>10. Copies(to_output', b) \in Nat
  BY <1>2, <1>7
<1> QED
  BY <1>3, <1>6, <1>7, <1>8, <1>9, <1>10

\* A batch given back leaves ordering_ for the queue.
LEMMA OwnersWriterReturn ==
  ASSUME BatchTypes, Phases, OneOwner, WriterReturn
  PROVE  OneOwner'
<1> SUFFICES ASSUME NEW b \in Batches
             PROVE  Copies(local_read', b) + Copies(to_read', b) + Copies(to_filter', b)
                      + Copies(to_output', b) + Copies(ordering', b) + With(b)' = 1
  BY DEF OneOwner, With
<1> DEFINE x == Head(ordering)
<1>1. /\ ordering # << >> /\ ordering' = Tail(ordering) /\ x \in Batches
      /\ to_read' = Append(to_read, x)
      /\ UNCHANGED <<local_read, to_filter, to_output, filter>>
  BY TypesWriterReturn
<1>2. Copies(ordering, b) = Copies(ordering', b) + (IF x = b THEN 1 ELSE 0)
  BY <1>1, HolderTypes, CopiesTail
<1>3. Copies(ordering', b) \in Nat
  BY TypesWriterReturn, CopiesType DEF BatchTypes
<1>4. Copies(to_read', b) = Copies(to_read, b) + (IF x = b THEN 1 ELSE 0)
  BY <1>1, HolderTypes, CopiesAppend
<1>5. With(b)' = With(b)
  BY <1>1 DEF With
<1> HIDE DEF x
<1>6. Copies(local_read, b) + Copies(to_read, b) + Copies(to_filter, b)
        + Copies(to_output, b) + Copies(ordering, b) + With(b) = 1
  BY Owners
<1>7. /\ Copies(local_read, b) \in Nat /\ Copies(to_read, b) \in Nat
      /\ Copies(to_filter, b) \in Nat /\ Copies(to_output, b) \in Nat
      /\ Copies(ordering, b) \in Nat /\ With(b) \in Nat
  BY CountTypes
<1>0. Copies(local_read', b) = Copies(local_read, b) /\ Copies(to_filter', b) = Copies(to_filter, b)
      /\ Copies(to_output', b) = Copies(to_output, b)
  BY <1>1
<1>8. CASE x = b
  <2>1. Copies(ordering, b) = Copies(ordering', b) + 1 /\ Copies(to_read', b) = Copies(to_read, b) + 1
    BY <1>2, <1>4, <1>8
  <2> QED
    BY <1>0, <1>3, <1>5, <1>6, <1>7, <2>1
<1>9. CASE x # b
  <2>1. Copies(ordering, b) = Copies(ordering', b) + 0 /\ Copies(to_read', b) = Copies(to_read, b) + 0
    BY <1>2, <1>4, <1>9
  <2> QED
    BY <1>0, <1>3, <1>5, <1>6, <1>7, <2>1
<1> QED
  BY <1>8, <1>9

\* A batch in a queue behind the main thread, with a worker or in the deque.
LEMMA UnderWayIf ==
  ASSUME BatchTypes, OneOwner, NEW b \in Batches,
         Copies(to_filter, b) + Copies(to_output, b) + Copies(ordering, b) + With(b) # 0
  PROVE  /\ UnderWay(b)
         /\ Copies(to_filter, b) + Copies(to_output, b) + Copies(ordering, b) + With(b) = 1
<1>1. /\ Copies(local_read, b) \in Nat /\ Copies(to_read, b) \in Nat
      /\ Copies(to_filter, b) \in Nat /\ Copies(to_output, b) \in Nat
      /\ Copies(ordering, b) \in Nat /\ With(b) \in Nat
  BY CountTypes
<1>2. Copies(local_read, b) + Copies(to_read, b) + Copies(to_filter, b)
        + Copies(to_output, b) + Copies(ordering, b) + With(b) = 1
  BY Owners
<1> QED
  BY <1>1, <1>2 DEF UnderWay

\* What WriterConsume does with a batch: its place in the deque is free.
LEMMA WriterPlace ==
  ASSUME IInv, WriterConsume, Head(to_output) # Null
  PROVE  LET x == Head(to_output) pos == number[x] - base_sequence + 1
         IN  /\ x \in Batches /\ UnderWay(x) /\ number[x] \in Nat /\ pos \in Nat \ {0}
             /\ ordering' \in Seq(Requests) /\ pos \in 1 .. Len(ordering') /\ ordering'[pos] = x
             /\ pos <= Len(ordering) => ordering[pos] = Null
             /\ Len(ordering) \in Nat /\ Len(ordering') \in Nat /\ Len(ordering) <= Len(ordering')
             /\ \A i \in 1 .. Len(ordering') :
                  i # pos => ordering'[i] = IF i <= Len(ordering) THEN ordering[i] ELSE Null
<1> DEFINE x == Head(to_output)  pos == number[x] - base_sequence + 1
<1>0. BatchTypes /\ OneOwner /\ Numbers
  BY DEF IInv
<1>1. to_output # << >> /\ to_output \in Seq(Requests) /\ ordering \in Seq(Requests)
  BY <1>0, HolderTypes DEF WriterConsume
<1>2. x \in Batches
  BY <1>1, TailFacts DEF Requests
<1>3. ordering' = [i \in 1 .. Max({pos, Len(ordering)}) |->
                     IF i = pos THEN x ELSE IF i <= Len(ordering) THEN ordering[i] ELSE Null]
  BY DEF WriterConsume
<1> HIDE DEF x
<1>4. Copies(to_output, x) \in Nat /\ Copies(to_output, x) >= 1
  <2>1. Copies(to_output, x) = Copies(Tail(to_output), x) + (IF Head(to_output) = x THEN 1 ELSE 0)
    BY <1>1, CopiesTail
  <2>2. Copies(Tail(to_output), x) \in Nat
    BY <1>1, TailFacts, CopiesType
  <2> QED
    BY <2>1, <2>2 DEF x
<1>5. /\ Copies(to_filter, x) \in Nat /\ Copies(ordering, x) \in Nat /\ With(x) \in Nat
  BY <1>0, CountTypes
<1>6. UnderWay(x) /\ Copies(ordering, x) = 0
  <2>1. Copies(to_filter, x) + Copies(to_output, x) + Copies(ordering, x) + With(x) # 0
    BY <1>4, <1>5
  <2>2. /\ UnderWay(x)
        /\ Copies(to_filter, x) + Copies(to_output, x) + Copies(ordering, x) + With(x) = 1
    BY <1>0, <1>2, <2>1, UnderWayIf
  <2> QED
    BY <1>4, <1>5, <2>2
<1>7. base_sequence \in Nat /\ number[x] \in Nat /\ number[x] >= base_sequence
  <2>1. base_sequence \in Nat /\ number[x] \in Nat
    BY <1>0, <1>2 DEF BatchTypes
  <2>2. number[x] \in base_sequence .. Limit - 1
    BY <1>0, <1>2, <1>6 DEF Numbers
  <2> QED
    BY <2>1, <2>2
<1>8. pos \in Nat \ {0}
  BY <1>7
<1>9. ASSUME pos <= Len(ordering) PROVE ordering[pos] = Null
  <2> SUFFICES ASSUME ordering[pos] # Null PROVE FALSE
    OBVIOUS
  <2> DEFINE c == ordering[pos]
  <2>1. pos \in 1 .. Len(ordering) /\ Len(ordering) \in Nat
    BY <1>1, <1>8, <1>9, SeqFacts
  <2>2. c \in Batches
    BY <1>1, <2>1, SeqFacts DEF Requests
  <2>3. number[c] = base_sequence + (pos - 1)
    BY <1>0, <2>1 DEF Numbers
  <2>4. number[c] = number[x]
    BY <1>7, <2>3
  <2>5. Copies(ordering, c) # 0 /\ Copies(ordering, c) \in Nat
    BY <1>1, <2>1, CopiesType
  <2>6. UnderWay(c)
    <3>1. Copies(to_filter, c) \in Nat /\ Copies(to_output, c) \in Nat /\ With(c) \in Nat
      BY <1>0, CountTypes
    <3>2. Copies(to_filter, c) + Copies(to_output, c) + Copies(ordering, c) + With(c) # 0
      BY <2>5, <3>1
    <3> QED
      BY <1>0, <2>2, <3>2, UnderWayIf
  <2>7. c = x
    BY <1>0, <1>2, <1>6, <2>2, <2>4, <2>6 DEF Numbers
  <2> QED
    BY <1>6, <2>5, <2>7
<1>11. Len(ordering) \in Nat /\ \A i \in 1 .. Len(ordering) : ordering[i] \in Requests
  BY <1>1, SeqFacts
<1> HIDE DEF pos
<1>12. PICK n \in Nat \ {0} : n = Max({pos, Len(ordering)}) /\ pos <= n /\ Len(ordering) <= n
  BY <1>8, <1>11, MaxOfTwo
<1>13. ordering' = [i \in 1 .. n |->
                      IF i = pos THEN x ELSE IF i <= Len(ordering) THEN ordering[i] ELSE Null]
  BY <1>3, <1>12
<1>14. \A i \in 1 .. n : ordering'[i] = IF i = pos THEN x ELSE IF i <= Len(ordering) THEN ordering[i] ELSE Null
  BY <1>13
<1>15. ASSUME NEW i \in 1 .. n PROVE ordering'[i] \in Requests
  <2>1. CASE i = pos
    BY <1>2, <1>14, <2>1 DEF Requests
  <2>2. CASE i # pos /\ i <= Len(ordering)
    <3>1. i \in 1 .. Len(ordering)
      BY <1>11, <2>2
    <3> QED
      BY <1>11, <1>14, <2>2, <3>1
  <2>3. CASE i # pos /\ ~(i <= Len(ordering))
    BY <1>14, <2>3 DEF Requests
  <2> QED
    BY <2>1, <2>2, <2>3
<1>16. ordering' \in Seq(Requests) /\ Len(ordering') = n
  <2>1. ordering' \in [1 .. n -> Requests]
    BY <1>13, <1>15
  <2> HIDE DEF Requests
  <2>2. n \in Nat
    OBVIOUS
  <2> QED
    BY ONLY <2>1, <2>2
<1>10. /\ ordering' \in Seq(Requests) /\ pos \in 1 .. Len(ordering') /\ ordering'[pos] = x
       /\ Len(ordering) \in Nat /\ Len(ordering') \in Nat /\ Len(ordering) <= Len(ordering')
       /\ \A i \in 1 .. Len(ordering') :
            i # pos => ordering'[i] = IF i <= Len(ordering) THEN ordering[i] ELSE Null
  <2>1. /\ pos \in 1 .. Len(ordering') /\ Len(ordering) \in Nat /\ Len(ordering') \in Nat
        /\ Len(ordering) <= Len(ordering')
    BY <1>8, <1>11, <1>12, <1>16
  <2>2. ordering'[pos] = x
    BY <1>14, <1>16, <2>1
  <2>3. \A i \in 1 .. Len(ordering') :
          i # pos => ordering'[i] = IF i <= Len(ordering) THEN ordering[i] ELSE Null
    BY <1>14, <1>16
  <2> QED
    BY <1>16, <2>1, <2>2, <2>3
<1> QED
  BY <1>2, <1>6, <1>7, <1>8, <1>9, <1>10 DEF x, pos

\* A batch put at a free place of ordering_ is one copy more of itself, whether the
\* deque is resized or not.
LEMMA CopiesPlaced ==
  ASSUME IInv, WriterConsume, Head(to_output) # Null, NEW b \in Batches
  PROVE  Copies(ordering', b) = Copies(ordering, b) + (IF Head(to_output) = b THEN 1 ELSE 0)
<1> DEFINE x == Head(to_output) pos == number[x] - base_sequence + 1 u == ordering'
           P == {i \in DOMAIN ordering : ordering[i] = b}
           R == {i \in DOMAIN u : u[i] = b}
<1>1. /\ x \in Batches /\ u \in Seq(Requests) /\ pos \in 1 .. Len(u) /\ u[pos] = x
      /\ pos <= Len(ordering) => ordering[pos] = Null
      /\ Len(u) \in Nat /\ Len(ordering) \in Nat /\ Len(ordering) <= Len(u)
      /\ \A i \in 1 .. Len(u) : i # pos => u[i] = IF i <= Len(ordering) THEN ordering[i] ELSE Null
  BY WriterPlace
<1>2. ordering \in Seq(Requests) /\ b # Null
  BY HolderTypes, BatchesAssumption DEF IInv
<1>3. DOMAIN ordering = 1 .. Len(ordering) /\ DOMAIN u = 1 .. Len(u)
  BY <1>1, <1>2, SeqFacts
<1>4. IsFiniteSet(P) /\ Cardinality(P) \in Nat
  BY <1>2, CopiesType DEF Copies
<1> HIDE DEF x, pos, u
<1>5. pos \notin P
  BY <1>1, <1>2, <1>3
<1>6. ASSUME NEW i \in 1 .. Len(u), i # pos
      PROVE  i \in R <=> i \in P
  <2>1. CASE i <= Len(ordering)
    BY <1>1, <1>3, <1>6, <2>1
  <2>2. CASE ~(i <= Len(ordering))
    BY <1>1, <1>2, <1>3, <1>6, <2>2
  <2> QED
    BY <2>1, <2>2
<1>7. P \subseteq 1 .. Len(u) /\ R \subseteq 1 .. Len(u)
  BY <1>1, <1>3
<1>8. pos \in R <=> x = b
  BY <1>1, <1>3
<1>9. Copies(ordering, b) = Cardinality(P) /\ Copies(u, b) = Cardinality(R)
  BY DEF Copies
<1> HIDE DEF P, R
<1>10. R \ {pos} = P
  BY <1>5, <1>6, <1>7
<1>11. Cardinality(P \cup {pos}) = Cardinality(P) + 1
  BY <1>4, <1>5, FS_AddElement
<1>12. CASE x = b
  <2>1. R = P \cup {pos}
    BY <1>8, <1>10, <1>12
  <2> QED
    BY <1>4, <1>9, <1>11, <1>12, <2>1 DEF x, u
<1>13. CASE x # b
  <2>1. R = P
    BY <1>8, <1>10, <1>13
  <2> QED
    BY <1>4, <1>9, <1>13, <2>1 DEF x, u
<1> QED
  BY <1>12, <1>13

\* What the output worker consumes is put in its place, and ordering_ stays a deque of requests.
LEMMA TypesWriterConsume ==
  ASSUME IInv, WriterConsume
  PROVE  /\ BatchTypes' /\ to_output # << >> /\ to_output' = Tail(to_output)
         /\ Head(to_output) \in Requests
         /\ Head(to_output) = Null => ordering' = ordering
         /\ UNCHANGED <<local_read, to_read, to_filter, filter, number, sequence, base_sequence, main>>
<1>1. to_output # << >> /\ to_output' = Tail(to_output)
      /\ (Head(to_output) = Null => ordering' = ordering)
      /\ UNCHANGED <<local_read, to_read, to_filter, filter, number, sequence, base_sequence, main, after>>
  BY DEF WriterConsume, mainVars, filterVars
<1>2. BatchTypes /\ to_output \in Seq(Requests)
  BY HolderTypes DEF IInv
<1>3. Head(to_output) \in Requests /\ to_output' \in Seq(Requests)
  BY <1>1, <1>2, TailFacts
<1>4. ordering' \in Seq(Requests)
  BY <1>1, <1>2, WriterPlace, HolderTypes
<1> QED
  BY <1>1, <1>2, <1>3, <1>4 DEF BatchTypes

\* A batch consumed leaves the queue for ordering_, and drives no other out of it.
LEMMA OwnersWriterConsume ==
  ASSUME IInv, WriterConsume
  PROVE  OneOwner'
<1> SUFFICES ASSUME NEW b \in Batches
             PROVE  Copies(local_read', b) + Copies(to_read', b) + Copies(to_filter', b)
                      + Copies(to_output', b) + Copies(ordering', b) + With(b)' = 1
  BY DEF OneOwner, With
<1> DEFINE x == Head(to_output)
<1>0. BatchTypes /\ OneOwner
  BY DEF IInv
<1>1. /\ to_output # << >> /\ to_output' = Tail(to_output) /\ x \in Requests
      /\ x = Null => ordering' = ordering
      /\ UNCHANGED <<local_read, to_read, to_filter, filter>>
  BY TypesWriterConsume
<1>2. Copies(to_output, b) = Copies(to_output', b) + (IF x = b THEN 1 ELSE 0)
  BY <1>0, <1>1, HolderTypes, CopiesTail
<1>3. Copies(to_output', b) \in Nat
  BY TypesWriterConsume, CopiesType DEF BatchTypes
<1>4. Copies(ordering', b) = Copies(ordering, b) + (IF x = b THEN 1 ELSE 0)
  <2>1. CASE x = Null
    BY <1>0, <1>1, <2>1, CountTypes, BatchesAssumption
  <2>2. CASE x # Null
    BY <2>2, CopiesPlaced
  <2> QED
    BY <2>1, <2>2
<1>5. With(b)' = With(b)
  BY <1>1 DEF With
<1> HIDE DEF x
<1>6. Copies(local_read, b) + Copies(to_read, b) + Copies(to_filter, b)
        + Copies(to_output, b) + Copies(ordering, b) + With(b) = 1
  BY <1>0, Owners
<1>7. /\ Copies(local_read, b) \in Nat /\ Copies(to_read, b) \in Nat
      /\ Copies(to_filter, b) \in Nat /\ Copies(to_output, b) \in Nat
      /\ Copies(ordering, b) \in Nat /\ With(b) \in Nat
  BY <1>0, CountTypes
<1>8. UNCHANGED <<local_read, to_read, to_filter>>
  BY <1>1
<1>9. CASE x = b
  BY <1>2, <1>3, <1>4, <1>5, <1>6, <1>7, <1>8, <1>9
<1>10. CASE x # b
  BY <1>2, <1>3, <1>4, <1>5, <1>6, <1>7, <1>8, <1>10
<1> QED
  BY <1>9, <1>10

-----------------------------------------------------------------------------
(* Program counters and holders                                            *)

\* The program counters after a step that moves no batch: NewInput and CollectDone need
\* a batch on the stack, poison is produced for the output worker only at the end.
LEMMA PhasesStays ==
  ASSUME BatchTypes, Phases, Stays
  PROVE  Phases'
<1>0. local_read' = local_read /\ ordering' = ordering
  BY StaysFacts
<1>1. Filling' \/ main' = "new_input" => local_read' # << >>
  <2>1. CASE Filling \/ main = "new_input"
    BY <1>0, <2>1 DEF Phases
  <2>2. CASE CollectDone
    <3>1. Len(local_read) # 0
      BY <2>2, BatchesAssumption, FS_EmptySet DEF CollectDone, QueueSize
    <3> QED
      BY <1>0, <3>1, HolderTypes, SeqFacts
  <2>3. CASE ~(Filling \/ main = "new_input") /\ ~CollectDone
    BY <2>3 DEF Filling, Stays, ReadNGram, ReadEnd, FlushInputEmpty, StartInput, EndLength,
         EndOfInput, PoisonFilter, JoinFilters, JoinWriter, CallFilter, WriterFlush, WriterPause,
         vars, mainVars, filterVars, writerVars
  <2> QED
    BY <2>1, <2>2, <2>3
<1>2. main' = "end_length" => Len(local_read') = QueueSize
  BY <1>0 DEF Phases, BatchTypes, Stays, ReadNGram, ReadEnd, FlushInputEmpty, StartInput, CollectDone,
       EndLength, EndOfInput, PoisonFilter, JoinFilters, JoinWriter, CallFilter, WriterFlush,
       WriterPause, vars, mainVars, filterVars, writerVars
<1>3. ASSUME NEW i \in 1 .. Len(to_output'), to_output'[i] = Null
      PROVE  main' \in {"close_output", "done", "undefined"}
  <2>1. CASE JoinFilters
    BY <2>1 DEF JoinFilters
  <2>2. CASE ~JoinFilters
    <3>1. to_output' = to_output
      BY <2>2 DEF Stays, ReadNGram, ReadEnd, FlushInputEmpty, StartInput, CollectDone,
       EndLength, EndOfInput, PoisonFilter, JoinWriter, CallFilter, WriterFlush,
       WriterPause, vars, mainVars, filterVars, writerVars
    <3>2. main \in {"close_output", "done", "undefined"}
      BY <1>3, <3>1 DEF Phases
    <3> QED
      BY <2>2, <3>2 DEF Stays, ReadNGram, ReadEnd, FlushInputEmpty, StartInput, CollectDone,
       EndLength, EndOfInput, PoisonFilter, JoinWriter, CallFilter, WriterFlush,
       WriterPause, vars, mainVars, filterVars, writerVars
  <2> QED
    BY <2>1, <2>2
<1>4. writer' = "return" => FrontReady'
  BY <1>0 DEF Phases, FrontReady, Stays, ReadNGram, ReadEnd, FlushInputEmpty, StartInput, CollectDone,
       EndLength, EndOfInput, PoisonFilter, JoinFilters, JoinWriter, CallFilter, WriterFlush,
       WriterPause, vars, mainVars, filterVars, writerVars
<1>5. ASSUME NEW f \in Filters
      PROVE  filter'[f].batch \in Batches <=> filter'[f].at \in {"call_filter", "produce"}
  <2>1. CASE filter' = filter
    BY <2>1 DEF Phases
  <2>2. ASSUME NEW g \in Filters, CallFilter(g)
        PROVE  filter'[f].batch \in Batches <=> filter'[f].at \in {"call_filter", "produce"}
    <3>1. filter[g].at = "call_filter" /\ filter' = [filter EXCEPT ![g].at = "produce"]
      BY <2>2 DEF CallFilter
    <3> QED
      BY <3>1 DEF BatchTypes, Phases
  <2> QED
    BY <2>1, <2>2, StaysFacts
<1> QED
  BY <1>1, <1>2, <1>3, <1>4, <1>5 DEF Phases, Filling

\* The program counters after the main thread has moved a batch: a stack left empty sends
\* it to MoveRead, which fills it.
LEMMA PhasesMoves ==
  ASSUME BatchTypes, Phases, FlushInput \/ Receives
  PROVE  Phases'
<1>1. Filling' \/ main' = "new_input" => local_read' # << >>
  <2>1. CASE FlushInput
    BY <2>1 DEF FlushInput, Filling
  <2>2. CASE Receives
    <3>1. local_read' = Append(local_read, Head(to_read)) /\ local_read \in Seq(Batches)
          /\ Head(to_read) \in Batches
      BY <2>2, TypesReceives, HolderTypes
    <3>2. local_read' # << >>
      BY <3>1
    <3> QED
      BY <3>2
  <2> QED
    BY <2>1, <2>2
<1>2. main' \in {"new_input", "collect", "move_read"} /\ main \in {"flush_input", "move_read", "collect"}
      /\ UNCHANGED <<to_output, filter, writer, ordering>>
  BY DEF BatchTypes, FlushInput, Receives, MoveRead, Collect, filterVars, writerVars
<1> QED
  BY <1>1, <1>2 DEF Phases, Filling, FrontReady

\* A worker has a batch just while it filters and produces.
LEMMA PhasesFilter ==
  ASSUME BatchTypes, Phases, NEW f \in Filters, FilterConsume(f) \/ FilterProduce(f)
  PROVE  Phases'
<1>1. UNCHANGED <<main, local_read, writer, ordering>>
  BY TypesFilterConsume, TypesFilterProduce
<1>2. ASSUME NEW i \in 1 .. Len(to_output'), to_output'[i] = Null
      PROVE  main' \in {"close_output", "done", "undefined"}
  <2>1. CASE FilterConsume(f)
    BY <1>2, <2>1, TypesFilterConsume DEF Phases
  <2>2. CASE FilterProduce(f)
    <3>1. to_output' = Append(to_output, filter[f].batch) /\ filter[f].at = "produce"
          /\ to_output \in Seq(Requests)
      BY <2>2, TypesFilterProduce, HolderTypes
    <3>2. filter[f].batch \in Batches /\ filter[f].batch \in Requests /\ filter[f].batch # Null
      BY <3>1, BatchesAssumption DEF Phases, Requests
    <3>3. i \in 1 .. Len(to_output) /\ to_output[i] = Null
      BY <1>2, <3>1, <3>2
    <3> QED
      BY <1>1, <3>3 DEF Phases
  <2> QED
    BY <2>1, <2>2
<1>3. ASSUME NEW g \in Filters
      PROVE  filter'[g].batch \in Batches <=> filter'[g].at \in {"call_filter", "produce"}
  <2>1. /\ filter \in [Filters -> [at : {"consume", "call_filter", "produce", "exit"}, batch : Requests]]
        /\ filter[g].batch \in Batches <=> filter[g].at \in {"call_filter", "produce"}
        /\ Null \notin Batches
    BY BatchesAssumption DEF Phases, BatchTypes
  <2>2. CASE FilterConsume(f)
    <3>1. /\ filter' = [filter EXCEPT ![f] =
                         [at |-> IF Head(to_filter) = Null THEN "exit" ELSE "call_filter",
                          batch |-> Head(to_filter)]]
          /\ Head(to_filter) \in Batches \cup {Null}
      BY <2>2, TypesFilterConsume DEF Requests
    <3>2. CASE g = f
      <4>1. filter'[f].batch = Head(to_filter)
            /\ filter'[f].at = IF Head(to_filter) = Null THEN "exit" ELSE "call_filter"
        BY <2>1, <3>1
      <4> QED
        BY <2>1, <3>1, <3>2, <4>1
    <3>3. CASE g # f
      BY <2>1, <3>1, <3>3
    <3> QED
      BY <3>2, <3>3
  <2>3. CASE FilterProduce(f)
    <3>1. filter' = [filter EXCEPT ![f] = [at |-> "consume", batch |-> Null]]
      BY <2>3, TypesFilterProduce
    <3> QED
      BY <2>1, <3>1
  <2> QED
    BY <2>2, <2>3
<1> QED
  BY <1>1, <1>2, <1>3 DEF Phases, Filling, FrontReady

\* The output worker returns the batch it has just written, still at the front.
LEMMA PhasesWriter ==
  ASSUME IInv, WriterConsume \/ WriterReturn
  PROVE  Phases'
<1>1. UNCHANGED <<main, local_read, filter>> /\ writer' # "return" /\ Phases
  BY DEF IInv, WriterConsume, WriterReturn, mainVars, filterVars
<1>2. ASSUME NEW i \in 1 .. Len(to_output'), to_output'[i] = Null
      PROVE  main' \in {"close_output", "done", "undefined"}
  <2>1. CASE WriterConsume
    <3>1. to_output # << >> /\ to_output' = Tail(to_output) /\ to_output \in Seq(Requests)
      BY <2>1, TypesWriterConsume, HolderTypes DEF IInv
    <3>2. i + 1 \in 1 .. Len(to_output) /\ to_output[i + 1] = Null
      BY <1>2, <3>1
    <3> QED
      BY <1>1, <3>2 DEF Phases
  <2>2. CASE WriterReturn
    BY <1>1, <1>2, <2>2 DEF WriterReturn, Phases
  <2> QED
    BY <2>1, <2>2
<1> QED
  BY <1>1, <1>2 DEF Phases, Filling

-----------------------------------------------------------------------------
(* Numbers under way                                                       *)

\* The limit of numbers is a natural number.
LEMMA LimitType ==
  ASSUME BatchTypes
  PROVE  /\ Limit \in Nat /\ base_sequence \in Nat /\ \A b \in Batches : number[b] \in Nat
         /\ sequence \in Nat \ {0} /\ Limit = IF Filling THEN sequence - 1 ELSE sequence
<1>1. base_sequence \in Nat /\ (\A b \in Batches : number[b] \in Nat) /\ sequence \in Nat \ {0}
  BY DEF BatchTypes
<1>2. Limit = IF Filling THEN sequence - 1 ELSE sequence
  BY DEF Limit
<1> QED
  BY <1>1, <1>2

\* The numbers under way survive a step that moves no batch; NewInput numbers a batch that
\* is at home.
LEMMA NumbersStays ==
  ASSUME IInv, Stays
  PROVE  Numbers'
<1>0. BatchTypes /\ Phases /\ OneOwner /\ Numbers /\ BatchTypes'
  BY TypesStays DEF IInv
<1>1. UNCHANGED <<local_read, to_read, ordering, base_sequence>>
  BY <1>0, StaysFacts
<1>2. \A b : UnderWay(b)' <=> UnderWay(b)
  BY <1>1 DEF UnderWay
<1>3. CASE StartInput \/ CollectDone
  <2>1. /\ number' = [number EXCEPT ![Top] = sequence] /\ sequence' = sequence + 1
        /\ ~Filling /\ Filling'
    BY <1>3 DEF StartInput, CollectDone, NewInput, Filling, Top
  <2>2. Limit = sequence /\ Limit' = sequence /\ sequence \in Nat
    <3>1. sequence \in Nat
      BY <1>0 DEF BatchTypes
    <3> QED
      BY <2>1, <3>1 DEF Limit
  <2>3. local_read # << >>
    <3>1. main = "new_input" => local_read # << >>
      BY <1>0 DEF Phases
    <3>2. CollectDone => Len(local_read) # 0
      BY BatchesAssumption, FS_EmptySet DEF CollectDone, QueueSize
    <3> QED
      BY <1>0, <1>3, <3>1, <3>2, HolderTypes, SeqFacts DEF StartInput
  <2>4. Top \in Batches /\ Top' = Top
    BY <1>0, <1>1, <2>3, TopFacts DEF Top
  <2>5. Copies(local_read, Top) \in Nat /\ Copies(local_read, Top) # 0
    <3>1. local_read \in Seq(Batches) /\ Len(local_read) \in 1 .. Len(local_read)
          /\ local_read[Len(local_read)] = Top
      BY <1>0, <2>3, TopFacts, HolderTypes
    <3> QED
      BY <3>1, CopiesType
  <2>6. ~UnderWay(Top) /\ Copies(ordering, Top) = 0
    <3>1. /\ Copies(to_read, Top) \in Nat
          /\ Copies(to_filter, Top) \in Nat /\ Copies(to_output, Top) \in Nat
          /\ Copies(ordering, Top) \in Nat /\ With(Top) \in Nat
      BY <1>0, CountTypes
    <3>2. Copies(local_read, Top) + Copies(to_read, Top) + Copies(to_filter, Top)
            + Copies(to_output, Top) + Copies(ordering, Top) + With(Top) = 1
      BY <1>0, <2>4, Owners
    <3> QED
      BY <2>5, <3>1, <3>2 DEF UnderWay
  <2>7. number'[Top] = sequence /\ \A b \in Batches : b # Top => number'[b] = number[b]
    BY <1>0, <2>1, <2>4 DEF BatchTypes
  <2>8. ASSUME NEW b \in Batches, UnderWay(b)
        PROVE  number'[b] = number[b]
    BY <2>6, <2>7, <2>8
  <2>9. ASSUME NEW i \in 1 .. Len(ordering), ordering[i] # Null
        PROVE  number'[ordering[i]] = base_sequence + (i - 1)
    <3>1. ordering[i] \in Batches /\ ordering[i] # Top
      <4>1. ordering \in Seq(Requests)
        BY <1>0, HolderTypes
      <4>2. \A j \in 1 .. Len(ordering) : ordering[j] # Top
        BY <2>6, <4>1, CopiesType
      <4>3. ordering[i] \in Requests
        BY <4>1, SeqFacts
      <4> QED
        BY <2>9, <4>2, <4>3 DEF Requests
    <3> QED
      BY <1>0, <2>7, <2>9, <3>1 DEF Numbers
  <2> QED
    BY <1>0, <1>1, <1>2, <2>1, <2>2, <2>4, <2>7, <2>8, <2>9 DEF Numbers
<1>4. CASE ~(StartInput \/ CollectDone)
  <2>1. UNCHANGED <<number, sequence>> /\ (Filling' => Filling)
    BY <1>4 DEF Filling, Stays, ReadNGram, ReadEnd, FlushInputEmpty, EndLength, BatchTypes,
       EndOfInput, PoisonFilter, JoinFilters, JoinWriter, CallFilter, WriterFlush,
       WriterPause, vars, mainVars, filterVars, writerVars, IInv
  <2>2. Limit \in Nat /\ Limit' \in Nat /\ Limit <= Limit' /\ (Filling' => Limit' = Limit)
    <3>1. sequence \in Nat \ {0}
      BY <1>0 DEF BatchTypes
    <3> QED
      BY <2>1, <3>1 DEF Limit
  <2>3. Filling' => number'[Top'] = Limit'
    BY <1>0, <1>1, <2>1, <2>2 DEF Numbers, Top
  <2>4. ASSUME NEW b \in Batches, UnderWay(b)
        PROVE  number'[b] \in base_sequence' .. Limit' - 1
    <3>1. number[b] \in base_sequence .. Limit - 1 /\ base_sequence \in Nat
      BY <1>0, <2>4, LimitType DEF Numbers
    <3> QED
      BY <1>1, <2>1, <2>2, <3>1
  <2>5. base_sequence' <= Limit'
    <3>1. base_sequence \in Nat /\ base_sequence <= Limit
      BY <1>0, LimitType DEF Numbers
    <3> QED
      BY <1>1, <2>2, <3>1
  <2> QED
    BY <1>0, <1>1, <1>2, <2>1, <2>3, <2>4, <2>5 DEF Numbers
<1> QED
  BY <1>3, <1>4

\* The batch handed over brings the next number: greater than all those under way.
LEMMA NumbersFlushInput ==
  ASSUME IInv, FlushInput
  PROVE  Numbers'
<1>0. BatchTypes /\ Phases /\ OneOwner /\ Numbers /\ local_read # << >>
  BY DEF IInv, FlushInput, Phases, Filling
<1>1. /\ local_read' = Front(local_read) /\ Top \in Batches
      /\ UNCHANGED <<to_read, ordering, number, sequence, base_sequence>>
  BY <1>0, TypesFlushInput
<1>2. Filling /\ ~Filling'
  BY <1>0 DEF FlushInput, Filling, BatchTypes
<1>3. sequence \in Nat \ {0} /\ Limit = sequence - 1 /\ Limit' = sequence /\ base_sequence \in Nat
  BY <1>0, <1>1, <1>2, LimitType DEF Limit
<1>4. number[Top] = sequence - 1
  BY <1>0, <1>2, <1>3 DEF Numbers
<1>5. ASSUME NEW b \in Batches, UnderWay(b)', b # Top
      PROVE  UnderWay(b)
  <2>1. Copies(local_read, b) = Copies(local_read', b) + (IF Top = b THEN 1 ELSE 0)
    BY <1>0, <1>1, TopFacts
  <2>2. Copies(local_read', b) = 0 /\ Copies(to_read, b) = 0
    BY <1>1, <1>5 DEF UnderWay
  <2> QED
    BY <1>5, <2>1, <2>2 DEF UnderWay
<1>6. ASSUME NEW b \in Batches, UnderWay(b)'
      PROVE  /\ number[b] \in base_sequence .. sequence - 1
             /\ b # Top => number[b] < sequence - 1
  <2>1. CASE b = Top
    BY <1>0, <1>3, <1>4, <2>1 DEF Numbers
  <2>2. CASE b # Top
    <3>1. number[b] \in base_sequence .. (sequence - 1) - 1
      BY <1>0, <1>3, <1>5, <1>6, <2>2 DEF Numbers
    <3> QED
      BY <1>3, <3>1
  <2> QED
    BY <2>1, <2>2
<1>7. ASSUME NEW b \in Batches, NEW c \in Batches, UnderWay(b)', UnderWay(c)', number[b] = number[c]
      PROVE  b = c
  <2>1. CASE b = Top \/ c = Top
    <3>1. ~(number[b] < sequence - 1) /\ ~(number[c] < sequence - 1)
      BY <1>3, <1>4, <1>7, <2>1
    <3> QED
      BY <1>6, <1>7, <3>1
  <2>2. CASE b # Top /\ c # Top
    BY <1>0, <1>5, <1>7, <2>2 DEF Numbers
  <2> QED
    BY <2>1, <2>2
<1>8. base_sequence <= sequence
  BY <1>0, <1>3 DEF Numbers
<1> QED
  BY <1>0, <1>1, <1>2, <1>3, <1>6, <1>7, <1>8 DEF Numbers

\* A batch that the main thread takes back is not under way before or after.
LEMMA NumbersReceives ==
  ASSUME IInv, Receives
  PROVE  Numbers'
<1>0. BatchTypes /\ Numbers
  BY DEF IInv
<1> DEFINE x == Head(to_read)
<1>1. /\ to_read # << >> /\ to_read' = Tail(to_read) /\ x \in Batches
      /\ local_read' = Append(local_read, x)
      /\ UNCHANGED <<ordering, number, sequence, base_sequence>>
  BY <1>0, TypesReceives
<1>2. ~Filling /\ ~Filling'
  BY <1>0 DEF Receives, MoveRead, Collect, Filling, BatchTypes
<1>3. Limit' = Limit
  BY <1>1, <1>2 DEF Limit
<1>4. ASSUME NEW b \in Batches, UnderWay(b)'
      PROVE  UnderWay(b)
  <2>1. Copies(to_read, b) = Copies(to_read', b) + (IF x = b THEN 1 ELSE 0)
    BY <1>0, <1>1, HolderTypes, CopiesTail
  <2>2. Copies(local_read', b) = Copies(local_read, b) + (IF x = b THEN 1 ELSE 0)
    BY <1>0, <1>1, HolderTypes, CopiesAppend
  <2>3. Copies(local_read, b) \in Nat /\ Copies(local_read', b) = 0 /\ Copies(to_read', b) = 0
    BY <1>0, <1>4, CountTypes DEF UnderWay
  <2> QED
    BY <2>1, <2>2, <2>3 DEF UnderWay
<1> HIDE DEF x
<1> QED
  BY <1>0, <1>1, <1>2, <1>3, <1>4 DEF Numbers

\* What a worker does changes no number and nothing of the deque.
LEMMA NumbersFilter ==
  ASSUME IInv, NEW f \in Filters, FilterConsume(f) \/ FilterProduce(f)
  PROVE  Numbers'
<1>1. UNCHANGED <<local_read, to_read, ordering, number, sequence, base_sequence, main>>
  BY TypesFilterConsume, TypesFilterProduce DEF IInv
<1> QED
  BY <1>1 DEF IInv, Numbers, UnderWay, Limit, Filling, Top

\* A batch goes to the place of ordering_ that is its number's, counted from base_sequence_.
LEMMA NumbersWriterConsume ==
  ASSUME IInv, WriterConsume
  PROVE  Numbers'
<1>0. BatchTypes /\ Numbers
  BY DEF IInv
<1>1. UNCHANGED <<local_read, to_read, number, sequence, base_sequence, main>>
  BY TypesWriterConsume
<1>2. ASSUME NEW i \in 1 .. Len(ordering'), ordering'[i] # Null
      PROVE  number[ordering'[i]] = base_sequence + (i - 1)
  <2>1. CASE Head(to_output) = Null
    <3>1. ordering' = ordering
      BY <2>1, TypesWriterConsume
    <3> QED
      BY <1>0, <1>2, <3>1 DEF Numbers
  <2>2. CASE Head(to_output) # Null
    <3> DEFINE x == Head(to_output)  pos == number[x] - base_sequence + 1
    <3>1. /\ number[x] \in Nat /\ ordering'[pos] = x /\ Len(ordering) \in Nat
          /\ i # pos => ordering'[i] = IF i <= Len(ordering) THEN ordering[i] ELSE Null
      BY <2>2, WriterPlace
    <3>2. base_sequence \in Nat
      BY <1>0 DEF BatchTypes
    <3>3. CASE i = pos
      BY <3>1, <3>2, <3>3
    <3>4. CASE i # pos
      <4>1. i \in 1 .. Len(ordering) /\ ordering'[i] = ordering[i]
        BY <1>2, <3>1, <3>4
      <4> QED
        BY <1>0, <1>2, <4>1 DEF Numbers
    <3> QED
      BY <3>3, <3>4
  <2> QED
    BY <2>1, <2>2
<1>3. /\ Limit' = Limit /\ Filling' = Filling /\ Top' = Top /\ \A b : UnderWay(b)' <=> UnderWay(b)
  BY <1>1 DEF UnderWay, Limit, Filling, Top
<1> QED
  BY <1>0, <1>1, <1>2, <1>3 DEF Numbers

\* With the front given back, base_sequence_ is passed by every number under way.
LEMMA NumbersWriterReturn ==
  ASSUME IInv, WriterReturn
  PROVE  Numbers'
<1>0. BatchTypes /\ Phases /\ OneOwner /\ Numbers
  BY DEF IInv
<1> DEFINE x == Head(ordering)
<1>1. /\ ordering # << >> /\ ordering' = Tail(ordering) /\ x \in Batches
      /\ to_read' = Append(to_read, x) /\ base_sequence' = base_sequence + 1
      /\ UNCHANGED <<local_read, number, sequence, main>>
  BY <1>0, TypesWriterReturn
<1>2. ordering \in Seq(Requests) /\ to_read \in Seq(Batches) /\ x = ordering[1]
      /\ 1 \in 1 .. Len(ordering) /\ x # Null
  BY <1>0, <1>1, HolderTypes, TailFacts, BatchesAssumption
<1> HIDE DEF x
<1>3. number[x] = base_sequence /\ base_sequence \in Nat /\ Limit \in Nat
  <2>1. number[ordering[1]] = base_sequence + (1 - 1)
    BY <1>0, <1>2 DEF Numbers
  <2>2. base_sequence \in Nat /\ Limit \in Nat
    BY <1>0, LimitType
  <2> QED
    BY <1>2, <2>1, <2>2
<1>4. UnderWay(x)
  <2>1. Copies(ordering, x) \in Nat /\ Copies(ordering, x) # 0
    BY <1>2, CopiesType
  <2>2. Copies(to_filter, x) \in Nat /\ Copies(to_output, x) \in Nat /\ With(x) \in Nat
    BY <1>0, CountTypes
  <2>3. Copies(to_filter, x) + Copies(to_output, x) + Copies(ordering, x) + With(x) # 0
    BY <2>1, <2>2
  <2> QED
    BY <1>0, <1>1, <2>3, UnderWayIf
<1>5. base_sequence + 1 <= Limit
  <2>1. number[x] \in base_sequence .. Limit - 1
    BY <1>0, <1>1, <1>4 DEF Numbers
  <2> QED
    BY <1>3, <2>1
<1>6. ASSUME NEW b \in Batches, UnderWay(b)'
      PROVE  UnderWay(b) /\ b # x
  <2>1. Copies(to_read', b) = Copies(to_read, b) + (IF x = b THEN 1 ELSE 0)
    BY <1>1, <1>2, CopiesAppend
  <2>2. Copies(to_read, b) \in Nat /\ Copies(to_read', b) = 0 /\ Copies(local_read, b) = 0
    BY <1>0, <1>1, <1>6, CountTypes DEF UnderWay
  <2> QED
    BY <2>1, <2>2 DEF UnderWay
<1>7. ASSUME NEW b \in Batches, UnderWay(b)'
      PROVE  number[b] \in base_sequence + 1 .. Limit - 1
  <2>1. number[b] \in base_sequence .. Limit - 1
    BY <1>0, <1>6, <1>7 DEF Numbers
  <2>2. number[b] # number[x]
    BY <1>0, <1>1, <1>4, <1>6, <1>7 DEF Numbers
  <2> QED
    BY <1>3, <2>1, <2>2
<1>8. ASSUME NEW i \in 1 .. Len(ordering'), ordering'[i] # Null
      PROVE  number[ordering'[i]] = (base_sequence + 1) + (i - 1)
  <2>1. i + 1 \in 1 .. Len(ordering) /\ ordering'[i] = ordering[i + 1]
    BY <1>1, <1>2
  <2>2. number[ordering[i + 1]] = base_sequence + ((i + 1) - 1)
    BY <1>0, <1>8, <2>1 DEF Numbers
  <2> QED
    BY <1>3, <2>1, <2>2
<1>9. Limit' = Limit /\ Filling' = Filling /\ Top' = Top
  BY <1>1 DEF Limit, Filling, Top
<1> QED
  BY <1>0, <1>1, <1>5, <1>6, <1>7, <1>8, <1>9 DEF Numbers

-----------------------------------------------------------------------------
(* The theorems                                                            *)

\* Where the threads and the queues start.
LEMMA InitiallyAt ==
  Init => /\ main = "read" /\ after = "new_input" /\ writer = "consume"
          /\ sequence = 1 /\ base_sequence = 0 /\ number = [b \in Batches |-> 0]
          /\ to_read = << >> /\ to_filter = << >> /\ to_output = << >> /\ ordering = << >>
          /\ filter = [f \in Filters |-> [at |-> "consume", batch |-> Null]]
BY DEF Init

\* The Controller's constructor pushes every batch on local_read_ once.
LEMMA InitiallyRead ==
  Init => \E n \in Nat \ {0} :
            /\ n = Cardinality(Batches)
            /\ local_read \in [1 .. n -> Batches] /\ IsInjective(local_read)
            /\ local_read \in Seq(Batches) /\ Len(local_read) = n
<1> SUFFICES ASSUME Init
             PROVE \E n \in Nat \ {0} :
                     /\ n = Cardinality(Batches)
                     /\ local_read \in [1 .. n -> Batches] /\ IsInjective(local_read)
                     /\ local_read \in Seq(Batches) /\ Len(local_read) = n
  OBVIOUS
<1> DEFINE n == Cardinality(Batches)
<1>1. n \in Nat \ {0}
  BY BatchesAssumption, FS_CardinalityType, FS_EmptySet
<1>2. local_read \in [1 .. n -> Batches] /\ IsInjective(local_read)
  <2>1. PICK f : f \in Bijection(1 .. n, Batches)
    BY BatchesAssumption, FS_CardinalityType DEF ExistsBijection
  <2>2. f \in [1 .. n -> Batches] /\ IsInjective(f)
    BY <2>1 DEF Bijection, Injection
  <2> QED
    BY <2>2 DEF Init, SetToSeq
<1>3. local_read \in Seq(Batches) /\ Len(local_read) = n
  <2> HIDE DEF n
  <2>1. n \in Nat
    BY <1>1
  <2> QED
    BY ONLY <1>2, <2>1
<1> QED
  BY <1>1, <1>2, <1>3

\* The types hold at the start.
LEMMA InitiallyTypes ==
  ASSUME local_read \in Seq(Batches), Init
  PROVE  BatchTypes
<1>1. << >> \in Seq(Batches) /\ << >> \in Seq(Requests)
  OBVIOUS
<1>2. number \in [Batches -> Nat] /\ sequence \in Nat \ {0} /\ base_sequence \in Nat
  BY ONLY InitiallyAt, Init
<1>3. filter \in [Filters -> [at : {"consume", "call_filter", "produce", "exit"}, batch : Requests]]
  BY ONLY InitiallyAt, Init DEF Requests
<1> QED
  BY <1>1, <1>2, <1>3, InitiallyAt DEF BatchTypes

\* The program counters agree with the holders at the start.
LEMMA InitiallyPhases ==
  ASSUME local_read # << >>, Init
  PROVE  Phases
<1>1. Len(to_output) = 0
  BY InitiallyAt
<1>2. \A i \in 1 .. Len(to_output) : FALSE
  BY <1>1
<1>3. \A f \in Filters : filter[f].batch = Null /\ filter[f].at = "consume"
  BY InitiallyAt
<1>4. \A f \in Filters : filter[f].batch \notin Batches /\ filter[f].at \notin {"call_filter", "produce"}
  BY <1>3, BatchesAssumption
<1>5. main = "read" /\ writer = "consume"
  BY InitiallyAt
<1> QED
  BY <1>2, <1>4, <1>5 DEF Phases

\* The invariant holds when the Controller has been constructed.
LEMMA Initially == Init => IInv
<1> SUFFICES ASSUME Init PROVE IInv
  OBVIOUS
<1>1. PICK n \in Nat \ {0} :
        /\ n = Cardinality(Batches)
        /\ local_read \in [1 .. n -> Batches] /\ IsInjective(local_read)
        /\ local_read \in Seq(Batches) /\ Len(local_read) = n
  BY InitiallyRead
<1>2. local_read # << >>
  BY <1>1
<1>3. IsInjective(local_read) /\ local_read \in [1 .. n -> Batches]
  BY <1>1
<1>4. BatchTypes
  BY <1>1, InitiallyTypes
<1>5. Phases
  BY <1>2, InitiallyPhases
<1>6. ASSUME NEW b \in Batches
      PROVE  /\ Copies(local_read, b) = 1 /\ Copies(to_read, b) = 0 /\ Copies(to_filter, b) = 0
             /\ Copies(to_output, b) = 0 /\ Copies(ordering, b) = 0 /\ With(b) = 0
  <2>1. Copies(<< >>, b) = 0
    BY FS_EmptySet DEF Copies
  <2>2. With(b) = 0
    BY WithType, BatchesAssumption DEF Init
  <2>3. \E i \in 1 .. n : {j \in DOMAIN local_read : local_read[j] = b} = {i}
    <3>1. local_read \in Bijection(1 .. n, Batches)
      <4>1. local_read \in Injection(1 .. n, Batches)
        BY <1>3 DEF Injection
      <4>2. n \in Nat /\ Cardinality(1 .. n) = n /\ Cardinality(Batches) = n
        BY <1>1, FS_Interval
      <4>3. IsFiniteSet(Batches) /\ Cardinality(1 .. n) = Cardinality(Batches)
        BY <4>2, BatchesAssumption
      <4>4. local_read \in Surjection(1 .. n, Batches)
        BY ONLY <4>1, <4>3, FS_Injection
      <4> QED
        BY <4>1, <4>4 DEF Bijection
    <3>2. PICK i \in 1 .. n : local_read[i] = b
      BY <3>1 DEF Bijection, Surjection
    <3>3. \A j \in DOMAIN local_read : local_read[j] = b => j = i
      BY <1>3, <3>2 DEF IsInjective
    <3> QED
      BY <1>3, <3>2, <3>3
  <2>4. Copies(local_read, b) = 1
    BY <2>3, FS_Singleton DEF Copies
  <2> QED
    BY <2>1, <2>2, <2>4 DEF Init
<1>7. OneOwner
  BY <1>6 DEF OneOwner, With
<1>8. Numbers
  <2>1. \A b \in Batches : ~UnderWay(b)
    BY <1>6 DEF UnderWay
  <2>2. Limit = 0 /\ base_sequence = 0 /\ ordering = << >>
    BY InitiallyAt DEF Limit, Filling
  <2>3. number[Top] = 0
    BY <1>4, <1>5, TopFacts DEF Init, Phases, Filling
  <2> QED
    BY <2>1, <2>2, <2>3 DEF Numbers
<1> QED
  BY <1>4, <1>5, <1>7, <1>8 DEF IInv

\* No step of any thread breaks the invariant.
LEMMA Step == IInv /\ [Next]_vars => IInv'
<1> SUFFICES ASSUME IInv, [Next]_vars PROVE IInv'
  OBVIOUS
<1>0. BatchTypes /\ Phases /\ OneOwner
  BY DEF IInv
<1>1. CASE Stays
  BY <1>0, <1>1, TypesStays, PhasesStays, OwnersStays, NumbersStays DEF IInv
<1>2. CASE FlushInput
  BY <1>0, <1>2, TypesFlushInput, PhasesMoves, OwnersFlushInput, NumbersFlushInput DEF IInv
<1>3. CASE Receives
  BY <1>0, <1>3, TypesReceives, PhasesMoves, OwnersReceives, NumbersReceives DEF IInv
<1>4. ASSUME NEW f \in Filters, FilterConsume(f)
      PROVE  IInv'
  BY <1>0, <1>4, TypesFilterConsume, PhasesFilter, OwnersFilterConsume, NumbersFilter DEF IInv
<1>5. ASSUME NEW f \in Filters, FilterProduce(f)
      PROVE  IInv'
  BY <1>0, <1>5, TypesFilterProduce, PhasesFilter, OwnersFilterProduce, NumbersFilter DEF IInv
<1>6. CASE WriterConsume
  BY <1>6, TypesWriterConsume, PhasesWriter, OwnersWriterConsume, NumbersWriterConsume DEF IInv
<1>7. CASE WriterReturn
  BY <1>0, <1>7, TypesWriterReturn, PhasesWriter, OwnersWriterReturn, NumbersWriterReturn DEF IInv
<1> QED
  BY <1>1, <1>2, <1>3, <1>4, <1>5, <1>6, <1>7, Kinds

\* The inductive invariant of the threaded filter, for any batches, workers, inputs and
\* predicates: every batch has one owner, and the numbers under way are a run from
\* base_sequence_ that no two batches share.
THEOREM Invariance == Spec => []IInv
BY Initially, Step, PTL DEF Spec

\* Controller, thread.hh: a batch is on the main thread's stack, in one queue, with one
\* worker or in ordering_, and in one of these only; none is lost, none handed on twice.
THEOREM BatchesHaveOneOwner == Spec => []OneOwner
<1>1. IInv => OneOwner
  BY DEF IInv
<1> QED
  BY <1>1, Invariance, PTL

\* A batch on the main thread's stack is nowhere else.
LEMMA HeldAlone ==
  ASSUME BatchTypes, OneOwner, NEW b \in Batches, Copies(local_read, b) # 0
  PROVE  /\ Copies(local_read, b) = 1 /\ Copies(to_read, b) = 0 /\ Copies(to_filter, b) = 0
         /\ Copies(to_output, b) = 0 /\ Copies(ordering, b) = 0 /\ With(b) = 0
<1>1. /\ Copies(local_read, b) \in Nat /\ Copies(to_read, b) \in Nat
      /\ Copies(to_filter, b) \in Nat /\ Copies(to_output, b) \in Nat
      /\ Copies(ordering, b) \in Nat /\ With(b) \in Nat
  BY CountTypes
<1>2. Copies(local_read, b) + Copies(to_read, b) + Copies(to_filter, b)
        + Copies(to_output, b) + Copies(ordering, b) + With(b) = 1
  BY Owners
<1> DEFINE n1 == Copies(local_read, b)  n2 == Copies(to_read, b)  n3 == Copies(to_filter, b)
           n4 == Copies(to_output, b)  n5 == Copies(ordering, b)  n6 == With(b)
<1>3. /\ n1 \in Nat /\ n2 \in Nat /\ n3 \in Nat /\ n4 \in Nat /\ n5 \in Nat /\ n6 \in Nat
      /\ n1 + n2 + n3 + n4 + n5 + n6 = 1 /\ n1 # 0
  BY <1>1, <1>2
<1>4. n1 = 1 /\ n2 = 0 /\ n3 = 0 /\ n4 = 0 /\ n5 = 0 /\ n6 = 0
  <2> HIDE DEF n1, n2, n3, n4, n5, n6
  <2> QED
    BY ONLY <1>3
<1> QED
  BY <1>4

\* When the stack has all its places taken, no batch is missing from it: a batch is there at
\* most once, so one missing would leave a place empty (pigeonholes).
LEMMA AllHome ==
  ASSUME IInv, Len(local_read) = QueueSize, NEW b \in Batches
  PROVE  Copies(local_read, b) # 0
<1> SUFFICES ASSUME \A i \in 1 .. Len(local_read) : local_read[i] # b PROVE FALSE
  BY CopiesType, HolderTypes DEF IInv
<1> DEFINE n == Len(local_read)
<1>0. BatchTypes /\ OneOwner /\ local_read \in Seq(Batches)
  BY HolderTypes DEF IInv
<1>1. n = Cardinality(Batches) /\ n \in Nat /\ DOMAIN local_read = 1 .. n
  BY <1>0, SeqFacts DEF QueueSize
<1>2. ASSUME NEW i \in 1 .. n, NEW j \in 1 .. n, local_read[i] = local_read[j]
      PROVE  i = j
  <2> DEFINE c == local_read[i]  P == {k \in DOMAIN local_read : local_read[k] = c}
  <2>1. c \in Batches /\ i \in P /\ j \in P
    BY <1>0, <1>1, <1>2, SeqFacts
  <2>2. Copies(local_read, c) = 1
    <3>1. Copies(local_read, c) # 0
      BY <1>0, <2>1, CopiesType
    <3> HIDE DEF c
    <3> QED
      BY <1>0, <2>1, <3>1, HeldAlone
  <2>3. IsFiniteSet(P)
    BY <1>0, CopiesType
  <2>4. Cardinality(P) = 1
    BY <2>2 DEF Copies
  <2> HIDE DEF P
  <2> QED
    BY <2>1, <2>3, <2>4, FS_Singleton
<1> HIDE DEF n
<1>3. local_read \in Injection(1 .. n, Batches \ {b})
  <2>1. \A i \in 1 .. n : local_read[i] \in Batches \ {b}
    BY <1>0, SeqFacts DEF n
  <2>2. local_read \in [1 .. n -> Batches \ {b}]
    BY <1>0, <1>1, <2>1
  <2> QED
    BY <1>1, <1>2, <2>2 DEF Injection, IsInjective
<1>4. IsFiniteSet(Batches \ {b}) /\ Cardinality(Batches \ {b}) = n - 1
  BY <1>1, BatchesAssumption, FS_RemoveElement
<1>5. Cardinality(1 .. n) <= n - 1 /\ Cardinality(1 .. n) = n
  BY <1>1, <1>3, <1>4, FS_Injection, FS_Interval
<1> QED
  BY <1>1, <1>5

\* With the stack complete, nothing is on its way to the output.
LEMMA NoneOut ==
  ASSUME IInv, Len(local_read) = QueueSize, NEW b \in Batches
  PROVE  Copies(to_output, b) = 0 /\ Copies(ordering, b) = 0
BY AllHome, HeldAlone DEF IInv

\* While the main thread writes the end of a section itself (EndLength), no batch is on its way
\* to the output worker and none waits in ordering_: Flush has collected them all.
THEOREM OutputIsNotShared == Spec => []OutputNotShared
<1>1. IInv => OutputNotShared
  <2> SUFFICES ASSUME IInv, main = "end_length" PROVE to_output = << >> /\ ~FrontReady
    BY DEF OutputNotShared
  <2>0. BatchTypes /\ Phases /\ OneOwner /\ to_output \in Seq(Requests) /\ ordering \in Seq(Requests)
    BY HolderTypes DEF IInv
  <2>1. \A b \in Batches : Copies(to_output, b) = 0 /\ Copies(ordering, b) = 0
    BY <2>0, NoneOut DEF Phases
  <2>2. to_output = << >>
    <3> SUFFICES ASSUME to_output # << >> PROVE FALSE
      OBVIOUS
    <3>1. 1 \in 1 .. Len(to_output) /\ to_output[1] \in Requests
      BY <2>0, FirstFacts
    <3>2. to_output[1] # Null
      BY <2>0, <3>1 DEF Phases
    <3>3. to_output[1] \in Batches
      BY <3>1, <3>2 DEF Requests
    <3> QED
      BY <2>0, <2>1, <3>1, <3>3, CopiesType
  <2>3. ~FrontReady
    <3> SUFFICES ASSUME ordering # << >>, Head(ordering) # Null PROVE FALSE
      BY DEF FrontReady
    <3>1. 1 \in 1 .. Len(ordering) /\ ordering[1] \in Requests /\ ordering[1] # Null
      BY <2>0, FirstFacts
    <3>2. ordering[1] \in Batches
      BY <3>1 DEF Requests
    <3> QED
      BY <2>0, <2>1, <3>1, <3>2, CopiesType
  <2> QED
    BY <2>2, <2>3
<1> QED
  BY <1>1, Invariance, PTL

-----------------------------------------------------------------------------
\* Every batch has an input buffer.
InputOfEach == DOMAIN input = Batches

\* No step gives or takes an input buffer.
LEMMA InputDomain == Spec => []InputOfEach
<1>1. Init => InputOfEach
  BY DEF Init, InputOfEach
<1>2. InputOfEach /\ [Next]_vars => InputOfEach'
  BY DEF InputOfEach, Next, MainStep, FilterStep, WriterStep, Finished, ReadNGram, ReadEnd, FlushInputEmpty,
     FlushInput, MoveRead, Received, StartInput, Collect, CollectDone, EndLength, EndOfInput,
     PoisonFilter, JoinFilters, JoinWriter, FilterConsume, CallFilter, FilterProduce, WriterConsume,
     WriterFlush, WriterReturn, WriterPause, NewInput, vars, mainVars, filterVars, writerVars
<1> QED
  BY <1>1, <1>2, PTL DEF Spec

\* Neither the workers nor the writer have b.
OnlyMain(b) ==
  /\ Copies(to_filter, b) = 0 /\ Copies(to_output, b) = 0
  /\ Copies(ordering, b) = 0 /\ With(b) = 0

\* The top of the stack is on the stack.
LEMMA TopIsHeld ==
  ASSUME IInv, local_read # << >>
  PROVE  Top \in Batches /\ Copies(local_read, Top) # 0
<1>1. local_read \in Seq(Batches)
  BY HolderTypes DEF IInv
<1>2. Top = local_read[Len(local_read)] /\ Top \in Batches /\ Len(local_read) \in Nat \ {0}
  BY <1>1, FrontFacts DEF Top
<1>3. Len(local_read) \in 1 .. Len(local_read)
  BY <1>2
<1> QED
  BY <1>1, <1>2, <1>3, CopiesType

\* AddNGram and NewInput: the only input buffer that changes is the top batch's.
LEMMA WrittenOf ==
  ASSUME IInv, InputOfEach, [Next]_vars,
         NEW b \in Batches, input'[b] # input[b]
  PROVE  local_read # << >> /\ b = Top
<1>1. CASE ReadNGram
  BY <1>1 DEF ReadNGram, IInv, Phases, Filling, InputOfEach, Top
<1>2. CASE StartInput
  BY <1>2 DEF StartInput, NewInput, Top, IInv, Phases, InputOfEach
<1>3. CASE CollectDone
  <2>1. local_read # << >>
    BY <1>3, BatchesAssumption, FS_EmptySet, HolderTypes DEF CollectDone, QueueSize, IInv
  <2> QED
    BY <1>3, <2>1 DEF CollectDone, NewInput, Top, InputOfEach
<1>4. CASE UNCHANGED input
  BY <1>4
<1> QED
  BY <1>1, <1>2, <1>3, <1>4 DEF Next, MainStep, FilterStep, WriterStep, Finished, ReadEnd,
     FlushInputEmpty, FlushInput, MoveRead, Collect, EndLength, EndOfInput, PoisonFilter,
     JoinFilters, JoinWriter, FilterConsume, CallFilter, FilterProduce, WriterConsume,
     WriterFlush, WriterReturn, WriterPause, vars, mainVars, filterVars, writerVars

\* An input buffer changes only while no queue behind the main thread, no worker and not
\* ordering_ has its batch: the StringPieces an output buffer holds stay valid till written.
THEOREM RefilledAtHome ==
  Spec => [][\A b \in Batches : input'[b] # input[b] => OnlyMain(b)]_vars
<1>1. IInv /\ InputOfEach /\ [Next]_vars =>
        \A b \in Batches : input'[b] # input[b] => OnlyMain(b)
  BY WrittenOf, TopIsHeld, HeldAlone DEF IInv, OnlyMain
<1> QED
  BY <1>1, Invariance, InputDomain, PTL DEF Spec

\* OutputWorker: the batch written is the one with the number base_sequence_, so the batches
\* are written in the order they were filled, in whichever order the workers finish.
THEOREM WrittenInSequence ==
  Spec => [][WriterFlush => number[Head(ordering)] = base_sequence]_vars
<1>1. ASSUME IInv, WriterFlush
      PROVE  number[Head(ordering)] = base_sequence
  <2>1. ordering \in Seq(Requests) /\ ordering # << >> /\ Head(ordering) # Null
    BY <1>1, HolderTypes DEF IInv, WriterFlush, FrontReady
  <2>2. 1 \in 1 .. Len(ordering) /\ Head(ordering) = ordering[1]
    BY <2>1, FirstFacts
  <2>3. number[ordering[1]] = base_sequence + (1 - 1) /\ base_sequence \in Nat
    BY <1>1, <2>1, <2>2 DEF IInv, Numbers, BatchTypes
  <2> QED
    BY <2>2, <2>3
<1> QED
  BY <1>1, Invariance, PTL DEF Spec

-----------------------------------------------------------------------------
(* The content of the batches and of the output                            *)

OneOutput ==
  \A in \in Inputs : \A ngram \in ToSet(in.script) \ {<< >>} :
    Chosen(in.condition, ngram) = Meant(in.condition, ngram) /\ Chosen(in.condition, ngram).systems = {}

EndsWithSection == \A in \in Inputs : in.script # << >> => Last(in.script) = << >>

\* The end of a section is being flushed for.
Ending == \/ main \in {"collect", "end_length"}
          \/ main \in {"flush_input", "move_read"} /\ after = "collect"
Closing == main \in {"close_filters", "close_output", "done"}

\* The main thread's variables.
Reading ==
  /\ \E in \in Inputs : script = in.script /\ condition = in.condition
  /\ next \in 1 .. Len(script) + 1
  /\ main \in {"read", "flush_input", "move_read", "new_input", "collect", "end_length",
               "close_filters", "close_output", "done"}
  /\ poisons \in 0 .. Cardinality(Filters)
  /\ writer \in {"consume", "assemble", "return", "exit"}
  /\ Ending => next <= Len(script) /\ script[next] = << >>
  /\ Closing => next = Len(script) + 1

\* Line l is in b.
Holds(b, l) == \E i \in 1 .. Len(input[b]) : input[b][i] = l

\* A batch has lines that follow each other.
Filled ==
  /\ input \in [Batches -> Seq(1 .. Len(script))]
  /\ \A b \in Batches :
       /\ Len(input[b]) <= BatchSize
       /\ \A i \in 1 .. Len(input[b]) : input[b][i] = input[b][1] + (i - 1) /\ script[input[b][i]] # << >>
  /\ main = "read" => Len(input[Top]) < BatchSize
  /\ main = "end_length" => input[Top] = << >>
  /\ Filling /\ input[Top] # << >> => input[Top][Len(input[Top])] = next - 1

\* b has been filtered and not been written.
Filtered(b) ==
  \/ Copies(to_output, b) # 0
  \/ Copies(ordering, b) # 0 /\ ~(writer = "return" /\ Head(ordering) = b)
  \/ \E f \in Filters : filter[f].at = "produce" /\ filter[f].batch = b

EmptyBuffer == [lines |-> << >>, last |-> 0, undefined |-> FALSE]

\* kept has what the filter has made of it.
Keeps == kept = [b \in Batches |->
                   IF Filtered(b) THEN FilterLines(EmptyBuffer, input[b]) ELSE EmptyBuffer]

\* b has lines that have not been written.
Pending(b) == \/ UnderWay(b) /\ ~(writer = "return" /\ b = Head(ordering))
              \/ Filling /\ b = Top

\* The first w lines are through.
Through(w) ==
  /\ output = ExpectedTo(w)
  /\ \A l \in w + 1 .. next - 1 : \E b \in Batches : Pending(b) /\ Holds(b, l)
  /\ \A b \in Batches : Pending(b) => \A i \in 1 .. Len(input[b]) : input[b][i] \in w + 1 .. next - 1
  /\ \A b, c \in Batches : Pending(b) /\ Pending(c) /\ number[b] < number[c] =>
       \A i \in 1 .. Len(input[b]) : \A j \in 1 .. Len(input[c]) : input[b][i] < input[c][j]

Content == Reading /\ Filled /\ Keeps /\ \E w \in 0 .. next - 1 : Through(w)

-----------------------------------------------------------------------------
(* Recursion                                                               *)

\* A set of numbers has a least element, as a relation sees it.
LEMMA LeastBy ==
  ASSUME NEW R, IsWellFoundedOn(R, Nat), NEW T, T \subseteq Nat, T # {}
  PROVE  \E x \in T : \A y \in T : ~ (<<y, x>> \in R)
BY WFMin

\* A set of numbers has a least element.
LEMMA Least ==
  ASSUME NEW T, T \subseteq Nat, T # {}
  PROVE  \E x \in T : \A y \in T : x <= y
<1>1. PICK R : IsWellFoundedOn(R, Nat) /\ \A x, y \in Nat : <<x, y>> \in R <=> x < y
  <2>1. \A x, y \in Nat : <<x, y>> \in OpToRel(<, Nat) <=> x < y
    BY DEF OpToRel
  <2> QED
    BY <2>1, NatLessThanWellFounded
<1>2. \E x \in T : \A y \in T : ~ (<<y, x>> \in R)
  BY <1>1, LeastBy
<1>3. PICK x \in T : \A y \in T : ~ (<<y, x>> \in R)
  BY <1>2
<1>4. ASSUME NEW y \in T PROVE x <= y
  <2>1. x \in Nat /\ y \in Nat
    OBVIOUS
  <2>2. ~(y < x)
    BY <1>1, <1>3, <2>1
  <2> QED
    BY <2>1, <2>2
<1> QED
  BY <1>4

\* Induction, for a set of numbers.
LEMMA Induction ==
  ASSUME NEW S, 0 \in S, \A n \in Nat : n \in S => n + 1 \in S
  PROVE  Nat \subseteq S
<1> SUFFICES ASSUME NEW m \in Nat, m \notin S PROVE FALSE
  OBVIOUS
<1>1. PICK T : T = {n \in Nat : n \notin S}
  OBVIOUS
<1>2. T \subseteq Nat /\ T # {}
  BY <1>1
<1>3. \E x \in T : \A y \in T : x <= y
  BY <1>2, Least
<1>4. PICK x \in T : \A y \in T : x <= y
  BY <1>3
<1>5. x \in Nat /\ x \notin S /\ x # 0
  BY <1>1
<1>6. x - 1 \in Nat /\ ~(x <= x - 1) /\ (x - 1) + 1 = x
  BY <1>5
<1>7. x - 1 \notin T
  BY <1>4, <1>6
<1> QED
  BY <1>1, <1>5, <1>6, <1>7

\* What a sequence is made of, one step after another.
Built(f, n, a, step) == f[0] = a /\ \A k \in 1 .. n : f[k] = step[<<k, f[k - 1]>>]

\* There is one.
LEMMA BuiltExists ==
  ASSUME NEW S, NEW a \in S, NEW n \in Nat, NEW step \in [(1 .. n) \X S -> S]
  PROVE  \E f \in [0 .. n -> S] : Built(f, n, a, step)
<1>1. PICK I : I = {m \in Nat : m <= n => \E f \in [0 .. m -> S] : Built(f, m, a, step)}
  OBVIOUS
<1>2. 0 \in I
  <2>1. PICK f : f = [k \in 0 .. 0 |-> a]
    OBVIOUS
  <2>2. f \in [0 .. 0 -> S] /\ f[0] = a /\ 1 .. 0 = {}
    BY <2>1
  <2>3. Built(f, 0, a, step)
    BY <2>2 DEF Built
  <2> QED
    BY <1>1, <2>2, <2>3
<1>3. ASSUME NEW m \in Nat, m \in I PROVE m + 1 \in I
  <2> SUFFICES ASSUME m + 1 <= n
               PROVE  \E f \in [0 .. m + 1 -> S] : Built(f, m + 1, a, step)
    BY <1>1
  <2>1. PICK g \in [0 .. m -> S] : Built(g, m, a, step)
    BY <1>1, <1>3
  <2>2. PICK f : f = [k \in 0 .. m + 1 |-> IF k <= m THEN g[k] ELSE step[<<m + 1, g[m]>>]]
    OBVIOUS
  <2>3. g[m] \in S /\ <<m + 1, g[m]>> \in (1 .. n) \X S
    BY <2>1
  <2>4. step[<<m + 1, g[m]>>] \in S
    BY <2>3
  <2>5. f \in [0 .. m + 1 -> S] /\ f[m + 1] = step[<<m + 1, g[m]>>] /\ \A k \in 0 .. m : f[k] = g[k]
    BY <2>1, <2>2, <2>4
  <2>6. ASSUME NEW k \in 1 .. m + 1 PROVE f[k] = step[<<k, f[k - 1]>>]
    <3>1. CASE k = m + 1
      <4>1. k - 1 = m /\ m \in 0 .. m
        BY <3>1
      <4> QED
        BY <2>5, <3>1, <4>1
    <3>2. CASE k # m + 1
      <4>1. k \in 1 .. m /\ k \in 0 .. m /\ k - 1 \in 0 .. m
        BY <3>2
      <4> QED
        BY <2>1, <2>5, <4>1 DEF Built
    <3> QED
      BY <3>1, <3>2
  <2>7. f[0] = a
    BY <2>1, <2>5 DEF Built
  <2> QED
    BY <2>5, <2>6, <2>7 DEF Built
<1>4. n \in I
  BY <1>2, <1>3, Induction
<1> QED
  BY <1>1, <1>4

-----------------------------------------------------------------------------
(* What is expected, line by line                                          *)

KnownInput == \E in \in Inputs : script = in.script /\ condition = in.condition
Line == [line : 1 .. Len(script), systems : SUBSET Systems]

\* An input is a sequence of n-grams.
LEMMA ScriptType ==
  ASSUME KnownInput
  PROVE  /\ script \in Seq(Seq(Nat)) /\ Len(script) \in Nat
         /\ \A n \in 1 .. Len(script) : script[n] # << >> => script[n] \in ToSet(script) \ {<< >>}
<1>1. script \in Seq(Seq(Nat))
  <2>1. PICK in \in Inputs : script = in.script /\ condition = in.condition
    BY DEF KnownInput
  <2>2. in.script = script
    BY <2>1
  <2> QED
    BY <2>2, InputsAssumption
<1>2. DOMAIN script = 1 .. Len(script) /\ Len(script) \in Nat
  BY <1>1
<1> QED
  BY <1>1, <1>2 DEF ToSet

\* What the filter is to say, and what it says, is an answer.
LEMMA AnswersGiven ==
  ASSUME KnownInput, NEW n \in 1 .. Len(script), script[n] # << >>
  PROVE  Chosen(condition, script[n]) \in Answers /\ Meant(condition, script[n]) \in Answers
<1>1. PICK in \in Inputs : script = in.script /\ condition = in.condition
  BY DEF KnownInput
<1>2. in.script = script /\ in.condition = condition
  BY <1>1
<1>3. PICK ngram \in ToSet(in.script) \ {<< >>} : ngram = script[n]
  BY <1>2, ScriptType
<1>4. {Chosen(in.condition, ngram), Meant(in.condition, ngram)} \subseteq Answers
  BY ChosenAssumption
<1> QED
  BY <1>2, <1>3, <1>4

\* With one output file, a line goes to no systems of its own.
LEMMA OneAnswer ==
  ASSUME OneOutput, KnownInput, NEW n \in 1 .. Len(script), script[n] # << >>
  PROVE  Chosen(condition, script[n]) = Meant(condition, script[n])
         /\ Chosen(condition, script[n]).systems = {}
<1>1. PICK in \in Inputs : script = in.script /\ condition = in.condition
  BY DEF KnownInput
<1>2. in.script = script /\ in.condition = condition
  BY <1>1
<1>3. PICK ngram \in ToSet(in.script) \ {<< >>} : ngram = script[n]
  BY <1>2, ScriptType
<1>4. Chosen(in.condition, ngram) = Meant(in.condition, ngram) /\ Chosen(in.condition, ngram).systems = {}
  BY <1>3 DEF OneOutput
<1> QED
  BY <1>2, <1>3, <1>4

\* Where a line is to go.
LEMMA WhereType ==
  ASSUME KnownInput, NEW n \in 1 .. Len(script)
  PROVE  Where(n).systems \in SUBSET Systems /\ ExpectedOf(n) \in Seq(Line)
<1>1. Where(n).systems \in SUBSET Systems
  <2>1. CASE script[n] = << >>
    BY <2>1 DEF Where
  <2>2. CASE script[n] # << >>
    BY <2>2, AnswersGiven DEF Where, Answers
  <2> QED
    BY <2>1, <2>2
<1>2. [line |-> n, systems |-> Where(n).systems] \in Line
  BY <1>1 DEF Line
<1>3. ExpectedOf(n) \in Seq(Line)
  <2> HIDE DEF Line
  <2> QED
    BY <1>2 DEF ExpectedOf
<1> QED
  BY <1>1, <1>3

\* ExpectedTo adds a line at a time.
LEMMA ExpectedSteps ==
  ASSUME KnownInput
  PROVE  /\ ExpectedTo(0) = << >>
         /\ \A n \in 1 .. Len(script) : ExpectedTo(n) = ExpectedTo(n - 1) \o ExpectedOf(n)
         /\ \A n \in 0 .. Len(script) : ExpectedTo(n) \in Seq(Line)
<1>1. PICK m \in Nat : m = Len(script)
  BY ScriptType
<1>2. PICK step : step = [p \in (1 .. m) \X Seq(Line) |-> p[2] \o ExpectedOf(p[1])]
  OBVIOUS
<1>3. ASSUME NEW k \in 1 .. m, NEW t \in Seq(Line)
      PROVE  step[<<k, t>>] = t \o ExpectedOf(k) /\ step[<<k, t>>] \in Seq(Line)
  <2>1. ExpectedOf(k) \in Seq(Line)
    BY <1>1, WhereType
  <2>2. t \o ExpectedOf(k) \in Seq(Line)
    BY <2>1, ConcatProperties
  <2>3. <<k, t>> \in (1 .. m) \X Seq(Line)
    OBVIOUS
  <2> QED
    BY <1>2, <2>2, <2>3
<1>4. step \in [(1 .. m) \X Seq(Line) -> Seq(Line)]
  <2>1. ASSUME NEW p \in (1 .. m) \X Seq(Line) PROVE step[p] \in Seq(Line)
    <3>1. p[1] \in 1 .. m /\ p[2] \in Seq(Line) /\ p = <<p[1], p[2]>>
      OBVIOUS
    <3> QED
      BY <1>3, <3>1
  <2> QED
    BY <1>2, <2>1
<1>5. PICK f \in [0 .. m -> Seq(Line)] : Built(f, m, << >>, step)
  <2>1. << >> \in Seq(Line)
    OBVIOUS
  <2> QED
    BY <1>4, <2>1, BuiltExists
<1> DEFINE F(h) == [n \in 0 .. Len(script) |-> IF n = 0 THEN << >> ELSE h[n - 1] \o ExpectedOf(n)]
<1>6. f = F(f)
  <2>1. ASSUME NEW n \in 0 .. m PROVE f[n] = IF n = 0 THEN << >> ELSE f[n - 1] \o ExpectedOf(n)
    <3>1. CASE n = 0
      BY <1>5, <3>1 DEF Built
    <3>2. CASE n # 0
      <4>1. n \in 1 .. m /\ n - 1 \in 0 .. m
        BY <3>2
      <4>2. f[n] = step[<<n, f[n - 1]>>] /\ f[n - 1] \in Seq(Line)
        BY <1>5, <4>1 DEF Built
      <4> QED
        BY <1>3, <3>2, <4>1, <4>2
    <3> QED
      BY <3>1, <3>2
  <2> QED
    BY <1>1, <1>5, <2>1
<1>7. PICK h : h = CHOOSE x : x = F(x)
  OBVIOUS
<1>8. h = F(h)
  BY <1>6, <1>7
<1>9. \A n \in 0 .. m : ExpectedTo(n) = h[n]
  BY <1>7 DEF ExpectedTo
<1>10. h[0] = << >> /\ \A n \in 1 .. m : h[n] = h[n - 1] \o ExpectedOf(n)
  <2>1. ASSUME NEW n \in 0 .. m PROVE h[n] = IF n = 0 THEN << >> ELSE h[n - 1] \o ExpectedOf(n)
    BY <1>1, <1>8
  <2> HIDE DEF F
  <2>2. 0 \in 0 .. m /\ \A n \in 1 .. m : n \in 0 .. m /\ n # 0
    OBVIOUS
  <2> QED
    BY <2>1, <2>2
<1>11. PICK I : I = {n \in Nat : n <= m => h[n] \in Seq(Line)}
  OBVIOUS
<1>12. 0 \in I
  <2>1. << >> \in Seq(Line) /\ 0 \in Nat
    OBVIOUS
  <2>2. h[0] = << >>
    BY ONLY <1>10
  <2> QED
    BY ONLY <1>11, <2>1, <2>2
<1>13. ASSUME NEW n \in Nat, n \in I PROVE n + 1 \in I
  <2> SUFFICES ASSUME n + 1 <= m PROVE h[n + 1] \in Seq(Line)
    BY <1>11
  <2>1. n + 1 \in 1 .. m /\ (n + 1) - 1 = n /\ h[n] \in Seq(Line)
    BY <1>11, <1>13
  <2>2. h[n + 1] = h[n] \o ExpectedOf(n + 1) /\ ExpectedOf(n + 1) \in Seq(Line)
    BY <1>1, <1>10, <2>1, WhereType
  <2> QED
    BY <2>1, <2>2, ConcatProperties
<1>14. \A n \in Nat : n \in I
  BY <1>12, <1>13, Induction
<1>15. ASSUME NEW n \in 0 .. m PROVE ExpectedTo(n) \in Seq(Line)
  <2>1. n \in Nat /\ n <= m
    OBVIOUS
  <2>2. h[n] \in Seq(Line)
    BY ONLY <1>11, <1>14, <2>1
  <2> QED
    BY <1>9, <2>2
<1>16. ExpectedTo(0) = << >>
  <2>1. 0 \in 0 .. m
    OBVIOUS
  <2> HIDE DEF F
  <2>2. ExpectedTo(0) = h[0] /\ h[0] = << >>
    BY ONLY <1>9, <1>10, <2>1
  <2> QED
    BY <2>2
<1>17. ASSUME NEW n \in 1 .. m PROVE ExpectedTo(n) = ExpectedTo(n - 1) \o ExpectedOf(n)
  <2>1. n \in 0 .. m /\ n - 1 \in 0 .. m
    OBVIOUS
  <2>2. ExpectedTo(n) = h[n] /\ ExpectedTo(n - 1) = h[n - 1]
    BY <1>9, <2>1
  <2>3. h[n] = h[n - 1] \o ExpectedOf(n)
    BY <1>10
  <2> QED
    BY ONLY <2>2, <2>3
<1> QED
  BY <1>1, <1>15, <1>16, <1>17

\* What is expected of fewer lines is the beginning.
LEMMA ExpectedGrows ==
  ASSUME KnownInput, NEW w \in 0 .. Len(script), NEW n \in w .. Len(script)
  PROVE  /\ Len(ExpectedTo(w)) <= Len(ExpectedTo(n))
         /\ \A i \in 1 .. Len(ExpectedTo(w)) : ExpectedTo(n)[i] = ExpectedTo(w)[i]
<1>1. PICK m \in Nat : m = Len(script)
  BY ScriptType
<1>2. PICK s \in Seq(Line) : s = ExpectedTo(w)
  BY ExpectedSteps
<1> DEFINE Grown(t) == Len(s) <= Len(t) /\ \A i \in 1 .. Len(s) : t[i] = s[i]
<1>3. PICK I : I = {k \in Nat : w + k <= m => Grown(ExpectedTo(w + k))}
  OBVIOUS
<1>4. 0 \in I
  <2>1. w + 0 = w /\ Len(s) \in Nat
    BY <1>1
  <2> QED
    BY <1>2, <1>3, <2>1
<1>5. ASSUME NEW k \in Nat, k \in I PROVE k + 1 \in I
  <2> SUFFICES ASSUME w + (k + 1) <= m PROVE Grown(ExpectedTo(w + (k + 1)))
    BY <1>3
  <2>1. PICK j \in 1 .. m : j = w + (k + 1) /\ j - 1 = w + k /\ j - 1 \in 0 .. m
    BY <1>1
  <2>2. PICK t \in Seq(Line) : t = ExpectedTo(j - 1)
    BY <1>1, <2>1, ExpectedSteps
  <2>3. PICK u \in Seq(Line) : u = ExpectedOf(j)
    BY <1>1, WhereType
  <2>4. Grown(t)
    BY <1>1, <1>3, <1>5, <2>1, <2>2
  <2>5. ExpectedTo(j) = t \o u
    BY <1>1, <2>2, <2>3, ExpectedSteps
  <2>6. Len(t) \in Nat /\ Len(u) \in Nat /\ Len(s) \in Nat
    OBVIOUS
  <2>7. Len(t \o u) = Len(t) + Len(u) /\ \A i \in 1 .. Len(t) : (t \o u)[i] = t[i]
    OBVIOUS
  <2>8. Grown(t \o u)
    <3>1. \A i \in 1 .. Len(s) : i \in 1 .. Len(t)
      BY <2>4, <2>6
    <3> QED
      BY <2>4, <2>6, <2>7, <3>1
  <2> QED
    BY <2>1, <2>5, <2>8
<1>6. n - w \in Nat /\ w + (n - w) = n /\ n <= m
  BY <1>1
<1>7. n - w \in I
  BY <1>4, <1>5, <1>6, Induction
<1>8. Grown(ExpectedTo(n))
  BY <1>3, <1>6, <1>7
<1> QED
  BY <1>2, <1>8

\* So it is a beginning of the whole.
LEMMA ExpectedPrefix ==
  ASSUME KnownInput, NEW w \in 0 .. Len(script)
  PROVE  IsPrefix(ExpectedTo(w), Expected)
<1>1. Len(script) \in Nat
  BY ScriptType
<1>2. PICK s \in Seq(Line) : s = ExpectedTo(w)
  BY ExpectedSteps
<1>3. PICK t \in Seq(Line) : t = Expected
  BY <1>1, ExpectedSteps DEF Expected
<1>4. Len(s) <= Len(t) /\ \A i \in 1 .. Len(s) : t[i] = s[i]
  <2>1. Len(script) \in w .. Len(script)
    BY <1>1
  <2> QED
    BY <1>2, <1>3, <2>1, ExpectedGrows DEF Expected
<1>5. Len(s) \in Nat /\ Len(t) \in Nat
  OBVIOUS
<1>6. /\ SubSeq(s, 1, Len(s)) \in Seq(Line) /\ Len(SubSeq(s, 1, Len(s))) = Len(s)
      /\ \A i \in 1 .. Len(s) : SubSeq(s, 1, Len(s))[i] = s[i]
  BY <1>5, SubSeqProperties
<1>7. /\ SubSeq(t, 1, Len(s)) \in Seq(Line) /\ Len(SubSeq(t, 1, Len(s))) = Len(s)
      /\ \A i \in 1 .. Len(s) : SubSeq(t, 1, Len(s))[i] = t[i]
  BY <1>4, <1>5, SubSeqProperties
<1>8. SubSeq(s, 1, Len(s)) = SubSeq(t, 1, Len(s))
  BY <1>4, <1>6, <1>7, SeqEqual
<1> QED
  BY <1>2, <1>3, <1>4, <1>8 DEF IsPrefix

\* A line that passes is in it.
LEMMA ExpectedHas ==
  ASSUME KnownInput, NEW l \in 1 .. Len(script), Passes(l)
  PROVE  [line |-> l, systems |-> Where(l).systems] \in ToSet(Expected)
<1>1. Len(script) \in Nat
  BY ScriptType
<1>2. PICK e : e = [line |-> l, systems |-> Where(l).systems]
  OBVIOUS
<1>3. l - 1 \in 0 .. Len(script) /\ l \in 0 .. Len(script) /\ Len(script) \in l .. Len(script)
  BY <1>1
<1>4. PICK t \in Seq(Line) : t = ExpectedTo(l - 1)
  BY <1>3, ExpectedSteps
<1>5. <<e>> \in Seq(Line) /\ ExpectedOf(l) = <<e>>
  <2>1. ExpectedOf(l) = <<e>>
    BY <1>2 DEF ExpectedOf
  <2> QED
    BY <2>1, WhereType
<1>6. PICK u \in Seq(Line) : u = ExpectedTo(l) /\ u = t \o <<e>>
  BY <1>3, <1>4, <1>5, ExpectedSteps
<1>7. Len(t) \in Nat /\ Len(u) = Len(t) + 1 /\ u[Len(t) + 1] = e /\ Len(t) + 1 \in 1 .. Len(u)
  BY <1>5, <1>6
<1>8. PICK v \in Seq(Line) : v = Expected
  BY <1>1, ExpectedSteps DEF Expected
<1>9. Len(u) <= Len(v) /\ \A i \in 1 .. Len(u) : v[i] = u[i]
  BY <1>3, <1>6, <1>8, ExpectedGrows DEF Expected
<1>10. PICK i : i = Len(t) + 1
  OBVIOUS
<1>11. i \in 1 .. Len(v) /\ v[i] = e /\ DOMAIN v = 1 .. Len(v)
  BY <1>7, <1>9, <1>10
<1> QED
  BY <1>2, <1>8, <1>11 DEF ToSet

-----------------------------------------------------------------------------
(* What the filter makes of a batch                                        *)

Entry(n) == [place : 1 .. n, systems : SUBSET Systems]

\* Two sequences, one behind the other.
Joined(s, t) == s \o t

\* Concatenation is associative.
LEMMA Associative ==
  ASSUME NEW S, NEW t \in Seq(S), NEW u \in Seq(S), NEW x \in Seq(S)
  PROVE  Joined(Joined(t, u), x) = Joined(t, Joined(u, x))
<1>1. (t \o u) \o x = t \o (u \o x)
  BY ConcatAssociative
<1> QED
  BY <1>1 DEF Joined

\* What an output buffer may be, with one output file.
Buffers == [lines : Seq([place : Nat, systems : SUBSET Systems]), last : {0}, undefined : {FALSE}]

\* The lines that entries stand for.
LinesOf(lines, entries) ==
  [i \in DOMAIN entries |-> [line |-> lines[entries[i].place], systems |-> entries[i].systems]]

\* What lines from a + 1 on become: entries for the lines that pass.
Shows(buffer, lines, a, n) ==
  /\ buffer \in Buffers /\ buffer.lines \in Seq(Entry(n))
  /\ \A i \in 1 .. Len(buffer.lines) :
       /\ Passes(lines[buffer.lines[i].place])
       /\ buffer.lines[i].systems = Where(lines[buffer.lines[i].place]).systems
  /\ LinesOf(lines, buffer.lines) \in Seq(Line)
  /\ ExpectedTo(a + n) = ExpectedTo(a) \o LinesOf(lines, buffer.lines)

\* FilterLine with one output file.
LEMMA FilterLineIs ==
  ASSUME OneOutput, KnownInput, NEW buffer \in Buffers, NEW l \in 1 .. Len(script), script[l] # << >>,
         NEW place \in Nat
  PROVE  /\ FilterLine(buffer, l, place) \in Buffers
         /\ FilterLine(buffer, l, place).lines =
              IF Passes(l) THEN Append(buffer.lines, [place |-> place, systems |-> {}]) ELSE buffer.lines
         /\ Where(l).systems = {}
<1>1. PICK to \in Answers : to = Chosen(condition, script[l])
  BY AnswersGiven
<1>2. to = Meant(condition, script[l]) /\ to.systems = {} /\ to.all \in BOOLEAN
  BY <1>1, OneAnswer DEF Answers
<1>3. Where(l) = to
  BY <1>2 DEF Where
<1>4. Passes(l) <=> to.all
  BY <1>2, <1>3 DEF Passes
<1>5. CASE to.all
  <2>1. FilterLine(buffer, l, place) = AddNGram(buffer, place)
    BY <1>1, <1>2, <1>5 DEF FilterLine
  <2>2. [place |-> place, systems |-> {}] \in [place : Nat, systems : SUBSET Systems]
    OBVIOUS
  <2>3. PICK e \in [place : Nat, systems : SUBSET Systems] : e = [place |-> place, systems |-> {}]
    BY <2>2
  <2>4. PICK q \in Seq([place : Nat, systems : SUBSET Systems]) : q = buffer.lines
    BY DEF Buffers
  <2>5. Append(q, e) \in Seq([place : Nat, systems : SUBSET Systems])
    BY AppendProperties
  <2>6. AddNGram(buffer, place) = [buffer EXCEPT !.lines = Append(q, e)]
    BY <2>3, <2>4 DEF AddNGram
  <2>7. PICK r \in Seq([place : Nat, systems : SUBSET Systems]) : r = Append(q, e)
    BY <2>5
  <2>8. [buffer EXCEPT !.lines = r] \in Buffers /\ [buffer EXCEPT !.lines = r].lines = r
    BY DEF Buffers
  <2> QED
    BY <1>2, <1>3, <1>4, <1>5, <2>1, <2>3, <2>4, <2>6, <2>7, <2>8
<1>6. CASE ~to.all
  <2>1. FilterLine(buffer, l, place) = buffer
    BY <1>1, <1>2, <1>6 DEF FilterLine
  <2> QED
    BY <1>2, <1>3, <1>4, <1>6, <2>1
<1> QED
  BY <1>2, <1>5, <1>6

\* FilterLines takes a line at a time.
LEMMA FilterLinesSteps ==
  ASSUME OneOutput, KnownInput, NEW lines \in Seq(1 .. Len(script)),
         \A i \in 1 .. Len(lines) : script[lines[i]] # << >>
  PROVE  \E h : /\ h[0] = EmptyBuffer /\ FilterLines(EmptyBuffer, lines) = h[Len(lines)]
                /\ \A n \in 1 .. Len(lines) : h[n] = FilterLine(h[n - 1], lines[n], n)
<1>1. PICK m \in Nat : m = Len(lines)
  OBVIOUS
<1>0. \A n \in 1 .. m : lines[n] \in 1 .. Len(script)
  BY <1>1
<1>2. PICK step : step = [p \in (1 .. m) \X Buffers |-> FilterLine(p[2], lines[p[1]], p[1])]
  OBVIOUS
<1>3. ASSUME NEW k \in 1 .. m, NEW t \in Buffers
      PROVE  step[<<k, t>>] = FilterLine(t, lines[k], k) /\ step[<<k, t>>] \in Buffers
  <2>1. FilterLine(t, lines[k], k) \in Buffers
    <3>1. PICK l \in 1 .. Len(script) : l = lines[k]
      BY <1>0
    <3>2. script[l] # << >> /\ k \in Nat
      BY <1>1, <3>1
    <3>3. FilterLine(t, l, k) \in Buffers
      BY <3>2, FilterLineIs
    <3> QED
      BY <3>1, <3>3
  <2>2. <<k, t>> \in (1 .. m) \X Buffers
    OBVIOUS
  <2> QED
    BY <1>2, <2>1, <2>2
<1>4. step \in [(1 .. m) \X Buffers -> Buffers]
  <2>1. ASSUME NEW p \in (1 .. m) \X Buffers PROVE step[p] \in Buffers
    <3>1. p[1] \in 1 .. m /\ p[2] \in Buffers /\ p = <<p[1], p[2]>>
      OBVIOUS
    <3> QED
      BY <1>3, <3>1
  <2> QED
    BY <1>2, <2>1
<1>5. PICK f \in [0 .. m -> Buffers] : Built(f, m, EmptyBuffer, step)
  <2>1. EmptyBuffer \in Buffers
    BY DEF EmptyBuffer, Buffers
  <2> QED
    BY <1>4, <2>1, BuiltExists
<1> DEFINE F(h) == [n \in 0 .. Len(lines) |-> IF n = 0 THEN EmptyBuffer ELSE FilterLine(h[n - 1], lines[n], n)]
<1>6. f = F(f)
  <2>1. ASSUME NEW n \in 0 .. m
        PROVE  f[n] = IF n = 0 THEN EmptyBuffer ELSE FilterLine(f[n - 1], lines[n], n)
    <3>1. CASE n = 0
      BY <1>5, <3>1 DEF Built
    <3>2. CASE n # 0
      <4>1. n \in 1 .. m /\ n - 1 \in 0 .. m
        BY <3>2
      <4>2. f[n] = step[<<n, f[n - 1]>>] /\ f[n - 1] \in Buffers
        BY <1>5, <4>1 DEF Built
      <4> QED
        BY <1>3, <3>2, <4>1, <4>2
    <3> QED
      BY <3>1, <3>2
  <2> QED
    BY <1>1, <1>5, <2>1
<1>7. PICK h : h = CHOOSE x : x = F(x)
  OBVIOUS
<1>8. h = F(h)
  BY <1>6, <1>7
<1>9. FilterLines(EmptyBuffer, lines) = h[Len(lines)]
  BY <1>7 DEF FilterLines
<1>10. ASSUME NEW n \in 0 .. m
       PROVE  h[n] = IF n = 0 THEN EmptyBuffer ELSE FilterLine(h[n - 1], lines[n], n)
  BY <1>1, <1>8
<1> HIDE DEF F
<1>11. h[0] = EmptyBuffer
  <2>1. 0 \in 0 .. m
    OBVIOUS
  <2> QED
    BY <1>10, <2>1
<1>12. ASSUME NEW n \in 1 .. m PROVE h[n] = FilterLine(h[n - 1], lines[n], n)
  <2>1. n \in 0 .. m /\ n # 0
    OBVIOUS
  <2> QED
    BY <1>10, <2>1
<1> QED
  BY <1>1, <1>9, <1>11, <1>12

\* One more line.
LEMMA ShowsMore ==
  ASSUME OneOutput, KnownInput, NEW lines \in Seq(1 .. Len(script)),
         NEW a \in Nat, NEW n \in 1 .. Len(lines), NEW buffer, Shows(buffer, lines, a, n - 1),
         lines[n] = a + n, script[lines[n]] # << >>
  PROVE  Shows(FilterLine(buffer, lines[n], n), lines, a, n)
<1>1. PICK l \in 1 .. Len(script) : l = lines[n]
  OBVIOUS
<1>2. PICK s : s = buffer.lines
  OBVIOUS
<1>3. PICK b : b = FilterLine(buffer, lines[n], n)
  OBVIOUS
<1>4. n \in Nat /\ n - 1 \in Nat /\ Len(script) \in Nat /\ a + n = l /\ l - 1 = a + (n - 1)
  <2>1. Len(script) \in Nat
    BY ScriptType
  <2>2. n \in Nat \ {0} /\ l = a + n
    BY <1>1
  <2> QED
    BY <2>1, <2>2
<1>5. b \in Buffers /\ b.lines = (IF Passes(l) THEN Append(s, [place |-> n, systems |-> {}]) ELSE s)
      /\ Where(l).systems = {}
  <2>1. buffer \in Buffers /\ script[l] # << >> /\ n \in Nat
    BY <1>1, <1>4 DEF Shows
  <2>2. PICK c \in Buffers : c = buffer
    BY <2>1
  <2>3. /\ FilterLine(c, l, n) \in Buffers /\ Where(l).systems = {}
        /\ FilterLine(c, l, n).lines =
             IF Passes(l) THEN Append(c.lines, [place |-> n, systems |-> {}]) ELSE c.lines
    BY <2>1, FilterLineIs
  <2> QED
    BY <1>1, <1>2, <1>3, <2>2, <2>3
<1>6. /\ s \in Seq(Entry(n - 1)) /\ LinesOf(lines, s) \in Seq(Line)
      /\ \A i \in 1 .. Len(s) : Passes(lines[s[i].place]) /\ s[i].systems = Where(lines[s[i].place]).systems
      /\ ExpectedTo(l - 1) = ExpectedTo(a) \o LinesOf(lines, s)
  BY <1>2, <1>4 DEF Shows
<1>7. s \in Seq(Entry(n))
  <2>1. \A e \in Entry(n - 1) : e \in Entry(n)
    BY <1>4 DEF Entry
  <2> QED
    BY <1>6, <2>1
<1>8. ExpectedTo(l) = ExpectedTo(l - 1) \o ExpectedOf(l)
  BY ExpectedSteps
<1>9. CASE ~Passes(l)
  <2>1. ExpectedOf(l) = << >>
    BY <1>9 DEF ExpectedOf
  <2>2. ExpectedTo(l - 1) \in Seq(Line)
    <3>1. l - 1 \in 0 .. Len(script)
      BY <1>4
    <3> QED
      BY <3>1, ExpectedSteps
  <2>3. ExpectedTo(l) = ExpectedTo(l - 1)
    BY <1>8, <2>1, <2>2, ConcatEmptySeq
  <2>4. b.lines = s
    BY <1>5, <1>9
  <2> QED
    BY <1>3, <1>4, <1>5, <1>6, <1>7, <2>3, <2>4 DEF Shows
<1>10. CASE Passes(l)
  <2>1. PICK e \in Entry(n) : e = [place |-> n, systems |-> {}] /\ e.place = n /\ e.systems = {}
    <3>1. n \in 1 .. n /\ {} \in SUBSET Systems
      BY <1>4
    <3>2. [place |-> n, systems |-> {}] \in Entry(n)
      BY <3>1 DEF Entry
    <3> QED
      BY <3>2
  <2>2. PICK r \in Seq(Entry(n)) : r = Append(s, e)
    BY <1>7, AppendProperties
  <2>3. b.lines = r
    BY <1>5, <1>10, <2>1, <2>2
  <2>4. PICK d : d = [line |-> l, systems |-> {}]
    OBVIOUS
  <2>5. d \in Line
    BY <2>4 DEF Line
  <2>6. ExpectedOf(l) = <<d>>
    BY <1>5, <1>10, <2>4 DEF ExpectedOf
  <2>7. /\ Len(s) \in Nat /\ Len(r) = Len(s) + 1 /\ r[Len(s) + 1] = e
        /\ \A i \in 1 .. Len(s) : r[i] = s[i]
        /\ DOMAIN s = 1 .. Len(s) /\ DOMAIN r = 1 .. Len(s) + 1
    BY <1>7, <2>2
  <2>8. LinesOf(lines, r) = Append(LinesOf(lines, s), d)
    <3>1. PICK u \in Seq(Line) : u = LinesOf(lines, s)
      BY <1>6
    <3>2. u = [i \in 1 .. Len(s) |-> [line |-> lines[s[i].place], systems |-> s[i].systems]]
      BY <2>7, <3>1 DEF LinesOf
    <3>3. Len(u) = Len(s)
      BY <2>7, <3>1, <3>2
    <3>4. PICK v : v = LinesOf(lines, r)
      OBVIOUS
    <3>5. v = [i \in 1 .. Len(s) + 1 |-> [line |-> lines[r[i].place], systems |-> r[i].systems]]
      BY <2>7, <3>4 DEF LinesOf
    <3>6. \A i \in 1 .. Len(s) : i \in 1 .. Len(s) + 1 /\ v[i] = u[i]
      BY <2>7, <3>2, <3>5
    <3>7. v[Len(s) + 1] = d
      <4>1. Len(s) + 1 \in 1 .. Len(s) + 1
        BY <2>7
      <4>2. v[Len(s) + 1] = [line |-> lines[r[Len(s) + 1].place], systems |-> r[Len(s) + 1].systems]
        BY <3>5, <4>1
      <4> QED
        BY <1>1, <2>1, <2>4, <2>7, <4>2
    <3>8. u \in [1 .. Len(s) -> Line] /\ v \in [1 .. Len(s) + 1 -> Line]
      <4>1. \A i \in 1 .. Len(s) : u[i] \in Line
        BY <3>1, <3>3
      <4>2. ASSUME NEW i \in 1 .. Len(s) + 1 PROVE v[i] \in Line
        <5>1. CASE i = Len(s) + 1
          BY <2>5, <3>7, <5>1
        <5>2. CASE i # Len(s) + 1
          <6>1. i \in 1 .. Len(s)
            BY <2>7, <5>2
          <6> QED
            BY <3>6, <4>1, <6>1
        <5> QED
          BY <5>1, <5>2
      <4> QED
        BY <3>2, <3>5, <4>1, <4>2
    <3>9. v \in Seq(Line) /\ Len(v) = Len(s) + 1
      <4>1. PICK k \in Nat : k = Len(s) + 1
        BY <2>7
      <4>2. v \in [1 .. k -> Line]
        BY <3>8, <4>1
      <4>3. v \in Seq(Line) /\ Len(v) = k
        BY ONLY <4>2, k \in Nat
      <4> QED
        BY <4>1, <4>3
    <3>10. /\ Append(u, d) \in Seq(Line) /\ Len(Append(u, d)) = Len(u) + 1
           /\ \A i \in 1 .. Len(u) : Append(u, d)[i] = u[i]
           /\ Append(u, d)[Len(u) + 1] = d
      BY <2>5, <3>1, AppendProperties
    <3>11. PICK x \in Seq(Line) : x = Append(u, d) /\ Len(x) = Len(s) + 1 /\ x[Len(s) + 1] = d
                                   /\ \A i \in 1 .. Len(s) : x[i] = u[i]
      BY <3>3, <3>10
    <3>12. ASSUME NEW i \in 1 .. Len(v) PROVE v[i] = x[i]
      <4>1. CASE i = Len(s) + 1
        BY <3>7, <3>11, <4>1
      <4>2. CASE i # Len(s) + 1
        <5>1. i \in 1 .. Len(s)
          BY <2>7, <3>9, <4>2
        <5> QED
          BY <3>6, <3>11, <5>1
      <4> QED
        BY <4>1, <4>2
    <3>13. v = x
      BY <3>9, <3>11, <3>12, SeqEqual
    <3> QED
      BY <3>1, <3>4, <3>11, <3>13
  <2>9. PICK u \in Seq(Line) : u = LinesOf(lines, s)
    BY <1>6
  <2>10. PICK t \in Seq(Line) : t = ExpectedTo(a)
    <3>1. a \in 0 .. Len(script)
      BY <1>4
    <3> QED
      BY <3>1, ExpectedSteps
  <2>11. Append(u, d) \in Seq(Line) /\ Append(u, d) = u \o <<d>> /\ <<d>> \in Seq(Line)
    BY <2>5, AppendProperties, AppendIsConcat
  <2>12. (t \o u) \o <<d>> = t \o (u \o <<d>>)
    <3>1. PICK x \in Seq(Line) : x = <<d>>
      BY <2>11
    <3>2. Joined(Joined(t, u), x) = Joined(t, Joined(u, x))
      BY Associative
    <3> QED
      BY <3>1, <3>2 DEF Joined
  <2>13. ExpectedTo(l) = t \o Append(u, d)
    BY <1>6, <1>8, <2>6, <2>9, <2>10, <2>11, <2>12
  <2>14. ASSUME NEW i \in 1 .. Len(r)
         PROVE  Passes(lines[r[i].place]) /\ r[i].systems = Where(lines[r[i].place]).systems
    <3>1. CASE i = Len(s) + 1
      BY <1>1, <1>5, <1>10, <2>1, <2>7, <3>1
    <3>2. CASE i # Len(s) + 1
      <4>1. i \in 1 .. Len(s)
        BY <2>7, <3>2
      <4> QED
        BY <1>6, <2>7, <4>1
    <3> QED
      BY <3>1, <3>2
  <2> QED
    BY <1>3, <1>4, <1>5, <2>3, <2>8, <2>9, <2>10, <2>11, <2>13, <2>14 DEF Shows
<1> QED
  BY <1>3, <1>9, <1>10

\* What the filter makes of lines that follow each other is what is expected of them.
LEMMA ShowsAll ==
  ASSUME OneOutput, KnownInput, NEW lines \in Seq(1 .. Len(script)),
         NEW a \in Nat, a <= Len(script),
         \A i \in 1 .. Len(lines) : lines[i] = a + i /\ script[lines[i]] # << >>
  PROVE  Shows(FilterLines(EmptyBuffer, lines), lines, a, Len(lines))
<1>1. PICK h : /\ h[0] = EmptyBuffer /\ FilterLines(EmptyBuffer, lines) = h[Len(lines)]
               /\ \A n \in 1 .. Len(lines) : h[n] = FilterLine(h[n - 1], lines[n], n)
  BY FilterLinesSteps
<1>2. PICK m \in Nat : m = Len(lines)
  OBVIOUS
<1>3. PICK I : I = {n \in Nat : n <= m => Shows(h[n], lines, a, n)}
  OBVIOUS
<1>4. 0 \in I
  <2>1. EmptyBuffer \in Buffers /\ EmptyBuffer.lines = << >> /\ << >> \in Seq(Entry(0)) /\ << >> \in Seq(Line)
    BY DEF EmptyBuffer, Buffers
  <2>2. LinesOf(lines, << >>) = << >>
    BY DEF LinesOf
  <2>3. a + 0 = a /\ a \in 0 .. Len(script)
    BY ScriptType
  <2>4. ExpectedTo(a) \o << >> = ExpectedTo(a)
    BY <2>3, ExpectedSteps, ConcatEmptySeq
  <2>5. Shows(EmptyBuffer, lines, a, 0)
    <3>1. Len(<< >>) = 0 /\ 1 .. 0 = {}
      OBVIOUS
    <3>2. \A i \in 1 .. Len(<< >>) : FALSE
      BY <3>1
    <3>3. ExpectedTo(a + 0) = ExpectedTo(a) \o << >>
      BY <2>3, <2>4
    <3> HIDE DEF Buffers
    <3> QED
      BY <2>1, <2>2, <3>2, <3>3 DEF Shows
  <2> QED
    BY <1>1, <1>3, <2>5
<1>5. ASSUME NEW n \in Nat, n \in I PROVE n + 1 \in I
  <2> SUFFICES ASSUME n + 1 <= m PROVE Shows(h[n + 1], lines, a, n + 1)
    BY <1>3
  <2>1. PICK k \in 1 .. Len(lines) : k = n + 1 /\ k - 1 = n
    BY <1>2
  <2>2. Shows(h[k - 1], lines, a, k - 1)
    BY <1>2, <1>3, <1>5, <2>1
  <2>3. h[k] = FilterLine(h[k - 1], lines[k], k)
    BY <1>1
  <2>4. lines[k] = a + k /\ script[lines[k]] # << >>
    OBVIOUS
  <2>5. Shows(FilterLine(h[k - 1], lines[k], k), lines, a, k)
    BY <2>2, <2>4, ShowsMore
  <2> QED
    BY <2>1, <2>3, <2>5
<1>6. m \in I
  BY <1>4, <1>5, Induction
<1>7. Shows(h[m], lines, a, m)
  BY <1>3, <1>6
<1> QED
  BY <1>1, <1>2, <1>7

-----------------------------------------------------------------------------
(* Who has a batch                                                         *)

\* What is expected does not change with the threads.
LEMMA SameScript ==
  ASSUME UNCHANGED <<script, condition>>
  PROVE  /\ \A n : ExpectedTo(n)' = ExpectedTo(n)
         /\ \A buffer, lines : FilterLines(buffer, lines)' = FilterLines(buffer, lines)
BY DEF ExpectedTo, ExpectedOf, Passes, Where, FilterLines, FilterLine, SingleAddNGram, SameLine, AddNGram

\* A batch that somebody behind the main thread has is under way, and nobody else has it.
LEMMA OneHolder ==
  ASSUME IInv, NEW b \in Batches
  PROVE  /\ Copies(to_output, b) # 0 =>
              UnderWay(b) /\ Copies(to_filter, b) = 0 /\ Copies(ordering, b) = 0 /\ With(b) = 0
         /\ Copies(ordering, b) # 0 =>
              UnderWay(b) /\ Copies(to_filter, b) = 0 /\ Copies(to_output, b) = 0 /\ With(b) = 0
              /\ Copies(ordering, b) = 1
         /\ With(b) # 0 =>
              UnderWay(b) /\ Copies(to_filter, b) = 0 /\ Copies(to_output, b) = 0
              /\ Copies(ordering, b) = 0 /\ With(b) = 1
         /\ Copies(to_filter, b) # 0 =>
              UnderWay(b) /\ Copies(to_output, b) = 0 /\ Copies(ordering, b) = 0 /\ With(b) = 0
<1>1. /\ Copies(to_filter, b) \in Nat /\ Copies(to_output, b) \in Nat
      /\ Copies(ordering, b) \in Nat /\ With(b) \in Nat
  BY CountTypes DEF IInv
<1>2. Copies(to_filter, b) + Copies(to_output, b) + Copies(ordering, b) + With(b) # 0 =>
        /\ UnderWay(b)
        /\ Copies(to_filter, b) + Copies(to_output, b) + Copies(ordering, b) + With(b) = 1
  BY UnderWayIf DEF IInv
<1> QED
  BY <1>1, <1>2

\* The top of the stack is nowhere else.
LEMMA HeldTop ==
  ASSUME IInv, local_read # << >>
  PROVE  /\ Top \in Batches /\ ~UnderWay(Top) /\ Copies(to_output, Top) = 0 /\ Copies(ordering, Top) = 0
         /\ With(Top) = 0 /\ Copies(local_read, Top) = 1 /\ Copies(to_read, Top) = 0
<1>1. Top \in Batches /\ Copies(local_read, Top) # 0
  BY TopIsHeld
<1> QED
  BY <1>1, HeldAlone DEF IInv, UnderWay

\* The front of the deque.
LEMMA FrontBatch ==
  ASSUME IInv, FrontReady
  PROVE  /\ Head(ordering) \in Batches /\ UnderWay(Head(ordering)) /\ Copies(ordering, Head(ordering)) # 0
         /\ number[Head(ordering)] = base_sequence
<1>1. ordering \in Seq(Requests) /\ ordering # << >> /\ Head(ordering) # Null
  BY HolderTypes DEF IInv, FrontReady
<1>2. 1 \in 1 .. Len(ordering) /\ Head(ordering) = ordering[1] /\ ordering[1] \in Requests
  BY <1>1, FirstFacts
<1>3. PICK x \in Batches : x = Head(ordering)
  BY <1>1, <1>2 DEF Requests
<1>4. Copies(ordering, x) # 0
  BY <1>1, <1>2, <1>3, CopiesType
<1>5. number[ordering[1]] = base_sequence + (1 - 1) /\ base_sequence \in Nat
  BY <1>1, <1>2 DEF IInv, Numbers, BatchTypes
<1> QED
  BY <1>2, <1>3, <1>4, <1>5, OneHolder

\* Which batches are under way after a step that moves one.
LEMMA UnderWayMoves ==
  ASSUME IInv, NEW b \in Batches
  PROVE  /\ FlushInput => (UnderWay(b)' <=> UnderWay(b) \/ b = Top)
         /\ Receives => (UnderWay(b)' <=> UnderWay(b))
         /\ WriterReturn => (UnderWay(b)' <=> UnderWay(b) /\ b # Head(ordering))
<1>0. BatchTypes /\ Phases
  BY DEF IInv
<1>1. ASSUME FlushInput PROVE UnderWay(b)' <=> UnderWay(b) \/ b = Top
  <2>1. local_read # << >> /\ local_read' = Front(local_read) /\ to_read' = to_read
    BY <1>0, <1>1, TypesFlushInput DEF FlushInput, Phases, Filling
  <2>2. Copies(local_read, b) = Copies(local_read', b) + (IF Top = b THEN 1 ELSE 0)
    BY <1>0, <2>1, TopFacts
  <2>3. Copies(local_read', b) \in Nat
    BY <1>0, <1>1, TypesFlushInput, CountTypes, HolderTypes, CopiesType DEF BatchTypes
  <2> QED
    BY <2>1, <2>2, <2>3, HeldTop DEF UnderWay
<1>2. ASSUME Receives PROVE UnderWay(b)' <=> UnderWay(b)
  <2>1. /\ to_read # << >> /\ to_read' = Tail(to_read) /\ Head(to_read) \in Batches
        /\ local_read' = Append(local_read, Head(to_read)) /\ BatchTypes'
    BY <1>0, <1>2, TypesReceives
  <2>2. Copies(to_read, b) = Copies(to_read', b) + (IF Head(to_read) = b THEN 1 ELSE 0)
    BY <1>0, <2>1, HolderTypes, CopiesTail
  <2>3. Copies(local_read', b) = Copies(local_read, b) + (IF Head(to_read) = b THEN 1 ELSE 0)
    BY <1>0, <2>1, HolderTypes, CopiesAppend
  <2>4. Copies(local_read, b) \in Nat /\ Copies(to_read', b) \in Nat
    <3>1. to_read' \in Seq(Batches) /\ local_read \in Seq(Batches)
      BY <1>0, <2>1 DEF BatchTypes
    <3> QED
      BY <3>1, CopiesType
  <2> QED
    BY <2>2, <2>3, <2>4 DEF UnderWay
<1>3. ASSUME WriterReturn PROVE UnderWay(b)' <=> UnderWay(b) /\ b # Head(ordering)
  <2>1. /\ Head(ordering) \in Batches /\ to_read' = Append(to_read, Head(ordering))
        /\ local_read' = local_read
    BY <1>0, <1>3, TypesWriterReturn
  <2>2. Copies(to_read', b) = Copies(to_read, b) + (IF Head(ordering) = b THEN 1 ELSE 0)
    BY <1>0, <2>1, HolderTypes, CopiesAppend
  <2>3. Copies(to_read, b) \in Nat
    BY <1>0, CountTypes
  <2> QED
    BY <2>1, <2>2, <2>3 DEF UnderWay
<1> QED
  BY <1>1, <1>2, <1>3

\* The steps that change nothing of what is read, written or numbered.
Idle ==
  \/ ReadEnd \/ FlushInput \/ Receives \/ EndOfInput \/ PoisonFilter \/ JoinFilters \/ JoinWriter
  \/ (\E f \in Filters : FilterStep(f)) \/ WriterConsume \/ WriterReturn \/ WriterPause \/ UNCHANGED vars

\* Every step is one of them, or one of six.
LEMMA IdleOrNot ==
  ASSUME [Next]_vars
  PROVE  Idle \/ ReadNGram \/ FlushInputEmpty \/ StartInput \/ CollectDone \/ EndLength \/ WriterFlush
BY DEF Next, MainStep, WriterStep, Finished, Idle, Receives

\* main, as long as the filter is well behaved.
Tame == main # "undefined" /\ main' # "undefined"

\* What they leave alone.
LEMMA IdleFacts ==
  ASSUME Idle
  PROVE  UNCHANGED <<script, condition, next, input, number, output, sequence>>
BY DEF Idle, Receives, ReadEnd, FlushInput, MoveRead, Collect, EndOfInput, PoisonFilter, JoinFilters,
     JoinWriter, FilterStep, FilterConsume, CallFilter, FilterProduce, WriterConsume, WriterReturn,
     WriterPause, vars, mainVars, filterVars, writerVars

\* And the batches whose lines are to be written are the same.
LEMMA IdlePending ==
  ASSUME IInv, Idle, Tame, NEW b \in Batches
  PROVE  Pending(b)' <=> Pending(b)
<1>0. BatchTypes /\ Phases
  BY DEF IInv
<1>1. CASE FlushInput
  <2>1. Filling /\ ~Filling' /\ UNCHANGED <<writer, ordering>>
    BY <1>0, <1>1 DEF FlushInput, Filling, writerVars, BatchTypes
  <2> QED
    BY <1>1, <2>1, UnderWayMoves, HeldTop, FrontBatch DEF Pending, Phases, IInv
<1>2. CASE Receives
  <2>1. ~Filling /\ ~Filling' /\ UNCHANGED <<writer, ordering>>
    BY <1>0, <1>2 DEF Receives, MoveRead, Collect, Filling, writerVars, BatchTypes
  <2> QED
    BY <1>2, <2>1, UnderWayMoves DEF Pending
<1>3. CASE WriterReturn
  <2>1. writer = "return" /\ writer' = "assemble" /\ UNCHANGED <<main, local_read>>
    BY <1>3 DEF WriterReturn, mainVars
  <2> QED
    BY <1>3, <2>1, UnderWayMoves DEF Pending, Filling, Top
<1>4. CASE WriterConsume
  <2>1. writer = "consume" /\ writer' # "return" /\ UNCHANGED <<main, local_read, to_read>>
    BY <1>4 DEF WriterConsume, mainVars
  <2> QED
    BY <2>1 DEF Pending, UnderWay, Filling, Top
<1>5. CASE WriterPause
  <2>1. writer = "assemble" /\ writer' = "consume" /\ UNCHANGED <<main, local_read, to_read>>
    BY <1>5 DEF WriterPause, mainVars
  <2> QED
    BY <2>1 DEF Pending, UnderWay, Filling, Top
<1>6. ASSUME ReadEnd \/ EndOfInput \/ PoisonFilter \/ JoinFilters \/ JoinWriter \/ UNCHANGED vars
      PROVE  Pending(b)' <=> Pending(b)
  <2>1. UNCHANGED <<writer, ordering, local_read, to_read>> /\ Filling' = Filling
    BY <1>6 DEF ReadEnd, EndOfInput, PoisonFilter, JoinFilters, JoinWriter, vars, mainVars, writerVars, Filling
  <2> QED
    BY <2>1 DEF Pending, UnderWay, Top
<1>7. ASSUME NEW f \in Filters, FilterStep(f)
      PROVE  Pending(b)' <=> Pending(b)
  <2>1. UNCHANGED <<writer, ordering, local_read, to_read>> /\ main' = main
    BY <1>7 DEF FilterStep, FilterConsume, CallFilter, FilterProduce, mainVars, writerVars, Tame
  <2> QED
    BY <2>1 DEF Pending, UnderWay, Top, Filling
<1> QED
  BY <1>1, <1>2, <1>3, <1>4, <1>5, <1>6, <1>7 DEF Idle

-----------------------------------------------------------------------------
(* The main thread and its buffers                                         *)

\* The main thread's variables keep their promises.
LEMMA ReadingStep ==
  ASSUME IInv, Reading, [Next]_vars, Tame
  PROVE  Reading'
<1>0. after \in {"new_input", "collect"} /\ Len(script) \in Nat /\ IsFiniteSet(Filters)
      /\ Cardinality(Filters) \in Nat
  <2>1. KnownInput
    BY DEF Reading, KnownInput
  <2> QED
    BY <2>1, ScriptType, FiltersAssumption, FS_CardinalityType DEF IInv, BatchTypes
<1>1. CASE ReadNGram \/ ReadEnd
  BY <1>0, <1>1 DEF ReadNGram, ReadEnd, Reading, Ending, Closing, writerVars
<1>2. CASE FlushInputEmpty \/ FlushInput \/ MoveRead
  BY <1>0, <1>2 DEF FlushInputEmpty, FlushInput, MoveRead, Reading, Ending, Closing, writerVars
<1>3. CASE StartInput \/ Collect \/ CollectDone \/ EndLength
  BY <1>0, <1>3 DEF StartInput, Collect, CollectDone, EndLength, Reading, Ending, Closing, writerVars
<1>4. CASE EndOfInput \/ JoinFilters \/ JoinWriter \/ PoisonFilter
  BY <1>0, <1>4 DEF EndOfInput, JoinFilters, JoinWriter, PoisonFilter, Reading, Ending, Closing, writerVars
<1>5. ASSUME NEW f \in Filters, FilterStep(f) PROVE Reading'
  BY <1>5 DEF FilterStep, FilterConsume, CallFilter, FilterProduce, Reading, Ending, Closing,
     mainVars, writerVars, Tame
<1>6. CASE WriterStep
  BY <1>6 DEF WriterStep, WriterConsume, WriterFlush, WriterReturn, WriterPause, Reading, Ending,
     Closing, mainVars
<1>7. CASE UNCHANGED vars
  BY <1>7 DEF vars, mainVars, writerVars, Reading, Ending, Closing
<1> QED
  BY <1>1, <1>2, <1>3, <1>4, <1>5, <1>6, <1>7 DEF Next, MainStep, Finished

\* A step that reads and writes nothing leaves the top where it is, as long as it is filled.
LEMMA IdleTop ==
  ASSUME IInv, Idle, Tame
  PROVE  /\ Filling' => Filling /\ Top' = Top
         /\ main' \in {"read", "end_length"} => main' = main /\ Filling'
<1>1. CASE FlushInput \/ Receives
  <2>1. main' \in {"move_read", "new_input", "collect"}
    BY <1>1 DEF FlushInput, Receives, MoveRead, Collect, IInv, BatchTypes
  <2> QED
    BY <2>1 DEF Filling
<1>2. ASSUME ~(FlushInput \/ Receives)
      PROVE  local_read' = local_read /\ (Filling' => Filling)
             /\ (main' \in {"read", "end_length"} => main' = main /\ Filling')
  BY <1>2 DEF Idle, ReadEnd, EndOfInput, PoisonFilter, JoinFilters, JoinWriter, FilterStep, FilterConsume,
     CallFilter, FilterProduce, WriterConsume, WriterReturn, WriterPause, vars, mainVars, Filling, Tame
<1> QED
  BY <1>1, <1>2 DEF Top

\* AddNGram: the line follows those already in the buffer.
LEMMA FilledRead ==
  ASSUME IInv, Reading, Filled, ReadNGram
  PROVE  Filled'
<1>0. local_read # << >> /\ Top \in Batches /\ Filling
  BY TopIsHeld DEF IInv, ReadNGram, Phases, Filling
<1>1. PICK q \in Seq(1 .. Len(script)) : q = input[Top] /\ Len(q) < BatchSize
  BY <1>0 DEF Filled, ReadNGram
<1>2. /\ input' = [input EXCEPT ![Top] = Append(q, next)] /\ next' = next + 1
      /\ UNCHANGED <<script, local_read>>
  BY <1>0, <1>1 DEF ReadNGram, Filled
<1>3. next \in 1 .. Len(script) /\ Len(script) \in Nat /\ script[next] # << >>
  <2>1. Len(script) \in Nat
    BY ScriptType DEF Reading, KnownInput
  <2> QED
    BY <2>1 DEF ReadNGram, Reading
<1>4. PICK r \in Seq(1 .. Len(script)) : r = Append(q, next)
  BY <1>3, AppendProperties
<1>5. /\ Len(r) = Len(q) + 1 /\ r[Len(q) + 1] = next /\ Len(q) \in Nat
      /\ \A i \in 1 .. Len(q) : r[i] = q[i]
  BY <1>3, <1>4, AppendProperties
<1>6. /\ \A i \in 1 .. Len(q) : q[i] = q[1] + (i - 1) /\ script[q[i]] # << >>
      /\ q # << >> => q[Len(q)] = next - 1
  BY <1>0, <1>1 DEF Filled
<1>7. /\ input' \in [Batches -> Seq(1 .. Len(script))] /\ input'[Top] = r
      /\ \A b \in Batches : b # Top => input'[b] = input[b]
  BY <1>0, <1>2, <1>4 DEF Filled
<1>8. Len(r) <= BatchSize /\ BatchSize \in Nat
  BY <1>1, <1>5, BatchSizeAssumption
<1>9. ASSUME NEW i \in 1 .. Len(r) PROVE r[i] = r[1] + (i - 1) /\ script[r[i]] # << >>
  <2>1. CASE Len(q) = 0
    <3>1. i = 1
      BY <1>5, <2>1
    <3> QED
      BY <1>3, <1>5, <2>1, <3>1
  <2>2. CASE Len(q) # 0
    <3>1. 1 \in 1 .. Len(q) /\ Len(q) \in 1 .. Len(q) /\ q # << >>
      BY <1>5, <2>2
    <3>2. q[1] \in Int /\ q[Len(q)] = q[1] + (Len(q) - 1) /\ q[Len(q)] = next - 1 /\ r[1] = q[1]
      BY <1>3, <1>5, <1>6, <3>1
    <3>3. CASE i = Len(q) + 1
      <4>1. r[i] = next /\ i - 1 = Len(q)
        BY <1>5, <3>3
      <4>2. next = q[1] + Len(q)
        BY <1>3, <1>5, <3>2
      <4> QED
        BY <1>3, <3>2, <4>1, <4>2
    <3>4. CASE i # Len(q) + 1
      <4>1. i \in 1 .. Len(q)
        BY <1>5, <3>4
      <4> QED
        BY <1>5, <1>6, <3>2, <4>1
    <3> QED
      BY <3>3, <3>4
  <2> QED
    BY <2>1, <2>2
<1>10. main' = "read" => Len(r) < BatchSize
  <2>1. main' = IF Len(input'[Top]) = BatchSize THEN "flush_input" ELSE "read"
    BY DEF ReadNGram
  <2> QED
    BY <1>5, <1>7, <1>8, <2>1
<1>11. main' # "end_length"
  BY DEF ReadNGram
<1>12. Top' = Top
  BY <1>2 DEF Top
<1>13. r[Len(r)] = next' - 1
  BY <1>2, <1>3, <1>5
<1>14. ASSUME NEW b \in Batches
       PROVE  /\ Len(input'[b]) <= BatchSize
              /\ \A i \in 1 .. Len(input'[b]) :
                   input'[b][i] = input'[b][1] + (i - 1) /\ script[input'[b][i]] # << >>
  <2>1. CASE b = Top
    BY <1>7, <1>8, <1>9, <2>1
  <2>2. CASE b # Top
    BY <1>7, <2>2 DEF Filled
  <2> QED
    BY <2>1, <2>2
<1> QED
  BY <1>2, <1>7, <1>10, <1>11, <1>12, <1>13, <1>14 DEF Filled

\* NewInput: the top batch gets an empty buffer.
LEMMA FilledNew ==
  ASSUME IInv, Filled, StartInput \/ CollectDone
  PROVE  /\ Filled' /\ local_read # << >> /\ Top \in Batches /\ Top' = Top /\ ~Filling /\ Filling'
         /\ input'[Top] = << >> /\ number'[Top] = sequence
         /\ \A b \in Batches : b # Top => input'[b] = input[b] /\ number'[b] = number[b]
         /\ UNCHANGED <<script, condition, next, local_read, to_read, writer, ordering, output>>
<1>1. local_read # << >>
  <2>1. StartInput => local_read # << >>
    BY DEF StartInput, IInv, Phases
  <2>2. CollectDone => Len(local_read) # 0
    BY BatchesAssumption, FS_EmptySet DEF CollectDone, QueueSize
  <2> QED
    BY <2>1, <2>2, HolderTypes, SeqFacts DEF IInv
<1>2. Top \in Batches
  BY <1>1, TopIsHeld
<1>3. /\ number' = [number EXCEPT ![Top] = sequence] /\ input' = [input EXCEPT ![Top] = << >>]
      /\ UNCHANGED <<script, condition, next, local_read, to_read, writer, ordering, output>>
      /\ ~Filling /\ Filling' /\ main' \in {"read", "end_length"}
  BY DEF StartInput, CollectDone, NewInput, Top, writerVars, Filling
<1>4. Top' = Top
  BY <1>3 DEF Top
<1>5. /\ input' \in [Batches -> Seq(1 .. Len(script))] /\ input'[Top] = << >>
      /\ \A b \in Batches : b # Top => input'[b] = input[b]
  <2>1. << >> \in Seq(1 .. Len(script))
    OBVIOUS
  <2> QED
    BY <1>2, <1>3, <2>1 DEF Filled
<1>6. number'[Top] = sequence /\ \A b \in Batches : b # Top => number'[b] = number[b]
  BY <1>2, <1>3 DEF IInv, BatchTypes
<1>7. Len(<< >>) = 0 /\ 0 < BatchSize /\ 0 <= BatchSize
  BY BatchSizeAssumption
<1>8. ASSUME NEW b \in Batches
      PROVE  /\ Len(input'[b]) <= BatchSize
             /\ \A i \in 1 .. Len(input'[b]) :
                  input'[b][i] = input'[b][1] + (i - 1) /\ script[input'[b][i]] # << >>
  <2>1. CASE b = Top
    <3>1. 1 .. 0 = {} /\ Len(input'[b]) = 0
      BY <1>5, <1>7, <2>1
    <3> QED
      BY <1>7, <3>1
  <2>2. CASE b # Top
    BY <1>5, <2>2 DEF Filled
  <2> QED
    BY <2>1, <2>2
<1> QED
  BY <1>1, <1>2, <1>3, <1>4, <1>5, <1>6, <1>7, <1>8 DEF Filled

\* The buffers keep their promises.
LEMMA FilledStep ==
  ASSUME IInv, Reading, Filled, [Next]_vars, Tame
  PROVE  Filled'
<1>1. CASE Idle
  BY <1>1, IdleFacts, IdleTop DEF Filled
<1>2. CASE ReadNGram
  BY <1>2, FilledRead
<1>3. CASE FlushInputEmpty
  <2>1. UNCHANGED <<script, input>> /\ main' \in {"new_input", "collect"}
    BY <1>3 DEF FlushInputEmpty, IInv, BatchTypes
  <2> QED
    BY <2>1 DEF Filled, Filling
<1>4. CASE StartInput \/ CollectDone
  BY <1>4, FilledNew
<1>5. CASE EndLength
  <2>1. /\ UNCHANGED <<script, input, local_read>> /\ main' = "read" /\ input[Top] = << >>
        /\ Len(<< >>) = 0 /\ 0 < BatchSize
    BY <1>5, BatchSizeAssumption DEF EndLength, Filled
  <2> QED
    BY <2>1 DEF Filled, Top
<1>6. CASE WriterFlush
  <2>1. UNCHANGED <<script, input, local_read, main, next>>
    BY <1>6 DEF WriterFlush, mainVars
  <2> QED
    BY <2>1 DEF Filled, Filling, Top
<1> QED
  BY <1>1, <1>2, <1>3, <1>4, <1>5, <1>6, IdleOrNot

-----------------------------------------------------------------------------
(* What has been written                                                   *)

\* An idle step leaves the written and the pending lines as they are.
LEMMA ThroughIdle ==
  ASSUME IInv, Idle, Tame, NEW w, Through(w)
  PROVE  Through(w)'
<1>1. UNCHANGED <<script, condition, next, input, number, output>>
  BY IdleFacts
<1>2. \A b \in Batches : Pending(b)' <=> Pending(b)
  BY IdlePending
<1>3. ExpectedTo(w)' = ExpectedTo(w) /\ \A b, l : Holds(b, l)' <=> Holds(b, l)
  BY <1>1, SameScript DEF Holds
<1> QED
  BY <1>1, <1>2, <1>3 DEF Through

\* A line more to be written.
LEMMA ThroughRead ==
  ASSUME IInv, Reading, Filled, Filled', ReadNGram, NEW w \in 0 .. next - 1, Through(w)
  PROVE  Through(w)' /\ w \in 0 .. next' - 1
<1>0. local_read # << >> /\ Top \in Batches /\ Filling /\ ~UnderWay(Top) /\ Filling'
  BY HeldTop DEF IInv, ReadNGram, Phases, Filling
<1>1. PICK q \in Seq(1 .. Len(script)) : q = input[Top]
  BY <1>0 DEF Filled
<1>2. /\ input' = [input EXCEPT ![Top] = Append(q, next)] /\ next' = next + 1
      /\ UNCHANGED <<script, condition, local_read, to_read, ordering, writer, number, output>>
  BY <1>0, <1>1 DEF ReadNGram, Filled, writerVars
<1>3. next \in Nat /\ next \in 1 .. Len(script)
  <2>1. Len(script) \in Nat
    BY ScriptType DEF Reading, KnownInput
  <2> QED
    BY <2>1 DEF ReadNGram, Reading
<1>4. PICK r \in Seq(1 .. Len(script)) : r = Append(q, next)
  BY <1>3, AppendProperties
<1>5. /\ Len(r) = Len(q) + 1 /\ r[Len(q) + 1] = next /\ Len(q) \in Nat
      /\ \A i \in 1 .. Len(q) : r[i] = q[i]
  BY <1>3, <1>4, AppendProperties
<1>6. input'[Top] = r /\ \A b \in Batches : b # Top => input'[b] = input[b]
  BY <1>0, <1>2, <1>4 DEF Filled
<1>7. \A b \in Batches : Pending(b)' <=> Pending(b)
  BY <1>0, <1>2 DEF Pending, UnderWay, Top
<1>8. \A b \in Batches : \A i \in 1 .. Len(input[b]) : i \in 1 .. Len(input'[b]) /\ input'[b][i] = input[b][i]
  <2>1. \A i \in 1 .. Len(q) : i \in 1 .. Len(r)
    BY <1>5
  <2> QED
    BY <1>1, <1>5, <1>6, <2>1
<1>9. ASSUME NEW b \in Batches, NEW i \in 1 .. Len(input'[b])
      PROVE  \/ i \in 1 .. Len(input[b]) /\ input'[b][i] = input[b][i]
             \/ b = Top /\ input'[b][i] = next
  <2>1. CASE b = Top
    <3>1. i \in 1 .. Len(q) \/ i = Len(q) + 1
      BY <1>5, <1>6, <1>9, <2>1
    <3> QED
      BY <1>1, <1>5, <1>6, <2>1, <3>1
  <2>2. CASE b # Top
    BY <1>6, <2>2
  <2> QED
    BY <2>1, <2>2
<1>10. ASSUME NEW l \in w + 1 .. next' - 1
       PROVE  \E b \in Batches : Pending(b)' /\ Holds(b, l)'
  <2>1. CASE l = next
    <3>1. Pending(Top)
      BY <1>0 DEF Pending
    <3>2. Len(q) + 1 \in 1 .. Len(r)
      BY <1>5
    <3>4. \E i \in 1 .. Len(input'[Top]) : input'[Top][i] = l
      BY <1>5, <1>6, <2>1, <3>2
    <3>5. PICK t \in Batches : t = Top
      BY <1>0
    <3>6. Pending(t)' /\ Holds(t, l)'
      BY <1>0, <1>7, <3>1, <3>4, <3>5 DEF Holds
    <3> QED
      BY <3>6
  <2>2. CASE l # next
    <3>1. l \in w + 1 .. next - 1
      BY <1>2, <1>3, <2>2
    <3>2. PICK b \in Batches : Pending(b) /\ Holds(b, l)
      BY <3>1 DEF Through
    <3>3. Holds(b, l)'
      BY <1>8, <3>2 DEF Holds
    <3> QED
      BY <1>7, <3>2, <3>3
  <2> QED
    BY <2>1, <2>2
<1>11. ASSUME NEW b \in Batches, Pending(b)', NEW i \in 1 .. Len(input'[b])
       PROVE  input'[b][i] \in w + 1 .. next' - 1
  <2>1. CASE i \in 1 .. Len(input[b]) /\ input'[b][i] = input[b][i]
    <3>1. input[b][i] \in w + 1 .. next - 1
      BY <1>7, <1>11, <2>1 DEF Through
    <3> QED
      BY <1>2, <1>3, <2>1, <3>1
  <2>2. CASE input'[b][i] = next
    BY <1>2, <1>3, <2>2
  <2> QED
    BY <1>9, <2>1, <2>2
<1>12. ASSUME NEW b \in Batches, NEW c \in Batches, Pending(b)', Pending(c)', number'[b] < number'[c],
              NEW i \in 1 .. Len(input'[b]), NEW j \in 1 .. Len(input'[c])
       PROVE  input'[b][i] < input'[c][j]
  <2>0. Pending(b) /\ Pending(c) /\ number[b] < number[c]
    BY <1>2, <1>7, <1>12
  <2>1. b # Top
    <3>1. CASE UnderWay(c)
      <4>1. number[c] \in base_sequence .. Limit - 1 /\ number[Top] = Limit /\ Limit \in Nat /\ base_sequence \in Nat
        BY <1>0, <3>1, LimitType DEF IInv, Numbers
      <4> QED
        BY <2>0, <4>1
    <3>2. CASE ~UnderWay(c)
      <4>1. c = Top /\ number[c] \in Nat
        BY <2>0, <3>2, LimitType DEF Pending, IInv
      <4> QED
        BY <2>0, <4>1
    <3> QED
      BY <3>1, <3>2
  <2>2. i \in 1 .. Len(input[b]) /\ input'[b][i] = input[b][i]
    BY <1>9, <2>1
  <2>3. CASE j \in 1 .. Len(input[c]) /\ input'[c][j] = input[c][j]
    BY <2>0, <2>2, <2>3 DEF Through
  <2>4. CASE input'[c][j] = next
    <3>1. input[b][i] \in w + 1 .. next - 1
      BY <2>0, <2>2 DEF Through
    <3> QED
      BY <1>3, <2>2, <2>4, <3>1
  <2> QED
    BY <1>9, <2>3, <2>4
<1>13. output' = ExpectedTo(w)'
  BY <1>2, SameScript DEF Through
<1>14. w \in 0 .. next' - 1
  BY <1>2, <1>3
<1> QED
  BY <1>10, <1>11, <1>12, <1>13, <1>14 DEF Through

\* The top batch has no lines when it is not flushed.
LEMMA ThroughFlushEmpty ==
  ASSUME IInv, Filled, FlushInputEmpty, NEW w, Through(w)
  PROVE  Through(w)'
<1>1. /\ UNCHANGED <<script, condition, next, input, number, output, local_read, to_read, ordering, writer>>
      /\ input[Top] = << >> /\ Filling /\ ~Filling'
  BY DEF FlushInputEmpty, writerVars, Filling, IInv, BatchTypes
<1>2. /\ \A b \in Batches : Pending(b)' => Pending(b)
      /\ \A b \in Batches : Pending(b) => Pending(b)' \/ b = Top
  BY <1>1 DEF Pending, UnderWay
<1>3. ExpectedTo(w)' = ExpectedTo(w) /\ \A b, l : Holds(b, l)' <=> Holds(b, l)
  BY <1>1, SameScript DEF Holds
<1>4. \A l : ~Holds(Top, l)
  <2>1. Len(<< >>) = 0 /\ 1 .. 0 = {}
    OBVIOUS
  <2> QED
    BY <1>1, <2>1 DEF Holds
<1>5. \A l \in w + 1 .. next - 1 : \E b \in Batches : Pending(b)' /\ Holds(b, l)'
  BY <1>2, <1>3, <1>4 DEF Through
<1> QED
  BY <1>1, <1>2, <1>3, <1>5 DEF Through

\* Nor has it when it is new.
LEMMA ThroughNew ==
  ASSUME IInv, Filled, StartInput \/ CollectDone, NEW w, Through(w)
  PROVE  Through(w)'
<1>1. /\ local_read # << >> /\ Top \in Batches /\ Top' = Top /\ ~Filling /\ Filling'
      /\ input'[Top] = << >> /\ number'[Top] = sequence
      /\ \A b \in Batches : b # Top => input'[b] = input[b] /\ number'[b] = number[b]
      /\ UNCHANGED <<script, condition, next, local_read, to_read, writer, ordering, output>>
  BY FilledNew
<1>2. ~UnderWay(Top)
  BY <1>1, HeldTop
<1>3. \A b \in Batches : Pending(b)' <=> Pending(b) \/ b = Top
  BY <1>1 DEF Pending, UnderWay
<1>4. ~Pending(Top)
  BY <1>1, <1>2 DEF Pending
<1>5. 1 .. Len(input'[Top]) = {}
  <2>1. Len(<< >>) = 0 /\ 1 .. 0 = {}
    OBVIOUS
  <2> QED
    BY <1>1, <2>1
<1>6. ExpectedTo(w)' = ExpectedTo(w)
  BY <1>1, SameScript
<1>7. \A b \in Batches : b # Top => \A l : Holds(b, l)' <=> Holds(b, l)
  BY <1>1 DEF Holds
<1>8. \A l \in w + 1 .. next - 1 : \E b \in Batches : Pending(b)' /\ Holds(b, l)'
  BY <1>3, <1>4, <1>7 DEF Through
<1>9. ASSUME NEW b \in Batches, Pending(b)', NEW i \in 1 .. Len(input'[b])
      PROVE  input'[b][i] \in w + 1 .. next - 1
  BY <1>1, <1>3, <1>5, <1>9 DEF Through
<1>10. ASSUME NEW b \in Batches, NEW c \in Batches, Pending(b)', Pending(c)', number'[b] < number'[c],
              NEW i \in 1 .. Len(input'[b]), NEW j \in 1 .. Len(input'[c])
       PROVE  input'[b][i] < input'[c][j]
  <2>1. b # Top /\ c # Top
    BY <1>5
  <2> QED
    BY <1>1, <1>3, <1>10, <2>1 DEF Through
<1> QED
  BY <1>1, <1>6, <1>8, <1>9, <1>10 DEF Through

\* The main thread writes when everything before is written.
LEMMA ThroughEnd ==
  ASSUME IInv, Reading, Filled, EndLength, NEW w \in 0 .. next - 1, Through(w)
  PROVE  \E v \in 0 .. next' - 1 : Through(v)'
<1>1. /\ UNCHANGED <<script, condition, input, number, local_read, to_read, ordering, writer>>
      /\ next' = next + 1 /\ output' = Append(output, [line |-> next, systems |-> {}])
      /\ Filling /\ Filling' /\ main = "end_length"
  BY DEF EndLength, writerVars, Filling
<1>2. Len(local_read) = QueueSize /\ input[Top] = << >> /\ script[next] = << >> /\ next <= Len(script)
  BY <1>1 DEF IInv, Phases, Filled, Reading, Ending
<1>3. KnownInput /\ Len(script) \in Nat /\ next \in 1 .. Len(script) /\ next - 1 \in 0 .. Len(script)
  <2>1. KnownInput /\ Len(script) \in Nat
    BY ScriptType DEF Reading, KnownInput
  <2> QED
    BY <1>2, <2>1 DEF Reading
<1>4. \A b \in Batches : Pending(b)' <=> Pending(b)
  BY <1>1 DEF Pending, UnderWay, Top
<1>5. ASSUME NEW b \in Batches, Pending(b) PROVE 1 .. Len(input[b]) = {}
  <2>1. ~UnderWay(b)
    BY <1>2, AllHome DEF UnderWay
  <2>2. input[b] = << >> /\ Len(<< >>) = 0 /\ 1 .. 0 = {}
    BY <1>2, <1>5, <2>1 DEF Pending
  <2> QED
    BY <2>2
<1>6. w = next - 1
  <2> SUFFICES ASSUME w # next - 1 PROVE FALSE
    OBVIOUS
  <2>1. next - 1 \in w + 1 .. next - 1
    BY <1>3
  <2>2. PICK b \in Batches : Pending(b) /\ Holds(b, next - 1)
    BY <2>1 DEF Through
  <2> QED
    BY <1>5, <2>2 DEF Holds
<1>7. PICK e : e = [line |-> next, systems |-> {}]
  OBVIOUS
<1>8. ExpectedOf(next) = <<e>> /\ e \in Line
  BY <1>2, <1>3, <1>7 DEF ExpectedOf, Passes, Where, Line
<1>9. PICK t \in Seq(Line) : t = output /\ t = ExpectedTo(next - 1)
  BY <1>3, <1>6, ExpectedSteps DEF Through
<1>10. Append(t, e) = t \o <<e>>
  BY <1>8, AppendIsConcat
<1>11. output' = ExpectedTo(next)
  BY <1>1, <1>3, <1>7, <1>8, <1>9, <1>10, ExpectedSteps
<1> QED
  <2>1. PICK v \in 0 .. next' - 1 : v = next
    BY <1>1, <1>3
  <2>2. output' = ExpectedTo(v)'
    <3>1. ExpectedTo(v)' = ExpectedTo(v)
      BY <1>1, SameScript
    <3> QED
      BY <1>11, <2>1, <3>1
  <2>3. v + 1 .. next' - 1 = {}
    BY <1>1, <1>3, <2>1
  <2>4. \A b \in Batches : Pending(b)' => 1 .. Len(input'[b]) = {}
    BY <1>1, <1>4, <1>5
  <2>5. Through(v)'
    BY <2>2, <2>3, <2>4 DEF Through
  <2> QED
    BY <2>5

\* The lines of a batch follow each other, so the filter makes what is expected of them.
LEMMA BatchShows ==
  ASSUME OneOutput, Reading, Filled, NEW b \in Batches
  PROVE  \E a \in Nat : Shows(FilterLines(EmptyBuffer, input[b]), input[b], a, Len(input[b]))
<1>1. KnownInput /\ Len(script) \in Nat
  BY ScriptType DEF Reading, KnownInput
<1>2. PICK q \in Seq(1 .. Len(script)) : q = input[b]
  BY DEF Filled
<1>3. \A i \in 1 .. Len(q) : q[i] = q[1] + (i - 1) /\ script[q[i]] # << >> /\ q[i] \in 1 .. Len(script)
  BY <1>2 DEF Filled
<1>4. CASE Len(q) = 0
  <2>1. 0 \in Nat /\ 0 <= Len(script) /\ \A i \in 1 .. Len(q) : q[i] = 0 + i /\ script[q[i]] # << >>
    BY <1>1, <1>4
  <2>2. Shows(FilterLines(EmptyBuffer, q), q, 0, Len(q))
    BY <1>1, <2>1, ShowsAll
  <2> QED
    BY <1>2, <2>2
<1>5. CASE Len(q) # 0
  <2>1. 1 \in 1 .. Len(q)
    BY <1>5
  <2>2. q[1] \in 1 .. Len(script)
    BY <1>3, <2>1
  <2>3. PICK a \in Nat : a = q[1] - 1
    BY <2>2
  <2>4. a <= Len(script) /\ q[1] = a + 1
    BY <1>1, <2>2, <2>3
  <2>5. \A i \in 1 .. Len(q) : q[i] = a + i /\ script[q[i]] # << >>
    BY <1>3, <2>2, <2>4
  <2>6. Shows(FilterLines(EmptyBuffer, q), q, a, Len(q))
    BY <1>1, <2>4, <2>5, ShowsAll
  <2> QED
    BY <1>2, <2>6
<1> QED
  BY <1>4, <1>5

\* The output worker writes the lines that come next.
LEMMA ThroughFlush ==
  ASSUME OneOutput, IInv, Reading, Filled, Keeps, WriterFlush, NEW w \in 0 .. next - 1, Through(w)
  PROVE  \E v \in 0 .. next' - 1 : Through(v)'
<1>1. KnownInput /\ Len(script) \in Nat /\ next \in Nat
  BY ScriptType DEF Reading, KnownInput
<1>2. PICK x \in Batches : /\ x = Head(ordering) /\ UnderWay(x) /\ Copies(ordering, x) # 0
                           /\ number[x] = base_sequence
  BY FrontBatch DEF WriterFlush
<1>3. /\ UNCHANGED <<script, condition, next, input, number, local_read, to_read, ordering, main>>
      /\ writer = "assemble" /\ writer' = "return"
      /\ output' = output \o [i \in DOMAIN kept[x].lines |->
                                [line |-> input[x][kept[x].lines[i].place],
                                 systems |-> kept[x].lines[i].systems]]
  BY <1>2 DEF WriterFlush, mainVars
<1>4. PICK q \in Seq(1 .. Len(script)) : q = input[x]
  BY DEF Filled
<1>5. Pending(x) /\ Filtered(x)
  BY <1>2, <1>3 DEF Pending, Filtered
<1>6. \A i \in 1 .. Len(q) : /\ q[i] = q[1] + (i - 1) /\ script[q[i]] # << >> /\ q[i] \in w + 1 .. next - 1
                             /\ q[i] \in 1 .. Len(script)
  BY <1>4, <1>5 DEF Filled, Through
<1>7. ASSUME NEW c \in Batches, Pending(c), c # x PROVE number[x] < number[c]
  <2>1. number[x] \in base_sequence .. Limit - 1 /\ Limit \in Nat /\ base_sequence \in Nat
    BY <1>2, LimitType DEF IInv, Numbers
  <2>2. CASE UnderWay(c)
    <3>1. number[c] \in base_sequence .. Limit - 1 /\ number[c] # number[x]
      BY <1>2, <1>7, <2>2 DEF IInv, Numbers
    <3> QED
      BY <1>2, <2>1, <3>1
  <2>3. CASE ~UnderWay(c)
    <3>1. number[c] = Limit
      BY <1>7, <2>3 DEF Pending, IInv, Numbers
    <3> QED
      BY <2>1, <3>1
  <2> QED
    BY <2>2, <2>3
<1>8. ASSUME NEW c \in Batches, Pending(c), c # x, NEW i \in 1 .. Len(q), NEW j \in 1 .. Len(input[c])
      PROVE  q[i] < input[c][j]
  BY <1>4, <1>5, <1>7, <1>8 DEF Through
<1>9. \A i \in 1 .. Len(q) : q[i] = w + i
  <2>1. CASE Len(q) = 0
    BY <2>1
  <2>2. CASE Len(q) # 0
    <3>1. 1 \in 1 .. Len(q) /\ q[1] \in w + 1 .. next - 1
      BY <1>6, <2>2
    <3>2. w + 1 \in w + 1 .. next - 1
      BY <1>1, <3>1
    <3>3. PICK c \in Batches : Pending(c) /\ Holds(c, w + 1)
      BY <3>2 DEF Through
    <3>4. PICK j \in 1 .. Len(input[c]) : input[c][j] = w + 1
      BY <3>3 DEF Holds
    <3>5. c = x
      <4> SUFFICES ASSUME c # x PROVE FALSE
        OBVIOUS
      <4>1. q[1] < w + 1
        BY <1>8, <3>1, <3>3, <3>4
      <4> QED
        BY <3>1, <4>1
    <3>6. j \in 1 .. Len(q) /\ q[j] = w + 1 /\ q[j] = q[1] + (j - 1)
      BY <1>4, <1>6, <3>4, <3>5
    <3>7. q[1] = w + 1
      BY <3>1, <3>6
    <3> QED
      BY <1>6, <3>7
  <2> QED
    BY <2>1, <2>2
<1>10. PICK n \in Nat : n = Len(q)
  OBVIOUS
<1>11. w \in Nat /\ w <= Len(script)
  <2>1. next \in 1 .. Len(script) + 1
    BY DEF Reading
  <2> QED
    BY <1>1, <2>1
<1>12. Shows(FilterLines(EmptyBuffer, q), q, w, n)
  BY <1>1, <1>6, <1>9, <1>10, <1>11, ShowsAll
<1>13. kept[x] = FilterLines(EmptyBuffer, q)
  BY <1>4, <1>5 DEF Keeps
<1>14. ExpectedTo(w + n) = ExpectedTo(w) \o LinesOf(q, kept[x].lines)
  BY <1>12, <1>13 DEF Shows
<1>15. output' = output \o LinesOf(q, kept[x].lines)
  BY <1>3, <1>4 DEF LinesOf
<1>16. output' = ExpectedTo(w + n)
  BY <1>14, <1>15 DEF Through
<1>17. PICK v \in 0 .. next - 1 : v = w + n
  <2>1. CASE n = 0
    BY <1>11, <2>1
  <2>2. CASE n # 0
    <3>1. n \in 1 .. Len(q)
      BY <1>10, <2>2
    <3>2. q[n] \in w + 1 .. next - 1 /\ q[n] = w + n
      BY <1>6, <1>9, <3>1
    <3> QED
      BY <1>1, <1>11, <3>2
  <2> QED
    BY <2>1, <2>2
<1>18. output' = ExpectedTo(v)'
  BY <1>3, <1>16, <1>17, SameScript
<1>19. ASSUME NEW b \in Batches PROVE Pending(b)' <=> Pending(b) /\ b # x
  <2>1. b = Top => ~(Filling /\ b = x)
    <3>1. Filling => local_read # << >>
      BY DEF IInv, Phases
    <3> QED
      BY <1>2, <3>1, HeldTop
  <2> QED
    BY <1>2, <1>3, <2>1 DEF Pending, UnderWay, Filling, Top
<1>20. ASSUME NEW l \in v + 1 .. next - 1 PROVE \E b \in Batches : Pending(b)' /\ Holds(b, l)'
  <2>1. l \in w + 1 .. next - 1 /\ l > w + n
    BY <1>1, <1>11, <1>17
  <2>2. PICK b \in Batches : Pending(b) /\ Holds(b, l)
    BY <2>1 DEF Through
  <2>3. b # x
    <3> SUFFICES ASSUME b = x PROVE FALSE
      OBVIOUS
    <3>1. PICK i \in 1 .. Len(q) : q[i] = l
      BY <1>4, <2>2 DEF Holds
    <3>2. l = w + i
      BY <1>9, <3>1
    <3> QED
      BY <1>10, <1>11, <2>1, <3>2
  <2>4. Holds(b, l)'
    BY <1>3, <2>2 DEF Holds
  <2> QED
    BY <1>19, <2>2, <2>3, <2>4
<1>21. ASSUME NEW b \in Batches, Pending(b)', NEW i \in 1 .. Len(input[b])
       PROVE  input[b][i] \in v + 1 .. next - 1
  <2>1. Pending(b) /\ b # x /\ input[b][i] \in w + 1 .. next - 1
    BY <1>19, <1>21 DEF Through
  <2>2. CASE n = 0
    BY <1>11, <1>17, <2>1, <2>2
  <2>3. CASE n # 0
    <3>1. n \in 1 .. Len(q)
      BY <1>10, <2>3
    <3>2. q[n] = w + n /\ q[n] < input[b][i]
      BY <1>8, <1>9, <2>1, <3>1
    <3> QED
      BY <1>1, <1>11, <1>17, <2>1, <3>2
  <2> QED
    BY <2>2, <2>3
<1>22. Through(v)'
  BY <1>3, <1>18, <1>19, <1>20, <1>21 DEF Through
<1> QED
  BY <1>3, <1>17, <1>22

-----------------------------------------------------------------------------
(* What the output buffers have                                            *)

\* A worker that calls the filter has a batch that nobody has filtered.
LEMMA ToBeFiltered ==
  ASSUME IInv, NEW f \in Filters, filter[f].at = "call_filter"
  PROVE  filter[f].batch \in Batches /\ ~Filtered(filter[f].batch)
<1>1. PICK x \in Batches : x = filter[f].batch
  BY DEF IInv, Phases
<1> DEFINE P == {g \in Filters : filter[g].batch = x}
<1>2. With(x) # 0
  BY <1>1, WithType
<1>3. Copies(to_output, x) = 0 /\ Copies(ordering, x) = 0 /\ With(x) = 1
  BY <1>2, OneHolder
<1>4. IsFiniteSet(P)
  BY FiltersAssumption, FS_Subset
<1>5. Cardinality(P) = 1 /\ f \in P
  BY <1>1, <1>3 DEF With
<1> HIDE DEF P
<1>6. \A g \in P : g = f
  BY <1>4, <1>5, FS_Singleton
<1>7. \A g \in Filters : filter[g].batch = x => g = f
  BY <1>6 DEF P
<1> QED
  BY <1>1, <1>3, <1>7 DEF Filtered

\* The filter is called on one batch, which it makes filtered.
LEMMA FilteredCall ==
  ASSUME IInv, NEW f \in Filters, CallFilter(f), NEW b \in Batches
  PROVE  Filtered(b)' <=> Filtered(b) \/ b = filter[f].batch
<1>1. /\ UNCHANGED <<to_output, ordering, writer>> /\ filter[f].at = "call_filter"
      /\ filter' = [filter EXCEPT ![f].at = "produce"]
  BY DEF CallFilter, writerVars
<1>2. filter \in [Filters -> [at : {"consume", "call_filter", "produce", "exit"}, batch : Requests]]
  BY DEF IInv, BatchTypes
<1>3. /\ filter'[f].at = "produce" /\ filter'[f].batch = filter[f].batch
      /\ \A g \in Filters : g # f => filter'[g] = filter[g]
  BY <1>1, <1>2
<1> QED
  BY <1>1, <1>3 DEF Filtered

\* The batch written counts as filtered no longer.
LEMMA FilteredFlush ==
  ASSUME IInv, WriterFlush, NEW b \in Batches
  PROVE  Filtered(b)' <=> Filtered(b) /\ b # Head(ordering)
<1>1. UNCHANGED <<to_output, ordering, filter>> /\ writer = "assemble" /\ writer' = "return"
  BY DEF WriterFlush
<1>2. PICK x \in Batches : x = Head(ordering) /\ Copies(ordering, x) # 0
  BY FrontBatch DEF WriterFlush
<1>3. Copies(to_output, x) = 0 /\ \A f \in Filters : filter[f].batch # x
  BY <1>2, OneHolder, WithType
<1> QED
  BY <1>1, <1>2, <1>3 DEF Filtered

\* No other step filters or writes.
LEMMA FilteredElse ==
  ASSUME IInv, [Next]_vars, NEW b \in Batches
  PROVE  \/ Filtered(b)' <=> Filtered(b)
         \/ WriterFlush
         \/ \E f \in Filters : CallFilter(f)
<1>0. BatchTypes /\ Phases
  BY DEF IInv
<1>1. /\ Copies(to_output, b) \in Nat /\ Copies(ordering, b) \in Nat
      /\ to_output \in Seq(Requests) /\ ordering \in Seq(Requests)
      /\ filter \in [Filters -> [at : {"consume", "call_filter", "produce", "exit"}, batch : Requests]]
  BY <1>0, CountTypes DEF BatchTypes
<1>2. ASSUME UNCHANGED <<to_output, ordering, filter, writer>>
      PROVE  Filtered(b)' <=> Filtered(b)
  BY <1>2 DEF Filtered
<1>3. CASE JoinFilters
  <2>1. to_output' = Append(to_output, Null) /\ UNCHANGED <<ordering, filter, writer>>
    BY <1>3 DEF JoinFilters, filterVars, writerVars
  <2>2. Copies(to_output', b) = Copies(to_output, b)
    BY <1>1, <2>1, NullIsNone
  <2> QED
    BY <2>1, <2>2 DEF Filtered
<1>4. ASSUME NEW f \in Filters, FilterConsume(f)
      PROVE  Filtered(b)' <=> Filtered(b)
  <2>1. /\ UNCHANGED <<to_output, ordering, writer>> /\ filter[f].at = "consume"
        /\ filter'[f].at \in {"exit", "call_filter"}
        /\ \A g \in Filters : g # f => filter'[g] = filter[g]
    BY <1>1, <1>4 DEF FilterConsume, writerVars
  <2> QED
    BY <2>1 DEF Filtered
<1>5. ASSUME NEW f \in Filters, FilterProduce(f)
      PROVE  Filtered(b)' <=> Filtered(b)
  <2>1. /\ UNCHANGED <<ordering, writer>> /\ filter[f].at = "produce" /\ filter'[f].at = "consume"
        /\ \A g \in Filters : g # f => filter'[g] = filter[g]
        /\ to_output' = Append(to_output, filter[f].batch)
    BY <1>1, <1>5 DEF FilterProduce, writerVars
  <2>2. PICK x \in Requests : x = filter[f].batch
    BY <1>1
  <2>3. Copies(to_output', b) = Copies(to_output, b) + (IF x = b THEN 1 ELSE 0)
    BY <1>1, <2>1, <2>2, CopiesAppend
  <2>4. CASE x = b
    <3>1. Copies(to_output', b) # 0
      BY <1>1, <2>3, <2>4
    <3> QED
      BY <2>1, <2>2, <2>4, <3>1 DEF Filtered
  <2>5. CASE x # b
    <3>1. Copies(to_output', b) = Copies(to_output, b)
      BY <1>1, <2>3, <2>5
    <3> QED
      BY <2>1, <2>2, <2>5, <3>1 DEF Filtered
  <2> QED
    BY <2>4, <2>5
<1>6. CASE WriterConsume
  <2>1. /\ UNCHANGED filter /\ to_output # << >> /\ to_output' = Tail(to_output)
        /\ writer = "consume" /\ writer' \in {"exit", "assemble"}
    BY <1>6 DEF WriterConsume, filterVars
  <2>2. Copies(to_output, b) = Copies(to_output', b) + (IF Head(to_output) = b THEN 1 ELSE 0)
    BY <1>1, <2>1, CopiesTail
  <2>3. Copies(to_output', b) \in Nat
    <3>1. to_output' \in Seq(Requests)
      BY <1>6, TypesWriterConsume DEF BatchTypes
    <3> QED
      BY <3>1, CopiesType
  <2>4. Copies(ordering', b) = Copies(ordering, b) + (IF Head(to_output) = b THEN 1 ELSE 0)
    <3>1. CASE Head(to_output) = Null
      <4>1. ordering' = ordering /\ Head(to_output) # b
        BY <1>6, <3>1, BatchesAssumption, TypesWriterConsume
      <4> QED
        BY <1>1, <4>1
    <3>2. CASE Head(to_output) # Null
      BY <1>6, <3>2, CopiesPlaced
    <3> QED
      BY <3>1, <3>2
  <2>5. Copies(to_output, b) # 0 \/ Copies(ordering, b) # 0 <=> Copies(to_output', b) # 0 \/ Copies(ordering', b) # 0
    BY <1>1, <2>2, <2>3, <2>4
  <2> QED
    BY <2>1, <2>5 DEF Filtered
<1>7. CASE WriterReturn
  <2>1. /\ UNCHANGED <<to_output, filter>> /\ writer = "return" /\ writer' = "assemble"
        /\ ordering # << >> /\ ordering' = Tail(ordering)
    BY <1>0, <1>7, TypesWriterReturn DEF WriterReturn
  <2>2. Copies(ordering, b) = Copies(ordering', b) + (IF Head(ordering) = b THEN 1 ELSE 0)
    BY <1>1, <2>1, CopiesTail
  <2>3. Copies(ordering', b) \in Nat
    <3>1. ordering' \in Seq(Requests)
      BY <1>0, <1>7, TypesWriterReturn DEF BatchTypes
    <3> QED
      BY <3>1, CopiesType
  <2>4. Copies(ordering, b) # 0 => Copies(ordering, b) = 1
    BY OneHolder
  <2>5. Copies(ordering', b) # 0 <=> Copies(ordering, b) # 0 /\ Head(ordering) # b
    BY <1>1, <2>2, <2>3, <2>4
  <2> QED
    BY <2>1, <2>5 DEF Filtered
<1>8. CASE WriterPause
  <2>1. UNCHANGED <<to_output, ordering, filter>> /\ writer = "assemble" /\ writer' = "consume"
    BY <1>8 DEF WriterPause, filterVars
  <2> QED
    BY <2>1 DEF Filtered
<1>9. CASE \/ ReadNGram \/ ReadEnd \/ FlushInputEmpty \/ FlushInput \/ MoveRead \/ StartInput
           \/ Collect \/ CollectDone \/ EndLength \/ EndOfInput \/ PoisonFilter \/ JoinWriter
           \/ UNCHANGED vars
  <2>1. UNCHANGED <<to_output, ordering, filter, writer>>
    BY <1>9 DEF ReadNGram, ReadEnd, FlushInputEmpty, FlushInput, MoveRead, StartInput, Collect,
       CollectDone, EndLength, EndOfInput, PoisonFilter, JoinWriter, vars, filterVars, writerVars
  <2> QED
    BY <1>2, <2>1
<1> QED
  BY <1>3, <1>4, <1>5, <1>6, <1>7, <1>8, <1>9 DEF Next, MainStep, FilterStep, WriterStep, Finished

\* What an output buffer has.
KeptOf(b) == IF Filtered(b) THEN FilterLines(EmptyBuffer, input[b]) ELSE EmptyBuffer

\* A filtered batch is not refilled.
LEMMA FilteredStays ==
  ASSUME IInv, InputOfEach, [Next]_vars, NEW b \in Batches, Filtered(b)
  PROVE  input'[b] = input[b]
<1> SUFFICES ASSUME input'[b] # input[b] PROVE FALSE
  OBVIOUS
<1>1. local_read # << >> /\ b = Top
  BY WrittenOf
<1>2. Copies(to_output, b) = 0 /\ Copies(ordering, b) = 0 /\ With(b) = 0
  BY <1>1, HeldTop
<1> QED
  BY <1>2, WithType DEF Filtered

\* The filter and the output worker are the only ones to change output buffers.
LEMMA KeptSame ==
  ASSUME [Next]_vars
  PROVE  \/ kept' = kept /\ UNCHANGED <<script, condition>>
         \/ WriterFlush
         \/ \E f \in Filters : CallFilter(f)
BY DEF Next, MainStep, FilterStep, WriterStep, Finished, ReadNGram, ReadEnd, FlushInputEmpty,
   FlushInput, MoveRead, StartInput, Collect, CollectDone, EndLength, EndOfInput,
   PoisonFilter, JoinFilters, JoinWriter, FilterConsume, FilterProduce, WriterConsume,
   WriterReturn, WriterPause, vars, mainVars, filterVars, writerVars

\* An output buffer that has been filled is one of these.
LEMMA KeptBuffer ==
  ASSUME OneOutput, Reading, Filled, NEW b \in Batches
  PROVE  FilterLines(EmptyBuffer, input[b]) \in Buffers
BY BatchShows DEF Shows

\* An output buffer that has been written is as it was at first.
LEMMA Emptied ==
  ASSUME NEW buffer \in Buffers
  PROVE  [buffer EXCEPT !.lines = << >>] = EmptyBuffer
<1>1. PICK c : c = [buffer EXCEPT !.lines = << >>]
  OBVIOUS
<1>2. << >> \in Seq([place : Nat, systems : SUBSET Systems])
  OBVIOUS
<1>3. c \in Buffers
  BY <1>1, <1>2 DEF Buffers
<1>4. c.lines = << >>
  BY <1>1 DEF Buffers
<1>5. c.last = 0 /\ c.undefined = FALSE
  BY <1>3 DEF Buffers
<1>6. c = [lines |-> c.lines, last |-> c.last, undefined |-> c.undefined]
  BY <1>3 DEF Buffers
<1> QED
  BY <1>1, <1>4, <1>5, <1>6 DEF EmptyBuffer

\* The output buffers keep their promises.
LEMMA KeepsStep ==
  ASSUME OneOutput, IInv, InputOfEach, Reading, Filled, Keeps, [Next]_vars
  PROVE  Keeps'
<1>1. kept = [b \in Batches |-> KeptOf(b)]
  BY DEF Keeps, KeptOf
<1>2. UNCHANGED <<script, condition>>
  BY KeptSame DEF WriterFlush, CallFilter, mainVars
<1>3. \A buffer, lines : FilterLines(buffer, lines)' = FilterLines(buffer, lines)
  BY <1>2, SameScript
<1>4. ASSUME NEW b \in Batches, Filtered(b), Filtered(b)' PROVE KeptOf(b)' = KeptOf(b)
  <2>1. input'[b] = input[b]
    BY <1>4, FilteredStays
  <2>2. FilterLines(EmptyBuffer, input[b])' = FilterLines(EmptyBuffer, input[b])
    BY <1>2, <2>1 DEF FilterLines, FilterLine, SingleAddNGram, SameLine, AddNGram, EmptyBuffer
  <2> QED
    BY <1>4, <2>2 DEF KeptOf
<1>5. ASSUME NEW b \in Batches, ~Filtered(b), ~Filtered(b)' PROVE KeptOf(b)' = KeptOf(b)
  BY <1>5 DEF KeptOf, EmptyBuffer
<1>6. CASE WriterFlush
  <2>1. PICK x \in Batches : x = Head(ordering) /\ Copies(ordering, x) # 0
    BY <1>6, FrontBatch DEF WriterFlush
  <2>2. kept' = [kept EXCEPT ![x].lines = << >>] /\ writer = "assemble"
    BY <1>6, <2>1 DEF WriterFlush
  <2>3. Filtered(x)
    BY <2>1, <2>2 DEF Filtered
  <2>4. kept[x] \in Buffers
    BY <1>1, <2>3, KeptBuffer DEF KeptOf
  <2>5. \A b \in Batches : Filtered(b)' <=> Filtered(b) /\ b # x
    BY <1>6, <2>1, FilteredFlush
  <2>6. KeptOf(x)' = EmptyBuffer
    BY <2>5 DEF KeptOf, EmptyBuffer
  <2>7. kept' = [b \in Batches |-> IF b = x THEN [kept[x] EXCEPT !.lines = << >>] ELSE kept[b]]
    BY <1>1, <2>2
  <2>8. ASSUME NEW b \in Batches PROVE kept'[b] = KeptOf(b)'
    <3>1. CASE b = x
      BY <2>4, <2>6, <2>7, <3>1, Emptied
    <3>2. CASE b # x
      <4>1. KeptOf(b)' = KeptOf(b)
        BY <1>4, <1>5, <2>5, <3>2
      <4> QED
        BY <1>1, <2>7, <3>2, <4>1
    <3> QED
      BY <3>1, <3>2
  <2>9. kept' = [b \in Batches |-> kept'[b]]
    BY <2>7
  <2>10. kept' = [b \in Batches |-> KeptOf(b)']
    BY <2>8, <2>9
  <2> QED
    BY <2>10 DEF Keeps, KeptOf
<1>7. ASSUME NEW f \in Filters, CallFilter(f) PROVE Keeps'
  <2>1. PICK x \in Batches : x = filter[f].batch /\ ~Filtered(x)
    BY <1>7, ToBeFiltered DEF CallFilter
  <2>2. kept' = [kept EXCEPT ![x] = FilterLines(@, input[x])] /\ UNCHANGED input
    BY <1>7, <2>1 DEF CallFilter
  <2>3. kept[x] = EmptyBuffer
    BY <1>1, <2>1 DEF KeptOf
  <2>4. kept' = [b \in Batches |-> IF b = x THEN FilterLines(kept[x], input[x]) ELSE kept[b]]
    BY <1>1, <2>2
  <2>5. \A b \in Batches : Filtered(b)' <=> Filtered(b) \/ b = x
    BY <1>7, <2>1, FilteredCall
  <2>6. KeptOf(x)' = FilterLines(EmptyBuffer, input[x])
    <3>1. input'[x] = input[x]
      BY <2>2
    <3>2. FilterLines(EmptyBuffer, input[x])' = FilterLines(EmptyBuffer, input[x])
      BY <1>2, <3>1 DEF FilterLines, FilterLine, SingleAddNGram, SameLine, AddNGram, EmptyBuffer
    <3> QED
      BY <2>5, <3>2 DEF KeptOf
  <2>7. ASSUME NEW b \in Batches PROVE kept'[b] = KeptOf(b)'
    <3>1. CASE b = x
      BY <2>3, <2>4, <2>6, <3>1
    <3>2. CASE b # x
      <4>1. KeptOf(b)' = KeptOf(b)
        BY <1>4, <1>5, <2>5, <3>2
      <4> QED
        BY <1>1, <2>4, <3>2, <4>1
    <3> QED
      BY <3>1, <3>2
  <2>8. kept' = [b \in Batches |-> kept'[b]]
    BY <2>4
  <2>9. kept' = [b \in Batches |-> KeptOf(b)']
    BY <2>7, <2>8
  <2> QED
    BY <2>9 DEF Keeps, KeptOf
<1>8. ASSUME ~WriterFlush, \A f \in Filters : ~CallFilter(f) PROVE Keeps'
  <2>1. kept' = kept /\ \A b \in Batches : Filtered(b)' <=> Filtered(b)
    BY <1>8, KeptSame, FilteredElse
  <2>2. \A b \in Batches : KeptOf(b)' = KeptOf(b)
    BY <1>4, <1>5, <2>1
  <2>3. kept' = [b \in Batches |-> KeptOf(b)']
    BY <1>1, <2>1, <2>2
  <2> QED
    BY <2>3 DEF Keeps, KeptOf
<1> QED
  BY <1>6, <1>7, <1>8

\* The filter keeps main well behaved.
LEMMA TameStep ==
  ASSUME OneOutput, IInv, Reading, Filled, Keeps, [Next]_vars
  PROVE  Tame
<1>1. main # "undefined" /\ after # "undefined"
  BY DEF Reading, IInv, BatchTypes
<1>2. ASSUME NEW f \in Filters, CallFilter(f) PROVE main' # "undefined"
  <2>1. PICK x \in Batches : x = filter[f].batch /\ ~Filtered(x)
    BY <1>2, ToBeFiltered DEF CallFilter
  <2>2. kept' = [kept EXCEPT ![x] = FilterLines(@, input[x])]
    BY <1>2, <2>1 DEF CallFilter
  <2>3. kept'[x] = FilterLines(EmptyBuffer, input[x])
    BY <2>1, <2>2 DEF Keeps
  <2>4. kept'[x].undefined = FALSE
    BY <2>3, KeptBuffer DEF Buffers
  <2>5. main' = IF kept'[x].undefined THEN "undefined" ELSE main
    BY <1>2, <2>1 DEF CallFilter
  <2> QED
    BY <1>1, <2>4, <2>5
<1>3. main' # "undefined"
  BY <1>1, <1>2 DEF Next, MainStep, FilterStep, WriterStep, Finished, ReadNGram, ReadEnd, FlushInputEmpty,
   FlushInput, MoveRead, StartInput, Collect, CollectDone, EndLength, EndOfInput,
   PoisonFilter, JoinFilters, JoinWriter, FilterConsume, FilterProduce, WriterConsume,
   WriterFlush, WriterReturn, WriterPause, vars, mainVars
<1> QED
  BY <1>1, <1>3 DEF Tame

\* Content holds when the Controller has been constructed.
LEMMA ContentInitially == Init => Content
<1> SUFFICES ASSUME Init PROVE Content
  OBVIOUS
<1>1. KnownInput
  BY DEF Init, KnownInput
<1>2. /\ next = 1 /\ main = "read" /\ poisons = 0 /\ writer = "consume" /\ output = << >>
      /\ input = [b \in Batches |-> << >>] /\ kept = [b \in Batches |-> EmptyBuffer]
      /\ to_output = << >> /\ ordering = << >>
      /\ \A f \in Filters : filter[f].at = "consume"
  BY DEF Init, EmptyBuffer
<1>3. Len(script) \in Nat /\ Cardinality(Filters) \in Nat
  BY <1>1, ScriptType, FiltersAssumption, FS_CardinalityType
<1>4. Reading
  <2>1. ~Ending /\ ~Closing
    BY <1>2 DEF Ending, Closing
  <2>2. next \in 1 .. Len(script) + 1 /\ poisons \in 0 .. Cardinality(Filters)
    BY <1>2, <1>3
  <2> QED
    BY <1>1, <1>2, <2>1, <2>2 DEF Reading, KnownInput
<1>5. Len(<< >>) = 0 /\ 1 .. 0 = {}
  OBVIOUS
<1>6. \A b \in Batches : input[b] = << >> /\ 1 .. Len(input[b]) = {} /\ Len(input[b]) = 0
  BY <1>2, <1>5
<1>7. Top \in Batches
  BY Initially, TopIsHeld, <1>2 DEF IInv, Phases, Filling
<1>8. Filled
  <2>1. << >> \in Seq(1 .. Len(script)) /\ 0 < BatchSize /\ 0 <= BatchSize
    BY BatchSizeAssumption
  <2>2. input \in [Batches -> Seq(1 .. Len(script))]
    BY <1>2, <2>1
  <2> QED
    BY <1>2, <1>6, <1>7, <2>1, <2>2 DEF Filled
<1>9. Keeps
  <2>1. ASSUME NEW b \in Batches PROVE ~Filtered(b)
    <3>1. Copies(<< >>, b) = 0
      BY FS_EmptySet DEF Copies
    <3> QED
      BY <1>2, <3>1 DEF Filtered
  <2> QED
    BY <1>2, <2>1 DEF Keeps
<1>10. Through(0)
  <2>1. ExpectedTo(0) = << >>
    BY <1>1, ExpectedSteps
  <2>2. 0 + 1 .. next - 1 = {}
    BY <1>2
  <2> QED
    BY <1>2, <1>6, <2>1, <2>2 DEF Through
<1>11. 0 \in 0 .. next - 1
  BY <1>2
<1> QED
  BY <1>4, <1>8, <1>9, <1>10, <1>11 DEF Content

\* No step breaks it.
LEMMA ContentStep ==
  ASSUME OneOutput, IInv, InputOfEach, Content, [Next]_vars
  PROVE  Content'
<1>1. Reading /\ Filled /\ Keeps
  BY DEF Content
<1>2. PICK w \in 0 .. next - 1 : Through(w)
  BY DEF Content
<1>3. Tame
  BY <1>1, TameStep
<1>4. Reading' /\ Filled' /\ Keeps'
  BY <1>1, <1>3, ReadingStep, FilledStep, KeepsStep
<1>5. CASE Idle
  BY <1>2, <1>3, <1>4, <1>5, ThroughIdle, IdleFacts DEF Content
<1>6. CASE ReadNGram
  BY <1>1, <1>2, <1>4, <1>6, ThroughRead DEF Content
<1>7. CASE FlushInputEmpty
  BY <1>1, <1>2, <1>4, <1>7, ThroughFlushEmpty DEF Content, FlushInputEmpty
<1>8. CASE StartInput \/ CollectDone
  BY <1>1, <1>2, <1>4, <1>8, ThroughNew, FilledNew DEF Content
<1>9. CASE EndLength
  BY <1>1, <1>2, <1>4, <1>9, ThroughEnd DEF Content
<1>10. CASE WriterFlush
  BY <1>1, <1>2, <1>4, <1>10, ThroughFlush DEF Content
<1> QED
  BY <1>5, <1>6, <1>7, <1>8, <1>9, <1>10, IdleOrNot

\* What is in the buffers and in the output, for any inputs and any predicates: the lines up
\* to some w are through, and those read since are in batches that follow each other.
THEOREM ContentHolds ==
  ASSUME OneOutput
  PROVE  Spec => []Content
<1>1. Init => Content
  BY ContentInitially
<1>2. Content /\ IInv /\ InputOfEach /\ [Next]_vars => Content'
  BY ContentStep
<1> QED
  BY <1>1, <1>2, Invariance, InputDomain, PTL DEF Spec

\* The types follow.
LEMMA TypesFollow ==
  ASSUME OneOutput, IInv, Content
  PROVE  TypeOK
<1>1. Reading /\ Filled /\ Keeps /\ BatchTypes
  BY DEF Content, IInv
<1>2. KnownInput /\ Len(script) \in Nat /\ BatchSize \in Nat
  BY <1>1, ScriptType, BatchSizeAssumption DEF Reading, KnownInput
<1> DEFINE E == [place : 1 .. BatchSize, systems : SUBSET Systems]
           K == [lines : Seq(E), last : 0 .. BatchSize, undefined : BOOLEAN]
<1>3. ASSUME NEW b \in Batches PROVE kept[b] \in K
  <2>1. 0 \in 0 .. BatchSize /\ FALSE \in BOOLEAN /\ << >> \in Seq(E)
    BY <1>2
  <2>2. CASE ~Filtered(b)
    BY <1>1, <2>1, <2>2 DEF Keeps, EmptyBuffer
  <2>3. CASE Filtered(b)
    <3>1. PICK n \in Nat : n = Len(input[b]) /\ n <= BatchSize
      <4>1. input[b] \in Seq(1 .. Len(script)) /\ Len(input[b]) <= BatchSize
        BY <1>1 DEF Filled
      <4> QED
        BY <4>1
    <3>2. PICK a \in Nat : Shows(kept[b], input[b], a, n)
      BY <1>1, <2>3, <3>1, BatchShows DEF Keeps
    <3>3. kept[b] \in Buffers /\ kept[b].lines \in Seq(Entry(n))
      BY <3>2 DEF Shows
    <3>4. Entry(n) \subseteq E
      BY <1>2, <3>1 DEF Entry
    <3>5. kept[b].lines \in Seq(E)
      <4> HIDE DEF E
      <4> QED
        BY <3>3, <3>4
    <3>6. /\ kept[b] = [lines |-> kept[b].lines, last |-> kept[b].last, undefined |-> kept[b].undefined]
          /\ kept[b].last = 0 /\ kept[b].undefined = FALSE
      BY <3>3 DEF Buffers
    <3> HIDE DEF E
    <3>7. PICK lines \in Seq(E) : lines = kept[b].lines
      BY <3>5
    <3>8. kept[b] = [lines |-> lines, last |-> 0, undefined |-> FALSE]
      BY ONLY <3>6, <3>7
    <3> QED
      BY <2>1, <3>8
  <2> QED
    BY <2>2, <2>3
<1>4. kept \in [Batches -> K]
  <2> HIDE DEF K
  <2>1. kept = [b \in Batches |-> kept[b]]
    BY <1>1 DEF Keeps
  <2> QED
    BY <1>3, <2>1
<1>5. output \in Seq(Line)
  <2>1. PICK w \in 0 .. next - 1 : output = ExpectedTo(w)
    BY DEF Content, Through
  <2>2. w \in 0 .. Len(script)
    BY <1>1, <1>2, <2>1 DEF Reading
  <2> QED
    BY <1>2, <2>1, <2>2, ExpectedSteps
<1>6. \A q \in {to_read, to_filter, to_output, ordering} : q \in Seq(Requests)
  <2>1. to_read \in Seq(Requests)
    <3>1. to_read \in Seq(Batches) /\ Batches \subseteq Requests
      BY <1>1 DEF BatchTypes, Requests
    <3> QED
      BY <3>1
  <2> QED
    BY <1>1, <2>1 DEF BatchTypes
<1>7. main \in {"read", "flush_input", "move_read", "new_input", "collect", "end_length",
               "close_filters", "close_output", "done", "undefined"}
  BY <1>1 DEF Reading
<1> QED
  BY <1>1, <1>4, <1>5, <1>6, <1>7 DEF TypeOK, Reading, Filled, BatchTypes, Line

\* So does what is said of the lines that are to be written.
LEMMA LinesFollow ==
  ASSUME OneOutput, Content
  PROVE  LinesGoWhereTheyPassed
<1>1. Reading /\ Filled /\ Keeps
  BY DEF Content
<1>2. KnownInput /\ Len(script) \in Nat
  BY <1>1, ScriptType DEF Reading, KnownInput
<1>3. main # "undefined"
  BY <1>1 DEF Reading
<1>4. ASSUME NEW b \in Batches, NEW entry \in ToSet(kept[b].lines)
      PROVE  [line |-> input[b][entry.place], systems |-> entry.systems] \in ToSet(Expected)
  <2>1. Filtered(b)
    <3> SUFFICES ASSUME ~Filtered(b) PROVE FALSE
      OBVIOUS
    <3>1. kept[b].lines = << >>
      BY <1>1 DEF Keeps, EmptyBuffer
    <3>2. ToSet(<< >>) = {}
      BY DEF ToSet
    <3> QED
      BY <1>4, <3>1, <3>2
  <2>2. PICK q \in Seq(1 .. Len(script)) : q = input[b]
    BY <1>1 DEF Filled
  <2>3. PICK n \in Nat : n = Len(q)
    OBVIOUS
  <2>4. PICK a \in Nat : Shows(kept[b], q, a, n)
    BY <1>1, <2>1, <2>2, <2>3, BatchShows DEF Keeps
  <2>5. PICK t \in Seq(Entry(n)) : t = kept[b].lines
    BY <2>4 DEF Shows
  <2>6. PICK i \in 1 .. Len(t) : t[i] = entry
    <3>1. DOMAIN t = 1 .. Len(t)
      OBVIOUS
    <3> QED
      BY <1>4, <2>5, <3>1 DEF ToSet
  <2>7. entry.place \in 1 .. n
    <3>1. t[i] \in Entry(n)
      OBVIOUS
    <3> QED
      BY <2>6, <3>1 DEF Entry
  <2>8. PICK l \in 1 .. Len(script) : l = q[entry.place]
    BY <2>3, <2>7
  <2>9. Passes(l) /\ entry.systems = Where(l).systems
    BY <2>4, <2>5, <2>6, <2>8 DEF Shows
  <2>10. [line |-> l, systems |-> Where(l).systems] \in ToSet(Expected)
    BY <1>2, <2>9, ExpectedHas
  <2> QED
    BY <2>2, <2>8, <2>9, <2>10
<1>5. \A b \in Batches : Sent(b) \subseteq ToSet(Expected)
  BY <1>4 DEF Sent
<1> QED
  BY <1>3, <1>5 DEF LinesGoWhereTheyPassed

\* What holds of the batches at any time, wherever they are: with one output file, whatever the
\* inputs and the predicates, every batch has one owner, and every line in an output buffer is
\* one that is to pass.
THEOREM BatchesAreRight ==
  ASSUME OneOutput
  PROVE  Spec => []BatchInvariant
<1>1. IInv /\ Content => BatchInvariant
  BY TypesFollow, LinesFollow DEF BatchInvariant, IInv
<1> QED
  BY <1>1, ContentHolds, Invariance, PTL

\* OutputWorker: "Assemble the output in order".  With one output file the output is always a
\* beginning of what the filter promises.
THEOREM OutputStaysInOrder ==
  ASSUME OneOutput
  PROVE  Spec => []OutputInOrder
<1>1. ASSUME Content PROVE OutputInOrder
  <2>1. KnownInput /\ Len(script) \in Nat /\ next \in 1 .. Len(script) + 1
    BY <1>1, ScriptType DEF Content, Reading, KnownInput
  <2>2. PICK w \in 0 .. next - 1 : output = ExpectedTo(w)
    BY <1>1 DEF Content, Through
  <2>3. w \in 0 .. Len(script)
    BY <2>1, <2>2
  <2> QED
    BY <2>1, <2>2, <2>3, ExpectedPrefix DEF OutputInOrder
<1> QED
  BY <1>1, ContentHolds, PTL

\* When the program ends, the output of an input that ends with a section's end (an ARPA file)
\* is the whole of what the filter promises.
THEOREM OutputIsComplete ==
  ASSUME OneOutput, EndsWithSection
  PROVE  Spec => []OutputComplete
<1>1. ASSUME Content PROVE OutputComplete
  <2> SUFFICES ASSUME main = "done" PROVE output = Expected
    BY DEF OutputComplete
  <2>1. Reading /\ Filled
    BY <1>1 DEF Content
  <2>2. KnownInput /\ Len(script) \in Nat /\ next = Len(script) + 1
    BY <2>1, ScriptType DEF Reading, KnownInput, Closing
  <2>3. PICK w \in 0 .. next - 1 : Through(w)
    BY <1>1 DEF Content
  <2>4. w = Len(script)
    <3> SUFFICES ASSUME w # Len(script) PROVE FALSE
      OBVIOUS
    <3>1. PICK l \in w + 1 .. next - 1 : l = Len(script) /\ l \in 1 .. Len(script)
      BY <2>2
    <3>2. PICK b \in Batches : Pending(b) /\ Holds(b, l)
      BY <2>3 DEF Through
    <3>3. script[l] # << >>
      BY <2>1, <3>2 DEF Filled, Holds
    <3>4. PICK in \in Inputs : script = in.script /\ condition = in.condition
      BY <2>2 DEF KnownInput
    <3>5. script # << >> => Last(script) = << >>
      BY <3>4 DEF EndsWithSection
    <3>6. Last(script) = script[l] /\ script # << >>
      <4>1. script \in Seq(Seq(Nat))
        BY <2>2, ScriptType
      <4> QED
        BY <3>1, <4>1 DEF Last
    <3> QED
      BY <3>3, <3>5, <3>6
  <2> QED
    BY <2>3, <2>4 DEF Through, Expected
<1> QED
  BY <1>1, ContentHolds, PTL

-----------------------------------------------------------------------------
(* The end of the program                                                  *)

\* What a queue has with respect to poison.
OnlyPoison(q) == \A i \in 1 .. Len(q) : q[i] = Null
NoPoison(q) == \A i \in 1 .. Len(q) : q[i] # Null
PoisonLast(q) == \A i, j \in 1 .. Len(q) : i < j /\ q[i] = Null => q[j] = Null

\* The destructors have begun, or have joined the filter workers.
FiltersJoined == main \in {"close_output", "done"}

\* Poison comes after everything else, and a worker that has it leaves nothing behind.
Draining ==
  \/ main = "undefined"
  \/ /\ PoisonLast(to_filter) /\ PoisonLast(to_output)
     /\ ~Closing => NoPoison(to_filter)
     /\ \A f \in Filters : filter[f].at = "exit" => Closing /\ OnlyPoison(to_filter)
     /\ FiltersJoined => \A f \in Filters : filter[f].at = "exit"
     /\ ~FiltersJoined => NoPoison(to_output) /\ writer # "exit"
     /\ writer = "exit" => OnlyPoison(to_output)
     /\ writer \in {"consume", "exit"} => ~FrontReady
     /\ main = "done" => writer = "exit"

\* Raw count files have no sections.
Raw == \A in \in Inputs : \A i \in 1 .. Len(in.script) : in.script[i] # << >>

\* Every batch that has been handed over is full.
Rounds ==
  /\ \E k \in Nat : next - 1 = k * BatchSize + (IF Filling THEN Len(input[Top]) ELSE 0)
  /\ main = "flush_input" => Len(input[Top]) = BatchSize
  /\ Closing => Len(input[Top]) < BatchSize

\* Every number from base_sequence_ on is the number of a batch under way.
Unbroken == \A n \in base_sequence .. Limit - 1 : \E b \in Batches : UnderWay(b) /\ number[b] = n

\* A queue with one more element.
LEMMA PoisonAppend ==
  ASSUME NEW q \in Seq(Requests), NEW x \in Requests
  PROVE  /\ x # Null /\ NoPoison(q) => NoPoison(Append(q, x))
         /\ NoPoison(q) => PoisonLast(Append(q, x))
         /\ x = Null /\ PoisonLast(q) => PoisonLast(Append(q, x))
         /\ x = Null /\ OnlyPoison(q) => OnlyPoison(Append(q, x))
<1>1. PICK r : r = Append(q, x)
  OBVIOUS
<1>2. /\ Len(q) \in Nat /\ Len(r) = Len(q) + 1 /\ r[Len(q) + 1] = x
      /\ \A i \in 1 .. Len(q) : r[i] = q[i]
  BY <1>1
<1>3. \A i \in 1 .. Len(r) : i \in 1 .. Len(q) \/ (i = Len(q) + 1 /\ r[i] = x)
  BY <1>2
<1>4. ASSUME NEW i \in 1 .. Len(r), NEW j \in 1 .. Len(r), i < j
      PROVE  i \in 1 .. Len(q)
  <2>1. i \in Nat /\ j \in Nat /\ 1 <= i /\ i < j /\ j <= Len(q) + 1
    BY <1>2, <1>4
  <2> QED
    BY <1>2, <2>1
<1>5. x # Null /\ NoPoison(q) => NoPoison(r)
  BY <1>2, <1>3 DEF NoPoison
<1>6. NoPoison(q) => PoisonLast(r)
  BY <1>2, <1>4 DEF NoPoison, PoisonLast
<1>7. x = Null /\ PoisonLast(q) => PoisonLast(r)
  BY <1>2, <1>3, <1>4 DEF PoisonLast
<1>8. x = Null /\ OnlyPoison(q) => OnlyPoison(r)
  BY <1>2, <1>3 DEF OnlyPoison
<1> QED
  BY <1>1, <1>5, <1>6, <1>7, <1>8

\* A queue without its first element.
LEMMA PoisonTail ==
  ASSUME NEW q \in Seq(Requests), q # << >>
  PROVE  /\ NoPoison(q) => NoPoison(Tail(q)) /\ Head(q) # Null
         /\ PoisonLast(q) => PoisonLast(Tail(q))
         /\ PoisonLast(q) /\ Head(q) = Null => OnlyPoison(Tail(q))
         /\ OnlyPoison(q) => OnlyPoison(Tail(q))
<1>1. PICK r \in Seq(Requests) : r = Tail(q)
  BY TailFacts
<1>2. /\ Len(q) \in Nat \ {0} /\ Len(r) = Len(q) - 1 /\ Head(q) = q[1]
      /\ \A i \in 1 .. Len(q) - 1 : r[i] = q[i + 1]
  BY <1>1, TailFacts
<1>3. \A i \in 1 .. Len(r) : i + 1 \in 1 .. Len(q) /\ r[i] = q[i + 1] /\ 1 < i + 1
  BY <1>2
<1>4. 1 \in 1 .. Len(q)
  BY <1>2
<1>5. NoPoison(q) => NoPoison(r) /\ Head(q) # Null
  BY <1>2, <1>3, <1>4 DEF NoPoison
<1>6. PoisonLast(q) => PoisonLast(r)
  <2> SUFFICES ASSUME PoisonLast(q), NEW i \in 1 .. Len(r), NEW j \in 1 .. Len(r), i < j, r[i] = Null
               PROVE  r[j] = Null
    BY DEF PoisonLast
  <2>1. i + 1 \in 1 .. Len(q) /\ j + 1 \in 1 .. Len(q) /\ i + 1 < j + 1 /\ q[i + 1] = Null
    BY <1>3
  <2>2. q[j + 1] = Null
    BY <2>1 DEF PoisonLast
  <2> QED
    BY <1>3, <2>2
<1>7. PoisonLast(q) /\ Head(q) = Null => OnlyPoison(r)
  <2> SUFFICES ASSUME PoisonLast(q), Head(q) = Null, NEW i \in 1 .. Len(r)
               PROVE  r[i] = Null
    BY DEF OnlyPoison
  <2>1. q[i + 1] = Null
    BY <1>2, <1>3, <1>4 DEF PoisonLast
  <2> QED
    BY <1>3, <2>1
<1>8. OnlyPoison(q) => OnlyPoison(r)
  BY <1>3 DEF OnlyPoison
<1> QED
  BY <1>1, <1>5, <1>6, <1>7, <1>8

\* The steps of the main thread, as the poison sees them.
LEMMA DrainingMain ==
  ASSUME IInv, Draining, MainStep, main # "undefined"
  PROVE  Draining'
<1>0. /\ to_filter \in Seq(Requests) /\ to_output \in Seq(Requests) /\ Null \in Requests
      /\ after \in {"new_input", "collect"} /\ BatchTypes /\ Phases
  BY HolderTypes DEF IInv, BatchTypes, Requests
<1>1. CASE \/ ReadNGram \/ ReadEnd \/ FlushInputEmpty \/ MoveRead \/ StartInput
           \/ Collect \/ CollectDone \/ EndLength \/ EndOfInput
  <2>1. /\ UNCHANGED <<to_filter, to_output, filter, writer, ordering>>
        /\ ~Closing /\ ~FiltersJoined /\ ~FiltersJoined' /\ main' # "done"
    BY <1>0, <1>1 DEF ReadNGram, ReadEnd, FlushInputEmpty, MoveRead, StartInput,
       Collect, CollectDone, EndLength, EndOfInput, filterVars, writerVars, Closing, FiltersJoined
  <2> QED
    BY <2>1 DEF Draining, FrontReady
<1>2. CASE FlushInput
  <2>1. /\ UNCHANGED <<to_output, filter, writer, ordering>> /\ to_filter' = Append(to_filter, Top)
        /\ ~Closing /\ ~Closing' /\ ~FiltersJoined /\ ~FiltersJoined' /\ main' # "done" /\ Top \in Requests
        /\ Top # Null
    BY <1>0, <1>2, TypesFlushInput, BatchesAssumption
       DEF FlushInput, filterVars, writerVars, Closing, FiltersJoined, Requests
  <2>2. NoPoison(to_filter') /\ PoisonLast(to_filter')
    BY <1>0, <2>1, PoisonAppend DEF Draining
  <2> QED
    BY <2>1, <2>2 DEF Draining, FrontReady
<1>3. CASE PoisonFilter
  <2>1. /\ UNCHANGED <<to_output, filter, writer, ordering, main>> /\ to_filter' = Append(to_filter, Null)
        /\ Closing /\ Closing' /\ ~FiltersJoined /\ ~FiltersJoined' /\ main' # "done"
    BY <1>3 DEF PoisonFilter, filterVars, writerVars, Closing, FiltersJoined
  <2>2. /\ PoisonLast(to_filter')
        /\ OnlyPoison(to_filter) => OnlyPoison(to_filter')
    BY <1>0, <2>1, PoisonAppend DEF Draining
  <2> QED
    BY <2>1, <2>2 DEF Draining, FrontReady
<1>4. CASE JoinFilters
  <2>1. /\ UNCHANGED <<to_filter, filter, writer, ordering>> /\ to_output' = Append(to_output, Null)
        /\ ~FiltersJoined /\ FiltersJoined' /\ Closing /\ Closing' /\ main' = "close_output"
        /\ \A f \in Filters : filter[f].at = "exit"
    BY <1>4 DEF JoinFilters, filterVars, writerVars, FiltersJoined, Closing
  <2>2. PoisonLast(to_output')
    BY <1>0, <2>1, PoisonAppend DEF Draining
  <2> QED
    BY <2>1, <2>2 DEF Draining, FrontReady
<1>5. CASE JoinWriter
  <2>1. /\ UNCHANGED <<to_filter, to_output, filter, writer, ordering>>
        /\ FiltersJoined /\ FiltersJoined' /\ Closing /\ Closing' /\ writer = "exit"
    BY <1>5 DEF JoinWriter, filterVars, writerVars, FiltersJoined, Closing
  <2> QED
    BY <2>1 DEF Draining, FrontReady
<1> QED
  BY <1>1, <1>2, <1>3, <1>4, <1>5 DEF MainStep

\* Those of a filter worker.
LEMMA DrainingFilter ==
  ASSUME IInv, Draining, main # "undefined", NEW f \in Filters, FilterStep(f)
  PROVE  Draining'
<1>0. /\ to_filter \in Seq(Requests) /\ to_output \in Seq(Requests) /\ BatchTypes /\ Phases
      /\ filter \in [Filters -> [at : {"consume", "call_filter", "produce", "exit"}, batch : Requests]]
  BY HolderTypes DEF IInv, BatchTypes
<1>1. filter[f].at # "exit" /\ ~FiltersJoined
  BY DEF FilterStep, FilterConsume, CallFilter, FilterProduce, Draining
<1>2. CASE FilterConsume(f)
  <2>1. /\ UNCHANGED <<to_output, writer, ordering, main>> /\ to_filter # << >> /\ to_filter' = Tail(to_filter)
        /\ filter'[f].at = (IF Head(to_filter) = Null THEN "exit" ELSE "call_filter")
        /\ \A g \in Filters : g # f => filter'[g] = filter[g]
    BY <1>0, <1>2 DEF FilterConsume, mainVars, writerVars
  <2>2. /\ NoPoison(to_filter) => NoPoison(to_filter') /\ Head(to_filter) # Null
        /\ PoisonLast(to_filter')
        /\ Head(to_filter) = Null => OnlyPoison(to_filter')
        /\ OnlyPoison(to_filter) => OnlyPoison(to_filter')
    BY <1>0, <2>1, PoisonTail DEF Draining
  <2>3. Closing' = Closing /\ FiltersJoined' = FiltersJoined /\ FrontReady' = FrontReady
    BY <2>1 DEF Closing, FiltersJoined, FrontReady
  <2>4. Head(to_filter) = Null => Closing
    BY <2>2 DEF Draining
  <2>5. ASSUME NEW g \in Filters, filter'[g].at = "exit" PROVE Closing /\ OnlyPoison(to_filter')
    <3>1. CASE g = f
      BY <2>1, <2>2, <2>4, <2>5, <3>1
    <3>2. CASE g # f
      BY <2>1, <2>2, <2>5, <3>2 DEF Draining
    <3> QED
      BY <3>1, <3>2
  <2> QED
    BY <1>1, <2>1, <2>2, <2>3, <2>5 DEF Draining
<1>3. CASE CallFilter(f)
  <2>1. /\ UNCHANGED <<to_filter, to_output, writer, ordering>> /\ main' \in {main, "undefined"}
        /\ filter'[f].at = "produce"
        /\ \A g \in Filters : g # f => filter'[g] = filter[g]
    BY <1>0, <1>3 DEF CallFilter, writerVars
  <2>2. CASE main' = "undefined"
    BY <2>2 DEF Draining
  <2>3. CASE main' = main
    <3>1. Closing' = Closing /\ FiltersJoined' = FiltersJoined /\ FrontReady' = FrontReady
      BY <2>1, <2>3 DEF Closing, FiltersJoined, FrontReady
    <3>2. \A g \in Filters : filter'[g].at = "exit" => filter[g].at = "exit"
      BY <2>1
    <3> QED
      BY <1>1, <2>1, <2>3, <3>1, <3>2 DEF Draining
  <2> QED
    BY <2>1, <2>2, <2>3
<1>4. CASE FilterProduce(f)
  <2>1. /\ UNCHANGED <<to_filter, writer, ordering, main>> /\ to_output' = Append(to_output, filter[f].batch)
        /\ filter[f].at = "produce" /\ filter'[f].at = "consume"
        /\ \A g \in Filters : g # f => filter'[g] = filter[g]
    BY <1>0, <1>4 DEF FilterProduce, mainVars, writerVars
  <2>2. filter[f].batch \in Requests /\ filter[f].batch # Null
    BY <1>0, <2>1, BatchesAssumption DEF Phases
  <2>3. NoPoison(to_output') /\ PoisonLast(to_output')
    BY <1>0, <1>1, <2>1, <2>2, PoisonAppend DEF Draining
  <2>4. Closing' = Closing /\ FiltersJoined' = FiltersJoined /\ FrontReady' = FrontReady
    BY <2>1 DEF Closing, FiltersJoined, FrontReady
  <2>5. \A g \in Filters : filter'[g].at = "exit" => filter[g].at = "exit"
    BY <2>1
  <2> QED
    BY <1>1, <2>1, <2>3, <2>4, <2>5 DEF Draining
<1> QED
  BY <1>2, <1>3, <1>4 DEF FilterStep

\* And those of the output worker.
LEMMA DrainingWriter ==
  ASSUME IInv, Draining, main # "undefined", WriterStep
  PROVE  Draining'
<1>0. to_output \in Seq(Requests) /\ BatchTypes /\ Phases
  BY HolderTypes DEF IInv
<1>1. UNCHANGED <<to_filter, filter, main>> /\ writer # "exit"
  BY DEF WriterStep, WriterConsume, WriterFlush, WriterReturn, WriterPause, mainVars, filterVars
<1>2. Closing' = Closing /\ FiltersJoined' = FiltersJoined /\ main # "done"
  BY <1>1 DEF Closing, FiltersJoined, Draining
<1>3. CASE WriterConsume
  <2>1. /\ to_output # << >> /\ to_output' = Tail(to_output) /\ writer = "consume"
        /\ Head(to_output) = Null => writer' = "exit" /\ ordering' = ordering
        /\ Head(to_output) # Null => writer' = "assemble"
    BY <1>3 DEF WriterConsume
  <2>2. /\ NoPoison(to_output) => NoPoison(to_output') /\ Head(to_output) # Null
        /\ PoisonLast(to_output')
        /\ Head(to_output) = Null => OnlyPoison(to_output')
    BY <1>0, <2>1, PoisonTail DEF Draining
  <2>3. CASE Head(to_output) = Null
    <3>1. FrontReady' = FrontReady /\ ~FrontReady
      BY <2>1, <2>3 DEF FrontReady, Draining
    <3> QED
      BY <1>1, <1>2, <2>1, <2>2, <2>3, <3>1 DEF Draining
  <2>4. CASE Head(to_output) # Null
    BY <1>1, <1>2, <2>1, <2>2, <2>4 DEF Draining
  <2> QED
    BY <2>3, <2>4
<1>4. CASE WriterFlush \/ WriterReturn
  <2>1. UNCHANGED to_output /\ writer' \notin {"consume", "exit"}
    BY <1>4 DEF WriterFlush, WriterReturn
  <2> QED
    BY <1>1, <1>2, <2>1 DEF Draining
<1>5. CASE WriterPause
  <2>1. UNCHANGED <<to_output, ordering>> /\ writer' = "consume" /\ ~FrontReady
    BY <1>5 DEF WriterPause
  <2> QED
    BY <1>1, <1>2, <2>1 DEF Draining, FrontReady
<1> QED
  BY <1>3, <1>4, <1>5 DEF WriterStep

\* Draining holds, whatever the filter does.
LEMMA DrainingHolds == Spec => []Draining
<1>1. Init => Draining
  <2> SUFFICES ASSUME Init PROVE Draining
    OBVIOUS
  <2>1. /\ main = "read" /\ writer = "consume" /\ to_filter = << >> /\ to_output = << >> /\ ordering = << >>
        /\ \A f \in Filters : filter[f].at = "consume"
    BY DEF Init
  <2>2. 1 .. Len(<< >>) = {}
    <3>1. Len(<< >>) = 0 /\ 1 .. 0 = {}
      OBVIOUS
    <3> QED
      BY <3>1
  <2>3. NoPoison(<< >>) /\ PoisonLast(<< >>)
    BY <2>2 DEF NoPoison, PoisonLast
  <2> QED
    BY <2>1, <2>3 DEF Draining, FrontReady, Closing, FiltersJoined
<1>2. ASSUME IInv, Draining, [Next]_vars PROVE Draining'
  <2>1. CASE main = "undefined" /\ UNCHANGED main
    BY <2>1 DEF Draining
  <2>2. CASE UNCHANGED vars
    <3>1. UNCHANGED <<main, writer, to_filter, to_output, ordering, filter>>
      BY <2>2 DEF vars, mainVars, filterVars, writerVars
    <3>2. Closing' = Closing /\ FiltersJoined' = FiltersJoined /\ FrontReady' = FrontReady
      BY <3>1 DEF FrontReady, Closing, FiltersJoined
    <3>3. /\ PoisonLast(to_filter)' = PoisonLast(to_filter) /\ PoisonLast(to_output)' = PoisonLast(to_output)
          /\ NoPoison(to_filter)' = NoPoison(to_filter) /\ NoPoison(to_output)' = NoPoison(to_output)
          /\ OnlyPoison(to_filter)' = OnlyPoison(to_filter) /\ OnlyPoison(to_output)' = OnlyPoison(to_output)
      BY <3>1 DEF PoisonLast, NoPoison, OnlyPoison
    <3> QED
      BY <1>2, <3>1, <3>2, <3>3 DEF Draining
  <2> QED
    BY <1>2, <2>1, <2>2, DrainingMain, DrainingFilter, DrainingWriter DEF Next, Finished
<1> QED
  BY <1>1, <1>2, Invariance, PTL DEF Spec

\* With filter workers, what is under way at the end waits in ordering_, behind a gap.
LEMMA LeftAtTheEnd ==
  ASSUME IInv, Draining, Filters # {}, main = "done", NEW b \in Batches, UnderWay(b)
  PROVE  Copies(ordering, b) = 1 /\ ~FrontReady
<1>0. /\ to_filter \in Seq(Requests) /\ to_output \in Seq(Requests) /\ BatchTypes /\ Phases
  BY HolderTypes DEF IInv
<1>1. /\ \A f \in Filters : filter[f].at = "exit" /\ OnlyPoison(to_filter)
      /\ OnlyPoison(to_output) /\ ~FrontReady
  BY DEF Draining, FiltersJoined
<1>2. b # Null
  BY BatchesAssumption
<1>3. Copies(to_filter, b) = 0 /\ Copies(to_output, b) = 0
  BY <1>0, <1>1, <1>2, CopiesType DEF OnlyPoison
<1>4. With(b) = 0
  <2>1. \A f \in Filters : filter[f].batch # b
    BY <1>0, <1>1 DEF Phases
  <2> QED
    BY <2>1, WithType
<1>5. Copies(ordering, b) \in Nat /\ Copies(local_read, b) = 0 /\ Copies(to_read, b) = 0
  BY <1>0, CountTypes DEF UnderWay
<1> QED
  BY <1>1, <1>3, <1>4, <1>5, Owners DEF IInv

\* ~ThreadPool produces poison for every worker, behind the work, and joins the workers: none of
\* the batches handed over is left in a queue of the pools or with a worker at the end.
Drained ==
  main = "done" =>
    \A b \in Batches : Copies(to_filter, b) = 0 /\ Copies(to_output, b) = 0 /\ With(b) = 0

\* The destructors of the two pools leave no batch behind, for any number of workers but none, any
\* inputs and any predicates.
THEOREM PoolsDrain ==
  ASSUME Filters # {}
  PROVE  Spec => []Drained
<1>1. ASSUME IInv, Draining PROVE Drained
  <2> SUFFICES ASSUME main = "done", NEW b \in Batches
               PROVE  Copies(to_filter, b) = 0 /\ Copies(to_output, b) = 0 /\ With(b) = 0
    BY DEF Drained
  <2>1. CASE UnderWay(b)
    <3>1. Copies(ordering, b) # 0
      BY <1>1, <2>1, LeftAtTheEnd
    <3> QED
      BY <1>1, <3>1, OneHolder
  <2>2. CASE ~UnderWay(b)
    <3>1. /\ ~(Copies(to_filter, b) # 0) /\ ~(Copies(to_output, b) # 0) /\ ~(With(b) # 0)
      BY <1>1, <2>2, OneHolder
    <3> QED
      BY <3>1
  <2> QED
    BY <2>1, <2>2
<1> QED
  BY <1>1, Invariance, DrainingHolds, PTL

\* With raw files the main thread does nothing for the ends of sections.
LEMMA RawMain ==
  ASSUME Raw, IInv, Reading
  PROVE  /\ main \notin {"collect", "end_length"}
         /\ main \in {"flush_input", "move_read"} => after = "new_input"
         /\ ~ReadEnd
<1>1. PICK in \in Inputs : script = in.script /\ condition = in.condition
  BY DEF Reading
<1>2. \A i \in 1 .. Len(script) : script[i] # << >>
  BY <1>1 DEF Raw
<1>3. next \in 1 .. Len(script) + 1 /\ Len(script) \in Nat
  BY ScriptType DEF Reading, KnownInput
<1>4. next <= Len(script) => script[next] # << >>
  BY <1>2, <1>3
<1>5. after \in {"new_input", "collect"}
  BY DEF IInv, BatchTypes
<1> QED
  BY <1>4, <1>5 DEF Reading, Ending, ReadEnd

\* So it does only this.
LEMMA RawSteps ==
  ASSUME Raw, IInv, Reading, Rounds, [Next]_vars
  PROVE  \/ ReadNGram \/ FlushInput \/ MoveRead \/ StartInput \/ EndOfInput
         \/ /\ PoisonFilter \/ JoinFilters \/ JoinWriter \/ (\E f \in Filters : FilterStep(f)) \/ WriterStep
               \/ UNCHANGED vars
<1>1. ~FlushInputEmpty
  <2> SUFFICES ASSUME FlushInputEmpty PROVE FALSE
    OBVIOUS
  <2>1. Len(input[Top]) = BatchSize /\ input[Top] = << >>
    BY DEF FlushInputEmpty, Rounds
  <2> QED
    BY <2>1, BatchSizeAssumption
<1> QED
  BY <1>1, RawMain DEF Next, MainStep, Finished, Collect, CollectDone, EndLength

\* Batches are handed over when they are full.
LEMMA RoundsStep ==
  ASSUME Raw, IInv, Reading, Filled, Rounds, [Next]_vars, Tame
  PROVE  Rounds'
<1>0. /\ BatchSize \in Nat \ {0} /\ next \in 1 .. Len(script) + 1 /\ Len(script) \in Nat /\ next \in Nat
      /\ main \notin {"collect", "end_length"}
      /\ main \in {"flush_input", "move_read"} => after = "new_input"
  <2>1. next \in 1 .. Len(script) + 1 /\ Len(script) \in Nat
    BY ScriptType DEF Reading, KnownInput
  <2> QED
    BY <2>1, RawMain, BatchSizeAssumption
<1>1. PICK k \in Nat : next - 1 = k * BatchSize + (IF Filling THEN Len(input[Top]) ELSE 0)
  BY DEF Rounds
<1>2. CASE ReadNGram
  <2>1. local_read # << >> /\ Top \in Batches /\ Filling /\ Filling' /\ main = "read"
    BY <1>2, TopIsHeld DEF IInv, ReadNGram, Phases, Filling
  <2>2. PICK q \in Seq(1 .. Len(script)) : q = input[Top]
    BY <2>1 DEF Filled
  <2>3. next \in 1 .. Len(script)
    BY <1>0, <1>2 DEF ReadNGram
  <2>4. PICK r \in Seq(1 .. Len(script)) : r = Append(q, next) /\ Len(r) = Len(q) + 1 /\ Len(q) \in Nat
    <3>1. /\ Append(q, next) \in Seq(1 .. Len(script)) /\ Len(Append(q, next)) = Len(q) + 1
          /\ Len(q) \in Nat
      BY <2>3, AppendProperties
    <3> QED
      BY <3>1
  <2>5. input'[Top] = r /\ next' = next + 1 /\ Top' = Top
    BY <1>2, <2>1, <2>2, <2>4 DEF ReadNGram, Filled, Top
  <2>6. main' = (IF Len(r) = BatchSize THEN "flush_input" ELSE "read")
    BY <1>2, <2>5 DEF ReadNGram
  <2>7. PICK m \in Nat : m = k * BatchSize
    BY <1>0
  <2>8. next' - 1 = m + Len(input'[Top'])
    <3>1. next - 1 = m + Len(q)
      BY <1>1, <2>1, <2>2, <2>7
    <3> QED
      BY <1>0, <2>4, <2>5, <3>1
  <2> QED
    BY <2>1, <2>5, <2>6, <2>7, <2>8 DEF Rounds, Closing
<1>3. CASE FlushInput
  <2>1. Filling /\ ~Filling' /\ UNCHANGED <<next, input>> /\ main' \in {"move_read", "new_input"}
        /\ Len(input[Top]) = BatchSize
    BY <1>0, <1>3 DEF FlushInput, Filling, Rounds
  <2>2. next - 1 = k * BatchSize + BatchSize
    BY <1>1, <2>1
  <2>3. PICK j \in Nat : j = k + 1
    OBVIOUS
  <2>4. j * BatchSize = k * BatchSize + BatchSize
    BY <1>0, <2>3
  <2>5. j * BatchSize \in Nat
    BY <1>0
  <2>6. next' - 1 = j * BatchSize + 0
    BY <2>1, <2>2, <2>4, <2>5
  <2> QED
    BY <2>1, <2>6 DEF Rounds, Closing
<1>4. CASE MoveRead
  <2>1. ~Filling /\ ~Filling' /\ UNCHANGED <<next, input>> /\ main' = "new_input"
    BY <1>0, <1>4 DEF MoveRead, Filling
  <2>2. next' - 1 = k * BatchSize + 0
    BY <1>1, <2>1
  <2> QED
    BY <2>1, <2>2 DEF Rounds, Closing
<1>5. CASE StartInput
  <2>1. ~Filling /\ Filling' /\ input'[Top'] = << >> /\ next' = next /\ main' = "read"
    BY <1>5, FilledNew DEF StartInput
  <2>2. Len(<< >>) = 0
    OBVIOUS
  <2>3. next' - 1 = k * BatchSize + Len(input'[Top'])
    BY <1>1, <2>1, <2>2
  <2> QED
    BY <2>1, <2>3 DEF Rounds, Closing
<1>6. CASE EndOfInput
  <2>1. Filling /\ Filling' /\ UNCHANGED <<next, input, local_read>> /\ main' = "close_filters" /\ main = "read"
    BY <1>6 DEF EndOfInput, Filling
  <2>2. Top' = Top /\ Len(input[Top]) < BatchSize
    BY <2>1 DEF Top, Filled
  <2>3. next' - 1 = k * BatchSize + Len(input'[Top'])
    BY <1>1, <2>1, <2>2
  <2> QED
    BY <2>1, <2>2, <2>3 DEF Rounds
<1>7. ASSUME PoisonFilter \/ JoinFilters \/ JoinWriter \/ (\E f \in Filters : FilterStep(f)) \/ WriterStep
               \/ UNCHANGED vars
      PROVE  Rounds'
  <2>0. /\ UNCHANGED <<next, input, local_read>>
        /\ main' = main \/ (main \in {"close_filters", "close_output"} /\ main' \in {"close_output", "done"})
    <3>1. CASE PoisonFilter \/ JoinFilters \/ JoinWriter \/ UNCHANGED vars
      BY <3>1 DEF PoisonFilter, JoinFilters, JoinWriter, vars, mainVars
    <3>2. CASE \E f \in Filters : FilterStep(f)
      BY <3>2 DEF FilterStep, FilterConsume, CallFilter, FilterProduce, mainVars, Tame
    <3>3. CASE WriterStep
      BY <3>3 DEF WriterStep, WriterConsume, WriterFlush, WriterReturn, WriterPause, mainVars
    <3> QED
      BY <1>7, <3>1, <3>2, <3>3
  <2>1. /\ UNCHANGED <<next, input, local_read>> /\ Filling' = Filling /\ (Closing' => Closing)
        /\ (main' = "flush_input" => main = "flush_input")
    BY <2>0 DEF Filling, Closing
  <2>2. Top' = Top
    BY <2>1 DEF Top
  <2>3. next' - 1 = k * BatchSize + (IF Filling' THEN Len(input'[Top']) ELSE 0)
    BY <1>1, <2>1, <2>2
  <2> QED
    BY <2>1, <2>2, <2>3 DEF Rounds
<1> QED
  BY <1>2, <1>3, <1>4, <1>5, <1>6, <1>7, RawSteps

\* Every number that is taken is handed over.
LEMMA UnbrokenStep ==
  ASSUME Raw, IInv, IInv', Reading, Filled, Rounds, Unbroken, [Next]_vars, Tame
  PROVE  Unbroken'
<1>0. /\ BatchTypes /\ Phases /\ Limit \in Nat /\ base_sequence \in Nat /\ sequence \in Nat \ {0}
      /\ Limit = (IF Filling THEN sequence - 1 ELSE sequence)
      /\ main \notin {"collect", "end_length"}
      /\ main \in {"flush_input", "move_read"} => after = "new_input"
  BY LimitType, RawMain DEF IInv
<1>1. ASSUME UNCHANGED <<local_read, to_read, number, base_sequence, sequence>>, Filling' = Filling
      PROVE  Unbroken'
  <2>1. Limit' = Limit /\ \A b : UnderWay(b)' <=> UnderWay(b)
    BY <1>1 DEF Limit, UnderWay
  <2> QED
    BY <1>1, <2>1 DEF Unbroken
<1>2. CASE FlushInput
  <2>1. /\ Filling /\ ~Filling' /\ UNCHANGED <<number, sequence, base_sequence>> /\ Top \in Batches
    BY <1>0, <1>2, TypesFlushInput DEF FlushInput, Filling
  <2>2. Limit' = Limit + 1 /\ number[Top] = Limit
    BY <1>0, <2>1 DEF Limit, IInv, Numbers
  <2>3. \A b \in Batches : UnderWay(b)' <=> UnderWay(b) \/ b = Top
    BY <1>2, UnderWayMoves
  <2>4. ASSUME NEW n \in base_sequence .. Limit' - 1 PROVE \E b \in Batches : UnderWay(b)' /\ number[b] = n
    <3>1. CASE n = Limit
      BY <2>1, <2>2, <2>3, <3>1
    <3>2. CASE n # Limit
      <4>1. n \in base_sequence .. Limit - 1
        BY <1>0, <2>2, <3>2
      <4> QED
        BY <2>3, <4>1 DEF Unbroken
    <3> QED
      BY <3>1, <3>2
  <2> QED
    BY <2>1, <2>4 DEF Unbroken
<1>3. CASE MoveRead
  <2>1. /\ UNCHANGED <<number, sequence, base_sequence>> /\ ~Filling /\ ~Filling'
    BY <1>0, <1>3 DEF MoveRead, Filling, writerVars
  <2>2. Limit' = Limit /\ \A b \in Batches : UnderWay(b)' <=> UnderWay(b)
    BY <1>3, <2>1, UnderWayMoves DEF Receives, Limit
  <2> QED
    BY <2>1, <2>2 DEF Unbroken
<1>4. CASE StartInput
  <2>1. /\ ~Filling /\ Filling' /\ UNCHANGED <<local_read, to_read>> /\ Top \in Batches /\ local_read # << >>
        /\ \A b \in Batches : b # Top => number'[b] = number[b]
    BY <1>4, FilledNew
  <2>2. sequence' = sequence + 1 /\ base_sequence' = base_sequence
    BY <1>4 DEF StartInput, NewInput, writerVars
  <2>3. Limit' = Limit
    BY <1>0, <2>1, <2>2 DEF Limit
  <2>4. \A b \in Batches : UnderWay(b)' <=> UnderWay(b)
    BY <2>1 DEF UnderWay
  <2>5. ~UnderWay(Top)
    BY <2>1, HeldTop
  <2> QED
    BY <2>1, <2>2, <2>3, <2>4, <2>5 DEF Unbroken
<1>5. CASE WriterReturn
  <2>1. /\ UNCHANGED <<number, sequence, main>> /\ base_sequence' = base_sequence + 1
    BY <1>0, <1>5, TypesWriterReturn
  <2>2. Head(ordering) \in Batches /\ number[Head(ordering)] = base_sequence
    BY <1>0, <1>5, FrontBatch DEF Phases, WriterReturn
  <2>3. Limit' = Limit
    BY <2>1 DEF Limit, Filling
  <2>4. \A b \in Batches : UnderWay(b)' <=> UnderWay(b) /\ b # Head(ordering)
    BY <1>5, UnderWayMoves
  <2>5. ASSUME NEW n \in base_sequence + 1 .. Limit - 1 PROVE \E b \in Batches : UnderWay(b)' /\ number[b] = n
    <3>1. n \in base_sequence .. Limit - 1 /\ n # base_sequence
      BY <1>0
    <3>2. PICK b \in Batches : UnderWay(b) /\ number[b] = n
      BY <3>1 DEF Unbroken
    <3> QED
      BY <2>2, <2>4, <3>1, <3>2
  <2> QED
    BY <2>1, <2>3, <2>5 DEF Unbroken
<1>6. CASE ReadNGram \/ EndOfInput \/ PoisonFilter \/ JoinFilters \/ JoinWriter \/ UNCHANGED vars
  <2>1. UNCHANGED <<local_read, to_read, number, base_sequence, sequence>> /\ Filling' = Filling
    BY <1>6 DEF ReadNGram, EndOfInput, PoisonFilter, JoinFilters, JoinWriter, vars, mainVars, writerVars, Filling
  <2> QED
    BY <1>1, <2>1
<1>7. CASE (\E f \in Filters : FilterStep(f)) \/ WriterConsume \/ WriterFlush \/ WriterPause
  <2>1. UNCHANGED <<local_read, to_read, number, base_sequence, sequence, main>>
    BY <1>7 DEF FilterStep, FilterConsume, CallFilter, FilterProduce, WriterConsume, WriterFlush, WriterPause,
       mainVars, writerVars, Tame
  <2> QED
    BY <1>1, <2>1 DEF Filling
<1> QED
  BY <1>2, <1>3, <1>4, <1>5, <1>6, <1>7, RawSteps DEF WriterStep

\* With raw files, batches are full when they are handed over and no number is left out.
LEMMA RawHolds ==
  ASSUME OneOutput, Raw
  PROVE  Spec => [](Rounds /\ Unbroken)
<1>1. Init => Rounds /\ Unbroken
  <2> SUFFICES ASSUME Init PROVE Rounds /\ Unbroken
    OBVIOUS
  <2>1. /\ next = 1 /\ main = "read" /\ base_sequence = 0 /\ sequence = 1
        /\ input = [b \in Batches |-> << >>]
    BY DEF Init
  <2>2. Top \in Batches
    BY Initially, TopIsHeld, <2>1 DEF IInv, Phases, Filling
  <2>3. Len(input[Top]) = 0
    <3>1. Len(<< >>) = 0
      OBVIOUS
    <3> QED
      BY <2>1, <2>2, <3>1
  <2>4. next - 1 = 0 * BatchSize + Len(input[Top]) /\ 0 \in Nat
    <3>1. 0 * BatchSize = 0
      BY BatchSizeAssumption
    <3> QED
      BY <2>1, <2>3, <3>1
  <2>5. Rounds
    BY <2>1, <2>4 DEF Rounds, Filling, Closing
  <2>6. base_sequence .. Limit - 1 = {}
    BY <2>1 DEF Limit, Filling
  <2> QED
    BY <2>5, <2>6 DEF Unbroken
<1>2. ASSUME IInv, IInv', Content, Rounds, Unbroken, [Next]_vars PROVE Rounds' /\ Unbroken'
  <2>1. Reading /\ Filled /\ Keeps
    BY <1>2 DEF Content
  <2>2. Tame
    BY <1>2, <2>1, TameStep
  <2> QED
    BY <1>2, <2>1, <2>2, RoundsStep, UnbrokenStep
<1>3. IInv /\ IInv' /\ Content /\ (Rounds /\ Unbroken) /\ [Next]_vars => (Rounds /\ Unbroken)'
  BY <1>2
<1> QED
  BY <1>1, <1>3, Invariance, ContentHolds, PTL DEF Spec

\* When the program ends, a raw file's lines have been written up to the last whole batch.
RawOutput ==
  main = "done" =>
    \E k \in Nat : /\ k * BatchSize <= Len(script) /\ Len(script) < (k + 1) * BatchSize
                   /\ output = ExpectedTo(k * BatchSize)

\* Nothing flushes the filter at the end of a raw count file (CountFormat::RunFilter): with threads,
\* the lines behind the last whole batch are lost, and no others.
THEOREM RawFilesLoseTheTail ==
  ASSUME OneOutput, Raw, Filters # {}
  PROVE  Spec => []RawOutput
<1>1. ASSUME IInv, Content, Draining, Rounds, Unbroken PROVE RawOutput
  <2> SUFFICES ASSUME main = "done"
               PROVE  \E k \in Nat : /\ k * BatchSize <= Len(script) /\ Len(script) < (k + 1) * BatchSize
                                     /\ output = ExpectedTo(k * BatchSize)
    BY DEF RawOutput
  <2>0. Reading /\ Filled /\ Filling /\ Closing /\ Limit \in Nat /\ base_sequence \in Nat
    BY <1>1, LimitType DEF Content, Filling, Closing, IInv
  <2>1. KnownInput /\ Len(script) \in Nat /\ next = Len(script) + 1 /\ BatchSize \in Nat \ {0}
    BY <2>0, ScriptType, BatchSizeAssumption DEF Reading, KnownInput
  <2>2. PICK w \in 0 .. next - 1 : Through(w)
    BY <1>1 DEF Content
  <2>3. local_read # << >> /\ Top \in Batches
    BY <1>1, <2>0, TopIsHeld DEF IInv, Phases
  <2>4. PICK q \in Seq(1 .. Len(script)) : q = input[Top]
    BY <2>0, <2>3 DEF Filled
  <2>5. ASSUME NEW b \in Batches, UnderWay(b) PROVE FALSE
    <3>1. number[b] \in base_sequence .. Limit - 1
      BY <1>1, <2>5 DEF IInv, Numbers
    <3>2. base_sequence \in base_sequence .. Limit - 1
      BY <2>0, <3>1
    <3>3. PICK c \in Batches : UnderWay(c) /\ number[c] = base_sequence
      BY <1>1, <3>2 DEF Unbroken
    <3>4. Copies(ordering, c) = 1 /\ ~FrontReady
      BY <1>1, <3>3, LeftAtTheEnd
    <3>5. ordering \in Seq(Requests) /\ c # Null
      BY <1>1, HolderTypes, BatchesAssumption DEF IInv
    <3>6. PICK i \in 1 .. Len(ordering) : ordering[i] = c
      <4>1. Copies(ordering, c) = 0 <=> \A i \in 1 .. Len(ordering) : ordering[i] # c
        BY <3>5, CopiesType
      <4>2. Copies(ordering, c) # 0
        BY <3>4
      <4> QED
        BY <4>1, <4>2
    <3>7. number[c] = base_sequence + (i - 1)
      BY <1>1, <3>5, <3>6 DEF IInv, Numbers
    <3>8. i = 1
      BY <2>0, <3>3, <3>7
    <3>9. ordering # << >> /\ Head(ordering) = c
      <4>1. Len(ordering) # 0
        BY <3>5, <3>6
      <4>2. ordering # << >>
        BY <3>5, <4>1, SeqFacts
      <4> QED
        BY <3>5, <3>6, <3>8, <4>2, FirstFacts
    <3> QED
      BY <3>4, <3>5, <3>9 DEF FrontReady
  <2>6. \A b \in Batches : Pending(b) <=> b = Top
    BY <2>0, <2>5 DEF Pending
  <2>7. /\ \A l \in w + 1 .. Len(script) : \E i \in 1 .. Len(q) : q[i] = l
        /\ \A i \in 1 .. Len(q) : q[i] \in w + 1 .. Len(script) /\ q[i] = q[1] + (i - 1)
        /\ q # << >> => q[Len(q)] = Len(script)
    <3>1. \A l \in w + 1 .. next - 1 : \E b \in Batches : Pending(b) /\ Holds(b, l)
      BY <2>2 DEF Through
    <3>2. \A l \in w + 1 .. Len(script) : Holds(Top, l)
      BY <2>1, <2>6, <3>1
    <3>3. \A i \in 1 .. Len(q) : q[i] \in w + 1 .. Len(script)
      BY <2>1, <2>2, <2>3, <2>4, <2>6 DEF Through
    <3>4. \A i \in 1 .. Len(q) : q[i] = q[1] + (i - 1)
      BY <2>0, <2>3, <2>4 DEF Filled
    <3>5. q # << >> => q[Len(q)] = Len(script)
      BY <2>0, <2>1, <2>4 DEF Filled
    <3> QED
      BY <2>4, <3>2, <3>3, <3>4, <3>5 DEF Holds
  <2>8. Len(q) \in Nat /\ Len(script) = w + Len(q) /\ w \in Nat
    <3>0. w \in Nat /\ w <= Len(script) /\ Len(q) \in Nat
      BY <2>1, <2>2
    <3>1. CASE Len(q) = 0
      <4> SUFFICES ASSUME w # Len(script) PROVE FALSE
        BY <3>0, <3>1
      <4>1. w + 1 \in w + 1 .. Len(script)
        BY <2>1, <3>0
      <4>2. PICK i \in 1 .. Len(q) : q[i] = w + 1
        BY <2>7, <4>1
      <4> QED
        BY <3>1, <4>2
    <3>2. CASE Len(q) # 0
      <4>1. 1 \in 1 .. Len(q) /\ Len(q) \in 1 .. Len(q) /\ q # << >>
        BY <3>0, <3>2
      <4>2. q[1] \in w + 1 .. Len(script) /\ q[Len(q)] = q[1] + (Len(q) - 1) /\ q[Len(q)] = Len(script)
        BY <2>7, <4>1
      <4>3. w + 1 \in w + 1 .. Len(script)
        BY <2>1, <3>0, <4>2
      <4>4. PICK i \in 1 .. Len(q) : q[i] = w + 1
        BY <2>7, <4>3
      <4>5. q[i] = q[1] + (i - 1)
        BY <2>7
      <4>6. q[1] = w + 1
        BY <2>1, <3>0, <4>2, <4>4, <4>5
      <4> QED
        BY <2>1, <3>0, <4>2, <4>6
    <3> QED
      BY <3>1, <3>2
  <2>9. PICK k \in Nat : next - 1 = k * BatchSize + Len(q)
    BY <1>1, <2>0, <2>4 DEF Rounds
  <2>10. Len(q) < BatchSize
    BY <1>1, <2>0, <2>4 DEF Rounds
  <2>11. PICK m \in Nat : m = k * BatchSize
    BY <2>1
  <2>12. w = m /\ Len(script) = m + Len(q)
    BY <2>1, <2>8, <2>9, <2>11
  <2>13. (k + 1) * BatchSize = m + BatchSize
    BY <2>1, <2>11
  <2>14. m <= Len(script) /\ Len(script) < m + BatchSize
    BY <2>1, <2>8, <2>10, <2>12
  <2>15. output = ExpectedTo(m)
    BY <2>2, <2>12 DEF Through
  <2> QED
    BY <2>11, <2>13, <2>14, <2>15
<1>2. IInv /\ Content /\ Draining /\ (Rounds /\ Unbroken) => RawOutput
  BY <1>1
<1> QED
  BY <1>2, Invariance, ContentHolds, DrainingHolds, RawHolds, PTL

\* The lines fill whole batches.
WholeBatches == \A in \in Inputs : \E j \in Nat : Len(in.script) = j * BatchSize

\* So nothing of a raw file is lost when its lines fill whole batches.
THEOREM WholeRawFiles ==
  ASSUME OneOutput, Raw, WholeBatches, Filters # {}
  PROVE  Spec => []OutputComplete
<1>1. ASSUME RawOutput, Content PROVE OutputComplete
  <2> SUFFICES ASSUME main = "done" PROVE output = Expected
    BY DEF OutputComplete
  <2>1. PICK n \in Nat : n = BatchSize /\ n # 0
    BY BatchSizeAssumption
  <2>2. PICK k \in Nat : /\ k * n <= Len(script) /\ Len(script) < (k + 1) * n
                         /\ output = ExpectedTo(k * n)
    BY <1>1, <2>1 DEF RawOutput
  <2>3. PICK j \in Nat : Len(script) = j * n
    BY <1>1, <2>1 DEF Content, Reading, WholeBatches
  <2>4. j = k
    <3>1. CASE j < k
      <4>1. PICK d \in Nat : k = j + 1 + d
        <5>1. k - j - 1 \in Nat /\ k = j + 1 + (k - j - 1)
          BY <3>1
        <5> QED
          BY <5>1
      <4>2. k * n = j * n + n + d * n
        BY <4>1
      <4>3. j * n \in Nat /\ d * n \in Nat
        OBVIOUS
      <4> QED
        BY <2>1, <2>2, <2>3, <4>2, <4>3
    <3>2. CASE j > k
      <4>1. PICK d \in Nat : j = k + 1 + d
        <5>1. j - k - 1 \in Nat /\ j = k + 1 + (j - k - 1)
          BY <3>2
        <5> QED
          BY <5>1
      <4>2. j * n = (k + 1) * n + d * n
        BY <4>1
      <4>3. (k + 1) * n \in Nat /\ d * n \in Nat
        OBVIOUS
      <4> QED
        BY <2>1, <2>2, <2>3, <4>2, <4>3
    <3> QED
      BY <3>1, <3>2
  <2> QED
    BY <2>2, <2>3, <2>4 DEF Expected
<1> QED
  BY <1>1, RawFilesLoseTheTail, ContentHolds, PTL
=============================================================================
