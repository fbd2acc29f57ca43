--------------------------- MODULE PCQueueProofs ---------------------------
(***************************************************************************)
(* TLAPS proofs about util/pcqueue.hh, for every number of producers,      *)
(* consumers and slots.  The inductive invariant is IInv below: token      *)
(* conservation needs the lock discipline (only one thread advances a      *)
(* pointer at a time), and both need the types.  The last part shows that  *)
(* PCQueue implements BlockingFifo.                                        *)
(***************************************************************************)
EXTENDS PCQueue, FiniteSetTheorems, SequenceTheorems, TLAPS

PCs == {"idle", "wait", "lock", "copy", "advance", "post", "unwind"}

(***************************************************************************)
(* Type correctness                                                        *)
(***************************************************************************)

LEMMA TypeInit == Init => TypeOK
BY SizeAssumption DEF Init, InitWith, TypeOK, Slots, Threads

LEMMA TypeProduce ==
  ASSUME TypeOK, NEW p \in Producers, ProduceCall(p) \/ ProduceStep(p)
  PROVE  TypeOK'
<1> p \in Threads /\ p \in Producers
  BY DEF Threads
<1> USE SizeAssumption DEF TypeOK, Goto
<1>1. CASE ProduceCall(p)
  BY <1>1 DEF ProduceCall
<1>2. CASE ProduceWait(p)
  BY <1>2 DEF ProduceWait
<1>3. CASE ProduceLock(p)
  BY <1>3 DEF ProduceLock
<1>4. CASE ProduceCopy(p)
  BY <1>4 DEF ProduceCopy
<1>5. CASE ProduceThrow(p)
  BY <1>5 DEF ProduceThrow
<1>6. CASE ProduceAdvance(p)
  BY <1>6 DEF ProduceAdvance, After, Slots
<1>7. CASE ProducePost(p)
  BY <1>7 DEF ProducePost
<1>8. CASE ProduceUnwind(p)
  BY <1>8 DEF ProduceUnwind
<1> QED
  BY <1>1, <1>2, <1>3, <1>4, <1>5, <1>6, <1>7, <1>8 DEF ProduceStep

LEMMA TypeConsume ==
  ASSUME TypeOK, NEW c \in Consumers, ConsumeCall(c) \/ ConsumeStep(c)
  PROVE  TypeOK'
<1> c \in Threads /\ c \in Consumers
  BY DEF Threads
<1> USE SizeAssumption DEF TypeOK, Goto
<1>1. CASE ConsumeCall(c)
  BY <1>1 DEF ConsumeCall
<1>2. CASE ConsumeWait(c)
  BY <1>2 DEF ConsumeWait
<1>3. CASE ConsumeLock(c)
  BY <1>3 DEF ConsumeLock
<1>4. CASE ConsumeCopy(c)
  BY <1>4 DEF ConsumeCopy
<1>5. CASE ConsumeThrow(c)
  BY <1>5 DEF ConsumeThrow
<1>6. CASE ConsumeAdvance(c)
  BY <1>6 DEF ConsumeAdvance, After, Slots
<1>7. CASE ConsumePost(c)
  BY <1>7 DEF ConsumePost
<1>8. CASE ConsumeUnwind(c)
  BY <1>8 DEF ConsumeUnwind
<1> QED
  BY <1>1, <1>2, <1>3, <1>4, <1>5, <1>6, <1>7, <1>8 DEF ConsumeStep

LEMMA TypeStep == TypeOK /\ [Next]_vars => TypeOK'
<1> SUFFICES ASSUME TypeOK, [Next]_vars PROVE TypeOK'
  OBVIOUS
<1>1. CASE UNCHANGED vars
  BY <1>1 DEF TypeOK, vars
<1>2. CASE Next
  BY <1>2, TypeProduce, TypeConsume DEF Next
<1> QED
  BY <1>1, <1>2

\* The type invariant of util/pcqueue.hh holds for every number of threads and
\* slots: in particular no semaphore is driven below zero and neither pointer
\* leaves storage_.
THEOREM TypeCorrect == Spec => []TypeOK
<1> QED
  BY TypeInit, TypeStep, PTL DEF Spec

(***************************************************************************)
(* Counting threads by the statement they are at                           *)
(***************************************************************************)

\* How the threads of a group that are at given statements change when one
\* thread moves.
LEMMA AtMove ==
  ASSUME NEW G \in SUBSET Threads, NEW W, NEW t \in Threads, NEW from, NEW to,
         TypeOK, Goto(t, from, to)
  PROVE  /\ (t \notin G \/ (from \in W <=> to \in W)) => At(G, W)' = At(G, W)
         /\ (t \in G /\ from \notin W /\ to \in W)
               => At(G, W)' = At(G, W) \cup {t} /\ t \notin At(G, W)
         /\ (t \in G /\ from \in W /\ to \notin W)
               => At(G, W)' = At(G, W) \ {t} /\ t \in At(G, W)
BY DEF TypeOK, Goto, At

LEMMA AtFinite ==
  ASSUME NEW G, IsFiniteSet(G), NEW W
  PROVE  IsFiniteSet(At(G, W)) /\ Cardinality(At(G, W)) \in Nat
<1>1. At(G, W) \subseteq G
  BY DEF At
<1> QED
  BY <1>1, FS_Subset, FS_CardinalityType

\* A group with a member at one of the statements has a positive count.
LEMMA AtPositive ==
  ASSUME NEW G, IsFiniteSet(G), NEW W, NEW t \in At(G, W)
  PROVE  Cardinality(At(G, W)) \in Nat /\ Cardinality(At(G, W)) >= 1
<1>1. IsFiniteSet(At(G, W)) /\ Cardinality(At(G, W)) \in Nat
  BY AtFinite
<1>2. Cardinality(At(G, W)) # 0
  BY <1>1, FS_EmptySet
<1> QED
  BY <1>1, <1>2

LEMMA AtCount ==
  ASSUME NEW G \in SUBSET Threads, IsFiniteSet(G), NEW W, NEW t \in Threads,
         NEW from, NEW to, TypeOK, Goto(t, from, to)
  PROVE  /\ Cardinality(At(G, W)) \in Nat
         /\ (t \notin G \/ (from \in W <=> to \in W))
               => Cardinality(At(G, W))' = Cardinality(At(G, W))
         /\ (t \in G /\ from \notin W /\ to \in W)
               => Cardinality(At(G, W))' = Cardinality(At(G, W)) + 1
         /\ (t \in G /\ from \in W /\ to \notin W)
               => /\ Cardinality(At(G, W))' = Cardinality(At(G, W)) - 1
                  /\ Cardinality(At(G, W)) >= 1
<1>1. IsFiniteSet(At(G, W)) /\ Cardinality(At(G, W)) \in Nat
  BY AtFinite
<1>2. CASE t \notin G \/ (from \in W <=> to \in W)
  BY <1>1, <1>2, AtMove
<1>3. CASE t \in G /\ from \notin W /\ to \in W
  <2>1. At(G, W)' = At(G, W) \cup {t} /\ t \notin At(G, W)
    BY <1>3, AtMove
  <2>2. Cardinality(At(G, W) \cup {t}) = Cardinality(At(G, W)) + 1
    BY <1>1, <2>1, FS_AddElement
  <2> QED
    BY <1>1, <1>3, <2>1, <2>2
<1>4. CASE t \in G /\ from \in W /\ to \notin W
  <2>1. At(G, W)' = At(G, W) \ {t} /\ t \in At(G, W)
    BY <1>4, AtMove
  <2>2. Cardinality(At(G, W) \ {t}) = Cardinality(At(G, W)) - 1
    BY <1>1, <2>1, FS_RemoveElement
  <2>3. Cardinality(At(G, W)) >= 1
    BY <2>1, AtPositive
  <2> QED
    BY <1>1, <1>4, <2>1, <2>2, <2>3
<1> QED
  BY <1>1, <1>2, <1>3, <1>4

InLockedCall == {"lock", "copy", "advance"}
One(from, to, W) == (IF to \in W THEN 1 ELSE 0) - (IF from \in W THEN 1 ELSE 0)

\* The four counts after a producer moves ...
LEMMA CountProduce ==
  ASSUME TypeOK, NEW p \in Producers, NEW from, NEW to, Goto(p, from, to)
  PROVE  /\ Cardinality(Claiming) \in Nat /\ Cardinality(Announcing) \in Nat
         /\ Cardinality(Draining) \in Nat /\ Cardinality(Freeing) \in Nat
         /\ Cardinality(Claiming)' = Cardinality(Claiming) + One(from, to, InLockedCall)
         /\ Cardinality(Announcing)' = Cardinality(Announcing) + One(from, to, {"post"})
         /\ Draining' = Draining /\ Freeing' = Freeing
<1>1. p \in Threads /\ p \notin Consumers /\ Producers \in SUBSET Threads
        /\ Consumers \in SUBSET Threads
  BY ThreadsAssumption DEF Threads
<1>2. IsFiniteSet(Producers) /\ IsFiniteSet(Consumers)
  BY ThreadsAssumption
<1>3. /\ Cardinality(Claiming) \in Nat
      /\ Cardinality(Claiming)' = Cardinality(Claiming) + One(from, to, InLockedCall)
  BY <1>1, <1>2, AtCount DEF Claiming, One, InLockedCall
<1>4. /\ Cardinality(Announcing) \in Nat
      /\ Cardinality(Announcing)' = Cardinality(Announcing) + One(from, to, {"post"})
  BY <1>1, <1>2, AtCount DEF Announcing, One
<1>5. Draining' = Draining /\ Freeing' = Freeing
  <2>1. ASSUME NEW W PROVE At(Consumers, W)' = At(Consumers, W)
    BY <1>1, AtMove
  <2> QED
    BY <2>1 DEF Draining, Freeing
<1>6. Cardinality(Draining) \in Nat /\ Cardinality(Freeing) \in Nat
  BY <1>2, AtFinite DEF Draining, Freeing
<1> QED
  BY <1>3, <1>4, <1>5, <1>6

\* ... and after a consumer moves.
LEMMA CountConsume ==
  ASSUME TypeOK, NEW c \in Consumers, NEW from, NEW to, Goto(c, from, to)
  PROVE  /\ Cardinality(Claiming) \in Nat /\ Cardinality(Announcing) \in Nat
         /\ Cardinality(Draining) \in Nat /\ Cardinality(Freeing) \in Nat
         /\ Cardinality(Draining)' = Cardinality(Draining) + One(from, to, InLockedCall)
         /\ Cardinality(Freeing)' = Cardinality(Freeing) + One(from, to, {"post"})
         /\ Claiming' = Claiming /\ Announcing' = Announcing
<1>1. c \in Threads /\ c \notin Producers /\ Producers \in SUBSET Threads
        /\ Consumers \in SUBSET Threads
  BY ThreadsAssumption DEF Threads
<1>2. IsFiniteSet(Producers) /\ IsFiniteSet(Consumers)
  BY ThreadsAssumption
<1>3. /\ Cardinality(Draining) \in Nat
      /\ Cardinality(Draining)' = Cardinality(Draining) + One(from, to, InLockedCall)
  BY <1>1, <1>2, AtCount DEF Draining, One, InLockedCall
<1>4. /\ Cardinality(Freeing) \in Nat
      /\ Cardinality(Freeing)' = Cardinality(Freeing) + One(from, to, {"post"})
  BY <1>1, <1>2, AtCount DEF Freeing, One
<1>5. Claiming' = Claiming /\ Announcing' = Announcing
  <2>1. ASSUME NEW W PROVE At(Producers, W)' = At(Producers, W)
    BY <1>1, AtMove
  <2> QED
    BY <2>1 DEF Claiming, Announcing
<1>6. Cardinality(Claiming) \in Nat /\ Cardinality(Announcing) \in Nat
  BY <1>2, AtFinite DEF Claiming, Announcing
<1> QED
  BY <1>3, <1>4, <1>5, <1>6

\* Filled never leaves 0 .. Size, is positive while a consumer is draining a
\* slot, and below Size while a producer is claiming one.
LEMMA FilledBounds ==
  ASSUME TypeOK, TokensConserved
  PROVE  /\ Filled \in 0 .. Size
         /\ (\E c \in Consumers : pc[c] \in InLockedCall) => Filled > 0
         /\ (\E p \in Producers : pc[p] \in InLockedCall) => Filled < Size
<1>1. /\ Cardinality(Claiming) \in Nat /\ Cardinality(Announcing) \in Nat
      /\ Cardinality(Draining) \in Nat /\ Cardinality(Freeing) \in Nat
  BY ThreadsAssumption, AtFinite DEF Claiming, Announcing, Draining, Freeing
<1>2. ASSUME NEW c \in Consumers, pc[c] \in InLockedCall
      PROVE  Cardinality(Draining) >= 1
  <2>1. c \in At(Consumers, InLockedCall)
    BY <1>2 DEF At
  <2> QED
    BY <2>1, ThreadsAssumption, AtPositive DEF Draining, InLockedCall
<1>3. ASSUME NEW p \in Producers, pc[p] \in InLockedCall
      PROVE  Cardinality(Claiming) >= 1
  <2>1. p \in At(Producers, InLockedCall)
    BY <1>3 DEF At
  <2> QED
    BY <2>1, ThreadsAssumption, AtPositive DEF Claiming, InLockedCall
<1> QED
  BY <1>1, <1>2, <1>3, SizeAssumption DEF TypeOK, TokensConserved, Filled

(***************************************************************************)
(* The inductive invariant                                                 *)
(***************************************************************************)

\* What a thread past its assignment copied is what it meant to copy.
CopiesMade ==
  /\ \A p \in Producers : pc[p] # "idle" => val[p] \in Values
  /\ \A p \in Producers : pc[p] = "advance" => storage[produce_at] = val[p]
  /\ \A c \in Consumers : pc[c] = "advance" => out[c] = storage[consume_at]

IInv ==
  /\ TypeOK
  /\ LockedScopes
  /\ TokensConserved
  /\ OnlyWholeElements
  /\ CopiesMade

LEMMA RaceFree == TypeOK /\ TokensConserved => NoDataRace
<1> SUFFICES ASSUME TypeOK, TokensConserved,
                    NEW p \in Producers, NEW c \in Consumers,
                    pc[p] \in {"copy", "advance"}, pc[c] \in {"copy", "advance"}
             PROVE  produce_at # consume_at
  BY DEF NoDataRace
<1>1. Filled \in 0 .. Size /\ Filled > 0 /\ Filled < Size
  BY FilledBounds DEF InLockedCall
<1> QED
  BY <1>1, SizeAssumption DEF TypeOK, TokensConserved, Slot, Slots

LEMMA InitIInv == Init => IInv
<1> SUFFICES ASSUME Init PROVE IInv
  OBVIOUS
<1>1. TypeOK
  BY TypeInit
<1>2. LockedScopes
  BY DEF Init, InitWith, LockedScopes, At, Threads
<1>3. /\ Cardinality(Claiming) = 0 /\ Cardinality(Announcing) = 0
      /\ Cardinality(Draining) = 0 /\ Cardinality(Freeing) = 0
  <2>1. Claiming = {} /\ Announcing = {} /\ Draining = {} /\ Freeing = {}
    BY DEF Init, InitWith, Claiming, Announcing, Draining, Freeing, At, Threads
  <2> QED
    BY <2>1, FS_EmptySet
<1>4. Filled = 0
  BY <1>3 DEF Filled, Init, InitWith
<1>5. TokensConserved
  BY <1>3, <1>4, SizeAssumption DEF TokensConserved, Init, InitWith, Slot
<1>6. OnlyWholeElements
  BY <1>4 DEF OnlyWholeElements, Init, InitWith, Threads
<1>7. CopiesMade
  BY DEF CopiesMade, Init, InitWith, Threads
<1> QED
  BY <1>1, <1>2, <1>5, <1>6, <1>7 DEF IInv

(***************************************************************************)
(* Preservation by a producer's step                                       *)
(***************************************************************************)

LEMMA LocksProduce ==
  ASSUME TypeOK, LockedScopes, NEW p \in Producers, ProduceCall(p) \/ ProduceStep(p)
  PROVE  LockedScopes'
<1> p \in Threads /\ p \notin Consumers
  BY ThreadsAssumption DEF Threads
<1> USE DEF TypeOK, LockedScopes, Goto, At
<1>1. CASE ProduceCall(p)
  BY <1>1 DEF ProduceCall
<1>2. CASE ProduceWait(p)
  BY <1>2 DEF ProduceWait
<1>3. CASE ProduceLock(p)
  BY <1>3 DEF ProduceLock
<1>4. CASE ProduceCopy(p)
  BY <1>4 DEF ProduceCopy
<1>5. CASE ProduceThrow(p)
  BY <1>5 DEF ProduceThrow
<1>6. CASE ProduceAdvance(p)
  BY <1>6 DEF ProduceAdvance
<1>7. CASE ProducePost(p)
  BY <1>7 DEF ProducePost
<1>8. CASE ProduceUnwind(p)
  BY <1>8 DEF ProduceUnwind
<1> QED
  BY <1>1, <1>2, <1>3, <1>4, <1>5, <1>6, <1>7, <1>8 DEF ProduceStep

\* Only the advance of a pointer changes Filled, and by one.
LEMMA FilledProduce ==
  ASSUME TypeOK, TokensConserved, NEW p \in Producers, ProduceCall(p) \/ ProduceStep(p)
  PROVE  /\ ProduceAdvance(p) => Filled' = Filled + 1
         /\ ~ProduceAdvance(p) => Filled' = Filled
         /\ TokensConserved'
<1> DEFINE Counts(d1, d2) ==
             /\ Cardinality(Claiming)' = Cardinality(Claiming) + d1
             /\ Cardinality(Announcing)' = Cardinality(Announcing) + d2
             /\ Draining' = Draining /\ Freeing' = Freeing
<1>0. /\ Filled \in 0 .. Size
      /\ pc[p] \in InLockedCall => Filled < Size
  BY FilledBounds
<1>n. /\ Cardinality(Claiming) \in Nat /\ Cardinality(Announcing) \in Nat
      /\ Cardinality(Draining) \in Nat /\ Cardinality(Freeing) \in Nat
  BY ThreadsAssumption, AtFinite DEF Claiming, Announcing, Draining, Freeing
<1>1. CASE ProduceCall(p)
  <2>1. Goto(p, "idle", "wait")
    BY <1>1 DEF ProduceCall
  <2>2. Counts(0, 0)
    BY <2>1, CountProduce DEF One, InLockedCall
  <2>3. Filled' = Filled + 0
    BY <1>n, <1>1, <2>2 DEF ProduceCall, TypeOK, Filled
  <2>4. TokensConserved'
    BY <1>0, <1>n, <1>1, <2>2, <2>3, SizeAssumption
       DEF ProduceCall, TypeOK, TokensConserved, Slot, Slots
  <2> QED
    BY <1>0, <1>1, <2>3, <2>4 DEF ProduceCall, ProduceAdvance, Goto
<1>2. CASE ProduceWait(p)
  <2>1. Goto(p, "wait", "lock")
    BY <1>2 DEF ProduceWait
  <2>2. Counts(1, 0)
    BY <2>1, CountProduce DEF One, InLockedCall
  <2>3. Filled' = Filled + 0
    BY <1>n, <1>2, <2>2 DEF ProduceWait, TypeOK, Filled
  <2>4. TokensConserved'
    BY <1>0, <1>n, <1>2, <2>2, <2>3, SizeAssumption
       DEF ProduceWait, TypeOK, TokensConserved, Slot, Slots
  <2> QED
    BY <1>0, <1>2, <2>3, <2>4 DEF ProduceWait, ProduceAdvance, Goto
<1>3. CASE ProduceLock(p)
  <2>1. Goto(p, "lock", "copy")
    BY <1>3 DEF ProduceLock
  <2>2. Counts(0, 0)
    BY <2>1, CountProduce DEF One, InLockedCall
  <2>3. Filled' = Filled + 0
    BY <1>n, <1>3, <2>2 DEF ProduceLock, TypeOK, Filled
  <2>4. TokensConserved'
    BY <1>0, <1>n, <1>3, <2>2, <2>3, SizeAssumption
       DEF ProduceLock, TypeOK, TokensConserved, Slot, Slots
  <2> QED
    BY <1>0, <1>3, <2>3, <2>4 DEF ProduceLock, ProduceAdvance, Goto
<1>4. CASE ProduceCopy(p)
  <2>1. Goto(p, "copy", "advance")
    BY <1>4 DEF ProduceCopy
  <2>2. Counts(0, 0)
    BY <2>1, CountProduce DEF One, InLockedCall
  <2>3. Filled' = Filled + 0
    BY <1>n, <1>4, <2>2 DEF ProduceCopy, TypeOK, Filled
  <2>4. TokensConserved'
    BY <1>0, <1>n, <1>4, <2>2, <2>3, SizeAssumption
       DEF ProduceCopy, TypeOK, TokensConserved, Slot, Slots
  <2> QED
    BY <1>0, <1>4, <2>3, <2>4 DEF ProduceCopy, ProduceAdvance, Goto
<1>5. CASE ProduceThrow(p)
  <2>1. Goto(p, "copy", "unwind")
    BY <1>5 DEF ProduceThrow
  <2>2. Counts(-1, 0)
    BY <2>1, CountProduce DEF One, InLockedCall
  <2>3. Filled' = Filled + 0
    BY <1>n, <1>5, <2>2 DEF ProduceThrow, TypeOK, Filled
  <2>4. TokensConserved'
    BY <1>0, <1>n, <1>5, <2>2, <2>3, SizeAssumption
       DEF ProduceThrow, TypeOK, TokensConserved, Slot, Slots
  <2> QED
    BY <1>0, <1>5, <2>3, <2>4 DEF ProduceThrow, ProduceAdvance, Goto
<1>6. CASE ProduceAdvance(p)
  <2>1. Goto(p, "advance", "post")
    BY <1>6 DEF ProduceAdvance
  <2>2. Counts(-1, 1)
    BY <2>1, CountProduce DEF One, InLockedCall
  <2>3. Filled' = Filled + 1
    BY <1>n, <1>6, <2>2 DEF ProduceAdvance, TypeOK, Filled
  <2>4. TokensConserved'
    <3>1. Filled < Size
      BY <1>0, <2>1 DEF Goto, InLockedCall
    <3>2. produce_at' = Slot(Filled)'
      BY <1>0, <1>6, <2>3, <3>1, SizeAssumption
         DEF ProduceAdvance, After, TypeOK, TokensConserved, Slot, Slots
    <3> QED
      BY <1>0, <1>n, <1>6, <2>2, <2>3, <3>2 DEF ProduceAdvance, TypeOK, TokensConserved
  <2> QED
    BY <1>0, <1>6, <2>3, <2>4 DEF ProduceAdvance, Goto
<1>7. CASE ProducePost(p)
  <2>1. Goto(p, "post", "idle")
    BY <1>7 DEF ProducePost
  <2>2. Counts(0, -1)
    BY <2>1, CountProduce DEF One, InLockedCall
  <2>3. Filled' = Filled + 0
    BY <1>n, <1>7, <2>2 DEF ProducePost, TypeOK, Filled
  <2>4. TokensConserved'
    BY <1>0, <1>n, <1>7, <2>2, <2>3, SizeAssumption
       DEF ProducePost, TypeOK, TokensConserved, Slot, Slots
  <2> QED
    BY <1>0, <1>7, <2>3, <2>4 DEF ProducePost, ProduceAdvance, Goto
<1>8. CASE ProduceUnwind(p)
  <2>1. Goto(p, "unwind", "idle")
    BY <1>8 DEF ProduceUnwind
  <2>2. Counts(0, 0)
    BY <2>1, CountProduce DEF One, InLockedCall
  <2>3. Filled' = Filled + 0
    BY <1>n, <1>8, <2>2 DEF ProduceUnwind, TypeOK, Filled
  <2>4. TokensConserved'
    BY <1>0, <1>n, <1>8, <2>2, <2>3, SizeAssumption
       DEF ProduceUnwind, TypeOK, TokensConserved, Slot, Slots
  <2> QED
    BY <1>0, <1>8, <2>3, <2>4 DEF ProduceUnwind, ProduceAdvance, Goto
<1> QED
  BY <1>1, <1>2, <1>3, <1>4, <1>5, <1>6, <1>7, <1>8 DEF ProduceStep

LEMMA ElementsProduce ==
  ASSUME IInv, NEW p \in Producers, ProduceCall(p) \/ ProduceStep(p)
  PROVE  OnlyWholeElements' /\ CopiesMade'
<1>0. TypeOK /\ LockedScopes /\ TokensConserved /\ OnlyWholeElements /\ CopiesMade
  BY DEF IInv
<1>a. /\ Filled \in 0 .. Size
      /\ pc[p] \in InLockedCall => Filled < Size
  BY <1>0, FilledBounds
<1>b. \A q \in Producers : pc[p] \in {"copy", "advance"} /\ pc[q] = "advance" => q = p
  BY <1>0 DEF LockedScopes, At
<1>c. \A c \in Consumers :
        pc[p] \in {"copy", "advance"} /\ pc[c] = "advance" => produce_at # consume_at
  BY <1>0, RaceFree DEF NoDataRace
<1>d. /\ ProduceAdvance(p) => Filled' = Filled + 1
      /\ ~ProduceAdvance(p) => Filled' = Filled
  BY <1>0, FilledProduce
<1>e. \A c \in Consumers : c # p /\ p \in Threads
  BY ThreadsAssumption DEF Threads
<1>f. p \in Threads
  BY DEF Threads
\* Writing the slot at produce_at touches no element of the queue.
<1>w. ASSUME pc[p] = "copy", NEW v, storage' = [storage EXCEPT ![produce_at] = v],
             UNCHANGED <<consume_at, out>>, Filled' = Filled,
             \A c \in Consumers : pc'[c] = pc[c]
      PROVE  OnlyWholeElements'
  <2>1. Filled < Size
    BY <1>a, <1>w DEF InLockedCall
  <2>2. \A k \in 1 .. Filled : Slot(k - 1) # produce_at /\ Slot(k - 1) \in Slots
    BY <1>0, <1>a, <2>1, SizeAssumption DEF TypeOK, TokensConserved, Slot, Slots
  <2>3. \A k \in 1 .. Filled : storage'[Slot(k - 1)] = storage[Slot(k - 1)]
    BY <1>0, <1>w, <2>2 DEF TypeOK
  <2>4. \A k : Slot(k)' = Slot(k)
    BY <1>w DEF Slot
  <2> QED
    BY <1>0, <1>w, <2>3, <2>4 DEF OnlyWholeElements
<1> USE <1>0, <1>a, <1>b, <1>c, <1>d, <1>e, <1>f
<1>1. CASE ProduceCall(p)
  BY <1>1 DEF ProduceCall, ProduceAdvance, Goto, TypeOK, OnlyWholeElements, CopiesMade, Slot
<1>2. CASE ProduceWait(p)
  BY <1>2 DEF ProduceWait, ProduceAdvance, Goto, TypeOK, OnlyWholeElements, CopiesMade, Slot
<1>3. CASE ProduceLock(p)
  BY <1>3 DEF ProduceLock, ProduceAdvance, Goto, TypeOK, OnlyWholeElements, CopiesMade, Slot
<1>4. CASE ProduceCopy(p)
  <2>1. Filled' = Filled
    BY <1>4 DEF ProduceCopy, ProduceAdvance, Goto
  <2>2. OnlyWholeElements'
    <3>1. /\ pc[p] = "copy" /\ UNCHANGED <<consume_at, out>>
          /\ \A c \in Consumers : pc'[c] = pc[c]
      BY <1>4 DEF ProduceCopy, Goto, TypeOK
    <3>2. PICK v : storage' = [storage EXCEPT ![produce_at] = v]
      BY <1>4 DEF ProduceCopy
    <3> QED
      BY <1>w, <2>1, <3>1, <3>2
  <2>3. CopiesMade'
    BY <1>4 DEF ProduceCopy, Goto, TypeOK, CopiesMade
  <2> QED
    BY <2>2, <2>3
<1>5. CASE ProduceThrow(p)
  <2>1. Filled' = Filled
    BY <1>5 DEF ProduceThrow, ProduceAdvance, Goto
  <2>2. OnlyWholeElements'
    <3>1. /\ pc[p] = "copy" /\ UNCHANGED <<consume_at, out>>
          /\ \A c \in Consumers : pc'[c] = pc[c]
      BY <1>5 DEF ProduceThrow, Goto, TypeOK
    <3>2. PICK v : storage' = [storage EXCEPT ![produce_at] = v]
      BY <1>5 DEF ProduceThrow
    <3> QED
      BY <1>w, <2>1, <3>1, <3>2
  <2>3. CopiesMade'
    BY <1>5 DEF ProduceThrow, Goto, TypeOK, CopiesMade
  <2> QED
    BY <2>2, <2>3
<1>6. CASE ProduceAdvance(p)
  <2>1. Filled' = Filled + 1
    BY <1>6
  <2>2. \A k \in 1 .. Filled + 1 : storage[Slot(k - 1)] \in Values
    <3>1. storage[Slot(Filled)] \in Values
      BY <1>6 DEF ProduceAdvance, Goto, CopiesMade, TokensConserved
    <3>2. \A k \in 1 .. Filled + 1 : k = Filled + 1 \/ k \in 1 .. Filled
      OBVIOUS
    <3> QED
      BY <3>1, <3>2 DEF OnlyWholeElements
  <2>3. OnlyWholeElements'
    BY <1>6, <2>1, <2>2 DEF ProduceAdvance, Goto, TypeOK, OnlyWholeElements, Slot
  <2>4. CopiesMade'
    BY <1>6 DEF ProduceAdvance, Goto, TypeOK, CopiesMade
  <2> QED
    BY <2>3, <2>4
<1>7. CASE ProducePost(p)
  BY <1>7 DEF ProducePost, ProduceAdvance, Goto, TypeOK, OnlyWholeElements, CopiesMade, Slot
<1>8. CASE ProduceUnwind(p)
  BY <1>8 DEF ProduceUnwind, ProduceAdvance, Goto, TypeOK, OnlyWholeElements, CopiesMade, Slot
<1> QED
  BY <1>1, <1>2, <1>3, <1>4, <1>5, <1>6, <1>7, <1>8 DEF ProduceStep

(***************************************************************************)
(* Preservation by a consumer's step                                       *)
(***************************************************************************)

LEMMA LocksConsume ==
  ASSUME TypeOK, LockedScopes, NEW c \in Consumers, ConsumeCall(c) \/ ConsumeStep(c)
  PROVE  LockedScopes'
<1> c \in Threads /\ c \notin Producers
  BY ThreadsAssumption DEF Threads
<1> USE DEF TypeOK, LockedScopes, Goto, At
<1>1. CASE ConsumeCall(c)
  BY <1>1 DEF ConsumeCall
<1>2. CASE ConsumeWait(c)
  BY <1>2 DEF ConsumeWait
<1>3. CASE ConsumeLock(c)
  BY <1>3 DEF ConsumeLock
<1>4. CASE ConsumeCopy(c)
  BY <1>4 DEF ConsumeCopy
<1>5. CASE ConsumeThrow(c)
  BY <1>5 DEF ConsumeThrow
<1>6. CASE ConsumeAdvance(c)
  BY <1>6 DEF ConsumeAdvance
<1>7. CASE ConsumePost(c)
  BY <1>7 DEF ConsumePost
<1>8. CASE ConsumeUnwind(c)
  BY <1>8 DEF ConsumeUnwind
<1> QED
  BY <1>1, <1>2, <1>3, <1>4, <1>5, <1>6, <1>7, <1>8 DEF ConsumeStep

LEMMA FilledConsume ==
  ASSUME TypeOK, TokensConserved, NEW c \in Consumers, ConsumeCall(c) \/ ConsumeStep(c)
  PROVE  /\ ConsumeAdvance(c) => Filled' = Filled - 1
         /\ ~ConsumeAdvance(c) => Filled' = Filled
         /\ TokensConserved'
<1> DEFINE Counts(d1, d2) ==
             /\ Cardinality(Draining)' = Cardinality(Draining) + d1
             /\ Cardinality(Freeing)' = Cardinality(Freeing) + d2
             /\ Claiming' = Claiming /\ Announcing' = Announcing
<1>0. /\ Filled \in 0 .. Size
      /\ pc[c] \in InLockedCall => Filled > 0
  BY FilledBounds
<1>n. /\ Cardinality(Claiming) \in Nat /\ Cardinality(Announcing) \in Nat
      /\ Cardinality(Draining) \in Nat /\ Cardinality(Freeing) \in Nat
  BY ThreadsAssumption, AtFinite DEF Claiming, Announcing, Draining, Freeing
<1>1. CASE ConsumeCall(c)
  <2>1. Goto(c, "idle", "wait")
    BY <1>1 DEF ConsumeCall
  <2>2. Counts(0, 0)
    BY <2>1, CountConsume DEF One, InLockedCall
  <2>3. Filled' = Filled + 0
    BY <1>n, <1>1, <2>2 DEF ConsumeCall, TypeOK, Filled
  <2>4. TokensConserved'
    BY <1>0, <1>n, <1>1, <2>2, <2>3, SizeAssumption
       DEF ConsumeCall, TypeOK, TokensConserved, Slot, Slots
  <2> QED
    BY <1>0, <1>1, <2>3, <2>4 DEF ConsumeCall, ConsumeAdvance, Goto
<1>2. CASE ConsumeWait(c)
  <2>1. Goto(c, "wait", "lock")
    BY <1>2 DEF ConsumeWait
  <2>2. Counts(1, 0)
    BY <2>1, CountConsume DEF One, InLockedCall
  <2>3. Filled' = Filled + 0
    BY <1>n, <1>2, <2>2 DEF ConsumeWait, TypeOK, Filled
  <2>4. TokensConserved'
    BY <1>0, <1>n, <1>2, <2>2, <2>3, SizeAssumption
       DEF ConsumeWait, TypeOK, TokensConserved, Slot, Slots
  <2> QED
    BY <1>0, <1>2, <2>3, <2>4 DEF ConsumeWait, ConsumeAdvance, Goto
<1>3. CASE ConsumeLock(c)
  <2>1. Goto(c, "lock", "copy")
    BY <1>3 DEF ConsumeLock
  <2>2. Counts(0, 0)
    BY <2>1, CountConsume DEF One, InLockedCall
  <2>3. Filled' = Filled + 0
    BY <1>n, <1>3, <2>2 DEF ConsumeLock, TypeOK, Filled
  <2>4. TokensConserved'
    BY <1>0, <1>n, <1>3, <2>2, <2>3, SizeAssumption
       DEF ConsumeLock, TypeOK, TokensConserved, Slot, Slots
  <2> QED
    BY <1>0, <1>3, <2>3, <2>4 DEF ConsumeLock, ConsumeAdvance, Goto
<1>4. CASE ConsumeCopy(c)
  <2>1. Goto(c, "copy", "advance")
    BY <1>4 DEF ConsumeCopy
  <2>2. Counts(0, 0)
    BY <2>1, CountConsume DEF One, InLockedCall
  <2>3. Filled' = Filled + 0
    BY <1>n, <1>4, <2>2 DEF ConsumeCopy, TypeOK, Filled
  <2>4. TokensConserved'
    BY <1>0, <1>n, <1>4, <2>2, <2>3, SizeAssumption
       DEF ConsumeCopy, TypeOK, TokensConserved, Slot, Slots
  <2> QED
    BY <1>0, <1>4, <2>3, <2>4 DEF ConsumeCopy, ConsumeAdvance, Goto
<1>5. CASE ConsumeThrow(c)
  <2>1. Goto(c, "copy", "unwind")
    BY <1>5 DEF ConsumeThrow
  <2>2. Counts(-1, 0)
    BY <2>1, CountConsume DEF One, InLockedCall
  <2>3. Filled' = Filled + 0
    BY <1>n, <1>5, <2>2 DEF ConsumeThrow, TypeOK, Filled
  <2>4. TokensConserved'
    BY <1>0, <1>n, <1>5, <2>2, <2>3, SizeAssumption
       DEF ConsumeThrow, TypeOK, TokensConserved, Slot, Slots
  <2> QED
    BY <1>0, <1>5, <2>3, <2>4 DEF ConsumeThrow, ConsumeAdvance, Goto
<1>6. CASE ConsumeAdvance(c)
  <2>1. Goto(c, "advance", "post")
    BY <1>6 DEF ConsumeAdvance
  <2>2. Counts(-1, 1)
    BY <2>1, CountConsume DEF One, InLockedCall
  <2>3. Filled' = Filled - 1
    BY <1>n, <1>6, <2>2 DEF ConsumeAdvance, TypeOK, Filled
  <2>4. TokensConserved'
    <3>1. Filled > 0
      BY <1>0, <2>1 DEF Goto, InLockedCall
    <3>2. produce_at' = Slot(Filled)'
      BY <1>0, <1>6, <2>3, <3>1, SizeAssumption
         DEF ConsumeAdvance, After, TypeOK, TokensConserved, Slot, Slots
    <3> QED
      BY <1>0, <1>n, <1>6, <2>2, <2>3, <3>2 DEF ConsumeAdvance, TypeOK, TokensConserved
  <2> QED
    BY <1>0, <1>6, <2>3, <2>4 DEF ConsumeAdvance, Goto
<1>7. CASE ConsumePost(c)
  <2>1. Goto(c, "post", "idle")
    BY <1>7 DEF ConsumePost
  <2>2. Counts(0, -1)
    BY <2>1, CountConsume DEF One, InLockedCall
  <2>3. Filled' = Filled + 0
    BY <1>n, <1>7, <2>2 DEF ConsumePost, TypeOK, Filled
  <2>4. TokensConserved'
    BY <1>0, <1>n, <1>7, <2>2, <2>3, SizeAssumption
       DEF ConsumePost, TypeOK, TokensConserved, Slot, Slots
  <2> QED
    BY <1>0, <1>7, <2>3, <2>4 DEF ConsumePost, ConsumeAdvance, Goto
<1>8. CASE ConsumeUnwind(c)
  <2>1. Goto(c, "unwind", "idle")
    BY <1>8 DEF ConsumeUnwind
  <2>2. Counts(0, 0)
    BY <2>1, CountConsume DEF One, InLockedCall
  <2>3. Filled' = Filled + 0
    BY <1>n, <1>8, <2>2 DEF ConsumeUnwind, TypeOK, Filled
  <2>4. TokensConserved'
    BY <1>0, <1>n, <1>8, <2>2, <2>3, SizeAssumption
       DEF ConsumeUnwind, TypeOK, TokensConserved, Slot, Slots
  <2> QED
    BY <1>0, <1>8, <2>3, <2>4 DEF ConsumeUnwind, ConsumeAdvance, Goto
<1> QED
  BY <1>1, <1>2, <1>3, <1>4, <1>5, <1>6, <1>7, <1>8 DEF ConsumeStep

LEMMA ElementsConsume ==
  ASSUME IInv, NEW c \in Consumers, ConsumeCall(c) \/ ConsumeStep(c)
  PROVE  OnlyWholeElements' /\ CopiesMade'
<1>0. TypeOK /\ LockedScopes /\ TokensConserved /\ OnlyWholeElements /\ CopiesMade
  BY DEF IInv
<1>a. /\ Filled \in 0 .. Size
      /\ pc[c] \in InLockedCall => Filled > 0
  BY <1>0, FilledBounds
<1>b. \A q \in Consumers : pc[c] \in {"copy", "advance"} /\ pc[q] = "advance" => q = c
  BY <1>0 DEF LockedScopes, At
<1>d. /\ ConsumeAdvance(c) => Filled' = Filled - 1
      /\ ~ConsumeAdvance(c) => Filled' = Filled
  BY <1>0, FilledConsume
<1>e. c \in Threads /\ \A p \in Producers : c # p
  BY ThreadsAssumption DEF Threads
<1> USE <1>0, <1>a, <1>b, <1>d, <1>e
<1>1. CASE ConsumeCall(c)
  BY <1>1 DEF ConsumeCall, ConsumeAdvance, Goto, TypeOK, OnlyWholeElements, CopiesMade, Slot
<1>2. CASE ConsumeWait(c)
  BY <1>2 DEF ConsumeWait, ConsumeAdvance, Goto, TypeOK, OnlyWholeElements, CopiesMade, Slot
<1>3. CASE ConsumeLock(c)
  BY <1>3 DEF ConsumeLock, ConsumeAdvance, Goto, TypeOK, OnlyWholeElements, CopiesMade, Slot
<1>4. CASE ConsumeCopy(c)
  <2>1. storage[consume_at] \in Values
    <3>1. Filled > 0
      BY <1>4 DEF ConsumeCopy, Goto, InLockedCall
    <3>2. Slot(1 - 1) = consume_at /\ 1 \in 1 .. Filled
      BY <3>1, SizeAssumption DEF Slot, Slots, TypeOK
    <3> QED
      BY <3>2 DEF OnlyWholeElements
  <2> QED
    BY <1>4, <2>1 DEF ConsumeCopy, ConsumeAdvance, Goto, TypeOK, OnlyWholeElements, CopiesMade, Slot
<1>5. CASE ConsumeThrow(c)
  BY <1>5 DEF ConsumeThrow, ConsumeAdvance, Goto, TypeOK, OnlyWholeElements, CopiesMade, Slot
<1>6. CASE ConsumeAdvance(c)
  <2>1. Filled' = Filled - 1 /\ Filled > 0
    BY <1>6 DEF ConsumeAdvance, Goto, InLockedCall
  <2>2. \A k \in 1 .. Filled - 1 : Slot(k - 1)' = Slot((k + 1) - 1) /\ k + 1 \in 1 .. Filled
    BY <1>6, <2>1, SizeAssumption DEF ConsumeAdvance, After, Slot, Slots, TypeOK
  <2>3. OnlyWholeElements'
    BY <1>6, <2>1, <2>2 DEF ConsumeAdvance, Goto, TypeOK, OnlyWholeElements
  <2>4. CopiesMade'
    BY <1>6 DEF ConsumeAdvance, Goto, TypeOK, CopiesMade
  <2> QED
    BY <2>3, <2>4
<1>7. CASE ConsumePost(c)
  BY <1>7 DEF ConsumePost, ConsumeAdvance, Goto, TypeOK, OnlyWholeElements, CopiesMade, Slot
<1>8. CASE ConsumeUnwind(c)
  BY <1>8 DEF ConsumeUnwind, ConsumeAdvance, Goto, TypeOK, OnlyWholeElements, CopiesMade, Slot
<1> QED
  BY <1>1, <1>2, <1>3, <1>4, <1>5, <1>6, <1>7, <1>8 DEF ConsumeStep

(***************************************************************************)
(* The theorems                                                            *)
(***************************************************************************)

LEMMA StepIInv == IInv /\ [Next]_vars => IInv'
<1> SUFFICES ASSUME IInv, [Next]_vars PROVE IInv'
  OBVIOUS
<1>1. CASE UNCHANGED vars
  BY <1>1 DEF vars, IInv, TypeOK, LockedScopes, TokensConserved, OnlyWholeElements,
     CopiesMade, At, Filled, Slot, Claiming, Announcing, Draining, Freeing
<1>2. ASSUME NEW p \in Producers, ProduceCall(p) \/ ProduceStep(p) PROVE IInv'
  BY <1>2, TypeProduce, LocksProduce, FilledProduce, ElementsProduce DEF IInv
<1>3. ASSUME NEW c \in Consumers, ConsumeCall(c) \/ ConsumeStep(c) PROVE IInv'
  BY <1>3, TypeConsume, LocksConsume, FilledConsume, ElementsConsume DEF IInv
<1> QED
  BY <1>1, <1>2, <1>3 DEF Next

THEOREM Invariant == Spec => []IInv
<1> QED
  BY InitIInv, StepIInv, PTL DEF Spec

\* Produce and Consume never create or lose a semaphore token, whichever way
\* they end: the tokens always add up to the number of slots.
THEOREM TokensAreConserved == Spec => []TokensConserved
<1>1. IInv => TokensConserved
  BY DEF IInv
<1> QED
  BY <1>1, Invariant, PTL

\* A producer and a consumer never work on one slot at the same time, although
\* they hold different mutexes.
THEOREM DataRaceFree == Spec => []NoDataRace
<1>1. IInv => NoDataRace
  BY RaceFree DEF IInv
<1> QED
  BY <1>1, Invariant, PTL

\* No consumer ever takes a slot that was not completely written.
THEOREM TakesWholeElements == Spec => []OnlyWholeElements
<1>1. IInv => OnlyWholeElements
  BY DEF IInv
<1> QED
  BY <1>1, Invariant, PTL

(***************************************************************************)
(* PCQueue implements BlockingFifo.  A call maps to the abstract one; the  *)
(* advance of a pointer is the step at which it takes effect, and every    *)
(* other statement in between (the assignment of a slot included) is a     *)
(* stutter.                                                                *)
(***************************************************************************)

\* The abstract view of the state.
View == <<Content, CallStatus, val, Returning>>

LEMMA ContentSeq ==
  ASSUME IInv
  PROVE  Filled \in 0 .. Size /\ Content \in Seq(Values) /\ Len(Content) = Filled
<1>1. Filled \in 0 .. Size
  BY FilledBounds DEF IInv
<1>2. \A k \in 1 .. Filled : storage[Slot(k - 1)] \in Values
  BY DEF IInv, OnlyWholeElements
<1> QED
  BY <1>1, <1>2 DEF Content

LEMMA RefineInit == Init => Fifo!Init
<1> SUFFICES ASSUME Init PROVE Fifo!Init
  OBVIOUS
<1>1. Content = << >>
  <2>1. IInv
    BY InitIInv
  <2>2. Filled = 0
    <3>1. Announcing = {} /\ Draining = {}
      BY DEF Init, InitWith, Announcing, Draining, At, Threads
    <3> QED
      BY <3>1, FS_EmptySet DEF Filled, Init, InitWith
  <2> QED
    BY <2>1, <2>2, ContentSeq
<1>2. CallStatus = [t \in Threads |-> "idle"]
  BY DEF Init, InitWith, CallStatus
<1>3. Returning = [c \in Consumers |-> Null]
  BY DEF Init, InitWith, Returning, Threads
<1> QED
  BY <1>1, <1>2, <1>3 DEF Fifo!Init, Fifo!Threads, Threads, Init, InitWith

\* How the abstract status follows a thread's statement.
LEMMA StatusMove ==
  ASSUME TypeOK, NEW t \in Threads, NEW from, NEW to \in PCs, Goto(t, from, to)
  PROVE  /\ CallStatus[t] = IF from = "idle" THEN "idle"
                            ELSE IF from = "post" THEN "done" ELSE "called"
         /\ CallStatus' = [CallStatus EXCEPT ![t] =
                             IF to = "idle" THEN "idle"
                             ELSE IF to = "post" THEN "done" ELSE "called"]
         /\ (from # "idle" /\ from # "post" /\ to # "idle" /\ to # "post")
               => CallStatus' = CallStatus
BY DEF Goto, TypeOK, CallStatus, PCs

\* The content is untouched as long as no pointer moves and a write goes to
\* the free slot at produce_at.
LEMMA ContentSame ==
  ASSUME Filled' = Filled, UNCHANGED <<storage, consume_at>>
  PROVE  Content' = Content
BY DEF Content, Slot

LEMMA ContentWrite ==
  ASSUME IInv, Filled' = Filled, UNCHANGED consume_at, Filled < Size,
         NEW v, storage' = [storage EXCEPT ![produce_at] = v]
  PROVE  Content' = Content
<1> USE SizeAssumption DEF IInv
<1>1. Filled \in 0 .. Size
  BY ContentSeq
<1>2. \A k \in 1 .. Filled : Slot(k - 1) # produce_at /\ Slot(k - 1) \in Slots
  BY <1>1 DEF TypeOK, TokensConserved, Slot, Slots
<1>3. \A k \in 1 .. Filled : storage'[Slot(k - 1)] = storage[Slot(k - 1)]
  BY <1>2 DEF TypeOK
<1>4. \A k : Slot(k)' = Slot(k)
  BY DEF Slot
<1> QED
  BY <1>3, <1>4 DEF Content

LEMMA ContentAppend ==
  ASSUME IInv, NEW p \in Producers, ProduceAdvance(p)
  PROVE  Content' = Append(Content, val[p]) /\ Len(Content) < Size
<1>1. Filled \in 0 .. Size /\ Len(Content) = Filled /\ Content \in Seq(Values)
  BY ContentSeq
<1>2. Filled < Size
  BY FilledBounds DEF IInv, ProduceAdvance, Goto, InLockedCall
<1>3. Filled' = Filled + 1
  BY FilledProduce DEF IInv, ProduceStep
<1>4. storage[Slot(Filled)] = val[p]
  BY DEF IInv, CopiesMade, ProduceAdvance, Goto, TokensConserved
<1>5. \A k : Slot(k)' = Slot(k)
  BY DEF Slot, ProduceAdvance
<1>6. Content' = [k \in 1 .. Filled + 1 |-> storage[Slot(k - 1)]]
  BY <1>3, <1>5 DEF Content, ProduceAdvance
<1>7. Content' \in Seq(Values) /\ Len(Content') = Filled + 1 /\ val[p] \in Values
  <2>1. val[p] \in Values
    BY DEF IInv, CopiesMade, ProduceAdvance, Goto
  <2>2. \A k \in 1 .. Filled + 1 : storage[Slot(k - 1)] \in Values
    BY <1>1, <1>4, <2>1 DEF IInv, OnlyWholeElements
  <2> QED
    BY <1>1, <1>6, <2>1, <2>2
<1>8. \A k \in 1 .. Len(Content') : Content'[k] = Append(Content, val[p])[k]
  <2>1. \A k \in 1 .. Filled : Content[k] = storage[Slot(k - 1)]
    BY DEF Content
  <2>2. \A k \in 1 .. Filled + 1 : Content'[k] = storage[Slot(k - 1)]
    BY <1>6
  <2>3. \A k \in 1 .. Filled + 1 : k \in 1 .. Filled \/ k = Filled + 1
    BY <1>1
  <2>4. /\ \A k \in 1 .. Filled : Append(Content, val[p])[k] = Content[k]
        /\ Append(Content, val[p])[Filled + 1] = val[p]
    BY <1>1, <1>7, AppendProperties
  <2>5. (Filled + 1) - 1 = Filled
    BY <1>1
  <2> QED
    BY <1>4, <1>7, <2>1, <2>2, <2>3, <2>4, <2>5
<1>9. Append(Content, val[p]) \in Seq(Values) /\ Len(Append(Content, val[p])) = Filled + 1
  BY <1>1, <1>7, AppendProperties
<1>10. Content' = Append(Content, val[p])
  BY <1>7, <1>8, <1>9, SeqEqual
<1> QED
  BY <1>1, <1>2, <1>10

LEMMA ContentTail ==
  ASSUME IInv, NEW c \in Consumers, ConsumeAdvance(c)
  PROVE  Content # << >> /\ Head(Content) = out[c] /\ Content' = Tail(Content)
<1>1. Filled \in 0 .. Size /\ Len(Content) = Filled /\ Content \in Seq(Values)
  BY ContentSeq
<1>2. Filled > 0
  BY FilledBounds DEF IInv, ConsumeAdvance, Goto, InLockedCall
<1>3. Filled' = Filled - 1
  BY FilledConsume DEF IInv, ConsumeStep
<1>4. Slot(0) = consume_at
  BY SizeAssumption DEF Slot, Slots, IInv, TypeOK
<1>5. \A k \in 1 .. Filled - 1 : Slot(k - 1)' = Slot(k)
  BY <1>1, SizeAssumption DEF ConsumeAdvance, After, Slot, Slots, IInv, TypeOK
<1>6. Content' = [k \in 1 .. Filled - 1 |-> storage[Slot(k)]]
  BY <1>3, <1>5 DEF Content, ConsumeAdvance
<1>7. Head(Content) = out[c]
  BY <1>1, <1>2, <1>4 DEF Content, IInv, CopiesMade, ConsumeAdvance, Goto
<1>8. Content # << >>
  BY <1>1, <1>2
<1>9. /\ Tail(Content) \in Seq(Values) /\ Len(Tail(Content)) = Filled - 1
      /\ \A k \in 1 .. Filled - 1 : Tail(Content)[k] = Content[k + 1]
  BY <1>1, <1>8, HeadTailProperties
<1>10. Content' \in Seq(Values) /\ Len(Content') = Filled - 1
  <2>1. \A k \in 1 .. Filled - 1 : storage[Slot(k)] = storage[Slot((k + 1) - 1)] /\ k + 1 \in 1 .. Filled
    BY <1>1
  <2>2. \A k \in 1 .. Filled - 1 : storage[Slot(k)] \in Values
    BY <2>1 DEF IInv, OnlyWholeElements
  <2> QED
    BY <1>1, <1>2, <1>6, <2>2
<1>11. \A k \in 1 .. Filled - 1 : Content'[k] = Content[k + 1]
  <2>1. \A k \in 1 .. Filled : Content[k] = storage[Slot(k - 1)]
    BY DEF Content
  <2>2. \A k \in 1 .. Filled - 1 : k + 1 \in 1 .. Filled /\ (k + 1) - 1 = k
    BY <1>1
  <2> QED
    BY <1>6, <2>1, <2>2
<1>12. Content' = Tail(Content)
  BY <1>9, <1>10, <1>11, SeqEqual
<1> QED
  BY <1>7, <1>8, <1>12

\* A producer's step is a step of the abstract queue or leaves View unchanged.
LEMMA RefineProduce ==
  ASSUME IInv, NEW p \in Producers, ProduceCall(p) \/ ProduceStep(p)
  PROVE  \/ Fifo!CallProduce(p) \/ Fifo!Put(p) \/ Fifo!ReturnProduce(p) \/ Fifo!Fail(p)
         \/ UNCHANGED View
<1>0. TypeOK /\ TokensConserved /\ p \in Threads
  BY DEF IInv, Threads
<1>a. /\ ProduceAdvance(p) => Filled' = Filled + 1
      /\ ~ProduceAdvance(p) => Filled' = Filled
  BY <1>0, FilledProduce
<1>b. pc[p] = "copy" => Filled < Size
  BY <1>0, FilledBounds DEF InLockedCall
<1>r. UNCHANGED out => Returning' = Returning
  <2>1. PICK from, to : Goto(p, from, to)
    BY DEF ProduceStep, ProduceCall, ProduceWait, ProduceLock, ProduceCopy, ProduceThrow,
           ProduceAdvance, ProducePost, ProduceUnwind
  <2>2. \A c \in Consumers : c \in Threads /\ c # p
    BY ThreadsAssumption DEF Threads
  <2>3. \A c \in Consumers : pc'[c] = pc[c]
    BY <1>0, <2>1, <2>2 DEF Goto, TypeOK
  <2> QED
    BY <2>3 DEF Returning
<1>1. CASE ProduceCall(p)
  <2>1. Goto(p, "idle", "wait")
    BY <1>1 DEF ProduceCall
  <2>2. CallStatus[p] = "idle" /\ CallStatus' = [CallStatus EXCEPT ![p] = "called"]
    BY <1>0, <2>1, StatusMove DEF PCs
  <2>3. Content' = Content
    BY <1>a, <1>1, <2>1, ContentSame DEF ProduceCall, ProduceAdvance, Goto
  <2> QED
    BY <1>r, <1>1, <2>2, <2>3 DEF ProduceCall, Fifo!CallProduce
<1>2. CASE ProduceWait(p)
  <2>1. Goto(p, "wait", "lock")
    BY <1>2 DEF ProduceWait
  <2>2. CallStatus' = CallStatus
    BY <1>0, <2>1, StatusMove DEF PCs
  <2>3. Content' = Content
    BY <1>a, <1>2, <2>1, ContentSame DEF ProduceWait, ProduceAdvance, Goto
  <2> QED
    BY <1>r, <1>2, <2>2, <2>3 DEF ProduceWait, View
<1>3. CASE ProduceLock(p)
  <2>1. Goto(p, "lock", "copy")
    BY <1>3 DEF ProduceLock
  <2>2. CallStatus' = CallStatus
    BY <1>0, <2>1, StatusMove DEF PCs
  <2>3. Content' = Content
    BY <1>a, <1>3, <2>1, ContentSame DEF ProduceLock, ProduceAdvance, Goto
  <2> QED
    BY <1>r, <1>3, <2>2, <2>3 DEF ProduceLock, View
<1>4. CASE ProduceCopy(p)
  <2>1. Goto(p, "copy", "advance")
    BY <1>4 DEF ProduceCopy
  <2>2. CallStatus' = CallStatus
    BY <1>0, <2>1, StatusMove DEF PCs
  <2>3. Content' = Content
    <3>1. PICK v : storage' = [storage EXCEPT ![produce_at] = v]
      BY <1>4 DEF ProduceCopy
    <3>2. Filled' = Filled /\ Filled < Size
      BY <1>a, <1>b, <2>1, <1>4 DEF ProduceCopy, ProduceAdvance, Goto
    <3> QED
      BY <1>4, <3>1, <3>2, ContentWrite DEF ProduceCopy
  <2> QED
    BY <1>r, <1>4, <2>2, <2>3 DEF ProduceCopy, View
<1>5. CASE ProduceThrow(p)
  <2>1. Goto(p, "copy", "unwind")
    BY <1>5 DEF ProduceThrow
  <2>2. CallStatus' = CallStatus
    BY <1>0, <2>1, StatusMove DEF PCs
  <2>3. Content' = Content
    <3>1. PICK v : storage' = [storage EXCEPT ![produce_at] = v]
      BY <1>5 DEF ProduceThrow
    <3>2. Filled' = Filled /\ Filled < Size
      BY <1>a, <1>b, <2>1, <1>5 DEF ProduceThrow, ProduceAdvance, Goto
    <3> QED
      BY <1>5, <3>1, <3>2, ContentWrite DEF ProduceThrow
  <2> QED
    BY <1>r, <1>5, <2>2, <2>3 DEF ProduceThrow, View
<1>6. CASE ProduceAdvance(p)
  <2>1. Goto(p, "advance", "post")
    BY <1>6 DEF ProduceAdvance
  <2>2. CallStatus[p] = "called" /\ CallStatus' = [CallStatus EXCEPT ![p] = "done"]
    BY <1>0, <2>1, StatusMove DEF PCs
  <2>3. Content' = Append(Content, val[p]) /\ Len(Content) < Size
    BY <1>6, ContentAppend
  <2> QED
    BY <1>r, <1>6, <2>2, <2>3 DEF ProduceAdvance, Fifo!Put
<1>7. CASE ProducePost(p)
  <2>1. Goto(p, "post", "idle")
    BY <1>7 DEF ProducePost
  <2>2. CallStatus[p] = "done" /\ CallStatus' = [CallStatus EXCEPT ![p] = "idle"]
    BY <1>0, <2>1, StatusMove DEF PCs
  <2>3. Content' = Content
    BY <1>a, <1>7, <2>1, ContentSame DEF ProducePost, ProduceAdvance, Goto
  <2> QED
    BY <1>r, <1>7, <2>2, <2>3 DEF ProducePost, Fifo!ReturnProduce
<1>8. CASE ProduceUnwind(p)
  <2>1. Goto(p, "unwind", "idle")
    BY <1>8 DEF ProduceUnwind
  <2>2. CallStatus[p] = "called" /\ CallStatus' = [CallStatus EXCEPT ![p] = "idle"]
    BY <1>0, <2>1, StatusMove DEF PCs
  <2>3. Content' = Content
    BY <1>a, <1>8, <2>1, ContentSame DEF ProduceUnwind, ProduceAdvance, Goto
  <2> QED
    BY <1>r, <1>8, <2>2, <2>3 DEF ProduceUnwind, Fifo!Fail
<1> QED
  BY <1>1, <1>2, <1>3, <1>4, <1>5, <1>6, <1>7, <1>8 DEF ProduceStep

LEMMA ReturningMove ==
  ASSUME TypeOK, NEW c \in Consumers, NEW from, NEW to \in PCs, Goto(c, from, to)
  PROVE  /\ (from # "post" /\ to # "post" /\ \A d \in Consumers \ {c} : out'[d] = out[d])
               => Returning' = Returning
         /\ (to = "post" /\ UNCHANGED out)
               => Returning' = [Returning EXCEPT ![c] = out[c]]
         /\ (to # "post" /\ UNCHANGED out)
               => Returning' = [Returning EXCEPT ![c] = Null]
<1>1. c \in Threads /\ \A d \in Consumers : d \in Threads
  BY DEF Threads
<1> QED
  BY <1>1 DEF Goto, TypeOK, Returning, PCs

\* A consumer's step is a step of the abstract queue or leaves View unchanged.
LEMMA RefineConsume ==
  ASSUME IInv, NEW c \in Consumers, ConsumeCall(c) \/ ConsumeStep(c)
  PROVE  \/ Fifo!CallConsume(c) \/ Fifo!Take(c) \/ Fifo!ReturnConsume(c) \/ Fifo!Fail(c)
         \/ UNCHANGED View
<1>0. TypeOK /\ TokensConserved /\ c \in Threads
  BY DEF IInv, Threads
<1>a. /\ ConsumeAdvance(c) => Filled' = Filled - 1
      /\ ~ConsumeAdvance(c) => Filled' = Filled
  BY <1>0, FilledConsume
<1>1. CASE ConsumeCall(c)
  <2>1. Goto(c, "idle", "wait")
    BY <1>1 DEF ConsumeCall
  <2>2. CallStatus[c] = "idle" /\ CallStatus' = [CallStatus EXCEPT ![c] = "called"]
    BY <1>0, <2>1, StatusMove DEF PCs
  <2>3. Content' = Content
    BY <1>a, <1>1, <2>1, ContentSame DEF ConsumeCall, ConsumeAdvance, Goto
  <2>4. Returning' = Returning
    BY <1>0, <1>1, <2>1, ReturningMove DEF PCs, ConsumeCall
  <2> QED
    BY <1>1, <2>2, <2>3, <2>4 DEF ConsumeCall, Fifo!CallConsume
<1>2. CASE ConsumeWait(c)
  <2>1. Goto(c, "wait", "lock")
    BY <1>2 DEF ConsumeWait
  <2>2. CallStatus' = CallStatus
    BY <1>0, <2>1, StatusMove DEF PCs
  <2>3. Content' = Content
    BY <1>a, <1>2, <2>1, ContentSame DEF ConsumeWait, ConsumeAdvance, Goto
  <2>4. \A d \in Consumers \ {c} : out'[d] = out[d]
    BY <1>0, <1>2 DEF ConsumeWait, TypeOK
  <2>5. Returning' = Returning
    BY <1>0, <2>1, <2>4, ReturningMove DEF PCs
  <2> QED
    BY <1>2, <2>2, <2>3, <2>5 DEF ConsumeWait, View
<1>3. CASE ConsumeLock(c)
  <2>1. Goto(c, "lock", "copy")
    BY <1>3 DEF ConsumeLock
  <2>2. CallStatus' = CallStatus
    BY <1>0, <2>1, StatusMove DEF PCs
  <2>3. Content' = Content
    BY <1>a, <1>3, <2>1, ContentSame DEF ConsumeLock, ConsumeAdvance, Goto
  <2>4. \A d \in Consumers \ {c} : out'[d] = out[d]
    BY <1>0, <1>3 DEF ConsumeLock, TypeOK
  <2>5. Returning' = Returning
    BY <1>0, <2>1, <2>4, ReturningMove DEF PCs
  <2> QED
    BY <1>3, <2>2, <2>3, <2>5 DEF ConsumeLock, View
<1>4. CASE ConsumeCopy(c)
  <2>1. Goto(c, "copy", "advance")
    BY <1>4 DEF ConsumeCopy
  <2>2. CallStatus' = CallStatus
    BY <1>0, <2>1, StatusMove DEF PCs
  <2>3. Content' = Content
    BY <1>a, <1>4, <2>1, ContentSame DEF ConsumeCopy, ConsumeAdvance, Goto
  <2>4. \A d \in Consumers \ {c} : out'[d] = out[d]
    BY <1>0, <1>4 DEF ConsumeCopy, TypeOK
  <2>5. Returning' = Returning
    BY <1>0, <2>1, <2>4, ReturningMove DEF PCs
  <2> QED
    BY <1>4, <2>2, <2>3, <2>5 DEF ConsumeCopy, View
<1>5. CASE ConsumeThrow(c)
  <2>1. Goto(c, "copy", "unwind")
    BY <1>5 DEF ConsumeThrow
  <2>2. CallStatus' = CallStatus
    BY <1>0, <2>1, StatusMove DEF PCs
  <2>3. Content' = Content
    BY <1>a, <1>5, <2>1, ContentSame DEF ConsumeThrow, ConsumeAdvance, Goto
  <2>4. \A d \in Consumers \ {c} : out'[d] = out[d]
    BY <1>0, <1>5 DEF ConsumeThrow, TypeOK
  <2>5. Returning' = Returning
    BY <1>0, <2>1, <2>4, ReturningMove DEF PCs
  <2> QED
    BY <1>5, <2>2, <2>3, <2>5 DEF ConsumeThrow, View
<1>6. CASE ConsumeAdvance(c)
  <2>1. Goto(c, "advance", "post")
    BY <1>6 DEF ConsumeAdvance
  <2>2. CallStatus[c] = "called" /\ CallStatus' = [CallStatus EXCEPT ![c] = "done"]
    BY <1>0, <2>1, StatusMove DEF PCs
  <2>3. Content # << >> /\ Head(Content) = out[c] /\ Content' = Tail(Content)
    BY <1>6, ContentTail
  <2>4. Returning' = [Returning EXCEPT ![c] = out[c]]
    BY <1>0, <1>6, <2>1, ReturningMove DEF PCs, ConsumeAdvance
  <2> QED
    BY <1>6, <2>2, <2>3, <2>4 DEF ConsumeAdvance, Fifo!Take
<1>7. CASE ConsumePost(c)
  <2>1. Goto(c, "post", "idle")
    BY <1>7 DEF ConsumePost
  <2>2. CallStatus[c] = "done" /\ CallStatus' = [CallStatus EXCEPT ![c] = "idle"]
    BY <1>0, <2>1, StatusMove DEF PCs
  <2>3. Content' = Content
    BY <1>a, <1>7, <2>1, ContentSame DEF ConsumePost, ConsumeAdvance, Goto
  <2>4. Returning' = [Returning EXCEPT ![c] = Null]
    BY <1>0, <1>7, <2>1, ReturningMove DEF PCs, ConsumePost
  <2> QED
    BY <1>7, <2>2, <2>3, <2>4 DEF ConsumePost, Fifo!ReturnConsume
<1>8. CASE ConsumeUnwind(c)
  <2>1. Goto(c, "unwind", "idle")
    BY <1>8 DEF ConsumeUnwind
  <2>2. CallStatus[c] = "called" /\ CallStatus' = [CallStatus EXCEPT ![c] = "idle"]
    BY <1>0, <2>1, StatusMove DEF PCs
  <2>3. Content' = Content
    BY <1>a, <1>8, <2>1, ContentSame DEF ConsumeUnwind, ConsumeAdvance, Goto
  <2>4. Returning' = Returning
    BY <1>0, <1>8, <2>1, ReturningMove DEF PCs, ConsumeUnwind
  <2> QED
    BY <1>8, <2>2, <2>3, <2>4 DEF ConsumeUnwind, Fifo!Fail
<1> QED
  BY <1>1, <1>2, <1>3, <1>4, <1>5, <1>6, <1>7, <1>8 DEF ConsumeStep

LEMMA RefineStep == IInv /\ [Next]_vars => [Fifo!Next]_Fifo!vars
<1> SUFFICES ASSUME IInv, [Next]_vars PROVE [Fifo!Next]_Fifo!vars
  OBVIOUS
<1>1. CASE UNCHANGED vars
  <2>1. UNCHANGED View
    BY <1>1 DEF vars, View, Content, CallStatus, Returning, Filled, Slot,
                Announcing, Draining, At
  <2> QED
    BY <2>1 DEF View, Fifo!vars
<1>2. ASSUME NEW p \in Producers, ProduceCall(p) \/ ProduceStep(p)
      PROVE  [Fifo!Next]_Fifo!vars
  BY <1>2, RefineProduce DEF View, Fifo!vars, Fifo!Next
<1>3. ASSUME NEW c \in Consumers, ConsumeCall(c) \/ ConsumeStep(c)
      PROVE  [Fifo!Next]_Fifo!vars
  BY <1>3, RefineConsume DEF View, Fifo!vars, Fifo!Next
<1> QED
  BY <1>1, <1>2, <1>3 DEF Next

\* The header's promise, "safe for multiple producers and multiple consumers"
\* with a "strong exception guarantee": for any number of threads and slots,
\* every Produce and Consume takes effect at one instant, in FIFO order and
\* within capacity, and a call that throws takes none.
THEOREM Refinement == Spec => ImplementsFifo
<1> QED
  BY RefineInit, RefineStep, Invariant, PTL DEF Spec, ImplementsFifo, Fifo!Spec
=============================================================================
