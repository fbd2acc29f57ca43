------------------------------ MODULE PCQueue ------------------------------
(***************************************************************************)
(* util/pcqueue.hh: the bounded queue every multithreaded part of KenLM is *)
(* built on.  A ring of Size slots, two counting semaphores (empty, used), *)
(* one mutex per end.  Each thread runs one call of Produce or Consume at  *)
(* a time; pc says which statement of the call it executes next:           *)
(*    "wait"    WaitSemaphore                                              *)
(*    "lock"    construction of the unique_lock                            *)
(*    "copy"    the element assignment, which may throw                    *)
(*    "advance" the pointer increment with its wrap, then the unlock       *)
(*    "post"    post of the opposite semaphore, then return                *)
(*    "unwind"  the exception leaves the locked scope                      *)
(***************************************************************************)
EXTENDS Naturals, Sequences, FiniteSets

CONSTANTS Producers, Consumers,
          Values,      \* the values of type T that are passed
          Size,        \* the constructor's argument
          Null,        \* a T whose assignment was cut short, or never made
          CopyThrows   \* whether T's operator= may throw

ASSUME SizeAssumption == Size \in Nat \ {0}
ASSUME ThreadsAssumption ==
  /\ IsFiniteSet(Producers)
  /\ IsFiniteSet(Consumers)
  /\ Producers \cap Consumers = {}
ASSUME ValuesAssumption == Null \notin Values
ASSUME ThrowsAssumption == CopyThrows \in BOOLEAN

VARIABLES empty, used,                           \* the semaphores' counts
          storage,                               \* slot -> T
          produce_at, consume_at,                \* slot each end works on
          produce_at_mutex, consume_at_mutex,    \* holders: {} or {thread}
          pc,
          val,                                   \* Produce's argument
          out                                    \* Consume's result

vars == <<empty, used, storage, produce_at, consume_at,
          produce_at_mutex, consume_at_mutex, pc, val, out>>

Threads == Producers \cup Consumers
Slots == 0 .. Size - 1

InitWith(tokens) ==
  /\ empty = tokens
  /\ used = 0
  /\ storage = [s \in Slots |-> Null]
  /\ produce_at = 0
  /\ consume_at = 0
  /\ produce_at_mutex = {}
  /\ consume_at_mutex = {}
  /\ pc = [t \in Threads |-> "idle"]
  /\ val = [p \in Producers |-> Null]
  /\ out = [c \in Consumers |-> Null]

\* A fault the properties must notice: one token more than there are slots.
InitFault == InitWith(Size + 1)

Init == InitWith(Size)

Goto(t, from, to) ==
  /\ pc[t] = from
  /\ pc' = [pc EXCEPT ![t] = to]

\* if (++at == end_) at = storage_.get();
After(slot) == IF slot + 1 = Size THEN 0 ELSE slot + 1

-----------------------------------------------------------------------------
(* Faults: plausible mistakes in the actions below, each of which breaks a *)
(* property.  No specification uses them.                                  *)

\* The exception handler forgets to post empty_.
ProduceThrowNoPost(p) ==
  /\ CopyThrows
  /\ Goto(p, "copy", "unwind")
  /\ UNCHANGED <<empty, used, storage, produce_at, consume_at,
                 produce_at_mutex, consume_at_mutex, val, out>>

\* The element whose assignment threw is skipped.
ConsumeThrowFault(c) ==
  /\ CopyThrows
  /\ Goto(c, "copy", "unwind")
  /\ consume_at' = After(consume_at)
  /\ empty' = empty + 1
  /\ UNCHANGED <<used, storage, produce_at, produce_at_mutex, consume_at_mutex, val, out>>

\* Consume forgets to post empty_.
ConsumePostFault(c) ==
  /\ Goto(c, "post", "idle")
  /\ UNCHANGED <<empty, used, storage, produce_at, consume_at,
                 produce_at_mutex, consume_at_mutex, val, out>>

-----------------------------------------------------------------------------
(* Produce                                                                 *)

ProduceCall(p) ==
  /\ Goto(p, "idle", "wait")
  /\ \E v \in Values : val' = [val EXCEPT ![p] = v]
  /\ UNCHANGED <<empty, used, storage, produce_at, consume_at,
                 produce_at_mutex, consume_at_mutex, out>>

ProduceWait(p) ==
  /\ Goto(p, "wait", "lock")
  /\ empty > 0
  /\ empty' = empty - 1
  /\ UNCHANGED <<used, storage, produce_at, consume_at,
                 produce_at_mutex, consume_at_mutex, val, out>>

ProduceLock(p) ==
  /\ Goto(p, "lock", "copy")
  /\ produce_at_mutex = {}
  /\ produce_at_mutex' = {p}
  /\ UNCHANGED <<empty, used, storage, produce_at, consume_at,
                 consume_at_mutex, val, out>>

ProduceCopy(p) ==
  /\ Goto(p, "copy", "advance")
  /\ storage' = [storage EXCEPT ![produce_at] = val[p]]
  /\ UNCHANGED <<empty, used, produce_at, consume_at,
                 produce_at_mutex, consume_at_mutex, val, out>>

\* operator= throws: the slot keeps its old content or is left half written.
\* The handler posts empty_ before the lock is released.
ProduceThrow(p) ==
  /\ CopyThrows
  /\ Goto(p, "copy", "unwind")
  /\ \E junk \in {storage[produce_at], Null} :
       storage' = [storage EXCEPT ![produce_at] = junk]
  /\ empty' = empty + 1
  /\ UNCHANGED <<used, produce_at, consume_at,
                 produce_at_mutex, consume_at_mutex, val, out>>

ProduceAdvance(p) ==
  /\ Goto(p, "advance", "post")
  /\ produce_at' = After(produce_at)
  /\ produce_at_mutex' = {}
  /\ UNCHANGED <<empty, used, storage, consume_at, consume_at_mutex, val, out>>

ProducePost(p) ==
  /\ Goto(p, "post", "idle")
  /\ used' = used + 1
  /\ UNCHANGED <<empty, storage, produce_at, consume_at,
                 produce_at_mutex, consume_at_mutex, val, out>>

ProduceUnwind(p) ==
  /\ Goto(p, "unwind", "idle")
  /\ produce_at_mutex' = {}
  /\ UNCHANGED <<empty, used, storage, produce_at, consume_at,
                 consume_at_mutex, val, out>>

ProduceStep(p) ==
  \/ ProduceWait(p) \/ ProduceLock(p) \/ ProduceCopy(p) \/ ProduceThrow(p)
  \/ ProduceAdvance(p) \/ ProducePost(p) \/ ProduceUnwind(p)

-----------------------------------------------------------------------------
(* Consume                                                                 *)

ConsumeCall(c) ==
  /\ Goto(c, "idle", "wait")
  /\ UNCHANGED <<empty, used, storage, produce_at, consume_at,
                 produce_at_mutex, consume_at_mutex, val, out>>

ConsumeWait(c) ==
  /\ Goto(c, "wait", "lock")
  /\ used > 0
  /\ used' = used - 1
  /\ UNCHANGED <<empty, storage, produce_at, consume_at,
                 produce_at_mutex, consume_at_mutex, val, out>>

ConsumeLock(c) ==
  /\ Goto(c, "lock", "copy")
  /\ consume_at_mutex = {}
  /\ consume_at_mutex' = {c}
  /\ UNCHANGED <<empty, used, storage, produce_at, consume_at,
                 produce_at_mutex, val, out>>

ConsumeCopy(c) ==
  /\ Goto(c, "copy", "advance")
  /\ out' = [out EXCEPT ![c] = storage[consume_at]]
  /\ UNCHANGED <<empty, used, storage, produce_at, consume_at,
                 produce_at_mutex, consume_at_mutex, val>>

ConsumeThrow(c) ==
  /\ CopyThrows
  /\ Goto(c, "copy", "unwind")
  /\ \E junk \in {out[c], Null} : out' = [out EXCEPT ![c] = junk]
  /\ used' = used + 1
  /\ UNCHANGED <<empty, storage, produce_at, consume_at,
                 produce_at_mutex, consume_at_mutex, val>>

ConsumeAdvance(c) ==
  /\ Goto(c, "advance", "post")
  /\ consume_at' = After(consume_at)
  /\ consume_at_mutex' = {}
  /\ UNCHANGED <<empty, used, storage, produce_at, produce_at_mutex, val, out>>

ConsumePost(c) ==
  /\ Goto(c, "post", "idle")
  /\ empty' = empty + 1
  /\ UNCHANGED <<used, storage, produce_at, consume_at,
                 produce_at_mutex, consume_at_mutex, val, out>>

ConsumeUnwind(c) ==
  /\ Goto(c, "unwind", "idle")
  /\ consume_at_mutex' = {}
  /\ UNCHANGED <<empty, used, storage, produce_at, consume_at,
                 produce_at_mutex, val, out>>

ConsumeStep(c) ==
  \/ ConsumeWait(c) \/ ConsumeLock(c) \/ ConsumeCopy(c) \/ ConsumeThrow(c)
  \/ ConsumeAdvance(c) \/ ConsumePost(c) \/ ConsumeUnwind(c)

-----------------------------------------------------------------------------
Next ==
  \/ \E p \in Producers : ProduceCall(p) \/ ProduceStep(p)
  \/ \E c \in Consumers : ConsumeCall(c) \/ ConsumeStep(c)

Spec == Init /\ [][Next]_vars

\* The operating system schedules every runnable thread: a thread inside a
\* call takes its next statement if that statement stays executable.  Nothing
\* obliges a thread to start a call.
FairSpec ==
  /\ Spec
  /\ \A p \in Producers : WF_vars(ProduceStep(p))
  /\ \A c \in Consumers : WF_vars(ConsumeStep(c))

-----------------------------------------------------------------------------
(* Who holds which token                                                   *)

At(group, where) == {t \in group : pc[t] \in where}

\* Producers that took an "empty" token and have not filled its slot.
Claiming == At(Producers, {"lock", "copy", "advance"})
\* Producers that filled a slot and have not announced it.
Announcing == At(Producers, {"post"})
\* Consumers that took a "used" token and have not emptied its slot.
Draining == At(Consumers, {"lock", "copy", "advance"})
\* Consumers that emptied a slot and have not given it back.
Freeing == At(Consumers, {"post"})

\* Slots that hold an element nobody has taken yet.
Filled == used + Cardinality(Announcing) + Cardinality(Draining)

\* The slot k places after consume_at.
Slot(k) == IF consume_at + k < Size THEN consume_at + k ELSE consume_at + k - Size

\* The queue's content, oldest element first.
Content == [k \in 1 .. Filled |-> storage[Slot(k - 1)]]

\* A call takes effect when it moves its pointer.
CallStatus ==
  [t \in Threads |->
     CASE pc[t] = "idle" -> "idle"
       [] pc[t] = "post" -> "done"
       [] OTHER -> "called"]

\* What the consumers whose calls took effect are about to return.
Returning == [c \in Consumers |-> IF pc[c] = "post" THEN out[c] ELSE Null]

-----------------------------------------------------------------------------
(* Properties                                                              *)

\* Every variable keeps its type: the semaphores are never negative, the
\* pointers stay inside storage_, a thread is at a statement of its call.
TypeOK ==
  /\ empty \in Nat
  /\ used \in Nat
  /\ storage \in [Slots -> Values \cup {Null}]
  /\ produce_at \in Slots
  /\ consume_at \in Slots
  /\ produce_at_mutex \in SUBSET Producers
  /\ consume_at_mutex \in SUBSET Consumers
  /\ pc \in [Threads -> {"idle", "wait", "lock", "copy", "advance", "post", "unwind"}]
  /\ val \in [Producers -> Values \cup {Null}]
  /\ out \in [Consumers -> Values \cup {Null}]

\* Each end's mutex is held by exactly the thread inside its locked scope.
LockedScopes ==
  /\ produce_at_mutex = At(Producers, {"copy", "advance", "unwind"})
  /\ consume_at_mutex = At(Consumers, {"copy", "advance", "unwind"})
  /\ \A s, t \in produce_at_mutex : s = t
  /\ \A s, t \in consume_at_mutex : s = t

\* No call, finished or failed, creates or loses a token: the tokens in the
\* two semaphores and in the hands of threads always add up to the number of
\* slots, and the distance from consume_at to produce_at is the number of
\* filled slots.  With the try/catch blocks wrong, the queue would slowly
\* lose capacity or overwrite unread elements.
TokensConserved ==
  /\ empty + Cardinality(Claiming) + Filled + Cardinality(Freeing) = Size
  /\ produce_at = Slot(Filled)

\* produce_at_mutex_ and consume_at_mutex_ are two different mutexes: what
\* keeps a producer and a consumer from touching one slot at the same time is
\* only the semaphores' arithmetic.
NoDataRace ==
  \A p \in Producers, c \in Consumers :
     (pc[p] \in {"copy", "advance"} /\ pc[c] \in {"copy", "advance"})
        => produce_at # consume_at

\* An element that reached the queue is whole: neither a default-constructed
\* slot nor one whose assignment was cut short is ever taken.
OnlyWholeElements ==
  /\ \A k \in 1 .. Filled : storage[Slot(k - 1)] \in Values
  /\ \A c \in Consumers : pc[c] \in {"advance", "post"} => out[c] \in Values

\* "safe for multiple producers and multiple consumers ... Strong exception
\* guarantee if operator= throws" (the comment of the class): every call takes
\* effect at the instant it moves its pointer, in FIFO order and within
\* capacity, and a throwing call changes nothing.
Fifo == INSTANCE BlockingFifo WITH
  queue <- Content, status <- CallStatus, given <- val, got <- Returning

ImplementsFifo == Fifo!Spec

\* No lost wake-up on the consuming side: while the queue holds elements and a
\* consumer is inside its call, some consumer keeps taking elements, or failing
\* to.
ConsumersProgress ==
  \/ []<>(Filled = 0 \/ At(Consumers, {"wait", "lock", "copy", "advance"}) = {})
  \/ []<><<\E c \in Consumers : ConsumeAdvance(c) \/ ConsumeThrow(c)>>_vars

\* The same for the producing side and free slots.
ProducersProgress ==
  \/ []<>(Filled = Size \/ At(Producers, {"wait", "lock", "copy", "advance"}) = {})
  \/ []<><<\E p \in Producers : ProduceAdvance(p) \/ ProduceThrow(p)>>_vars

\* No wake-up is lost, on either side.
Progress == ConsumersProgress /\ ProducersProgress
=============================================================================
