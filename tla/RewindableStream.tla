-------------------------- MODULE RewindableStream --------------------------
(***************************************************************************)
(* util/stream/rewindable_stream.{hh,cc}: a cursor over the records of a   *)
(* chain's blocks that can go back to a mark.  Blocks from the mark on are *)
(* buffered in blocks; earlier ones are handed on.                         *)
(*                                                                         *)
(* Pointers are addresses: block b's memory is Base(b) .. Base(b) +        *)
(* PerBlock - 1, one address per record, and the blocks are adjacent, as   *)
(* Chain::Start lays them out.  A block also carries "start", the number   *)
(* of its first record in the stream.  The chain around the stream gives   *)
(* blocks (Give), ends the data (EndInput, when the stream is behind a     *)
(* reader) and recycles what the stream hands on (Drain).  The queues      *)
(* never refuse a block (Chain's ProduceNeverWaits).                       *)
(*                                                                         *)
(* Assertions are off, as in the Release build CMakeLists.txt chooses.     *)
(* pc: "fetch" Consume in AppendBlock; "ready" between calls; "closing"    *)
(* Consume in Poison; "closed"; "aborted".                                 *)
(***************************************************************************)
EXTENDS Integers, Sequences, FiniteSets

CONSTANTS BlockCount,  \* the chain's block_count
          PerBlock,    \* records in a full block
          Sizes,       \* valid sizes, in records, of the blocks that arrive
          MaxPos,      \* bound on the records the user walks over
          None         \* NULL

ASSUME CountAssumption == BlockCount \in Nat /\ BlockCount >= 2   \* checked by Init
ASSUME SizesAssumption == PerBlock \in Nat \ {0} /\ Sizes \subseteq 0 .. PerBlock
ASSUME PosAssumption == MaxPos \in Nat
ASSUME NoneAssumption == None \notin Int /\ None \notin [mem : Nat, size : Nat, start : Nat]

VARIABLES first,        \* the stream is first in the chain: full blocks, and no poison, arrive
          in, out,      \* the queues: blocks, or None for poison
          blocks,       \* blocks_, the buffered blocks
          blocks_it,    \* index, from 0, of the block current_ is in
          current, block_end, marked,
          hit_poison, poisoned,
          progress,     \* records handed on
          pc,
          free,         \* memory on its way back to the start of the chain
          given,        \* records given so far
          ended,        \* poison was given
          received      \* records the chain downstream has had

stream == <<blocks, blocks_it, current, block_end, marked, hit_poison, poisoned, progress>>
chain == <<free, given, ended, received>>
vars == <<first, in, out, stream, pc, chain>>

Base(b) == b * PerBlock
BlockEnd(block) == Base(block.mem) + block.size
Back(seq) == seq[Len(seq)]

Init ==
  /\ first \in BOOLEAN
  /\ in = << >> /\ out = << >>
  /\ blocks = << >> /\ blocks_it = 0
  /\ current = None /\ block_end = None /\ marked = None
  /\ hit_poison = FALSE /\ poisoned = FALSE
  /\ progress = 0
  /\ pc = "fetch"
  /\ free = [i \in 1 .. BlockCount |-> i - 1]
  /\ given = 0 /\ received = 0
  /\ ended = FALSE

\* Records in a sequence of blocks: record j of block i, for every i and j.
Records(bs) ==
  Cardinality({record \in (1 .. Len(bs)) \X (1 .. PerBlock) : record[2] <= bs[record[1]].size})

\* Flush(begin + n): hand on the first n buffered blocks.
Flush(bs, n) ==
  /\ out' = out \o SubSeq(bs, 1, n)
  /\ progress' = progress + Records(SubSeq(bs, 1, n))

\* Faults of AppendBlock: its limit is one block too high; one too low.
AppendBlockHigh(bs) ==
  IF Len(bs) > BlockCount
    THEN pc' = "aborted" /\ UNCHANGED poisoned
    ELSE IF hit_poison
      THEN poisoned' = TRUE /\ UNCHANGED pc
      ELSE pc' = "fetch" /\ UNCHANGED poisoned
AppendBlockLow(bs) ==
  IF Len(bs) + 1 >= BlockCount
    THEN pc' = "aborted" /\ UNCHANGED poisoned
    ELSE IF hit_poison
      THEN poisoned' = TRUE /\ UNCHANGED pc
      ELSE pc' = "fetch" /\ UNCHANGED poisoned

\* The tests with which AppendBlock begins, the buffer being bs.
AppendBlock(bs) ==
  IF Len(bs) >= BlockCount
    THEN pc' = "aborted" /\ UNCHANGED poisoned
    ELSE IF hit_poison
      THEN poisoned' = TRUE /\ UNCHANGED pc
      ELSE pc' = "fetch" /\ UNCHANGED poisoned

-----------------------------------------------------------------------------
(* Faults: plausible mistakes in the actions below, each of which breaks a *)
(* property.  No specification uses them.                                  *)

\* The cursor goes back to the beginning of the marked block.
RewindToBlock ==
  /\ pc = "ready"
  /\ marked # None
  /\ poisoned' = (poisoned /\ current = marked)
  /\ blocks_it' = 0
  /\ current' = Base(blocks[1].mem)
  /\ block_end' = BlockEnd(blocks[1])
  /\ UNCHANGED <<first, in, out, blocks, marked, hit_poison, progress, pc, chain>>

-----------------------------------------------------------------------------
(* The stream                                                              *)

\* The loop of AppendBlock.
Fetch ==
  /\ pc = "fetch"
  /\ in # << >>
  /\ in' = Tail(in)
  /\ LET get == Head(in)
     IN  IF get = None
           THEN /\ hit_poison' = TRUE /\ poisoned' = TRUE
                /\ pc' = "ready"
                /\ UNCHANGED <<blocks, blocks_it, current, block_end>>
           ELSE /\ blocks' = Append(blocks, get)
                /\ IF get.size = 0
                     THEN UNCHANGED <<pc, blocks_it, current, block_end>>
                     ELSE /\ pc' = "ready"
                          /\ current' = Base(get.mem)
                          /\ block_end' = BlockEnd(get)
                          /\ blocks_it' = Len(blocks)
                /\ UNCHANGED <<hit_poison, poisoned>>
  /\ UNCHANGED <<first, out, marked, progress, chain>>

\* The number of the record under the cursor.
Pos == IF blocks_it < Len(blocks)
         THEN LET b == blocks[blocks_it + 1] IN b.start + current - Base(b.mem)
         ELSE IF blocks = << >> THEN progress ELSE Back(blocks).start + Back(blocks).size

\* operator++ inside a block ...
Advance ==
  /\ pc = "ready" /\ ~poisoned
  /\ Pos < MaxPos
  /\ current + 1 # block_end
  /\ current' = current + 1
  /\ UNCHANGED <<first, in, out, blocks, blocks_it, block_end, marked, hit_poison, poisoned,
                 progress, pc, chain>>

\* ... into a block that is still buffered after a Rewind ...
AdvanceBuffered ==
  /\ pc = "ready" /\ ~poisoned
  /\ Pos < MaxPos
  /\ current + 1 = block_end
  /\ blocks_it + 1 # Len(blocks)
  /\ blocks_it' = blocks_it + 1
  /\ current' = Base(blocks[blocks_it + 2].mem)
  /\ block_end' = BlockEnd(blocks[blocks_it + 2])
  /\ UNCHANGED <<first, in, out, blocks, marked, hit_poison, poisoned, progress, pc, chain>>

\* ... or out of the last one.
AdvanceAppend ==
  /\ pc = "ready" /\ ~poisoned
  /\ Pos < MaxPos
  /\ current + 1 = block_end
  /\ blocks_it + 1 = Len(blocks)
  /\ current' = current + 1
  /\ IF marked = None
       THEN /\ Flush(blocks, Len(blocks))
            /\ blocks' = << >>
            /\ blocks_it' = 0
       ELSE /\ blocks_it' = blocks_it + 1
            /\ UNCHANGED <<out, blocks, progress>>
  /\ AppendBlock(blocks')
  /\ UNCHANGED <<first, in, block_end, marked, hit_poison, chain>>

Mark ==
  /\ pc = "ready" /\ ~poisoned
  /\ marked' = current
  /\ Flush(blocks, blocks_it)
  /\ blocks' = SubSeq(blocks, blocks_it + 1, Len(blocks))
  /\ blocks_it' = 0
  /\ UNCHANGED <<first, in, current, block_end, hit_poison, poisoned, pc, chain>>

Rewind ==
  /\ pc = "ready"
  /\ marked # None
  /\ poisoned' = (poisoned /\ current = marked)
  /\ blocks_it' = 0
  /\ current' = marked
  /\ block_end' = BlockEnd(blocks[1])
  /\ UNCHANGED <<first, in, out, blocks, marked, hit_poison, progress, pc, chain>>

\* The valid size Poison gives to the last block: up to the cursor.  After an
\* empty last block the cursor is elsewhere and the difference means nothing.
CutSizes ==
  LET base == Base(Back(blocks).mem)
  IN  IF current \in base .. base + PerBlock THEN {current - base} ELSE 0 .. PerBlock

\* Poison, which the destructor calls too.  A stream behind a reader is only
\* ended when the reader's data is.
Poison ==
  /\ pc = "ready"
  /\ first \/ hit_poison
  /\ blocks # << >> /\ blocks_it + 1 >= Len(blocks)
  /\ \E size \in CutSizes :
       LET cut == [blocks EXCEPT ![Len(blocks)].size = size]
           all == out \o cut
       IN  /\ out' = IF hit_poison THEN Append(all, None) ELSE all
           /\ progress' = progress + Records(cut)
  /\ blocks' = << >>
  /\ blocks_it' = 0
  /\ IF hit_poison
       THEN poisoned' = TRUE /\ pc' = "closed"
       ELSE pc' = "closing" /\ UNCHANGED poisoned
  /\ UNCHANGED <<first, in, current, block_end, marked, hit_poison, chain>>

\* if (blocks_.empty()) return;
PoisonNothing ==
  /\ pc = "ready"
  /\ blocks = << >>
  /\ pc' = "closed"
  /\ UNCHANGED <<first, in, out, stream, chain>>

\* A block that has come round is made the poison.
PoisonConsume ==
  /\ pc = "closing"
  /\ in # << >>
  /\ in' = Tail(in)
  /\ out' = Append(out, None)
  /\ hit_poison' = TRUE /\ poisoned' = TRUE
  /\ pc' = "closed"
  /\ UNCHANGED <<first, blocks, blocks_it, current, block_end, marked, progress, chain>>

StreamStep ==
  \/ Fetch \/ Advance \/ AdvanceBuffered \/ AdvanceAppend
  \/ Mark \/ Rewind \/ Poison \/ PoisonNothing \/ PoisonConsume

-----------------------------------------------------------------------------
(* The chain around it                                                     *)

Give ==
  /\ free # << >> /\ ~ended
  /\ free' = Tail(free)
  /\ \E n \in IF first THEN {PerBlock} ELSE Sizes :
       /\ in' = Append(in, [mem |-> Head(free), size |-> n, start |-> given])
       /\ given' = given + n
  /\ UNCHANGED <<first, out, stream, pc, ended, received>>

EndInput ==
  /\ ~first /\ ~ended
  /\ free # << >>
  /\ free' = Tail(free)
  /\ in' = Append(in, None)
  /\ ended' = TRUE
  /\ UNCHANGED <<first, out, stream, pc, given, received>>

Drain ==
  /\ out # << >>
  /\ out' = Tail(out)
  /\ IF Head(out) = None
       THEN UNCHANGED <<free, received>>
       ELSE /\ free' = Append(free, Head(out).mem)
            /\ received' = received + Head(out).size
  /\ UNCHANGED <<first, in, stream, pc, given, ended>>

Stopped == pc \in {"aborted", "closed"} /\ UNCHANGED vars

Next ==
  \/ pc # "aborted" /\ (StreamStep \/ Give \/ EndInput \/ Drain)
  \/ Stopped

Spec == Init /\ [][Next]_vars

\* The chain's threads run; the stream finishes the call it is in.
FairSpec ==
  /\ Spec
  /\ WF_vars(pc # "aborted" /\ (Give \/ EndInput))
  /\ WF_vars(pc # "aborted" /\ Drain)
  /\ WF_vars(Fetch \/ PoisonConsume)

-----------------------------------------------------------------------------
(* Properties                                                              *)

Pieces == [mem : 0 .. BlockCount - 1, size : 0 .. PerBlock, start : Nat]
Addresses == 0 .. BlockCount * PerBlock

\* Every variable keeps its type.
TypeOK ==
  /\ first \in BOOLEAN
  /\ in \in Seq(Pieces \cup {None}) /\ out \in Seq(Pieces \cup {None})
  /\ blocks \in Seq(Pieces)
  /\ blocks_it \in 0 .. BlockCount
  /\ {current, block_end, marked} \subseteq Addresses \cup {None}
  /\ {hit_poison, poisoned, ended} \subseteq BOOLEAN
  /\ {progress, given, received} \subseteq Nat
  /\ pc \in {"fetch", "ready", "closing", "closed", "aborted"}
  /\ free \in Seq(0 .. BlockCount - 1)

\* The assertions with which operator++ and Rewind end: the cursor is on a
\* record of the block it claims to be in, also after going back.
CursorOnRecord ==
  (pc = "ready" /\ ~poisoned) =>
    /\ blocks_it < Len(blocks)
    /\ LET b == blocks[blocks_it + 1]
       IN  /\ Base(b.mem) <= current /\ current < block_end
           /\ block_end = BlockEnd(b)

\* "Careful accounting to ensure RewindableStream can fit the entire
\* vocabulary" (interpolate/pipeline.cc): writing BlockCount - 1 full blocks
\* after a mark, wherever in a block the mark is, never aborts.
MarkPos ==
  LET b == blocks[1] IN b.start + marked - Base(b.mem)
FitsVocabulary ==
  (first /\ pc = "aborted" /\ marked # None) => Pos - MarkPos > (BlockCount - 1) * PerBlock

\* The blocks given are, in their order and without a gap, those downstream,
\* those handed on, those buffered and those still to come; poison is last.
Real(q) == IF q # << >> /\ Back(q) = None THEN SubSeq(q, 1, Len(q) - 1) ELSE q
EveryRecordOnce ==
  pc \notin {"closed", "closing"} =>
    LET all == Real(out) \o blocks \o Real(in)
    IN  /\ \A i \in 1 .. Len(all) :
             all[i].start = received + Records(SubSeq(all, 1, i - 1))
        /\ received + Records(all) = given

\* What holds of the buffer at any time: the cursor, the mark and the blocks
\* belong together.
BufferInvariant == TypeOK /\ CursorOnRecord /\ FitsVocabulary /\ EveryRecordOnce

\* It is a tape: Rewind goes back to the very record that was marked, nothing
\* after a mark is handed on, and Poison ends the data at the cursor.
Closed == pc \in {"closed", "closing"}
TapePos == IF Closed THEN progress ELSE Pos
TapeMark == IF marked = None \/ Closed THEN None ELSE MarkPos
Cursor == INSTANCE Tape WITH pos <- TapePos, mark <- TapeMark, sent <- progress, closed <- Closed

ImplementsTape == Cursor!Spec

\* A call never hangs: as long as the chain turns, a block comes back.
CallsReturn == (pc \in {"fetch", "closing"}) ~> (pc \notin {"fetch", "closing"})
=============================================================================
