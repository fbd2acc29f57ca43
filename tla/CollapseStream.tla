--------------------------- MODULE CollapseStream ---------------------------
(***************************************************************************)
(* CollapseStream of lm/builder/adjust_counts.cc, through which            *)
(* AdjustCounts reads the highest order: it yields every record in order,  *)
(* marks those to be pruned, and on the way out of a block fills the       *)
(* places of records with <s> in the second position from the block's end  *)
(* backwards, so that the block is handed on without them.                 *)
(*                                                                         *)
(* The sorted counts of a corpus arrive in blocks of PerBlock records, the *)
(* last one partly filled or empty.  Memory is one record per address;     *)
(* block b (from 0) is the PerBlock addresses from b * PerBlock, and is    *)
(* used once.  Memory behind the data holds Junk.                          *)
(***************************************************************************)
EXTENDS NGrams

CONSTANTS Corpora,         \* the corpora: sequences of lines, with their </s>
          ThresholdLists,  \* prune_thresholds_, one per order
          PruneWordSets,   \* the words of which prune_words_ is TRUE
          PerBlock,
          None

ASSUME BlocksAssumption == PerBlock \in Nat \ {0}
ASSUME OrderAssumption == Order \in Nat /\ Order >= 2
ASSUME ThresholdsAssumption == \A t \in ThresholdLists : t \in [1 .. Order -> Nat]

VARIABLES input, thresholds, prune_words,  \* fixed: the N-grams and the options
          mem,        \* address -> record
          block,      \* the block held; -1 before the first, BlockCount after the last
          current,    \* current_'s address
          copy_from,  \* copy_from_'s address
          passed      \* block -> its valid size when it was handed on

fixed == <<input, thresholds, prune_words>>
stream == <<mem, block, current, copy_from, passed>>

BlockCount == Len(input) \div PerBlock + 1
Blocks == 0 .. BlockCount - 1
Base(b) == b * PerBlock
Size(b) == IF b < BlockCount - 1 THEN PerBlock ELSE Len(input) - Base(b)

Junk == [gram |-> [i \in 1 .. Order |-> kUNK], count |-> 0, marked |-> FALSE]

StreamInit ==
  /\ input \in {SortedCounts(lines) : lines \in Corpora}
  /\ thresholds \in ThresholdLists /\ prune_words \in PruneWordSets
  /\ mem = [x \in 0 .. Base(BlockCount) |->
              IF x < Len(input)
                THEN [gram |-> input[x + 1].gram, count |-> input[x + 1].count, marked |-> FALSE]
                ELSE Junk]
  /\ block = -1 /\ current = None /\ copy_from = None
  /\ passed = [b \in Blocks |-> None]

HasPruned(gram) == \E i \in DOMAIN gram : gram[i] \in prune_words

InnerBos(record) == record.gram[2] = kBOS

\* UpdateCopyFrom: the last record before a that has no inner <s>, but none
\* before the current one.
LastKept(m, from, a) == Max({from - 1} \cup {x \in from .. a - 1 : ~InnerBos(m[x])})

\* Marks for pruning, as the counts and words of the record have it.
Mark(m, a) ==
  IF m[a].count <= thresholds[Order] \/ HasPruned(m[a].gram)
    THEN [m EXCEPT ![a].marked = TRUE] ELSE m

\* StartBlock.  At the end of the data there is no block, and current_ stays.
StartBlock(b, m) ==
  IF b < BlockCount /\ Size(b) > 0
    THEN /\ block' = b
         /\ current' = Base(b)
         /\ copy_from' = LastKept(m, Base(b), Base(b) + Size(b))
         /\ mem' = Mark(m, Base(b))
    ELSE block' = BlockCount

\* Fault: the record moved is not marked.
ReplacedUnmarked ==
  IF InnerBos(mem[current]) /\ current < copy_from
    THEN [mem EXCEPT ![current] = [mem[copy_from] EXCEPT !.marked = FALSE]] ELSE mem

\* The current record, when it goes, gives its place to a later one.
Replaced ==
  IF InnerBos(mem[current]) /\ current < copy_from
    THEN Mark([mem EXCEPT ![current] = mem[copy_from]], current) ELSE mem

CopyFrom(m) ==
  IF InnerBos(mem[current]) /\ current < copy_from THEN LastKept(m, current, copy_from) ELSE copy_from

AtEndOfBlock == current + 1 = Base(block) + Size(block)

\* operator++ inside a block ...
NextRecord ==
  /\ ~AtEndOfBlock
  /\ current' = current + 1
  /\ mem' = Mark(Replaced, current')
  /\ copy_from' = CopyFrom(Replaced)
  /\ UNCHANGED <<block, passed>>

PassBlock == passed' = [passed EXCEPT ![block] = CopyFrom(Replaced) + 1 - Base(block)]

\* ... into the next block ...
NextBlock ==
  /\ AtEndOfBlock /\ block + 1 < BlockCount /\ Size(block + 1) > 0
  /\ PassBlock
  /\ StartBlock(block + 1, Replaced)

\* ... or past the last one: current_ is behind the block that was handed on,
\* and what is there is marked.
PastEnd ==
  /\ AtEndOfBlock /\ ~(block + 1 < BlockCount /\ Size(block + 1) > 0)
  /\ PassBlock
  /\ StartBlock(block + 1, Replaced)
  /\ copy_from' = CopyFrom(Replaced)
  /\ current' = current + 1
  /\ mem' = Mark(Replaced, current')

Advance == NextRecord \/ NextBlock \/ PastEnd

Holding == block \in Blocks

\* The records of the blocks handed on.
HandedOn ==
  FlattenSeq([i \in 1 .. BlockCount |->
    [j \in 1 .. (IF passed[i - 1] = None THEN 0 ELSE passed[i - 1]) |-> mem[Base(i - 1) + j - 1]]])

-----------------------------------------------------------------------------
(* Properties                                                              *)

\* A block is handed on with exactly the records that arrived in it without an
\* inner <s>, each once, and marked as its count and words have it.
HandsOnTheRest ==
  [][\A b \in Blocks : passed'[b] # passed[b] =>
       LET arrived == {input[x + 1] : x \in Base(b) .. Base(b) + Size(b) - 1}
           kept == {r \in arrived : ~InnerBos(r)}
       IN  /\ passed'[b] = Cardinality(kept)
           /\ {mem'[x] : x \in Base(b) .. Base(b) + passed'[b] - 1}
                = {[gram |-> r.gram, count |-> r.count,
                    marked |-> r.count <= thresholds[Order] \/ HasPruned(r.gram)] : r \in kept}]_passed
=============================================================================
