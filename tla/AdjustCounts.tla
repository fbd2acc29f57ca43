---------------------------- MODULE AdjustCounts ----------------------------
(***************************************************************************)
(* lm/builder/adjust_counts.cc, AdjustCounts::Run for orders above one.    *)
(* From the N-grams of a corpus with their counts, in suffix order, it     *)
(* makes in one pass the k-grams of every lower order k with the counts    *)
(* Kneser-Ney smoothing wants, and statistics of those counts.             *)
(*                                                                         *)
(* At any time lower[1 .. valid] are the suffixes of the last N-gram whose *)
(* records are still growing, shortest first; a record is output when an   *)
(* N-gram arrives that does not end in it.  One step is one turn of the    *)
(* loop over the N-grams, which CollapseStream yields.                     *)
(***************************************************************************)
EXTENDS CollapseStream

CONSTANT Infinite         \* numeric_limits<uint64_t>::max()

ASSUME InfiniteAssumption == \A t \in ThresholdLists : t \in [1 .. Order -> 0 .. Infinite - 1]

VARIABLES lower,        \* order -> the record of its stream being made
          valid,        \* lower_valid, as an order
          actual,       \* actual_counts: order -> the record's plain count
          out,          \* order -> records output
          stats,        \* order -> its OrderStat
          done

counts == <<lower, valid, actual, out, stats>>
adjusting == <<fixed, stream, counts, done>>

Lower == 1 .. Order - 1
Suffix(gram, k) == SubSeq(gram, Len(gram) - k + 1, Len(gram))

-----------------------------------------------------------------------------
(* Statistics                                                              *)

NoStat == [n |-> [j \in 0 .. 4 |-> 0], count |-> 0, count_pruned |-> 0]

\* StatCollector::Add
Add(stat, count, pruned) ==
  [n |-> [j \in 0 .. 4 |-> stat.n[j] + IF j = count THEN 1 ELSE 0],
   count |-> stat.count + 1,
   count_pruned |-> stat.count_pruned + IF pruned THEN 0 ELSE 1]

Marked(k) == actual[k] <= thresholds[k] \/ HasPruned(lower[k].gram)

Finished(k) == [gram |-> lower[k].gram, count |-> lower[k].count, marked |-> Marked(k)]

-----------------------------------------------------------------------------
\* <unk> has count 0 and so does <s>, which is the record being made.
AdjustInit ==
  /\ StreamInit
  /\ lower = [k \in Lower |-> [gram |-> <<kBOS>>, count |-> 0]]
  /\ valid = 1
  /\ actual = [k \in 1 .. Order |-> IF k = 1 THEN Infinite ELSE 0]
  /\ out = [k \in Lower |->
              IF k = 1 THEN <<[gram |-> <<kUNK>>, count |-> 0, marked |-> FALSE]>> ELSE << >>]
  /\ stats = [k \in 1 .. Order |-> IF k = 1 THEN Add(NoStat, 0, FALSE) ELSE NoStat]
  /\ done = FALSE

\* Fault: the loop stops one word early.
SameShort(full) ==
  Max({0} \cup {m - 1 : m \in {l \in 1 .. valid : Suffix(full, l) = Suffix(lower[valid].gram, l)}})

\* FindDifference: how many words the N-gram shares, from its end, with the
\* longest record being made.
Same(full) ==
  Max({m \in 0 .. valid : Suffix(full, m) = Suffix(lower[valid].gram, m)})

\* The last <s> to the left of the shared words, or the first word.
BosOf(full, same) == Max({j \in 1 .. Order - same : j = 1 \/ full[j] = kBOS})

\* The constructor of the CollapseStream
Start ==
  /\ block = -1
  /\ StartBlock(0, mem)
  /\ Size(0) = 0 => UNCHANGED <<mem, current, copy_from>>
  /\ UNCHANGED <<fixed, passed, counts, done>>

\* One turn of the loop.  A gram that begins with <s> has its plain count, any
\* other begins at 1.
Step ==
  /\ Holding
  /\ LET full == mem[current]
         same == Same(full.gram)
         bos == BosOf(full.gram, same)
         longest == IF bos = 1 THEN Order - 1 ELSE Order - bos + 1
         ends(k) == same < k /\ k <= valid
     IN  /\ out' = [k \in Lower |-> IF ends(k) THEN Append(out[k], Finished(k)) ELSE out[k]]
         /\ stats' = [k \in 1 .. Order |->
              IF k = Order
                THEN IF bos = 1
                       THEN Add(stats[k], full.count, full.marked)
                       ELSE stats[k]
                ELSE IF ends(k) THEN Add(stats[k], lower[k].count, Marked(k)) ELSE stats[k]]
         /\ lower' = [k \in Lower |->
              IF k <= same
                THEN [lower[k] EXCEPT !.count = @ + IF k = same THEN 1 ELSE 0]
                ELSE IF k > longest THEN lower[k]
                ELSE [gram |-> Suffix(full.gram, k),
                      count |-> IF bos > 1 /\ k = longest THEN full.count ELSE 1]]
         /\ actual' = [k \in 1 .. Order |->
              IF k <= same THEN actual[k] + full.count
              ELSE IF k <= longest THEN full.count ELSE actual[k]]
         /\ valid' = longest
  /\ Advance
  /\ UNCHANGED <<fixed, done>>

\* The last records are output; their plain counts go into the statistics.
End ==
  /\ ~done /\ block = BlockCount
  /\ out' = [k \in Lower |-> IF k <= valid THEN Append(out[k], Finished(k)) ELSE out[k]]
  /\ stats' = [k \in 1 .. Order |->
       IF k <= valid THEN Add(stats[k], actual[k], Marked(k)) ELSE stats[k]]
  /\ done' = TRUE
  /\ UNCHANGED <<fixed, stream, lower, valid, actual>>

Adjust == Start \/ Step \/ End

-----------------------------------------------------------------------------
(* Properties                                                              *)

\* The N-grams that end in a gram, and the count of a k-gram in the corpus.
Ending(gram) == {i \in DOMAIN input : Suffix(input[i].gram, Len(gram)) = gram}
PlainCount(gram) == MapThenSumSet(LAMBDA i : input[i].count, Ending(gram))

\* What Kneser-Ney smoothing wants: how many words precede the gram, but for
\* a gram that begins with <s> how often it occurs.
AdjustedCount(gram) ==
  IF gram \in {<<kUNK>>, <<kBOS>>} THEN 0
  ELSE IF gram[1] = kBOS THEN PlainCount(gram)
  ELSE Cardinality({Suffix(input[i].gram, Len(gram) + 1) : i \in Ending(gram)})

Pruned(gram) ==
  gram \notin {<<kUNK>>, <<kBOS>>} /\
  (PlainCount(gram) <= thresholds[Len(gram)] \/ HasPruned(gram))

\* "Compute adjusted counts": when a record is output, it has the count and the
\* mark that the whole corpus gives it.
OutputIsFinal ==
  [][\A k \in Lower : \A i \in Len(out[k]) + 1 .. Len(out'[k]) :
       LET record == out'[k][i]
       IN  record.count = AdjustedCount(record.gram) /\ record.marked = Pruned(record.gram)]_out

\* "[1,N)-grams are in suffix order": in the end every k-gram of the corpus that
\* has no inner <s> is there, once.
GramsOf(k) ==
  {g \in {Suffix(input[i].gram, k) : i \in DOMAIN input} : \A j \in 2 .. k : g[j] # kBOS}
Output(k) == {out'[k][i].gram : i \in DOMAIN out'[k]}
EveryGramInOrder ==
  [][done' => \A k \in Lower :
       /\ Output(k) = GramsOf(k) \cup IF k = 1 THEN {<<kUNK>>, <<kBOS>>} ELSE {}
       /\ \A i \in 1 .. Len(out'[k]) - 1 : SuffixLess(out'[k][i].gram, out'[k][i + 1].gram)]_done

\* counts and counts_pruned, from which the tables and the uniform probability
\* are made, are the numbers of grams handed on and of unmarked ones.
Unmarked(records) == SelectSeq(records, LAMBDA r : ~r.marked)
CountsMatchOutput ==
  [][done' => \A k \in 1 .. Order :
       LET records == IF k = Order THEN HandedOn ELSE out'[k]
       IN  stats'[k].count = Len(records) /\ stats'[k].count_pruned = Len(Unmarked(records))]_done

\* The streams of all orders are right record by record, and complete, and so
\* are their statistics.
StreamsComplete == OutputIsFinal /\ EveryGramInOrder /\ CountsMatchOutput

Counted == [gram : Seq(Nat), count : Nat]
Marking == [gram : Seq(Nat), count : Nat, marked : BOOLEAN]

\* Every variable keeps its type; the records being made are the suffixes of
\* one gram, and a stream has the grams of its order.
AdjustInvariant ==
  /\ thresholds \in ThresholdLists /\ prune_words \in PruneWordSets
  /\ mem \in [0 .. Base(BlockCount) -> Marking]
  /\ block \in -1 .. BlockCount /\ passed \in [Blocks -> (0 .. PerBlock) \cup {None}]
  /\ {current, copy_from} \subseteq (-1 .. Base(BlockCount)) \cup {None}
  /\ lower \in [Lower -> Counted] /\ valid \in Lower /\ actual \in [1 .. Order -> Nat]
  /\ \A k \in 1 .. valid : Len(lower[k].gram) = k /\ lower[k].gram = Suffix(lower[valid].gram, k)
  /\ out \in [Lower -> Seq(Marking)] /\ done \in BOOLEAN
  /\ \A k \in Lower : \A i \in DOMAIN out[k] : Len(out[k][i].gram) = k
  /\ stats \in [1 .. Order -> [n : [0 .. 4 -> Nat], count : Nat, count_pruned : Nat]]

=============================================================================
