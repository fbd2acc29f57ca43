------------------------ MODULE InitialProbabilities ------------------------
(***************************************************************************)
(* What becomes of the adjusted counts, up to the interpolation of orders: *)
(* StatCollector::CalculateDiscounts and lm/builder/initial_probabilities. *)
(* cc.  For each order the records, sorted by context, are read twice:     *)
(* AddRight sums the counts of every context and finds the mass its        *)
(* discounts leave, its gamma; MergeRight divides the discounted counts by *)
(* the sums, and drops the records marked for pruning.                     *)
(*                                                                         *)
(* Contexts are compared by their words where the code has a hash of them. *)
(* The sorts lose nothing (ExternalSort); here they are SortSeq.           *)
(***************************************************************************)
EXTENDS AdjustCounts, Numbers

CONSTANTS Fallback,           \* DiscountConfig::fallback, a sequence for counts 1, 2, 3+
          InterpolateUnigrams \* values of interpolate_unigrams considered

VARIABLES interpolate_unigrams,  \* fixed
          estimated,
          grams,     \* order -> what MergeRight outputs, in suffix order
          gammas     \* order -> the gammas of its grams as contexts

probabilities == <<interpolate_unigrams, estimated, grams, gammas>>

Orders == 1 .. Order

\* The discounts of CalculateDiscounts, or the fallback where one of them
\* would be out of range.
Discounts(k) ==
  LET n == stats[k].n
      y == Fraction(n[1], n[1] + 2 * n[2])
      amount(j) == Minus(Whole(j), Over(Times(Whole((j + 1) * n[j + 1]), y), n[j]))
      bad == \/ \E j \in 1 .. 3 : n[j] = 0
             \/ \E j \in 1 .. 3 : amount(j).n < 0 \/ ~AtMostF(amount(j), Whole(j))
  IN  IF bad THEN Fallback ELSE [j \in 1 .. 3 |-> amount(j)]

\* Discount::Get and Apply
Get(discount, count) == IF count = 0 THEN Whole(0) ELSE discount[IF count < 3 THEN count ELSE 3]
Apply(discount, count) == Minus(Whole(count), Get(discount, count))

Adjusted(k) == SortSeq(IF k = Order THEN HandedOn ELSE out[k], ContextLess)

Context(gram) == SubSeq(gram, 1, Len(gram) - 1)
CutoffCount(record) == IF record.marked THEN 0 ELSE record.count

\* For each record of a sequence, the number of its context.
GroupOf(records, i) ==
  Cardinality({j \in 1 .. i : j = 1 \/ Context(records[j].gram) # Context(records[j - 1].gram)})

\* Fault of Sums: what pruning takes is not given back.
SumsWithoutPruned(k) ==
  LET records == Adjusted(k)
      discounts == Discounts(k)
      group(g) == {i \in DOMAIN records : GroupOf(records, i) = g}
      sum(g) ==
        LET denominator == MapThenSumSet(LAMBDA i : records[i].count, group(g))
            discounted(i) == Get(discounts, CutoffCount(records[i]))
        IN  [context |-> Context(records[CHOOSE i \in group(g) : TRUE].gram),
             denominator |-> denominator,
             gamma |-> Over(SumOver(group(g), discounted), denominator)]
  IN  [g \in {GroupOf(records, i) : i \in DOMAIN records} |-> sum(g)]

\* AddRight: the contexts of an order with their BufferEntry.
Sums(k) ==
  LET records == Adjusted(k)
      discounts == Discounts(k)
      group(g) == {i \in DOMAIN records : GroupOf(records, i) = g}
      sum(g) ==
        LET denominator == MapThenSumSet(LAMBDA i : records[i].count, group(g))
            normalizer ==
              MapThenSumSet(LAMBDA i : records[i].count - CutoffCount(records[i]), group(g))
            discounted(i) == Get(discounts, CutoffCount(records[i]))
        IN  [context |-> Context(records[CHOOSE i \in group(g) : TRUE].gram),
             denominator |-> denominator,
             gamma |-> Over(Plus(SumOver(group(g), discounted), Whole(normalizer)), denominator)]
  IN  [g \in {GroupOf(records, i) : i \in DOMAIN records} |-> sum(g)]

\* What MergeRight gives <unk>, <s> and the other words.  With SRI's way the
\* interpolation mass goes to <unk>.
Unigram(word, count, sums, discounts) ==
  LET assign == IF interpolate_unigrams THEN sums.gamma ELSE Whole(0)
  IN  IF word = kUNK
        THEN [prob |-> IF interpolate_unigrams THEN Whole(0) ELSE sums.gamma, gamma |-> assign]
      ELSE IF word = kBOS THEN [prob |-> Whole(1), gamma |-> Whole(0)]
      ELSE [prob |-> Over(Apply(discounts, count), sums.denominator), gamma |-> assign]

\* MergeRight, with the sums of Sums as they come ...
Uninterpolated(k) ==
  LET records == Adjusted(k)
      sums == Sums(k)
      discounts == Discounts(k)
      weights(i) ==
        LET r == records[i]
            s == sums[GroupOf(records, i)]
        IN  IF k = 1 THEN Unigram(r.gram[1], r.count, s, discounts)
            ELSE [prob |-> Over(Apply(discounts, r.count), s.denominator), gamma |-> s.gamma]
  IN  [i \in DOMAIN records |->
        [gram |-> records[i].gram, keep |-> CutoffCount(records[i]) > 0] @@ weights(i)]

\* ... and its PruneNGramStream.
Kept(k) ==
  SelectSeq(Uninterpolated(k),
            LAMBDA r : r.keep \/ (k = 1 /\ r.gram[1] \in {kUNK, kBOS, kEOS}))

EstimateInit ==
  /\ interpolate_unigrams \in InterpolateUnigrams
  /\ estimated = FALSE
  /\ grams = << >> /\ gammas = << >>

\* The stages of every order, and the sort by suffix.
Estimate ==
  /\ done /\ ~estimated
  /\ grams' = [k \in Orders |-> SortSeq(Kept(k), SuffixRecordLess)]
  /\ gammas' = [k \in Lower |->
                  LET sums == Sums(k + 1)
                  IN  [i \in DOMAIN sums |-> [context |-> sums[i].context, gamma |-> sums[i].gamma]]]
  /\ estimated' = TRUE
  /\ UNCHANGED <<adjusting, interpolate_unigrams>>
=============================================================================
