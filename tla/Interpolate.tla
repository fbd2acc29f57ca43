----------------------------- MODULE Interpolate -----------------------------
(***************************************************************************)
(* lm/builder/interpolate.cc and lm/common/joint_order.hh: the streams of  *)
(* all orders are read at once, in suffix order, so that a gram meets the  *)
(* probability of its suffix; and a gram that is a context takes its gamma *)
(* from another stream, as its backoff.  Without pruning the gammas are    *)
(* one for every context, in order; with pruning each has its context's    *)
(* hash, and those whose context has been pruned are skipped.              *)
(*                                                                         *)
(* Orders, and level, are one more than in the code; probs_ begins at 0.   *)
(***************************************************************************)
EXTENDS InitialProbabilities

VARIABLES cursor,    \* order -> the position in its stream
          order, level,  \* of JointOrder
          matching,  \* its outer loop, as opposed to "No extension left"
          probs,     \* probs_
          backoff,   \* order -> the position in its stream of gammas
          model,     \* what has been entered: the records of the model
          aborted, finished

joining == <<cursor, order, level, matching, probs, backoff, model, aborted, finished>>
lmplz == <<adjusting, probabilities, joining>>

Pruning(k) == prune_words # {} \/ thresholds[k] > 0

\* The streams up to the first that is empty.
JointOrders == Max({0} \cup {k \in Orders : \A j \in 1 .. k : Len(grams[j]) > 0})

LmplzInit ==
  /\ AdjustInit /\ EstimateInit
  /\ cursor = [k \in Orders |-> 1] /\ backoff = [k \in Lower |-> 1]
  /\ order = 0 /\ level = 1 /\ matching = FALSE
  /\ probs = [k \in 0 .. Order |-> Whole(0)]
  /\ model = {} /\ aborted = FALSE /\ finished = FALSE

\* Interpolate::Run begins when the probabilities are there.  counts[0] - 1:
\* <s> is not included.
Begin ==
  /\ estimated /\ order = 0 /\ ~finished
  /\ order' = JointOrders
  /\ matching' = TRUE
  /\ probs' = [probs EXCEPT ![0] = Fraction(1, stats[1].count_pruned - 1)]
  /\ UNCHANGED <<adjusting, probabilities, cursor, level, backoff, model, aborted, finished>>

At(k) == grams[k][cursor[k]]
BackoffLeft(k) == backoff[k] <= Len(gammas[k])

\* Where the gamma of a gram is, from the position on; past the end if nowhere.
Searched(k, gram) ==
  Min({Len(gammas[k]) + 1} \cup {i \in backoff[k] .. Len(gammas[k]) : gammas[k][i].context = gram})

\* Fault: <s> is not taken for a context.
IsContextInside(k, gram) == k < Order /\ gram[k] \notin {kUNK, kBOS, kEOS} /\ BackoffLeft(k)

\* "Not a context": the condition of its opposite.
IsContext(k, gram) == k < Order /\ gram[k] \notin {kUNK, kEOS} /\ BackoffLeft(k)

\* The backoff of a gram, and the position it leaves in the stream of gammas.
TakeBackoff(k, gram) ==
  IF ~IsContext(k, gram) THEN [value |-> Whole(1), next |-> IF k < Order THEN backoff[k] ELSE 0]
  ELSE IF ~Pruning(k + 1)
    THEN [value |-> gammas[k][backoff[k]].gamma, next |-> backoff[k] + 1]
  ELSE LET i == Searched(k, gram)
       IN  IF i <= Len(gammas[k]) THEN [value |-> gammas[k][i].gamma, next |-> i + 1]
           ELSE [value |-> Whole(1), next |-> i]

\* Does the level gram end in the gram of the order below?
Matches == Suffix(At(level).gram, level - 1) = (IF level = 1 THEN << >> ELSE At(level - 1).gram)

\* Callback::Enter
Enter ==
  /\ order > 0 /\ matching /\ Matches
  /\ LET record == At(level)
         taken == TakeBackoff(level, record.gram)
         prob == Plus(record.prob, Times(record.gamma, probs[level - 1]))
     IN  /\ probs' = [probs EXCEPT ![level] = prob]
         /\ model' = model \cup {[gram |-> record.gram, prob |-> prob, backoff |-> taken.value]}
         /\ backoff' = IF level < Order THEN [backoff EXCEPT ![level] = taken.next] ELSE backoff
  /\ level' = level + 1
  /\ matching' = (level < order)
  /\ UNCHANGED <<adjusting, probabilities, cursor, order, aborted, finished>>

\* The gram at level ends in another: the order below has to move on.
Mismatch ==
  /\ order > 0 /\ matching /\ ~Matches
  /\ matching' = FALSE
  /\ UNCHANGED <<adjusting, probabilities, cursor, order, level, probs, backoff, model,
                 aborted, finished>>

\* Callback::Exit and ++streams[level].  A stream may only end after those of
\* higher orders ("Detected n-gram without matching suffix").
Leave ==
  /\ order > 0 /\ ~matching
  /\ level' = level - 1
  /\ cursor' = [cursor EXCEPT ![level'] = @ + 1]
  /\ LET ended == cursor'[level'] > Len(grams[level'])
     IN  /\ matching' = ~ended
         /\ order' = IF ~ended THEN order ELSE IF order = level' THEN level' - 1 ELSE 0
         /\ finished' = (ended /\ order' = 0)
         \* ~Callback: "Backoffs do not match", but with pruning the rest is read.
         /\ aborted' = /\ finished'
                       /\ \/ order # level'
                          \/ \E k \in Lower : ~Pruning(k + 1) /\ BackoffLeft(k)
  /\ UNCHANGED <<adjusting, probabilities, probs, backoff, model>>

Join == Begin \/ Enter \/ Mismatch \/ Leave

LmplzStep ==
  \/ Adjust /\ UNCHANGED <<probabilities, joining>>
  \/ Estimate /\ UNCHANGED joining
  \/ Join

-----------------------------------------------------------------------------
(* Properties                                                              *)

Has(gram) == \E r \in model : r.gram = gram
Record(gram) == CHOOSE r \in model : r.gram = gram
BackoffOf(gram) == IF gram # << >> /\ Has(gram) THEN Record(gram).backoff ELSE Whole(1)

\* How the model is used: the probability of a word after a context is that of
\* the longest gram it has, times the backoffs of the longer contexts.
Prob(context, word) ==
  LET p[j \in 0 .. Len(context)] ==
        LET c == Suffix(context, j)
        IN  IF Has(Append(c, word)) THEN Record(Append(c, word)).prob
            ELSE IF j = 0 THEN Whole(0)
            ELSE Times(BackoffOf(c), p[j - 1])
  IN  p[Len(context)]

\* "Makes model sum to 1 with pruning (I hope)": after every context the model
\* has, and with every threshold, the probabilities of the words sum to 1.
ModelSumsToOne ==
  finished /\ ~aborted =>
    LET words == {r.gram[1] : r \in {q \in model : Len(q.gram) = 1}} \ {kBOS}
        contexts == {<< >>} \cup {r.gram : r \in {q \in model : Len(q.gram) < Order}}
    IN  \A c \in contexts :
          SumOver(words, LAMBDA w : Prob(c, w)) = Whole(1)

\* "Detected n-gram without matching suffix" and "Backoffs do not match" are
\* said of no corpus, and when the joint traversal ends it has entered every
\* gram that was kept.
StreamsFit == ~aborted /\ (finished => Cardinality(model) = Len(FlattenSeq(grams)))

\* What holds of the streams at any time.
StreamInvariant == AdjustInvariant /\ StreamsFit
=============================================================================
