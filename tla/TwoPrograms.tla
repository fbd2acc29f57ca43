----------------------------- MODULE TwoPrograms -----------------------------
(***************************************************************************)
(* lmplz --intermediate and interpolate, run after it: the model lmplz has *)
(* estimated is interpolated with another.  Its words are renumbered by    *)
(* their hash, as --intermediate forces, and its ids leave no gaps.        *)
(***************************************************************************)
EXTENDS Interpolate, LogLinear

CONSTANTS Hash,        \* of lmplz' words
          OtherModels, \* what the model of lmplz is interpolated with, <unk> included
          Weights,     \* pairs of weights
          MergedGrams  \* N-grams of the largest corpora that are used so

vars == <<lmplz, pipeline>>

Init == LmplzInit /\ LogLinearInit

\* The words of the model in the order of their ids, and the model as files.
LmplzWords == InOrder({r.gram[1] : r \in {q \in model : Len(q.gram) = 1}}, LAMBDA v, w : v < w)
LmplzModel ==
  LET id(word) == Cardinality({w \in ToSet(LmplzWords) : w < word})
      written(r) == [gram |-> [i \in DOMAIN r.gram |-> id(r.gram[i])],
                     prob |-> Residue(r.prob), backoff |-> Residue(r.backoff)]
  IN  [order |-> Order, vocab |-> [i \in DOMAIN LmplzWords |-> Hash[LmplzWords[i]]],
       grams |-> [k \in 1 .. Order |->
                   InOrder({written(r) : r \in {q \in model : Len(q.gram) = k}},
                                SuffixRecordLess)]]

OpenModels ==
  /\ finished /\ ~aborted
  /\ Len(input) <= MergedGrams /\ interpolate_unigrams
  /\ \E other \in OtherModels, weights \in Weights : Open(<<LmplzModel, other>>, weights)
  /\ UNCHANGED normalizing

Next ==
  \/ LmplzStep /\ UNCHANGED pipeline
  \/ OpenModels /\ UNCHANGED lmplz
  \/ LogLinearStep /\ UNCHANGED lmplz
  \/ finished /\ UNCHANGED vars

Spec == Init /\ [][Next]_vars

-----------------------------------------------------------------------------
(* Properties                                                              *)

Words == {i - 1 : i \in DOMAIN names}
\* Words a model predicts: lmplz gives <s> the probability 1 for other reasons.
Predicted == {w \in Words : names[w + 1] # Hash[kBOS]}

\* The probability of a word (an id of names) after a context, of a model.
ProbOf(m, context, word) ==
  LET asked(state, w) == SlowQuery(m, state, ConvertToModel(m, w)).out
  IN  SlowQuery(m, FoldLeft(asked, EmptyContext, context), ConvertToModel(m, word)).prob

\* The same of the interpolated model, whose ids are those of names.
UnifiedProb(context, word) ==
  LET at(gram) == SelectInSeq(unified[Len(gram)], LAMBDA r : r.gram = gram)
      has(gram) == at(gram) > 0
      record(gram) == unified[Len(gram)][at(gram)]
      p[j \in 0 .. Len(context)] ==
        LET c == Suffix(context, j)
        IN  IF has(Append(c, word)) THEN record(Append(c, word)).prob
            ELSE Multiply(IF has(c) THEN record(c).backoff ELSE 1, p[j - 1])
  IN  p[Len(context)]

\* What interpolate writes is the log-linear interpolation: after every context
\* of the result, a word's probability is the product of those the models give
\* to it (asked by ModelBuffer::SlowQuery, as the tuner asks them), each to the
\* power of its weight, over the sum of these products.
NormalizedProduct ==
  unified # << >> =>
    LET product(c, w) == ProductMod(Models, LAMBDA m : Power(ProbOf(m, c, w), lambdas[m]))
        histories == {<< >>} \cup UNION {{r.gram : r \in ToSet(unified[k])} : k \in 1 .. MaxOrder - 1}
    IN  \A c \in histories :
          LET all == [w \in Predicted |-> product(c, w)]
              z == SumMod(Predicted, LAMBDA w : all[w])
          IN  \A w \in Predicted : all[w] = Multiply(z, UnifiedProb(c, w))

\* The passes read the models' n-grams in step: none is left over by the merge,
\* and as many backoffs as probabilities are written of every order, unless a
\* model has a lower order than another.
InStep ==
  models # << >> =>
    /\ MergeEnded => Exhausted
    /\ thrown => \E m \in Models : models[m].order < MaxOrder
=============================================================================
