----------------------------- MODULE MergeModels -----------------------------
(***************************************************************************)
(* The first pass of lm/interpolate: models in lmplz' intermediate format  *)
(* (lm/common/model_buffer.cc) are renumbered to one vocabulary and their  *)
(* n-grams merged, each with the product of the models' probabilities and, *)
(* for each model, the order it had to back off to.                        *)
(*                                                                         *)
(* A model is [order, vocab, grams, prob of each ...]: vocab is a sequence *)
(* of words, <unk> first and the others by their hashes, for which the     *)
(* words themselves stand; grams is, for every order, the sequence of      *)
(* [gram, prob, backoff] in suffix order.  Word ids begin at 0.            *)
(*                                                                         *)
(* The code adds logarithms; here probabilities are multiplied, as         *)
(* residues, and weights are whole numbers.                                *)
(***************************************************************************)
EXTENDS NGrams, Numbers

VARIABLES models,    \* <<>> until they are opened
          lambdas,   \* the weights, one for a model
          names,     \* the universal vocabulary; names[id + 1] is its word
          universal, \* UniversalVocab: model -> id -> id in names
          reading,   \* model -> order -> n-grams read
          path,      \* the suffixes HandleSuffix is within, the 0-gram first
          merged     \* order -> what has been put out

merging == <<models, lambdas, names, universal, reading, path, merged>>

Models == DOMAIN models
MaxOrder == Max({models[m].order : m \in Models})

-----------------------------------------------------------------------------
(* MergeVocab.  Readers wait in a heap, by the hash of their next word; a  *)
(* word like the one before gets its id.                                   *)

\* Each word of each model, in an order the heap may give them out.
HeapOrder(vocabs) ==
  LET all == {<<m, i>> : m \in DOMAIN vocabs, i \in UNION {2 .. Len(vocabs[n]) : n \in DOMAIN vocabs}}
      words == {x \in all : x[2] <= Len(vocabs[x[1]])}
      word(x) == vocabs[x[1]][x[2]]
  IN  InOrder(words, LAMBDA x, y : word(x) < word(y) \/ (word(x) = word(y) /\ x[1] < y[1]))

\* enumerate.Add and InsertUniversalIdx, for each word from the heap.
MergeVocab(vocabs) ==
  LET add(state, x) ==
        LET word == vocabs[x[1]][x[2]]
            known == IF word = Last(state.names) THEN state.names ELSE Append(state.names, word)
        IN  [names |-> known,
             universal |-> [state.universal EXCEPT ![x[1]] = Append(@, Len(known) - 1)]]
  IN  FoldLeft(add, [names |-> <<vocabs[1][1]>>, universal |-> [m \in DOMAIN vocabs |-> <<0>>]],
               HeapOrder(vocabs))

\* UniversalVocab::SlowConvertToModel: <unk> if the model does not have it.
ConvertToModel(m, id) ==
  LET at == SelectInSeq(universal[m], LAMBDA u : u = id) IN IF at = 0 THEN 0 ELSE at - 1

-----------------------------------------------------------------------------
(* BoundedSequenceEncoding, for fewer than 65 bits in all.                 *)

Bits[n \in Nat] == IF n = 0 THEN 0 ELSE 1 + Bits[n \div 2]

\* The bits of an entry: a bound of 1 needs none.
EntryLength(bound) == IF bound <= 1 THEN 0 ELSE Bits[bound]

\* MakeEncoder: a model backs off from its own order at most.
Bound(k, m) == IF k < models[m].order THEN k ELSE models[m].order
Shift(k, m) == MapThenSumSet(LAMBDA n : EntryLength(Bound(k, n)), 1 .. m - 1)

Encode(k, from) == MapThenSumSet(LAMBDA m : from[m] * 2 ^ Shift(k, m), Models)
Decode(k, code) ==
  [m \in Models |-> (code \div 2 ^ Shift(k, m)) % (2 ^ EntryLength(Bound(k, m)))]

-----------------------------------------------------------------------------
(* SetupInputs and the streams it makes.                                   *)

Renumbered(m, record) ==
  [record EXCEPT !.gram = [i \in DOMAIN @ |-> universal[m][@[i] + 1]]]

\* handlers[k - 1]: the models that have an n-gram of that order left, and it.
Active(k) == {m \in Models : k <= models[m].order /\ reading[m][k] < Len(models[m].grams[k])}
Top(m, k) == Renumbered(m, models[m].grams[k][reading[m][k] + 1])
Advanced(S, k) == [m \in Models |-> IF m \in S THEN [reading[m] EXCEPT ![k] = @ + 1] ELSE reading[m]]

\* Pipeline opens the models and merges their vocabularies.
Open(inputs, weights) ==
  /\ models = << >> /\ models' = inputs /\ lambdas' = weights
  /\ LET vocabulary == MergeVocab([m \in DOMAIN inputs |-> inputs[m].vocab])
     IN  names' = vocabulary.names /\ universal' = vocabulary.universal
  /\ reading' = [m \in DOMAIN inputs |-> [k \in 1 .. inputs[m].order |-> 0]]
  /\ merged' = [k \in 1 .. Max({inputs[m].order : m \in DOMAIN inputs}) |-> << >>]
  /\ UNCHANGED path

-----------------------------------------------------------------------------
(* ModelBuffer::SlowQuery, on a model's files as they are.  A context has  *)
(* its last word first, and a backoff for each of its lengths.             *)

\* The position of a gram from low up to below high, 0 if it is not there.
PositionOf(grams, gram) ==
  LET in[low \in Nat, high \in Nat] ==
        LET test == low + (high - low) \div 2
        IN  IF high <= low THEN 0
            ELSE IF SuffixLess(grams[test].gram, gram) THEN in[test + 1, high]
            ELSE IF SuffixLess(gram, grams[test].gram) THEN in[low, test]
            ELSE test
  IN  in[1, Len(grams) + 1]

EmptyContext == [words |-> << >>, backoffs |-> << >>]

\* The probability of a word after a context, and the context it leaves.
SlowQuery(m, context, word) ==
  LET length == Len(context.words)
      query == Append(Reverse(context.words), word)
      gram(k) == SubSeq(query, length + 2 - k, length + 1)
      at(k) == IF k = 1 THEN word + 1 ELSE PositionOf(models[m].grams[k], gram(k))
      found == Max({k \in 1 .. length + 1 : \A j \in 1 .. k : at(j) > 0})
      value(k) == models[m].grams[k][at(k)]
      kept == Min({found, models[m].order - 1})
  IN  [prob |-> Multiply(value(found).prob, ProductMod(found .. length, LAMBDA j : context.backoffs[j])),
       out |-> [words |-> [j \in 1 .. kept |-> gram(kept)[kept + 1 - j]],
                backoffs |-> [j \in 1 .. kept |-> value(j).backoff]]]

-----------------------------------------------------------------------------
(* HandleNGrams and HandleSuffix.  A level of the recursion is an element  *)
(* of path: the gram it has as suffix, with each model's probability for   *)
(* it (without backoffs) and the order that is from.                       *)

MergeStarted == models # << >> /\ merged[1] # << >>

Product(probs) == ProductMod(Models, LAMBDA m : probs[m])
Weighted(m, prob) == Power(prob, lambdas[m])

Entry(gram, probs, from) == [gram |-> gram, probs |-> probs, from |-> from]

\* The record put out for a gram, below which HandleSuffix looks for longer ones.
OutRecord(entry, lower) ==
  LET k == Len(entry.gram)
  IN  [gram |-> entry.gram, prob |-> Product(entry.probs), lower |-> lower,
       from |-> Encode(k, entry.from)]

\* The first unigram of every model is <unk>, the 0-gram words back off to.
HandleUnk ==
  /\ models # << >> /\ merged[1] = << >>
  /\ LET probs == [m \in Models |-> Weighted(m, Top(m, 1).prob)]
         unk == Entry(Top(1, 1).gram, probs, [m \in Models |-> 0])
     IN  /\ merged' = [merged EXCEPT ![1] = <<OutRecord(unk, Product(probs))>>]
         /\ path' = <<[unk EXCEPT !.gram = << >>]>>
  /\ reading' = Advanced(Models, 1)
  /\ UNCHANGED <<models, lambdas, names, universal>>

\* The models whose next n-gram of an order ends in the suffix at the end of path.
Extending(k) == {m \in Active(k) : Tail(Top(m, k).gram) = Last(path).gram}

\* The next n-gram that extends the suffix, by the smallest word before it.
Extend ==
  /\ path # << >>
  /\ LET k == Len(path)
         suffix == Last(path)
     IN  /\ k <= MaxOrder /\ Extending(k) # {}
         /\ LET gram == <<Min({Top(m, k).gram[1] : m \in Extending(k)})>> \o suffix.gram
                has == {m \in Active(k) : Top(m, k).gram = gram}
                entry == Entry(gram,
                               [m \in Models |-> IF m \in has THEN Weighted(m, Top(m, k).prob)
                                                 ELSE suffix.probs[m]],
                               [m \in Models |-> IF m \in has THEN k - 1 ELSE suffix.from[m]])
            IN  /\ merged' = [merged EXCEPT ![k] = Append(@, OutRecord(entry, Product(suffix.probs)))]
                /\ path' = Append(path, entry)
                /\ reading' = Advanced(has, k)
  /\ UNCHANGED <<models, lambdas, names, universal>>

\* No n-gram extends the suffix, or its order is the highest.
Return ==
  /\ path # << >>
  /\ Len(path) <= MaxOrder => Extending(Len(path)) = {}
  /\ path' = Front(path)
  /\ UNCHANGED <<models, lambdas, names, universal, reading, merged>>

Merge == HandleUnk \/ Extend \/ Return

MergeEnded == MergeStarted /\ path = << >>

\* "MergeProbabilities did not exhaust all ngram streams"
Exhausted == \A k \in 1 .. MaxOrder : Active(k) = {}
=============================================================================
