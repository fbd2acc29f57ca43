------------------------------ MODULE LogLinear ------------------------------
(***************************************************************************)
(* The second and third pass of lm/interpolate (pipeline.cc, normalize.cc, *)
(* backoff_reunification.cc): the merged n-grams, sorted by context, get   *)
(* the backoffs they lack and are divided by the sum over all words after  *)
(* their context.  The backoffs come from the models' files, read a second *)
(* time, without the highest order of each model; each file's next n-gram  *)
(* waits in a queue until the recursion over contexts reaches it.          *)
(*                                                                         *)
(* A weight is a power, a sum of logarithms a product.  Contexts of order  *)
(* k have their backoff in place k of the matrix (order_minus_1 + 1).      *)
(***************************************************************************)
EXTENDS MergeModels

VARIABLES rest,     \* order -> merged n-grams in context order, that are left
          place,     \* model -> order -> n-grams of its second reading left behind
          entered,   \* order -> the models whose n-gram of that order is entered
          matrix,    \* BackoffMatrix: model -> order
          contexts,  \* the contexts in progress with their sums, the empty one first
          entering,  \* <<context>> while Enter runs for it
          probs_out, \* order -> [gram, prob]
          backoffs_out,  \* order -> backoffs
          unified,   \* order -> [gram, prob, backoff], the interpolated model
          thrown     \* "Streams were not the same size during merging"

normalizing ==
  <<rest, place, entered, matrix, contexts, entering, probs_out, backoffs_out, unified, thrown>>
pipeline == <<merging, normalizing>>

LogLinearInit ==
  /\ models = << >> /\ lambdas = << >> /\ names = << >> /\ universal = << >>
  /\ reading = << >> /\ path = << >> /\ merged = << >>
  /\ rest = << >> /\ place = << >> /\ entered = << >> /\ matrix = << >>
  /\ contexts = << >> /\ entering = << >> /\ probs_out = << >> /\ backoffs_out = << >>
  /\ unified = << >> /\ thrown = FALSE

\* Thread::Run up to the recursion: unigrams are summed, without the 1 of <s>,
\* and divided by the sum; BackoffManager's constructor fills its queue.
BeginNormalizing ==
  /\ MergeEnded /\ Exhausted /\ rest = << >> /\ MaxOrder > 1
  /\ rest' = [k \in 1 .. MaxOrder |-> IF k = 1 THEN << >> ELSE SortSeq(merged[k], ContextLess)]
  /\ LET z == (SumMod(DOMAIN merged[1], LAMBDA i : merged[1][i].prob) - 1) % Prime
         normal(r) == [gram |-> r.gram, prob |-> Multiply(r.prob, Inverted(z))]
     IN  /\ probs_out' = [k \in 1 .. MaxOrder |->
                           IF k > 1 THEN << >> ELSE [i \in DOMAIN merged[1] |-> normal(merged[1][i])]]
         /\ contexts' = <<[context |-> << >>, z |-> z]>>
  /\ place' = [m \in Models |-> [k \in 1 .. models[m].order - 1 |-> 0]]
  /\ entered' = [k \in 1 .. MaxOrder - 1 |-> {}]
  /\ matrix' = [m \in Models |-> [k \in 1 .. MaxOrder |-> 1]]
  /\ backoffs_out' = [k \in 1 .. MaxOrder - 1 |-> << >>]
  /\ UNCHANGED <<merging, entering, unified, thrown>>

-----------------------------------------------------------------------------
(* BackoffManager                                                          *)

\* SuffixLexicographicLess: of grams of any order.
LexicographicLess(a, b) ==
  LET same(n) == \A i \in 0 .. n - 1 : a[Len(a) - i] = b[Len(b) - i]
      short == Min({Len(a), Len(b)})
  IN  \/ \E n \in 0 .. short - 1 : same(n) /\ a[Len(a) - n] < b[Len(b) - n]
      \/ same(short) /\ Len(a) < Len(b)

Waiting(m, k) == Renumbered(m, models[m].grams[k][place[m][k] + 1])
GramOf(entry) == Waiting(entry[1], entry[2]).gram

\* The streams in the queue.
Queue ==
  {entry \in {<<m, k>> : m \in Models, k \in 1 .. MaxOrder - 1} :
     /\ entry[2] \in DOMAIN place[entry[1]]
     /\ place[entry[1]][entry[2]] < Len(models[entry[1]].grams[entry[2]])
     /\ entry[1] \notin entered[entry[2]]}
QueueTop(entry) == entry \in Queue /\ \A e \in Queue : ~LexicographicLess(GramOf(e), GramOf(entry))

\* Fault of SkipRecord: a backoff is written for each model that has the n-gram.
SkipEach(entry) ==
  /\ QueueTop(entry)
  /\ backoffs_out' = [backoffs_out EXCEPT ![entry[2]] = Append(@, 1)]
  /\ place' = [place EXCEPT ![entry[1]][entry[2]] = @ + 1]
  /\ matrix' = [matrix EXCEPT ![entry[1]][entry[2]] = 1]

\* The n-gram at the top is no context of those to come: it has the backoff 1,
\* written for the last of the models that have it.
SkipRecord(entry) ==
  /\ QueueTop(entry)
  /\ backoffs_out' =
       IF \E e \in Queue \ {entry} : GramOf(e) = GramOf(entry) THEN backoffs_out
       ELSE [backoffs_out EXCEPT ![entry[2]] = Append(@, 1)]
  /\ place' = [place EXCEPT ![entry[1]][entry[2]] = @ + 1]
  /\ matrix' = [matrix EXCEPT ![entry[1]][entry[2]] = 1]

\* The loop of Enter.
SkipBefore ==
  /\ entering # << >>
  /\ \E entry \in Queue : LexicographicLess(GramOf(entry), entering[1]) /\ SkipRecord(entry)
  /\ UNCHANGED <<merging, rest, entered, contexts, entering, probs_out, unified, thrown>>

\* The models whose next n-gram is the context.
MatchingTop(context) ==
  {m \in Models : <<m, Len(context)>> \in Queue /\ GramOf(<<m, Len(context)>>) = context}

\* The backoffs after Exit from a context of order k.
Left(k) == [m \in Models |-> IF m \in entered[k] THEN [matrix[m] EXCEPT ![k] = 1] ELSE matrix[m]]

-----------------------------------------------------------------------------
(* Recurse                                                                 *)

Depth == Len(contexts)            \* contexts of order Depth extend the last of contexts
Extended ==
  /\ Depth < MaxOrder /\ rest[Depth + 1] # << >>
  /\ SubSeq(Head(rest[Depth + 1]).gram, 2, Depth) = Last(contexts).context

\* ExtendContext: the next n-gram begins another context with this one as suffix.
ExtendContext ==
  /\ contexts # << >> /\ entering = << >> /\ Extended
  /\ entering' = <<SubSeq(Head(rest[Depth + 1]).gram, 1, Depth)>>
  /\ UNCHANGED <<merging, rest, place, entered, matrix, contexts, probs_out, backoffs_out,
                 unified, thrown>>

\* Fault of Charged: the backoff of the whole context is charged to the lower one.
ChargedWhole(backoff, k, record) ==
  LET from == Decode(k, record.from)
      upTo(m) == Power(ProductMod(from[m] + 1 .. k - 1, LAMBDA j : backoff[m][j]), lambdas[m])
      charge == ProductMod(Models, upTo)
  IN  [prob |-> Multiply(record.prob, charge), lower |-> Multiply(record.lower, charge)]

\* A record of order k with the backoffs, each to the power of the weight,
\* that every model charges: the lower probability has all but the context's.
Charged(backoff, k, record) ==
  LET from == Decode(k, record.from)
      upTo(n, m) == Power(ProductMod(from[m] + 1 .. n, LAMBDA j : backoff[m][j]), lambdas[m])
      charge(n) == ProductMod(Models, LAMBDA m : upTo(n, m))
  IN  [prob |-> Multiply(record.prob, charge(k - 1)),
       lower |-> Multiply(record.lower, charge(k - 2))]

\* SameContext, when its Enter has nothing more to skip.
SameContext ==
  /\ entering # << >>
  /\ \A entry \in Queue : ~LexicographicLess(GramOf(entry), entering[1])
  /\ LET k == Depth + 1
         context == entering[1]
         z_lower == Last(contexts).z
         has == MatchingTop(context)
         backoff == [m \in Models |->
                      IF m \in has THEN [matrix[m] EXCEPT ![k - 1] = Waiting(m, k - 1).backoff]
                      ELSE matrix[m]]
         backoff_once == ProductMod(Models, LAMBDA m : Power(backoff[m][k - 1], lambdas[m]))
         count == Max({n \in DOMAIN rest[k] :
                         \A i \in 1 .. n : SubSeq(rest[k][i].gram, 1, k - 1) = context})
         charged == [i \in 1 .. count |-> Charged(backoff, k, rest[k][i])]
         z_delta == SumMod(1 .. count, LAMBDA i :
                             charged[i].prob - Multiply(charged[i].lower, backoff_once))
         z == (Multiply(z_lower, backoff_once) + z_delta) % Prime
         over == Inverted(z)
     IN  /\ matrix' = backoff
         /\ entered' = [entered EXCEPT ![k - 1] = has]
         /\ rest' = [rest EXCEPT ![k] = SubSeq(@, count + 1, Len(@))]
         /\ probs_out' = [probs_out EXCEPT ![k] = @ \o [i \in 1 .. count |->
                            [gram |-> rest[k][i].gram, prob |-> Multiply(charged[i].prob, over)]]]
         /\ backoffs_out' = [backoffs_out EXCEPT ![k - 1] =
                               Append(@, Multiply(Multiply(z_lower, backoff_once), over))]
         /\ contexts' = Append(contexts, [context |-> context, z |-> z])
  /\ entering' = << >>
  /\ UNCHANGED <<merging, place, unified, thrown>>

\* The end of ExtendContext and, but for the empty context, of the SameContext
\* that called it.
ExitContext ==
  /\ contexts # << >> /\ entering = << >> /\ ~Extended
  /\ contexts' = Front(contexts)
  /\ LET k == Depth - 1
     IN  IF k = 0 THEN UNCHANGED <<entered, matrix, place>>
         ELSE /\ matrix' = Left(k)
              /\ place' = [m \in Models |-> IF m \in entered[k] THEN [place[m] EXCEPT ![k] = @ + 1]
                                           ELSE place[m]]
              /\ entered' = [entered EXCEPT ![k] = {}]
  /\ UNCHANGED <<merging, rest, entering, probs_out, backoffs_out, unified, thrown>>

Recursed == rest # << >> /\ contexts = << >>

\* BackoffManager::Finish
FinishBackoffs ==
  /\ Recursed
  /\ \E entry \in Queue : SkipRecord(entry)
  /\ UNCHANGED <<merging, rest, entered, contexts, entering, probs_out, unified, thrown>>

-----------------------------------------------------------------------------
(* ReunifyBackoff, when the probabilities are in suffix order again, and   *)
(* the whole.                                                              *)

ReunifyBackoff ==
  /\ Recursed /\ Queue = {} /\ unified = << >> /\ ~thrown
  /\ IF \E k \in 1 .. MaxOrder - 1 : Len(probs_out[k]) # Len(backoffs_out[k])
       THEN thrown' = TRUE /\ UNCHANGED unified
       ELSE /\ unified' = [k \in 1 .. MaxOrder |->
                 LET probs == SortSeq(probs_out[k], SuffixRecordLess)
                 IN  [i \in DOMAIN probs |->
                       [gram |-> probs[i].gram, prob |-> probs[i].prob,
                        backoff |-> IF k < MaxOrder THEN backoffs_out[k][i] ELSE 1]]]
            /\ UNCHANGED thrown
  /\ UNCHANGED <<merging, rest, place, entered, matrix, contexts, entering, probs_out, backoffs_out>>

LogLinearStep ==
  \/ Merge /\ UNCHANGED normalizing
  \/ BeginNormalizing
  \/ ExtendContext \/ SkipBefore \/ SameContext \/ ExitContext
  \/ FinishBackoffs \/ ReunifyBackoff
=============================================================================
