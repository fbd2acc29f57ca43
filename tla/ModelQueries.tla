---------------------------- MODULE ModelQueries ----------------------------
(***************************************************************************)
(* lm/model.cc: the queries a loaded model answers.  They change nothing,  *)
(* so each is an operator on the tables.                                   *)
(*                                                                         *)
(* A state is what of the history a later query can need: its words, the   *)
(* last first, and the backoffs of the n-grams they make.  A query looks   *)
(* up ever longer n-grams; the pointer that extends an n-gram to the left  *)
(* is the n-gram itself.                                                   *)
(***************************************************************************)
EXTENDS HashedSearch, TrieSearch

searchVars == <<given, search, thrown, next, trie>>

\* The model is loaded into one of the structures.
SearchInit ==
  /\ file \in Files /\ structure \in Structures /\ Loads(structure, file)
  /\ thrown = FALSE
  /\ Probing /\ Trie

LoadStep ==
  \/ ReadNGram /\ UNCHANGED trie
  \/ BuildTrie /\ UNCHANGED next

Loaded == ~thrown /\ IF structure = "probing" THEN Read ELSE phase = "done"

SumOf(s, from, to) == MapThenSumSet(LAMBDA i : s[i], from .. to)

\* The search of ResumeScore: from the n-gram node on, how many more words of
\* the history are matched.  The search ends at the end of the history, at an
\* n-gram that nothing extends to the left, or when one is not found.
Matched(node, independent, history) ==
  IF independent THEN 0
  ELSE Max({m \in 0 .. Len(history) :
         \A j \in 1 .. m : /\ node \o Shorter(history, j) \in DOMAIN search
                           /\ j > 1 => search[node \o Shorter(history, j - 1)].left})

\* Fault of Resume: the state keeps all that was matched.
ResumeWhole(node, independent, history, next_use) ==
  LET gram(j) == node \o Shorter(history, j)
      found(m, middle, entry) ==
        [prob |-> entry.prob, rest |-> entry.rest,
         ngram_length |-> Len(gram(m)),
         independent_left |-> m < Len(history) \/ (IF m = 0 THEN independent ELSE ~entry.left),
         extend_left |-> gram(m),
         backoff_out |-> [j \in 1 .. Cardinality(middle) |-> search[gram(j)].backoff],
         next_use |-> Max({next_use} \cup {Len(gram(j)) : j \in middle})]
      matched(m) == found(m, {j \in 1 .. m : Len(gram(j)) < Order}, search[gram(m)])
  IN  matched(Matched(node, independent, history))

\* ResumeScore; next_use is the longest n-gram that a state has to keep.
Resume(node, independent, history, next_use) ==
  LET gram(j) == node \o Shorter(history, j)
      found(m, middle, entry) ==
        [prob |-> entry.prob, rest |-> entry.rest,
         ngram_length |-> Len(gram(m)),
         independent_left |-> m < Len(history) \/ (IF m = 0 THEN independent ELSE ~entry.left),
         extend_left |-> gram(m),
         backoff_out |-> [j \in 1 .. Cardinality(middle) |-> search[gram(j)].backoff],
         next_use |-> Max({next_use} \cup {Len(gram(j)) : j \in {i \in middle : search[gram(i)].ext}})]
      matched(m) == found(m, {j \in 1 .. m : Len(gram(j)) < Order}, search[gram(m)])
  IN  matched(Matched(node, independent, history))

EmptyState == [words |-> << >>, backoff |-> << >>]
State(words, backoffs, length) ==
  [words |-> SubSeq(words, 1, length), backoff |-> SubSeq(backoffs, 1, length)]

\* ScoreExceptBackoff: the state keeps the longest n-gram that has a backoff
\* or is the context of another.
ScoreExceptBackoff(context, word) ==
  LET unigram == search[<<word>>]
      ret == Resume(<<word>>, ~unigram.left, context, IF unigram.ext THEN 1 ELSE 0)
  IN  [ret |-> ret,
       out_state |-> State(<<word>> \o context, <<unigram.backoff>> \o ret.backoff_out, ret.next_use)]

\* FullScore: the backoffs of the contexts longer than the one matched are added.
FullScore(in_state, word) ==
  LET score == ScoreExceptBackoff(in_state.words, word)
  IN  [score EXCEPT !.ret.prob =
         @ + SumOf(in_state.backoff, score.ret.ngram_length, Len(in_state.backoff))]

\* FullScoreForgotState: the same without a state; the backoffs are looked up.
FullScoreForgotState(history, word) ==
  LET context == Recent(history)
      score == ScoreExceptBackoff(context, word)
      start == score.ret.ngram_length
      found(k) == \A j \in Max({start, 2}) .. k : Shorter(context, j) \in DOMAIN search
  IN  [score EXCEPT !.ret.prob =
         @ + MapThenSumSet(LAMBDA k : search[Shorter(context, k)].backoff,
                           {k \in start .. Len(context) : found(k)})]

\* GetState
GetState(history) ==
  LET context == Recent(history)
      m == Max({k \in 0 .. Len(context) : \A j \in 1 .. k : Shorter(context, j) \in DOMAIN search})
      length == Max({0} \cup {k \in 1 .. m : search[Shorter(context, k)].ext})
  IN  State(context, [k \in 1 .. m |-> search[Shorter(context, k)].backoff], length)

\* ExtendLeft: the n-gram extend_left was scored without the words of add; what
\* they change, relative to its rest cost.  next_use is how many of them the
\* word after it needs.
ExtendLeft(add, backoff_in, extend_left) ==
  LET unrest == search[extend_left].rest
      charged(ret) == SumOf(backoff_in, ret.ngram_length - Len(extend_left) + 1, Len(add))
      adjusted(ret) == [ret EXCEPT !.prob = @ + charged(ret) - unrest, !.rest = @ - unrest,
                                   !.next_use = @ - Len(extend_left)]
  IN  adjusted(Resume(extend_left, FALSE, add, Len(extend_left)))

\* UnRest: what the rest costs of these n-grams have to be corrected by.
UnRest(pointers) ==
  MapThenSumSet(LAMBDA i : search[pointers[i]].prob - search[pointers[i]].rest, DOMAIN pointers)

-----------------------------------------------------------------------------
(* Properties                                                              *)

\* "If the n-gram might be extended, then out_state must contain the full n-gram,
\* in which case kExtensionBackoff is set" (lm/blank.hh): of every entry, blanks
\* included, the context is marked so that a state keeps it.
ContextsAreKept ==
  Loaded => \A gram \in DOMAIN search : Len(gram) > 1 =>
    Context(gram) \in DOMAIN search /\ search[Context(gram)].ext

\* Whatever n-grams of the lower orders a file leaves out, the tables are
\* closed under shortening from the left, every entry's probability is the
\* one backing off gives, left is set exactly where a longer entry is there,
\* contexts are kept, and a rest cost is the best probability of the longer
\* entries.
TablesAreClosed ==
  /\ ContextsAreKept
  /\ ~thrown /\ (structure = "trie" => Loaded) => \A gram \in DOMAIN search :
    LET longer == {g \in DOMAIN search : Len(g) > Len(gram) /\ IsPrefix(gram, g)}
    IN  /\ Len(gram) > 1 => Shorter(gram, Len(gram) - 1) \in DOMAIN search
        /\ Loaded => search[gram].prob = GramProb(gram)
        /\ search[gram].left = (longer # {})
        /\ search[gram].rest = IF MaxRest /\ structure = "probing"
                                 THEN Max({search[g].prob : g \in longer \cup {gram}})
                               ELSE search[gram].prob
=============================================================================
