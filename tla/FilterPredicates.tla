-------------------------- MODULE FilterPredicates --------------------------
(***************************************************************************)
(* lm/filter/vocab.hh, phrase.* and wrapper.hh: which n-grams a filter     *)
(* lets pass.  Sentences have vocabularies or phrases; an n-gram passes    *)
(* for the sentences that have all its words, or whose phrases can make it *)
(* up "when assembled in arbitrary order and clipped" (filter_main.cc).    *)
(* Both are intersections of sorted lists of sentence numbers, of which no *)
(* more is read than is needed.                                            *)
(*                                                                         *)
(* A condition is [mode, phrase, context, sentences]: sentence s has the   *)
(* phrases sentences[s + 1], or without "phrase" the words in them.  Words *)
(* are numbers, in place of their hashes; what a filter answers is [all,   *)
(* systems]: the line goes to all outputs, or to those of some sentences.  *)
(***************************************************************************)
EXTENDS Naturals, Sequences, SequencesExt

EndSentence == 2
IsTag(word) == word \in {0, 1, EndSentence}   \* <unk>, <s>, </s>

ToAll == [all |-> TRUE, systems |-> {}]
ToSystems(s) == [all |-> FALSE, systems |-> s]
IfPasses(pass) == IF pass THEN ToAll ELSE ToSystems({})

\* The sorted list of the sentences that are so; and lower_bound in a list.
Posting(c, so(_)) == SelectSeq([s \in DOMAIN c.sentences |-> s - 1], LAMBDA s : so(c.sentences[s + 1]))
LowerBound(list, to) == SelectSeq(list, LAMBDA s : s >= to)

-----------------------------------------------------------------------------
(* util/multi_intersection.hh and vocab.hh                                 *)

\* FirstIntersectionSorted from set i on: what is left of the sets, and the
\* first value in all of them, if any.
RECURSIVE FirstIntersection(_, _, _)
FirstIntersection(sets, i, highest) ==
  IF i > Len(sets) THEN [sets |-> sets, found |-> <<highest>>]
  ELSE LET rest == LowerBound(sets[i], highest)
       IN  IF rest = << >> THEN [sets |-> sets, found |-> << >>]
           ELSE IF highest < rest[1] THEN FirstIntersection([sets EXCEPT ![i] = rest], 1, rest[1])
           ELSE FirstIntersection([sets EXCEPT ![i] = rest], i + 1, highest)

RECURSIVE AllIntersection(_)
AllIntersection(sets) ==
  IF sets[1] = << >> THEN {}
  ELSE LET first == FirstIntersection(sets, 1, sets[1][1])
       IN  IF first.found = << >> THEN {}
           ELSE {first.found[1]} \cup AllIntersection([first.sets EXCEPT ![1] = Tail(@)])

HasWord(phrases, word) == \E p \in phrases : word \in ToSet(p)

\* Single and Union end with the first sentence they find.
VocabFilter(c, words) ==
  LET real == SelectSeq(words, LAMBDA w : ~IsTag(w))
      postings == [i \in DOMAIN real |-> Posting(c, LAMBDA phrases : HasWord(phrases, real[i]))]
      sets == SortSeq(postings, LAMBDA a, b : Len(a) < Len(b))
  IN  IF real = << >> THEN ToAll
      ELSE IF sets[1] = << >> THEN ToSystems({})
      ELSE CASE c.mode = "single" -> ToAll
             [] c.mode = "union" -> IfPasses(FirstIntersection(sets, 1, sets[1][1]).found # << >>)
             [] c.mode = "multiple" -> ToSystems(AllIntersection(sets))

-----------------------------------------------------------------------------
(* phrase.*                                                                *)

\* "For now, just skip tags."
MakeHashes(words) ==
  LET from == IF words # << >> /\ IsTag(words[1]) THEN Tail(words) ELSE words
      ends == {i \in DOMAIN from : from[i] = EndSentence}
  IN  IF ends = {} THEN from
      ELSE SubSeq(from, 1, (CHOOSE i \in ends : \A j \in ends : i <= j) - 1)

\* Does the phrase have the words in it?
Has(p, words) == \E i \in 0 .. Len(p) - Len(words) : SubSeq(p, i + 1, i + Len(words)) = words

\* Fault of Arcs: the last phrase has to end with the n-gram.
UnclippedArcs(c, words) ==
  LET n == Len(words)
      covered(a) == SubSeq(words, a[1] + 1, a[2])
      so(a, p) == IF a[1] > 0 THEN p = covered(a)
                  ELSE IF a[2] = n THEN Has(p, words) ELSE IsSuffix(covered(a), p)
  IN  [a \in {arc \in (0 .. n) \X (1 .. n) : arc[1] < arc[2]} |->
         Posting(c, LAMBDA phrases : \E p \in phrases : so(a, p))]

\* BuildGraph.  Vertex j is where the n-gram's first j words end; the arc <<i, j>>
\* has the sentences with a phrase for the words between, which may begin before
\* the n-gram if i is 0 (SetRight), and end behind it if j is the end.
Arcs(c, words) ==
  LET n == Len(words)
      covered(a) == SubSeq(words, a[1] + 1, a[2])
      so(a, p) == IF a[1] > 0 /\ a[2] < n THEN p = covered(a)
                  ELSE IF a[1] > 0 THEN IsPrefix(covered(a), p)
                  ELSE IF a[2] < n THEN IsSuffix(covered(a), p)
                  ELSE Has(p, words)
  IN  [a \in {arc \in (0 .. n) \X (1 .. n) : arc[1] < arc[2]} |->
         Posting(c, LAMBDA phrases : \E p \in phrases : so(a, p))]

\* rest is what lies between an arc's current_ and last_; incoming are the arcs in
\* a vertex' queue, which are not empty.
MakeGraph(c, words) ==
  LET arcs == Arcs(c, words)
  IN  [rest |-> arcs,
       current |-> [v \in DOMAIN words |-> 0],
       incoming |-> [v \in DOMAIN words |-> {a \in DOMAIN arcs : a[2] = v /\ arcs[a] # << >>}]]

RECURSIVE VertexLowerBound(_, _, _)

\* Arc::LowerBound.  "If *current_ > to, don't advance from_."
ArcLowerBound(g, a, to) ==
  LET moved == [g EXCEPT !.rest[a] = LowerBound(@, to)]
      rest == moved.rest[a]
      from == a[1]
      h == VertexLowerBound(moved, from, to)
  IN  IF from = 0 \/ rest = << >> \/ rest[1] > to THEN moved
      ELSE [h EXCEPT !.rest[a] =
              IF h.incoming[from] = {} THEN << >>
              ELSE IF h.current[from] > to THEN LowerBound(Tail(@), h.current[from]) ELSE @]

\* Vertex::LowerBound: the union of the arcs, of which one with the least
\* sentence is on top of the queue.
VertexLowerBound(g, v, to) ==
  IF g.incoming[v] = {} THEN g
  ELSE LET top == CHOOSE a \in g.incoming[v] :
                    \A b \in g.incoming[v] : g.rest[a][1] <= g.rest[b][1]
           popped == ArcLowerBound([g EXCEPT !.incoming[v] = @ \ {top}], top, to)
           pushed == [popped EXCEPT !.incoming[v] = @ \cup {top}]
       IN  IF g.rest[top][1] > to THEN [g EXCEPT !.current[v] = g.rest[top][1]]
           ELSE IF popped.rest[top] = << >> THEN VertexLowerBound(popped, v, to)
           ELSE IF popped.rest[top][1] = to THEN [pushed EXCEPT !.current[v] = to]
           ELSE VertexLowerBound(pushed, v, to)

\* The loop of Multiple::Evaluate; Union's ends at the first sentence.
RECURSIVE Evaluate(_, _, _, _)
Evaluate(g, n, lower, first_only) ==
  LET h == VertexLowerBound(g, n, lower)
  IN  IF h.incoming[n] = {} THEN {}
      ELSE IF h.current[n] # lower THEN Evaluate(h, n, h.current[n], first_only)
      ELSE {lower} \cup IF first_only THEN {} ELSE Evaluate(h, n, lower + 1, first_only)

PhraseFilter(c, words) ==
  LET hashes == MakeHashes(words)
      found == Evaluate(MakeGraph(c, hashes), Len(hashes), 0, c.mode = "union")
  IN  IF hashes = << >> THEN ToAll
      ELSE IF c.mode = "union" THEN IfPasses(found # {}) ELSE ToSystems(found)

-----------------------------------------------------------------------------
\* ContextFilter: the n-gram without its last word.
ContextOf(c, ngram) == IF c.context THEN Front(ngram) ELSE ngram

FilterAnswer(c, ngram) ==
  IF c.phrase THEN PhraseFilter(c, ContextOf(c, ngram)) ELSE VocabFilter(c, ContextOf(c, ngram))

-----------------------------------------------------------------------------
(* What the help text of filter_main.cc promises                           *)

\* "When assembled in arbitrary order and clipped": some phrases in a row have the
\* words in them.
CanAssemble(phrases, words) ==
  \E row \in [DOMAIN words -> phrases] : Has(FlattenSeq(row), words)

AllWordsIn(phrases, words) == \A i \in DOMAIN words : HasWord(phrases, words[i])

MeantAnswer(c, ngram) ==
  LET words == IF c.phrase THEN MakeHashes(ContextOf(c, ngram))
               ELSE SelectSeq(ContextOf(c, ngram), LAMBDA w : ~IsTag(w))
      all == UNION ToSet(c.sentences)
      systems == {s \in 0 .. Len(c.sentences) - 1 :
                    IF c.phrase THEN CanAssemble(c.sentences[s + 1], words)
                    ELSE AllWordsIn(c.sentences[s + 1], words)}
  IN  CASE words = << >> -> ToAll
        [] words # << >> /\ c.mode = "single" -> IfPasses(AllWordsIn(all, words))
        [] words # << >> /\ c.mode = "union" -> IfPasses(systems # {})
        [] words # << >> /\ c.mode = "multiple" -> ToSystems(systems)
=============================================================================
