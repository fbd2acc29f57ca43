------------------------------- MODULE NGrams -------------------------------
(***************************************************************************)
(* The N-grams of a corpus, as lm/builder makes them: words are vocabulary *)
(* indices, a line's N-grams are one for every word and for </s>, and      *)
(* suffix order compares words from the last to the first.  Position i of  *)
(* a gram is begin()[i - 1].                                               *)
(***************************************************************************)
EXTENDS Integers, Sequences, FiniteSets, SequencesExt, FiniteSetsExt

CONSTANT Order

kUNK == 0
kBOS == 1
kEOS == 2

\* SuffixOrder
SuffixLess(a, b) ==
  \E k \in 1 .. Len(a) :
    /\ a[k] < b[k]
    /\ \A j \in k + 1 .. Len(a) : a[j] = b[j]

\* A set as a sequence in order.
InOrder(S, less(_, _)) == SortSeq(FoldSet(LAMBDA x, seq : Append(seq, x), << >>, S), less)

\* ContextOrder: the last word is compared last.
ContextLess(a, b) ==
  LET first(g) == <<g[Len(g)]>> \o SubSeq(g, 1, Len(g) - 1)
  IN  SuffixLess(first(a.gram), first(b.gram))

\* The order of records is that of their grams.
SuffixRecordLess(a, b) == SuffixLess(a.gram, b.gram)

-----------------------------------------------------------------------------
(* What counting a corpus has to give.  Nothing in the code computes this. *)

\* The N-grams that end in the words of a line (</s> is one), the first ones
\* after N - 1 times <s>.
Grams(line) ==
  LET padded == [i \in 1 .. Order - 1 |-> kBOS] \o line
  IN  [i \in DOMAIN line |-> SubSeq(padded, i, i + Order - 1)]

\* Every N-gram of the lines once, with the number of its occurrences.
SortedCounts(lines) ==
  LET all == FlattenSeq([i \in DOMAIN lines |-> Grams(lines[i])])
      times(gram) == Cardinality({i \in DOMAIN all : all[i] = gram})
      grams == {all[i] : i \in DOMAIN all}
      at(i) == CHOOSE g \in grams : Cardinality({h \in grams : SuffixLess(h, g)}) = i - 1
  IN  [i \in 1 .. Cardinality(grams) |-> [gram |-> at(i), count |-> times(at(i))]]
=============================================================================
