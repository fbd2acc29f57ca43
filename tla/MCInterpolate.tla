--------------------------- MODULE MCInterpolate ---------------------------
(***************************************************************************)
(* Instances of Interpolate for TLC, with two words besides the special    *)
(* ones: every corpus of two sentences of at most three words, so that     *)
(* there are 4-grams without <s>; of three sentences of at most two words; *)
(* and those of six lines that have one sentence once, one twice and one   *)
(* three times, so that the discounts come from the counts and not from    *)
(* the fallback.  (The order of the sentences makes no difference.)        *)
(***************************************************************************)
EXTENDS TwoPrograms

Sentences(n) == {Append(s, kEOS) : s \in BoundedSeq({3, 4}, n)}
OneTwoThree ==
  {<<f[1], f[2], f[2], f[3], f[3], f[3]>> :
     f \in {g \in [1 .. 3 -> Sentences(2)] : IsInjective(g)}}
SmallCorpora ==
  (BoundedSeq(Sentences(3), 2) \cup BoundedSeq(Sentences(2), 3) \cup OneTwoThree) \ {<< >>}
SomeThresholds == {<<0, 0, 0, 0>>, <<0, 0, 1, 1>>, <<0, 1, 2, 2>>}
NoneOrOne == {{}, {4}}
HalfOneAndAHalf == <<Fraction(1, 2), Whole(1), Fraction(3, 2)>>

-----------------------------------------------------------------------------
(* Models to interpolate with.  The hashes of lmplz' words are even; the   *)
(* word 5 is not in its corpora, 6 is its first one, and its second, 8, is *)
(* in neither.  The probabilities are some numbers, that of <s> is 1.      *)

EvenHash == [w \in 0 .. 4 |-> 2 * w]

\* Records of a model in suffix order, where some function of a gram gives the
\* numbers and only contexts of its grams have a backoff.
Made(n, vocab, made_of, seed) ==
  LET number(g) == 2 + FoldLeft(LAMBDA x, w : (x * 31 + w + seed) % 4999, 7, g)
      context(g) == \E h \in made_of : Len(h) = Len(g) + 1 /\ Context(h) = g
      made(g) == [gram |-> g, prob |-> IF g = <<1>> THEN 1 ELSE number(g),
                  backoff |-> IF context(g) THEN number(g) + 17 ELSE 1]
  IN  [order |-> n, vocab |-> vocab,
       grams |-> [k \in 1 .. n |->
                   InOrder({made(g) : g \in {h \in made_of : Len(h) = k}}, SuffixRecordLess)]]

\* Ids: <unk>, <s>, </s>, 5, 6.
LongModel ==
  Made(4, <<0, 2, 4, 5, 6>>,
       {<<i>> : i \in 0 .. 4} \cup {<<1, 3>>, <<3, 4>>, <<4, 4>>, <<4, 2>>}
         \cup {<<1, 3, 4>>, <<3, 4, 4>>, <<4, 4, 2>>} \cup {<<1, 3, 4, 4>>}, 5)
ShortModel ==
  Made(2, <<0, 2, 4, 6>>, {<<i>> : i \in 0 .. 3} \cup {<<1, 3>>, <<3, 2>>}, 11)
LongAndShort == {LongModel, ShortModel}
SomeWeights == {<<1, 2>>}
=============================================================================
