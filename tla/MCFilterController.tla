------------------------- MODULE MCFilterController -------------------------
(***************************************************************************)
(* Instances of FilterController for TLC: which inputs are read, filtered  *)
(* by the predicates of FilterPredicates.                                  *)
(***************************************************************************)
EXTENDS FilterController, FilterPredicates

Condition(mode, phrase, context, sentences) ==
  [mode |-> mode, phrase |-> phrase, context |-> context, sentences |-> sentences]

-----------------------------------------------------------------------------
(* Scripts of many lengths                                                 *)

\* One line in four goes to both sentences, one to none, and one to each of them.
Ngrams(n) == [i \in 1 .. n |-> <<3 + (i % 4)>>]
Section(n) == Append(Ngrams(n), << >>)
ByPlace(mode) == Condition(mode, FALSE, FALSE, <<{<<3>>, <<6>>}, {<<3>>, <<4>>}>>)

\* ARPA files with two sections; no section but the last fills whole batches.
ArpaScripts == {Section(1) \o Section(n) : n \in 0 .. 6} \cup {Section(5) \o Section(2)}

\* Raw count files that fill whole batches, and one that does not.
RawScripts == {Ngrams(n) : n \in {2, 4, 6}}
RawTailScripts == {Ngrams(3)}

\* Sections that fill every batch once.
ShortScripts == {Section(n) : n \in {3, 5, 7}}

-----------------------------------------------------------------------------
(* Conditions of many kinds, with n-grams in which phrases meet            *)

Vocabularies == <<{<<3>>}, {<<4, 4>>}, {<<3, 4>>, <<3, 3>>}, {<<4, 4, 3>>, <<4>>}>>
Kinds == << <<"single", FALSE, FALSE>>, <<"union", FALSE, FALSE>>, <<"union", TRUE, FALSE>>,
            <<"multiple", FALSE, TRUE>>, <<"multiple", TRUE, FALSE>>, <<"multiple", TRUE, TRUE>> >>

\* Raw files of one batch.
Assembled ==
  { << <<3, 4>>, <<4>> >>, << <<4, 4>>, <<3, 3>> >>, << <<3, 4, 3>>, <<1, 2>> >>,
    << <<4, 4, 3, 4>>, <<1, 4, 3>> >>, << <<3, 4, 4, 2>>, <<4, 3, 4, 3>> >>,
    << <<3, 3, 4, 4>>, <<4, 3, 3>> >> }

-----------------------------------------------------------------------------
(* An input has the number of its condition, which makes the states small, *)
(* and what is asked of a condition is answered once for all of them.      *)

\* Every kind of filter with every three sentences, by the digits of n; the last
\* two are ByPlace.
Conditions ==
  [n \in 1 .. Len(Kinds) * 4^3 |->
     LET kind == Kinds[1 + ((n \div 4^3) % Len(Kinds))]
     IN  Condition(kind[1], kind[2], kind[3],
                   [s \in 1 .. 3 |-> Vocabularies[1 + ((n \div 4^(s - 1)) % 4)]])]
    \o <<ByPlace("union"), ByPlace("multiple")>>

OneFile(scripts) == [script : scripts, condition : {Len(Conditions) - 1}]
Multiple(scripts) == [script : scripts, condition : {Len(Conditions)}]

SoundInputs ==
  OneFile(ArpaScripts \cup RawScripts) \cup Multiple(ShortScripts)
    \cup [script : Assembled, condition : 1 .. Len(Conditions) - 2]

\* An ARPA file whose first section is a multiple of the batch size.
WholeBatchInputs == OneFile({Section(2) \o Section(1)})
RawTailInputs == OneFile(RawTailScripts)

Asked == {<<3>>, <<4>>, <<5>>, <<6>>} \cup UNION {ToSet(lines) : lines \in Assembled}
Answered == [c \in DOMAIN Conditions |-> [ngram \in Asked |-> FilterAnswer(Conditions[c], ngram)]]
Promised == [c \in DOMAIN Conditions |-> [ngram \in Asked |-> MeantAnswer(Conditions[c], ngram)]]
FilterChooses(c, ngram) == Answered[c][ngram]
FilterMeans(c, ngram) == Promised[c][ngram]
=============================================================================
