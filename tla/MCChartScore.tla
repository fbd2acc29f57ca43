---------------------------- MODULE MCChartScore ----------------------------
(***************************************************************************)
(* Instances of ChartScore for TLC: models of order four over two words    *)
(* and <s>, with every choice of some n-grams of each order, so that files *)
(* with pruned suffixes of one and of two orders, and files that lack a    *)
(* context, occur.  No two n-grams have the same weights.                  *)
(***************************************************************************)
EXTENDS ChartScore

\* Words 1 and 2 and <s>, 3; an n-gram's last word comes first.
AllGrams == << <<1>>, <<2>>, <<3>>,
               <<1, 1>>, <<2, 1>>, <<1, 2>>, <<1, 3>>,
               <<1, 2, 1>>, <<1, 1, 1>>,
               <<1, 1, 2, 1>>, <<2, 1, 1, 1>> >>
MCVocabulary == 1 .. 3

Code(gram) == FoldLeft(LAMBDA acc, w : 5 * acc + w, 0, gram)
Cost(gram) == -((37 * Code(gram) * Code(gram)) % 9973)

\* With free, no context has a backoff, but the state may have to keep it.
FileOf(grams, free) ==
  LET listed == SelectSeq(AllGrams, LAMBDA g : g \in grams \/ Len(g) = 1)
      context(g) == \E h \in grams : Tail(h) = g
  IN  [i \in DOMAIN listed |->
         [gram |-> listed[i], prob |-> Cost(listed[i]),
          backoff |-> IF free \/ ~context(listed[i]) THEN 0
                      ELSE 0 - 10000 * (1 + (Code(listed[i]) % 97))]]

MCFiles ==
  {FileOf(grams, free) :
     grams \in {s \in SUBSET {g \in ToSet(AllGrams) : Len(g) > 1} : \E g \in s : Len(g) = Order},
     free \in BOOLEAN}

Pruned(f) ==
  LET listed == {f[i].gram : i \in DOMAIN f}
  IN  \E g \in listed : Len(g) > 1 /\ Front(g) \notin listed

\* The trie is built of files that leave something out.
SoundLoads(s, f) == s = "trie" => Pruned(f)

\* Of two files binary ones are written: with all suffixes, and with a blank.
KeptGrams == {<<1, 1>>, <<2, 1>>, <<1, 2>>, <<1, 2, 1>>, <<1, 1, 2, 1>>}
MCSavedFiles == {FileOf(KeptGrams, FALSE), FileOf(KeptGrams \ {<<1, 2, 1>>}, TRUE)}
NoFiles == {}
Unknown == 0
MCListings == {<<2, Unknown, 3, 1>>, <<3, 1, 2>>}
MCHash(word) == (3 * word) % 7

\* An n-gram with its contexts but without its suffixes: "1 2" is a blank, the
\* context of the blank "1 2 1", and the trie's last bigram.
AllPruned == << <<1>>, <<2>>, <<3>>, <<1, 1>>, <<2, 1, 1>>, <<1, 2, 1, 1>> >>
UnheardFiles ==
  {[i \in DOMAIN AllPruned |-> [gram |-> AllPruned[i], prob |-> Cost(AllPruned[i]), backoff |-> 0]]}
=============================================================================
