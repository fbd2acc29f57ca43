---------------------------- MODULE BackoffModel ----------------------------
(***************************************************************************)
(* What the two structures of a loaded model have in common: the ARPA file *)
(* it comes from, the entries a query finds, and the probability that the  *)
(* file gives.                                                             *)
(*                                                                         *)
(* An n-gram is the sequence of its words from the last to the first, as   *)
(* vocab_ids is, so that the n-gram that ends in the same words but is     *)
(* shorter is a prefix of it, and its context is its tail.  A file need    *)
(* not list that shorter n-gram (a toolkit may have pruned it): a blank,   *)
(* with the probability that backing off gives, is then put into the       *)
(* tables, because a query lengthens an n-gram word by word and must not   *)
(* stop where a longer one is to be found.                                 *)
(*                                                                         *)
(* The sign bits of the two floats of an entry are fields of their own:    *)
(* left says that some entry extends it to the left, ext (HasExtension)    *)
(* that its backoff is not kNoExtensionBackoff, so that a state has to     *)
(* keep it.  Logarithms are integers.                                      *)
(***************************************************************************)
EXTENDS Integers, Sequences, FiniteSets, SequencesExt, FiniteSetsExt, Functions

CONSTANTS Order,
          Vocabulary,
          Files,        \* the files considered: sequences of [gram, prob, backoff]
          Structures,   \* "probing", "trie"
          Loads(_, _),  \* which files are loaded into which structure
          MaxRest       \* the build of a probing model: MaxRestBuild, or else NoRestBuild

\* n-grams come in sections, shortest first, and each once.  One that is no
\* other's context has no backoff, as all toolkits write them.
ASSUME OrderAssumption == Order \in Nat /\ Order >= 2
ASSUME FilesAssumption ==
  \A file \in Files :
    /\ \A w \in Vocabulary : \E i \in DOMAIN file : file[i].gram = <<w>>
    /\ \A i \in DOMAIN file :
         /\ Len(file[i].gram) \in 1 .. Order /\ ToSet(file[i].gram) \subseteq Vocabulary
         /\ \A j \in 1 .. i - 1 :
              Len(file[j].gram) <= Len(file[i].gram) /\ file[j].gram # file[i].gram
         /\ file[i].backoff # 0 => \E j \in DOMAIN file : Tail(file[j].gram) = file[i].gram
ASSUME RestAssumption == MaxRest \in BOOLEAN

VARIABLES file, structure,   \* fixed
          search,      \* n-gram -> entry, what a query finds
          thrown       \* FormatLoadException

given == <<file, structure>>

Shorter(gram, k) == SubSeq(gram, 1, k)
Recent(history) == SubSeq(history, 1, Min({Order - 1, Len(history)}))
Context(gram) == Tail(gram)

\* ReadBackoff: no n-gram extends yet, no backoff of zero is kept.
Entry(weights) ==
  [prob |-> weights.prob, rest |-> weights.prob, left |-> FALSE,
   backoff |-> weights.backoff, ext |-> weights.backoff # 0]

Weights(gram) == file[CHOOSE i \in DOMAIN file : file[i].gram = gram]

-----------------------------------------------------------------------------
(* What the file says                                                      *)

InFile(gram) == \E i \in DOMAIN file : file[i].gram = gram

\* The probability of a word after a history, newest word first: that of the
\* longest n-gram that is listed, and the backoffs of the contexts that are
\* too long for it.  Every text on back-off models defines it so.
LogProb(word, history) ==
  LET h == Recent(history)
      used == Max({k \in 0 .. Len(h) : InFile(<<word>> \o Shorter(h, k))})
  IN  Weights(<<word>> \o Shorter(h, used)).prob
        + MapThenSumSet(LAMBDA k : IF InFile(Shorter(h, k)) THEN Weights(Shorter(h, k)).backoff ELSE 0,
                        used + 1 .. Len(h))

GramProb(gram) == LogProb(Head(gram), Tail(gram))
=============================================================================
