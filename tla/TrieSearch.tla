----------------------------- MODULE TrieSearch -----------------------------
(***************************************************************************)
(* lm/search_trie.cc, lm/trie_sort.cc and lm/trie.cc: the other structure, *)
(* a reversed trie.  The n-grams of each order are sorted into a file;     *)
(* RecursiveInsert merges the files into the order of a walk through the   *)
(* trie.  The first walk finds where blanks have to be and asks for the    *)
(* backoffs that their probabilities take from contexts (SRISucks); these  *)
(* are read from the files of the contexts' orders; the second walk writes *)
(* an array per order.  An entry knows where its children begin in the     *)
(* next array, and the entry after it where they end.                      *)
(*                                                                         *)
(* Words are their indices, 1 .. n here.  Widths of bit fields and the     *)
(* compression of pointers (Bhiksha) and weights (Quant) are left out.     *)
(***************************************************************************)
EXTENDS BackoffModel

CONSTANT Bad        \* kBadProb

ASSUME IndexAssumption == Vocabulary = 1 .. Cardinality(Vocabulary)

VARIABLES phase,    \* "find blanks", "backoffs", "write", "finish", "done"
          reader,   \* order -> position in its file, of the unigrams for order 1
          been, basis,      \* of BlankManager
          weights,  \* n-gram -> its weights in its file
          messages, \* length -> BackoffMessages to contexts of this length: sets of
                    \* [to, order, index], the value's place in values
          values,   \* order -> the probabilities of its blanks
          extends,  \* order -> the blanks that are told that they extend
          handed,     \* order -> how many of values GetBlank has given out
          contexts, \* order -> position in the file of contexts
          levels    \* order -> its array; a next is an index, from 1, in the next array

walk == <<reader, been, basis>>
asked == <<messages, values>>
trie == <<phase, walk, weights, asked, extends, handed, contexts, levels>>

Middles == 2 .. Order - 1

\* EntryCompare, and Gram's operator<, for which a prefix is first.
Precedes(a, b) ==
  \/ IsStrictPrefix(a, b)
  \/ \E i \in 1 .. Min({Len(a), Len(b)}) : a[i] < b[i] /\ Shorter(a, i - 1) = Shorter(b, i - 1)

\* ConvertToSorted: batches are sorted in memory and merged two at a time; the
\* contexts of the order's n-grams have a file of their own, without repeats.
Full(k) == SetToSortSeq({file[i].gram : i \in {j \in DOMAIN file : Len(file[j].gram) = k}}, Precedes)
ContextsOf(k) == SetToSortSeq({Context(gram) : gram \in ToSet(Full(k))}, Precedes)

\* Read1Grams, ConvertToSorted, and FindBlanks begins.
Trie ==
  /\ phase = "find blanks"
  /\ reader = [k \in 1 .. Order |-> 1]
  /\ been = << >> /\ basis = [k \in 1 .. Order |-> Bad]
  /\ weights = [gram \in {file[i].gram : i \in DOMAIN file} |-> Entry(Weights(gram))]
  /\ messages = [k \in 1 .. Order - 1 |-> {}] /\ values = [k \in Middles |-> << >>]
  /\ extends = [k \in Middles |-> {}] /\ handed = [k \in Middles |-> 0]
  /\ contexts = [k \in 1 .. Order - 1 |-> 1]
  /\ levels = [k \in 1 .. Order |-> << >>]

-----------------------------------------------------------------------------
(* RecursiveInsert                                                         *)

Remaining == {k \in 1 .. Order : reader[k] <= Len(Full(k))}
Heads == {Full(k)[reader[k]] : k \in Remaining}

\* The top of the queue.
Top == CHOOSE gram \in Heads : \A other \in Heads \ {gram} : Precedes(gram, other)

\* BlankManager::Visit: what been_ and the n-gram have in common; the orders
\* between need blanks, based on the last n-gram of the path that is no blank.
Overlap(gram) ==
  Max({m \in 0 .. Min({Len(gram) - 1, Len(been)}) : Shorter(gram, m) = Shorter(been, m)})
Blanks(gram) == Overlap(gram) + 1 .. Len(gram) - 1
BasedOn(gram) == Max({j \in 1 .. Overlap(gram) : basis[j] # Bad})

Visit(gram) ==
  /\ basis' = [k \in 1 .. Order |-> IF k = Len(gram) THEN weights[gram].prob
                                    ELSE IF k \in Blanks(gram) THEN Bad ELSE basis[k]]
  /\ been' = gram
  /\ reader' = [reader EXCEPT ![Len(gram)] = @ + 1]

\* FindBlanks.  MiddleBlank sends a message to each context between the basis
\* and the blank.
FindBlanks ==
  /\ phase = "find blanks" /\ Heads # {}
  /\ LET gram == Top
         blanks == Blanks(gram)
     IN  /\ Visit(gram)
         /\ values' = [k \in Middles |-> IF k \in blanks THEN Append(values[k], basis[BasedOn(gram)])
                                         ELSE values[k]]
         /\ messages' = [i \in 1 .. Order - 1 |-> messages[i] \cup
              {[to |-> Shorter(Context(gram), i), order |-> k, index |-> Len(values[k]) + 1] :
                 k \in {b \in blanks : BasedOn(gram) <= i /\ i < b}}]
  /\ UNCHANGED <<given, search, thrown, phase, weights, extends, handed, contexts, levels>>

EndOfFindBlanks ==
  /\ phase = "find blanks" /\ Heads = {}
  /\ phase' = "backoffs"
  /\ UNCHANGED <<given, search, thrown, walk, weights, asked, extends, handed, contexts, levels>>

\* BackoffMessages::Apply reads messages and n-grams, both sorted, side by side
\* as long as there are n-grams.
Applied(k) ==
  {m \in messages[k] : \E gram \in ToSet(Full(k)) : ~Precedes(gram, m.to)}

\* Fault of Received: blanks are based on the probability alone.
ReceivedNothing(k, index) == 0

\* What is added to a value.
Received(k, index) ==
  LET to(i) == {m \in messages[i] : m.order = k /\ m.index = index /\ m.to \in DOMAIN weights}
  IN  MapThenSumSet(LAMBDA m : weights[m.to].backoff, UNION {to(i) : i \in 1 .. Order - 1})

\* SRISucks::ObtainBackoffs.  A context that is asked for its backoff extends;
\* if it is a blank it is to be told so when it is written.
ObtainBackoffs ==
  /\ phase = "backoffs"
  /\ values' = [k \in Middles |-> [index \in DOMAIN values[k] |->
                                     values[k][index] + Received(k, index)]]
  /\ weights' = [gram \in DOMAIN weights |->
       [weights[gram] EXCEPT !.ext =
          @ \/ (Len(gram) < Order /\ \E m \in messages[Len(gram)] : m.to = gram)]]
  /\ extends' = [k \in Middles |-> {m.to : m \in Applied(k)} \ DOMAIN weights]
  /\ phase' = "write"
  /\ reader' = [k \in 1 .. Order |-> 1]
  /\ been' = << >> /\ basis' = [k \in 1 .. Order |-> Bad]
  /\ UNCHANGED <<given, search, thrown, messages, handed, contexts, levels>>

-----------------------------------------------------------------------------
(* WriteEntries                                                            *)

\* The n-gram is the next of the contexts of longer ones.
IsNextContext(gram) ==
  LET k == Len(gram)
  IN  k < Order /\ contexts[k] <= Len(ContextsOf(k + 1)) /\ ContextsOf(k + 1)[contexts[k]] = gram

\* GetBlank
Blank(gram) ==
  LET k == Len(gram)
  IN  [prob |-> values[k][handed[k] + 1], backoff |-> 0, ext |-> k # Order - 1 /\ gram \in extends[k]]

Written(gram) ==
  [prob |-> weights[gram].prob, backoff |-> weights[gram].backoff,
   ext |-> weights[gram].ext \/ IsNextContext(gram)]

\* Insert: the children begin where the next array ends by now.
Insert(gram, k) ==
  LET entry == IF k = Len(gram) THEN Written(gram) ELSE Blank(Shorter(gram, k))
  IN  Append(levels[k], [word |-> gram[k], prob |-> entry.prob, backoff |-> entry.backoff,
                         ext |-> entry.ext,
                         next |-> IF k = Order THEN 0 ELSE Len(levels[k + 1]) + 1])

Write ==
  /\ phase = "write" /\ Heads # {}
  /\ LET gram == Top
         blanks == Blanks(gram)
     IN  /\ Visit(gram)
         /\ levels' = [k \in 1 .. Order |->
              IF k \in blanks \cup {Len(gram)} THEN Insert(gram, k) ELSE levels[k]]
         /\ handed' = [k \in Middles |-> handed[k] + IF k \in blanks THEN 1 ELSE 0]
         /\ contexts' = [k \in 1 .. Order - 1 |->
              contexts[k] + IF k = Len(gram) /\ IsNextContext(gram) THEN 1 ELSE 0]
  /\ UNCHANGED <<given, search, thrown, phase, weights, asked, extends>>

-----------------------------------------------------------------------------
(* Looking up                                                              *)

\* FinishedLoading writes where the last entry's children end.
Children(k, i) ==
  levels[k][i].next .. (IF i < Len(levels[k]) THEN levels[k][i + 1].next - 1 ELSE Len(levels[k + 1]))

\* BoundedSortedUniformFind, with Pivot32: an interpolation search between the
\* entries before and after, whose words are before_v and after_v.  0: not found.
UniformFind(k, range, word) ==
  LET find[s \in [before_it : Int, before_v : Int, after_it : Int, after_v : Int]] ==
        LET width == s.after_it - s.before_it - 1
            pivot == s.before_it + 1 +
                       ((word - s.before_v) * width) \div (s.after_v - s.before_v + 1)
            mid == levels[k][pivot].word
        IN  IF width < 1 THEN 0
            ELSE IF mid < word THEN find[[s EXCEPT !.before_it = pivot, !.before_v = mid]]
            ELSE IF mid > word THEN find[[s EXCEPT !.after_it = pivot, !.after_v = mid]]
            ELSE pivot
  IN  IF range = {} THEN 0
      ELSE find[[before_it |-> Min(range) - 1, before_v |-> 0,
                 after_it |-> Max(range) + 1, after_v |-> Cardinality(Vocabulary) + 1]]

\* LookupUnigram, then LookupMiddle and LookupLongest: the entry's index, or 0.
Lookup(gram) ==
  FoldLeft(LAMBDA i, k : IF i = 0 THEN 0 ELSE UniformFind(k, Children(k - 1, i), gram[k]),
           gram[1], [j \in 1 .. Len(gram) - 1 |-> j + 1])

Grams == UNION {[1 .. k -> Vocabulary] : k \in 1 .. Order}

\* What a query finds; a trie has no rest costs.
Found ==
  [gram \in {g \in Grams : Lookup(g) # 0} |->
     LET k == Len(gram)
         entry == levels[k][Lookup(gram)]
     IN  [prob |-> entry.prob, rest |-> entry.prob, backoff |-> entry.backoff, ext |-> entry.ext,
          left |-> k < Order /\ Children(k, Lookup(gram)) # {}]]

\* A context that was not met in the walk is missing from the file.
FinishedLoading ==
  /\ phase = "write" /\ Heads = {}
  /\ thrown' = (\E k \in 1 .. Order - 1 : contexts[k] <= Len(ContextsOf(k + 1)))
  /\ search' = IF thrown' THEN search ELSE Found
  /\ phase' = "done"
  /\ UNCHANGED <<given, walk, weights, asked, extends, handed, contexts, levels>>

BuildTrie ==
  /\ structure = "trie"
  /\ FindBlanks \/ EndOfFindBlanks \/ ObtainBackoffs \/ Write \/ FinishedLoading
=============================================================================
