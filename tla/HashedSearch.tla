---------------------------- MODULE HashedSearch ----------------------------
(***************************************************************************)
(* lm/search_hashed.cc: the tables of a probing model, made from an ARPA   *)
(* file in one pass.  Collisions of the 64-bit hashes are left out.        *)
(***************************************************************************)
EXTENDS BackoffModel

VARIABLE next          \* the n-gram to be read

\* Read1Grams
Probing ==
  /\ next = Cardinality(Vocabulary) + 1
  /\ search = [gram \in {<<w>> : w \in Vocabulary} |-> Entry(Weights(gram))]

\* FindLower: the longest n-gram that ends in the same words and is there.
Basis(gram) == Max({k \in 1 .. Len(gram) - 1 : Shorter(gram, k) \in DOMAIN search})

Backoff(table, gram) == IF gram \in DOMAIN table THEN table[gram].backoff ELSE 0

\* AdjustLower: the probability of the blank of order k backs off from the
\* basis through the contexts between them.
BlankProb(gram, k) ==
  search[Shorter(gram, Basis(gram))].prob
    + MapThenSumSet(LAMBDA j : Backoff(search, Context(Shorter(gram, j))), Basis(gram) + 1 .. k)

Inserted(entry) ==
  LET gram == entry.gram
      n == Len(gram)
      blanks == {Shorter(gram, k) : k \in Basis(gram) + 1 .. n - 1}
      added == IF n = Order THEN [entry EXCEPT !.backoff = 0] ELSE entry
  IN  [g \in DOMAIN search \cup blanks \cup {gram} |->
         IF g = gram THEN Entry(added)
         ELSE IF g \in blanks THEN Entry([prob |-> BlankProb(gram, Len(g)), backoff |-> 0])
         ELSE search[g]]

\* MarkExtends and MarkLower: the rest cost is the best of those of the longer
\* n-grams; the orders below the basis get the basis's, until one has better.
MarkedRest(table, gram, k) ==
  LET basis == Basis(gram)
      best(i) == Max({table[Shorter(gram, j)].rest : j \in i .. Len(gram)})
  IN  IF ~MaxRest THEN table[Shorter(gram, k)].rest
      ELSE IF k >= basis THEN best(k)
      ELSE IF \A j \in k .. basis - 1 : table[Shorter(gram, j)].rest < best(basis) THEN best(basis)
      ELSE table[Shorter(gram, k)].rest

\* From the basis up, every n-gram but the new one extends to the left.
Marked(table, gram) ==
  [g \in DOMAIN table |->
     IF Len(g) < Len(gram) /\ IsPrefix(g, gram)
       THEN [table[g] EXCEPT !.left = @ \/ Len(g) >= Basis(gram),
                             !.rest = MarkedRest(table, gram, Len(g))]
       ELSE table[g]]

\* Fault: the contexts of blanks are not activated.
ActivatedLast(table, gram) ==
  [g \in DOMAIN table |-> IF g = Context(gram) THEN [table[g] EXCEPT !.ext = TRUE] ELSE table[g]]

\* SetExtension on the contexts of the n-gram and of its blanks, so that a
\* state keeps them although they may have no backoff.
Activated(table, gram) ==
  LET contexts == {Context(Shorter(gram, j)) : j \in Basis(gram) + 1 .. Len(gram)}
  IN  [g \in DOMAIN table |-> IF g \in contexts THEN [table[g] EXCEPT !.ext = TRUE] ELSE table[g]]

\* One turn of ReadNGrams.
ReadNGram ==
  /\ structure = "probing" /\ next <= Len(file) /\ ~thrown
  /\ LET gram == file[next].gram
     IN  /\ search' = Activated(Marked(Inserted(file[next]), gram), gram)
         /\ thrown' = (Context(gram) \notin DOMAIN Inserted(file[next]))
  /\ next' = next + 1
  /\ UNCHANGED given

Read == next > Len(file)
=============================================================================
