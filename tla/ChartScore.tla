----------------------------- MODULE ChartScore -----------------------------
(***************************************************************************)
(* lm/left.hh, lm/state.hh and lm/partial.hh: scoring pieces of a sentence *)
(* in any order.  A chart state says what of a piece a query still needs   *)
(* when words come on its left or on its right: the n-grams at its start   *)
(* that words on the left can extend (left), and the state at its end      *)
(* (right).  RuleScore makes one out of words and of other pieces.         *)
(***************************************************************************)
EXTENDS BinaryFormat

CONSTANTS BOS,
          MaxRule, MaxChart     \* bounds: words of the rule and of a finished piece

ASSUME BoundsAssumption == MaxRule \in Nat /\ MaxChart \in 0 .. MaxRule
ASSUME BosAssumption == BOS \in Vocabulary

VARIABLES
  rule,     \* the RuleScore: its ChartState, left_done_, prob_; and, for the
            \* properties, its words (first first) and whether it began with <s>
  chart     \* the piece finished last: its ChartState, score and words

vars == <<modelVars, rule, chart>>

Words == Vocabulary \ {BOS}
BeginSentenceState == [words |-> <<BOS>>, backoff |-> <<search[<<BOS>>].backoff>>]

Fresh == [words |-> << >>, bos |-> FALSE, prob |-> 0, left |-> << >>, right |-> EmptyState,
          left_done |-> FALSE]
NoChart == [words |-> << >>, bos |-> FALSE, prob |-> 0, left |-> << >>, full |-> FALSE,
            right |-> EmptyState]

Init == SearchInit /\ BinaryInit /\ rule = Fresh /\ chart = NoChart

Load == BinaryStep /\ UNCHANGED <<rule, chart>>

BeginSentence ==
  /\ Ready /\ rule = Fresh
  /\ rule' = [rule EXCEPT !.bos = TRUE, !.right = BeginSentenceState, !.left_done = TRUE]
  /\ UNCHANGED <<modelVars, chart>>

\* ProcessRet: until something makes it independent, the n-gram of the next
\* word joins the left state and counts with its rest cost.
Process(r, ret) ==
  IF r.left_done \/ ret.independent_left
    THEN [r EXCEPT !.prob = @ + ret.prob, !.left_done = TRUE]
    ELSE [r EXCEPT !.prob = @ + ret.rest, !.left = Append(@, ret.extend_left)]

\* Fault of Terminal: that the right state was cut does not end the left one.
TerminalUncut(r, word) ==
  LET score == FullScore(r.right, word)
  IN  [Process(r, score.ret) EXCEPT !.right = score.out_state]

WithTerminal(r, word) ==
  LET score == FullScore(r.right, word)
      new == [Process(r, score.ret) EXCEPT !.right = score.out_state]
  IN  [new EXCEPT !.left_done = @ \/ Len(score.out_state.words) # Len(r.right.words) + 1]

Terminal ==
  /\ Ready /\ Len(rule.words) < MaxRule
  /\ \E word \in Words :
       rule' = [WithTerminal(rule, word) EXCEPT !.words = Append(@, word)]
  /\ UNCHANGED <<modelVars, chart>>

\* RuleScore::ExtendLeft for the i-th n-gram of the piece; e is [rule,
\* backoff, next_use, exit].  When none of the rule's words matter any more the
\* rest of the piece stays as it was scored.
ExtendStep(in, e, i) ==
  LET extended(ret) ==
        LET new == Process(e.rule, ret)
            cut == ret.next_use # Len(new.right.words)
            exit == cut /\ ret.next_use = 0
        IN  [rule |-> [new EXCEPT !.left_done = @ \/ cut,
                                  !.right = IF exit THEN in.right ELSE @,
                                  !.prob = @ + IF exit THEN UnRest(SubSeq(in.left, i + 1, Len(in.left)))
                                               ELSE 0],
             backoff |-> ret.backoff_out, next_use |-> ret.next_use, exit |-> exit]
  IN  IF e.exit THEN e
      ELSE extended(ExtendLeft(SubSeq(e.rule.right.words, 1, e.next_use), e.backoff, in.left[i]))

\* NonTerminal when both the piece's left and the rule's right state have words.
Joined(r, in) ==
  LET right(e, kept) ==
        IF e.exit THEN e.rule
        ELSE IF in.full
          THEN [e.rule EXCEPT !.prob = @ + SumOf(kept, 1, e.next_use), !.left_done = TRUE,
                              !.right = in.right]
        ELSE IF Len(in.right.words) < Len(in.left) THEN [e.rule EXCEPT !.right = in.right]
        ELSE [e.rule EXCEPT !.right = [words |-> in.right.words \o SubSeq(@.words, 1, e.next_use),
                                       backoff |-> in.right.backoff \o kept]]
      extended(e) == right(e, SubSeq(e.backoff, 1, e.next_use))
  IN  extended(FoldLeft(LAMBDA acc, i : ExtendStep(in, acc, i),
                        [rule |-> r, backoff |-> r.right.backoff,
                         next_use |-> Len(r.right.words), exit |-> FALSE],
                        [i \in 1 .. Len(in.left) |-> i]))

WithNonTerminal(r, in) ==
  LET new == [r EXCEPT !.prob = @ + in.prob]
  IN  IF in.left = << >>
        THEN IF ~in.full THEN new
             ELSE [new EXCEPT !.prob = @ + SumOf(r.right.backoff, 1, Len(r.right.backoff)),
                              !.left_done = TRUE, !.right = in.right]
      ELSE IF r.right.words = << >>
        THEN IF r.left_done
               THEN [new EXCEPT !.prob = @ + UnRest(in.left), !.right = in.right]
             ELSE IF r.left # << >> THEN [new EXCEPT !.left_done = TRUE, !.right = in.right]
             ELSE [new EXCEPT !.left = in.left, !.left_done = in.full, !.right = in.right]
      ELSE Joined(new, in)

NonTerminal ==
  /\ Ready /\ ~chart.bos /\ chart # NoChart /\ Len(rule.words) + Len(chart.words) <= MaxRule
  /\ rule' = [WithNonTerminal(rule, chart) EXCEPT !.words = @ \o chart.words]
  /\ UNCHANGED <<modelVars, chart>>

\* BeginNonTerminal, the short cut for a rule that begins with a piece.
BeginNonTerminal ==
  /\ Ready /\ rule = Fresh /\ chart # NoChart
  /\ rule' = [words |-> chart.words, bos |-> chart.bos, prob |-> chart.prob, left |-> chart.left,
              right |-> chart.right, left_done |-> chart.full]
  /\ UNCHANGED <<modelVars, chart>>

Finished ==
  [words |-> rule.words, bos |-> rule.bos, prob |-> rule.prob, left |-> rule.left,
   full |-> rule.left_done \/ Len(rule.left) = Order - 1, right |-> rule.right]

Finish ==
  /\ Ready /\ Len(rule.words) <= MaxChart
  /\ chart' = Finished /\ rule' = Fresh
  /\ UNCHANGED modelVars

Reset ==
  /\ Ready /\ rule' = Fresh
  /\ UNCHANGED <<modelVars, chart>>

Next ==
  \/ Load \/ BeginSentence \/ Terminal \/ NonTerminal \/ BeginNonTerminal \/ Finish \/ Reset
  \/ (Rejected /\ UNCHANGED vars)

Spec == Init /\ [][Next]_vars

-----------------------------------------------------------------------------
(* lm/partial.hh: two neighbouring pieces are told to each other little by *)
(* little, as a search that refines its hypotheses does.  Each call        *)
(* returns by how much the sum of the pieces' scores has to be adjusted.   *)
(* A left state here is [pointers, full].                                  *)

\* One n-gram of ExtendLoop: while writing, it goes to the new left state with
\* its rest cost; then words are used as long as any matter; then none.
ExtendOne(add, acc, pointer) ==
  LET extended(ret, written) ==
        [adjust |-> acc.adjust + IF written THEN ret.rest ELSE ret.prob,
         left |-> IF written THEN Append(acc.left, ret.extend_left) ELSE acc.left,
         writing |-> written /\ ret.next_use = Len(add),
         make_full |-> acc.make_full
                         \/ (acc.writing /\ ~(written /\ ret.next_use = Len(add))),
         backoff |-> ret.backoff_out, next_use |-> ret.next_use]
      after(ret) == extended(ret, acc.writing /\ ~ret.independent_left)
  IN  IF acc.writing \/ acc.next_use > 0
        THEN after(ExtendLeft(SubSeq(add, 1, acc.next_use), acc.backoff, pointer))
        ELSE [acc EXCEPT !.adjust = @ + UnRest(<<pointer>>)]

\* ExtendLoop: the words add come before the n-grams pointers.
ExtendLoop(add, backoff, pointers, write, left) ==
  FoldLeft(LAMBDA acc, p : ExtendOne(add, acc, p),
           [adjust |-> 0, left |-> left, writing |-> write, make_full |-> FALSE,
            backoff |-> backoff, next_use |-> Len(add)],
           pointers)

UsedBackoff(value) == SubSeq(value.backoff, 1, value.next_use)
Total(s) == SumOf(s, 1, Len(s))

\* Fault of RevealBefore: a full piece is not charged with the backoffs.
RevealBeforeFree(reveal, seen, reveal_full, p) ==
  LET add == SubSeq(reveal.words, seen + 1, Len(reveal.words))
      finished(value, left, right) ==
        [left |-> left, right |-> right,
         full |-> p.full \/ reveal_full \/ value.make_full
                    \/ Len(left) = Order - 1 \/ Len(right.words) = Order - 1,
         adjust |-> p.adjust + value.adjust]
      after(value) ==
        finished(value, IF reveal_full THEN << >> ELSE value.left,
                 IF p.full THEN p.right
                 ELSE [words |-> p.right.words \o SubSeq(add, 1, value.next_use),
                       backoff |-> p.right.backoff \o UsedBackoff(value)])
  IN  after(ExtendLoop(add, SubSeq(reveal.backoff, seen + 1, Len(reveal.words)), p.left,
                       ~reveal_full, << >>))

\* RevealBefore: more words of the state before the piece p.
RevealBefore(reveal, seen, reveal_full, p) ==
  LET add == SubSeq(reveal.words, seen + 1, Len(reveal.words))
      finished(value, left, right) ==
        [left |-> left, right |-> right,
         full |-> p.full \/ reveal_full \/ value.make_full
                    \/ Len(left) = Order - 1 \/ Len(right.words) = Order - 1,
         adjust |-> p.adjust + value.adjust + IF p.full THEN Total(UsedBackoff(value)) ELSE 0]
      after(value) ==
        finished(value, IF reveal_full THEN << >> ELSE value.left,
                 IF p.full THEN p.right
                 ELSE [words |-> p.right.words \o SubSeq(add, 1, value.next_use),
                       backoff |-> p.right.backoff \o UsedBackoff(value)])
  IN  after(ExtendLoop(add, SubSeq(reveal.backoff, seen + 1, Len(reveal.words)), p.left,
                       ~reveal_full, << >>))

\* RevealAfter: more n-grams of the left state of what comes after the piece p.
RevealAfter(p, reveal, seen, reveal_full) ==
  LET finished(value, right) ==
        [left |-> IF p.full THEN p.left ELSE value.left,
         right |-> right,
         full |-> p.full \/ reveal_full \/ value.make_full
                    \/ Len(right.words) = Order - 1 \/ Len(value.left) = Order - 1,
         adjust |-> p.adjust + value.adjust
                      + IF reveal_full THEN Total(UsedBackoff(value)) ELSE 0]
      after(value) ==
        finished(value, IF reveal_full THEN EmptyState
                        ELSE State(p.right.words, UsedBackoff(value), value.next_use))
  IN  after(ExtendLoop(p.right.words, p.right.backoff,
                       SubSeq(reveal, seen + 1, Len(reveal)), ~p.full, p.left))

\* Subsume, of pieces with nothing between them.
Subsume(first, second) ==
  LET finished(value, right) ==
        [left |-> IF first.full THEN first.left ELSE value.left,
         right |-> right,
         full |-> first.full \/ second.full \/ value.make_full
                    \/ (~second.full /\ Len(right.words) = Order - 1)
                    \/ Len(value.left) = Order - 1,
         adjust |-> value.adjust + IF second.full THEN Total(UsedBackoff(value)) ELSE 0]
      after(value) ==
        finished(value, IF second.full THEN second.right
                        ELSE [words |-> second.right.words \o SubSeq(first.right.words, 1, value.next_use),
                              backoff |-> second.right.backoff \o UsedBackoff(value)])
  IN  after(ExtendLoop(first.right.words, first.right.backoff, second.left, ~first.full, first.left))

Piece(c) == [left |-> c.left, right |-> c.right, full |-> c.full, adjust |-> 0]
UpTo(state, k) == State(state.words, state.backoff, k)

\* As partial_test.cc does it: one word, or n-gram, at a time, and in the end
\* that there are no more.
RevealedBefore(first, second) ==
  LET n == Len(first.right.words)
      steps == [i \in 1 .. n |-> [seen |-> i - 1, full |-> FALSE]]
                 \o IF first.full THEN <<[seen |-> n, full |-> TRUE]>> ELSE << >>
      told(step) == UpTo(first.right, IF step.full THEN n ELSE step.seen + 1)
  IN  FoldLeft(LAMBDA p, step : RevealBefore(told(step), step.seen, step.full, p), Piece(second), steps)

RevealedAfter(first, second) ==
  LET n == Len(second.left)
      steps == [i \in 1 .. n |-> [seen |-> i - 1, full |-> FALSE]]
                 \o IF second.full THEN <<[seen |-> n, full |-> TRUE]>> ELSE << >>
      told(step) == SubSeq(second.left, 1, IF step.full THEN n ELSE step.seen + 1)
  IN  FoldLeft(LAMBDA p, step : RevealAfter(p, told(step), step.seen, step.full), Piece(first), steps)

-----------------------------------------------------------------------------
(* Properties                                                              *)

\* The history of the i-th word, newest first: the words of the piece before it.
History(r, i) == Reverse(SubSeq(r.words, 1, i - 1)) \o IF r.bos THEN <<BOS>> ELSE << >>

\* The longest entry of the tables that a word and its history make.
Longest(word, history) ==
  LET k == Max({j \in 0 .. Len(history) : <<word>> \o Shorter(history, j) \in DOMAIN search})
  IN  <<word>> \o Shorter(history, k)

\* However a piece is put together, from words or from pieces, it has the score
\* of its words one after the other; those that words on the left can still
\* extend count with their rest cost.
ScoreOfAnyBracketing ==
  rule.prob = MapThenSumSet(LAMBDA i :
    IF i <= Len(rule.left) THEN search[Longest(rule.words[i], History(rule, i))].rest
    ELSE LogProb(rule.words[i], History(rule, i)), DOMAIN rule.words)

States == [words : Seq(Vocabulary), backoff : Seq(Int)]

\* Every variable but the fixed file keeps its type, and states their length.
TypeOK ==
  /\ next \in 1 .. Len(file) + 1 /\ thrown \in BOOLEAN
  /\ rule \in [words : Seq(Vocabulary), bos : BOOLEAN, prob : Int, left : Seq(Seq(Vocabulary)),
               right : States, left_done : BOOLEAN]
  /\ chart \in [words : Seq(Vocabulary), bos : BOOLEAN, prob : Int, left : Seq(Seq(Vocabulary)),
                full : BOOLEAN, right : States]
  /\ \A r \in {rule, chart} :
       /\ ToSet(r.left) \subseteq DOMAIN search
       /\ Len(r.left) < Order /\ Len(r.right.words) < Order
       /\ Len(r.right.words) = Len(r.right.backoff)

\* The right state, made by scoring word after word or by joining pieces, is
\* the one GetState finds for the words.  (<s> alone is given in full.)
RightStateIsMinimal ==
  Ready /\ rule.words # << >> =>
    rule.right = GetState(History(rule, Len(rule.words) + 1))

\* What holds of the states of a piece, however it was made.
StateInvariant == TypeOK /\ RightStateIsMinimal

\* What is left of the state is enough: the next word's score is the one the
\* whole history gives it, with a state and without.
StateForgetsNothing ==
  Ready => \A word \in Words :
    LET history == History(rule, Len(rule.words) + 1)
    IN  /\ FullScore(rule.right, word).ret.prob = LogProb(word, history)
        /\ FullScoreForgotState(history, word).ret.prob = LogProb(word, history)

\* Whether one piece is revealed to the other from the left or from the right,
\* bit by bit, or they are joined at once, the adjustments add up to the same:
\* the score of the whole; and Subsume leaves the state RuleScore makes.
RevealingIsJoining ==
  Ready /\ chart.words # << >> /\ ~chart.bos /\ Len(rule.words) <= MaxChart =>
    LET joins(whole, sub) ==
          LET adjust == whole.prob - rule.prob - chart.prob
          IN  /\ RevealedBefore(Finished, chart).adjust = adjust
              /\ RevealedAfter(Finished, chart).adjust = adjust
              /\ sub.adjust = adjust /\ sub.left = whole.left /\ sub.right = whole.right
    IN  joins(WithNonTerminal(rule, chart), Subsume(Finished, chart))
=============================================================================
