----------------------------- MODULE BeamSearch -----------------------------
(***************************************************************************)
(* word_sync_beam_search and variable_beam_search (--particle_filter) of   *)
(* rnng-pytorch/fixed_stack_models.py, and what                            *)
(* beam_search.py does about a parse that fails.  Before every word, and   *)
(* at the end of the sentence, the elements of the beam are taken forward  *)
(* action by action; those that shift the word (or finish) wait in the     *)
(* word-completed beam, until there are enough of them.  The surprisal of  *)
(* a word is the difference of the log masses of the beam around it.       *)
(*                                                                         *)
(* The network is what it promises: a distribution over the actions that   *)
(* are not masked.  Here the probabilities are powers of 1/2 that a list   *)
(* of preferences gives, and a log-likelihood is an exponent.  Equal ones  *)
(* are sorted in any order.  One sentence of a batch is followed; the      *)
(* others are tensors of their own, and only make the loop go on.          *)
(***************************************************************************)
EXTENDS ParserStacks

CONSTANTS Cases,        \* records: the strategy, the subword_end_mask of a sentence, preferences
                        \* (for elements with an even and with an odd number of actions),
                        \* --beam_size, --word_beam_size, --shift_size and --particle_size,
                        \* --stack_size_bound
          Unit, MinSize, MinActions,  \* 8, 100 and 100: of the sizes of stack and paths
          MaxBits,      \* bound on exponents
          Everything,   \* a beam size at which nothing is left out of the beam
          MoreRows, MaxRows  \* 100 and 3000: of a beam of particles, which grows

VARIABLES prefer, sizes, stack_size_bound,   \* fixed
          pointer,
          beam, word_completed,  \* the active elements, each with its gen_ll and its particles K
          rows,         \* beam_size of the two beams, the elements there is room for
          forced_completions,
          marginals,    \* masses of the beam after each word and at the end, times 2^MaxBits
          parses,
          retried, status

ASSUME CasesAssumption ==
  \A c \in Cases :
    /\ c.in_order \in BOOLEAN /\ c.bound \in Int /\ c.ends \in Seq(BOOLEAN) \ {<< >>}
    /\ c.sizes \in [beam : Nat \ {0}, word_beam : Nat, shift : Nat, particles : Nat]
ASSUME UnitAssumption == Unit \in Nat \ {0} /\ MinSize \in Nat /\ MinActions \in Nat /\ {MoreRows, MaxRows} \subseteq Nat

search == <<pointer, beam, word_completed, rows, forced_completions, marginals, parses>>
vars == <<given, prefer, sizes, stack_size_bound, search, retried, status>>

Ceil(n) == ((n + Unit - 1) \div Unit) * Unit
Larger(a, b) == IF a > b THEN a ELSE b
Smaller(a, b) == IF a < b THEN a ELSE b

\* build_beam_items
StackSizeFor(length, bound) ==
  Ceil(IF bound <= 0 THEN Larger(MinSize, length + 10) ELSE Smaller(length + 20, bound))
MaxActionsFor(length) == Larger(MinActions, length * 5)
CompletedSize == Smaller(sizes.beam * 2, sizes.beam + sizes.shift * 5)

Begun ==
  /\ pointer = 0
  /\ beam = {[item |-> FirstItem, bits |-> 0, K |-> sizes.particles]}
  /\ rows = [beam |-> sizes.beam, completed |-> CompletedSize]
  /\ word_completed = {} /\ forced_completions = 0
  /\ marginals = << >> /\ parses = {}

Init ==
  /\ \E c \in Cases :
       /\ in_order = c.in_order /\ ends = c.ends /\ prefer = c.prefer /\ sizes = c.sizes
       /\ stack_size_bound = c.bound
  /\ stack_size = StackSizeFor(sent_length, stack_size_bound)
  /\ max_actions = MaxActionsFor(sent_length)
  /\ Begun
  /\ retried = FALSE /\ status = "searching"

-----------------------------------------------------------------------------
(* Scores                                                                  *)

\* How many of the allowed actions come before one in the list of preferences.
Rank(item, a) ==
  LET list == prefer[1 + (Len(item.actions) % 2)]
      place(b) == CHOOSE i \in DOMAIN list : list[i] = b
  IN  Cardinality({b \in Allowed(item) : place(b) < place(a)})

\* Of n actions the first has probability 1/2, the next 1/4, and so on, and the
\* last as much as the one before it.
Bits(item, a) ==
  LET n == Cardinality(Allowed(item))
  IN  IF Rank(item, a) + 1 < n THEN Rank(item, a) + 1 ELSE n - 1

\* The word that is shifted has probability 1/2.
WordBits(a) == IF a = "SHIFT" THEN 1 ELSE 0

Score(source, a) == source.bits + Bits(source.item, a) + WordBits(a)

\* Some n elements that no other exceeds, or all.
Best(n, S) ==
  IF Cardinality(S) <= n THEN {S}
  ELSE IF n = 0 THEN {{}}
  ELSE LET cut == CHOOSE c \in {e.bits : e \in S} :
                    /\ Cardinality({e \in S : e.bits < c}) < n
                    /\ Cardinality({e \in S : e.bits <= c}) >= n
           sure == {e \in S : e.bits < cut}
       IN  {sure \cup more : more \in kSubset(n - Cardinality(sure), {e \in S : e.bits = cut})}

Mass(S) == MapThenSumSet(LAMBDA e : 2 ^ (MaxBits - e.bits), S)

-----------------------------------------------------------------------------
(* One word                                                                *)

WordFinished ==
  \/ beam = {}
  \/ Cardinality(word_completed) >= rows.completed
  \/ Cardinality(word_completed) - forced_completions >= sizes.beam

\* torch.round_: a half goes to the even number.
Rounded(n, d) ==
  LET q == n \div d
      r == n % d
  IN  IF 2 * r < d \/ (2 * r = d /\ q % 2 = 0) THEN q ELSE q + 1

\* get_successors: every allowed action of every element.  An element's particles
\* go where the probabilities of the actions send them.
Successors ==
  UNION {{[item |-> e.item, action |-> a, bits |-> Score(e, a),
           K |-> Rounded(e.K, 2 ^ Bits(e.item, a))] : a \in Allowed(e.item)} : e \in beam}

\* end_action_mask, with _parse_finish_mask
EndsWord(s) ==
  IF pointer < sent_length THEN s.action = "SHIFT"
  ELSE s.action = FinishAction /\ (in_order \/ s.item.nopen_parens = 1)

\* no_end_action_mask
StaysInBeam(s) == ~EndsWord(s)

\* Fault of Moved: the score of the element stays.
MovedStale(s) ==
  [item |-> s.item, bits |-> (CHOOSE e \in beam : e.item = s.item).bits, K |-> s.K]

\* What is moved to the word-completed beam: the element, with its new score.
Moved(s) == [item |-> s.item, bits |-> s.bits, K |-> s.K]

\* do_action on what stays.
AfterAction(s) == [item |-> Do(s.item, s.action), bits |-> s.bits, K |-> s.K]

WithParticles == sizes.particles > 0

\* scores_to_successors and beam_step.  Besides the best, up to shift_size in
\* all may be completed.  move_items_from drops what does not fit.
BeamStep ==
  /\ status = "searching" /\ ~WithParticles /\ pointer <= sent_length /\ ~WordFinished
  /\ \E within \in Best(sizes.beam, Successors) :
       LET completing == {s \in within : EndsWord(s)}
           outside == {s \in Successors \ within : EndsWord(s)}
       IN  \E rescued \in Best(Larger(0, sizes.shift - Cardinality(completing)), outside) :
           \E fitting \in Best(rows.completed - Cardinality(word_completed), completing \cup rescued) :
             /\ word_completed' = word_completed \cup {Moved(s) : s \in fitting}
             /\ forced_completions' = forced_completions + Cardinality(rescued)
             /\ beam' = {AfterAction(s) : s \in {s \in within : StaysInBeam(s)}}
  /\ UNCHANGED <<given, prefer, sizes, stack_size_bound, pointer, rows, marginals, parses, retried, status>>

EndAction == IF pointer < sent_length THEN "SHIFT" ELSE FinishAction

\* The elements that the next word begins with, after this word's last action;
\* the marginal; and what follows the last word.
GoOnWith(kept) ==
  LET next == {[e EXCEPT !.item = Do(@, EndAction)] : e \in kept}
  IN  /\ marginals' = Append(marginals, Mass(next))
      /\ IF pointer = sent_length
           THEN parses' = next /\ beam' = {}
           ELSE beam' = next /\ UNCHANGED parses
      /\ word_completed' = {} /\ forced_completions' = 0
      /\ pointer' = pointer + 1
      /\ UNCHANGED <<given, prefer, sizes, stack_size_bound, retried, status>>

\* "if word_beam_size <= 0: word_beam_size = beam_size"
WordBeamSize == IF sizes.word_beam = 0 THEN sizes.beam ELSE sizes.word_beam

\* finalize_word_completed_beam
FinishWord ==
  /\ status = "searching" /\ ~WithParticles /\ pointer <= sent_length /\ WordFinished
  /\ \E kept \in Best(Smaller(WordBeamSize, sizes.beam), word_completed) : GoOnWith(kept)
  /\ UNCHANGED rows

-----------------------------------------------------------------------------
(* One word, with particles.  The rows of a beam are those of the widest   *)
(* sentence of the batch; here it is the only one.                         *)

\* resize
Resized(old, width) == Larger(old, Smaller(width + MoreRows, MaxRows))

\* What is in the last rows does not fit; which elements these are is not followed.
Fitting(n, S) == IF Cardinality(S) <= n THEN {S} ELSE kSubset(n, S)

\* The loop also ends when all but one row of the word-completed beam is in use.
ParticlesFinished == beam = {} \/ Cardinality(word_completed) = rows.completed - 1

\* variable_beam_step: no action is left out that a particle takes.
ParticleStep ==
  /\ status = "searching" /\ WithParticles /\ pointer <= sent_length /\ ~ParticlesFinished
  /\ LET taken == {s \in Successors : s.K > 0}
         completing == {s \in taken : EndsWord(s)}
         staying == {s \in taken : StaysInBeam(s)}
         width == Cardinality(word_completed) + Cardinality(completing)
     IN  /\ rows' = [beam |-> IF Cardinality(staying) > rows.beam
                                THEN Resized(rows.beam, Cardinality(staying)) ELSE rows.beam,
                     completed |-> IF completing # {} /\ width >= rows.completed
                                     THEN Resized(rows.completed, width) ELSE rows.completed]
         /\ \E fitting \in Fitting(rows'.completed - Cardinality(word_completed), completing) :
              word_completed' = word_completed \cup {Moved(s) : s \in fitting}
         /\ \E fitting \in Fitting(rows'.beam, staying) : beam' = {AfterAction(s) : s \in fitting}
  /\ UNCHANGED <<given, prefer, sizes, stack_size_bound, pointer, forced_completions, marginals,
                 parses, retried, status>>

\* reweight_and_filter_particles: K particles again, in proportion to gen_ll.
Reweighted ==
  LET share(e) == Rounded(sizes.particles * 2 ^ (MaxBits - e.bits), Mass(word_completed))
  IN  {e \in {[e EXCEPT !.K = share(e)] : e \in word_completed} : e.K > 0}

\* finalize_particle_beam
FinishParticles ==
  /\ status = "searching" /\ WithParticles /\ pointer <= sent_length /\ ParticlesFinished
  /\ word_completed # {}
  /\ LET width == Cardinality(Reweighted)
     IN  rows' = [rows EXCEPT !.beam = IF width >= @ THEN Resized(@, width) ELSE @]
  /\ \E kept \in Fitting(rows'.beam, Reweighted) : GoOnWith(kept)

\* No particle has read the word: the weights are no numbers, and these are not
\* zero, so that every row is taken for an element, whatever it holds.
Collapse ==
  /\ status = "searching" /\ WithParticles /\ pointer <= sent_length /\ ParticlesFinished
  /\ word_completed = {}
  /\ status' = "collapsed"
  /\ UNCHANGED <<given, prefer, sizes, stack_size_bound, search, retried>>

Searched == status = "searching" /\ pointer > sent_length

SecondStackSize == StackSizeFor(sent_length, -1)

\* try_parse again, with the stack that an unbounded search has.
ParseAgain ==
  /\ Searched /\ parses = {} /\ ~retried
  /\ stack_size_bound < sent_length
  /\ stack_size' = SecondStackSize
  /\ retried' = TRUE
  /\ pointer' = 0
  /\ beam' = {[item |-> FirstItem', bits |-> 0, K |-> sizes.particles]}
  /\ rows' = [beam |-> sizes.beam, completed |-> CompletedSize]
  /\ word_completed' = {} /\ forced_completions' = 0
  /\ marginals' = << >> /\ parses' = {}
  /\ UNCHANGED <<in_order, ends, max_actions, prefer, sizes, stack_size_bound, status>>

\* best_actions: p[0][0] of an empty list of parses is an error.
Report ==
  /\ Searched
  /\ parses = {} => retried \/ stack_size_bound >= sent_length
  /\ status' = IF parses = {} THEN "failed" ELSE "parsed"
  /\ UNCHANGED <<given, prefer, sizes, stack_size_bound, search, retried>>

Ended == status # "searching" /\ UNCHANGED vars

Next ==
  BeamStep \/ FinishWord \/ ParticleStep \/ FinishParticles \/ Collapse \/ ParseAgain \/ Report \/ Ended

Spec == Init /\ [][Next]_vars

-----------------------------------------------------------------------------
(* Properties                                                              *)

Elements == {e.item : e \in beam \cup word_completed \cup parses}

\* "Check the storage of beam.actions", "Check the storage of fixed stack size":
\* what invalid_action_mask leaves keeps every index inside its tensor.  The
\* elements have rows.
StorageSuffices ==
  /\ Cardinality(beam) <= rows.beam /\ Cardinality(word_completed) <= rows.completed
  /\ \A item \in Elements :
       /\ Len(item.actions) < max_actions
       /\ item.top_position \in 0 .. stack_size
       /\ item.nt_index_pos \in -1 .. stack_size - 1
       /\ item.nt_index_pos + 1 = item.nopen_parens

\* Both implementations of the parser agree about every element.
ListsSayTheSame == \A item \in Elements : ListsAgree(item)

\* Every variable keeps its type.
TypeOK ==
  /\ in_order \in BOOLEAN /\ retried \in BOOLEAN /\ {stack_size, max_actions} \subseteq Nat
  /\ pointer \in 0 .. sent_length + 1 /\ marginals \in Seq(Nat) /\ forced_completions \in Nat
  /\ \A e \in beam \cup word_completed \cup parses : e.bits \in 0 .. MaxBits /\ e.K \in Nat
  /\ \A item \in Elements : item.actions \in Seq(Actions)
  /\ status \in {"searching", "parsed", "failed", "collapsed"}

\* assertTrue(all(0 < s ...) of test_beam_search: no word has a negative
\* surprisal, as the mass of a beam comes from the beam before.  Masses are whole
\* numbers, as no exponent is above MaxBits.
NoNegativeSurprisal ==
  /\ TypeOK
  /\ marginals # << >> => marginals[1] <= 2 ^ MaxBits
  /\ \A i \in 1 .. Len(marginals) - 1 : marginals[i + 1] <= marginals[i]
=============================================================================
