--------------------------- MODULE ParserStacks ---------------------------
(***************************************************************************)
(* One element of the RNNG's beam: its stack (FixedStack and its in-order  *)
(* variant), the counts its strategy keeps (StackState) and the path of    *)
(* its actions (ActionPath), in rnng-pytorch/fixed_stack_models.py and     *)
(* fixed_stack_in_order_models.py.  The actions that open a bracket,       *)
(* NT(X), are written X.                                                   *)
(*                                                                         *)
(* What trees_ holds are vectors; here it is what they stand for: a token, *)
(* the nonterminal of an open bracket, or what the composition of a phrase *)
(* was computed from.  Tensors have a beam and a batch dimension; elements *)
(* do not touch each other's.  Positions count from 0 as in the code.      *)
(***************************************************************************)
EXTENDS Integers, Sequences, FiniteSets, SequencesExt, FiniteSetsExt

CONSTANTS Labels,       \* nonterminals, which are strings
          MaxOpenNts, TopDownConsNts, InOrderConsNts

ASSUME LabelsAssumption == IsFiniteSet(Labels) /\ Labels \cap {"SHIFT", "REDUCE", "FINISH"} = {}
ASSUME LimitsAssumption == {MaxOpenNts, TopDownConsNts, InOrderConsNts} \subseteq Nat

VARIABLES in_order,     \* the strategy: FixedStackInOrderRNNG rather than FixedStackRNNG
          ends,         \* subword_end_mask of the sentence: token -> does it end a word
          stack_size, max_actions

given == <<in_order, ends, stack_size, max_actions>>

sent_length == Len(ends)
Actions == Labels \cup {"SHIFT", "REDUCE"} \cup IF in_order THEN {"FINISH"} ELSE {}
FinishAction == IF in_order THEN "FINISH" ELSE "REDUCE"

\* max_cons_nts, 8 and 3 in the code, where max_open_nts is 100.
MaxConsNts == IF in_order THEN InOrderConsNts ELSE TopDownConsNts

Token(i) == <<"token", i>>
Open(x) == <<"open", x>>
Phrase(x, nt, children) == <<"phrase", x, nt, children>>

\* -1 is what the actions and the index of brackets begin with.
FirstItem ==
  [pointer |-> 0, top_position |-> 0,
   trees |-> [i \in 0 .. stack_size - 1 |-> << >>],
   nt_index |-> [i \in 0 .. stack_size - 1 |-> 0],
   nt_ids |-> [i \in 0 .. stack_size - 1 |-> "none"],
   nt_index_pos |-> -1, last_subword_begin_idx |-> 0,
   ncons_nts |-> 0, nopen_parens |-> 0, actions |-> << >>]

Prev(item) == IF item.actions = << >> THEN "none" ELSE Last(item.actions)
PrevIsNt(item) == Prev(item) \in Labels

-----------------------------------------------------------------------------
(* The stack                                                               *)

\* do_shift; in order, a token that begins a word is remembered.
DoShift(item) ==
  LET top == item.top_position
      begins == item.pointer = 0 \/ ends[item.pointer]
  IN  [item EXCEPT !.trees[top] = Token(item.pointer + 1),
                   !.pointer = @ + 1,
                   !.top_position = top + 1,
                   !.last_subword_begin_idx = IF in_order /\ begins THEN top + 1 ELSE @]

\* Fault of PlaceNt: only the last token moves.
PlaceNtUnderTop(item, x) ==
  LET begin == item.top_position
  IN  [item EXCEPT !.trees = [i \in DOMAIN @ |->
                                IF i = begin - 1 THEN Open(x)
                                ELSE IF i = begin THEN @[i - 1] ELSE @[i]],
                   !.nt_index[item.nt_index_pos + 1] = begin]

\* do_nt in order: the bracket goes below the word or phrase on top ...
PlaceNt(item, x) ==
  LET begin == item.last_subword_begin_idx
      top == item.top_position
  IN  [item EXCEPT !.trees = [i \in DOMAIN @ |->
                                IF i = begin - 1 THEN Open(x)
                                ELSE IF i \in begin .. top THEN @[i - 1] ELSE @[i]],
                   !.nt_index[item.nt_index_pos + 1] = begin]

\* ... and top-down on top of the stack.
PushNt(item, x) ==
  [item EXCEPT !.trees[item.top_position] = Open(x),
               !.nt_index[item.nt_index_pos + 1] = item.top_position + 1]

DoNt(item, x) ==
  [(IF in_order THEN PlaceNt(item, x) ELSE PushNt(item, x))
     EXCEPT !.nt_index_pos = @ + 1,
            !.nt_ids[item.nt_index_pos + 1] = x,
            !.top_position = @ + 1]

\* collect_reduced_children, the composition, and do_reduce
DoReduce(item) ==
  LET position == item.nt_index[item.nt_index_pos]
      children == [i \in 1 .. item.top_position - position |-> item.trees[position + i - 1]]
  IN  [item EXCEPT !.trees[position - 1] =
                     Phrase(item.nt_ids[item.nt_index_pos], item.trees[position - 1], children),
                   !.nt_index_pos = @ - 1,
                   !.top_position = position,
                   !.last_subword_begin_idx = IF in_order THEN position ELSE @]

\* RNNGCell.forward.  FINISH has no effect on the stack.
Cell(item, a) ==
  IF a = "SHIFT" THEN DoShift(item)
  ELSE IF a = "REDUCE" THEN DoReduce(item)
  ELSE IF a \in Labels THEN DoNt(item, a) ELSE item

\* Fault of UpdateNtCounts: a shift does not end a run of brackets.
UpdateNtCountsKeepRun(item, a) ==
  IF a \in Labels THEN [item EXCEPT !.nopen_parens = @ + 1, !.ncons_nts = @ + 1]
  ELSE IF a = "REDUCE"
    THEN [item EXCEPT !.nopen_parens = @ - 1,
                      !.ncons_nts = IF in_order /\ PrevIsNt(item) THEN @ ELSE 0]
  ELSE item

\* update_nt_counts.  In order, NT REDUCE NT REDUCE ... are consecutive NTs.
UpdateNtCounts(item, a) ==
  IF a = "SHIFT" THEN [item EXCEPT !.ncons_nts = 0]
  ELSE IF a \in Labels THEN [item EXCEPT !.nopen_parens = @ + 1, !.ncons_nts = @ + 1]
  ELSE IF a = "REDUCE"
    THEN [item EXCEPT !.nopen_parens = @ - 1,
                      !.ncons_nts = IF in_order /\ PrevIsNt(item) THEN @ ELSE 0]
  ELSE item

\* The cell, and BeamItems.do_action
Do(item, a) == [UpdateNtCounts(Cell(item, a), a) EXCEPT !.actions = Append(@, a)]

-----------------------------------------------------------------------------
(* invalid_action_mask: here the actions that are not masked.              *)

ToRead(item) == sent_length - item.pointer
AfterSubword(item) == item.pointer > 0 /\ ~ends[item.pointer]
Room(item) == stack_size - item.top_position
ActionsLeft(item) == max_actions - Len(item.actions)

\* Fault of TopDownAllowed: no actions are saved for closing the brackets.
TopDownAllowedUnsaved(item) ==
  {a \in Actions :
    IF a = "REDUCE"
      THEN /\ item.nopen_parens > IF ToRead(item) > 0 THEN 1 ELSE 0
           /\ ~PrevIsNt(item) /\ item.top_position >= 2 /\ ~AfterSubword(item)
    ELSE IF a = "SHIFT" THEN ToRead(item) > 0 /\ item.nopen_parens > 0 /\ Room(item) > 1
    ELSE /\ ToRead(item) > 0 /\ ~AfterSubword(item)
         /\ item.nopen_parens < MaxOpenNts /\ item.ncons_nts < MaxConsNts
         /\ Room(item) > 2}

TopDownAllowed(item) ==
  {a \in Actions :
    IF a = "REDUCE"
      THEN /\ item.nopen_parens > IF ToRead(item) > 0 THEN 1 ELSE 0
           /\ ~PrevIsNt(item) /\ item.top_position >= 2 /\ ~AfterSubword(item)
    ELSE IF a = "SHIFT" THEN ToRead(item) > 0 /\ item.nopen_parens > 0 /\ Room(item) > 1
    ELSE /\ ToRead(item) > 0 /\ ~AfterSubword(item)
         /\ item.nopen_parens < MaxOpenNts /\ item.ncons_nts < MaxConsNts
         /\ Room(item) > 2
         /\ ActionsLeft(item) >= ToRead(item) + item.nopen_parens + 3}

InOrderAllowed(item) ==
  LET full == item.nopen_parens >= MaxOpenNts \/ item.ncons_nts >= MaxConsNts
      closed == item.nopen_parens = 0
      read == ToRead(item) = 0
  IN  {a \in Actions :
        /\ Prev(item) # "FINISH"
        /\ IF a = "REDUCE" THEN ~closed /\ (full => read) /\ ~AfterSubword(item)
           ELSE IF a = "FINISH" THEN read /\ closed /\ item.top_position = 1
           ELSE IF a = "SHIFT"
             THEN /\ ~read /\ Room(item) > IF closed THEN 2 ELSE 1
                  /\ closed => item.pointer = 0 \/ AfterSubword(item)
           ELSE /\ ~PrevIsNt(item) /\ item.top_position > 0 /\ (full => ~read) /\ Room(item) > 1
                /\ ActionsLeft(item) >= ToRead(item) + item.nopen_parens + 4
                /\ ~(AfterSubword(item) /\ Prev(item) = "SHIFT")}

Allowed(item) == IF in_order THEN InOrderAllowed(item) ELSE TopDownAllowed(item)

-----------------------------------------------------------------------------
(* The RNNG's first implementation of the same: the states of models.py    *)
(* and in_order_models.py, with Python lists that grow as they need to.    *)
(* Models are still trained with it, and a word is one token there.        *)
(*                                                                         *)
(* A state is [pointer, stack_trees, nopen_parens, ncons_nts, nt_index,    *)
(* nt_ids, prev_a]; the stack of hidden vectors is one longer than         *)
(* stack_trees, by its initial element.                                    *)

FirstList ==
  [pointer |-> 0, stack_trees |-> << >>, nopen_parens |-> 0, ncons_nts |-> 0,
   nt_index |-> << >>, nt_ids |-> << >>, prev_a |-> "none"]

StackLength(state) == Len(state.stack_trees) + 1
Push(state, tree) == [state EXCEPT !.stack_trees = Append(@, tree)]

\* reduce_stack, the composition, and update_stack.
ReduceStack(state) ==
  LET open_idx == Last(state.nt_index)
      reduced == SubSeq(state.stack_trees, open_idx, Len(state.stack_trees))
  IN  [state EXCEPT !.nt_index = Front(@), !.nt_ids = Front(@),
                    !.stack_trees =
                      Append(SubSeq(@, 1, open_idx - 1),
                             Phrase(Last(state.nt_ids), Head(reduced), Tail(reduced)))]

\* update_stack_with_swap: "already swapped", the bracket is second from the top.
OpenBracket(state, x) ==
  LET n == Len(state.stack_trees)
  IN  [state EXCEPT !.stack_trees = IF in_order THEN InsertAt(@, n, Open(x)) ELSE Append(@, Open(x)),
                    !.nt_index = Append(@, IF in_order THEN n ELSE n + 1),
                    !.nt_ids = Append(@, x)]

\* update_stack_rnn.  FINISH goes with the actions that push something: zeros.
Zeros == <<"zeros">>
UpdateStackRNN(state, a) ==
  IF a = "SHIFT" THEN Push(state, Token(state.pointer + 1))
  ELSE IF a = "REDUCE" THEN ReduceStack(state)
  ELSE IF a \in Labels THEN OpenBracket(state, a) ELSE Push(state, Zeros)

\* TopDownState.do_action and InOrderState.do_action
Counted(state, a) ==
  IF a = "SHIFT" THEN [state EXCEPT !.pointer = @ + 1, !.ncons_nts = 0]
  ELSE IF a \in Labels THEN [state EXCEPT !.nopen_parens = @ + 1, !.ncons_nts = @ + 1]
  ELSE IF a = "REDUCE"
    THEN [state EXCEPT !.nopen_parens = @ - 1,
                       !.ncons_nts = IF in_order /\ state.prev_a \in Labels THEN @ ELSE 0]
  ELSE state

ListDo(state, a) == [Counted(UpdateStackRNN(state, a), a) EXCEPT !.prev_a = a]

-----------------------------------------------------------------------------
(* valid_action_mask: what it leaves.                                      *)

ListTopDownAllowed(state) ==
  LET closed == state.nopen_parens = 0
      read == state.pointer = sent_length
  IN  {a \in Actions :
        /\ ~(read /\ closed)
        /\ IF a = "SHIFT" THEN ~closed /\ ~read
           ELSE IF a = "REDUCE"
             THEN /\ ~closed /\ ~(state.nopen_parens = 1 /\ ~read)
                  /\ state.prev_a \notin Labels /\ StackLength(state) >= 3
           ELSE ~read /\ state.nopen_parens <= MaxOpenNts /\ state.ncons_nts < MaxConsNts}

ListInOrderAllowed(state) ==
  LET closed == state.nopen_parens = 0
      read == state.pointer = sent_length
      full == state.nopen_parens > MaxOpenNts - 1 \/ state.ncons_nts > MaxConsNts - 1
  IN  {a \in Actions :
        /\ state.prev_a # "FINISH"
        /\ IF a = "FINISH" THEN read /\ closed
           ELSE IF a = "SHIFT" THEN ~read /\ ~(closed /\ state.pointer > 0)
           ELSE IF a = "REDUCE" THEN ~closed /\ (full => read)
           ELSE StackLength(state) > 1 /\ state.prev_a \notin Labels /\ (full => ~read)}

ListAllowed(state) == IF in_order THEN ListInOrderAllowed(state) ELSE ListTopDownAllowed(state)

-----------------------------------------------------------------------------
(* Properties                                                              *)

\* The state that a list-based element is in after the same actions.
ListOf(actions) ==
  LET state[k \in 0 .. Len(actions)] ==
        IF k = 0 THEN FirstList ELSE ListDo(state[k - 1], actions[k])
  IN  state[Len(actions)]

\* The tensors hold what the lists hold, but for what FINISH pushes.
SameStack(item, state) ==
  /\ item.pointer = state.pointer
  /\ item.nopen_parens = state.nopen_parens /\ item.ncons_nts = state.ncons_nts
  /\ [i \in 1 .. item.top_position |-> item.trees[i - 1]]
       = IF state.prev_a = "FINISH" THEN Front(state.stack_trees) ELSE state.stack_trees
  /\ [i \in 1 .. item.nt_index_pos + 1 |-> item.nt_index[i - 1]] = state.nt_index
  /\ [i \in 1 .. item.nt_index_pos + 1 |-> item.nt_ids[i - 1]] = state.nt_ids

\* They allow the same actions, as long as the tensors have room; top-down, the
\* lists allow one bracket more to be open.
SameActions(item, state) ==
  LET more == ListAllowed(state) \ Allowed(item)
      roomy == Room(item) > 2 /\ ActionsLeft(item) >= ToRead(item) + item.nopen_parens + 4
  IN  /\ Allowed(item) \subseteq ListAllowed(state)
      /\ roomy => more \subseteq IF ~in_order /\ item.nopen_parens = MaxOpenNts THEN Labels ELSE {}

\* In sentences without words of several pieces both implementations agree.
ListsAgree(item) ==
  (\A i \in DOMAIN ends : ends[i]) =>
    LET state == ListOf(item.actions)
    IN  SameStack(item, state) /\ SameActions(item, state)
=============================================================================
