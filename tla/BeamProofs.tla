----------------------------- MODULE BeamProofs -----------------------------
(***************************************************************************)
(* Proofs about BeamSearch and the elements of ParserStacks: every index   *)
(* stays inside its tensor, whatever the network prefers; and where every  *)
(* token is a word, the tensors hold what the lists of the implementation  *)
(* that came first hold.                                                   *)
(*                                                                         *)
(* What an action may do is decided by invalid_action_mask, from the       *)
(* counts of an element; what it writes to is decided by the places that   *)
(* earlier actions have left in its index of brackets.  ItemOK connects    *)
(* the two: the brackets are below each other and below the top, as many   *)
(* as nopen_parens, so that closing the last one never takes the stack     *)
(* under what the next one stands on; and the actions already done, those  *)
(* still needed for the tokens and the brackets together stay below        *)
(* max_actions.  The mask alone preserves it, action by action.  The beam  *)
(* adds that all its elements have read the same tokens, so that FINISH is *)
(* the last action of an element, and that the elements have rows.         *)
(*                                                                         *)
(* For the lists, an element is Listed: its first top_position trees and   *)
(* its first nt_index_pos + 1 brackets, read as lists, are the state that  *)
(* its actions take the lists to.  Each action is done to both (ListedNt   *)
(* and so on).  That the masks leave the same needs Corner in order: when  *)
(* no bracket is open there is one thing on the stack, or none.            *)
(***************************************************************************)
EXTENDS BeamSearch, FiniteSetTheorems, SequenceTheorems, WellFoundedInduction, TLAPS

-----------------------------------------------------------------------------
(* What one action does to an element                                      *)

\* An element is a record of its parts.
IsItem(item) ==
  item = [pointer |-> item.pointer, top_position |-> item.top_position, trees |-> item.trees,
          nt_index |-> item.nt_index, nt_ids |-> item.nt_ids, nt_index_pos |-> item.nt_index_pos,
          last_subword_begin_idx |-> item.last_subword_begin_idx, ncons_nts |-> item.ncons_nts,
          nopen_parens |-> item.nopen_parens, actions |-> item.actions]

\* Nothing changes of the brackets.
SameBrackets(q, item) == q.nt_index = item.nt_index /\ q.nt_index_pos = item.nt_index_pos

\* The actions that are not NT(X) differ from each other and from all labels.
LEMMA ActionNames ==
  /\ "SHIFT" \notin Labels /\ "REDUCE" \notin Labels /\ "FINISH" \notin Labels
  /\ "SHIFT" # "REDUCE" /\ "SHIFT" # "FINISH" /\ "REDUCE" # "FINISH"
BY LabelsAssumption

\* do_shift pushes one token; the brackets stay.
LEMMA ShiftIs ==
  ASSUME NEW item, IsItem(item), NEW q, q = DoShift(item)
  PROVE  /\ IsItem(q) /\ SameBrackets(q, item)
         /\ q.pointer = item.pointer + 1 /\ q.top_position = item.top_position + 1
         /\ q.nopen_parens = item.nopen_parens /\ q.actions = item.actions
         /\ in_order /\ (item.pointer = 0 \/ ends[item.pointer]) =>
              q.last_subword_begin_idx = item.top_position + 1
         /\ ~(in_order /\ (item.pointer = 0 \/ ends[item.pointer])) =>
              q.last_subword_begin_idx = item.last_subword_begin_idx
BY DEF DoShift, IsItem, SameBrackets

\* Where the bracket goes that DoNt opens.
BracketAt(item) == IF in_order THEN item.last_subword_begin_idx ELSE item.top_position + 1

\* do_nt opens a bracket at the next place of the index; in either strategy the
\* stack gets one higher.
LEMMA NtIs ==
  ASSUME NEW item, IsItem(item), NEW x, NEW q, q = DoNt(item, x)
  PROVE  /\ IsItem(q) /\ q.nt_index = [item.nt_index EXCEPT ![item.nt_index_pos + 1] = BracketAt(item)]
         /\ q.nt_index_pos = item.nt_index_pos + 1
         /\ q.pointer = item.pointer /\ q.top_position = item.top_position + 1
         /\ q.nopen_parens = item.nopen_parens /\ q.actions = item.actions
         /\ q.last_subword_begin_idx = item.last_subword_begin_idx
<1>1. PICK p : p = IF in_order THEN PlaceNt(item, x) ELSE PushNt(item, x)
  OBVIOUS
<1>2. /\ IsItem(p) /\ p.nt_index = [item.nt_index EXCEPT ![item.nt_index_pos + 1] = BracketAt(item)]
      /\ p.nt_index_pos = item.nt_index_pos
      /\ p.pointer = item.pointer /\ p.top_position = item.top_position
      /\ p.nopen_parens = item.nopen_parens /\ p.actions = item.actions
      /\ p.last_subword_begin_idx = item.last_subword_begin_idx
  <2>1. CASE in_order
    <3>1. PICK t : t = [i \in DOMAIN item.trees |->
                                IF i = item.last_subword_begin_idx - 1 THEN Open(x)
                                ELSE IF i \in item.last_subword_begin_idx .. item.top_position
                                  THEN item.trees[i - 1] ELSE item.trees[i]]
      OBVIOUS
    <3>2. p = [item EXCEPT !.trees = t, !.nt_index[item.nt_index_pos + 1] = item.last_subword_begin_idx]
      BY <1>1, <2>1, <3>1 DEF PlaceNt
    <3> QED
      BY <2>1, <3>2 DEF IsItem, BracketAt
  <2>2. CASE ~in_order
    <3>1. p = [item EXCEPT !.trees[item.top_position] = Open(x),
                           !.nt_index[item.nt_index_pos + 1] = item.top_position + 1]
      BY <1>1, <2>2 DEF PushNt
    <3> QED
      BY <2>2, <3>1 DEF IsItem, BracketAt
  <2> QED
    BY <2>1, <2>2
<1>3. q = [p EXCEPT !.nt_index_pos = @ + 1, !.nt_ids[item.nt_index_pos + 1] = x, !.top_position = @ + 1]
  BY <1>1 DEF DoNt
<1>4. PICK ids : ids = [p.nt_ids EXCEPT ![item.nt_index_pos + 1] = x]
  OBVIOUS
<1>5. q = [p EXCEPT !.nt_index_pos = @ + 1, !.nt_ids = ids, !.top_position = @ + 1]
  BY <1>2, <1>3, <1>4 DEF IsItem
<1>6. PICK at : at = [item.nt_index EXCEPT ![item.nt_index_pos + 1] = BracketAt(item)]
  OBVIOUS
<1>7. p.nt_index = at
  BY <1>2, <1>6
<1>8. /\ IsItem(q) /\ q.nt_index = p.nt_index
      /\ q.nt_index_pos = p.nt_index_pos + 1
      /\ q.pointer = p.pointer /\ q.top_position = p.top_position + 1
      /\ q.nopen_parens = p.nopen_parens /\ q.actions = p.actions
      /\ q.last_subword_begin_idx = p.last_subword_begin_idx
  BY ONLY <1>2, <1>5 DEF IsItem
<1> QED
  BY <1>2, <1>6, <1>7, <1>8

\* do_reduce takes the stack back to the place of the last bracket.
LEMMA ReduceIs ==
  ASSUME NEW item, IsItem(item), NEW q, q = DoReduce(item)
  PROVE  /\ IsItem(q) /\ q.nt_index = item.nt_index /\ q.nt_index_pos = item.nt_index_pos - 1
         /\ q.pointer = item.pointer /\ q.top_position = item.nt_index[item.nt_index_pos]
         /\ q.nopen_parens = item.nopen_parens /\ q.actions = item.actions
         /\ in_order => q.last_subword_begin_idx = item.nt_index[item.nt_index_pos]
         /\ ~in_order => q.last_subword_begin_idx = item.last_subword_begin_idx
<1>1. PICK position : position = item.nt_index[item.nt_index_pos]
  OBVIOUS
<1>2. PICK phrase :
        phrase = Phrase(item.nt_ids[item.nt_index_pos], item.trees[position - 1],
                        [i \in 1 .. item.top_position - position |-> item.trees[position + i - 1]])
  OBVIOUS
<1>3. PICK last : last = IF in_order THEN position ELSE item.last_subword_begin_idx
  OBVIOUS
<1>4. q = [item EXCEPT !.trees[position - 1] = phrase, !.nt_index_pos = @ - 1,
                       !.top_position = position, !.last_subword_begin_idx = last]
  BY <1>1, <1>2, <1>3 DEF DoReduce, IsItem
<1> QED
  BY <1>1, <1>3, <1>4 DEF IsItem

\* update_nt_counts counts open brackets and nothing else that matters here.
LEMMA CountsAre ==
  ASSUME NEW item, IsItem(item), NEW a, NEW q, q = UpdateNtCounts(item, a)
  PROVE  /\ IsItem(q) /\ SameBrackets(q, item)
         /\ q.pointer = item.pointer /\ q.top_position = item.top_position /\ q.actions = item.actions
         /\ q.last_subword_begin_idx = item.last_subword_begin_idx
         /\ a \in Labels => q.nopen_parens = item.nopen_parens + 1
         /\ a = "REDUCE" => q.nopen_parens = item.nopen_parens - 1
         /\ a \notin Labels /\ a # "REDUCE" => q.nopen_parens = item.nopen_parens
<1>1. CASE a = "SHIFT"
  BY <1>1, ActionNames DEF UpdateNtCounts, IsItem, SameBrackets
<1>2. CASE a \in Labels
  BY <1>2, ActionNames DEF UpdateNtCounts, IsItem, SameBrackets
<1>3. CASE a = "REDUCE"
  <2>1. PICK n : n = IF in_order /\ PrevIsNt(item) THEN item.ncons_nts ELSE 0
    OBVIOUS
  <2>2. q = [item EXCEPT !.nopen_parens = @ - 1, !.ncons_nts = n]
    BY <1>3, <2>1, ActionNames DEF UpdateNtCounts, IsItem
  <2> QED
    BY <1>3, <2>2, ActionNames DEF IsItem, SameBrackets
<1>4. CASE a # "SHIFT" /\ a \notin Labels /\ a # "REDUCE"
  BY <1>4 DEF UpdateNtCounts, SameBrackets
<1> QED
  BY <1>1, <1>2, <1>3, <1>4

\* What doing an action does to the places and counts, given what its cell does.
LEMMA DoIs ==
  ASSUME NEW item, NEW a, NEW p, p = Cell(item, a), IsItem(p), NEW q, q = Do(item, a)
  PROVE  /\ IsItem(q) /\ SameBrackets(q, p)
         /\ q.pointer = p.pointer /\ q.top_position = p.top_position
         /\ q.last_subword_begin_idx = p.last_subword_begin_idx
         /\ q.actions = Append(p.actions, a)
         /\ a \in Labels => q.nopen_parens = p.nopen_parens + 1
         /\ a = "REDUCE" => q.nopen_parens = p.nopen_parens - 1
         /\ a \notin Labels /\ a # "REDUCE" => q.nopen_parens = p.nopen_parens
<1>1. PICK c : c = UpdateNtCounts(p, a)
  OBVIOUS
<1>2. /\ IsItem(c) /\ SameBrackets(c, p)
      /\ c.pointer = p.pointer /\ c.top_position = p.top_position /\ c.actions = p.actions
      /\ c.last_subword_begin_idx = p.last_subword_begin_idx
      /\ a \in Labels => c.nopen_parens = p.nopen_parens + 1
      /\ a = "REDUCE" => c.nopen_parens = p.nopen_parens - 1
      /\ a \notin Labels /\ a # "REDUCE" => c.nopen_parens = p.nopen_parens
  BY <1>1, CountsAre
<1>3. q = [c EXCEPT !.actions = Append(@, a)]
  BY <1>1 DEF Do
<1> QED
  BY <1>2, <1>3 DEF IsItem, SameBrackets

-----------------------------------------------------------------------------
(* Elements in order                                                       *)

\* What is given with a sentence.
Sized ==
  in_order \in BOOLEAN /\ ends \in Seq(BOOLEAN) \ {<< >>} /\ stack_size \in Nat \ {0} /\ max_actions \in Nat

\* The places of the open brackets are on the stack, each above the one before.
BracketsOK(item) ==
  /\ \A i \in 0 .. item.nt_index_pos :
       i < item.nt_index[i] /\ item.nt_index[i] <= item.top_position
  /\ \A i, j \in 0 .. item.nt_index_pos : i < j => item.nt_index[i] < item.nt_index[j]

\* In order a bracket may be put below what begins at last_subword_begin_idx, as
\* that is above all brackets; there is no bracket inside a word.
WordOK(item) ==
  /\ AfterSubword(item) => Prev(item) = "SHIFT"
  /\ item.top_position > 0 /\ ~PrevIsNt(item) =>
       /\ 0 < item.last_subword_begin_idx /\ item.last_subword_begin_idx <= item.top_position
       /\ \A i \in 0 .. item.nt_index_pos : item.nt_index[i] < item.last_subword_begin_idx

\* Actions are left for the tokens to read and the brackets to close.
Spent(item) ==
  Len(item.actions) + ToRead(item) + item.nopen_parens + (IF in_order THEN 1 ELSE 0)

\* The places and counts of an element are those of a sentence of that length
\* and of a stack of that size; an open bracket has an index.
PlacesOK(item) ==
  /\ IsItem(item)
  /\ item.pointer \in 0 .. sent_length /\ item.top_position \in 0 .. stack_size - 1
  /\ item.nt_index \in [0 .. stack_size - 1 -> Nat]
  /\ item.nt_index_pos \in Int /\ -1 <= item.nt_index_pos /\ item.nt_index_pos < item.top_position
  /\ item.last_subword_begin_idx \in Nat
  /\ item.nopen_parens = item.nt_index_pos + 1
  /\ item.actions \in Seq(Actions)
  /\ item.pointer > 0 => item.top_position > 0

\* An element is in order: its brackets are on the stack, and the actions that
\* it still needs have places.
ItemOK(item) ==
  /\ PlacesOK(item) /\ BracketsOK(item)
  /\ in_order => WordOK(item)
  /\ Spent(item) < max_actions

\* A sentence has a token, and its mask tells of each.
LEMMA Lengths ==
  ASSUME Sized
  PROVE  sent_length \in Nat \ {0} /\ \A i \in 1 .. sent_length : ends[i] \in BOOLEAN
BY DEF Sized, sent_length

\* After an action the previous action is that one.
LEMMA PrevIs ==
  ASSUME NEW q, NEW s \in Seq(Actions), NEW a \in Actions, q.actions = Append(s, a)
  PROVE  Prev(q) = a /\ (PrevIsNt(q) <=> a \in Labels) /\ q.actions \in Seq(Actions)
         /\ Len(q.actions) = Len(s) + 1
<1>1. PICK t : t = Append(s, a)
  OBVIOUS
<1>2. t \in Seq(Actions) /\ Len(t) = Len(s) + 1 /\ t[Len(t)] = a /\ t # << >>
  BY <1>1
<1>3. Prev(q) = a
  BY <1>1, <1>2 DEF Prev, Last
<1> QED
  BY <1>1, <1>2, <1>3 DEF PrevIsNt

\* What the mask computes with are numbers.
LEMMA RoomIs ==
  ASSUME Sized, NEW item, PlacesOK(item)
  PROVE  /\ ToRead(item) \in Nat /\ Room(item) \in Nat /\ ActionsLeft(item) \in Int
         /\ Len(item.actions) \in Nat /\ item.pointer \in Nat /\ item.top_position \in Nat
         /\ item.nopen_parens \in Nat /\ sent_length \in Nat
<1>1. PICK L \in Nat, s \in Nat, m \in Nat : L = sent_length /\ s = stack_size /\ m = max_actions
  BY Lengths DEF Sized
<1>2. PICK p \in 0 .. L, top \in 0 .. s - 1 : p = item.pointer /\ top = item.top_position
  BY <1>1 DEF PlacesOK
<1>3. ToRead(item) = L - p /\ Room(item) = s - top
  BY <1>1, <1>2 DEF ToRead, Room
<1>4. Len(item.actions) \in Nat
  BY DEF PlacesOK
<1>5. item.nopen_parens \in Nat
  <2>1. PICK i \in Int : i = item.nt_index_pos /\ -1 <= i /\ item.nopen_parens = i + 1
    BY DEF PlacesOK
  <2> QED
    BY <2>1
<1>6. ActionsLeft(item) \in Int
  BY <1>1, <1>4 DEF ActionsLeft
<1> QED
  BY <1>1, <1>2, <1>3, <1>4, <1>5, <1>6

\* SHIFT is left only when there is a token, and a place on the stack besides
\* the top.
LEMMA AllowedShift ==
  ASSUME Sized, NEW item, PlacesOK(item), "SHIFT" \in Allowed(item)
  PROVE  ToRead(item) > 0 /\ Room(item) > 1
<1>1. CASE in_order
  <2>1. "SHIFT" \in InOrderAllowed(item)
    BY <1>1 DEF Allowed
  <2>2. ~(ToRead(item) = 0) /\ Room(item) > IF item.nopen_parens = 0 THEN 2 ELSE 1
    BY <2>1, ActionNames DEF InOrderAllowed
  <2> QED
    BY <2>2, RoomIs
<1>2. CASE ~in_order
  BY <1>2, ActionNames DEF Allowed, TopDownAllowed
<1> QED
  BY <1>1, <1>2

\* NT is left only when there is room, actions are left for what it needs, and,
\* in order, there is something complete to put below it.
LEMMA AllowedNt ==
  ASSUME Sized, NEW item, PlacesOK(item), NEW x \in Labels, x \in Allowed(item)
  PROVE  /\ Room(item) > 1
         /\ in_order => /\ ~PrevIsNt(item) /\ item.top_position > 0
                        /\ ~(AfterSubword(item) /\ Prev(item) = "SHIFT")
                        /\ ActionsLeft(item) >= ToRead(item) + item.nopen_parens + 4
         /\ ~in_order => ActionsLeft(item) >= ToRead(item) + item.nopen_parens + 3
<1>1. CASE in_order
  <2>1. x \in InOrderAllowed(item)
    BY <1>1 DEF Allowed
  <2> QED
    BY <1>1, <2>1, ActionNames DEF InOrderAllowed
<1>2. CASE ~in_order
  <2>1. Room(item) > 2 /\ ActionsLeft(item) >= ToRead(item) + item.nopen_parens + 3
    BY <1>2, ActionNames DEF Allowed, TopDownAllowed
  <2> QED
    BY <1>2, <2>1, RoomIs
<1> QED
  BY <1>1, <1>2

\* REDUCE is left only when a bracket is open and no word is half read.
LEMMA AllowedReduce ==
  ASSUME Sized, NEW item, PlacesOK(item), "REDUCE" \in Allowed(item)
  PROVE  item.nopen_parens > 0 /\ ~AfterSubword(item)
<1>1. CASE in_order
  <2>1. "REDUCE" \in InOrderAllowed(item)
    BY <1>1 DEF Allowed
  <2>2. ~(item.nopen_parens = 0) /\ ~AfterSubword(item)
    BY <2>1, ActionNames DEF InOrderAllowed
  <2> QED
    BY <2>2, RoomIs
<1>2. CASE ~in_order
  <2>1. item.nopen_parens > (IF ToRead(item) > 0 THEN 1 ELSE 0) /\ ~AfterSubword(item)
    BY <1>2, ActionNames DEF Allowed, TopDownAllowed
  <2> QED
    BY <2>1, RoomIs
<1> QED
  BY <1>1, <1>2

\* The mask leaves actions of the strategy.
LEMMA AllowedAre ==
  ASSUME NEW item, NEW a \in Allowed(item)
  PROVE  a \in Actions /\ (a = "SHIFT" \/ a \in Labels \/ a = "REDUCE" \/ (a = "FINISH" /\ in_order))
<1>1. a \in Actions
  BY DEF Allowed, InOrderAllowed, TopDownAllowed
<1> QED
  BY <1>1 DEF Actions

\* What a step of the cell and of the counts does to what is spent.
LEMMA SpentIs ==
  ASSUME Sized, NEW item, PlacesOK(item), Spent(item) < max_actions,
         NEW q, NEW d \in Int, NEW n \in Int,
         Len(q.actions) = Len(item.actions) + 1,
         q.pointer = item.pointer + d, q.nopen_parens = item.nopen_parens + n
  PROVE  /\ d >= n + 1 => Spent(q) < max_actions
         /\ in_order /\ d = 0 /\ n = 1 /\ ActionsLeft(item) >= ToRead(item) + item.nopen_parens + 4
              => Spent(q) < max_actions
         /\ ~in_order /\ d = 0 /\ n = 1 /\ ActionsLeft(item) >= ToRead(item) + item.nopen_parens + 3
              => Spent(q) < max_actions
<1>1. PICK l \in Nat, L \in Nat, p \in Nat, o \in Nat, m \in Nat, k \in {0, 1} :
        /\ l = Len(item.actions) /\ L = sent_length /\ p = item.pointer /\ o = item.nopen_parens
        /\ m = max_actions /\ k = IF in_order THEN 1 ELSE 0
  BY RoomIs DEF Sized
<1>2. /\ Spent(item) = l + (L - p) + o + k
      /\ Spent(q) = (l + 1) + (L - (p + d)) + (o + n) + k
  BY <1>1 DEF Spent, ToRead
<1>3. ActionsLeft(item) = m - l /\ ToRead(item) + item.nopen_parens = L - p + o
  BY <1>1 DEF ActionsLeft, ToRead
<1>4. l + (L - p) + o + k < m
  BY <1>1, <1>2
<1>5. (in_order => k = 1) /\ (~in_order => k = 0)
  BY <1>1
<1>6. d >= n + 1 => Spent(q) < max_actions
  <2>1. d >= n + 1 => (l + 1) + (L - (p + d)) + (o + n) + k < m
    BY ONLY <1>4, d \in Int, n \in Int, l \in Nat, L \in Nat, p \in Nat, o \in Nat, m \in Nat, k \in {0, 1}
  <2> QED
    BY <1>1, <1>2, <2>1
<1>7. ASSUME d = 0, n = 1, m - l >= (L - p + o) + 3 + k
      PROVE  Spent(q) < max_actions
  <2>1. (l + 1) + (L - (p + d)) + (o + n) + k < m
    BY ONLY <1>7, l \in Nat, L \in Nat, p \in Nat, o \in Nat, m \in Nat, k \in {0, 1}
  <2> QED
    BY <1>1, <1>2, <2>1
<1>8. ActionsLeft(item) >= ToRead(item) + item.nopen_parens + 4 => m - l >= (L - p + o) + 4
  BY <1>3
<1>9. ActionsLeft(item) >= ToRead(item) + item.nopen_parens + 3 => m - l >= (L - p + o) + 3
  BY <1>3
<1> QED
  BY <1>5, <1>6, <1>7, <1>8, <1>9

-----------------------------------------------------------------------------
(* Actions keep elements in order                                          *)

\* The places of an element as numbers.
LEMMA PlaceNumbers ==
  ASSUME Sized, NEW item, PlacesOK(item)
  PROVE  /\ sent_length \in Nat /\ stack_size \in Nat /\ IsItem(item)
         /\ item.pointer \in Nat /\ item.pointer <= sent_length
         /\ item.top_position \in Nat /\ item.top_position < stack_size
         /\ item.nt_index_pos \in Int /\ -1 <= item.nt_index_pos /\ item.nt_index_pos < item.top_position
         /\ item.nopen_parens = item.nt_index_pos + 1 /\ item.last_subword_begin_idx \in Nat
<1>1. PICK s \in Nat, L \in Nat : s = stack_size /\ L = sent_length
  BY Lengths DEF Sized
<1>2. item.pointer \in 0 .. L /\ item.top_position \in 0 .. s - 1
  BY <1>1 DEF PlacesOK
<1>3. item.top_position \in Nat /\ item.top_position < s
  BY <1>1, <1>2
<1> QED
  BY <1>1, <1>2, <1>3 DEF PlacesOK

\* The place of an open bracket is a place of the stack.
LEMMA Brackets ==
  ASSUME Sized, NEW item, PlacesOK(item), BracketsOK(item), NEW i \in 0 .. item.nt_index_pos
  PROVE  /\ i \in 0 .. stack_size - 1 /\ item.nt_index[i] \in Nat
         /\ i < item.nt_index[i] /\ item.nt_index[i] <= item.top_position
<1>1. PICK s \in Nat, n \in Int, top \in Nat :
        top < s /\ s = stack_size /\ n = item.nt_index_pos /\ top = item.top_position /\ n < top
  BY PlaceNumbers
<1>2. i \in 0 .. n
  BY <1>1
<1>3. i \in 0 .. s - 1
  BY <1>1, <1>2
<1>4. item.nt_index[i] \in Nat
  BY <1>1, <1>3 DEF PlacesOK
<1> QED
  BY <1>1, <1>3, <1>4 DEF BracketsOK

\* Shifting a token keeps an element in order: one action more is done, one
\* token less is to be read.
LEMMA ShiftKeeps ==
  ASSUME Sized, NEW item, ItemOK(item), "SHIFT" \in Allowed(item), NEW q, q = Do(item, "SHIFT")
  PROVE  ItemOK(q)
<1>1. PlacesOK(item) /\ BracketsOK(item) /\ (in_order => WordOK(item)) /\ Spent(item) < max_actions
  BY DEF ItemOK
<1>2. PICK p : p = DoShift(item)
  OBVIOUS
<1>3. /\ IsItem(p) /\ SameBrackets(p, item)
      /\ p.pointer = item.pointer + 1 /\ p.top_position = item.top_position + 1
      /\ p.nopen_parens = item.nopen_parens /\ p.actions = item.actions
      /\ in_order /\ (item.pointer = 0 \/ ends[item.pointer]) =>
           p.last_subword_begin_idx = item.top_position + 1
      /\ ~(in_order /\ (item.pointer = 0 \/ ends[item.pointer])) =>
           p.last_subword_begin_idx = item.last_subword_begin_idx
  BY <1>1, <1>2, ShiftIs DEF PlacesOK
<1>4. /\ IsItem(q) /\ SameBrackets(q, item)
      /\ q.pointer = item.pointer + 1 /\ q.top_position = item.top_position + 1
      /\ q.nopen_parens = item.nopen_parens /\ q.actions = Append(item.actions, "SHIFT")
      /\ q.last_subword_begin_idx = p.last_subword_begin_idx
  <2>1. p = Cell(item, "SHIFT")
    BY <1>2 DEF Cell
  <2> QED
    BY <1>3, <2>1, DoIs, ActionNames DEF SameBrackets
<1>5. "SHIFT" \in Actions /\ ToRead(item) > 0 /\ Room(item) > 1
  BY <1>1, AllowedShift DEF Actions
<1>6. /\ Prev(q) = "SHIFT" /\ ~PrevIsNt(q) /\ q.actions \in Seq(Actions)
      /\ Len(q.actions) = Len(item.actions) + 1
  BY <1>1, <1>4, <1>5, PrevIs, ActionNames DEF PlacesOK
<1>7. PICK L \in Nat, s \in Nat, pt \in Nat, top \in Nat, n \in Int :
        /\ pt <= L /\ top < s
        /\ L = sent_length /\ s = stack_size /\ pt = item.pointer /\ top = item.top_position
        /\ n = item.nt_index_pos /\ -1 <= n /\ n < top
  BY <1>1, PlaceNumbers
<1>8. pt < L /\ top + 1 < s
  BY <1>5, <1>7 DEF ToRead, Room
<1>9. /\ q.pointer = pt + 1 /\ q.top_position = top + 1 /\ q.nt_index = item.nt_index
      /\ q.nt_index_pos = n
  BY <1>4, <1>7 DEF SameBrackets
<1>10. p.last_subword_begin_idx \in Nat
  <2>1. item.last_subword_begin_idx \in Nat /\ item.top_position + 1 \in Nat
    BY <1>1, PlaceNumbers
  <2>2. CASE in_order /\ (item.pointer = 0 \/ ends[item.pointer])
    BY <1>3, <2>1, <2>2
  <2>3. CASE ~(in_order /\ (item.pointer = 0 \/ ends[item.pointer]))
    BY <1>3, <2>1, <2>3
  <2> QED
    BY <2>2, <2>3
<1>11. PlacesOK(q)
  <2>1. pt + 1 \in 0 .. L /\ top + 1 \in 0 .. s - 1 /\ n < top + 1 /\ top + 1 > 0
    BY <1>7, <1>8
  <2> QED
    BY <1>1, <1>4, <1>6, <1>7, <1>9, <1>10, <2>1 DEF PlacesOK
<1>12. BracketsOK(q)
  <2>1. ASSUME NEW i \in 0 .. n PROVE i < item.nt_index[i] /\ item.nt_index[i] <= top + 1
    BY <1>1, <1>7, Brackets
  <2> QED
    BY <1>1, <1>7, <1>9, <2>1 DEF BracketsOK
<1>13. ASSUME in_order PROVE WordOK(q)
  <2>1. CASE item.pointer = 0 \/ ends[item.pointer]
    <3>1. q.last_subword_begin_idx = top + 1
      BY <1>3, <1>4, <1>7, <1>13, <2>1
    <3>2. ASSUME NEW i \in 0 .. n PROVE item.nt_index[i] < top + 1
      BY <1>1, <1>7, Brackets
    <3> QED
      BY <1>6, <1>7, <1>9, <3>1, <3>2 DEF WordOK
  <2>2. CASE ~(item.pointer = 0 \/ ends[item.pointer])
    <3>1. item.pointer > 0 /\ AfterSubword(item)
      BY <1>7, <2>2 DEF AfterSubword
    <3>2. ~PrevIsNt(item) /\ item.top_position > 0
      BY <1>1, <1>13, <3>1, ActionNames DEF WordOK, PrevIsNt, PlacesOK
    <3>3. PICK w \in Nat : w = item.last_subword_begin_idx
      BY <1>1 DEF PlacesOK
    <3>4. 0 < w /\ w <= top /\ \A i \in 0 .. n : item.nt_index[i] < w
      BY <1>1, <1>7, <1>13, <3>2, <3>3 DEF WordOK
    <3>5. q.last_subword_begin_idx = w
      BY <1>3, <1>4, <2>2, <3>3
    <3>6. w <= top + 1
      BY <3>4, <1>7
    <3> QED
      BY <1>6, <1>9, <3>4, <3>5, <3>6 DEF WordOK
  <2> QED
    BY <2>1, <2>2
<1>14. Spent(q) < max_actions
  <2>1. q.pointer = item.pointer + 1 /\ q.nopen_parens = item.nopen_parens + 0
    BY <1>1, <1>4, RoomIs
  <2> QED
    BY <1>1, <1>6, <2>1, SpentIs
<1> QED
  BY <1>11, <1>12, <1>13, <1>14 DEF ItemOK

\* So does opening a bracket: its place is above those of the others, and below
\* the top.
LEMMA NtKeeps ==
  ASSUME Sized, NEW item, ItemOK(item), NEW x \in Labels, x \in Allowed(item), NEW q, q = Do(item, x)
  PROVE  ItemOK(q)
<1>1. PlacesOK(item) /\ BracketsOK(item) /\ (in_order => WordOK(item)) /\ Spent(item) < max_actions
  BY DEF ItemOK
<1>2. PICK p : p = DoNt(item, x)
  OBVIOUS
<1>3. /\ IsItem(p) /\ p.nt_index = [item.nt_index EXCEPT ![item.nt_index_pos + 1] = BracketAt(item)]
      /\ p.nt_index_pos = item.nt_index_pos + 1
      /\ p.pointer = item.pointer /\ p.top_position = item.top_position + 1
      /\ p.nopen_parens = item.nopen_parens /\ p.actions = item.actions
      /\ p.last_subword_begin_idx = item.last_subword_begin_idx
  <2>1. IsItem(item)
    BY <1>1 DEF PlacesOK
  <2> QED
    BY <1>2, <2>1, NtIs
<1>4. /\ IsItem(q) /\ q.nt_index = p.nt_index
      /\ q.nt_index_pos = item.nt_index_pos + 1
      /\ q.pointer = item.pointer /\ q.top_position = item.top_position + 1
      /\ q.nopen_parens = item.nopen_parens + 1 /\ q.actions = Append(item.actions, x)
      /\ q.last_subword_begin_idx = item.last_subword_begin_idx
  <2>1. p = Cell(item, x)
    BY <1>2, ActionNames DEF Cell
  <2> QED
    BY <1>3, <2>1, DoIs, ActionNames DEF SameBrackets
<1>5. /\ x \in Actions /\ Room(item) > 1
      /\ in_order => /\ ~PrevIsNt(item) /\ item.top_position > 0
                     /\ ~(AfterSubword(item) /\ Prev(item) = "SHIFT")
                     /\ ActionsLeft(item) >= ToRead(item) + item.nopen_parens + 4
      /\ ~in_order => ActionsLeft(item) >= ToRead(item) + item.nopen_parens + 3
  BY <1>1, AllowedNt DEF Actions
<1>6. PrevIsNt(q) /\ q.actions \in Seq(Actions) /\ Len(q.actions) = Len(item.actions) + 1
  BY <1>1, <1>4, <1>5, PrevIs DEF PlacesOK
<1>7. PICK s \in Nat, top \in Nat, n \in Int, at \in Nat :
        /\ top < s
        /\ s = stack_size /\ top = item.top_position /\ at = BracketAt(item)
        /\ n = item.nt_index_pos /\ -1 <= n /\ n < top
  BY <1>1, PlaceNumbers DEF BracketAt
<1>8. top + 1 < s
  BY <1>5, <1>7 DEF Room
<1>9. 0 < at /\ at <= top + 1 /\ \A i \in 0 .. n : item.nt_index[i] < at
  <2>1. CASE in_order
    <3>1. WordOK(item) /\ ~PrevIsNt(item) /\ item.top_position > 0
      BY <1>1, <1>5, <2>1
    <3>2. PICK w \in Nat : w = item.last_subword_begin_idx /\ at = w
      BY <1>1, <1>7, <2>1 DEF PlacesOK, BracketAt
    <3>3. 0 < w /\ w <= top /\ \A i \in 0 .. n : item.nt_index[i] < w
      BY <1>7, <3>1, <3>2 DEF WordOK
    <3>4. w <= top + 1
      BY <1>7, <3>3
    <3> QED
      BY <3>2, <3>3, <3>4
  <2>2. CASE ~in_order
    <3>1. at = top + 1
      BY <1>7, <2>2 DEF BracketAt
    <3>2. ASSUME NEW i \in 0 .. n PROVE item.nt_index[i] < at
      BY <1>1, <1>7, <3>1, Brackets
    <3> QED
      BY <1>7, <3>1, <3>2
  <2> QED
    BY <2>1, <2>2
<1>10. PICK m \in Nat : m = n + 1
  BY <1>7
<1>11. PICK f : f = [item.nt_index EXCEPT ![m] = at]
  OBVIOUS
<1>12. m = n + 1 /\ f = [item.nt_index EXCEPT ![m] = at]
  BY <1>10, <1>11
<1>13. /\ q.pointer = item.pointer /\ q.top_position = top + 1 /\ q.nt_index = f
       /\ q.nt_index_pos = m
  BY <1>3, <1>4, <1>7, <1>12
<1>14. m \in 0 .. s - 1 /\ m < top + 1 /\ -1 <= m /\ m <= top
  BY <1>7, <1>8, <1>12
<1>15. /\ f \in [0 .. s - 1 -> Nat] /\ f[m] = at
       /\ \A i \in 0 .. n : f[i] = item.nt_index[i]
  <2>1. item.nt_index \in [0 .. s - 1 -> Nat]
    BY <1>1, <1>7 DEF PlacesOK
  <2>2. ASSUME NEW i \in 0 .. n PROVE i # m /\ i \in 0 .. s - 1
    BY <1>7, <1>12, <1>14
  <2> QED
    BY <1>12, <1>14, <2>1, <2>2
<1>16. PlacesOK(q)
  <2>1. top + 1 \in 0 .. s - 1 /\ top + 1 > 0
    BY <1>7, <1>8
  <2>2. item.nopen_parens = n + 1 /\ item.pointer \in 0 .. sent_length /\ item.last_subword_begin_idx \in Nat
    BY <1>1, <1>7 DEF PlacesOK
  <2>3. q.nopen_parens = m + 1
    BY <1>4, <1>12, <2>2
  <2>4. q.pointer \in 0 .. sent_length /\ q.top_position \in 0 .. stack_size - 1 /\ q.top_position > 0
    BY <1>7, <1>13, <2>1, <2>2
  <2>5. q.nt_index \in [0 .. stack_size - 1 -> Nat] /\ q.last_subword_begin_idx \in Nat
    BY <1>4, <1>7, <1>13, <1>15, <2>2
  <2>6. q.nt_index_pos \in Int /\ -1 <= q.nt_index_pos /\ q.nt_index_pos < q.top_position
    BY <1>13, <1>14, <1>10
  <2> QED
    BY <1>4, <1>6, <1>13, <2>3, <2>4, <2>5, <2>6 DEF PlacesOK
<1>17. BracketsOK(q)
  <2>1. ASSUME NEW i \in 0 .. n
        PROVE  f[i] \in Nat /\ i < f[i] /\ f[i] <= top + 1 /\ f[i] < at
    <3>1. item.nt_index[i] \in Nat /\ i < item.nt_index[i] /\ item.nt_index[i] <= top
      BY <1>1, <1>7, Brackets
    <3>2. f[i] = item.nt_index[i] /\ item.nt_index[i] < at
      BY <1>9, <1>15
    <3> QED
      BY <1>7, <3>1, <3>2
  <2>2. m < at
    <3>1. CASE n = -1
      BY <1>9, <1>12, <3>1
    <3>2. CASE n # -1
      <4>1. n \in 0 .. n
        BY <1>7, <3>2
      <4>2. n < f[n] /\ f[n] \in Nat /\ f[n] < at
        BY <2>1, <4>1
      <4> QED
        BY <1>7, <1>12, <4>2
    <3> QED
      BY <3>1, <3>2
  <2>3. ASSUME NEW i \in 0 .. m PROVE i \in 0 .. n \/ i = m
    BY <1>7, <1>12
  <2>4. ASSUME NEW i \in 0 .. m PROVE i < f[i] /\ f[i] <= top + 1
    BY <1>9, <1>15, <2>1, <2>2, <2>3
  <2>5. ASSUME NEW i \in 0 .. m, NEW j \in 0 .. m, i < j PROVE f[i] < f[j]
    <3>1. i \in 0 .. n
      BY <1>12, <2>3, <2>5
    <3>2. CASE j = m
      BY <1>15, <2>1, <3>1, <3>2
    <3>3. CASE j \in 0 .. n
      <4>1. item.nt_index[i] < item.nt_index[j]
        BY <1>1, <1>7, <2>5, <3>1, <3>3 DEF BracketsOK
      <4> QED
        BY <1>15, <3>1, <3>3, <4>1
    <3> QED
      BY <2>3, <3>2, <3>3
  <2> QED
    BY <1>13, <2>4, <2>5 DEF BracketsOK
<1>18. ASSUME in_order PROVE WordOK(q)
  <2>1. ~AfterSubword(q)
    <3>1. ~AfterSubword(item)
      BY <1>1, <1>5, <1>18 DEF WordOK
    <3> QED
      BY <1>13, <3>1 DEF AfterSubword
  <2> QED
    BY <1>6, <2>1 DEF WordOK
<1>19. Spent(q) < max_actions
  <2>1. q.pointer = item.pointer + 0 /\ q.nopen_parens = item.nopen_parens + 1
    BY <1>1, <1>4, RoomIs
  <2> QED
    BY <1>1, <1>5, <1>6, <2>1, SpentIs
<1> QED
  BY <1>16, <1>17, <1>18, <1>19 DEF ItemOK

\* So does closing one: what is left on top is above the brackets that stay
\* open.
LEMMA ReduceKeeps ==
  ASSUME Sized, NEW item, ItemOK(item), "REDUCE" \in Allowed(item), NEW q, q = Do(item, "REDUCE")
  PROVE  ItemOK(q)
<1>1. PlacesOK(item) /\ BracketsOK(item) /\ (in_order => WordOK(item)) /\ Spent(item) < max_actions
  BY DEF ItemOK
<1>2. PICK p : p = DoReduce(item)
  OBVIOUS
<1>3. /\ IsItem(p) /\ p.nt_index = item.nt_index /\ p.nt_index_pos = item.nt_index_pos - 1
      /\ p.pointer = item.pointer /\ p.top_position = item.nt_index[item.nt_index_pos]
      /\ p.nopen_parens = item.nopen_parens /\ p.actions = item.actions
      /\ in_order => p.last_subword_begin_idx = item.nt_index[item.nt_index_pos]
      /\ ~in_order => p.last_subword_begin_idx = item.last_subword_begin_idx
  BY <1>1, <1>2, ReduceIs DEF PlacesOK
<1>4. /\ IsItem(q) /\ q.nt_index = item.nt_index /\ q.nt_index_pos = item.nt_index_pos - 1
      /\ q.pointer = item.pointer /\ q.top_position = item.nt_index[item.nt_index_pos]
      /\ q.nopen_parens = item.nopen_parens - 1 /\ q.actions = Append(item.actions, "REDUCE")
      /\ q.last_subword_begin_idx = p.last_subword_begin_idx
  <2>1. p = Cell(item, "REDUCE")
    BY <1>2, ActionNames DEF Cell
  <2> QED
    BY <1>3, <2>1, DoIs, ActionNames DEF SameBrackets
<1>5. "REDUCE" \in Actions /\ item.nopen_parens > 0 /\ ~AfterSubword(item)
  BY <1>1, AllowedReduce DEF Actions
<1>6. /\ Prev(q) = "REDUCE" /\ q.actions \in Seq(Actions)
      /\ Len(q.actions) = Len(item.actions) + 1
  BY <1>1, <1>4, <1>5, PrevIs DEF PlacesOK
<1>7. PICK s \in Nat, top \in Nat, n \in Int :
        /\ top < s
        /\ s = stack_size /\ top = item.top_position
        /\ n = item.nt_index_pos /\ -1 <= n /\ n < top /\ item.nopen_parens = n + 1
  BY <1>1, PlaceNumbers
<1>8. 0 <= n /\ n \in 0 .. n
  BY <1>5, <1>7
<1>9. PICK at \in Nat : at = item.nt_index[n] /\ n < at /\ at <= top
  BY <1>1, <1>7, <1>8, Brackets
<1>10. PICK m \in Int : m = n - 1 /\ -1 <= m /\ m < at /\ at \in 0 .. s - 1 /\ at > 0
  BY <1>7, <1>8, <1>9
<1>11. /\ q.pointer = item.pointer /\ q.top_position = at /\ q.nt_index = item.nt_index
       /\ q.nt_index_pos = m /\ q.nopen_parens = m + 1
  BY <1>4, <1>7, <1>9, <1>10
<1>12. PlacesOK(q)
  <2>1. q.last_subword_begin_idx \in Nat
    BY <1>1, <1>3, <1>4, <1>7, <1>9 DEF PlacesOK
  <2>2. item.pointer \in 0 .. sent_length /\ item.nt_index \in [0 .. stack_size - 1 -> Nat]
    BY <1>1 DEF PlacesOK
  <2> QED
    BY <1>4, <1>6, <1>7, <1>10, <1>11, <2>1, <2>2 DEF PlacesOK
<1>13. ASSUME NEW i \in 0 .. m
       PROVE  i \in 0 .. n /\ i < item.nt_index[i] /\ item.nt_index[i] < at /\ item.nt_index[i] \in Nat
  <2>1. i \in 0 .. n /\ i < n
    BY <1>7, <1>10
  <2>2. item.nt_index[i] < item.nt_index[n]
    BY <1>1, <1>7, <1>8, <2>1 DEF BracketsOK
  <2> QED
    BY <1>1, <1>7, <1>9, <2>1, <2>2, Brackets
<1>14. BracketsOK(q)
  <2>1. \A i \in 0 .. m : i < item.nt_index[i] /\ item.nt_index[i] <= at
    BY <1>9, <1>13
  <2>2. \A i, j \in 0 .. m : i < j => item.nt_index[i] < item.nt_index[j]
    BY <1>1, <1>7, <1>13 DEF BracketsOK
  <2> QED
    BY <1>11, <2>1, <2>2 DEF BracketsOK
<1>15. ASSUME in_order PROVE WordOK(q)
  <2>1. ~AfterSubword(q)
    BY <1>5, <1>11 DEF AfterSubword
  <2>2. q.last_subword_begin_idx = at
    BY <1>3, <1>4, <1>7, <1>9, <1>15
  <2> QED
    BY <1>9, <1>10, <1>11, <1>13, <2>1, <2>2 DEF WordOK
<1>16. Spent(q) < max_actions
  <2>1. q.pointer = item.pointer + 0 /\ q.nopen_parens = item.nopen_parens + (-1)
    BY <1>1, <1>4, RoomIs
  <2> QED
    BY <1>1, <1>6, <2>1, SpentIs
<1> QED
  BY <1>12, <1>14, <1>15, <1>16 DEF ItemOK

-----------------------------------------------------------------------------
(* Elements in order fit their tensors                                     *)

\* What StorageSuffices says of an element.
ItemFits(item) ==
  /\ Len(item.actions) < max_actions
  /\ item.top_position \in 0 .. stack_size
  /\ item.nt_index_pos \in -1 .. stack_size - 1
  /\ item.nt_index_pos + 1 = item.nopen_parens

\* The path of an element has a place for the next action, and in order for
\* FINISH too.
LEMMA SpentBounds ==
  ASSUME Sized, NEW item, ItemOK(item)
  PROVE  /\ Len(item.actions) \in Nat /\ Len(item.actions) < max_actions
         /\ in_order => Len(item.actions) + 1 < max_actions
<1>1. PlacesOK(item) /\ Spent(item) < max_actions
  BY DEF ItemOK
<1>2. PICK l \in Nat, t \in Nat, o \in Nat, m \in Nat, k \in {0, 1} :
        /\ l = Len(item.actions) /\ t = ToRead(item) /\ o = item.nopen_parens
        /\ m = max_actions /\ k = IF in_order THEN 1 ELSE 0
  BY <1>1, RoomIs DEF Sized
<1>3. l + t + o + k < m
  BY <1>1, <1>2 DEF Spent
<1>4. l < m /\ l + k < m
  BY <1>3
<1>5. in_order => k = 1
  BY <1>2
<1> QED
  BY <1>2, <1>4, <1>5

\* An element in order fits its tensors.
LEMMA OKFits ==
  ASSUME Sized, NEW item, ItemOK(item)
  PROVE  ItemFits(item)
<1>1. PlacesOK(item)
  BY DEF ItemOK
<1>2. PICK s \in Nat, top \in Nat, n \in Int :
        /\ s = stack_size /\ top = item.top_position /\ n = item.nt_index_pos
        /\ top < s /\ -1 <= n /\ n < top /\ item.nopen_parens = n + 1
  BY <1>1, PlaceNumbers
<1>3. top \in 0 .. s /\ n \in -1 .. s - 1
  BY <1>2
<1> QED
  BY <1>2, <1>3, SpentBounds DEF ItemFits

\* FINISH takes the place that was kept for it.
LEMMA FinishFits ==
  ASSUME Sized, NEW item, ItemOK(item), "FINISH" \in Allowed(item), NEW q, q = Do(item, "FINISH")
  PROVE  ItemFits(q)
<1>1. PlacesOK(item)
  BY DEF ItemOK
<1>2. item = Cell(item, "FINISH") /\ IsItem(item)
  BY <1>1, ActionNames DEF Cell, PlacesOK
<1>3. /\ SameBrackets(q, item) /\ q.top_position = item.top_position
      /\ q.nopen_parens = item.nopen_parens /\ q.actions = Append(item.actions, "FINISH")
  BY <1>2, DoIs, ActionNames
<1>4. "FINISH" \in Actions /\ in_order
  BY AllowedAre, ActionNames
<1>5. Len(q.actions) = Len(item.actions) + 1
  <2>1. item.actions \in Seq(Actions)
    BY <1>1 DEF PlacesOK
  <2> QED
    BY <1>3, <1>4, <2>1
<1>6. ItemFits(item) /\ Len(item.actions) + 1 < max_actions
  BY <1>4, OKFits, SpentBounds
<1> QED
  BY <1>3, <1>5, <1>6 DEF ItemFits, SameBrackets

\* Every action that the mask leaves keeps an element in order, but for FINISH,
\* after which it still fits.
LEMMA DoKeeps ==
  ASSUME Sized, NEW item, ItemOK(item), NEW a \in Allowed(item)
  PROVE  /\ a # "FINISH" => ItemOK(Do(item, a))
         /\ ItemFits(Do(item, a))
<1>1. PICK q : q = Do(item, a)
  OBVIOUS
<1>2. ASSUME a # "FINISH" PROVE ItemOK(q)
  <2>1. CASE a = "SHIFT"
    BY <1>1, <2>1, ShiftKeeps
  <2>2. CASE a \in Labels
    BY <1>1, <2>2, NtKeeps
  <2>3. CASE a = "REDUCE"
    BY <1>1, <2>3, ReduceKeeps
  <2> QED
    BY <1>2, <2>1, <2>2, <2>3, AllowedAre
<1>3. ItemFits(q)
  <2>1. CASE a = "FINISH"
    BY <1>1, <2>1, FinishFits
  <2>2. CASE a # "FINISH"
    BY <1>2, <2>2, OKFits
  <2> QED
    BY <2>1, <2>2
<1> QED
  BY <1>1, <1>2, <1>3

\* The element that a search begins with is in order.
LEMMA FirstOK ==
  Sized /\ sent_length + 2 <= max_actions => ItemOK(FirstItem)
<1> SUFFICES ASSUME Sized, sent_length + 2 <= max_actions PROVE ItemOK(FirstItem)
  OBVIOUS
<1>1. PICK s \in Nat, L \in Nat, m \in Nat :
        s = stack_size /\ 0 < s /\ L = sent_length /\ m = max_actions /\ L + 2 <= m
  BY Lengths DEF Sized
<1>2. PICK item : item = FirstItem
  OBVIOUS
<1>3. PICK none : none = << >> /\ none \in Seq(Actions) /\ Len(none) = 0
  <2>1. PICK e : e = << >>
    OBVIOUS
  <2>2. e \in Seq(Actions) /\ Len(e) = 0
    BY <2>1
  <2> QED
    BY <2>1, <2>2
<1>4. /\ IsItem(item) /\ item.pointer = 0 /\ item.top_position = 0
      /\ item.nt_index = [i \in 0 .. s - 1 |-> 0] /\ item.nt_index_pos = -1
      /\ item.last_subword_begin_idx = 0 /\ item.nopen_parens = 0 /\ item.actions = none
  BY <1>1, <1>2, <1>3 DEF FirstItem, IsItem
<1>5. PlacesOK(item)
  <2>1. 0 \in 0 .. L /\ 0 \in 0 .. s - 1 /\ -1 + 1 = 0
    BY <1>1
  <2> QED
    BY <1>1, <1>3, <1>4, <2>1 DEF PlacesOK
<1>6. BracketsOK(item)
  <2>1. 0 .. -1 = {}
    OBVIOUS
  <2> QED
    BY <1>4, <2>1 DEF BracketsOK
<1>7. WordOK(item)
  BY <1>4 DEF WordOK, AfterSubword
<1>8. Spent(item) < max_actions
  <2>1. Len(item.actions) = 0 /\ ToRead(item) = L
    BY <1>1, <1>3, <1>4 DEF ToRead
  <2>2. Spent(item) = 0 + L + 0 + IF in_order THEN 1 ELSE 0
    BY <1>4, <2>1 DEF Spent
  <2> QED
    BY <1>1, <2>2
<1> QED
  BY <1>2, <1>5, <1>6, <1>7, <1>8 DEF ItemOK

\* An element is what it was while what is given stays.
LEMMA SameItem ==
  ASSUME UNCHANGED given, NEW item
  PROVE  (ItemOK(item)' <=> ItemOK(item)) /\ (ItemFits(item)' <=> ItemFits(item))
         /\ Allowed(item)' = Allowed(item)
<1>1. /\ in_order' = in_order /\ ends' = ends /\ stack_size' = stack_size /\ max_actions' = max_actions
      /\ sent_length' = sent_length /\ Actions' = Actions
  BY DEF given, sent_length, Actions
<1>2. /\ ToRead(item)' = ToRead(item) /\ Room(item)' = Room(item) /\ ActionsLeft(item)' = ActionsLeft(item)
      /\ Prev(item)' = Prev(item) /\ (PrevIsNt(item)' <=> PrevIsNt(item))
      /\ (AfterSubword(item)' <=> AfterSubword(item))
  BY <1>1 DEF ToRead, Room, ActionsLeft, Prev, PrevIsNt, AfterSubword
<1>3. (PlacesOK(item)' <=> PlacesOK(item)) /\ (BracketsOK(item)' <=> BracketsOK(item))
      /\ (WordOK(item)' <=> WordOK(item)) /\ Spent(item)' = Spent(item)
  BY <1>1, <1>2 DEF PlacesOK, IsItem, BracketsOK, WordOK, Spent
<1>4. TopDownAllowed(item)' = TopDownAllowed(item)
  BY <1>1, <1>2 DEF TopDownAllowed, MaxConsNts
<1>5. InOrderAllowed(item)' = InOrderAllowed(item)
  BY <1>1, <1>2 DEF InOrderAllowed, MaxConsNts
<1>6. Allowed(item)' = Allowed(item)
  BY <1>1, <1>4, <1>5 DEF Allowed
<1>7. ItemFits(item)' <=> ItemFits(item)
  BY <1>1 DEF ItemFits
<1>8. ItemOK(item)' <=> ItemOK(item)
  BY <1>1, <1>3 DEF ItemOK
<1> QED
  BY <1>6, <1>7, <1>8

-----------------------------------------------------------------------------
(* Parts of finite sets                                                    *)

\* A set of numbers has a least element, as a relation sees it.
LEMMA LeastBy ==
  ASSUME NEW R, IsWellFoundedOn(R, Nat), NEW T, T \subseteq Nat, T # {}
  PROVE  \E x \in T : \A y \in T : ~ (<<y, x>> \in R)
BY WFMin

\* A set of numbers has a least element.
LEMMA Least ==
  ASSUME NEW T, T \subseteq Nat, T # {}
  PROVE  \E x \in T : \A y \in T : x <= y
<1>1. PICK R : IsWellFoundedOn(R, Nat) /\ \A x, y \in Nat : <<x, y>> \in R <=> x < y
  <2>1. \A x, y \in Nat : <<x, y>> \in OpToRel(<, Nat) <=> x < y
    BY DEF OpToRel
  <2> QED
    BY <2>1, NatLessThanWellFounded
<1>2. \E x \in T : \A y \in T : ~ (<<y, x>> \in R)
  BY <1>1, LeastBy
<1>3. PICK x \in T : \A y \in T : ~ (<<y, x>> \in R)
  BY <1>2
<1>4. ASSUME NEW y \in T PROVE x <= y
  <2>1. x \in Nat /\ y \in Nat
    OBVIOUS
  <2>2. ~(y < x)
    BY <1>1, <1>3, <2>1
  <2> QED
    BY <2>1, <2>2
<1> QED
  BY <1>4

\* Finitely many numbers have a bound.
LEMMA Bounded ==
  ASSUME NEW S \in SUBSET Nat, IsFiniteSet(S)
  PROVE  \E n \in Nat : \A x \in S : x <= n
<1> DEFINE Free(T) == T \in SUBSET Nat /\ IsFiniteSet(T) /\ \A n \in Nat : \E x \in T : ~(x <= n)
           sizesOf == {k \in Nat : \E T \in SUBSET Nat : Free(T) /\ Cardinality(T) = k}
<1>1. SUFFICES ASSUME Free(S) PROVE FALSE
  OBVIOUS
<1>2. Cardinality(S) \in sizesOf
  BY <1>1, FS_CardinalityType
<1>3. PICK k \in sizesOf : \A j \in sizesOf : k <= j
  <2>1. sizesOf \subseteq Nat /\ sizesOf # {}
    BY <1>2
  <2> HIDE DEF sizesOf
  <2> QED
    BY <2>1, Least
<1>4. PICK T \in SUBSET Nat : Free(T) /\ Cardinality(T) = k
  OBVIOUS
<1>5. PICK x \in T : ~(x <= 0)
  BY <1>4
<1>6. PICK U : U = T \ {x}
  OBVIOUS
<1>7. U \in SUBSET Nat /\ IsFiniteSet(U) /\ Cardinality(U) = k - 1 /\ k - 1 \in Nat
  <2>1. IsFiniteSet(T \ {x}) /\ Cardinality(T \ {x}) = Cardinality(T) - 1
    BY <1>4, <1>5, FS_RemoveElement
  <2>2. Cardinality(U) \in Nat
    BY <1>6, <2>1, FS_CardinalityType
  <2> QED
    BY <1>4, <1>6, <2>1, <2>2
<1>8. ~Free(U)
  <2>1. k - 1 \notin sizesOf
    <3>1. SUFFICES ASSUME k - 1 \in sizesOf PROVE FALSE
      OBVIOUS
    <3>2. k <= k - 1
      BY <1>3, <3>1
    <3> QED
      BY <1>7, <3>2
  <2> QED
    BY <1>7, <2>1
<1>9. PICK n \in Nat : \A y \in U : y <= n
  BY <1>7, <1>8
<1>10. PICK b \in Nat : n <= b /\ x <= b
  <2>1. x \in Nat
    BY <1>4, <1>5
  <2>2. CASE n <= x
    BY <2>1, <2>2
  <2>3. CASE ~(n <= x)
    BY <2>1, <2>3
  <2> QED
    BY <2>2, <2>3
<1>11. \A y \in T : y <= b
  <2>1. ASSUME NEW y \in T PROVE y <= b
    <3>1. y \in Nat
      BY <1>4
    <3>2. y = x \/ y \in U
      BY <1>6
    <3> QED
      BY <1>9, <1>10, <3>1, <3>2
  <2> QED
    BY <2>1
<1> QED
  BY <1>4, <1>10, <1>11

\* Finitely many numbers have a greatest one.
LEMMA Greatest ==
  ASSUME NEW S \in SUBSET Nat, IsFiniteSet(S), S # {}
  PROVE  \E x \in S : \A y \in S : y <= x
<1> DEFINE bounds == {n \in Nat : \A x \in S : x <= n}
<1>1. PICK b \in bounds : \A n \in bounds : b <= n
  <2>1. bounds \subseteq Nat /\ bounds # {}
    BY Bounded
  <2> HIDE DEF bounds
  <2> QED
    BY <2>1, Least
<1>2. b \in Nat /\ \A x \in S : x <= b
  OBVIOUS
<1>3. ASSUME b \notin S PROVE FALSE
  <2>1. ASSUME NEW x \in S PROVE x < b /\ x \in Nat
    BY <1>2, <1>3
  <2>2. PICK x \in S : TRUE
    OBVIOUS
  <2>3. b > 0 /\ b - 1 \in Nat
    BY <1>2, <2>1, <2>2
  <2>4. b - 1 \in bounds
    <3>1. ASSUME NEW y \in S PROVE y <= b - 1
      BY <1>2, <2>1
    <3> QED
      BY <2>3, <3>1
  <2>5. b <= b - 1
    BY <1>1, <2>4
  <2> QED
    BY <1>2, <2>5
<1> QED
  BY <1>2, <1>3

\* The image of a finite set is finite, and no larger.
LEMMA ImageIs ==
  ASSUME NEW S, IsFiniteSet(S), NEW f, NEW T, T = {f[x] : x \in S}
  PROVE  IsFiniteSet(T) /\ Cardinality(T) <= Cardinality(S)
<1>1. PICK g : g = [x \in S |-> f[x]]
  OBVIOUS
<1>2. g \in Surjection(S, T)
  BY <1>1 DEF Surjection
<1> QED
  BY <1>2, FS_Surjection

\* There is a score at which the n best elements end.
LEMMA CutExists ==
  ASSUME NEW S, IsFiniteSet(S), \A e \in S : e.bits \in Nat, NEW n \in Nat, 0 < n, n < Cardinality(S)
  PROVE  \E c \in {e.bits : e \in S} :
           /\ Cardinality({e \in S : e.bits < c}) < n
           /\ Cardinality({e \in S : e.bits <= c}) >= n
<1>1. PICK B : B = {e.bits : e \in S}
  OBVIOUS
<1>2. B \in SUBSET Nat /\ IsFiniteSet(B)
  <2>1. PICK f : f = [e \in S |-> e.bits]
    OBVIOUS
  <2>2. B = {f[e] : e \in S}
    BY <1>1, <2>1
  <2>3. IsFiniteSet(B)
    BY <2>2, ImageIs
  <2>4. ASSUME NEW x \in B PROVE x \in Nat
    <3>1. PICK e \in S : x = e.bits
      BY <1>1
    <3> QED
      BY <3>1
  <2> QED
    BY <2>3, <2>4
<1> DEFINE upto(c) == {e \in S : e.bits <= c}
           below(c) == {e \in S : e.bits < c}
           enough == {c \in B : Cardinality(upto(c)) >= n}
<1>3. \A c \in B : upto(c) \subseteq S /\ below(c) \subseteq S
  OBVIOUS
<1>4. ASSUME NEW T, T \subseteq S PROVE IsFiniteSet(T) /\ Cardinality(T) \in Nat
  BY <1>4, FS_Subset, FS_CardinalityType
<1>5. enough # {}
  <2>1. B # {}
    <3>1. S # {}
      BY FS_EmptySet
    <3> QED
      BY <1>1, <3>1
  <2>2. PICK c \in B : \A d \in B : d <= c
    BY <1>2, <2>1, Greatest
  <2>3. upto(c) = S
    BY <1>1, <2>2
  <2>4. Cardinality(S) \in Nat
    BY <1>4
  <2> QED
    BY <2>3, <2>4
<1>6. PICK c \in enough : \A d \in enough : c <= d
  <2>1. enough \subseteq Nat
    BY <1>2
  <2> HIDE DEF enough
  <2> QED
    BY <1>5, <2>1, Least
<1>7. c \in B /\ Cardinality(upto(c)) >= n /\ c \in Nat
  BY <1>2
<1>8. Cardinality(below(c)) < n
  <2>1. CASE below(c) = {}
    <3>1. Cardinality(below(c)) = 0
      BY <2>1, FS_EmptySet
    <3> QED
      BY <3>1
  <2>2. CASE below(c) # {}
    <3>1. PICK D : D = {e.bits : e \in below(c)}
      OBVIOUS
    <3>2. D \in SUBSET B /\ D # {}
      BY <1>1, <2>2, <3>1
    <3>3. IsFiniteSet(D) /\ D \in SUBSET Nat
      BY <1>2, <3>2, FS_Subset
    <3>4. PICK d \in D : \A x \in D : x <= d
      BY <3>2, <3>3, Greatest
    <3>5. d \in B /\ d < c /\ d \in Nat
      BY <1>7, <3>1, <3>2, <3>3
    <3>6. below(c) = upto(d)
      <4>1. ASSUME NEW e \in S PROVE e.bits < c <=> e.bits <= d
        <5>1. e.bits \in Nat
          OBVIOUS
        <5>2. ASSUME e.bits < c PROVE e.bits <= d
          BY <3>1, <3>4, <5>2
        <5>3. ASSUME e.bits <= d PROVE e.bits < c
          BY <1>7, <3>5, <5>1, <5>3
        <5> QED
          BY <5>2, <5>3
      <4> QED
        BY <4>1
    <3>7. ~(Cardinality(upto(d)) >= n)
      <4>1. d \notin enough
        <5>1. ASSUME d \in enough PROVE FALSE
          <6>1. c <= d
            BY <1>6, <5>1
          <6> QED
            BY <1>7, <3>5, <6>1
        <5> QED
          BY <5>1
      <4> QED
        BY <3>5, <4>1
    <3>8. Cardinality(upto(d)) \in Nat
      BY <1>4
    <3> HIDE DEF upto, below
    <3>9. PICK k : k = Cardinality(upto(d))
      OBVIOUS
    <3>10. k \in Nat /\ ~(k >= n)
      BY <3>7, <3>8, <3>9
    <3>11. Cardinality(below(c)) = k
      BY <3>6, <3>9
    <3> QED
      BY <3>10, <3>11
  <2> QED
    BY <2>1, <2>2
<1> QED
  BY <1>1, <1>7, <1>8

\* topk leaves no more than n elements.
LEMMA BestFits ==
  ASSUME NEW S, IsFiniteSet(S), \A e \in S : e.bits \in Nat, NEW n \in Nat, NEW T \in Best(n, S)
  PROVE  T \subseteq S /\ IsFiniteSet(T) /\ Cardinality(T) <= n
<1>1. Cardinality(S) \in Nat
  BY FS_CardinalityType
<1>2. CASE Cardinality(S) <= n
  BY <1>2 DEF Best
<1>3. CASE ~(Cardinality(S) <= n) /\ n = 0
  <2>1. T = {}
    BY <1>3 DEF Best
  <2> QED
    BY <2>1, FS_EmptySet
<1>4. CASE ~(Cardinality(S) <= n) /\ n # 0
  <2> DEFINE P(c) == /\ Cardinality({e \in S : e.bits < c}) < n
                     /\ Cardinality({e \in S : e.bits <= c}) >= n
             cut == CHOOSE c \in {e.bits : e \in S} : P(c)
             sure == {e \in S : e.bits < cut}
  <2>1. \E c \in {e.bits : e \in S} : P(c)
    <3>1. 0 < n /\ n < Cardinality(S)
      BY <1>1, <1>4
    <3>2. \E c \in {e.bits : e \in S} :
            /\ Cardinality({e \in S : e.bits < c}) < n
            /\ Cardinality({e \in S : e.bits <= c}) >= n
      BY <3>1, CutExists
    <3> QED
      BY <3>2
  <2>2. P(cut)
    <3> HIDE DEF P
    <3> QED
      BY <2>1
  <2>3. PICK A : A = sure /\ A \subseteq S /\ Cardinality(A) < n
    BY <2>2
  <2>4. T \in {sure \cup more : more \in kSubset(n - Cardinality(sure), {e \in S : e.bits = cut})}
    BY <1>4 DEF Best
  <2>5. PICK E : E = {e \in S : e.bits = cut} /\ E \subseteq S
    OBVIOUS
  <2> HIDE DEF sure, cut
  <2>6. PICK more \in kSubset(n - Cardinality(A), E) : T = A \cup more
    BY <2>3, <2>4, <2>5
  <2>7. more \subseteq E /\ Cardinality(more) = n - Cardinality(A)
    BY <2>6 DEF kSubset
  <2>8. IsFiniteSet(A) /\ IsFiniteSet(more)
    BY <2>3, <2>5, <2>7, FS_Subset
  <2>9. PICK a \in Nat, m \in Nat, i \in Nat :
          a = Cardinality(A) /\ m = Cardinality(more) /\ i = Cardinality(A \cap more)
    BY <2>8, FS_CardinalityType, FS_Intersection
  <2>10. IsFiniteSet(T) /\ Cardinality(T) = a + m - i
    BY <2>6, <2>8, <2>9, FS_Union
  <2> QED
    BY <2>3, <2>5, <2>6, <2>7, <2>9, <2>10
<1> QED
  BY <1>2, <1>3, <1>4

\* Nor are there more than n in n rows.
LEMMA FittingFits ==
  ASSUME NEW S, IsFiniteSet(S), NEW n \in Nat, NEW T \in Fitting(n, S)
  PROVE  T \subseteq S /\ IsFiniteSet(T) /\ Cardinality(T) <= n
<1>1. CASE Cardinality(S) <= n
  BY <1>1 DEF Fitting
<1>2. CASE ~(Cardinality(S) <= n)
  <2>1. T \in SUBSET S /\ Cardinality(T) = n
    BY <1>2 DEF Fitting, kSubset
  <2> QED
    BY <2>1, FS_Subset
<1> QED
  BY <1>1, <1>2

-----------------------------------------------------------------------------
(* The beams                                                               *)

\* An element of a beam.
Element(e) == e = [item |-> e.item, bits |-> e.bits, K |-> e.K] /\ e.bits \in Nat /\ ItemOK(e.item)

\* What is given with a search stays: a sentence, with room for it, and sizes.
Given ==
  /\ Sized /\ sent_length + 2 <= max_actions /\ stack_size_bound \in Int
  /\ sizes \in [beam : Nat \ {0}, word_beam : Nat, shift : Nat, particles : Nat]

\* The beams are no larger than their rows; those of a search without particles
\* are the ones that it began with.
BeamsHaveRows ==
  /\ rows \in [beam : Nat, completed : Nat]
  /\ ~WithParticles => rows.beam = sizes.beam
  /\ IsFiniteSet(beam) /\ Cardinality(beam) <= rows.beam
  /\ IsFiniteSet(word_completed) /\ Cardinality(word_completed) <= rows.completed

\* All elements have read the same tokens; those that wait can end the word.
ElementsAreInStep ==
  /\ \A e \in beam : Element(e) /\ e.item.pointer = pointer
  /\ \A e \in word_completed :
       Element(e) /\ e.item.pointer = pointer /\ EndAction \in Allowed(e.item)
  /\ \A e \in parses : ItemFits(e.item)

\* The inductive invariant.
BeamInv == Given /\ pointer \in Nat /\ BeamsHaveRows /\ ElementsAreInStep

\* A size rounded up to units is a size.
LEMMA CeilIs ==
  ASSUME NEW n \in Nat \ {0}
  PROVE  Ceil(n) \in Nat \ {0}
<1>1. PICK U \in Nat \ {0} : U = Unit
  BY UnitAssumption
<1>2. PICK m \in Nat : m = n + U - 1 /\ m >= U
  BY <1>1
<1>3. PICK q \in Int : q = m \div U
  BY <1>1, <1>2
<1>4. q >= 1
  BY <1>1, <1>2, <1>3
<1>5. q * U \in Nat \ {0}
  BY <1>1, <1>3, <1>4
<1> QED
  BY <1>1, <1>2, <1>3, <1>5 DEF Ceil

\* build_beam_items makes a stack with places, with a bound and without.
LEMMA StackHasPlaces ==
  ASSUME NEW L \in Nat, NEW b \in Int
  PROVE  StackSizeFor(L, b) \in Nat \ {0}
<1>1. PICK n : n = IF b <= 0 THEN Larger(MinSize, L + 10) ELSE Smaller(L + 20, b)
  OBVIOUS
<1>2. n \in Nat \ {0}
  BY <1>1, UnitAssumption DEF Larger, Smaller
<1> QED
  BY <1>1, <1>2, CeilIs DEF StackSizeFor

\* It makes a path that holds all tokens, a bracket and its end.
LEMMA PathHasPlaces ==
  ASSUME NEW L \in Nat \ {0}
  PROVE  MaxActionsFor(L) \in Nat /\ L + 2 <= MaxActionsFor(L)
BY UnitAssumption DEF MaxActionsFor, Larger

\* The actions are finitely many.
LEMMA ActionsFinite ==
  ASSUME in_order \in BOOLEAN
  PROVE  IsFiniteSet(Actions) /\ \A item : IsFiniteSet(Allowed(item))
<1>1. IsFiniteSet({"SHIFT", "REDUCE"}) /\ IsFiniteSet(IF in_order THEN {"FINISH"} ELSE {})
  <2>1. IsFiniteSet({"SHIFT"}) /\ IsFiniteSet({"FINISH"}) /\ IsFiniteSet({})
    BY FS_EmptySet, FS_Singleton
  <2>2. {"SHIFT", "REDUCE"} = {"SHIFT"} \cup {"REDUCE"}
    OBVIOUS
  <2>3. IsFiniteSet({"SHIFT"} \cup {"REDUCE"})
    BY <2>1, FS_AddElement
  <2> QED
    BY <2>1, <2>2, <2>3
<1>2. IsFiniteSet(Actions)
  <2>1. IsFiniteSet(Labels \cup {"SHIFT", "REDUCE"})
    BY <1>1, LabelsAssumption, FS_Union
  <2> QED
    BY <1>1, <2>1, FS_Union DEF Actions
<1>3. ASSUME NEW item PROVE IsFiniteSet(Allowed(item))
  <2>1. Allowed(item) \subseteq Actions
    BY AllowedAre
  <2> QED
    BY <1>2, <2>1, FS_Subset
<1> QED
  BY <1>2, <1>3

\* A score is a number.
LEMMA ScoreIs ==
  ASSUME in_order \in BOOLEAN, NEW e, e.bits \in Nat, NEW a \in Allowed(e.item)
  PROVE  Score(e, a) \in Nat
<1>1. PICK A : A = Allowed(e.item) /\ IsFiniteSet(A)
  BY ActionsFinite
<1>2. Rank(e.item, a) \in Nat
  <2>1. PICK list : list = prefer[1 + (Len(e.item.actions) % 2)]
    OBVIOUS
  <2> DEFINE place(b) == CHOOSE i \in DOMAIN list : list[i] = b
  <2>2. PICK B : B = {b \in A : place(b) < place(a)}
    OBVIOUS
  <2>3. Rank(e.item, a) = Cardinality(B)
    BY <1>1, <2>1, <2>2 DEF Rank
  <2>4. IsFiniteSet(B)
    BY <1>1, <2>2, FS_Subset
  <2> QED
    BY <2>3, <2>4, FS_CardinalityType
<1>3. Cardinality(A) \in Nat \ {0}
  <2>1. A # {}
    BY <1>1
  <2> QED
    BY <1>1, <2>1, FS_CardinalityType, FS_EmptySet
<1>4. Bits(e.item, a) \in Nat
  BY <1>1, <1>2, <1>3 DEF Bits
<1>5. WordBits(a) \in Nat
  BY DEF WordBits
<1> QED
  BY <1>4, <1>5 DEF Score

\* What get_successors makes.
SuccessorOf(e, a) ==
  [item |-> e.item, action |-> a, bits |-> Score(e, a), K |-> Rounded(e.K, 2 ^ Bits(e.item, a))]

\* get_successors makes finitely many successors, of elements in order, by
\* actions that the mask leaves.
LEMMA SuccessorsAre ==
  ASSUME in_order \in BOOLEAN, IsFiniteSet(beam), \A e \in beam : Element(e) /\ e.item.pointer = pointer
  PROVE  /\ IsFiniteSet(Successors)
         /\ \A s \in Successors :
              /\ s.bits \in Nat /\ ItemOK(s.item) /\ s.item.pointer = pointer
              /\ s.action \in Allowed(s.item)
<1>1. PICK f : f = [e \in beam |-> {SuccessorOf(e, a) : a \in Allowed(e.item)}]
  OBVIOUS
<1>2. PICK F : F = {f[e] : e \in beam}
  OBVIOUS
<1>3. Successors = UNION F
  BY <1>1, <1>2 DEF Successors, SuccessorOf
<1>4. IsFiniteSet(F)
  BY <1>2, ImageIs
<1>5. ASSUME NEW T \in F PROVE IsFiniteSet(T)
  <2>1. PICK e \in beam : T = {SuccessorOf(e, a) : a \in Allowed(e.item)}
    BY <1>1, <1>2
  <2>2. PICK A : A = Allowed(e.item) /\ IsFiniteSet(A)
    BY ActionsFinite
  <2>3. PICK g : g = [a \in A |-> SuccessorOf(e, a)]
    OBVIOUS
  <2>4. T = {g[a] : a \in A}
    BY <2>1, <2>2, <2>3
  <2> QED
    BY <2>2, <2>4, ImageIs
<1>6. IsFiniteSet(Successors)
  BY <1>3, <1>4, <1>5, FS_UNION
<1>7. ASSUME NEW s \in Successors
      PROVE  /\ s.bits \in Nat /\ ItemOK(s.item) /\ s.item.pointer = pointer
             /\ s.action \in Allowed(s.item)
  <2>1. PICK e \in beam : s \in {SuccessorOf(e, a) : a \in Allowed(e.item)}
    BY <1>1, <1>2, <1>3
  <2>2. PICK a \in Allowed(e.item) : s = SuccessorOf(e, a)
    BY <2>1
  <2>3. s.item = e.item /\ s.action = a /\ s.bits = Score(e, a)
    BY <2>2 DEF SuccessorOf
  <2>4. Score(e, a) \in Nat
    BY ScoreIs DEF Element
  <2> QED
    BY <2>3, <2>4 DEF Element
<1> QED
  BY <1>6, <1>7

-----------------------------------------------------------------------------
(* Elements move                                                           *)

\* SHIFT reads a token, the other actions do not.
LEMMA PointerMoves ==
  ASSUME Sized, NEW item, ItemOK(item), NEW a \in Allowed(item)
  PROVE  /\ a = "SHIFT" => Do(item, a).pointer = item.pointer + 1
         /\ a # "SHIFT" => Do(item, a).pointer = item.pointer
<1>1. IsItem(item)
  BY DEF ItemOK, PlacesOK
<1>2. PICK p : p = Cell(item, a)
  OBVIOUS
<1>3. IsItem(p) /\ (a = "SHIFT" => p.pointer = item.pointer + 1) /\ (a # "SHIFT" => p.pointer = item.pointer)
  <2>1. CASE a = "SHIFT"
    <3>1. p = DoShift(item)
      BY <1>2, <2>1 DEF Cell
    <3> QED
      BY <1>1, <2>1, <3>1, ShiftIs
  <2>2. CASE a = "REDUCE"
    <3>1. p = DoReduce(item)
      BY <1>2, <2>2, ActionNames DEF Cell
    <3> QED
      BY <1>1, <2>2, <3>1, ReduceIs, ActionNames
  <2>3. CASE a \in Labels
    <3>1. p = DoNt(item, a)
      BY <1>2, <2>3, ActionNames DEF Cell
    <3>2. PICK at : at = [item.nt_index EXCEPT ![item.nt_index_pos + 1] = BracketAt(item)]
      OBVIOUS
    <3>3. IsItem(p) /\ p.pointer = item.pointer
      BY <1>1, <3>1, <3>2, NtIs
    <3> QED
      BY <2>3, <3>3, ActionNames
  <2>4. CASE a = "FINISH"
    <3>1. p = item
      BY <1>2, <2>4, ActionNames DEF Cell
    <3> QED
      BY <1>1, <2>4, <3>1, ActionNames
  <2> QED
    BY <2>1, <2>2, <2>3, <2>4, AllowedAre
<1>4. Do(item, a).pointer = p.pointer
  BY <1>2, <1>3, DoIs
<1> QED
  BY <1>3, <1>4

\* What is given stays what it is.
LEMMA SizedStays ==
  ASSUME Given, UNCHANGED <<given, sizes, stack_size_bound>>
  PROVE  Given'
<1>1. /\ in_order' = in_order /\ ends' = ends /\ stack_size' = stack_size /\ max_actions' = max_actions
      /\ sent_length' = sent_length /\ sizes' = sizes /\ stack_size_bound' = stack_size_bound
  BY DEF given, sent_length
<1>2. Sized'
  BY <1>1 DEF Given, Sized
<1> QED
  BY <1>1, <1>2 DEF Given

\* The elements that can end a word go on to the next, or are parses.
LEMMA GoOnKeeps ==
  ASSUME BeamInv, pointer <= sent_length, NEW kept, IsFiniteSet(kept), GoOnWith(kept),
         \A e \in kept : Element(e) /\ e.item.pointer = pointer /\ EndAction \in Allowed(e.item),
         rows' \in [beam : Nat, completed : Nat], ~WithParticles => rows'.beam = sizes.beam,
         Cardinality(kept) <= rows'.beam
  PROVE  BeamInv'
<1>1. PICK f : f = [e \in kept |-> [e EXCEPT !.item = Do(@, EndAction)]]
  OBVIOUS
<1>2. PICK next : next = {f[e] : e \in kept}
  OBVIOUS
<1>3. /\ pointer = sent_length => parses' = next /\ beam' = {}
      /\ pointer # sent_length => parses' = parses /\ beam' = next
      /\ word_completed' = {} /\ pointer' = pointer + 1
      /\ UNCHANGED given /\ sizes' = sizes /\ stack_size_bound' = stack_size_bound
  <2>1. next = {[e EXCEPT !.item = Do(@, EndAction)] : e \in kept}
    BY <1>1, <1>2
  <2> QED
    BY <2>1 DEF GoOnWith
<1>4. Sized /\ Given /\ pointer \in Nat /\ sent_length \in Nat
  BY Lengths DEF BeamInv, Given
<1>5. Given'
  BY <1>3, <1>4, SizedStays
<1>6. ASSUME NEW n \in next
      PROVE  /\ ItemFits(n.item)
             /\ pointer # sent_length => Element(n) /\ n.item.pointer = pointer + 1
  <2>1. PICK e \in kept : n = [e EXCEPT !.item = Do(@, EndAction)]
    BY <1>1, <1>2
  <2>2. PICK a : a = EndAction /\ a \in Allowed(e.item)
    OBVIOUS
  <2>3. Element(e) /\ e.item.pointer = pointer
    OBVIOUS
  <2>4. PICK q : q = Do(e.item, a)
    OBVIOUS
  <2>5. n = [item |-> q, bits |-> e.bits, K |-> e.K]
    BY <2>1, <2>2, <2>3, <2>4 DEF Element
  <2>6. ItemFits(q) /\ (a # "FINISH" => ItemOK(q))
    BY <1>4, <2>2, <2>3, <2>4, DoKeeps DEF Element
  <2>7. ASSUME pointer # sent_length PROVE Element(n) /\ n.item.pointer = pointer + 1
    <3>1. a = "SHIFT"
      BY <1>4, <2>2, <2>7 DEF EndAction
    <3>2. q.pointer = pointer + 1
      BY <1>4, <2>2, <2>3, <2>4, <3>1, PointerMoves DEF Element
    <3> QED
      BY <2>3, <2>5, <2>6, <3>1, <3>2, ActionNames DEF Element
  <2> QED
    BY <2>5, <2>6, <2>7
<1>7. IsFiniteSet(next) /\ Cardinality(next) <= Cardinality(kept)
  BY <1>2, ImageIs
<1>8. Cardinality(next) \in Nat /\ Cardinality(kept) \in Nat
  BY <1>7, FS_CardinalityType
<1>9. IsFiniteSet({}) /\ Cardinality({}) = 0
  BY FS_EmptySet
<1>10. BeamsHaveRows'
  <2>1. IsFiniteSet(beam') /\ Cardinality(beam') <= rows'.beam
    <3>1. PICK r \in Nat : r = rows'.beam
      OBVIOUS
    <3>2. Cardinality(next) <= r
      BY <1>7, <1>8, <3>1
    <3>3. CASE pointer = sent_length
      BY <1>3, <1>9, <3>1, <3>3
    <3>4. CASE pointer # sent_length
      BY <1>3, <1>7, <3>1, <3>2, <3>4
    <3> QED
      BY <3>3, <3>4
  <2>2. IsFiniteSet(word_completed') /\ Cardinality(word_completed') <= rows'.completed
    BY <1>3, <1>9
  <2>3. ~WithParticles' => rows'.beam = sizes'.beam
    BY <1>3 DEF WithParticles
  <2> QED
    BY <2>1, <2>2, <2>3 DEF BeamsHaveRows
<1>11. ElementsAreInStep'
  <2>1. ASSUME NEW item PROVE (ItemOK(item)' <=> ItemOK(item)) /\ (ItemFits(item)' <=> ItemFits(item))
    BY <1>3, SameItem
  <2>2. ASSUME NEW e \in beam' PROVE Element(e)' /\ e.item.pointer = pointer'
    <3>1. pointer # sent_length /\ e \in next
      BY <1>3
    <3>2. Element(e) /\ e.item.pointer = pointer + 1
      BY <1>6, <3>1
    <3> QED
      BY <1>3, <2>1, <3>2 DEF Element
  <2>3. ASSUME NEW e \in parses' PROVE ItemFits(e.item)'
    <3>1. ItemFits(e.item)
      BY <1>3, <1>6 DEF BeamInv, ElementsAreInStep
    <3> QED
      BY <2>1, <3>1
  <2>4. word_completed' = {}
    BY <1>3
  <2> QED
    BY <2>2, <2>3, <2>4 DEF ElementsAreInStep
<1> QED
  BY <1>3, <1>4, <1>5, <1>10, <1>11 DEF BeamInv

\* What stays in the beam is neither shifted nor finished.
LEMMA StayingActs ==
  ASSUME Sized, NEW s, ItemOK(s.item), s.item.pointer = pointer, s.action \in Allowed(s.item), StaysInBeam(s)
  PROVE  s.action # "SHIFT" /\ s.action # "FINISH"
<1>1. PlacesOK(s.item) /\ ~EndsWord(s) /\ sent_length \in Nat /\ pointer \in Nat
  BY Lengths, RoomIs DEF ItemOK, StaysInBeam
<1>2. ASSUME s.action = "SHIFT" PROVE FALSE
  <2>1. ToRead(s.item) > 0
    BY <1>1, <1>2, AllowedShift
  <2>2. pointer < sent_length
    BY <1>1, <2>1 DEF ToRead
  <2> QED
    BY <1>1, <1>2, <2>2 DEF EndsWord
<1>3. ASSUME s.action = "FINISH" PROVE FALSE
  <2>1. in_order
    BY <1>3, AllowedAre, ActionNames
  <2>2. "FINISH" \in InOrderAllowed(s.item)
    BY <1>3, <2>1 DEF Allowed
  <2>3. ToRead(s.item) = 0
    BY <2>2, ActionNames DEF InOrderAllowed
  <2>4. ~(pointer < sent_length)
    BY <1>1, <2>3 DEF ToRead
  <2> QED
    BY <1>1, <1>3, <2>1, <2>4 DEF EndsWord, FinishAction
<1> QED
  BY <1>2, <1>3

\* Elements that a step moves and those that it takes on.
LEMMA StepKeeps ==
  ASSUME BeamInv, pointer <= sent_length,
         UNCHANGED <<given, sizes, stack_size_bound, pointer, parses>>,
         rows' \in [beam : Nat, completed : Nat], ~WithParticles => rows'.beam = sizes.beam,
         NEW moved, moved \subseteq {s \in Successors : EndsWord(s)},
         IsFiniteSet(moved), Cardinality(moved) <= rows'.completed - Cardinality(word_completed),
         word_completed' = word_completed \cup {Moved(s) : s \in moved},
         NEW staying, staying \subseteq {s \in Successors : StaysInBeam(s)},
         IsFiniteSet(staying), Cardinality(staying) <= rows'.beam,
         beam' = {AfterAction(s) : s \in staying}
  PROVE  BeamInv'
<1>1. /\ Sized /\ Given /\ pointer \in Nat /\ sent_length \in Nat /\ in_order \in BOOLEAN
      /\ IsFiniteSet(beam) /\ IsFiniteSet(word_completed)
      /\ \A e \in beam : Element(e) /\ e.item.pointer = pointer
  BY Lengths DEF BeamInv, Given, Sized, BeamsHaveRows, ElementsAreInStep
<1>2. Given'
  BY <1>1, SizedStays
<1>3. \A s \in Successors :
        /\ s.bits \in Nat /\ ItemOK(s.item) /\ s.item.pointer = pointer
        /\ s.action \in Allowed(s.item)
  BY <1>1, SuccessorsAre
<1>4. ASSUME NEW item
      PROVE  (ItemOK(item)' <=> ItemOK(item)) /\ (ItemFits(item)' <=> ItemFits(item))
             /\ Allowed(item)' = Allowed(item)
  BY SameItem
<1>5. EndAction' = EndAction /\ EndAction = IF pointer < sent_length THEN "SHIFT" ELSE FinishAction
  BY DEF EndAction, FinishAction, given, sent_length
<1>6. ASSUME NEW s \in moved
      PROVE  Element(Moved(s)) /\ Moved(s).item.pointer = pointer /\ EndAction \in Allowed(Moved(s).item)
  <2>1. s \in Successors /\ EndsWord(s)
    OBVIOUS
  <2>2. s.action = EndAction
    BY <1>5, <2>1 DEF EndsWord
  <2> QED
    BY <1>3, <2>1, <2>2 DEF Moved, Element
<1>7. ASSUME NEW s \in staying
      PROVE  Element(AfterAction(s)) /\ AfterAction(s).item.pointer = pointer
  <2>1. s \in Successors
    OBVIOUS
  <2>2. s.bits \in Nat /\ ItemOK(s.item) /\ s.item.pointer = pointer /\ s.action \in Allowed(s.item)
    BY <1>3, <2>1
  <2>3. StaysInBeam(s)
    OBVIOUS
  <2>4. s.action # "SHIFT" /\ s.action # "FINISH"
    BY <1>1, <2>2, <2>3, StayingActs
  <2>6. PICK q : q = Do(s.item, s.action)
    OBVIOUS
  <2>7. ItemOK(q)
    BY <1>1, <2>2, <2>4, <2>6, DoKeeps
  <2>8. q.pointer = pointer
    BY <1>1, <2>2, <2>4, <2>6, PointerMoves
  <2> QED
    BY <2>2, <2>6, <2>7, <2>8 DEF AfterAction, Element
<1>8. PICK M : M = {Moved(s) : s \in moved} /\ IsFiniteSet(M) /\ Cardinality(M) <= Cardinality(moved)
  <2>1. PICK f : f = [s \in moved |-> Moved(s)]
    OBVIOUS
  <2>2. {Moved(s) : s \in moved} = {f[s] : s \in moved}
    BY <2>1
  <2> QED
    BY <2>2, ImageIs
<1>9. IsFiniteSet(beam') /\ Cardinality(beam') <= Cardinality(staying)
  <2>1. PICK f : f = [s \in staying |-> AfterAction(s)]
    OBVIOUS
  <2>2. beam' = {f[s] : s \in staying}
    BY <2>1
  <2> QED
    BY <2>2, ImageIs
<1>10. BeamsHaveRows'
  <2>1. Cardinality(beam') <= rows'.beam
    <3>1. PICK b \in Nat, c \in Nat, r \in Nat :
            b = Cardinality(beam') /\ c = Cardinality(staying) /\ r = rows'.beam
      BY <1>9, FS_CardinalityType
    <3> QED
      BY <1>9, <3>1
  <2>2. IsFiniteSet(word_completed') /\ Cardinality(word_completed') <= rows'.completed
    <3>1. PICK w \in Nat, m \in Nat, i \in Nat, k \in Nat, r \in Nat :
            /\ w = Cardinality(word_completed) /\ m = Cardinality(M) /\ i = Cardinality(word_completed \cap M)
            /\ k = Cardinality(moved) /\ r = rows'.completed
      BY <1>1, <1>8, FS_CardinalityType, FS_Intersection
    <3>2. IsFiniteSet(word_completed') /\ Cardinality(word_completed') = w + m - i
      BY <1>1, <1>8, <3>1, FS_Union
    <3>3. m <= k /\ k <= r - w
      BY <1>8, <3>1
    <3>4. w + m - i <= r
      BY <3>3
    <3> QED
      BY <3>1, <3>2, <3>4
  <2>3. ~WithParticles' => rows'.beam = sizes'.beam
    BY DEF WithParticles
  <2> QED
    BY <1>9, <2>1, <2>2, <2>3 DEF BeamsHaveRows
<1>11. ElementsAreInStep'
  <2>1. ASSUME NEW e \in beam' PROVE Element(e)' /\ e.item.pointer = pointer'
    <3>1. Element(e) /\ e.item.pointer = pointer
      BY <1>7
    <3> QED
      BY <1>4, <3>1 DEF Element
  <2>2. ASSUME NEW e \in word_completed'
        PROVE  Element(e)' /\ e.item.pointer = pointer' /\ EndAction' \in Allowed(e.item)'
    <3>1. Element(e) /\ e.item.pointer = pointer /\ EndAction \in Allowed(e.item)
      BY <1>6 DEF BeamInv, ElementsAreInStep
    <3>2. Allowed(e.item)' = Allowed(e.item) /\ (ItemOK(e.item)' <=> ItemOK(e.item))
      BY <1>4
    <3>3. Element(e)'
      BY <3>1, <3>2 DEF Element
    <3> QED
      BY <1>5, <3>1, <3>2, <3>3
  <2>3. ASSUME NEW e \in parses' PROVE ItemFits(e.item)'
    <3>1. ItemFits(e.item)
      BY DEF BeamInv, ElementsAreInStep
    <3> QED
      BY <1>4, <3>1
  <2> QED
    BY <2>1, <2>2, <2>3 DEF ElementsAreInStep
<1> QED
  BY <1>1, <1>2, <1>10, <1>11 DEF BeamInv

-----------------------------------------------------------------------------
(* The actions of the search                                               *)

\* A beam of one element, the first, fits.
LEMMA FirstBeam ==
  ASSUME Given, sizes.beam \in Nat \ {0}, NEW first, first.item = FirstItem,
         first = [item |-> first.item, bits |-> 0, K |-> sizes.particles]
  PROVE  Element(first) /\ IsFiniteSet({first}) /\ Cardinality({first}) <= sizes.beam
<1>1. ItemOK(FirstItem)
  BY FirstOK DEF Given
<1>2. first.bits = 0
  OBVIOUS
<1>3. IsFiniteSet({first}) /\ Cardinality({first}) = 1
  BY FS_Singleton
<1> QED
  BY <1>1, <1>2, <1>3 DEF Element

\* The word-completed beam has a number of rows.
LEMMA CompletedSizeIs ==
  ASSUME sizes \in [beam : Nat \ {0}, word_beam : Nat, shift : Nat, particles : Nat]
  PROVE  CompletedSize \in Nat
BY DEF CompletedSize, Smaller

\* A search begins as it goes on.
LEMMA Start ==
  Init => BeamInv
<1> SUFFICES ASSUME Init PROVE BeamInv
  OBVIOUS
<1>1. PICK c \in Cases :
        in_order = c.in_order /\ ends = c.ends /\ sizes = c.sizes /\ stack_size_bound = c.bound
  BY DEF Init
<1>2. /\ in_order \in BOOLEAN /\ stack_size_bound \in Int /\ ends \in Seq(BOOLEAN) \ {<< >>}
      /\ sizes \in [beam : Nat \ {0}, word_beam : Nat, shift : Nat, particles : Nat]
  BY <1>1, CasesAssumption
<1>3. sent_length \in Nat \ {0}
  BY <1>2 DEF sent_length
<1>4. stack_size \in Nat \ {0} /\ max_actions \in Nat /\ sent_length + 2 <= max_actions
  BY <1>2, <1>3, StackHasPlaces, PathHasPlaces DEF Init
<1>5. Given
  BY <1>2, <1>4 DEF Given, Sized
<1>6. PICK first : first = [item |-> FirstItem, bits |-> 0, K |-> sizes.particles]
  OBVIOUS
<1>7. /\ pointer = 0 /\ beam = {first} /\ rows = [beam |-> sizes.beam, completed |-> CompletedSize]
      /\ word_completed = {} /\ parses = {}
  BY <1>6 DEF Init, Begun
<1>8. Element(first) /\ IsFiniteSet({first}) /\ Cardinality({first}) <= sizes.beam
  BY <1>2, <1>5, <1>6, FirstBeam
<1>9. first.item.pointer = 0
  BY <1>6 DEF FirstItem
<1>10. BeamsHaveRows
  <2>1. CompletedSize \in Nat
    BY <1>2, CompletedSizeIs
  <2>2. IsFiniteSet({}) /\ Cardinality({}) = 0
    BY FS_EmptySet
  <2> QED
    BY <1>2, <1>7, <1>8, <2>1, <2>2 DEF BeamsHaveRows
<1>11. ElementsAreInStep
  BY <1>7, <1>8, <1>9 DEF ElementsAreInStep
<1> QED
  BY <1>5, <1>7, <1>10, <1>11 DEF BeamInv

\* beam_step keeps elements in order and in their rows.
LEMMA BeamStepKeeps ==
  ASSUME BeamInv, BeamStep
  PROVE  BeamInv'
<1>1. /\ Sized /\ in_order \in BOOLEAN /\ IsFiniteSet(beam) /\ IsFiniteSet(word_completed)
      /\ sizes \in [beam : Nat \ {0}, word_beam : Nat, shift : Nat, particles : Nat]
      /\ rows \in [beam : Nat, completed : Nat] /\ rows.beam = sizes.beam
      /\ Cardinality(word_completed) <= rows.completed
      /\ \A e \in beam : Element(e) /\ e.item.pointer = pointer
  BY DEF BeamInv, Given, Sized, BeamsHaveRows, ElementsAreInStep, BeamStep
<1>2. PICK S : S = Successors /\ IsFiniteSet(S) /\ \A s \in S : s.bits \in Nat
  BY <1>1, SuccessorsAre
<1>3. PICK within \in Best(sizes.beam, S) :
        \E rescued \in Best(Larger(0, sizes.shift - Cardinality({s \in within : EndsWord(s)})),
                            {s \in S \ within : EndsWord(s)}) :
        \E fitting \in Best(rows.completed - Cardinality(word_completed),
                            {s \in within : EndsWord(s)} \cup rescued) :
          /\ word_completed' = word_completed \cup {Moved(s) : s \in fitting}
          /\ beam' = {AfterAction(s) : s \in {s \in within : StaysInBeam(s)}}
  BY <1>2 DEF BeamStep
<1>4. within \subseteq S /\ IsFiniteSet(within) /\ Cardinality(within) <= sizes.beam
  BY <1>1, <1>2, BestFits
<1>5. PICK completing : completing = {s \in within : EndsWord(s)}
  OBVIOUS
<1>6. PICK outside : outside = {s \in S \ within : EndsWord(s)}
  OBVIOUS
<1>7. IsFiniteSet(completing) /\ IsFiniteSet(outside)
  BY <1>2, <1>4, <1>5, <1>6, FS_Subset
<1>8. PICK n \in Nat : n = Larger(0, sizes.shift - Cardinality(completing))
  BY <1>1, <1>7, FS_CardinalityType DEF Larger
<1>9. PICK m \in Nat : m = rows.completed - Cardinality(word_completed)
  BY <1>1, FS_CardinalityType
<1>10. PICK rescued \in Best(n, outside) :
         \E fitting \in Best(m, completing \cup rescued) :
          /\ word_completed' = word_completed \cup {Moved(s) : s \in fitting}
          /\ beam' = {AfterAction(s) : s \in {s \in within : StaysInBeam(s)}}
  BY <1>3, <1>5, <1>6, <1>8, <1>9
<1>11. PICK fitting \in Best(m, completing \cup rescued) :
          /\ word_completed' = word_completed \cup {Moved(s) : s \in fitting}
          /\ beam' = {AfterAction(s) : s \in {s \in within : StaysInBeam(s)}}
  BY <1>10
<1>12. rescued \subseteq outside /\ IsFiniteSet(rescued)
  <2>1. \A e \in outside : e.bits \in Nat
    BY <1>2, <1>6
  <2> QED
    BY <1>7, <2>1, BestFits
<1>13. fitting \subseteq completing \cup rescued /\ IsFiniteSet(fitting) /\ Cardinality(fitting) <= m
  <2>1. \A e \in completing \cup rescued : e.bits \in Nat
    BY <1>2, <1>4, <1>5, <1>6, <1>12
  <2>2. IsFiniteSet(completing \cup rescued)
    BY <1>7, <1>12, FS_Union
  <2>3. PICK U : U = completing \cup rescued
    OBVIOUS
  <2> QED
    BY <2>1, <2>2, <2>3, BestFits
<1>14. PICK staying : staying = {s \in within : StaysInBeam(s)}
  OBVIOUS
<1>15. IsFiniteSet(staying) /\ Cardinality(staying) <= sizes.beam
  <2>1. IsFiniteSet(staying) /\ Cardinality(staying) <= Cardinality(within)
    BY <1>4, <1>14, FS_Subset
  <2>2. Cardinality(staying) \in Nat /\ Cardinality(within) \in Nat
    BY <1>4, <2>1, FS_CardinalityType
  <2>3. PICK b \in Nat : b = sizes.beam
    BY <1>1
  <2> QED
    BY <1>4, <2>1, <2>2, <2>3
<1>16. pointer <= sent_length /\ rows' = rows /\ UNCHANGED <<given, sizes, stack_size_bound, pointer, parses>>
  BY DEF BeamStep
<1>17. fitting \subseteq {s \in Successors : EndsWord(s)}
  BY <1>2, <1>4, <1>5, <1>6, <1>12, <1>13
<1>18. staying \subseteq {s \in Successors : StaysInBeam(s)}
  BY <1>2, <1>4, <1>14
<1>19. beam' = {AfterAction(s) : s \in staying}
  BY <1>11, <1>14
<1>20. Cardinality(fitting) <= rows'.completed - Cardinality(word_completed)
  BY <1>9, <1>13, <1>16
<1>21. rows' \in [beam : Nat, completed : Nat] /\ rows'.beam = sizes.beam /\ Cardinality(staying) <= rows'.beam
  BY <1>1, <1>15, <1>16
<1> QED
  BY <1>11, <1>13, <1>15, <1>16, <1>17, <1>18, <1>19, <1>20, <1>21, StepKeeps

\* So does finalize_word_completed_beam ...
LEMMA FinishWordKeeps ==
  ASSUME BeamInv, FinishWord
  PROVE  BeamInv'
<1>1. /\ IsFiniteSet(word_completed)
      /\ sizes \in [beam : Nat \ {0}, word_beam : Nat, shift : Nat, particles : Nat]
      /\ rows \in [beam : Nat, completed : Nat] /\ rows.beam = sizes.beam /\ rows' = rows
      /\ \A e \in word_completed : Element(e) /\ e.item.pointer = pointer /\ EndAction \in Allowed(e.item)
  BY DEF BeamInv, Given, BeamsHaveRows, ElementsAreInStep, FinishWord
<1>2. PICK n \in Nat : n = Smaller(WordBeamSize, sizes.beam) /\ n <= sizes.beam
  BY <1>1 DEF WordBeamSize, Smaller
<1>3. PICK kept \in Best(n, word_completed) : GoOnWith(kept)
  BY <1>2 DEF FinishWord
<1>4. kept \subseteq word_completed /\ IsFiniteSet(kept) /\ Cardinality(kept) <= n
  BY <1>1, BestFits DEF Element
<1>5. Cardinality(kept) <= rows'.beam
  <2>1. PICK k \in Nat, b \in Nat : k = Cardinality(kept) /\ b = sizes.beam
    BY <1>1, <1>4, FS_CardinalityType
  <2>2. k <= n /\ n <= b
    BY <1>2, <1>4, <2>1
  <2> QED
    BY <1>1, <2>1, <2>2
<1>6. pointer <= sent_length
  BY DEF FinishWord
<1>7. \A e \in kept : Element(e) /\ e.item.pointer = pointer /\ EndAction \in Allowed(e.item)
  BY <1>1, <1>4
<1>8. rows' \in [beam : Nat, completed : Nat] /\ rows'.beam = sizes.beam
  BY <1>1
<1> QED
  BY <1>3, <1>4, <1>5, <1>6, <1>7, <1>8, GoOnKeeps

\* resize does not take rows away.
LEMMA ResizedIs ==
  ASSUME NEW old \in Nat, NEW width \in Nat
  PROVE  Resized(old, width) \in Nat /\ old <= Resized(old, width)
BY UnitAssumption DEF Resized, Larger, Smaller

\* ... and variable_beam_step ...
LEMMA ParticleStepKeeps ==
  ASSUME BeamInv, ParticleStep
  PROVE  BeamInv'
<1>1. /\ Sized /\ in_order \in BOOLEAN /\ IsFiniteSet(beam) /\ IsFiniteSet(word_completed)
      /\ rows \in [beam : Nat, completed : Nat] /\ WithParticles
      /\ Cardinality(word_completed) <= rows.completed
      /\ \A e \in beam : Element(e) /\ e.item.pointer = pointer
  BY DEF BeamInv, Given, Sized, BeamsHaveRows, ElementsAreInStep, ParticleStep
<1>2. IsFiniteSet(Successors)
  BY <1>1, SuccessorsAre
<1>3. PICK completing : completing = {s \in {s \in Successors : s.K > 0} : EndsWord(s)}
  OBVIOUS
<1>4. PICK staying : staying = {s \in {s \in Successors : s.K > 0} : StaysInBeam(s)}
  OBVIOUS
<1>5. IsFiniteSet(completing) /\ IsFiniteSet(staying)
  BY <1>2, <1>3, <1>4, FS_Subset
<1>6. PICK w \in Nat, c \in Nat, t \in Nat :
        w = Cardinality(word_completed) /\ c = Cardinality(completing) /\ t = Cardinality(staying)
  BY <1>1, <1>5, FS_CardinalityType
<1>7. rows' = [beam |-> IF t > rows.beam THEN Resized(rows.beam, t) ELSE rows.beam,
               completed |-> IF completing # {} /\ w + c >= rows.completed
                               THEN Resized(rows.completed, w + c) ELSE rows.completed]
  BY <1>3, <1>4, <1>6 DEF ParticleStep
<1>8. PICK b \in Nat, d \in Nat : b = rows.beam /\ d = rows.completed
  BY <1>1
<1>9. Resized(b, t) \in Nat /\ Resized(d, w + c) \in Nat /\ d <= Resized(d, w + c)
  <2>1. PICK x \in Nat : x = w + c
    OBVIOUS
  <2> QED
    BY <2>1, ResizedIs
<1>10. rows' \in [beam : Nat, completed : Nat] /\ d <= rows'.completed
  BY <1>7, <1>8, <1>9
<1>11. PICK n \in Nat : n = rows'.completed - w
  <2>1. w <= d
    BY <1>1, <1>6, <1>8
  <2> QED
    BY <1>10, <2>1
<1>12. PICK moved \in Fitting(n, completing) :
         word_completed' = word_completed \cup {Moved(s) : s \in moved}
  BY <1>3, <1>6, <1>11 DEF ParticleStep
<1>13. moved \subseteq completing /\ IsFiniteSet(moved) /\ Cardinality(moved) <= n
  BY <1>5, FittingFits
<1>14. PICK r \in Nat : r = rows'.beam
  BY <1>10
<1>15. PICK stay \in Fitting(r, staying) : beam' = {AfterAction(s) : s \in stay}
  BY <1>4, <1>14 DEF ParticleStep
<1>16. stay \subseteq staying /\ IsFiniteSet(stay) /\ Cardinality(stay) <= r
  BY <1>5, FittingFits
<1>17. pointer <= sent_length /\ UNCHANGED <<given, sizes, stack_size_bound, pointer, parses>>
  BY DEF ParticleStep
<1>18. moved \subseteq {s \in Successors : EndsWord(s)} /\ stay \subseteq {s \in Successors : StaysInBeam(s)}
  BY <1>3, <1>4, <1>13, <1>16
<1>19. Cardinality(moved) <= rows'.completed - Cardinality(word_completed)
  BY <1>6, <1>11, <1>13
<1> QED
  BY <1>1, <1>10, <1>12, <1>13, <1>14, <1>15, <1>16, <1>17, <1>18, <1>19, StepKeeps

\* ... and finalize_particle_beam.
LEMMA FinishParticlesKeeps ==
  ASSUME BeamInv, FinishParticles
  PROVE  BeamInv'
<1>1. /\ IsFiniteSet(word_completed) /\ rows \in [beam : Nat, completed : Nat] /\ WithParticles
      /\ \A e \in word_completed : Element(e) /\ e.item.pointer = pointer /\ EndAction \in Allowed(e.item)
  BY DEF BeamInv, BeamsHaveRows, ElementsAreInStep, FinishParticles
<1> DEFINE share(e) == Rounded(sizes.particles * 2 ^ (MaxBits - e.bits), Mass(word_completed))
<1>2. PICK f : f = [e \in word_completed |-> [e EXCEPT !.K = share(e)]]
  OBVIOUS
<1>3. PICK F : F = {f[e] : e \in word_completed} /\ IsFiniteSet(F)
  BY <1>1, ImageIs
<1>4. PICK R : R = Reweighted /\ R \subseteq F /\ IsFiniteSet(R)
  <2>1. Reweighted \subseteq F
    BY <1>2, <1>3 DEF Reweighted
  <2> QED
    BY <1>3, <2>1, FS_Subset
<1>5. ASSUME NEW x \in F PROVE Element(x) /\ x.item.pointer = pointer /\ EndAction \in Allowed(x.item)
  <2>1. PICK e \in word_completed : x = f[e]
    BY <1>3
  <2>2. PICK k : k = share(e)
    OBVIOUS
  <2>3. x = [e EXCEPT !.K = k]
    BY <1>2, <2>1, <2>2
  <2>4. Element(e) /\ e.item.pointer = pointer /\ EndAction \in Allowed(e.item)
    BY <1>1
  <2> HIDE DEF share
  <2>5. x = [item |-> e.item, bits |-> e.bits, K |-> k]
    BY <2>3, <2>4 DEF Element
  <2> QED
    BY <2>4, <2>5 DEF Element
<1>6. PICK width \in Nat : width = Cardinality(R)
  BY <1>4, FS_CardinalityType
<1>7. PICK r \in Nat : r = IF width >= rows.beam THEN Resized(rows.beam, width) ELSE rows.beam
  BY <1>1, ResizedIs
<1>8. rows' = [rows EXCEPT !.beam = r]
  BY <1>1, <1>4, <1>6, <1>7 DEF FinishParticles
<1>9. rows' \in [beam : Nat, completed : Nat] /\ rows'.beam = r
  BY <1>1, <1>8
<1>10. PICK kept \in Fitting(r, R) : GoOnWith(kept)
  BY <1>4, <1>9 DEF FinishParticles
<1>11. kept \subseteq R /\ IsFiniteSet(kept) /\ Cardinality(kept) <= rows'.beam
  BY <1>4, <1>9, FittingFits
<1>12. pointer <= sent_length
  BY DEF FinishParticles
<1>13. \A e \in kept : Element(e) /\ e.item.pointer = pointer /\ EndAction \in Allowed(e.item)
  BY <1>4, <1>5, <1>11
<1> QED
  BY <1>1, <1>9, <1>10, <1>11, <1>12, <1>13, GoOnKeeps

\* The second search has another stack, and begins with a new element.
LEMMA ParseAgainKeeps ==
  ASSUME BeamInv, ParseAgain
  PROVE  BeamInv'
<1>1. /\ Sized /\ Given /\ sent_length \in Nat
      /\ sizes \in [beam : Nat \ {0}, word_beam : Nat, shift : Nat, particles : Nat]
  BY Lengths DEF BeamInv, Given
<1>2. /\ in_order' = in_order /\ ends' = ends /\ max_actions' = max_actions /\ sent_length' = sent_length
      /\ sizes' = sizes /\ stack_size_bound' = stack_size_bound /\ stack_size' = SecondStackSize
      /\ pointer' = 0 /\ word_completed' = {} /\ parses' = {}
      /\ rows' = [beam |-> sizes.beam, completed |-> CompletedSize]
  BY DEF ParseAgain, sent_length
<1>3. stack_size' \in Nat \ {0}
  BY <1>1, <1>2, StackHasPlaces DEF SecondStackSize
<1>4. Sized' /\ Given'
  BY <1>1, <1>2, <1>3 DEF Sized, Given
<1>5. ItemOK(FirstItem)'
  <2>1. (Sized /\ sent_length + 2 <= max_actions => ItemOK(FirstItem))'
    BY FirstOK, PTL
  <2> QED
    BY <1>4, <2>1 DEF Given
<1>6. PICK first : first = [item |-> FirstItem', bits |-> 0, K |-> sizes.particles] /\ beam' = {first}
  BY DEF ParseAgain
<1>7. Element(first)' /\ first.item.pointer = 0
  <2>1. ItemOK(first.item)'
    BY <1>5, <1>6
  <2>2. FirstItem'.pointer = 0
    BY DEF FirstItem
  <2> QED
    BY <1>6, <2>1, <2>2 DEF Element
<1>8. BeamsHaveRows'
  <2>1. CompletedSize \in Nat
    BY <1>1, CompletedSizeIs
  <2>2. IsFiniteSet({}) /\ Cardinality({}) = 0 /\ IsFiniteSet({first}) /\ Cardinality({first}) = 1
    BY FS_EmptySet, FS_Singleton
  <2>3. 1 <= sizes.beam
    BY <1>1
  <2> QED
    BY <1>1, <1>2, <1>6, <2>1, <2>2, <2>3 DEF BeamsHaveRows
<1>9. ElementsAreInStep'
  BY <1>2, <1>6, <1>7 DEF ElementsAreInStep
<1> QED
  BY <1>2, <1>4, <1>8, <1>9 DEF BeamInv

\* The invariant stays when its variables do.
LEMMA NothingMoves ==
  ASSUME BeamInv, UNCHANGED <<given, sizes, stack_size_bound, search>>
  PROVE  BeamInv'
<1>1. /\ UNCHANGED <<given, sizes, stack_size_bound>> /\ pointer' = pointer /\ beam' = beam
      /\ word_completed' = word_completed /\ rows' = rows /\ parses' = parses
  BY DEF search
<1>2. Given'
  BY <1>1, SizedStays DEF BeamInv
<1>3. BeamsHaveRows'
  BY <1>1 DEF BeamInv, BeamsHaveRows, WithParticles
<1>4. ElementsAreInStep'
  <2>1. \A item : /\ (ItemOK(item)' <=> ItemOK(item)) /\ (ItemFits(item)' <=> ItemFits(item))
                  /\ Allowed(item)' = Allowed(item)
    BY <1>1, SameItem
  <2>2. EndAction' = EndAction
    BY <1>1 DEF EndAction, FinishAction, given, sent_length
  <2> QED
    BY <1>1, <2>1, <2>2 DEF BeamInv, ElementsAreInStep, Element
<1> QED
  BY <1>1, <1>2, <1>3, <1>4 DEF BeamInv

\* Every step keeps the invariant.
LEMMA InvStep ==
  BeamInv /\ [Next]_vars => BeamInv'
<1> SUFFICES ASSUME BeamInv, [Next]_vars PROVE BeamInv'
  OBVIOUS
<1>1. CASE BeamStep
  BY <1>1, BeamStepKeeps
<1>2. CASE FinishWord
  BY <1>2, FinishWordKeeps
<1>3. CASE ParticleStep
  BY <1>3, ParticleStepKeeps
<1>4. CASE FinishParticles
  BY <1>4, FinishParticlesKeeps
<1>5. CASE Collapse
  BY <1>5, NothingMoves DEF Collapse
<1>6. CASE ParseAgain
  BY <1>6, ParseAgainKeeps
<1>7. CASE Report
  BY <1>7, NothingMoves DEF Report
<1>8. CASE Ended \/ UNCHANGED vars
  BY <1>8, NothingMoves DEF Ended, vars
<1> QED
  BY <1>1, <1>2, <1>3, <1>4, <1>5, <1>6, <1>7, <1>8 DEF Next

\* The invariant is all that StorageSuffices says.
LEMMA InvSuffices ==
  BeamInv => StorageSuffices
<1> SUFFICES ASSUME BeamInv PROVE StorageSuffices
  OBVIOUS
<1>1. Sized
  BY DEF BeamInv, Given
<1>2. ASSUME NEW e \in beam \cup word_completed \cup parses PROVE ItemFits(e.item)
  <2>1. CASE e \in parses
    BY <2>1 DEF BeamInv, ElementsAreInStep
  <2>2. CASE e \in beam \cup word_completed
    <3>1. ItemOK(e.item)
      BY <2>2 DEF BeamInv, ElementsAreInStep, Element
    <3> QED
      BY <1>1, <3>1, OKFits
  <2> QED
    BY <2>1, <2>2
<1>3. \A item \in Elements : ItemFits(item)
  BY <1>2 DEF Elements
<1> QED
  BY <1>3 DEF BeamInv, BeamsHaveRows, StorageSuffices, ItemFits

\* The storage of stacks, indices of brackets and paths always suffices, and
\* that of the beams: no action that invalid_action_mask leaves is done outside
\* a tensor, with either strategy, with any stack bound, beam sizes and limits
\* on brackets, and in the second search too.
THEOREM StorageAlwaysSuffices == Spec => []StorageSuffices
<1>1. Spec => []BeamInv
  BY Start, InvStep, PTL DEF Spec
<1> QED
  BY <1>1, InvSuffices, PTL

-----------------------------------------------------------------------------
(* The lists of the first implementation                                   *)

\* The states that the lists go through, action by action.
Recur(f, actions) ==
  f = [k \in 0 .. Len(actions) |-> IF k = 0 THEN FirstList ELSE ListDo(f[k - 1], actions[k])]

\* There are such states: ListOf is a definition by recursion over the actions.
LEMMA RecurExists ==
  ASSUME NEW actions, Len(actions) \in Nat
  PROVE  \E f : Recur(f, actions)
<1>1. PICK n \in Nat : n = Len(actions)
  OBVIOUS
<1>2. PICK I : I = {m \in Nat : \E f : f = [k \in 0 .. m |-> IF k = 0 THEN FirstList ELSE ListDo(f[k - 1], actions[k])]}
  OBVIOUS
<1>3. 0 \in I
  <2>1. PICK f : f = [k \in 0 .. 0 |-> FirstList]
    OBVIOUS
  <2>2. f = [k \in 0 .. 0 |-> IF k = 0 THEN FirstList ELSE ListDo(f[k - 1], actions[k])]
    BY <2>1
  <2> QED
    BY <1>2, <2>2
<1>4. ASSUME NEW m \in Nat, m \in I PROVE m + 1 \in I
  <2>1. PICK g : g = [k \in 0 .. m |-> IF k = 0 THEN FirstList ELSE ListDo(g[k - 1], actions[k])]
    BY <1>2, <1>4
  <2>2. PICK f : f = [k \in 0 .. m + 1 |-> IF k <= m THEN g[k] ELSE ListDo(g[m], actions[m + 1])]
    OBVIOUS
  <2>3. ASSUME NEW k \in 0 .. m + 1
        PROVE  f[k] = IF k = 0 THEN FirstList ELSE ListDo(f[k - 1], actions[k])
    <3>1. CASE k = 0
      BY <2>1, <2>2, <3>1
    <3>2. CASE k # 0 /\ k <= m
      <4>1. f[k] = g[k] /\ f[k - 1] = g[k - 1] /\ k \in 0 .. m
        BY <2>2, <3>2
      <4> QED
        BY <2>1, <3>2, <4>1
    <3>3. CASE k = m + 1
      <4>1. f[k] = ListDo(g[m], actions[m + 1]) /\ f[m] = g[m] /\ k - 1 = m /\ k # 0
        BY <2>2, <3>3
      <4> QED
        BY <3>3, <4>1
    <3> QED
      BY <3>1, <3>2, <3>3
  <2>4. PICK h : h = [k \in 0 .. m + 1 |-> IF k = 0 THEN FirstList ELSE ListDo(f[k - 1], actions[k])]
    OBVIOUS
  <2>5. f = h
    BY <2>2, <2>3, <2>4
  <2>6. f = [k \in 0 .. m + 1 |-> IF k = 0 THEN FirstList ELSE ListDo(f[k - 1], actions[k])]
    BY <2>4, <2>5
  <2> QED
    BY <1>2, <2>6
<1>5. n \in I
  <2> SUFFICES ASSUME n \notin I PROVE FALSE
    OBVIOUS
  <2>1. PICK T : T = {m \in Nat : m \notin I}
    OBVIOUS
  <2>2. \E x \in T : \A y \in T : x <= y
    <3>1. n \in T /\ T \subseteq Nat
      BY <2>1
    <3> QED
      BY <3>1, Least
  <2>3. PICK x \in T : \A y \in T : x <= y
    BY <2>2
  <2>4. x \in Nat /\ x \notin I /\ x # 0
    BY <1>3, <2>1
  <2>5. x - 1 \in Nat /\ ~(x <= x - 1) /\ (x - 1) + 1 = x
    BY <2>4
  <2>6. x - 1 \in I
    BY <2>1, <2>3, <2>5
  <2> QED
    BY <1>4, <2>4, <2>5, <2>6
<1> QED
  BY <1>1, <1>2, <1>5 DEF Recur

\* There is only one.
LEMMA RecurSame ==
  ASSUME NEW actions, NEW n \in Nat, NEW f, NEW g,
         f[0] = g[0],
         \A k \in 1 .. n : f[k] = ListDo(f[k - 1], actions[k]) /\ g[k] = ListDo(g[k - 1], actions[k])
  PROVE  f[n] = g[n]
<1> SUFFICES ASSUME f[n] # g[n] PROVE FALSE
  OBVIOUS
<1>1. PICK T : T = {m \in 0 .. n : f[m] # g[m]}
  OBVIOUS
<1>2. n \in T /\ T \subseteq Nat
  BY <1>1
<1>3. \E x \in T : \A y \in T : x <= y
  BY <1>2, Least
<1>4. PICK x \in T : \A y \in T : x <= y
  BY <1>3
<1>5. x \in 1 .. n /\ x - 1 \in 0 .. n /\ ~(x <= x - 1)
  BY <1>1, <1>4
<1>6. f[x - 1] = g[x - 1]
  BY <1>1, <1>4, <1>5
<1>7. f[x] = g[x]
  BY <1>5, <1>6
<1> QED
  BY <1>1, <1>7

\* ListOf goes through the actions.
LEMMA ListOfIs ==
  ASSUME NEW s \in Seq(Actions), NEW a \in Actions
  PROVE  ListOf(Append(s, a)) = ListDo(ListOf(s), a)
<1>1. PICK t : t = Append(s, a)
  OBVIOUS
<1>2. PICK n \in Nat : n = Len(s)
  OBVIOUS
<1>3. Len(t) = n + 1 /\ t[n + 1] = a /\ \A k \in 1 .. n : t[k] = s[k]
  BY <1>1, <1>2
<1>4. PICK f : f = CHOOSE h : Recur(h, s)
  OBVIOUS
<1>5. PICK g : g = CHOOSE h : Recur(h, t)
  OBVIOUS
<1>6. Recur(f, s) /\ Recur(g, t)
  BY <1>2, <1>3, <1>4, <1>5, RecurExists
<1>7. f = [k \in 0 .. n |-> IF k = 0 THEN FirstList ELSE ListDo(f[k - 1], s[k])]
  BY <1>2, <1>6 DEF Recur
<1>8. g = [k \in 0 .. n + 1 |-> IF k = 0 THEN FirstList ELSE ListDo(g[k - 1], t[k])]
  BY <1>3, <1>6 DEF Recur
<1>9. ListOf(s) = f[n] /\ ListOf(t) = g[n + 1]
  BY <1>2, <1>3, <1>4, <1>5 DEF ListOf, Recur
<1>10. f[0] = FirstList /\ g[0] = FirstList
  BY <1>7, <1>8
<1>11. ASSUME NEW k \in 1 .. n
       PROVE  f[k] = ListDo(f[k - 1], s[k]) /\ g[k] = ListDo(g[k - 1], s[k])
  <2>1. k \in 0 .. n /\ k \in 0 .. n + 1 /\ k # 0
    OBVIOUS
  <2> QED
    BY <1>3, <1>7, <1>8, <2>1
<1>12. f[n] = g[n]
  BY <1>10, <1>11, RecurSame
<1>13. g[n + 1] = ListDo(g[n], t[n + 1])
  <2>1. n + 1 \in 0 .. n + 1 /\ n + 1 # 0 /\ (n + 1) - 1 = n
    OBVIOUS
  <2> QED
    BY <1>8, <2>1
<1> QED
  BY <1>1, <1>3, <1>9, <1>12, <1>13

\* It begins with the empty lists.
LEMMA ListOfNone ==
  ListOf(<< >>) = FirstList
<1>1. PICK s : s = << >>
  OBVIOUS
<1>2. Len(s) = 0
  BY <1>1
<1>3. PICK f : f = CHOOSE h : Recur(h, s)
  OBVIOUS
<1>4. Recur(f, s)
  BY <1>2, <1>3, RecurExists
<1>5. ListOf(s) = f[0]
  BY <1>2, <1>3 DEF ListOf, Recur
<1>6. f[0] = FirstList
  BY <1>2, <1>4 DEF Recur
<1> QED
  BY <1>1, <1>5, <1>6

-----------------------------------------------------------------------------
(* Tensors as lists                                                        *)

\* The first n places of a tensor, as a list.
Upto(f, n) == [i \in 1 .. n |-> f[i - 1]]

\* It is a list of that length.
LEMMA UptoIs ==
  ASSUME NEW f, NEW n \in Nat, NEW u, u = Upto(f, n), NEW S, \A i \in 1 .. n : f[i - 1] \in S
  PROVE  u \in Seq(S) /\ Len(u) = n /\ \A i \in 1 .. n : u[i] = f[i - 1]
<1>1. u = [i \in 1 .. n |-> f[i - 1]]
  BY DEF Upto
<1>2. \A i \in 1 .. n : u[i] = f[i - 1]
  BY <1>1
<1>3. u \in [1 .. n -> S]
  BY <1>1
<1>4. u \in Seq(S) /\ Len(u) = n
  BY <1>3
<1> QED
  BY <1>2, <1>4

\* Its length, whatever the tensor holds.
LEMMA UptoLength ==
  ASSUME NEW f, NEW n \in Nat
  PROVE  Len(Upto(f, n)) = n
<1>1. PICK S : S = {f[i - 1] : i \in 1 .. n}
  OBVIOUS
<1>2. PICK u : u = Upto(f, n)
  OBVIOUS
<1>3. \A i \in 1 .. n : f[i - 1] \in S
  BY <1>1
<1>4. u \in Seq(S) /\ Len(u) = n /\ \A i \in 1 .. n : u[i] = f[i - 1]
  BY <1>2, <1>3, UptoIs
<1> QED
  BY <1>2, <1>4

\* The first n places are the same.
Same(g, f, n) == \A i \in 0 .. n - 1 : g[i] = f[i]

\* Two lists are the same if they have the same elements.
LEMMA ListsEqual ==
  ASSUME NEW S, NEW s \in Seq(S), NEW t \in Seq(S), Len(s) = Len(t), \A i \in 1 .. Len(s) : s[i] = t[i]
  PROVE  s = t
OBVIOUS

\* One place more is one element more.
LEMMA UptoAppend ==
  ASSUME NEW f, NEW g, NEW n \in Nat, Same(g, f, n)
  PROVE  Upto(g, n + 1) = Append(Upto(f, n), g[n])
<1> DEFINE x == g[n]
<1> HIDE DEF x
<1>0. PICK s : s = Upto(f, n)
  OBVIOUS
<1>1. PICK S : S = {f[i - 1] : i \in 1 .. n} \cup {x}
  OBVIOUS
<1>2. \A i \in 1 .. n : f[i - 1] \in S
  BY <1>1
<1>3. s \in Seq(S) /\ Len(s) = n /\ \A i \in 1 .. n : s[i] = f[i - 1]
  BY ONLY n \in Nat, <1>0, <1>2, UptoIs
<1>4. \A i \in 1 .. n + 1 : g[i - 1] \in S
  <2> SUFFICES ASSUME NEW i \in 1 .. n + 1 PROVE g[i - 1] \in S
    OBVIOUS
  <2>1. CASE i = n + 1
    <3>1. g[i - 1] = x
      BY <2>1 DEF x
    <3> QED
      BY <1>1, <3>1
  <2>2. CASE i # n + 1
    <3>1. i \in 1 .. n /\ i - 1 \in 0 .. n - 1
      BY <2>2
    <3>2. g[i - 1] = f[i - 1]
      BY <3>1 DEF Same
    <3> QED
      BY <1>2, <3>1, <3>2
  <2> QED
    BY <2>1, <2>2
<1>5. PICK u : u = Upto(g, n + 1)
  OBVIOUS
<1>6. PICK m \in Nat : m = n + 1
  OBVIOUS
<1>7. u \in Seq(S) /\ Len(u) = n + 1 /\ \A i \in 1 .. n + 1 : u[i] = g[i - 1]
  <2>1. \A i \in 1 .. m : g[i - 1] \in S
    BY <1>4, <1>6
  <2>2. u = Upto(g, m)
    BY <1>5, <1>6
  <2>3. u \in Seq(S) /\ Len(u) = m /\ \A i \in 1 .. m : u[i] = g[i - 1]
    BY ONLY m \in Nat, <2>1, <2>2, UptoIs
  <2> QED
    BY <1>6, <2>3
<1>8. x \in S
  BY <1>1
<1>9. PICK a : a = Append(s, x)
  OBVIOUS
<1>10. a \in Seq(S) /\ Len(a) = n + 1 /\ a[n + 1] = x /\ \A i \in 1 .. n : a[i] = s[i]
  BY <1>3, <1>8, <1>9
<1>11. ASSUME NEW i \in 1 .. n + 1 PROVE u[i] = a[i]
  <2>1. CASE i = n + 1
    <3>1. g[i - 1] = x
      BY <2>1 DEF x
    <3> QED
      BY <1>7, <1>10, <2>1, <3>1
  <2>2. CASE i # n + 1
    <3>1. i \in 1 .. n /\ i - 1 \in 0 .. n - 1
      BY <2>2
    <3>2. g[i - 1] = f[i - 1]
      BY <3>1 DEF Same
    <3> QED
      BY <1>3, <1>7, <1>10, <3>1, <3>2
  <2> QED
    BY <2>1, <2>2
<1>12. u = a
  BY <1>7, <1>10, <1>11, ListsEqual
<1> QED
  BY <1>0, <1>5, <1>9, <1>12 DEF x

\* Without its last element it is one shorter.
LEMMA UptoFront ==
  ASSUME NEW f, NEW n \in Nat
  PROVE  Front(Upto(f, n + 1)) = Upto(f, n) /\ Last(Upto(f, n + 1)) = f[n]
<1>1. PICK s : s = Upto(f, n)
  OBVIOUS
<1>2. PICK x : x = f[n]
  OBVIOUS
<1>3. Upto(f, n + 1) = Append(s, x)
  <2>1. Same(f, f, n)
    BY DEF Same
  <2> QED
    BY <1>1, <1>2, <2>1, UptoAppend
<1>4. PICK S : S = {f[i - 1] : i \in 1 .. n} \cup {x}
  OBVIOUS
<1>5. s \in Seq(S) /\ Len(s) = n
  <2>1. \A i \in 1 .. n : f[i - 1] \in S
    BY <1>4
  <2> QED
    BY <1>1, <2>1, UptoIs
<1>6. PICK a : a = Append(s, x)
  OBVIOUS
<1>7. a \in Seq(S) /\ Len(a) = n + 1 /\ a[n + 1] = x
  BY <1>4, <1>5, <1>6
<1>8. Last(a) = x
  BY <1>7 DEF Last
<1>9. SubSeq(a, 1, n) = s
  BY <1>4, <1>5, <1>6
<1>10. Front(a) = s
  <2>1. (n + 1) - 1 = n
    OBVIOUS
  <2> QED
    BY <1>7, <1>9, <2>1 DEF Front
<1> QED
  BY <1>1, <1>2, <1>3, <1>6, <1>8, <1>10

\* An element goes under the last one.
LEMMA UptoInsert ==
  ASSUME NEW f, NEW g, NEW n \in Nat, Same(g, f, n), f[n] = g[n + 1]
  PROVE  Upto(g, n + 2) = InsertAt(Upto(f, n + 1), n + 1, g[n])
<1>0. PICK x : x = g[n]
  OBVIOUS
<1>1. PICK s : s = Upto(f, n)
  OBVIOUS
<1>2. PICK y : y = f[n]
  OBVIOUS
<1>3. PICK S : S = {f[i - 1] : i \in 1 .. n} \cup {x, y}
  OBVIOUS
<1>4. s \in Seq(S) /\ Len(s) = n
  <2>1. \A i \in 1 .. n : f[i - 1] \in S
    BY <1>3
  <2> QED
    BY <1>1, <2>1, UptoIs
<1>5. Upto(f, n + 1) = Append(s, y)
  <2>1. Same(f, f, n)
    BY DEF Same
  <2> QED
    BY <1>1, <1>2, <2>1, UptoAppend
<1>6. PICK h : h = Upto(g, n + 1)
  OBVIOUS
<1>7. h = Append(s, x)
  BY <1>0, <1>1, <1>6, UptoAppend
<1>8. Upto(g, n + 2) = Append(h, y)
  <2>1. PICK m \in Nat : m = n + 1 /\ m + 1 = n + 2
    OBVIOUS
  <2>2. Upto(g, m + 1) = Append(h, y)
    <3>1. y = g[m] /\ h = Upto(g, m)
      BY <1>2, <1>6, <2>1
    <3>2. Same(g, g, m)
      BY DEF Same
    <3> QED
      BY <3>1, <3>2, UptoAppend
  <2> QED
    BY <2>1, <2>2
<1>9. PICK a : a = Append(s, y)
  OBVIOUS
<1>10. a \in Seq(S) /\ Len(a) = n + 1 /\ a[n + 1] = y /\ x \in S /\ y \in S
  BY <1>3, <1>4, <1>9
<1>11. SubSeq(a, 1, n) = s
  BY <1>4, <1>9, <1>10
<1>12. SubSeq(a, n + 1, n + 1) = <<y>>
  <2>1. PICK b : b = SubSeq(a, n + 1, n + 1)
    OBVIOUS
  <2>2. b \in Seq(S) /\ Len(b) = 1 /\ b[1] = y
    BY <1>10, <2>1
  <2>3. <<y>> \in Seq(S) /\ Len(<<y>>) = 1 /\ <<y>>[1] = y
    BY <1>10
  <2>4. \A i \in 1 .. Len(b) : b[i] = <<y>>[i]
    BY <2>2, <2>3
  <2>5. b = <<y>>
    BY <2>2, <2>3, <2>4, ListsEqual
  <2> QED
    BY <2>1, <2>5
<1>13. InsertAt(a, n + 1, x) = s \o <<x>> \o <<y>>
  <2>1. (n + 1) - 1 = n
    OBVIOUS
  <2> QED
    BY <1>10, <1>11, <1>12, <2>1 DEF InsertAt
<1>14. s \o <<x>> \o <<y>> = Append(Append(s, x), y)
  BY <1>4, <1>10
<1> QED
  BY <1>0, <1>5, <1>7, <1>8, <1>9, <1>13, <1>14

\* What is on top from a place on becomes one element.
Above(f, m, n) == [i \in 1 .. n - (m + 1) |-> f[m + i]]

\* That element is its first, the tensor's, with those above it as children.
Reduced(g, f, m, n) ==
  /\ Head(SubSeq(Upto(f, n), m + 1, n)) = f[m]
  /\ Tail(SubSeq(Upto(f, n), m + 1, n)) = Above(f, m, n)
  /\ Append(SubSeq(Upto(f, n), 1, m), g[m]) = Upto(g, m + 1)

\* Taking the top of a list is taking the top places of the tensor.
LEMMA UptoReduce ==
  ASSUME NEW f, NEW g, NEW n \in Nat, NEW m \in Nat, m < n, Same(g, f, m)
  PROVE  Reduced(g, f, m, n)
<1>0. PICK u : u = Upto(f, n)
  OBVIOUS
<1>1. PICK S : S = {f[i - 1] : i \in 1 .. n}
  OBVIOUS
<1>2. u \in Seq(S) /\ Len(u) = n /\ \A i \in 1 .. n : u[i] = f[i - 1]
  <2>1. \A i \in 1 .. n : f[i - 1] \in S
    BY <1>1
  <2> QED
    BY ONLY n \in Nat, <1>0, <2>1, UptoIs
<1>3. PICK r : r = SubSeq(u, m + 1, n)
  OBVIOUS
<1>4. r \in Seq(S) /\ Len(r) = n - m /\ \A i \in 1 .. n - m : r[i] = u[m + i]
  BY <1>2, <1>3
<1>5. Head(r) = f[m]
  <2>1. r[1] = u[m + 1]
    BY <1>4
  <2>2. Head(r) = r[1]
    BY <1>4
  <2>3. m + 1 \in 1 .. n /\ (m + 1) - 1 = m
    OBVIOUS
  <2> QED
    BY <1>2, <2>1, <2>2, <2>3
<1>6. Tail(r) = Above(f, m, n)
  <2>1. PICK t : t = Tail(r)
    OBVIOUS
  <2>2. PICK l \in Nat : l = n - (m + 1) /\ Len(r) = l + 1
    BY <1>4
  <2>3. t \in Seq(S) /\ Len(t) = l /\ \A i \in 1 .. l : t[i] = r[i + 1]
    BY <1>4, <2>1, <2>2
  <2>4. ASSUME NEW i \in 1 .. l PROVE t[i] = f[m + i]
    <3>1. i + 1 \in 1 .. n - m /\ m + (i + 1) \in 1 .. n /\ (m + (i + 1)) - 1 = m + i
      BY <2>2
    <3>2. r[i + 1] = u[m + (i + 1)]
      BY <1>4, <3>1
    <3>3. u[m + (i + 1)] = f[m + i]
      BY <1>2, <3>1
    <3> QED
      BY <2>3, <3>2, <3>3
  <2>5. t = [i \in 1 .. l |-> t[i]]
    <3>1. DOMAIN t = 1 .. l
      BY <2>3
    <3> QED
      BY <2>3, <3>1
  <2> QED
    BY <2>1, <2>2, <2>4, <2>5 DEF Above
<1>7. SubSeq(u, 1, m) = Upto(f, m)
  <2>1. PICK a : a = SubSeq(u, 1, m)
    OBVIOUS
  <2>2. a \in Seq(S) /\ Len(a) = m /\ \A i \in 1 .. m : a[i] = u[i]
    BY <1>2, <2>1
  <2>3. a = [i \in 1 .. m |-> a[i]]
    BY <2>2
  <2>4. \A i \in 1 .. m : a[i] = f[i - 1]
    BY <1>2, <2>2
  <2> QED
    BY <2>1, <2>3, <2>4 DEF Upto
<1>8. Upto(g, m + 1) = Append(Upto(f, m), g[m])
  BY UptoAppend
<1> QED
  BY <1>0, <1>3, <1>5, <1>6, <1>7, <1>8 DEF Reduced

-----------------------------------------------------------------------------
(* What one action does to the lists and to the trees                      *)

\* A state of the lists is a record of its parts.
IsList(s) ==
  s = [pointer |-> s.pointer, stack_trees |-> s.stack_trees, nopen_parens |-> s.nopen_parens,
       ncons_nts |-> s.ncons_nts, nt_index |-> s.nt_index, nt_ids |-> s.nt_ids, prev_a |-> s.prev_a]

\* What an action makes of the lists.
LEMMA ListShift ==
  ASSUME NEW s, IsList(s)
  PROVE  ListDo(s, "SHIFT") =
           [pointer |-> s.pointer + 1, stack_trees |-> Append(s.stack_trees, Token(s.pointer + 1)),
            nopen_parens |-> s.nopen_parens, ncons_nts |-> 0, nt_index |-> s.nt_index,
            nt_ids |-> s.nt_ids, prev_a |-> "SHIFT"]
<1>1. PICK x : x = Token(s.pointer + 1)
  OBVIOUS
<1>2. PICK u : u = Append(s.stack_trees, x)
  OBVIOUS
<1>3. PICK p : p = [s EXCEPT !.stack_trees = u]
  OBVIOUS
<1>4. UpdateStackRNN(s, "SHIFT") = p
  BY <1>1, <1>2, <1>3 DEF UpdateStackRNN, Push, IsList
<1>5. ListDo(s, "SHIFT") = [Counted(p, "SHIFT") EXCEPT !.prev_a = "SHIFT"]
  BY <1>4 DEF ListDo
<1>6. Counted(p, "SHIFT") = [p EXCEPT !.pointer = @ + 1, !.ncons_nts = 0]
  BY DEF Counted
<1> QED
  BY <1>1, <1>2, <1>3, <1>5, <1>6 DEF IsList

\* NT(X) opens a bracket, in order below the top.
LEMMA ListNt ==
  ASSUME NEW s, IsList(s), NEW x \in Labels, NEW n \in Nat, n = Len(s.stack_trees)
  PROVE  ListDo(s, x) =
           [pointer |-> s.pointer,
            stack_trees |-> IF in_order THEN InsertAt(s.stack_trees, n, Open(x)) ELSE Append(s.stack_trees, Open(x)),
            nopen_parens |-> s.nopen_parens + 1, ncons_nts |-> s.ncons_nts + 1,
            nt_index |-> Append(s.nt_index, IF in_order THEN n ELSE n + 1),
            nt_ids |-> Append(s.nt_ids, x), prev_a |-> x]
<1>1. PICK u : u = IF in_order THEN InsertAt(s.stack_trees, n, Open(x)) ELSE Append(s.stack_trees, Open(x))
  OBVIOUS
<1>2. PICK i : i = Append(s.nt_index, IF in_order THEN n ELSE n + 1)
  OBVIOUS
<1>3. PICK d : d = Append(s.nt_ids, x)
  OBVIOUS
<1>4. PICK p : p = [s EXCEPT !.stack_trees = u, !.nt_index = i, !.nt_ids = d]
  OBVIOUS
<1>5. OpenBracket(s, x) = p
  BY <1>1, <1>2, <1>3, <1>4 DEF OpenBracket, IsList
<1>6. UpdateStackRNN(s, x) = p
  BY <1>5, ActionNames DEF UpdateStackRNN
<1>7. ListDo(s, x) = [Counted(p, x) EXCEPT !.prev_a = x]
  BY <1>6 DEF ListDo
<1>8. Counted(p, x) = [p EXCEPT !.nopen_parens = @ + 1, !.ncons_nts = @ + 1]
  BY ActionNames DEF Counted
<1>9. ListDo(s, x) =
        [pointer |-> s.pointer, stack_trees |-> u, nopen_parens |-> s.nopen_parens + 1,
         ncons_nts |-> s.ncons_nts + 1, nt_index |-> i, nt_ids |-> d, prev_a |-> x]
  BY ONLY <1>4, <1>7, <1>8, IsList(s) DEF IsList
<1> QED
  BY <1>1, <1>2, <1>3, <1>9

\* REDUCE takes all from the last bracket on, and the bracket.
LEMMA ListReduce ==
  ASSUME NEW s, IsList(s), NEW r, r = SubSeq(s.stack_trees, Last(s.nt_index), Len(s.stack_trees))
  PROVE  ListDo(s, "REDUCE") =
           [pointer |-> s.pointer,
            stack_trees |-> Append(SubSeq(s.stack_trees, 1, Last(s.nt_index) - 1),
                                   Phrase(Last(s.nt_ids), Head(r), Tail(r))),
            nopen_parens |-> s.nopen_parens - 1,
            ncons_nts |-> IF in_order /\ s.prev_a \in Labels THEN s.ncons_nts ELSE 0,
            nt_index |-> Front(s.nt_index), nt_ids |-> Front(s.nt_ids), prev_a |-> "REDUCE"]
<1>1. PICK u : u = Append(SubSeq(s.stack_trees, 1, Last(s.nt_index) - 1), Phrase(Last(s.nt_ids), Head(r), Tail(r)))
  OBVIOUS
<1>2. PICK i, d : i = Front(s.nt_index) /\ d = Front(s.nt_ids)
  OBVIOUS
<1>3. PICK c : c = IF in_order /\ s.prev_a \in Labels THEN s.ncons_nts ELSE 0
  OBVIOUS
<1>4. PICK p : p = [s EXCEPT !.nt_index = i, !.nt_ids = d, !.stack_trees = u]
  OBVIOUS
<1>5. ReduceStack(s) = p
  BY <1>1, <1>2, <1>4 DEF ReduceStack, IsList
<1>6. UpdateStackRNN(s, "REDUCE") = p
  BY <1>5, ActionNames DEF UpdateStackRNN
<1>7. ListDo(s, "REDUCE") = [Counted(p, "REDUCE") EXCEPT !.prev_a = "REDUCE"]
  BY <1>6 DEF ListDo
<1>8. p.prev_a = s.prev_a /\ p.ncons_nts = s.ncons_nts /\ IsList(p)
  BY <1>4 DEF IsList
<1>9. Counted(p, "REDUCE") = [p EXCEPT !.nopen_parens = @ - 1, !.ncons_nts = c]
  BY <1>3, <1>8, ActionNames DEF Counted, IsList
<1>10. ListDo(s, "REDUCE") =
         [pointer |-> s.pointer, stack_trees |-> u, nopen_parens |-> s.nopen_parens - 1,
          ncons_nts |-> c, nt_index |-> i, nt_ids |-> d, prev_a |-> "REDUCE"]
  BY ONLY <1>4, <1>7, <1>9, IsList(s) DEF IsList
<1> QED
  BY <1>1, <1>2, <1>3, <1>10

\* FINISH pushes zeros.
LEMMA ListFinish ==
  ASSUME NEW s, IsList(s)
  PROVE  ListDo(s, "FINISH") =
           [s EXCEPT !.stack_trees = Append(s.stack_trees, Zeros), !.prev_a = "FINISH"]
<1>1. PICK u : u = Append(s.stack_trees, Zeros)
  OBVIOUS
<1>2. PICK p : p = [s EXCEPT !.stack_trees = u]
  OBVIOUS
<1>3. UpdateStackRNN(s, "FINISH") = p
  BY <1>1, <1>2, ActionNames DEF UpdateStackRNN, Push, IsList
<1>4. ListDo(s, "FINISH") = [Counted(p, "FINISH") EXCEPT !.prev_a = "FINISH"]
  BY <1>3 DEF ListDo
<1>5. Counted(p, "FINISH") = p
  BY ActionNames DEF Counted
<1> QED
  BY <1>1, <1>2, <1>4, <1>5 DEF IsList

\* What update_nt_counts does to the run of brackets.
LEMMA RunsAre ==
  ASSUME NEW item, IsItem(item), NEW a, NEW q, q = UpdateNtCounts(item, a)
  PROVE  /\ q.trees = item.trees /\ q.nt_ids = item.nt_ids
         /\ a = "SHIFT" => q.ncons_nts = 0
         /\ a \in Labels => q.ncons_nts = item.ncons_nts + 1
         /\ a = "REDUCE" => q.ncons_nts = IF in_order /\ PrevIsNt(item) THEN item.ncons_nts ELSE 0
         /\ a = "FINISH" => q.ncons_nts = item.ncons_nts
<1>1. CASE a = "SHIFT"
  BY <1>1, ActionNames DEF UpdateNtCounts, IsItem
<1>2. CASE a \in Labels
  BY <1>2, ActionNames DEF UpdateNtCounts, IsItem
<1>3. CASE a = "REDUCE"
  <2>1. PICK n : n = IF in_order /\ PrevIsNt(item) THEN item.ncons_nts ELSE 0
    OBVIOUS
  <2>2. q = [item EXCEPT !.nopen_parens = @ - 1, !.ncons_nts = n]
    BY <1>3, <2>1, ActionNames DEF UpdateNtCounts, IsItem
  <2>3. q.trees = item.trees /\ q.nt_ids = item.nt_ids /\ q.ncons_nts = n
    BY <2>2 DEF IsItem
  <2> QED
    BY <1>3, <2>1, <2>3, ActionNames
<1>4. CASE a # "SHIFT" /\ a \notin Labels /\ a # "REDUCE"
  BY <1>4 DEF UpdateNtCounts
<1> QED
  BY <1>1, <1>2, <1>3, <1>4

\* The same for an action as a whole, given what its cell does.
LEMMA DoRuns ==
  ASSUME NEW item, NEW a, NEW p, p = Cell(item, a), IsItem(p), NEW q, q = Do(item, a)
  PROVE  /\ q.trees = p.trees /\ q.nt_ids = p.nt_ids
         /\ a = "SHIFT" => q.ncons_nts = 0
         /\ a \in Labels => q.ncons_nts = p.ncons_nts + 1
         /\ a = "REDUCE" => q.ncons_nts = IF in_order /\ PrevIsNt(p) THEN p.ncons_nts ELSE 0
         /\ a = "FINISH" => q.ncons_nts = p.ncons_nts
<1>1. PICK c : c = UpdateNtCounts(p, a)
  OBVIOUS
<1>2. /\ c.trees = p.trees /\ c.nt_ids = p.nt_ids
      /\ a = "SHIFT" => c.ncons_nts = 0
      /\ a \in Labels => c.ncons_nts = p.ncons_nts + 1
      /\ a = "REDUCE" => c.ncons_nts = IF in_order /\ PrevIsNt(p) THEN p.ncons_nts ELSE 0
      /\ a = "FINISH" => c.ncons_nts = p.ncons_nts
  BY <1>1, RunsAre
<1>3. IsItem(c)
  BY <1>1, CountsAre
<1>4. q = [c EXCEPT !.actions = Append(@, a)]
  BY <1>1 DEF Do
<1>5. q.trees = c.trees /\ q.nt_ids = c.nt_ids /\ q.ncons_nts = c.ncons_nts
  BY <1>3, <1>4 DEF IsItem
<1> QED
  BY <1>2, <1>5

\* What the cell does to the stack.
LEMMA ShiftTrees ==
  ASSUME NEW item, IsItem(item), NEW q, q = DoShift(item)
  PROVE  /\ q.trees = [item.trees EXCEPT ![item.top_position] = Token(item.pointer + 1)]
         /\ q.nt_ids = item.nt_ids /\ q.ncons_nts = item.ncons_nts
<1>1. PICK t : t = [item.trees EXCEPT ![item.top_position] = Token(item.pointer + 1)]
  OBVIOUS
<1>2. PICK last : last = IF in_order /\ (item.pointer = 0 \/ ends[item.pointer])
                           THEN item.top_position + 1 ELSE item.last_subword_begin_idx
  OBVIOUS
<1>3. q = [item EXCEPT !.trees = t, !.pointer = @ + 1, !.top_position = item.top_position + 1,
                       !.last_subword_begin_idx = last]
  BY <1>1, <1>2 DEF DoShift, IsItem
<1> QED
  BY <1>1, <1>3 DEF IsItem

\* The stack with a bracket more.
Opened(item, x) ==
  IF in_order
    THEN [i \in DOMAIN item.trees |->
            IF i = item.last_subword_begin_idx - 1 THEN Open(x)
            ELSE IF i \in item.last_subword_begin_idx .. item.top_position
              THEN item.trees[i - 1] ELSE item.trees[i]]
    ELSE [item.trees EXCEPT ![item.top_position] = Open(x)]

\* do_nt opens a bracket at its place and remembers its label.
LEMMA NtTrees ==
  ASSUME NEW item, IsItem(item), NEW x, NEW q, q = DoNt(item, x)
  PROVE  /\ q.trees = Opened(item, x)
         /\ q.nt_ids = [item.nt_ids EXCEPT ![item.nt_index_pos + 1] = x]
         /\ q.ncons_nts = item.ncons_nts
<1>1. PICK t : t = Opened(item, x)
  OBVIOUS
<1>2. PICK at : at = [item.nt_index EXCEPT ![item.nt_index_pos + 1] = BracketAt(item)]
  OBVIOUS
<1>3. PICK ids : ids = [item.nt_ids EXCEPT ![item.nt_index_pos + 1] = x]
  OBVIOUS
<1>4. PICK p : p = IF in_order THEN PlaceNt(item, x) ELSE PushNt(item, x)
  OBVIOUS
<1>5. p = [item EXCEPT !.trees = t, !.nt_index = at]
  <2>1. CASE in_order
    <3>1. PICK b : b = item.last_subword_begin_idx
      OBVIOUS
    <3>2. t = [i \in DOMAIN item.trees |->
                 IF i = b - 1 THEN Open(x)
                 ELSE IF i \in b .. item.top_position THEN item.trees[i - 1] ELSE item.trees[i]]
      BY <1>1, <2>1, <3>1 DEF Opened
    <3>3. p = [item EXCEPT !.trees = t, !.nt_index[item.nt_index_pos + 1] = b]
      BY <1>4, <2>1, <3>1, <3>2 DEF PlaceNt
    <3> QED
      BY <1>2, <2>1, <3>1, <3>3 DEF IsItem, BracketAt
  <2>2. CASE ~in_order
    <3>1. p = [item EXCEPT !.trees[item.top_position] = Open(x),
                           !.nt_index[item.nt_index_pos + 1] = item.top_position + 1]
      BY <1>4, <2>2 DEF PushNt
    <3> QED
      BY <1>1, <1>2, <2>2, <3>1 DEF IsItem, BracketAt, Opened
  <2> QED
    BY <2>1, <2>2
<1>6. q = [p EXCEPT !.nt_index_pos = @ + 1, !.nt_ids[item.nt_index_pos + 1] = x, !.top_position = @ + 1]
  BY <1>4 DEF DoNt
<1>7. p.nt_ids = item.nt_ids /\ IsItem(p) /\ p.trees = t /\ p.ncons_nts = item.ncons_nts
  BY <1>5 DEF IsItem
<1>8. q = [p EXCEPT !.nt_index_pos = @ + 1, !.nt_ids = ids, !.top_position = @ + 1]
  BY <1>3, <1>6, <1>7 DEF IsItem
<1> QED
  BY <1>1, <1>3, <1>7, <1>8 DEF IsItem

\* do_reduce puts the phrase where its bracket was.
LEMMA ReduceTrees ==
  ASSUME NEW item, IsItem(item), NEW q, q = DoReduce(item), NEW at, at = item.nt_index[item.nt_index_pos]
  PROVE  /\ q.trees = [item.trees EXCEPT ![at - 1] =
                         Phrase(item.nt_ids[item.nt_index_pos], item.trees[at - 1],
                                [i \in 1 .. item.top_position - at |-> item.trees[at + i - 1]])]
         /\ q.nt_ids = item.nt_ids /\ q.ncons_nts = item.ncons_nts
<1>1. PICK phrase :
        phrase = Phrase(item.nt_ids[item.nt_index_pos], item.trees[at - 1],
                        [i \in 1 .. item.top_position - at |-> item.trees[at + i - 1]])
  OBVIOUS
<1>2. PICK t : t = [item.trees EXCEPT ![at - 1] = phrase]
  OBVIOUS
<1>3. PICK last : last = IF in_order THEN at ELSE item.last_subword_begin_idx
  OBVIOUS
<1>4. q = [item EXCEPT !.trees = t, !.nt_index_pos = @ - 1, !.top_position = at,
                       !.last_subword_begin_idx = last]
  BY <1>1, <1>2, <1>3 DEF DoReduce, IsItem
<1> QED
  BY <1>1, <1>2, <1>4 DEF IsItem

-----------------------------------------------------------------------------
(* Elements that are listed                                                *)

\* Every token ends a word.
WholeWords == \A i \in DOMAIN ends : ends[i]

\* The lists that the tensors of an element stand for.
AsList(item) ==
  [pointer |-> item.pointer, stack_trees |-> Upto(item.trees, item.top_position),
   nopen_parens |-> item.nopen_parens, ncons_nts |-> item.ncons_nts,
   nt_index |-> Upto(item.nt_index, item.nt_index_pos + 1),
   nt_ids |-> Upto(item.nt_ids, item.nt_index_pos + 1), prev_a |-> Prev(item)]

\* In order, what a bracket is put below is the top, the first bracket is below the first
\* thing, and without brackets there is one thing.
Corner(item) ==
  /\ item.top_position > 0 /\ ~PrevIsNt(item) => item.last_subword_begin_idx = item.top_position
  /\ item.nopen_parens = 0 => item.top_position = IF item.pointer = 0 THEN 0 ELSE 1
  /\ item.nopen_parens > 0 => item.nt_index[0] = 1 /\ item.pointer > 0

\* The lists of the first implementation are those that the tensors stand for.
Listed(item) ==
  /\ DOMAIN item.trees = 0 .. stack_size - 1 /\ DOMAIN item.nt_ids = 0 .. stack_size - 1
  /\ item.ncons_nts \in Nat /\ Prev(item) # "FINISH"
  /\ in_order => Corner(item)
  /\ ListOf(item.actions) = AsList(item)

\* Its parts.
LEMMA AsListIs ==
  ASSUME NEW item, NEW s, s = AsList(item)
  PROVE  /\ IsList(s)
         /\ s.pointer = item.pointer /\ s.stack_trees = Upto(item.trees, item.top_position)
         /\ s.nopen_parens = item.nopen_parens /\ s.ncons_nts = item.ncons_nts
         /\ s.nt_index = Upto(item.nt_index, item.nt_index_pos + 1)
         /\ s.nt_ids = Upto(item.nt_ids, item.nt_index_pos + 1) /\ s.prev_a = Prev(item)
<1>1. PICK a, b, c : a = Upto(item.trees, item.top_position)
                     /\ b = Upto(item.nt_index, item.nt_index_pos + 1)
                     /\ c = Upto(item.nt_ids, item.nt_index_pos + 1)
  OBVIOUS
<1>2. s = [pointer |-> item.pointer, stack_trees |-> a, nopen_parens |-> item.nopen_parens,
           ncons_nts |-> item.ncons_nts, nt_index |-> b, nt_ids |-> c, prev_a |-> Prev(item)]
  BY <1>1 DEF AsList
<1> QED
  BY <1>1, <1>2 DEF IsList

\* Between words no word is half read.
LEMMA Whole ==
  ASSUME Sized, WholeWords, NEW item, PlacesOK(item)
  PROVE  ~AfterSubword(item) /\ (item.pointer = 0 \/ ends[item.pointer])
<1>1. PICK n \in Nat : n = Len(ends) /\ DOMAIN ends = 1 .. n
  BY DEF Sized
<1>2. item.pointer \in 0 .. n
  BY <1>1 DEF PlacesOK, sent_length
<1>3. item.pointer # 0 => ends[item.pointer]
  BY <1>1, <1>2 DEF WholeWords
<1> QED
  BY <1>2, <1>3 DEF AfterSubword

\* Doing an action is doing it to the lists.
LEMMA ListedDo ==
  ASSUME NEW item, ListOf(item.actions) = AsList(item), NEW a \in Actions,
         item.actions \in Seq(Actions), NEW q, q.actions = Append(item.actions, a),
         AsList(q) = ListDo(AsList(item), a)
  PROVE  ListOf(q.actions) = AsList(q)
<1>1. PICK s : s = item.actions
  OBVIOUS
<1>2. ListOf(Append(s, a)) = ListDo(ListOf(s), a)
  BY <1>1, ListOfIs
<1> QED
  BY <1>1, <1>2

\* SHIFT pushes the same token on the list and on the tensor.
LEMMA ListedShift ==
  ASSUME Sized, WholeWords, NEW item, ItemOK(item), Listed(item), "SHIFT" \in Allowed(item),
         NEW q, q = Do(item, "SHIFT")
  PROVE  Listed(q)
<1>1. PlacesOK(item) /\ IsItem(item) /\ item.actions \in Seq(Actions) /\ "SHIFT" \in Actions
  BY AllowedAre DEF ItemOK, PlacesOK
<1>2. PICK p : p = DoShift(item)
  OBVIOUS
<1>3. p = Cell(item, "SHIFT")
  BY <1>2 DEF Cell
<1>4. /\ IsItem(p) /\ SameBrackets(p, item)
      /\ p.pointer = item.pointer + 1 /\ p.top_position = item.top_position + 1
      /\ p.nopen_parens = item.nopen_parens /\ p.actions = item.actions
      /\ in_order /\ (item.pointer = 0 \/ ends[item.pointer]) =>
           p.last_subword_begin_idx = item.top_position + 1
  BY <1>1, <1>2, ShiftIs
<1>5. /\ SameBrackets(q, p) /\ q.pointer = p.pointer /\ q.top_position = p.top_position
      /\ q.last_subword_begin_idx = p.last_subword_begin_idx
      /\ q.actions = Append(p.actions, "SHIFT") /\ q.nopen_parens = p.nopen_parens
  BY <1>3, <1>4, DoIs, ActionNames
<1>6. /\ q.trees = [item.trees EXCEPT ![item.top_position] = Token(item.pointer + 1)]
      /\ q.nt_ids = item.nt_ids /\ q.ncons_nts = 0
  <2>1. p.trees = [item.trees EXCEPT ![item.top_position] = Token(item.pointer + 1)] /\ p.nt_ids = item.nt_ids
    BY <1>1, <1>2, ShiftTrees
  <2>2. q.trees = p.trees /\ q.nt_ids = p.nt_ids /\ q.ncons_nts = 0
    BY <1>3, <1>4, DoRuns
  <2> QED
    BY <2>1, <2>2
<1>7. /\ q.pointer = item.pointer + 1 /\ q.top_position = item.top_position + 1
      /\ q.nopen_parens = item.nopen_parens /\ q.nt_index = item.nt_index /\ q.nt_index_pos = item.nt_index_pos
      /\ q.actions = Append(item.actions, "SHIFT")
  BY <1>4, <1>5 DEF SameBrackets
<1>8. Prev(q) = "SHIFT" /\ ~PrevIsNt(q)
  BY <1>1, <1>7, PrevIs, ActionNames
<1>9. PICK top \in Nat, w \in Nat, pt \in Nat :
        top = item.top_position /\ w = stack_size /\ top < w /\ pt = item.pointer /\ item.nopen_parens \in Nat
  BY <1>1, PlaceNumbers, RoomIs
<1>10. Upto(q.trees, top + 1) = Append(Upto(item.trees, top), Token(pt + 1))
  <2>1. PICK f, g : f = item.trees /\ g = q.trees
    OBVIOUS
  <2>2. DOMAIN f = 0 .. w - 1
    BY <1>9, <2>1 DEF Listed
  <2>3. g = [f EXCEPT ![top] = Token(pt + 1)]
    BY <1>6, <1>9, <2>1
  <2>4. top \in 0 .. w - 1
    BY <1>9
  <2>5. g[top] = Token(pt + 1)
    BY <2>2, <2>3, <2>4
  <2>6. Same(g, f, top)
    <3>1. ASSUME NEW i \in 0 .. top - 1 PROVE g[i] = f[i]
      <4>1. i \in 0 .. w - 1 /\ i # top
        BY <1>9
      <4> QED
        BY <2>2, <2>3, <4>1
    <3> QED
      BY <3>1 DEF Same
  <2>7. Upto(g, top + 1) = Append(Upto(f, top), g[top])
    BY <2>6, UptoAppend
  <2> QED
    BY <2>1, <2>5, <2>7
<1>11. AsList(q) = ListDo(AsList(item), "SHIFT")
  <2>1. PICK s, t : s = AsList(item) /\ t = AsList(q)
    OBVIOUS
  <2>2. /\ IsList(s)
        /\ s.pointer = item.pointer /\ s.stack_trees = Upto(item.trees, item.top_position)
        /\ s.nopen_parens = item.nopen_parens /\ s.ncons_nts = item.ncons_nts
        /\ s.nt_index = Upto(item.nt_index, item.nt_index_pos + 1)
        /\ s.nt_ids = Upto(item.nt_ids, item.nt_index_pos + 1) /\ s.prev_a = Prev(item)
    BY <2>1, AsListIs
  <2>3. /\ IsList(t)
        /\ t.pointer = q.pointer /\ t.stack_trees = Upto(q.trees, q.top_position)
        /\ t.nopen_parens = q.nopen_parens /\ t.ncons_nts = q.ncons_nts
        /\ t.nt_index = Upto(q.nt_index, q.nt_index_pos + 1)
        /\ t.nt_ids = Upto(q.nt_ids, q.nt_index_pos + 1) /\ t.prev_a = Prev(q)
    BY <2>1, AsListIs
  <2>4. ListDo(s, "SHIFT") =
          [pointer |-> s.pointer + 1, stack_trees |-> Append(s.stack_trees, Token(s.pointer + 1)),
           nopen_parens |-> s.nopen_parens, ncons_nts |-> 0, nt_index |-> s.nt_index,
           nt_ids |-> s.nt_ids, prev_a |-> "SHIFT"]
    BY <2>2, ListShift
  <2>5. /\ t.pointer = s.pointer + 1 /\ t.nopen_parens = s.nopen_parens /\ t.ncons_nts = 0
        /\ t.nt_index = s.nt_index /\ t.nt_ids = s.nt_ids /\ t.prev_a = "SHIFT"
    BY <1>6, <1>7, <1>8, <2>2, <2>3
  <2>6. t.stack_trees = Append(s.stack_trees, Token(s.pointer + 1))
    BY <1>7, <1>9, <1>10, <2>2, <2>3
  <2>7. PICK u : u = Append(s.stack_trees, Token(s.pointer + 1))
    OBVIOUS
  <2>8. t = [pointer |-> s.pointer + 1, stack_trees |-> u,
             nopen_parens |-> s.nopen_parens, ncons_nts |-> 0, nt_index |-> s.nt_index,
             nt_ids |-> s.nt_ids, prev_a |-> "SHIFT"]
    BY ONLY <2>3, <2>5, <2>6, <2>7 DEF IsList
  <2> QED
    BY <2>1, <2>4, <2>7, <2>8
<1>12. ListOf(q.actions) = AsList(q)
  BY <1>1, <1>7, <1>11, ListedDo DEF Listed
<1>13. in_order => Corner(q)
  <2> SUFFICES ASSUME in_order PROVE Corner(q)
    OBVIOUS
  <2>1. ~AfterSubword(item) /\ (item.pointer = 0 \/ ends[item.pointer])
    BY <1>1, Whole
  <2>2. q.last_subword_begin_idx = q.top_position
    BY <1>4, <1>5, <2>1
  <2>3. item.nopen_parens = 0 => item.pointer = 0
    <3>1. "SHIFT" \in InOrderAllowed(item)
      BY DEF Allowed
    <3> QED
      BY <2>1, <3>1, ActionNames DEF InOrderAllowed
  <2>4. Corner(item)
    BY DEF Listed
  <2>5. q.nopen_parens = 0 => q.top_position = IF q.pointer = 0 THEN 0 ELSE 1
    BY <1>7, <1>9, <2>3, <2>4 DEF Corner
  <2>6. q.nopen_parens > 0 => q.nt_index[0] = 1 /\ q.pointer > 0
    BY <1>7, <1>9, <2>4 DEF Corner
  <2> QED
    BY <2>2, <2>5, <2>6 DEF Corner
<1>14. DOMAIN q.trees = 0 .. stack_size - 1 /\ DOMAIN q.nt_ids = 0 .. stack_size - 1
  BY <1>6 DEF Listed
<1> QED
  BY <1>6, <1>8, <1>12, <1>13, <1>14, ActionNames DEF Listed

\* The list of the tensors, as a record.
LEMMA AsListMakes ==
  ASSUME NEW item, NEW a, NEW b, NEW c,
         a = Upto(item.trees, item.top_position), b = Upto(item.nt_index, item.nt_index_pos + 1),
         c = Upto(item.nt_ids, item.nt_index_pos + 1)
  PROVE  AsList(item) =
           [pointer |-> item.pointer, stack_trees |-> a, nopen_parens |-> item.nopen_parens,
            ncons_nts |-> item.ncons_nts, nt_index |-> b, nt_ids |-> c, prev_a |-> Prev(item)]
BY DEF AsList

\* The stack after NT, in either strategy.
LEMMA OpenedIs ==
  ASSUME NEW item, NEW x, NEW w \in Nat, NEW top \in Nat, top = item.top_position, top < w,
         DOMAIN item.trees = 0 .. w - 1,
         in_order => top > 0 /\ item.last_subword_begin_idx = top,
         NEW u, u = Upto(item.trees, top)
  PROVE  /\ DOMAIN Opened(item, x) = 0 .. w - 1
         /\ Upto(Opened(item, x), top + 1) =
              IF in_order THEN InsertAt(u, top, Open(x)) ELSE Append(u, Open(x))
<1>1. PICK f, g : f = item.trees /\ g = Opened(item, x)
  OBVIOUS
<1>2. CASE in_order
  <2>1. g = [i \in 0 .. w - 1 |-> IF i = top - 1 THEN Open(x) ELSE IF i \in top .. top THEN f[i - 1] ELSE f[i]]
    BY <1>1, <1>2 DEF Opened
  <2>2. PICK n \in Nat : n = top - 1 /\ n + 1 = top /\ n + 2 = top + 1
    BY <1>2
  <2>3. g[n] = Open(x)
    BY <2>1, <2>2
  <2>4. f[n] = g[n + 1]
    <3>1. n + 1 \in 0 .. w - 1 /\ n + 1 \in top .. top /\ n + 1 # top - 1 /\ (n + 1) - 1 = n
      BY <2>2
    <3> QED
      BY <2>1, <3>1
  <2>5. Same(g, f, n)
    <3>1. ASSUME NEW i \in 0 .. n - 1 PROVE g[i] = f[i]
      <4>1. i \in Nat /\ i < n /\ n < w
        BY ONLY n \in Nat, w \in Nat, <2>2, top < w, top \in Nat, i \in 0 .. n - 1
      <4>2. i \in 0 .. w - 1 /\ i # top - 1 /\ ~(top <= i)
        BY <2>2, <4>1
      <4>3. i \notin top .. top
        BY <4>2
      <4> QED
        BY <2>1, <4>2, <4>3
    <3> QED
      BY <3>1 DEF Same
  <2>6. Upto(g, n + 2) = InsertAt(Upto(f, n + 1), n + 1, g[n])
    BY <2>4, <2>5, UptoInsert
  <2>7. DOMAIN g = 0 .. w - 1
    BY <2>1
  <2> QED
    BY <1>1, <1>2, <2>2, <2>3, <2>6, <2>7
<1>3. CASE ~in_order
  <2>1. g = [f EXCEPT ![top] = Open(x)]
    BY <1>1, <1>3 DEF Opened
  <2>2. DOMAIN f = 0 .. w - 1 /\ top \in 0 .. w - 1
    BY <1>1
  <2>3. g[top] = Open(x) /\ DOMAIN g = 0 .. w - 1
    BY <2>1, <2>2
  <2>4. Same(g, f, top)
    <3>1. ASSUME NEW i \in 0 .. top - 1 PROVE g[i] = f[i]
      <4>1. i \in 0 .. w - 1 /\ i # top
        OBVIOUS
      <4> QED
        BY <2>1, <2>2, <4>1
    <3> QED
      BY <3>1 DEF Same
  <2>5. Upto(g, top + 1) = Append(Upto(f, top), g[top])
    BY <2>4, UptoAppend
  <2> QED
    BY <1>1, <1>3, <2>3, <2>5
<1> QED
  BY <1>2, <1>3

\* A tensor of w places.
Tensor(f, w) == DOMAIN f = 0 .. w - 1
\* The tensor g is f with x written to one place.
Written(g, f, n, x) == g = [f EXCEPT ![n] = x]

\* A list that is written at its end.
LEMMA UptoWrite ==
  ASSUME NEW f, NEW w \in Nat, Tensor(f, w), NEW n \in 0 .. w - 1, NEW x, NEW g, Written(g, f, n, x)
  PROVE  Upto(g, n + 1) = Append(Upto(f, n), x) /\ DOMAIN g = 0 .. w - 1
<1>0. DOMAIN f = 0 .. w - 1
  BY DEF Tensor
<1>1. g[n] = x /\ DOMAIN g = 0 .. w - 1
  BY <1>0 DEF Written
<1>2. Same(g, f, n)
  <2>1. ASSUME NEW i \in 0 .. n - 1 PROVE g[i] = f[i]
    <3>1. i \in 0 .. w - 1 /\ i # n
      OBVIOUS
    <3> QED
      BY <1>0, <3>1 DEF Written
  <2> QED
    BY <2>1 DEF Same
<1>3. n \in Nat
  OBVIOUS
<1>4. Upto(g, n + 1) = Append(Upto(f, n), g[n])
  BY <1>2, <1>3, UptoAppend
<1> QED
  BY <1>1, <1>4

\* NT(X) puts the same bracket at the same place of the list and of the tensor.
LEMMA ListedNt ==
  ASSUME Sized, WholeWords, NEW item, ItemOK(item), Listed(item), NEW x \in Labels, x \in Allowed(item),
         NEW q, q = Do(item, x)
  PROVE  Listed(q)
<1>1. PlacesOK(item) /\ IsItem(item) /\ item.actions \in Seq(Actions) /\ x \in Actions
  BY AllowedAre DEF ItemOK, PlacesOK
<1>2. PICK p : p = DoNt(item, x)
  OBVIOUS
<1>3. p = Cell(item, x)
  BY <1>2, ActionNames DEF Cell
<1>4. PICK at : at = [item.nt_index EXCEPT ![item.nt_index_pos + 1] = BracketAt(item)]
  OBVIOUS
<1>5. /\ IsItem(p) /\ p.nt_index = at
      /\ p.nt_index_pos = item.nt_index_pos + 1
      /\ p.pointer = item.pointer /\ p.top_position = item.top_position + 1
      /\ p.nopen_parens = item.nopen_parens /\ p.actions = item.actions
      /\ p.last_subword_begin_idx = item.last_subword_begin_idx
  BY <1>1, <1>2, <1>4, NtIs
<1>6. /\ SameBrackets(q, p) /\ q.pointer = p.pointer /\ q.top_position = p.top_position
      /\ q.actions = Append(p.actions, x) /\ q.nopen_parens = p.nopen_parens + 1
  BY <1>3, <1>5, DoIs
<1>7. /\ q.trees = Opened(item, x)
      /\ q.nt_ids = [item.nt_ids EXCEPT ![item.nt_index_pos + 1] = x]
      /\ q.ncons_nts = item.ncons_nts + 1
  <2>1. PICK ids : ids = [item.nt_ids EXCEPT ![item.nt_index_pos + 1] = x]
    OBVIOUS
  <2>2. p.trees = Opened(item, x) /\ p.nt_ids = ids /\ p.ncons_nts = item.ncons_nts
    BY <1>1, <1>2, <2>1, NtTrees
  <2>3. q.trees = p.trees /\ q.nt_ids = p.nt_ids /\ q.ncons_nts = p.ncons_nts + 1
    BY <1>3, <1>5, DoRuns
  <2> QED
    BY <2>1, <2>2, <2>3
<1>8. /\ q.pointer = item.pointer /\ q.top_position = item.top_position + 1
      /\ q.nopen_parens = item.nopen_parens + 1 /\ q.nt_index = at
      /\ q.nt_index_pos = item.nt_index_pos + 1 /\ q.actions = Append(item.actions, x)
  BY <1>5, <1>6 DEF SameBrackets
<1>9. Prev(q) = x /\ PrevIsNt(q)
  BY <1>1, <1>8, PrevIs
<1>10. PICK top \in Nat, w \in Nat, pt \in Nat, n \in Nat :
        /\ top = item.top_position /\ w = stack_size /\ top < w /\ pt = item.pointer
        /\ item.nopen_parens = n /\ n = item.nt_index_pos + 1 /\ n <= top
  <2>1. /\ item.top_position \in Nat /\ stack_size \in Nat /\ item.top_position < stack_size
        /\ item.pointer \in Nat /\ item.nopen_parens \in Nat /\ item.nopen_parens = item.nt_index_pos + 1
        /\ item.nt_index_pos \in Int /\ item.nt_index_pos < item.top_position
    BY <1>1, PlaceNumbers, RoomIs
  <2>2. item.nopen_parens <= item.top_position
    BY <2>1
  <2> QED
    BY <2>1, <2>2
<1>11. in_order => top > 0 /\ item.last_subword_begin_idx = top /\ Corner(item)
  <2> SUFFICES ASSUME in_order PROVE top > 0 /\ item.last_subword_begin_idx = top /\ Corner(item)
    OBVIOUS
  <2>1. ~PrevIsNt(item) /\ item.top_position > 0
    BY <1>1, AllowedNt
  <2> QED
    BY <1>10, <2>1 DEF Listed, Corner
<1>12. PICK b \in Nat : b = BracketAt(item) /\ b = IF in_order THEN top ELSE top + 1
  BY <1>10, <1>11 DEF BracketAt
<1>13. PICK u, v, d : u = Upto(item.trees, top) /\ v = Upto(item.nt_index, n) /\ d = Upto(item.nt_ids, n)
  OBVIOUS
<1>14. PICK z : z = IF in_order THEN InsertAt(u, top, Open(x)) ELSE Append(u, Open(x))
  OBVIOUS
<1>15. Upto(q.trees, top + 1) = z /\ DOMAIN q.trees = 0 .. w - 1
  BY <1>7, <1>10, <1>11, <1>13, <1>14, OpenedIs DEF Listed
<1>16. Upto(q.nt_index, n + 1) = Append(v, b)
  <2>1. DOMAIN item.nt_index = 0 .. w - 1 /\ n \in 0 .. w - 1
    BY <1>1, <1>10 DEF PlacesOK
  <2>2. at = [item.nt_index EXCEPT ![n] = b]
    BY <1>4, <1>10, <1>12
  <2>3. PICK f : f = item.nt_index
    OBVIOUS
  <2>4. Tensor(f, w) /\ Written(at, f, n, b)
    BY <2>1, <2>2, <2>3 DEF Tensor, Written
  <2>5. Upto(at, n + 1) = Append(Upto(f, n), b)
    BY <2>1, <2>4, UptoWrite
  <2> QED
    BY <1>8, <1>13, <2>3, <2>5
<1>17. Upto(q.nt_ids, n + 1) = Append(d, x) /\ DOMAIN q.nt_ids = 0 .. w - 1
  <2>1. PICK f, g : f = item.nt_ids /\ g = q.nt_ids
    OBVIOUS
  <2>2. Tensor(f, w) /\ n \in 0 .. w - 1 /\ Written(g, f, n, x)
    BY <1>7, <1>10, <2>1 DEF Listed, Tensor, Written
  <2>3. Upto(g, n + 1) = Append(Upto(f, n), x) /\ DOMAIN g = 0 .. w - 1
    BY <2>2, UptoWrite
  <2> QED
    BY <1>13, <2>1, <2>3
<1>18. AsList(q) = ListDo(AsList(item), x)
  <2>1. PICK s : s = AsList(item)
    OBVIOUS
  <2>2. /\ IsList(s) /\ s.pointer = pt /\ s.stack_trees = u /\ s.nopen_parens = n
        /\ s.ncons_nts = item.ncons_nts /\ s.nt_index = v /\ s.nt_ids = d
    <3>1. /\ IsList(s)
          /\ s.pointer = item.pointer /\ s.stack_trees = Upto(item.trees, item.top_position)
          /\ s.nopen_parens = item.nopen_parens /\ s.ncons_nts = item.ncons_nts
          /\ s.nt_index = Upto(item.nt_index, item.nt_index_pos + 1)
          /\ s.nt_ids = Upto(item.nt_ids, item.nt_index_pos + 1)
      BY <2>1, AsListIs
    <3> QED
      BY <1>10, <1>13, <3>1
  <2>3. Len(u) = top
    <3>1. PICK f : f = item.trees
      OBVIOUS
    <3>2. u = Upto(f, top)
      BY <1>13, <3>1
    <3> QED
      BY <3>2, UptoLength
  <2>4. PICK e, o : e = Append(v, b) /\ o = Append(d, x)
    OBVIOUS
  <2>5. ListDo(s, x) =
          [pointer |-> pt, stack_trees |-> z, nopen_parens |-> n + 1, ncons_nts |-> item.ncons_nts + 1,
           nt_index |-> e, nt_ids |-> o, prev_a |-> x]
    <3>1. ListDo(s, x) =
           [pointer |-> s.pointer,
            stack_trees |-> IF in_order THEN InsertAt(s.stack_trees, top, Open(x)) ELSE Append(s.stack_trees, Open(x)),
            nopen_parens |-> s.nopen_parens + 1, ncons_nts |-> s.ncons_nts + 1,
            nt_index |-> Append(s.nt_index, IF in_order THEN top ELSE top + 1),
            nt_ids |-> Append(s.nt_ids, x), prev_a |-> x]
      BY <2>2, <2>3, ListNt
    <3> QED
      BY <1>12, <1>14, <2>2, <2>4, <3>1
  <2>6. AsList(q) =
          [pointer |-> q.pointer, stack_trees |-> z, nopen_parens |-> q.nopen_parens,
           ncons_nts |-> q.ncons_nts, nt_index |-> e, nt_ids |-> o, prev_a |-> Prev(q)]
    <3>1. /\ z = Upto(q.trees, q.top_position) /\ e = Upto(q.nt_index, q.nt_index_pos + 1)
          /\ o = Upto(q.nt_ids, q.nt_index_pos + 1)
      BY <1>8, <1>10, <1>15, <1>16, <1>17, <2>4
    <3> QED
      BY <3>1, AsListMakes
  <2>7. q.pointer = pt /\ q.nopen_parens = n + 1 /\ q.ncons_nts = item.ncons_nts + 1 /\ Prev(q) = x
    BY <1>7, <1>8, <1>9, <1>10
  <2> QED
    BY <2>1, <2>5, <2>6, <2>7
<1>19. ListOf(q.actions) = AsList(q)
  BY <1>1, <1>8, <1>18, ListedDo DEF Listed
<1>20. in_order => Corner(q)
  <2> SUFFICES ASSUME in_order PROVE Corner(q)
    OBVIOUS
  <2>1. Corner(item) /\ top > 0 /\ b = top
    BY <1>11, <1>12
  <2>2. q.nopen_parens = n + 1 /\ q.nopen_parens # 0 /\ q.pointer = pt
    BY <1>8, <1>10
  <2>3. at = [item.nt_index EXCEPT ![n] = b] /\ DOMAIN item.nt_index = 0 .. w - 1 /\ 0 \in 0 .. w - 1
    BY <1>1, <1>4, <1>10, <1>12 DEF PlacesOK
  <2>4. CASE n = 0
    <3>1. top = 1 /\ pt # 0
      BY <1>10, <2>1, <2>4 DEF Corner
    <3>2. at[0] = 1
      BY <2>1, <2>3, <2>4, <3>1
    <3> QED
      BY <1>8, <1>9, <2>2, <3>1, <3>2 DEF Corner
  <2>5. CASE n # 0
    <3>1. item.nt_index[0] = 1 /\ pt > 0
      BY <1>10, <2>1, <2>5 DEF Corner
    <3>2. at[0] = 1
      BY <2>3, <2>5, <3>1
    <3> QED
      BY <1>8, <1>9, <2>2, <3>1, <3>2 DEF Corner
  <2> QED
    BY <2>4, <2>5
<1>21. q.ncons_nts \in Nat
  BY <1>7 DEF Listed
<1> QED
  BY <1>9, <1>10, <1>15, <1>17, <1>19, <1>20, <1>21, ActionNames DEF Listed

\* REDUCE takes the same phrase off the list and off the tensor.
LEMMA ListedReduce ==
  ASSUME Sized, NEW item, ItemOK(item), Listed(item), "REDUCE" \in Allowed(item),
         NEW q, q = Do(item, "REDUCE")
  PROVE  Listed(q)
<1>1. PlacesOK(item) /\ IsItem(item) /\ item.actions \in Seq(Actions) /\ "REDUCE" \in Actions /\ BracketsOK(item)
  BY AllowedAre DEF ItemOK, PlacesOK
<1>2. PICK p : p = DoReduce(item)
  OBVIOUS
<1>3. p = Cell(item, "REDUCE")
  BY <1>2, ActionNames DEF Cell
<1>4. PICK top \in Nat, w \in Nat, pt \in Nat, n \in Nat :
        /\ top = item.top_position /\ w = stack_size /\ top < w /\ pt = item.pointer
        /\ item.nopen_parens = n + 1 /\ n = item.nt_index_pos
  <2>1. /\ item.top_position \in Nat /\ stack_size \in Nat /\ item.top_position < stack_size
        /\ item.pointer \in Nat /\ item.nopen_parens = item.nt_index_pos + 1
        /\ item.nt_index_pos \in Int
    BY <1>1, PlaceNumbers
  <2>2. item.nopen_parens > 0
    BY <1>1, AllowedReduce
  <2>3. item.nt_index_pos \in Nat
    BY <2>1, <2>2
  <2> QED
    BY <2>1, <2>3
<1>5. PICK at \in Nat : at = item.nt_index[n] /\ 0 < at /\ at <= top
  <2>1. n \in 0 .. item.nt_index_pos
    BY <1>4
  <2> QED
    BY <1>1, <1>4, <2>1, Brackets
<1>6. at = item.nt_index[item.nt_index_pos]
  BY <1>4, <1>5
<1>7. /\ IsItem(p) /\ p.nt_index = item.nt_index /\ p.nt_index_pos = item.nt_index_pos - 1
      /\ p.pointer = item.pointer /\ p.top_position = at
      /\ p.nopen_parens = item.nopen_parens /\ p.actions = item.actions
      /\ in_order => p.last_subword_begin_idx = at
  BY <1>1, <1>2, <1>6, ReduceIs
<1>8. /\ SameBrackets(q, p) /\ q.pointer = p.pointer /\ q.top_position = p.top_position
      /\ q.last_subword_begin_idx = p.last_subword_begin_idx
      /\ q.actions = Append(p.actions, "REDUCE") /\ q.nopen_parens = p.nopen_parens - 1
  BY <1>3, <1>7, DoIs, ActionNames
<1>9. PICK c : c = [i \in 1 .. top - at |-> item.trees[at + i - 1]]
  OBVIOUS
<1>10. PICK phrase : phrase = Phrase(item.nt_ids[n], item.trees[at - 1], c)
  OBVIOUS
<1>11. PICK runs : runs = IF in_order /\ PrevIsNt(item) THEN item.ncons_nts ELSE 0
  OBVIOUS
<1>12. q.trees = [item.trees EXCEPT ![at - 1] = phrase] /\ q.nt_ids = item.nt_ids /\ q.ncons_nts = runs
  <2>1. /\ p.trees = [item.trees EXCEPT ![at - 1] =
                         Phrase(item.nt_ids[item.nt_index_pos], item.trees[at - 1],
                                [i \in 1 .. item.top_position - at |-> item.trees[at + i - 1]])]
        /\ p.nt_ids = item.nt_ids /\ p.ncons_nts = item.ncons_nts
    BY <1>1, <1>2, <1>6, ReduceTrees
  <2>2. p.trees = [item.trees EXCEPT ![at - 1] = phrase]
    BY <1>4, <1>9, <1>10, <2>1
  <2>3. q.trees = p.trees /\ q.nt_ids = p.nt_ids
        /\ q.ncons_nts = IF in_order /\ PrevIsNt(p) THEN p.ncons_nts ELSE 0
    BY <1>3, <1>7, DoRuns
  <2>4. PrevIsNt(p) <=> PrevIsNt(item)
    BY <1>7 DEF PrevIsNt, Prev
  <2> QED
    BY <1>11, <2>1, <2>2, <2>3, <2>4
<1>13. /\ q.pointer = pt /\ q.top_position = at /\ q.nopen_parens = n /\ q.nt_index = item.nt_index
       /\ q.nt_index_pos = n - 1 /\ q.actions = Append(item.actions, "REDUCE")
       /\ in_order => q.last_subword_begin_idx = at
  <2>1. q.nopen_parens = (n + 1) - 1
    BY <1>4, <1>7, <1>8
  <2> QED
    BY <1>4, <1>7, <1>8, <2>1 DEF SameBrackets
<1>14. Prev(q) = "REDUCE" /\ ~PrevIsNt(q)
  BY <1>1, <1>13, PrevIs, ActionNames
<1>15. PICK f, g : f = item.trees /\ g = q.trees
  OBVIOUS
<1>16. DOMAIN f = 0 .. w - 1 /\ at - 1 \in 0 .. w - 1 /\ g = [f EXCEPT ![at - 1] = phrase]
  <2>1. DOMAIN f = 0 .. w - 1
    BY <1>4, <1>15 DEF Listed
  <2>2. at - 1 \in 0 .. w - 1
    BY <1>4, <1>5
  <2>3. g = [f EXCEPT ![at - 1] = phrase]
    BY <1>12, <1>15
  <2> QED
    BY <2>1, <2>2, <2>3
<1>17. g[at - 1] = phrase /\ DOMAIN g = 0 .. w - 1
  BY <1>16
<1>18. Same(g, f, at - 1)
  <2>1. ASSUME NEW i \in 0 .. (at - 1) - 1 PROVE g[i] = f[i]
    <3>1. i \in 0 .. w - 1 /\ i # at - 1
      BY <1>4, <1>5
    <3> QED
      BY <1>16, <3>1
  <2> QED
    BY <2>1 DEF Same
<1>19. PICK u, v, d : u = Upto(f, top) /\ v = Upto(item.nt_index, n + 1) /\ d = Upto(item.nt_ids, n + 1)
  OBVIOUS
<1>20. PICK r : r = SubSeq(u, at, Len(u))
  OBVIOUS
<1>21. /\ Head(r) = f[at - 1] /\ Tail(r) = [i \in 1 .. top - at |-> f[at + i - 1]]
       /\ Append(SubSeq(u, 1, at - 1), g[at - 1]) = Upto(g, at)
  <2>1. PICK m \in Nat : m = at - 1 /\ m + 1 = at /\ m < top
    <3>1. at - 1 \in Nat /\ (at - 1) + 1 = at /\ at - 1 < top
      BY <1>5
    <3> QED
      BY <3>1
  <2>2. Same(g, f, m)
    BY <1>18, <2>1
  <2>3. /\ Head(SubSeq(Upto(f, top), m + 1, top)) = f[m]
        /\ Tail(SubSeq(Upto(f, top), m + 1, top)) = Above(f, m, top)
        /\ Append(SubSeq(Upto(f, top), 1, m), g[m]) = Upto(g, m + 1)
    <3>1. m < top
      BY <2>1
    <3>2. Reduced(g, f, m, top)
      BY <2>2, <3>1, UptoReduce
    <3> QED
      BY <3>2 DEF Reduced
  <2>5. Len(Upto(f, top)) = top
    BY UptoLength
  <2>4. Above(f, m, top) = [i \in 1 .. top - at |-> f[at + i - 1]]
    <3>1. \A i \in 1 .. top - at : m + i = at + i - 1
      BY <2>1
    <3> QED
      BY <2>1, <3>1 DEF Above
  <2>6. Head(r) = f[m] /\ Tail(r) = Above(f, m, top)
    BY <1>19, <1>20, <2>1, <2>3, <2>5
  <2>7. Append(SubSeq(u, 1, at - 1), g[at - 1]) = Upto(g, at)
    BY <1>19, <2>1, <2>3
  <2> QED
    BY <2>1, <2>4, <2>6, <2>7
<1>22. Front(v) = Upto(item.nt_index, n) /\ Last(v) = at /\ Front(d) = Upto(item.nt_ids, n) /\ Last(d) = item.nt_ids[n]
  BY <1>5, <1>19, UptoFront
<1>23. AsList(q) = ListDo(AsList(item), "REDUCE")
  <2>1. PICK s : s = AsList(item)
    OBVIOUS
  <2>2. /\ IsList(s) /\ s.pointer = pt /\ s.stack_trees = u /\ s.nopen_parens = n + 1
        /\ s.ncons_nts = item.ncons_nts /\ s.nt_index = v /\ s.nt_ids = d /\ s.prev_a = Prev(item)
    <3>1. /\ IsList(s)
          /\ s.pointer = item.pointer /\ s.stack_trees = Upto(item.trees, item.top_position)
          /\ s.nopen_parens = item.nopen_parens /\ s.ncons_nts = item.ncons_nts
          /\ s.nt_index = Upto(item.nt_index, item.nt_index_pos + 1)
          /\ s.nt_ids = Upto(item.nt_ids, item.nt_index_pos + 1) /\ s.prev_a = Prev(item)
      BY <2>1, AsListIs
    <3> QED
      BY <1>4, <1>15, <1>19, <3>1
  <2>3. PICK a, b, e : a = Upto(g, at) /\ b = Upto(item.nt_index, n) /\ e = Upto(item.nt_ids, n)
    OBVIOUS
  <2>4. ListDo(s, "REDUCE") =
          [pointer |-> pt, stack_trees |-> a, nopen_parens |-> n, ncons_nts |-> runs,
           nt_index |-> b, nt_ids |-> e, prev_a |-> "REDUCE"]
    <3>1. ListDo(s, "REDUCE") =
           [pointer |-> s.pointer,
            stack_trees |-> Append(SubSeq(s.stack_trees, 1, Last(s.nt_index) - 1),
                                   Phrase(Last(s.nt_ids), Head(r), Tail(r))),
            nopen_parens |-> s.nopen_parens - 1,
            ncons_nts |-> IF in_order /\ s.prev_a \in Labels THEN s.ncons_nts ELSE 0,
            nt_index |-> Front(s.nt_index), nt_ids |-> Front(s.nt_ids), prev_a |-> "REDUCE"]
      <4>1. r = SubSeq(s.stack_trees, Last(s.nt_index), Len(s.stack_trees))
        BY <1>20, <1>22, <2>2
      <4> QED
        BY <2>2, <4>1, ListReduce
    <3>2. Phrase(Last(d), Head(r), Tail(r)) = phrase
      BY <1>9, <1>10, <1>15, <1>21, <1>22
    <3>3. Append(SubSeq(s.stack_trees, 1, Last(s.nt_index) - 1), Phrase(Last(s.nt_ids), Head(r), Tail(r))) = a
      BY <1>17, <1>21, <1>22, <2>2, <2>3, <3>2
    <3>4. runs = IF in_order /\ s.prev_a \in Labels THEN s.ncons_nts ELSE 0
      BY <1>11, <2>2 DEF PrevIsNt
    <3>5. s.nopen_parens - 1 = n /\ Front(s.nt_index) = b /\ Front(s.nt_ids) = e
      BY <1>22, <2>2, <2>3
    <3> QED
      BY <2>2, <3>1, <3>3, <3>4, <3>5
  <2>5. AsList(q) =
          [pointer |-> q.pointer, stack_trees |-> a, nopen_parens |-> q.nopen_parens,
           ncons_nts |-> q.ncons_nts, nt_index |-> b, nt_ids |-> e, prev_a |-> Prev(q)]
    <3>1. /\ a = Upto(q.trees, q.top_position) /\ b = Upto(q.nt_index, q.nt_index_pos + 1)
          /\ e = Upto(q.nt_ids, q.nt_index_pos + 1)
      <4>1. q.nt_index_pos + 1 = n
        BY <1>13
      <4> QED
        BY <1>12, <1>13, <1>15, <2>3, <4>1
    <3> QED
      BY <3>1, AsListMakes
  <2> QED
    BY <1>12, <1>13, <1>14, <2>1, <2>4, <2>5
<1>24. ListOf(q.actions) = AsList(q)
  BY <1>1, <1>13, <1>23, ListedDo DEF Listed
<1>25. in_order => Corner(q)
  <2> SUFFICES ASSUME in_order PROVE Corner(q)
    OBVIOUS
  <2>1. Corner(item)
    BY DEF Listed
  <2>2. item.nt_index[0] = 1 /\ pt > 0
    BY <1>4, <2>1 DEF Corner
  <2>3. n = 0 => at = 1
    BY <1>5, <2>2
  <2> QED
    BY <1>13, <2>2, <2>3 DEF Corner
<1>26. q.ncons_nts \in Nat
  BY <1>11, <1>12 DEF Listed
<1>27. DOMAIN q.trees = 0 .. stack_size - 1 /\ DOMAIN q.nt_ids = 0 .. stack_size - 1
  BY <1>4, <1>12, <1>15, <1>17 DEF Listed
<1> QED
  BY <1>14, <1>24, <1>25, <1>26, <1>27, ActionNames DEF Listed

-----------------------------------------------------------------------------
(* Listed elements agree with their lists                                  *)

\* An element that was put at the end of a list is taken off again.
LEMMA FrontAppend ==
  ASSUME NEW S, NEW s \in Seq(S), NEW x
  PROVE  Front(Append(s, x)) = s
<1>1. PICK T : T = S \cup {x}
  OBVIOUS
<1>2. s \in Seq(T) /\ x \in T
  BY <1>1
<1>3. PICK n \in Nat : n = Len(s)
  OBVIOUS
<1>4. PICK a : a = Append(s, x)
  OBVIOUS
<1>5. Len(a) = n + 1 /\ SubSeq(a, 1, n) = s
  BY <1>2, <1>3, <1>4
<1>6. (n + 1) - 1 = n
  OBVIOUS
<1> QED
  BY <1>4, <1>5, <1>6 DEF Front

\* What there is to say of a state of the lists that an element agrees with.
LEMMA SameStackIs ==
  ASSUME NEW item, NEW s, NEW n, NEW i, NEW d,
         s.pointer = item.pointer, s.nopen_parens = item.nopen_parens, s.ncons_nts = item.ncons_nts,
         n = IF s.prev_a = "FINISH" THEN Front(s.stack_trees) ELSE s.stack_trees,
         n = Upto(item.trees, item.top_position),
         s.nt_index = Upto(item.nt_index, item.nt_index_pos + 1),
         s.nt_ids = Upto(item.nt_ids, item.nt_index_pos + 1)
  PROVE  SameStack(item, s)
BY DEF SameStack, Upto

\* After FINISH there is no action.
LEMMA NothingAfterFinish ==
  ASSUME in_order, NEW item, Prev(item) = "FINISH", NEW s, s.prev_a = "FINISH"
  PROVE  SameActions(item, s)
<1>1. Allowed(item) = {}
  BY DEF Allowed, InOrderAllowed
<1>2. ListAllowed(s) = {}
  BY DEF ListAllowed, ListInOrderAllowed
<1> QED
  BY <1>1, <1>2 DEF SameActions

\* FINISH pushes zeros on the list's stack, and ends the element.
LEMMA FinishAgrees ==
  ASSUME Sized, NEW item, ItemOK(item), Listed(item), "FINISH" \in Allowed(item),
         NEW q, q = Do(item, "FINISH")
  PROVE  ListsAgree(q)
<1>1. PlacesOK(item) /\ IsItem(item) /\ item.actions \in Seq(Actions) /\ "FINISH" \in Actions /\ in_order
  BY AllowedAre, ActionNames DEF ItemOK, PlacesOK
<1>2. item = Cell(item, "FINISH")
  BY ActionNames DEF Cell
<1>3. /\ SameBrackets(q, item) /\ q.pointer = item.pointer /\ q.top_position = item.top_position
      /\ q.nopen_parens = item.nopen_parens /\ q.actions = Append(item.actions, "FINISH")
  BY <1>1, <1>2, DoIs, ActionNames
<1>4. q.trees = item.trees /\ q.nt_ids = item.nt_ids /\ q.ncons_nts = item.ncons_nts
  BY <1>1, <1>2, DoRuns
<1>5. Prev(q) = "FINISH"
  BY <1>1, <1>3, PrevIs
<1>6. PICK s, t : s = ListOf(item.actions) /\ t = ListOf(q.actions)
  OBVIOUS
<1>7. s = AsList(item)
  BY <1>6 DEF Listed
<1>8. /\ IsList(s)
      /\ s.pointer = item.pointer /\ s.stack_trees = Upto(item.trees, item.top_position)
      /\ s.nopen_parens = item.nopen_parens /\ s.ncons_nts = item.ncons_nts
      /\ s.nt_index = Upto(item.nt_index, item.nt_index_pos + 1)
      /\ s.nt_ids = Upto(item.nt_ids, item.nt_index_pos + 1) /\ s.prev_a = Prev(item)
  BY <1>7, AsListIs
<1>9. t = ListDo(s, "FINISH")
  BY <1>1, <1>3, <1>6, ListOfIs
<1>10. PICK z : z = Append(s.stack_trees, Zeros)
  OBVIOUS
<1>11. t = [s EXCEPT !.stack_trees = z, !.prev_a = "FINISH"]
  BY <1>8, <1>9, <1>10, ListFinish
<1>12. /\ t.pointer = s.pointer /\ t.nopen_parens = s.nopen_parens /\ t.ncons_nts = s.ncons_nts
       /\ t.nt_index = s.nt_index /\ t.nt_ids = s.nt_ids /\ t.prev_a = "FINISH" /\ t.stack_trees = z
  BY <1>8, <1>11 DEF IsList
<1>13. Front(z) = s.stack_trees
  <2>1. PICK n \in Nat : n = item.top_position
    BY <1>1, RoomIs
  <2>6. PICK f, u : f = item.trees /\ u = Upto(f, n)
    OBVIOUS
  <2>2. PICK S : S = {f[i - 1] : i \in 1 .. n}
    OBVIOUS
  <2>3. \A i \in 1 .. n : f[i - 1] \in S
    BY <2>2
  <2>4. u \in Seq(S)
    BY <2>3, <2>6, UptoIs
  <2>5. u = s.stack_trees
    BY <1>8, <2>1, <2>6
  <2> QED
    BY <1>10, <2>4, <2>5, FrontAppend
<1>14. SameStack(q, t)
  BY <1>3, <1>4, <1>8, <1>12, <1>13, SameStackIs DEF SameBrackets
<1>15. SameActions(q, t)
  BY <1>1, <1>5, <1>12, NothingAfterFinish
<1> QED
  BY <1>6, <1>14, <1>15 DEF ListsAgree

\* The element that a search begins with is the empty lists.
LEMMA FirstListed ==
  Sized => Listed(FirstItem)
<1> SUFFICES ASSUME Sized PROVE Listed(FirstItem)
  OBVIOUS
<1>1. PICK w \in Nat : w = stack_size
  BY DEF Sized
<1>2. PICK item : item = FirstItem
  OBVIOUS
<1>3. /\ item.pointer = 0 /\ item.top_position = 0
      /\ item.trees = [i \in 0 .. w - 1 |-> << >>]
      /\ item.nt_index = [i \in 0 .. w - 1 |-> 0]
      /\ item.nt_ids = [i \in 0 .. w - 1 |-> "none"]
      /\ item.nt_index_pos = -1 /\ item.ncons_nts = 0
      /\ item.nopen_parens = 0 /\ item.actions = << >>
  BY <1>1, <1>2 DEF FirstItem
<1>4. Prev(item) = "none"
  BY <1>3 DEF Prev
<1>5. ASSUME NEW f PROVE Upto(f, 0) = << >>
  BY DEF Upto
<1>6. -1 + 1 = 0
  OBVIOUS
<1>7. /\ Upto(item.trees, item.top_position) = << >>
      /\ Upto(item.nt_index, item.nt_index_pos + 1) = << >>
      /\ Upto(item.nt_ids, item.nt_index_pos + 1) = << >>
  BY <1>3, <1>5, <1>6
<1>8. PICK e : e = << >>
  OBVIOUS
<1>9. AsList(item) = FirstList
  <2>1. AsList(item) =
          [pointer |-> item.pointer, stack_trees |-> e, nopen_parens |-> item.nopen_parens,
           ncons_nts |-> item.ncons_nts, nt_index |-> e, nt_ids |-> e, prev_a |-> Prev(item)]
    BY <1>7, <1>8, AsListMakes
  <2>2. FirstList =
          [pointer |-> 0, stack_trees |-> e, nopen_parens |-> 0, ncons_nts |-> 0,
           nt_index |-> e, nt_ids |-> e, prev_a |-> "none"]
    BY <1>8 DEF FirstList
  <2> QED
    BY <1>3, <1>4, <2>1, <2>2
<1>10. ListOf(item.actions) = AsList(item)
  BY <1>3, <1>9, ListOfNone
<1>11. Corner(item)
  BY <1>3 DEF Corner
<1>12. DOMAIN item.trees = 0 .. w - 1 /\ DOMAIN item.nt_ids = 0 .. w - 1
  BY <1>3
<1> QED
  BY <1>1, <1>2, <1>3, <1>4, <1>10, <1>11, <1>12 DEF Listed

\* Top-down both leave the same, while there is room, but for one more bracket.
LEMMA TopDownAgrees ==
  ASSUME Sized, WholeWords, ~in_order, NEW item, PlacesOK(item), item.ncons_nts \in Nat,
         NEW s, s.pointer = item.pointer, s.nopen_parens = item.nopen_parens,
         s.ncons_nts = item.ncons_nts, s.prev_a = Prev(item), StackLength(s) = item.top_position + 1
  PROVE  SameActions(item, s)
<1>1. PICK L \in Nat, pt \in Nat, top \in Nat, o \in Nat, k \in Nat, room \in Nat, left \in Int :
        /\ L = sent_length /\ pt = item.pointer /\ pt <= L /\ top = item.top_position /\ o = item.nopen_parens
        /\ k = item.ncons_nts /\ room = Room(item) /\ left = ActionsLeft(item)
        /\ ToRead(item) = L - pt
  <2>1. /\ item.pointer \in Nat /\ item.top_position \in Nat /\ item.nopen_parens \in Nat
        /\ Room(item) \in Nat /\ ActionsLeft(item) \in Int /\ sent_length \in Nat
    BY RoomIs
  <2>2. item.pointer \in 0 .. sent_length
    BY DEF PlacesOK
  <2>3. item.pointer <= sent_length
    BY <2>1, <2>2
  <2> QED
    BY <2>1, <2>3 DEF ToRead
<1>2. ~AfterSubword(item)
  BY Whole
<1>3. PICK M \in Nat, C \in Nat : M = MaxOpenNts /\ C = MaxConsNts
  BY LimitsAssumption DEF MaxConsNts
<1>4. ASSUME NEW a, a \notin Labels, a # "SHIFT", a # "REDUCE"
      PROVE  a \notin Actions
  BY <1>4 DEF Actions
<1>5. "SHIFT" \in Actions /\ "REDUCE" \in Actions /\ Labels \subseteq Actions
  BY DEF Actions
<1>6. /\ "SHIFT" \in Allowed(item) <=> L - pt > 0 /\ o > 0 /\ room > 1
      /\ "REDUCE" \in Allowed(item) <=>
           o > (IF L - pt > 0 THEN 1 ELSE 0) /\ ~PrevIsNt(item) /\ top >= 2
      /\ \A x \in Labels : x \in Allowed(item) <=>
           L - pt > 0 /\ o < M /\ k < C /\ room > 2 /\ left >= (L - pt) + o + 3
  BY <1>1, <1>2, <1>3, <1>5, ActionNames DEF Allowed, TopDownAllowed
<1>7. /\ "SHIFT" \in ListAllowed(s) <=> ~(pt = L /\ o = 0) /\ o # 0 /\ pt # L
      /\ "REDUCE" \in ListAllowed(s) <=>
           ~(pt = L /\ o = 0) /\ o # 0 /\ ~(o = 1 /\ pt # L) /\ ~PrevIsNt(item) /\ top + 1 >= 3
      /\ \A x \in Labels : x \in ListAllowed(s) <=>
           ~(pt = L /\ o = 0) /\ pt # L /\ o <= M /\ k < C
  BY <1>1, <1>3, <1>5, ActionNames DEF ListAllowed, ListTopDownAllowed, PrevIsNt
<1>8. Allowed(item) \subseteq Actions /\ ListAllowed(s) \subseteq Actions
  BY DEF Allowed, TopDownAllowed, ListAllowed, ListTopDownAllowed
<1>9. ASSUME NEW a \in Allowed(item) PROVE a \in ListAllowed(s)
  <2>1. CASE a = "SHIFT"
    BY <1>1, <1>6, <1>7, <2>1
  <2>2. CASE a = "REDUCE"
    <3>1. o > (IF L - pt > 0 THEN 1 ELSE 0) /\ ~PrevIsNt(item) /\ top >= 2
      BY <1>6, <2>2
    <3>2. o # 0 /\ ~(o = 1 /\ pt # L) /\ top + 1 >= 3
      BY <1>1, <3>1
    <3> QED
      BY <1>7, <2>2, <3>1, <3>2
  <2>3. CASE a \in Labels
    <3>1. L - pt > 0 /\ o < M /\ k < C
      BY <1>6, <2>3
    <3>2. pt # L /\ o <= M
      BY <1>1, <1>3, <3>1
    <3> QED
      BY <1>7, <2>3, <3>1, <3>2
  <2> QED
    BY <1>4, <1>8, <2>1, <2>2, <2>3
<1>10. ASSUME room > 2, left >= (L - pt) + o + 4, NEW a \in ListAllowed(s), a \notin Allowed(item)
       PROVE  a \in Labels /\ o = M
  <2>1. CASE a = "SHIFT"
    <3>1. o # 0 /\ pt # L
      BY <1>7, <2>1
    <3>2. L - pt > 0 /\ o > 0 /\ room > 1
      BY <1>1, <1>10, <3>1
    <3> QED
      BY <1>6, <1>10, <2>1, <3>2
  <2>2. CASE a = "REDUCE"
    <3>1. o # 0 /\ ~(o = 1 /\ pt # L) /\ ~PrevIsNt(item) /\ top + 1 >= 3
      BY <1>7, <2>2
    <3>2. o > (IF L - pt > 0 THEN 1 ELSE 0) /\ top >= 2
      BY <1>1, <3>1
    <3> QED
      BY <1>6, <1>10, <2>2, <3>1, <3>2
  <2>3. CASE a \in Labels
    <3>1. pt # L /\ o <= M /\ k < C
      BY <1>7, <2>3
    <3>2. L - pt > 0 /\ left >= (L - pt) + o + 3
      BY <1>1, <1>10, <3>1
    <3>3. ~(o < M)
      BY <1>6, <1>10, <2>3, <3>1, <3>2
    <3> QED
      BY <1>1, <1>3, <2>3, <3>1, <3>3
  <2> QED
    BY <1>4, <1>8, <2>1, <2>2, <2>3
<1> QED
  BY <1>1, <1>3, <1>9, <1>10 DEF SameActions

\* In order both leave the same, while there is room.
LEMMA InOrderAgrees ==
  ASSUME Sized, WholeWords, in_order, NEW item, PlacesOK(item), item.ncons_nts \in Nat, Corner(item),
         NEW s, s.pointer = item.pointer, s.nopen_parens = item.nopen_parens,
         s.ncons_nts = item.ncons_nts, s.prev_a = Prev(item), StackLength(s) = item.top_position + 1
  PROVE  SameActions(item, s)
<1>1. PICK L \in Nat, pt \in Nat, top \in Nat, o \in Nat, k \in Nat, room \in Nat, left \in Int :
        /\ L = sent_length /\ pt = item.pointer /\ pt <= L /\ top = item.top_position /\ o = item.nopen_parens
        /\ k = item.ncons_nts /\ room = Room(item) /\ left = ActionsLeft(item)
        /\ ToRead(item) = L - pt /\ L # 0
  <2>1. /\ item.pointer \in Nat /\ item.top_position \in Nat /\ item.nopen_parens \in Nat
        /\ Room(item) \in Nat /\ ActionsLeft(item) \in Int /\ sent_length \in Nat
    BY RoomIs
  <2>2. item.pointer \in 0 .. sent_length /\ sent_length # 0
    BY Lengths DEF PlacesOK
  <2>3. item.pointer <= sent_length
    BY <2>1, <2>2
  <2> QED
    BY <2>1, <2>2, <2>3 DEF ToRead
<1>2. ~AfterSubword(item)
  BY Whole
<1>3. PICK M \in Nat, C \in Nat : M = MaxOpenNts /\ C = MaxConsNts
  BY LimitsAssumption DEF MaxConsNts
<1>4. \A a \in Actions : a = "SHIFT" \/ a = "REDUCE" \/ a = "FINISH" \/ a \in Labels
  BY DEF Actions
<1>5. "SHIFT" \in Actions /\ "REDUCE" \in Actions /\ "FINISH" \in Actions /\ Labels \subseteq Actions
  BY DEF Actions
<1>6. PICK ended, nt : ended = (Prev(item) = "FINISH") /\ nt = PrevIsNt(item)
  OBVIOUS
<1>7. /\ "SHIFT" \in Allowed(item) <=>
           ~ended /\ ~(L - pt = 0) /\ room > (IF o = 0 THEN 2 ELSE 1) /\ (o = 0 => pt = 0)
      /\ "REDUCE" \in Allowed(item) <=> ~ended /\ ~(o = 0) /\ ((o >= M \/ k >= C) => L - pt = 0)
      /\ "FINISH" \in Allowed(item) <=> ~ended /\ L - pt = 0 /\ o = 0 /\ top = 1
      /\ \A x \in Labels : x \in Allowed(item) <=>
           /\ ~ended /\ ~nt /\ top > 0 /\ ((o >= M \/ k >= C) => ~(L - pt = 0)) /\ room > 1
           /\ left >= (L - pt) + o + 4
  BY <1>1, <1>2, <1>3, <1>5, <1>6, ActionNames DEF Allowed, InOrderAllowed
<1>8. /\ "SHIFT" \in ListAllowed(s) <=> ~ended /\ pt # L /\ ~(o = 0 /\ pt > 0)
      /\ "REDUCE" \in ListAllowed(s) <=> ~ended /\ o # 0 /\ ((o > M - 1 \/ k > C - 1) => pt = L)
      /\ "FINISH" \in ListAllowed(s) <=> ~ended /\ pt = L /\ o = 0
      /\ \A x \in Labels : x \in ListAllowed(s) <=>
           ~ended /\ top + 1 > 1 /\ ~nt /\ ((o > M - 1 \/ k > C - 1) => pt # L)
  BY <1>1, <1>3, <1>5, <1>6, ActionNames DEF ListAllowed, ListInOrderAllowed, PrevIsNt
<1>9. Allowed(item) \subseteq Actions /\ ListAllowed(s) \subseteq Actions
  BY DEF Allowed, InOrderAllowed, ListAllowed, ListInOrderAllowed
<1>10. /\ L - pt = 0 <=> pt = L
       /\ o >= M <=> o > M - 1
       /\ k >= C <=> k > C - 1
       /\ top + 1 > 1 <=> top > 0
  BY <1>1, <1>3
<1>11. pt = L /\ o = 0 => top = 1
  BY <1>1 DEF Corner
<1>12. ASSUME NEW a \in Allowed(item) PROVE a \in ListAllowed(s)
  <2>1. CASE a = "SHIFT"
    BY <1>1, <1>7, <1>8, <1>10, <2>1
  <2>2. CASE a = "REDUCE"
    BY <1>7, <1>8, <1>10, <2>2
  <2>3. CASE a = "FINISH"
    BY <1>7, <1>8, <1>10, <2>3
  <2>4. CASE a \in Labels
    BY <1>7, <1>8, <1>10, <2>4
  <2> QED
    BY <1>4, <1>9, <2>1, <2>2, <2>3, <2>4
<1>13. ASSUME room > 2, left >= (L - pt) + o + 4, NEW a \in ListAllowed(s) PROVE a \in Allowed(item)
  <2>1. CASE a = "SHIFT"
    <3>1. room > (IF o = 0 THEN 2 ELSE 1)
      BY <1>1, <1>13
    <3>2. o = 0 => pt = 0
      BY <1>1, <1>8, <1>13, <2>1
    <3> QED
      BY <1>7, <1>8, <1>10, <1>13, <2>1, <3>1, <3>2
  <2>2. CASE a = "REDUCE"
    BY <1>7, <1>8, <1>10, <1>13, <2>2
  <2>3. CASE a = "FINISH"
    BY <1>7, <1>8, <1>10, <1>11, <1>13, <2>3
  <2>4. CASE a \in Labels
    <3>1. room > 1
      BY <1>1, <1>13
    <3> QED
      BY <1>7, <1>8, <1>10, <1>13, <2>4, <3>1
  <2> QED
    BY <1>4, <1>9, <1>13, <2>1, <2>2, <2>3, <2>4
<1> QED
  BY <1>1, <1>12, <1>13 DEF SameActions

\* What is listed agrees.
LEMMA ListedAgrees ==
  ASSUME Sized, NEW item, PlacesOK(item), WholeWords => Listed(item)
  PROVE  ListsAgree(item)
<1> SUFFICES ASSUME WholeWords PROVE ListsAgree(item)
  BY DEF ListsAgree, WholeWords
<1>1. PICK s : s = ListOf(item.actions)
  OBVIOUS
<1>2. s = AsList(item) /\ Prev(item) # "FINISH" /\ item.ncons_nts \in Nat /\ (in_order => Corner(item))
  BY <1>1 DEF Listed
<1>3. /\ IsList(s)
      /\ s.pointer = item.pointer /\ s.stack_trees = Upto(item.trees, item.top_position)
      /\ s.nopen_parens = item.nopen_parens /\ s.ncons_nts = item.ncons_nts
      /\ s.nt_index = Upto(item.nt_index, item.nt_index_pos + 1)
      /\ s.nt_ids = Upto(item.nt_ids, item.nt_index_pos + 1) /\ s.prev_a = Prev(item)
  BY <1>2, AsListIs
<1>4. SameStack(item, s)
  BY <1>2, <1>3, SameStackIs
<1>5. StackLength(s) = item.top_position + 1
  <2>1. PICK f, n : f = item.trees /\ n = item.top_position
    OBVIOUS
  <2>2. n \in Nat
    BY <2>1, RoomIs
  <2>3. Len(Upto(f, n)) = n
    BY <2>2, UptoLength
  <2> QED
    BY <1>3, <2>1, <2>3 DEF StackLength
<1>6. SameActions(item, s)
  <2>1. CASE in_order
    BY <1>2, <1>3, <1>5, <2>1, InOrderAgrees
  <2>2. CASE ~in_order
    BY <1>2, <1>3, <1>5, <2>2, TopDownAgrees
  <2> QED
    BY <2>1, <2>2
<1> QED
  BY <1>1, <1>4, <1>6 DEF ListsAgree

-----------------------------------------------------------------------------
(* All elements are listed                                                 *)

\* What is done to the lists depends on the strategy alone.
LEMMA SameListDo ==
  ASSUME UNCHANGED given, NEW s, NEW a
  PROVE  ListDo(s, a)' = ListDo(s, a)
<1>1. in_order' = in_order
  BY DEF given
<1>2. \A x : OpenBracket(s, x)' = OpenBracket(s, x)
  BY <1>1 DEF OpenBracket, Open
<1>3. UpdateStackRNN(s, a)' = UpdateStackRNN(s, a)
  BY <1>2 DEF UpdateStackRNN, Push, ReduceStack, Token, Phrase, Zeros
<1>4. \A t : Counted(t, a)' = Counted(t, a)
  BY <1>1 DEF Counted
<1> QED
  BY <1>3, <1>4 DEF ListDo

\* So the lists of a path stay what they are while what is given stays.
LEMMA SameListOf ==
  ASSUME UNCHANGED given, NEW actions, Len(actions) \in Nat
  PROVE  ListOf(actions)' = ListOf(actions)
<1>1. PICK n \in Nat : n = Len(actions)
  OBVIOUS
<1>2. ASSUME NEW f PROVE Recur(f, actions)' <=> Recur(f, actions)
  <2>1. \A k \in 0 .. n : ListDo(f[k - 1], actions[k])' = ListDo(f[k - 1], actions[k])
    BY SameListDo
  <2>2. FirstList' = FirstList
    BY DEF FirstList
  <2> QED
    BY <1>1, <2>1, <2>2 DEF Recur
<1>3. PICK f : f = CHOOSE h : Recur(h, actions)
  OBVIOUS
<1>4. PICK g : g = CHOOSE h : Recur(h, actions)'
  OBVIOUS
<1>5. Recur(f, actions) /\ Recur(g, actions)
  <2>1. \E h : Recur(h, actions)
    BY <1>1, RecurExists
  <2>2. \E h : Recur(h, actions)'
    BY <1>2, <2>1
  <2>3. Recur(g, actions)'
    BY <1>4, <2>2
  <2> QED
    BY <1>2, <1>3, <2>1, <2>3
<1>6. f[n] = g[n]
  <2>1. /\ f = [k \in 0 .. n |-> IF k = 0 THEN FirstList ELSE ListDo(f[k - 1], actions[k])]
        /\ g = [k \in 0 .. n |-> IF k = 0 THEN FirstList ELSE ListDo(g[k - 1], actions[k])]
    BY <1>1, <1>5 DEF Recur
  <2>2. f[0] = FirstList /\ g[0] = FirstList
    BY <2>1
  <2>3. ASSUME NEW k \in 1 .. n
        PROVE  f[k] = ListDo(f[k - 1], actions[k]) /\ g[k] = ListDo(g[k - 1], actions[k])
    <3>1. k \in 0 .. n /\ k # 0
      OBVIOUS
    <3> QED
      BY <2>1, <3>1
  <2> QED
    BY ONLY n \in Nat, <2>2, <2>3, RecurSame
<1>7. ListOf(actions) = f[n]
  BY <1>1, <1>3 DEF ListOf, Recur
<1>8. ListOf(actions)' = g[n]
  BY <1>1, <1>4 DEF ListOf, Recur
<1> QED
  BY <1>6, <1>7, <1>8

\* Elements that are listed or agree do so while what is given stays.
LEMMA SameLists ==
  ASSUME UNCHANGED given, NEW item, Len(item.actions) \in Nat
  PROVE  (Listed(item)' <=> Listed(item)) /\ (ListsAgree(item)' <=> ListsAgree(item))
<1>1. /\ in_order' = in_order /\ ends' = ends /\ stack_size' = stack_size /\ max_actions' = max_actions
      /\ sent_length' = sent_length /\ Actions' = Actions
  BY DEF given, sent_length, Actions
<1>2. PICK s : s = ListOf(item.actions) /\ s = ListOf(item.actions)'
  BY SameListOf
<1>3. Listed(item)' <=> Listed(item)
  BY <1>1, <1>2 DEF Listed, Corner, AsList, Prev, PrevIsNt
<1>4. Allowed(item)' = Allowed(item)
  BY SameItem
<1>5. ListAllowed(s)' = ListAllowed(s)
  <2>1. ListTopDownAllowed(s)' = ListTopDownAllowed(s)
    BY <1>1 DEF ListTopDownAllowed, MaxConsNts
  <2>2. ListInOrderAllowed(s)' = ListInOrderAllowed(s)
    BY <1>1 DEF ListInOrderAllowed, MaxConsNts
  <2> QED
    BY <1>1, <2>1, <2>2 DEF ListAllowed
<1>6. SameActions(item, s)' <=> SameActions(item, s)
  BY <1>1, <1>4, <1>5 DEF SameActions, Room, ActionsLeft, ToRead
<1>7. SameStack(item, s)' <=> SameStack(item, s)
  BY DEF SameStack
<1>8. ListsAgree(item) <=> (WholeWords => SameStack(item, s) /\ SameActions(item, s))
  BY <1>2 DEF ListsAgree, WholeWords
<1>9. ListsAgree(item)' <=> (WholeWords => (SameStack(item, s) /\ SameActions(item, s))')
  BY <1>1, <1>2 DEF ListsAgree, WholeWords
<1> QED
  BY <1>3, <1>6, <1>7, <1>8, <1>9

\* The elements of the beams are listed, in sentences whose tokens are words; the
\* parses are what FINISH or the last REDUCE has made of such elements.
ListInv ==
  /\ \A e \in beam \cup word_completed : WholeWords => Listed(e.item)
  /\ \A e \in parses : ListsAgree(e.item) /\ Len(e.item.actions) \in Nat

\* Every action but FINISH does to the lists what it does to the tensors.
LEMMA DoLists ==
  ASSUME Sized, WholeWords, NEW item, ItemOK(item), Listed(item), NEW a \in Allowed(item), a # "FINISH"
  PROVE  Listed(Do(item, a))
<1>1. PICK q : q = Do(item, a)
  OBVIOUS
<1>2. CASE a = "SHIFT"
  BY <1>1, <1>2, ListedShift
<1>3. CASE a \in Labels
  BY <1>1, <1>3, ListedNt
<1>4. CASE a = "REDUCE"
  BY <1>1, <1>4, ListedReduce
<1> QED
  BY <1>1, <1>2, <1>3, <1>4, AllowedAre

\* After any action the lists agree with the tensors.
LEMMA DoAgrees ==
  ASSUME Sized, NEW item, ItemOK(item), WholeWords => Listed(item), NEW a \in Allowed(item)
  PROVE  ListsAgree(Do(item, a))
<1>1. PICK q : q = Do(item, a)
  OBVIOUS
<1> SUFFICES ASSUME WholeWords PROVE ListsAgree(q)
  BY <1>1 DEF ListsAgree, WholeWords
<1>2. CASE a = "FINISH"
  BY <1>1, <1>2, FinishAgrees
<1>3. CASE a # "FINISH"
  <2>1. Listed(q) /\ ItemOK(q)
    BY <1>1, <1>3, DoLists, DoKeeps
  <2> QED
    BY <2>1, ListedAgrees DEF ItemOK
<1> QED
  BY <1>2, <1>3

\* The path of an element has a length.
LEMMA PathLength ==
  ASSUME Sized, NEW item, ItemOK(item)
  PROVE  Len(item.actions) \in Nat /\ \A a \in Allowed(item) : Len(Do(item, a).actions) \in Nat
<1>1. PlacesOK(item)
  BY DEF ItemOK
<1>2. ASSUME NEW a \in Allowed(item) PROVE Len(Do(item, a).actions) \in Nat
  <2>1. PICK q : q = Do(item, a)
    OBVIOUS
  <2>2. CASE a # "FINISH"
    <3>1. ItemOK(q)
      BY <2>1, <2>2, DoKeeps
    <3> QED
      BY <2>1, <3>1, RoomIs DEF ItemOK
  <2>3. CASE a = "FINISH"
    <3>1. IsItem(item) /\ item = Cell(item, "FINISH") /\ item.actions \in Seq(Actions) /\ "FINISH" \in Actions
      BY <1>1, <2>3, ActionNames, AllowedAre DEF Cell, PlacesOK
    <3>2. q.actions = Append(item.actions, "FINISH")
      BY <2>1, <2>3, <3>1, DoIs
    <3> QED
      BY <2>1, <3>1, <3>2, PrevIs
  <2> QED
    BY <2>1, <2>2, <2>3
<1> QED
  BY <1>1, <1>2, RoomIs

\* A step of either search.
LEMMA StepLists ==
  ASSUME BeamInv, ListInv, UNCHANGED <<given, parses>>,
         \A e \in word_completed' : e \in word_completed \/ \E s \in Successors : e = Moved(s),
         \A e \in beam' : \E s \in Successors : StaysInBeam(s) /\ e = AfterAction(s)
  PROVE  ListInv'
<1>1. Sized /\ in_order \in BOOLEAN /\ IsFiniteSet(beam) /\ \A e \in beam : Element(e) /\ e.item.pointer = pointer
  BY DEF BeamInv, Given, Sized, BeamsHaveRows, ElementsAreInStep
<1>2. ASSUME NEW s \in Successors
      PROVE  /\ ItemOK(s.item) /\ s.item.pointer = pointer /\ s.action \in Allowed(s.item)
             /\ WholeWords => Listed(s.item)
  <2>1. ItemOK(s.item) /\ s.item.pointer = pointer /\ s.action \in Allowed(s.item)
    BY <1>1, SuccessorsAre
  <2>2. PICK e \in beam : s \in {SuccessorOf(e, a) : a \in Allowed(e.item)}
    BY DEF Successors, SuccessorOf
  <2>3. s.item = e.item
    BY <2>2 DEF SuccessorOf
  <2> QED
    BY <2>1, <2>3 DEF ListInv
<1>3. WholeWords' <=> WholeWords
  BY DEF WholeWords, given
<1>4. ASSUME NEW e \in beam' \cup word_completed' PROVE ItemOK(e.item) /\ (WholeWords => Listed(e.item))
  <2>1. CASE e \in word_completed
    BY <2>1 DEF BeamInv, ElementsAreInStep, Element, ListInv
  <2>2. CASE \E s \in Successors : e = Moved(s)
    BY <1>2, <2>2 DEF Moved
  <2>3. CASE \E s \in Successors : StaysInBeam(s) /\ e = AfterAction(s)
    <3>1. PICK s \in Successors : StaysInBeam(s) /\ e.item = Do(s.item, s.action)
      BY <2>3 DEF AfterAction
    <3>2. PICK item, a : item = s.item /\ a = s.action
      OBVIOUS
    <3>3. ItemOK(item) /\ a \in Allowed(item) /\ (WholeWords => Listed(item)) /\ a # "FINISH"
      BY <1>1, <1>2, <3>1, <3>2, StayingActs
    <3>4. ItemOK(Do(item, a)) /\ (WholeWords => Listed(Do(item, a)))
      BY <1>1, <3>3, DoKeeps, DoLists
    <3> QED
      BY <3>1, <3>2, <3>4
  <2> QED
    BY <2>1, <2>2, <2>3
<1>5. ASSUME NEW e \in beam' \cup word_completed' PROVE WholeWords' => Listed(e.item)'
  <2>1. Len(e.item.actions) \in Nat
    BY <1>1, <1>4, PathLength
  <2> QED
    BY <1>3, <1>4, <2>1, SameLists
<1>6. ASSUME NEW e \in parses' PROVE ListsAgree(e.item)' /\ Len(e.item.actions) \in Nat
  BY SameLists DEF ListInv
<1> QED
  BY <1>5, <1>6 DEF ListInv

\* Going on to the next word, or to the parses.
LEMMA GoOnLists ==
  ASSUME BeamInv, ListInv, NEW kept, GoOnWith(kept), pointer <= sent_length,
         \A e \in kept : Element(e) /\ EndAction \in Allowed(e.item) /\ (WholeWords => Listed(e.item))
  PROVE  ListInv'
<1>1. Sized /\ pointer \in Nat /\ sent_length \in Nat
  BY Lengths DEF BeamInv, Given
<1>2. PICK next : next = {[e EXCEPT !.item = Do(@, EndAction)] : e \in kept}
  OBVIOUS
<1>3. /\ pointer = sent_length => parses' = next /\ beam' = {}
      /\ pointer # sent_length => parses' = parses /\ beam' = next
      /\ word_completed' = {} /\ UNCHANGED given
  BY <1>2 DEF GoOnWith
<1>4. WholeWords' <=> WholeWords
  BY <1>3 DEF WholeWords, given
<1>5. ASSUME NEW n \in next
      PROVE  /\ ListsAgree(n.item) /\ Len(n.item.actions) \in Nat
             /\ pointer # sent_length => (WholeWords => Listed(n.item))
  <2>1. PICK e \in kept : n = [e EXCEPT !.item = Do(@, EndAction)]
    BY <1>2
  <2>2. PICK item, a : item = e.item /\ a = EndAction
    OBVIOUS
  <2>3. ItemOK(item) /\ a \in Allowed(item) /\ (WholeWords => Listed(item))
    BY <2>2 DEF Element
  <2>4. n.item = Do(item, a)
    BY <2>1, <2>2 DEF Element
  <2>5. pointer # sent_length => a # "FINISH"
    BY <1>1, <2>2 DEF EndAction
  <2> QED
    BY <1>1, <2>3, <2>4, <2>5, DoAgrees, PathLength, DoLists
<1>6. ASSUME NEW e \in beam' PROVE WholeWords' => Listed(e.item)'
  <2>1. pointer # sent_length /\ e \in next
    BY <1>3
  <2> QED
    BY <1>3, <1>4, <1>5, <2>1, SameLists
<1>7. ASSUME NEW e \in parses' PROVE ListsAgree(e.item)' /\ Len(e.item.actions) \in Nat
  <2>1. ListsAgree(e.item) /\ Len(e.item.actions) \in Nat
    BY <1>3, <1>5 DEF ListInv
  <2> QED
    BY <1>3, <2>1, SameLists
<1> QED
  BY <1>3, <1>6, <1>7 DEF ListInv

\* A search begins with the empty lists ...
LEMMA ListStart ==
  Init => ListInv
<1> SUFFICES ASSUME Init PROVE ListInv
  OBVIOUS
<1>1. Sized
  BY Start DEF BeamInv, Given
<1>2. beam = {[item |-> FirstItem, bits |-> 0, K |-> sizes.particles]} /\ word_completed = {} /\ parses = {}
  BY DEF Init, Begun
<1>3. ASSUME NEW e \in beam PROVE Listed(e.item)
  <2>1. e.item = FirstItem
    BY <1>2
  <2> QED
    BY <1>1, <2>1, FirstListed
<1> QED
  BY <1>2, <1>3 DEF ListInv

\* ... and so does the second search, whose tensors are longer.
LEMMA ParseAgainLists ==
  ASSUME BeamInv, ParseAgain
  PROVE  ListInv'
<1>1. Sized'
  BY ParseAgainKeeps DEF BeamInv, Given
<1>2. PICK first : first = [item |-> FirstItem', bits |-> 0, K |-> sizes.particles]
  OBVIOUS
<1>3. beam' = {first} /\ word_completed' = {} /\ parses' = {}
  BY <1>2 DEF ParseAgain
<1>4. Listed(FirstItem)'
  <2>1. (Sized => Listed(FirstItem))'
    BY FirstListed, PTL
  <2> QED
    BY <1>1, <2>1
<1>5. first.item = FirstItem'
  BY <1>2
<1>6. Listed(first.item)'
  BY <1>4, <1>5
<1> QED
  BY <1>3, <1>6 DEF ListInv

\* beam_step keeps them listed ...
LEMMA BeamStepLists ==
  ASSUME BeamInv, ListInv, BeamStep
  PROVE  ListInv'
<1>1. /\ IsFiniteSet(Successors) /\ (\A s \in Successors : s.bits \in Nat)
      /\ sizes \in [beam : Nat \ {0}, word_beam : Nat, shift : Nat, particles : Nat]
      /\ rows.completed \in Nat /\ IsFiniteSet(word_completed) /\ Cardinality(word_completed) <= rows.completed
  BY SuccessorsAre DEF BeamInv, Given, Sized, BeamsHaveRows, ElementsAreInStep
<1>2. PICK S : S = Successors
  OBVIOUS
<1>3. PICK within \in Best(sizes.beam, S) :
        \E rescued \in Best(Larger(0, sizes.shift - Cardinality({s \in within : EndsWord(s)})),
                            {s \in S \ within : EndsWord(s)}) :
        \E fitting \in Best(rows.completed - Cardinality(word_completed),
                            {s \in within : EndsWord(s)} \cup rescued) :
          /\ word_completed' = word_completed \cup {Moved(s) : s \in fitting}
          /\ beam' = {AfterAction(s) : s \in {s \in within : StaysInBeam(s)}}
  BY <1>2 DEF BeamStep
<1>4. within \subseteq S /\ IsFiniteSet(within)
  BY <1>1, <1>2, BestFits
<1>5. PICK completing, outside :
        completing = {s \in within : EndsWord(s)} /\ outside = {s \in S \ within : EndsWord(s)}
  OBVIOUS
<1>6. IsFiniteSet(completing) /\ IsFiniteSet(outside)
  BY <1>1, <1>2, <1>4, <1>5, FS_Subset
<1>7. PICK n \in Nat : n = Larger(0, sizes.shift - Cardinality(completing))
  BY <1>1, <1>6, FS_CardinalityType DEF Larger
<1>8. PICK m \in Nat : m = rows.completed - Cardinality(word_completed)
  BY <1>1, FS_CardinalityType
<1>9. PICK rescued \in Best(n, outside) : \E fitting \in Best(m, completing \cup rescued) :
          /\ word_completed' = word_completed \cup {Moved(s) : s \in fitting}
          /\ beam' = {AfterAction(s) : s \in {s \in within : StaysInBeam(s)}}
  BY <1>3, <1>5, <1>7, <1>8
<1>10. PICK U : U = completing \cup rescued
  OBVIOUS
<1>11. PICK fitting \in Best(m, U) :
          /\ word_completed' = word_completed \cup {Moved(s) : s \in fitting}
          /\ beam' = {AfterAction(s) : s \in {s \in within : StaysInBeam(s)}}
  BY <1>9, <1>10
<1>12. rescued \subseteq outside /\ IsFiniteSet(rescued)
  <2>1. \A e \in outside : e.bits \in Nat
    BY <1>1, <1>2, <1>5
  <2> QED
    BY <1>6, <2>1, BestFits
<1>13. fitting \subseteq U
  <2>1. \A e \in U : e.bits \in Nat
    BY <1>1, <1>2, <1>4, <1>5, <1>10, <1>12
  <2>2. IsFiniteSet(U)
    BY <1>6, <1>10, <1>12, FS_Union
  <2> QED
    BY <2>1, <2>2, BestFits
<1>14. fitting \subseteq Successors /\ within \subseteq Successors
  BY <1>2, <1>4, <1>5, <1>10, <1>12, <1>13
<1>15. UNCHANGED <<given, parses>>
  BY DEF BeamStep
<1>16. \A e \in word_completed' : e \in word_completed \/ \E s \in Successors : e = Moved(s)
  BY <1>11, <1>14
<1>17. \A e \in beam' : \E s \in Successors : StaysInBeam(s) /\ e = AfterAction(s)
  BY <1>11, <1>14
<1> QED
  BY <1>15, <1>16, <1>17, StepLists

\* ... and variable_beam_step ...
LEMMA ParticleStepLists ==
  ASSUME BeamInv, ListInv, ParticleStep
  PROVE  ListInv'
<1>1. PICK S : S = {s \in Successors : s.K > 0}
  OBVIOUS
<1>2. PICK completing, staying :
        completing = {s \in S : EndsWord(s)} /\ staying = {s \in S : StaysInBeam(s)}
  OBVIOUS
<1>3. ASSUME NEW n, NEW T, NEW U \in Fitting(n, T) PROVE U \subseteq T
  BY DEF Fitting, kSubset
<1>4. PICK moved \in Fitting(rows'.completed - Cardinality(word_completed), completing) :
        word_completed' = word_completed \cup {Moved(s) : s \in moved}
  BY <1>1, <1>2 DEF ParticleStep
<1>5. PICK stay \in Fitting(rows'.beam, staying) : beam' = {AfterAction(s) : s \in stay}
  BY <1>1, <1>2 DEF ParticleStep
<1>6. moved \subseteq completing /\ stay \subseteq staying
  BY <1>3
<1>7. UNCHANGED <<given, parses>>
  BY DEF ParticleStep
<1>8. \A e \in word_completed' : e \in word_completed \/ \E s \in Successors : e = Moved(s)
  BY <1>1, <1>2, <1>4, <1>6
<1>9. \A e \in beam' : \E s \in Successors : StaysInBeam(s) /\ e = AfterAction(s)
  BY <1>1, <1>2, <1>5, <1>6
<1> QED
  BY <1>7, <1>8, <1>9, StepLists

\* ... and finalize_word_completed_beam ...
LEMMA FinishWordLists ==
  ASSUME BeamInv, ListInv, FinishWord
  PROVE  ListInv'
<1>1. /\ IsFiniteSet(word_completed)
      /\ sizes \in [beam : Nat \ {0}, word_beam : Nat, shift : Nat, particles : Nat]
      /\ \A e \in word_completed : Element(e) /\ EndAction \in Allowed(e.item) /\ (WholeWords => Listed(e.item))
  BY DEF BeamInv, Given, BeamsHaveRows, ElementsAreInStep, ListInv
<1>2. PICK n \in Nat : n = Smaller(WordBeamSize, sizes.beam)
  BY <1>1 DEF WordBeamSize, Smaller
<1>3. PICK kept \in Best(n, word_completed) : GoOnWith(kept)
  BY <1>2 DEF FinishWord
<1>4. kept \subseteq word_completed
  BY <1>1, BestFits DEF Element
<1>5. \A e \in kept : Element(e) /\ EndAction \in Allowed(e.item) /\ (WholeWords => Listed(e.item))
  BY <1>1, <1>4
<1>6. pointer <= sent_length
  BY DEF FinishWord
<1> QED
  BY <1>3, <1>5, <1>6, GoOnLists

\* ... and finalize_particle_beam.
LEMMA FinishParticlesLists ==
  ASSUME BeamInv, ListInv, FinishParticles
  PROVE  ListInv'
<1>1. \A e \in word_completed : Element(e) /\ EndAction \in Allowed(e.item) /\ (WholeWords => Listed(e.item))
  BY DEF BeamInv, ElementsAreInStep, ListInv
<1> DEFINE share(e) == Rounded(sizes.particles * 2 ^ (MaxBits - e.bits), Mass(word_completed))
<1>2. ASSUME NEW x \in Reweighted
      PROVE  Element(x) /\ EndAction \in Allowed(x.item) /\ (WholeWords => Listed(x.item))
  <2>1. PICK e \in word_completed : x = [e EXCEPT !.K = share(e)]
    BY DEF Reweighted
  <2>2. PICK k : k = share(e)
    OBVIOUS
  <2>3. x = [e EXCEPT !.K = k]
    BY <2>1, <2>2
  <2> HIDE DEF share
  <2>4. x = [item |-> e.item, bits |-> e.bits, K |-> k]
    BY <1>1, <2>3 DEF Element
  <2> QED
    BY <1>1, <2>4 DEF Element
<1>3. PICK R : R = Reweighted
  OBVIOUS
<1>4. PICK kept \in Fitting(rows'.beam, R) : GoOnWith(kept)
  BY <1>3 DEF FinishParticles
<1>5. kept \subseteq R
  BY DEF Fitting, kSubset
<1>6. pointer <= sent_length
  BY DEF FinishParticles
<1>7. \A e \in kept : Element(e) /\ EndAction \in Allowed(e.item) /\ (WholeWords => Listed(e.item))
  BY <1>2, <1>3, <1>5
<1> QED
  BY <1>4, <1>6, <1>7, GoOnLists

\* The lists stay when the beams do.
LEMMA ListsStay ==
  ASSUME BeamInv, ListInv, UNCHANGED <<given, search>>
  PROVE  ListInv'
<1>1. beam' = beam /\ word_completed' = word_completed /\ parses' = parses /\ UNCHANGED given
  BY DEF search
<1>2. WholeWords' <=> WholeWords
  BY <1>1 DEF WholeWords, given
<1>3. ASSUME NEW e \in beam \cup word_completed PROVE WholeWords' => Listed(e.item)'
  <2>1. Len(e.item.actions) \in Nat
    BY PathLength DEF BeamInv, Given, ElementsAreInStep, Element
  <2> QED
    BY <1>1, <1>2, <2>1, SameLists DEF ListInv
<1>4. ASSUME NEW e \in parses PROVE ListsAgree(e.item)'
  BY <1>1, SameLists DEF ListInv
<1> QED
  BY <1>1, <1>3, <1>4 DEF ListInv

\* Every step keeps the elements listed.
LEMMA ListStep ==
  BeamInv /\ ListInv /\ [Next]_vars => ListInv'
<1> SUFFICES ASSUME BeamInv, ListInv, [Next]_vars PROVE ListInv'
  OBVIOUS
<1>1. CASE BeamStep
  BY <1>1, BeamStepLists
<1>2. CASE FinishWord
  BY <1>2, FinishWordLists
<1>3. CASE ParticleStep
  BY <1>3, ParticleStepLists
<1>4. CASE FinishParticles
  BY <1>4, FinishParticlesLists
<1>5. CASE Collapse
  BY <1>5, ListsStay DEF Collapse
<1>6. CASE ParseAgain
  BY <1>6, ParseAgainLists
<1>7. CASE Report
  BY <1>7, ListsStay DEF Report
<1>8. CASE Ended \/ UNCHANGED vars
  BY <1>8, ListsStay DEF Ended, vars
<1> QED
  BY <1>1, <1>2, <1>3, <1>4, <1>5, <1>6, <1>7, <1>8 DEF Next

\* What is listed, and what has been parsed, agrees with the lists.
LEMMA InvAgrees ==
  BeamInv /\ ListInv => ListsSayTheSame
<1> SUFFICES ASSUME BeamInv, ListInv, NEW item \in Elements PROVE ListsAgree(item)
  BY DEF ListsSayTheSame
<1>1. PICK e \in beam \cup word_completed \cup parses : item = e.item
  BY DEF Elements
<1>2. CASE e \in parses
  BY <1>1, <1>2 DEF ListInv
<1>3. CASE e \in beam \cup word_completed
  <2>1. ItemOK(item) /\ (WholeWords => Listed(item)) /\ Sized
    BY <1>1, <1>3 DEF BeamInv, Given, ElementsAreInStep, Element, ListInv
  <2> QED
    BY <2>1, ListedAgrees DEF ItemOK
<1> QED
  BY <1>2, <1>3

\* The fixed stacks of the two strategies and the Python lists of the models that
\* came first are the same parser: in a sentence whose tokens are all words, after
\* the same actions, the tensors hold what the lists hold, with what FINISH pushes
\* left out; invalid_action_mask leaves no action that valid_action_mask does not;
\* and while stack and path have room it leaves all of them, but for the one
\* bracket more that the top-down lists let be open.  This is so for any set of
\* labels, sentence, limits and sizes, in a search with particles, and in the
\* second search.
THEOREM ListsAlwaysAgree == Spec => []ListsSayTheSame
<1>1. Spec => [](BeamInv /\ ListInv)
  BY Start, InvStep, ListStart, ListStep, PTL DEF Spec
<1> QED
  BY <1>1, InvAgrees, PTL
=============================================================================
