----------------------------- MODULE ParseTrees -----------------------------
(***************************************************************************)
(* The RNNG's trees and actions outside the search: the actions that       *)
(* preprocess.py and utils.py make from the trees of the training data,    *)
(* the size of the stack they say those need, and the bracketing that      *)
(* action_dict.py makes from the actions of a parse.                       *)
(*                                                                         *)
(* Trees are as the stack has them, and the pieces of a word are tokens of *)
(* their own.  A bracketing is a sequence of brackets with labels and of   *)
(* tokens.                                                                 *)
(***************************************************************************)
EXTENDS BeamSearch

IsPhrase(tree) == tree[1] = "phrase"
Label(tree) == tree[2]
Children(tree) == tree[4]

FlatMap(f(_), s) == FlattenSeq([i \in DOMAIN s |-> f(s[i])])

RECURSIVE GetActions(_), InOrderActions(_)

\* get_actions of preprocess.py
GetActions(tree) ==
  IF IsPhrase(tree)
    THEN <<Label(tree)>> \o FlatMap(GetActions, Children(tree)) \o <<"REDUCE">>
    ELSE <<"SHIFT">>

\* The first child with, if it is a piece of a word, the rest of the word.
LeftCorner(children) ==
  IF IsPhrase(children[1]) THEN 1
  ELSE Min({i \in DOMAIN children : ~IsPhrase(children[i]) /\ ends[children[i][2]]})

\* get_actions_recur of get_in_order_actions
InOrderActions(tree) ==
  IF ~IsPhrase(tree) THEN <<"SHIFT">>
  ELSE LET n == LeftCorner(Children(tree))
       IN  FlatMap(InOrderActions, SubSeq(Children(tree), 1, n))
             \o <<Label(tree)>>
             \o FlatMap(InOrderActions, SubSeq(Children(tree), n + 1, Len(Children(tree))))
             \o <<"REDUCE">>

Oracle(tree) == IF in_order THEN InOrderActions(tree) \o <<"FINISH">> ELSE GetActions(tree)

-----------------------------------------------------------------------------
(* get_top_down_max_stack_size and get_in_order_max_stack_size: their      *)
(* stack of "w", "(", 1 and tokens.                                        *)

\* The places from which the left corner on top reaches: a phrase, or a word
\* with its pieces.
CornerBegin(stack) ==
  LET n == Len(stack)
  IN  IF stack[n] \in {"(", "phrase"} THEN n
      ELSE Min({i \in 1 .. n : \A j \in i .. n - 1 : stack[j] = "piece"})

SizeStep(stack, a, ends_word) ==
  IF a = "SHIFT" THEN Append(stack, IF ends_word THEN "word" ELSE "piece")
  ELSE IF a = "REDUCE"
    THEN Append(SubSeq(stack, 1, Max({i \in DOMAIN stack : stack[i] = "("}) - 1), "phrase")
  ELSE IF a \in Labels
    THEN IF in_order THEN InsertAt(stack, CornerBegin(stack), "(") ELSE Append(stack, "(")
  ELSE stack

\* Fault of MaxStackSize: what is on the stack after a phrase is closed.
MaxStackSizeClosed(actions) ==
  LET shifts(k) == Cardinality({j \in 1 .. k : actions[j] = "SHIFT"})
      stack[k \in 0 .. Len(actions)] ==
        IF k = 0 THEN << >>
        ELSE SizeStep(stack[k - 1], actions[k], actions[k] = "SHIFT" => ends[shifts(k)])
  IN  Max({0} \cup {Len(stack[k]) : k \in {j \in 1 .. Len(actions) : actions[j] = "REDUCE"}})

MaxStackSize(actions) ==
  LET shifts(k) == Cardinality({j \in 1 .. k : actions[j] = "SHIFT"})
      stack[k \in 0 .. Len(actions)] ==
        IF k = 0 THEN << >>
        ELSE SizeStep(stack[k - 1], actions[k], actions[k] = "SHIFT" => ends[shifts(k)])
  IN  Max({Len(stack[k]) : k \in 0 .. Len(actions)})

-----------------------------------------------------------------------------
(* build_tree_str of the two dictionaries.  A word is there when its last  *)
(* piece has been shifted.                                                 *)

Shifted(actions, k) == Cardinality({j \in 1 .. k : actions[j] = "SHIFT"})
WordOf(actions, k) ==
  LET n == Shifted(actions, k)
      begin == Max({i \in 1 .. n : i = 1 \/ ends[i - 1]})
  IN  IF ends[n] THEN [i \in 1 .. n - begin + 1 |-> Token(begin + i - 1)] ELSE << >>
Close == <<")">>

TopDownTreeStr(actions) ==
  FlattenSeq([k \in DOMAIN actions |->
    IF actions[k] = "SHIFT" THEN WordOf(actions, k)
    ELSE IF actions[k] = "REDUCE" THEN <<Close>> ELSE <<Open(actions[k])>>])

\* Its stack of strings; "find until open elem (only '(' exists) is found".
IsOpen(str) == Len(str) = 1 /\ str[1][1] = "open"
InOrderTreeStr(actions) ==
  LET stack[k \in 0 .. Len(actions)] ==
        IF k = 0 THEN << >>
        ELSE LET s == stack[k - 1]
                 a == actions[k]
             IN  IF a = "SHIFT" THEN (IF WordOf(actions, k) = << >> THEN s ELSE Append(s, WordOf(actions, k)))
                 ELSE IF a = "REDUCE"
                   THEN LET i == Max({j \in DOMAIN s : IsOpen(s[j])})
                        IN  Append(SubSeq(s, 1, i - 1),
                                   Append(FlattenSeq(SubSeq(s, i, Len(s))), Close))
                 ELSE IF a \in Labels THEN Front(s) \o <<<<Open(a)>>, Last(s)>>
                 ELSE s
  IN  FlattenSeq(stack[Len(actions)])

BuildTreeStr(actions) == IF in_order THEN InOrderTreeStr(actions) ELSE TopDownTreeStr(actions)

-----------------------------------------------------------------------------
(* Reference: nothing in the code computes what follows.                   *)

\* The bracketing of what is on a stack, but for the pieces of a word that has
\* not been read to its end.
RECURSIVE Brackets(_)
Brackets(element) ==
  IF element[1] \in {"token", "open"} THEN <<element>>
  ELSE <<element[3]>> \o FlatMap(Brackets, Children(element)) \o <<Close>>

StackBrackets(item) ==
  LET read == Max({0} \cup {i \in 1 .. item.pointer : ends[i]})
  IN  SelectSeq(FlatMap(Brackets, [i \in 1 .. item.top_position |-> item.trees[i - 1]]),
                LAMBDA symbol : symbol[1] = "token" => symbol[2] <= read)

BeginsWord(i) == i = 1 \/ ends[i - 1]

\* The sequences of trees of at most depth d over the tokens from i to j; a
\* phrase has whole words.
RECURSIVE Forests(_, _, _)
Forests(d, i, j) ==
  IF i > j THEN {<< >>}
  ELSE {<<Token(i)>> \o rest : rest \in Forests(d, i + 1, j)}
       \cup IF d = 0 \/ ~BeginsWord(i) THEN {}
            ELSE UNION {{<<Phrase(x, Open(x), children)>> \o rest :
                           x \in Labels, children \in Forests(d - 1, i, k),
                           rest \in Forests(d, k + 1, j)} :
                        k \in {k \in i .. j : ends[k]}}

\* One tree; in order the tree of a one-word sentence may be its token.
Trees(d) ==
  {f[1] : f \in {g \in Forests(d, 1, sent_length) : Len(g) = 1 /\ (in_order \/ IsPhrase(g[1]))}}

-----------------------------------------------------------------------------
(* Properties                                                              *)

\* The elements of the beam are "word-synchronized": all have read the same
\* words, and each stack holds the bracketing that build_tree_str makes of the
\* element's actions, and what the lists of the first implementation hold.
StacksAreWhatActionsSay ==
  /\ \A item \in Elements :
       /\ item.pointer = pointer - IF item \in {p.item : p \in parses} THEN 1 ELSE 0
       /\ StackBrackets(item) = BuildTreeStr(item.actions)
  /\ ListsSayTheSame

\* From i to j there are brackets only, as invalid_action_mask counts them.
NtRun(actions, i, j) ==
  \A k \in i .. j :
    \/ actions[k] \in Labels
    \/ in_order /\ actions[k] = "REDUCE" /\ k > i /\ actions[k - 1] \in Labels

\* The actions keep clear of the limits on their number and on consecutive brackets.
WithinLimits(actions) ==
  /\ Len(actions) + 4 <= max_actions
  /\ \A i, j \in DOMAIN actions :
       i <= j /\ NtRun(actions, i, j) =>
         Cardinality({k \in i .. j : actions[k] \in Labels}) <= MaxConsNts - IF in_order THEN 1 ELSE 0

\* The search has found what preprocessing makes actions of: the actions of each
\* parse are those of the tree on its stack; and with a beam that holds everything
\* there is every tree that keeps clear of the limits.
FindsTheTrees ==
  /\ \A p \in parses :
       p.item.top_position = 1 /\ p.item.actions = Oracle(p.item.trees[0])
  /\ status # "searching" /\ sizes.beam >= Everything =>
       {t \in Trees(MaxOpenNts - IF in_order THEN 1 ELSE 0) : WithinLimits(Oracle(t))}
         \subseteq {p.item.trees[0] : p \in parses}

\* The stack that preprocessing says a tree needs is what its actions take.
MaxStackSizeIsExact ==
  \A p \in parses :
    LET actions == p.item.actions
        item[k \in 0 .. Len(actions)] == IF k = 0 THEN FirstItem ELSE Cell(item[k - 1], actions[k])
    IN  MaxStackSize(actions) = Max({item[k].top_position : k \in 0 .. Len(actions)})
=============================================================================
