--------------------------- MODULE MCExternalSort ---------------------------
(***************************************************************************)
(* Instances of ExternalSort for TLC.  What is sorted with all memories    *)
(* are corpora of one line of up to seven words, the first one given if    *)
(* there are many, or of two shorter lines, with two words; a block has    *)
(* two records, and a block that holds one record less than that is last.  *)
(* These files are mapped.  What is read in all ways are short files of    *)
(* any content, and compressed ones.                                       *)
(***************************************************************************)
EXTENDS ExternalSort

Spaced(words) == FlattenSeq([i \in DOMAIN words |-> <<words[i], Space>>])
OneLine(n) == {Append(Spaced(words), Newline) : words \in BoundedSeq({3, 4}, n)}
SmallTexts ==
  OneLine(4) \cup {<<3, Space>> \o t : t \in OneLine(6)} \cup {a \o b : a \in OneLine(2), b \in OneLine(2)}
    \cup {a \o Spaced(words) : a \in OneLine(2), words \in BoundedSeq({3, 4}, 2)}
    \cup {<<3, Space, kBOS, Space, 4, Newline>>}
Plain(units) == [units |-> units, regular |-> TRUE, faulty |-> FALSE]

SmallConfig == [buffer_size |-> 2, total_memory |-> 9]
LargerConfig == [buffer_size |-> 7, total_memory |-> 25]

\* 20 and so on stand for compressed bytes.
Words == [u \in {20, 21, 22} |->
            CASE u = 20 -> <<3, Space, 4>> [] u = 21 -> <<4>> [] u = 22 -> <<Newline, 3>>]
Member(units) == <<Magic>> \o units \o <<End>>
OddTexts ==
  BoundedSeq({3, Space, Newline}, 4)
    \cup {<<3>> \o rest : rest \in BoundedSeq({4, Space, Newline}, 4)}
    \cup {<<3, 4, 3, 3, 4>> \o rest : rest \in BoundedSeq({4, Newline}, 2)}
Compressed ==
  {Member(a) \o Member(b) : a, b \in BoundedSeq({20, 21, 22}, 2)}
    \cup {Member(a) : a \in BoundedSeq({20, 22}, 3)}
    \cup {Member(<<20>>) \o <<3>>, <<Magic, 20>>, Member(<<20>>) \o <<Magic, 22>>}
InAllWays(texts) ==
  [units : texts, regular : {TRUE}, faulty : BOOLEAN] \cup [units : texts, regular : {FALSE}, faulty : {FALSE}]

SmallJobs ==
  [file : {Plain(t) : t \in SmallTexts}, config : {SmallConfig, LargerConfig}, use : Uses]
    \cup [file : InAllWays(OddTexts \cup Compressed), config : {LargerConfig}, use : {"steal"}]
=============================================================================
