---------------------------- MODULE CorpusCount ----------------------------
(***************************************************************************)
(* lm/builder/corpus_count.cc: CorpusCount::RunWithVocab reads the corpus  *)
(* word by word from a FilePiece, and its Writer puts the N-gram that ends *)
(* in each word in the block it holds, or counts it there if the block has *)
(* it already.  A full block is handed on and its hash table cleared; the  *)
(* context of the next N-gram has been put aside.  The blocks go to        *)
(* whoever reads sent.                                                     *)
(***************************************************************************)
EXTENDS NGrams, FilePiece

CONSTANT PerBlock  \* records in a block

ASSUME OrderAssumption == Order \in Nat /\ Order >= 2
ASSUME PerBlockAssumption == PerBlock \in Nat \ {0}

VARIABLES context,  \* gram_ but for its last word
          block,    \* the records in block_
          dedupe,   \* dedupe_: the grams that are keys
          sent,     \* blocks handed on and not yet taken
          closed    \* the last block has been handed on

counting == <<piece, context, block, dedupe, sent, closed>>

\* The vocabulary: words are written in digits, and are their own ids.
Id(letters) ==
  LET id[n \in 0 .. Len(letters)] == IF n = 0 THEN 0 ELSE 10 * id[n - 1] + letters[n]
  IN  id[Len(letters)]
Special(word) == word \in {kUNK, kBOS, kEOS}

StartSentence == [i \in 1 .. Order - 1 |-> kBOS]

CountInit(f) ==
  /\ PieceInit(f)
  /\ context = StartSentence
  /\ block = << >> /\ dedupe = {}
  /\ sent = << >> /\ closed = FALSE

\* Fault of AppendWord: the table outlives the block.
AppendUncleared(w) ==
  LET gram == Append(context, w)
      full == Append(block, [gram |-> gram, count |-> 1])
  IN  IF gram \in dedupe
        THEN /\ block' = [i \in DOMAIN block |->
                            IF block[i].gram = gram THEN [block[i] EXCEPT !.count = @ + 1] ELSE block[i]]
             /\ UNCHANGED <<dedupe, sent>>
        ELSE /\ block' = IF Len(full) < PerBlock THEN full ELSE << >>
             /\ sent' = IF Len(full) < PerBlock THEN sent ELSE Append(sent, full)
             /\ dedupe' = dedupe \cup {gram}

\* Writer::Append, but for the context
AppendWord(w) ==
  LET gram == Append(context, w)
      full == Append(block, [gram |-> gram, count |-> 1])
  IN  \/ /\ gram \in dedupe
         /\ block' = [i \in DOMAIN block |->
                        IF block[i].gram = gram THEN [block[i] EXCEPT !.count = @ + 1] ELSE block[i]]
         /\ UNCHANGED <<dedupe, sent>>
      \/ /\ gram \notin dedupe /\ Len(full) < PerBlock
         /\ block' = full
         /\ dedupe' = dedupe \cup {gram}
         /\ UNCHANGED sent
      \/ /\ gram \notin dedupe /\ Len(full) = PerBlock
         /\ sent' = Append(sent, full)
         /\ block' = << >>
         /\ dedupe' = {}

\* A word of the line.  A special word in the corpus counts as whitespace.
ReadWord ==
  /\ ~closed /\ AtWord
  /\ Take(Stop)
  /\ IF Special(Id(TheWord)) THEN UNCHANGED <<context, block, dedupe, sent>>
     ELSE AppendWord(Id(TheWord)) /\ context' = Tail(Append(context, Id(TheWord)))
  /\ UNCHANGED closed

\* The newline, which ReadLineOrEOF finds.
EndLine ==
  /\ ~closed /\ AtNewline
  /\ Take(Start + 1)
  /\ AppendWord(kEOS)
  /\ context' = StartSentence
  /\ UNCHANGED closed

\* The end of the file, which may come before a newline: ~Writer hands on what
\* is in the block, be it nothing.
EndOfFile ==
  /\ ~closed /\ AtEnd
  /\ sent' = Append(sent, block)
  /\ closed' = TRUE
  /\ UNCHANGED <<piece, context, block, dedupe>>

Reading == (Open \/ NeedMore \/ Read) /\ UNCHANGED <<context, block, dedupe, sent, closed>>

Count == Reading \/ ReadWord \/ EndLine \/ EndOfFile

-----------------------------------------------------------------------------
(* What there is to count, said of the whole file at once                  *)

\* The lines as they are to be counted: a last line without a newline has no
\* </s> (ReadLineOrEOF "may not read the last line in the file if the file
\* does not end in a newline").
Lines ==
  LET c == Bytes(file.units)
      newlines == SelectSeq([i \in DOMAIN c |-> i], LAMBDA i : c[i] = Newline)
      ends == SelectSeq([i \in DOMAIN c |-> i],
                        LAMBDA i : ~Delimiter(c[i]) /\ (i = Len(c) \/ Delimiter(c[i + 1])))
      begin(i) == CHOOSE j \in 1 .. i : /\ j = 1 \/ Delimiter(c[j - 1])
                                        /\ \A k \in j .. i : ~Delimiter(c[k])
      line(n) == 1 + Cardinality({k \in DOMAIN newlines : newlines[k] < n})
      words(n) == LET at == SelectSeq(ends, LAMBDA i : line(i) = n)
                  IN  [k \in DOMAIN at |-> Id(SubSeq(c, begin(at[k]), at[k]))]
  IN  [n \in 1 .. Len(newlines) + 1 |->
         SelectSeq(words(n), LAMBDA w : ~Special(w))
           \o IF n <= Len(newlines) THEN <<kEOS>> ELSE << >>]

-----------------------------------------------------------------------------
(* Properties                                                              *)

Entries == [gram : [1 .. Order -> Nat], count : Nat \ {0}]

\* Every variable of the counting keeps its type.
CountTypeOK ==
  /\ {position, map_size, offset, wanted, skip} \subseteq Nat
  /\ {at_end, fallback} \subseteq BOOLEAN
  /\ context \in [1 .. Order - 1 -> Nat]
  /\ block \in Seq(Entries) /\ sent \in Seq(Seq(Entries))
  /\ closed \in BOOLEAN

\* The hash table's keys are the records of the block being filled, one for
\* each, so that a repeat finds the record to count in and nothing in a block
\* that is gone; and there is room for one more record.
TableTellsTheBlock ==
  /\ dedupe = {block[i].gram : i \in DOMAIN block}
  /\ Len(block) = Cardinality(dedupe) /\ Len(block) < PerBlock
=============================================================================
