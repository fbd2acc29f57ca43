---------------------------- MODULE BinaryFormat ----------------------------
(***************************************************************************)
(* lm/binary_format.cc, with what vocab.cc and model.cc do for it: a model *)
(* built from an ARPA file may be written to a binary file while it is     *)
(* built, and other programs map that file instead of building.  The       *)
(* machine may stop at any time; whoever loads the file afterwards has to  *)
(* notice that it is incomplete.                                           *)
(*                                                                         *)
(* Header, vocabulary, search and words follow each other in the file.  An *)
(* area has a level, and only goes up while the file is written:           *)
(*   header  0 none or zeros, 1 kMagicIncomplete, 2 the Sanity block, 3    *)
(*           the parameters of fixed width too, 4 the counts too           *)
(*   vocab, search   0 the file ends before the area's end, 1 not all of   *)
(*           its content is there, 2 whole                                 *)
(*   words   0 no <unk>, 1 words are missing, 2 the end of the last word   *)
(*           is missing, 3 whole                                           *)
(* What the kernel has of the file (cached) survives the program; what is  *)
(* not synced may or may not survive a power failure.                      *)
(***************************************************************************)
EXTENDS ModelQueries

CONSTANTS SavedFiles,   \* the ARPA files that are also written as binary files
          Listings,     \* orders in which a file lists its words; Unk may be one
          Unk,
          Hash(_)       \* HashForVocab

ASSUME SavedAssumption == SavedFiles \subseteq Files
ASSUME ListingsAssumption ==
  \A listing \in Listings :
    /\ listing \in Seq(ToSet(listing))
    /\ \A i, j \in DOMAIN listing : i # j => listing[i] # listing[j]
\* What all of the vocabulary relies on: 64 bits tell words apart.
ASSUME HashAssumption ==
  \A listing \in Listings : \A i, j \in DOMAIN listing :
    Hash(listing[i]) \in Nat /\ (Hash(listing[i]) = Hash(listing[j]) => i = j)

VARIABLE binary

Areas == {"header", "vocab", "search", "words"}
Nothing == [area \in Areas |-> 0]

-----------------------------------------------------------------------------
(* The vocabulary                                                          *)

\* <unk> is word 0 and in no table.
Inserted1Grams == RemoveFirst(binary.listing, Unk)
SawUnk == Unk \in ToSet(binary.listing)

\* GenericFinished: the strings in the order of their hashes.
Sorted(strings) ==
  CHOOSE sorted \in [DOMAIN strings -> ToSet(strings)] :
    \A i, j \in DOMAIN strings : i < j => Hash(sorted[i]) < Hash(sorted[j])

\* What EnumerateVocab is given, from word 0 on: a ProbingVocabulary gives each
\* word as it is inserted, a SortedVocabulary when all have been sorted.
Enumerated ==
  <<Unk>> \o IF structure = "probing" THEN Inserted1Grams ELSE Sorted(Inserted1Grams)

\* Index of the two vocabularies; in the sorted one, the place of its hash among
\* the hashes.
Index(string) ==
  IF string \notin ToSet(Inserted1Grams) THEN 0
  ELSE IF structure = "probing" THEN CHOOSE i \in DOMAIN Inserted1Grams : Inserted1Grams[i] = string
  ELSE 1 + Cardinality({other \in ToSet(Inserted1Grams) : Hash(other) < Hash(string)})

\* Sizes count one unit for a word.  The counts of a trie's header include
\* <unk>, the ARPA file's need not.
DeclaredWords == Len(binary.listing)
HeaderWords == DeclaredWords + IF structure = "trie" /\ ~SawUnk THEN 1 ELSE 0
VocabSize(entries) == entries + 1

UnkCountChangePadding == IF structure = "trie" /\ ~SawUnk THEN 1 ELSE 0
SearchWrittenAt == VocabSize(DeclaredWords) + UnkCountChangePadding
SearchReadAt == VocabSize(HeaderWords)

-----------------------------------------------------------------------------
(* Building                                                                *)

Binary(at, method, include, listing) ==
  [at |-> at, method |-> method, include |-> include, listing |-> listing,
   cached |-> Nothing, synced |-> Nothing,
   loader |-> [structure |-> structure, enumerate |-> FALSE], given |-> << >>]

\* write_mmap, write_method and include_vocab of the configuration.
BinaryInit ==
  \/ binary = Binary("load", "none", FALSE, << >>)
  \/ /\ file \in SavedFiles
     /\ \E method \in {"mmap", "after"}, include \in BOOLEAN, listing \in Listings :
          binary = Binary("setup", method, include, listing)

Mapped == {"header", "vocab", "search"}
Synced(b) == [b EXCEPT !.synced = [a \in Areas |-> IF a \in Mapped THEN b.cached[a] ELSE @[a]]]
InCache(b, found) ==
  [b EXCEPT !.cached = [a \in Areas |-> IF a \in DOMAIN found THEN found[a] ELSE @[a]]]
Goes(at, b) == binary' = [b EXCEPT !.at = at]

\* With WRITE_AFTER the file stays empty and everything is in memory.
SetupJustVocab ==
  /\ binary.at = "setup"
  /\ Goes("grow", IF binary.method = "mmap" THEN InCache(binary, [header |-> 1, vocab |-> 1])
                  ELSE binary)

\* The trie knows its size only when it is about to write its entries.  The
\* file is unmapped, which syncs, resized and mapped again.
GrowForSearch ==
  /\ binary.at = "grow" /\ (structure = "trie" => phase = "write")
  /\ Goes("load", IF binary.method = "mmap" THEN InCache(Synced(binary), [search |-> 1]) ELSE binary)

BuildStep ==
  /\ binary.at = "load" \/ (binary.at = "grow" /\ structure = "trie" /\ phase # "write")
  /\ LoadStep
  /\ UNCHANGED binary

Saving == binary.at = "load" /\ binary.method # "none" /\ Loaded

\* WriteVocabWords: the words go behind everything else; a mapped file is
\* unmapped before, which syncs, and mapped again without them.
WriteVocabWords ==
  /\ Saving
  /\ LET built == IF binary.method = "mmap" THEN InCache(binary, [vocab |-> 2, search |-> 2])
                  ELSE binary
         synced == IF binary.method = "mmap" THEN Synced(built) ELSE built
         there(area) == IF built.cached[area] = 0 THEN 1 ELSE built.cached[area]
     IN  Goes("finish", IF binary.include
                          THEN InCache(synced, [words |-> 3, vocab |-> there("vocab"),
                                                search |-> there("search")])
                          ELSE built)

\* Fault of FinishFile: the header is not kept back until the rest is on disk.
FinishUnsynced ==
  /\ binary.at = "finish"
  /\ \/ binary.method = "mmap" /\ Goes("write_sanity", binary)
     \/ binary.method = "after" /\ Goes("write_vocab", binary)

\* FinishFile, its first half.
FinishFile ==
  /\ binary.at = "finish"
  /\ \/ binary.method = "mmap" /\ Goes("write_sanity", Synced(binary))
     \/ binary.method = "after" /\ Goes("write_vocab", binary)

\* WriteHeader, to the mapping, field by field.
WriteHeader ==
  \/ binary.at = "write_sanity" /\ Goes("write_fixed", InCache(binary, [header |-> 2]))
  \/ binary.at = "write_fixed" /\ Goes("write_counts", InCache(binary, [header |-> 3]))
  \/ binary.at = "write_counts" /\ Goes("sync", InCache(binary, [header |-> 4]))
  \/ binary.at = "sync" /\ Goes("finished", Synced(binary))

\* WRITE_AFTER: the memory is written, beginning with kMagicIncomplete, and
\* synced with the words; the header is one write and is not synced.
WriteAfter ==
  \/ binary.at = "write_vocab" /\ Goes("write_search", InCache(binary, [header |-> 1, vocab |-> 2]))
  \/ binary.at = "write_search" /\ Goes("fsync", InCache(binary, [search |-> 2]))
  \/ binary.at = "fsync" /\ Goes("write_header", [binary EXCEPT !.synced = binary.cached])
  \/ binary.at = "write_header" /\ Goes("finished", InCache(binary, [header |-> 4]))

-----------------------------------------------------------------------------
(* The end of the program, and another one                                 *)

Running == binary.method # "none" /\ binary.at \notin {"stopped", "powerless", "served", "refused", "misread"}

\* The program exits, throws or is killed.
Stop == Running /\ Goes("stopped", binary)

PowerFailure == (Running \/ binary.at = "stopped") /\ Goes("powerless", binary)

\* What is found in the file.  A header written at once is there or not.
Survivors ==
  IF binary.at = "stopped" THEN {binary.cached}
  ELSE {found \in [Areas -> 0 .. 4] :
          /\ \A area \in Areas : found[area] \in binary.synced[area] .. binary.cached[area]
          /\ binary.method = "after" => found.header \notin {2, 3}}

\* The constructor of GenericModel: IsBinaryFormat, ReadHeader, MatchCheck, the
\* request for words that are not there, LoadBinary, ReadWords.  A file without
\* the magic is read as an ARPA file, which it is not.
Refuses(loader, found) ==
  \/ found.header <= 2
  \/ loader.structure # structure
  \/ loader.enumerate /\ ~binary.include
  \/ found.header = 4 /\ 0 \in {found.vocab, found.search}
  \/ binary.include /\ (found.header = 3 \/ found.words = 0)
  \/ loader.enumerate /\ found.words = 1

\* A table that is not where, or what, it should be.
Misreads(found) ==
  \/ found.header = 3
  \/ 1 \in {found.vocab, found.search}
  \/ SearchReadAt # SearchWrittenAt

CutWord == 0 - 1
WordsRead(found) == IF found.words = 3 THEN Enumerated ELSE Front(Enumerated) \o <<CutWord>>

Outcome(loader, found) ==
  IF Refuses(loader, found) THEN "refused" ELSE IF Misreads(found) THEN "misread" ELSE "served"

LoadBinary ==
  /\ binary.at \in {"stopped", "powerless"}
  /\ \E found \in Survivors, kind \in Structures, enumerate \in BOOLEAN :
       LET loader == [structure |-> kind, enumerate |-> enumerate]
           at == Outcome(loader, found)
       IN  Goes(at, [binary EXCEPT !.cached = found, !.synced = found, !.loader = loader,
                                   !.given = IF at = "served" /\ enumerate THEN WordsRead(found)
                                             ELSE << >>])

BinaryStep ==
  \/ BuildStep
  \/ /\ SetupJustVocab \/ GrowForSearch \/ WriteVocabWords \/ FinishFile \/ WriteHeader
        \/ WriteAfter \/ Stop \/ PowerFailure \/ LoadBinary
     /\ UNCHANGED searchVars

\* The model answers queries.
Ready == IF binary.method = "none" THEN Loaded ELSE binary.at = "served"

modelVars == <<searchVars, binary>>

Rejected == binary.at \in {"refused", "misread"} \/ (thrown /\ binary.method = "none")

-----------------------------------------------------------------------------
(* Properties                                                              *)

Whole(found) == found.header = 4 /\ found.vocab = 2 /\ found.search = 2
AllWords(found) == binary.include => found.words = 3

\* "indicates an incomplete binary file (i.e. build failed)": wherever the
\* program or the machine stopped, a file that is accepted has all of the
\* tables where the loader expects them, and the words it gives have the
\* numbers the vocabulary gives them; a complete file is accepted.  There are two gaps:
\* a kill within WriteHeader leaves the magic without the counts, which only
\* the check of the words notices, if the file has words; and the words of a
\* mapped file are not synced before the header, so that a power failure can
\* cut the last one unnoticed.
WhatIsLoadedIsComplete ==
  /\ binary.at = "misread" =>
       binary.method = "mmap" /\ binary.cached.header = 3 /\ ~binary.include
  /\ binary.at = "served" =>
       /\ Whole(binary.cached) /\ (binary.method = "after" => AllWords(binary.cached))
       /\ \A i \in DOMAIN binary.given :
            \/ Index(binary.given[i]) = i - 1
            \/ i = Len(binary.given) /\ ~AllWords(binary.cached)
  /\ binary.at = "refused" /\ Whole(binary.cached) /\ AllWords(binary.cached) =>
       binary.loader.structure # structure \/ (binary.loader.enumerate /\ ~binary.include)
=============================================================================
