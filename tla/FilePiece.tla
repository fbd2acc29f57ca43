----------------------------- MODULE FilePiece -----------------------------
(***************************************************************************)
(* util/file_piece.*: FilePiece shows a window of a file and moves it on   *)
(* when what is looked for goes past its end: the file is mapped from a    *)
(* page boundary on or, if it cannot be, read into a buffer behind what is *)
(* still unread.  Addresses are relative to data_.begin(), so that the     *)
(* window is what lies below position_end_ and position is position_.      *)
(***************************************************************************)
EXTENDS ReadCompressed

CONSTANTS PageSize,
          MinMapSize  \* what the constructor makes of min_buffer

ASSUME PageAssumption ==
  /\ PageSize \in Nat \ {0} /\ \E n \in 2 .. MinMapSize : MinMapSize = n * PageSize
  /\ MagicSize <= MinMapSize

VARIABLES file,      \* [units, regular: has a size and an offset, faulty: mmap may fail]
          window, position,
          map_size,  \* default_map_size_; 0 before the constructor
          offset,    \* mapped_offset_, as long as the file is mapped
          at_end, fallback,
          source,    \* fell_back_
          wanted,    \* what ReadShift has asked of it, 0 when it is not reading
          skip       \* in FindDelimiterOrEOF what it has looked at, 0 elsewhere

piece == <<file, window, position, map_size, offset, at_end, fallback, source, wanted, skip>>

\* Files there may be: bytes, which stand for themselves, or a whole magic number first.
IsFile(f) ==
  /\ f \in [units : Seq(Int), regular : BOOLEAN, faulty : BOOLEAN]
  /\ \/ f.units \in Seq(Nat \ DOMAIN Inflated)
     \/ Len(f.units) >= MagicSize /\ DetectMagic(f.units)

Newline == 10
Space == 11
Delimiter(c) == c \in {Newline, Space}

PieceInit(f) ==
  /\ file = f
  /\ window = << >> /\ position = 0
  /\ map_size = 0 /\ offset = 0
  /\ at_end = FALSE /\ fallback = FALSE
  /\ source = Source("none", << >>, << >>) /\ wanted = 0 /\ skip = 0

-----------------------------------------------------------------------------
(* The constructor and Shift                                               *)

\* TransitionToRead, when the descriptor is at a, and the ReadShift after it.
\* (mapped_offset_ then only serves messages, and is left out.)
ReadFrom(a, size) ==
  /\ fallback' = TRUE /\ at_end' = FALSE
  /\ source' = ReadFactory(Rest(file.units, a + 1), << >>, FALSE)
  /\ window' = << >> /\ position' = 0
  /\ map_size' = size /\ wanted' = size
  /\ UNCHANGED <<file, offset>>

Mapped(begin, size) == SubSeq(file.units, begin + 1, AtMost(begin + size, Len(file.units)))

\* A mapping that succeeds: it has at least one byte.
Map(desired, size) ==
  LET begin == desired - (desired % PageSize)
  IN  /\ Mapped(begin, size) # << >>
      /\ window' = Mapped(begin, size)
      /\ position' = desired % PageSize
      /\ map_size' = size /\ offset' = begin
      /\ at_end' = (begin + size >= Len(file.units))
      /\ UNCHANGED <<file, fallback, source, wanted>>

\* Initialize.  A compressed file is mapped only to see that it is one.
Open ==
  /\ map_size = 0
  /\ \/ /\ file.regular
        /\ ~(Len(Mapped(0, MinMapSize)) >= MagicSize /\ DetectMagic(Mapped(0, MinMapSize)))
        /\ Map(0, MinMapSize)
     \/ /\ file.regular
        /\ Len(Mapped(0, MinMapSize)) >= MagicSize /\ DetectMagic(Mapped(0, MinMapSize))
        /\ fallback' = TRUE /\ source' = ReadFactory(file.units, << >>, FALSE)
        /\ map_size' = MinMapSize
        /\ UNCHANGED <<file, window, position, offset, at_end, wanted>>
     \/ /\ ~file.regular \/ file.faulty \/ file.units = << >>
        /\ ReadFrom(0, MinMapSize)
  /\ UNCHANGED skip

\* "Duplicate request for Shift means give more data."
MMapShift(from) ==
  LET desired == from + offset
      size == IF from = desired % PageSize THEN 2 * map_size ELSE map_size
  IN  /\ ~fallback
      /\ Map(desired, size) \/ (file.faulty /\ ReadFrom(desired, size))

\* The buffer's unread part moves to its beginning if there is no room behind it
\* or nothing in it.
ReadShift(from) ==
  LET unread == Rest(window, from + 1)
      full == Len(window) = map_size
  IN  /\ fallback
      /\ \/ /\ unread = << >> \/ full
            /\ window' = unread /\ position' = 0
         \/ /\ unread # << >> /\ ~full
            /\ window' = window /\ position' = from
      /\ map_size' = IF full /\ unread = window THEN 2 * map_size ELSE map_size
      /\ wanted' = map_size' - Len(window')
      /\ UNCHANGED <<file, offset, at_end, fallback, source>>

Shift(from, looked_at) ==
  /\ MMapShift(from) \/ ReadShift(from)
  /\ skip' = looked_at

\* A turn of the reading that ReadShift waits for.  An exception ends the program.
Read ==
  /\ wanted > 0 /\ source # Broken
  /\ \E turn \in Turn(source, wanted) :
       /\ source' = turn.source
       /\ IF turn.returns /\ turn.source # Broken
            THEN /\ window' = window \o turn.got
                 /\ at_end' = (turn.got = << >>)
                 /\ wanted' = 0
            ELSE UNCHANGED <<window, at_end, wanted>>
  /\ UNCHANGED <<file, position, map_size, offset, fallback, skip>>

-----------------------------------------------------------------------------
(* ReadWordSameLine and ReadLineOrEOF, when the line has no more words     *)

\* The address of the first such character from a on, or position_end_.
Find(a, sought(_)) ==
  LET found == {i \in a .. Len(window) - 1 : sought(window[i + 1])}
  IN  IF found = {} THEN Len(window) ELSE CHOOSE i \in found : \A j \in found : i <= j

Start == Find(position, LAMBDA c : ~Delimiter(c) \/ c = Newline)
Stop == Find(Start + skip, Delimiter)

Ready == map_size > 0 /\ wanted = 0
InWord == Start < Len(window) /\ window[Start + 1] # Newline

\* (At the end Shift would throw EndOfFileException.)  Between words nothing has to be kept, within one what there is of it.
NeedMore ==
  /\ ~at_end /\ Ready
  /\ \/ Start = Len(window) /\ Shift(Start, 0)
     \/ InWord /\ Stop = Len(window) /\ Shift(Start, Len(window) - Start)

\* Consume
Take(to) ==
  /\ position' = to /\ skip' = 0
  /\ UNCHANGED <<file, window, map_size, offset, at_end, fallback, source, wanted>>

AtWord == Ready /\ InWord /\ (Stop < Len(window) \/ at_end)
TheWord == SubSeq(window, Start + 1, Stop)
AtNewline == Ready /\ Start < Len(window) /\ ~InWord
AtEnd == Ready /\ Start = Len(window) /\ at_end

-----------------------------------------------------------------------------
(* Properties                                                              *)

\* What is unread in the window and what is still to come make up an end of the
\* file: there is no hole and nothing twice when the window moves, mapping gives
\* way to reading, or one member of a compressed file follows another.  Only a
\* broken file makes reading fail.
WindowShowsTheFile ==
  LET content == Bytes(file.units)
      later == IF map_size = 0 THEN content
               ELSE IF fallback THEN Coming(source)
               ELSE Rest(file.units, offset + Len(window) + 1)
  IN  IF source = Broken THEN ~WellFormed(file.units)
      ELSE /\ IsSuffix(Rest(window, position + 1) \o later, content)
           /\ at_end => later = << >>
=============================================================================
