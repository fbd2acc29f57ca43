--------------------------- MODULE ReadCompressed ---------------------------
(***************************************************************************)
(* util/read_compressed.cc: what read() gives for a file that may be       *)
(* compressed.  A source is the ReadBase that does the reading; Turn is a  *)
(* call of its Read or, for a compressed one, one turn of the loop there.  *)
(* A reader that comes to its end puts another one in its place.           *)
(*                                                                         *)
(* A file is a sequence of units: bytes, or in a compressed part Magic, a  *)
(* few units that stand for some bytes each, and End.                      *)
(***************************************************************************)
EXTENDS Integers, Sequences, SequencesExt, FiniteSets

CONSTANTS MagicSize,    \* kMagicSize, in units
          InputBuffer,  \* kInputBuffer, in units
          Inflated      \* the bytes a compressed unit stands for

ASSUME SizesAssumption == {MagicSize, InputBuffer} \subseteq Nat \ {0}
ASSUME InflatedAssumption == \A unit \in DOMAIN Inflated : Inflated[unit] \in Seq(Nat)

Magic == -1
End == -2

AtMost(a, b) == IF a < b THEN a ELSE b
Rest(s, i) == SubSeq(s, i, Len(s))
FirstOf(s, n) == SubSeq(s, 1, AtMost(n, Len(s)))

\* The bytes of units.
Bytes(units) ==
  FlattenSeq([i \in DOMAIN units |->
    IF units[i] \in DOMAIN Inflated THEN Inflated[units[i]]
    ELSE IF units[i] \in Nat THEN <<units[i]>> ELSE << >>])

\* rest is what the descriptor has not given yet, held what was read and not
\* used, out what is decompressed and was not asked for yet.
Source(kind, held, rest) == [kind |-> kind, held |-> held, rest |-> rest, out |-> << >>]
Broken == Source("thrown", << >>, << >>)   \* an exception instead

DetectMagic(header) == header # << >> /\ header[1] = Magic

ReadFactory(rest, already, require_compressed) ==
  LET missing == IF Len(already) < MagicSize THEN MagicSize - Len(already) ELSE 0
      header == already \o FirstOf(rest, missing)
      later == Rest(rest, Len(header) - Len(already) + 1)
  IN  IF header = << >> THEN Source("Complete", << >>, << >>)
      ELSE IF DetectMagic(header) THEN Source("StreamCompressed", header, later)
      ELSE IF require_compressed THEN Broken
      ELSE Source("UncompressedWithHeader", header, later)

\* A turn gives bytes and what reads on, and may not be the last one of the call.
Got(bytes, source) == [got |-> bytes, source |-> source, returns |-> TRUE]
GoesOn(source) == [got |-> << >>, source |-> source, returns |-> FALSE]

\* read(2) gives any part of what there is, and nothing only at the end.
Uncompressed(source, amount) ==
  IF source.rest = << >> THEN {Got(<< >>, source)}
  ELSE {Got(FirstOf(source.rest, n), [source EXCEPT !.rest = Rest(@, n + 1)]) :
          n \in 1 .. AtMost(amount, Len(source.rest))}

UncompressedWithHeader(source, amount) ==
  LET kept == Rest(source.held, amount + 1)
  IN  {Got(FirstOf(source.held, amount),
           IF kept = << >> THEN Source("Uncompressed", << >>, source.rest)
           ELSE [source EXCEPT !.held = kept])}

\* zlib's inflate: it uses its input up to the end of the member, or until the
\* output is full; it may then already have gone over the end.
Inflate(source, amount) ==
  LET out(k) == source.out \o Bytes(SubSeq(source.held, 1, k))
      stops(k) == \/ Len(out(k)) >= amount \/ k = Len(source.held)
                  \/ k > 0 /\ source.held[k] = End
      first == CHOOSE k \in 0 .. Len(source.held) : stops(k) /\ \A j \in 0 .. k - 1 : ~stops(j)
      over == first < Len(source.held) /\ source.held[first + 1] = End /\ Len(out(first)) = amount
  IN  {[used |-> k, out |-> out(k), ended |-> k > 0 /\ source.held[k] = End] :
         k \in {first} \cup IF over THEN {first + 1} ELSE {}}

\* Without input and output inflate fails (Z_BUF_ERROR): the file is truncated.
StreamCompressed(source, amount) ==
  LET fed == IF source.held # << >> THEN source
             ELSE [source EXCEPT !.held = FirstOf(source.rest, InputBuffer),
                                 !.rest = Rest(source.rest, InputBuffer + 1)]
      after(i) == [fed EXCEPT !.held = Rest(@, i.used + 1), !.out = Rest(i.out, amount + 1)]
      next(i) == IF i.ended THEN ReadFactory(fed.rest, after(i).held, TRUE)
                 ELSE IF i.used = 0 /\ i.out = << >> THEN Broken ELSE after(i)
  IN  {IF i.out = << >> THEN GoesOn(next(i)) ELSE Got(FirstOf(i.out, amount), next(i)) :
         i \in Inflate(fed, amount)}

Turn(source, amount) ==
  CASE source.kind = "Uncompressed" -> Uncompressed(source, amount)
    [] source.kind = "UncompressedWithHeader" -> UncompressedWithHeader(source, amount)
    [] source.kind = "StreamCompressed" -> StreamCompressed(source, amount)
    [] source.kind = "Complete" -> {Got(<< >>, source)}

-----------------------------------------------------------------------------
\* Files without compressed parts, or of nothing but whole ones.
WellFormed(units) ==
  \/ ~DetectMagic(units)
  \/ /\ Last(units) = End
     /\ \A i \in 1 .. Len(units) - 1 : units[i] = End => units[i + 1] = Magic

\* What a source has still to give.
Coming(source) == source.out \o Bytes(source.held) \o Bytes(source.rest)
=============================================================================
