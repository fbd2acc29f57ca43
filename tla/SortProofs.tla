---------------------------- MODULE SortProofs ----------------------------
(***************************************************************************)
(* Proofs about ExternalSort and what it reads from: CorpusCount,          *)
(* FilePiece and ReadCompressed.                                           *)
(*                                                                         *)
(* The inductive invariant, Shape, is about lengths and places, whatever   *)
(* the records are: what the log of lengths tells is what the file has;    *)
(* a group has memory for two buffers, or for all its runs; an entry of    *)
(* the queue has a record in its buffer; the buffers are apart.  Before it *)
(* come facts about sequences and sums that the recursive functions of the *)
(* model need, each by induction on a set of numbers, then the types of    *)
(* what the reading and the counting keep, and what AppendLength,          *)
(* FinishedAppending and NextSize do to a log.                             *)
(***************************************************************************)
EXTENDS ExternalSort, FiniteSetTheorems, SequenceTheorems, WellFoundedInduction, TLAPS

-----------------------------------------------------------------------------
(* Numbers, sequences and recursion                                        *)

\* A set of numbers has a least element, as a relation sees it.
LEMMA LeastBy ==
  ASSUME NEW R, IsWellFoundedOn(R, Nat), NEW T, T \subseteq Nat, T # {}
  PROVE  \E x \in T : \A y \in T : ~ (<<y, x>> \in R)
BY WFMin

\* A set of numbers has a least element.
LEMMA Least ==
  ASSUME NEW T, T \subseteq Nat, T # {}
  PROVE  \E x \in T : \A y \in T : x <= y
<1>1. PICK R : IsWellFoundedOn(R, Nat) /\ \A x, y \in Nat : <<x, y>> \in R <=> x < y
  <2>1. \A x, y \in Nat : <<x, y>> \in OpToRel(<, Nat) <=> x < y
    BY DEF OpToRel
  <2> QED
    BY <2>1, NatLessThanWellFounded
<1>2. \E x \in T : \A y \in T : ~ (<<y, x>> \in R)
  BY <1>1, LeastBy
<1>3. PICK x \in T : \A y \in T : ~ (<<y, x>> \in R)
  BY <1>2
<1>4. ASSUME NEW y \in T PROVE x <= y
  <2>1. x \in Nat /\ y \in Nat
    OBVIOUS
  <2>2. ~(y < x)
    BY <1>1, <1>3, <2>1
  <2> QED
    BY <2>1, <2>2
<1> QED
  BY <1>4

\* Induction, for a set of numbers.
LEMMA Induction ==
  ASSUME NEW S, 0 \in S, \A n \in Nat : n \in S => n + 1 \in S
  PROVE  Nat \subseteq S
<1> SUFFICES ASSUME NEW m \in Nat, m \notin S PROVE FALSE
  OBVIOUS
<1>1. PICK T : T = {n \in Nat : n \notin S}
  OBVIOUS
<1>2. T \subseteq Nat /\ T # {}
  BY <1>1
<1>3. \E x \in T : \A y \in T : x <= y
  BY <1>2, Least
<1>4. PICK x \in T : \A y \in T : x <= y
  BY <1>3
<1>5. x \in Nat /\ x \notin S /\ x # 0
  BY <1>1
<1>6. x - 1 \in Nat /\ ~(x <= x - 1) /\ (x - 1) + 1 = x
  BY <1>5
<1>7. x - 1 \notin T
  BY <1>4, <1>6
<1> QED
  BY <1>1, <1>5, <1>6, <1>7

\* What a sequence is made of, one step after another.
Built(f, n, a, step) == f[0] = a /\ \A k \in 1 .. n : f[k] = step[<<k, f[k - 1]>>]

\* There is one.
LEMMA BuiltExists ==
  ASSUME NEW S, NEW a \in S, NEW n \in Nat, NEW step \in [(1 .. n) \X S -> S]
  PROVE  \E f \in [0 .. n -> S] : Built(f, n, a, step)
<1>1. PICK I : I = {m \in Nat : m <= n => \E f \in [0 .. m -> S] : Built(f, m, a, step)}
  OBVIOUS
<1>2. 0 \in I
  <2>1. PICK f : f = [k \in 0 .. 0 |-> a]
    OBVIOUS
  <2>2. f \in [0 .. 0 -> S] /\ f[0] = a /\ 1 .. 0 = {}
    BY <2>1
  <2>3. Built(f, 0, a, step)
    BY <2>2 DEF Built
  <2> QED
    BY <1>1, <2>2, <2>3
<1>3. ASSUME NEW m \in Nat, m \in I PROVE m + 1 \in I
  <2> SUFFICES ASSUME m + 1 <= n
               PROVE  \E f \in [0 .. m + 1 -> S] : Built(f, m + 1, a, step)
    BY <1>1
  <2>1. PICK g \in [0 .. m -> S] : Built(g, m, a, step)
    BY <1>1, <1>3
  <2>2. PICK f : f = [k \in 0 .. m + 1 |-> IF k <= m THEN g[k] ELSE step[<<m + 1, g[m]>>]]
    OBVIOUS
  <2>3. g[m] \in S /\ <<m + 1, g[m]>> \in (1 .. n) \X S
    BY <2>1
  <2>4. step[<<m + 1, g[m]>>] \in S
    BY <2>3
  <2>5. f \in [0 .. m + 1 -> S] /\ f[m + 1] = step[<<m + 1, g[m]>>] /\ \A k \in 0 .. m : f[k] = g[k]
    BY <2>1, <2>2, <2>4
  <2>6. ASSUME NEW k \in 1 .. m + 1 PROVE f[k] = step[<<k, f[k - 1]>>]
    <3>1. CASE k = m + 1
      <4>1. k - 1 = m /\ m \in 0 .. m
        BY <3>1
      <4> QED
        BY <2>5, <3>1, <4>1
    <3>2. CASE k # m + 1
      <4>1. k \in 1 .. m /\ k \in 0 .. m /\ k - 1 \in 0 .. m
        BY <3>2
      <4> QED
        BY <2>1, <2>5, <4>1 DEF Built
    <3> QED
      BY <3>1, <3>2
  <2>7. f[0] = a
    BY <2>1, <2>5 DEF Built
  <2> QED
    BY <2>5, <2>6, <2>7 DEF Built
<1>4. n \in I
  BY <1>2, <1>3, Induction
<1> QED
  BY <1>1, <1>4

\* A sequence has its elements at the numbers up to its length.
LEMMA SeqFacts ==
  ASSUME NEW S, NEW s \in Seq(S)
  PROVE  Len(s) \in Nat /\ DOMAIN s = 1 .. Len(s) /\ \A i \in 1 .. Len(s) : s[i] \in S
OBVIOUS

\* A function on the numbers up to n is a sequence of length n.
LEMMA FunctionIsSeq ==
  ASSUME NEW S, NEW n \in Nat, NEW f \in [1 .. n -> S]
  PROVE  f \in Seq(S) /\ Len(f) = n
<1>1. f \in Seq(S)
  BY SeqDef
<1> QED
  BY <1>1, LenProperties

\* The rest of a sequence, and its first elements.
LEMMA RestFacts ==
  ASSUME NEW S, NEW s \in Seq(S), NEW i \in Nat \ {0}
  PROVE  /\ Rest(s, i) \in Seq(S)
         /\ Len(Rest(s, i)) = IF i <= Len(s) THEN Len(s) - i + 1 ELSE 0
         /\ \A j \in 1 .. Len(Rest(s, i)) : Rest(s, i)[j] = s[i + j - 1]
<1>1. Len(s) \in Nat /\ \A j \in 1 .. Len(s) : s[j] \in S
  BY SeqFacts
<1>2. \A j \in i .. Len(s) : s[j] \in S
  BY <1>1
<1>3. /\ SubSeq(s, i, Len(s)) \in Seq(S)
      /\ Len(SubSeq(s, i, Len(s))) = IF i <= Len(s) THEN Len(s) - i + 1 ELSE 0
      /\ \A j \in 1 .. Len(s) - i + 1 : SubSeq(s, i, Len(s))[j] = s[i + j - 1]
  BY <1>1, <1>2, SubSeqProperties
<1> QED
  BY <1>1, <1>3 DEF Rest

\* The length and the elements of a beginning.
LEMMA FirstOfFacts ==
  ASSUME NEW S, NEW s \in Seq(S), NEW n \in Nat
  PROVE  /\ FirstOf(s, n) \in Seq(S)
         /\ Len(FirstOf(s, n)) = IF n < Len(s) THEN n ELSE Len(s)
         /\ \A j \in 1 .. Len(FirstOf(s, n)) : FirstOf(s, n)[j] = s[j]
<1>1. Len(s) \in Nat /\ \A j \in 1 .. Len(s) : s[j] \in S
  BY SeqFacts
<1>2. PICK m \in Nat : m = AtMost(n, Len(s)) /\ m <= Len(s) /\ m = IF n < Len(s) THEN n ELSE Len(s)
  BY <1>1 DEF AtMost
<1>3. \A j \in 1 .. m : s[j] \in S
  BY <1>1, <1>2
<1>4. /\ SubSeq(s, 1, m) \in Seq(S)
      /\ Len(SubSeq(s, 1, m)) = IF 1 <= m THEN m - 1 + 1 ELSE 0
      /\ \A j \in 1 .. m - 1 + 1 : SubSeq(s, 1, m)[j] = s[1 + j - 1]
  BY <1>1, <1>2, <1>3, SubSeqProperties
<1>5. \A j \in 1 .. m : j \in 1 .. m - 1 + 1 /\ 1 + j - 1 = j
  BY <1>2
<1> QED
  BY <1>2, <1>4, <1>5 DEF FirstOf

\* A sequence of sequences laid end to end.
LEMMA FlattenType ==
  ASSUME NEW S, NEW s \in Seq(Seq(S))
  PROVE  FlattenSeq(s) \in Seq(S)
<1>1. Len(s) \in Nat /\ \A i \in 1 .. Len(s) : s[i] \in Seq(S)
  BY SeqFacts
<1>2. CASE Len(s) = 0
  BY <1>2, EmptySeq DEF FlattenSeq
<1>3. CASE Len(s) # 0
  <2>1. Len(s) - 1 \in Nat
    BY <1>1, <1>3
  <2>2. PICK n \in Nat : n = Len(s) - 1
    BY <2>1
  <2>3. PICK step : step = [p \in (1 .. n) \X Seq(S) |-> p[2] \o s[p[1] + 1]]
    OBVIOUS
  <2>4. ASSUME NEW k \in 1 .. n, NEW t \in Seq(S)
        PROVE  step[<<k, t>>] = t \o s[k + 1] /\ step[<<k, t>>] \in Seq(S)
    <3>1. s[k + 1] \in Seq(S)
      BY <1>1, <2>2
    <3>2. t \o s[k + 1] \in Seq(S)
      BY <3>1, ConcatProperties
    <3>3. <<k, t>> \in (1 .. n) \X Seq(S)
      OBVIOUS
    <3> QED
      BY <2>3, <3>2, <3>3
  <2>5. step \in [(1 .. n) \X Seq(S) -> Seq(S)]
    <3>1. ASSUME NEW p \in (1 .. n) \X Seq(S) PROVE step[p] \in Seq(S)
      <4>1. p[1] \in 1 .. n /\ p[2] \in Seq(S) /\ p = <<p[1], p[2]>>
        OBVIOUS
      <4> QED
        BY <2>4, <4>1
    <3> QED
      BY <2>3, <3>1
  <2>6. PICK f \in [0 .. n -> Seq(S)] : Built(f, n, s[1], step)
    <3>1. s[1] \in Seq(S)
      BY <1>1, <1>3
    <3> QED
      BY <2>5, <3>1, BuiltExists
  <2>7. PICK g : g = [i \in 1 .. Len(s) |-> f[i - 1]]
    OBVIOUS
  <2>8. g \in [1 .. Len(s) -> Seq(S)]
    BY <1>1, <2>2, <2>6, <2>7
  <2> DEFINE F(h) == [i \in 1 .. Len(s) |-> IF i = 1 THEN s[i] ELSE h[i - 1] \o s[i]]
  <2>9. g = F(g)
    <3>1. ASSUME NEW i \in 1 .. Len(s) PROVE g[i] = IF i = 1 THEN s[i] ELSE g[i - 1] \o s[i]
      <4>1. CASE i = 1
        BY <2>6, <2>7, <4>1 DEF Built
      <4>2. CASE i # 1
        <5>1. i - 1 \in 1 .. n /\ i - 1 \in 1 .. Len(s) /\ (i - 1) - 1 \in 0 .. n /\ (i - 1) + 1 = i
          BY <1>1, <2>2, <4>2
        <5>2. f[i - 1] = step[<<i - 1, f[(i - 1) - 1]>>]
          BY <2>6, <5>1 DEF Built
        <5>3. f[(i - 1) - 1] \in Seq(S)
          BY <2>6, <5>1
        <5>4. step[<<i - 1, f[(i - 1) - 1]>>] = f[(i - 1) - 1] \o s[(i - 1) + 1]
          BY <2>4, <5>1, <5>3
        <5>5. g[i] = f[i - 1] /\ g[i - 1] = f[(i - 1) - 1]
          BY <2>7, <5>1
        <5> QED
          BY <4>2, <5>1, <5>2, <5>4, <5>5
      <4> QED
        BY <4>1, <4>2
    <3> QED
      BY <2>8, <3>1
  <2>10. PICK h : h = CHOOSE x : x = F(x)
    OBVIOUS
  <2>11. h = F(h)
    BY <2>9, <2>10
  <2>12. FlattenSeq(s) = h[Len(s)]
    BY <1>3, <2>10 DEF FlattenSeq
  <2>13. PICK I : I = {m \in Nat : m + 1 <= Len(s) => h[m + 1] \in Seq(S)}
    OBVIOUS
  <2>14. 0 \in I
    <3>1. 1 \in 1 .. Len(s) /\ s[1] \in Seq(S)
      BY <1>1, <1>3
    <3>2. h[1] = s[1]
      BY <2>11, <3>1
    <3> QED
      BY <2>13, <3>1, <3>2
  <2>15. ASSUME NEW m \in Nat, m \in I PROVE m + 1 \in I
    <3> SUFFICES ASSUME m + 1 + 1 <= Len(s) PROVE h[m + 1 + 1] \in Seq(S)
      BY <2>13
    <3>1. PICK k \in Nat : k = m + 1
      OBVIOUS
    <3>2. k + 1 \in 1 .. Len(s) /\ k + 1 # 1 /\ (k + 1) - 1 = k
      BY <1>1, <3>1
    <3>3. h[k + 1] = h[(k + 1) - 1] \o s[k + 1]
      BY <2>11, <3>2
    <3>4. h[k] \in Seq(S) /\ s[k + 1] \in Seq(S)
      BY <1>1, <2>13, <2>15, <3>1, <3>2
    <3>5. h[k] \o s[k + 1] \in Seq(S)
      BY <3>4, ConcatProperties
    <3> QED
      BY <3>1, <3>2, <3>3, <3>5
  <2>16. n \in I
    BY <2>13, <2>14, <2>15, Induction
  <2>17. h[Len(s)] \in Seq(S)
    BY <1>1, <2>2, <2>13, <2>16
  <2> QED
    BY <2>12, <2>17
<1> QED
  BY <1>1, <1>2, <1>3

-----------------------------------------------------------------------------
(* Sources                                                                 *)

\* Units that stand for themselves.
PlainUnits == Nat \ DOMAIN Inflated

\* The ReadBases there are; "none" before one is made, "thrown" after an
\* exception.
Kinds == {"none", "thrown", "Complete", "Uncompressed", "UncompressedWithHeader", "StreamCompressed"}

\* What a reader may be.
IsSource(s) ==
  /\ s \in [kind : Kinds, held : Seq(Int), rest : Seq(Int), out : Seq(Nat)]
  /\ s.kind \in {"Uncompressed", "UncompressedWithHeader"} =>
       s.held \in Seq(PlainUnits) /\ s.rest \in Seq(PlainUnits)
  /\ s.kind = "thrown" => s = Broken

\* What Source makes.
LEMMA SourceIs ==
  ASSUME NEW kind, NEW held, NEW rest
  PROVE  /\ Source(kind, held, rest) = [kind |-> kind, held |-> held, rest |-> rest, out |-> << >>]
         /\ Broken = Source("thrown", << >>, << >>)
BY DEF Source, Broken

\* A new reader.
LEMMA NewSource ==
  ASSUME NEW kind \in Kinds, NEW held \in Seq(Int), NEW rest \in Seq(Int),
         kind \in {"Uncompressed", "UncompressedWithHeader"} =>
           held \in Seq(PlainUnits) /\ rest \in Seq(PlainUnits),
         kind # "thrown"
  PROVE  IsSource(Source(kind, held, rest))
<1>1. PICK none : none = << >> /\ none \in Seq(Nat)
  BY EmptySeq
<1>2. PICK s : s = [kind |-> kind, held |-> held, rest |-> rest, out |-> none]
  OBVIOUS
<1>3. s.kind = kind /\ s.held = held /\ s.rest = rest
  BY <1>2
<1>4. s \in [kind : Kinds, held : Seq(Int), rest : Seq(Int), out : Seq(Nat)]
  BY <1>1, <1>2
<1>5. Source(kind, held, rest) = s
  BY <1>1, <1>2, SourceIs
<1>6. IsSource(s)
  BY <1>3, <1>4 DEF IsSource
<1> QED
  BY <1>5, <1>6

\* A source that has thrown is one.
LEMMA BrokenIsSource == IsSource(Broken) /\ Broken.kind = "thrown"
<1>1. PICK none : none = << >> /\ none \in Seq(Nat) /\ none \in Seq(Int)
  BY EmptySeq
<1>2. PICK s : s = [kind |-> "thrown", held |-> none, rest |-> none, out |-> none]
  OBVIOUS
<1>3. s.kind = "thrown"
  BY <1>2
<1>4. s \in [kind : Kinds, held : Seq(Int), rest : Seq(Int), out : Seq(Nat)]
  BY <1>1, <1>2 DEF Kinds
<1>5. Broken = s
  BY <1>1, <1>2, SourceIs
<1> QED
  BY <1>3, <1>4, <1>5 DEF IsSource

\* The bytes of units are bytes.
LEMMA BytesType ==
  ASSUME NEW units \in Seq(Int)
  PROVE  Bytes(units) \in Seq(Nat)
<1>1. Len(units) \in Nat /\ DOMAIN units = 1 .. Len(units)
  BY SeqFacts
<1>2. PICK each : each = [i \in DOMAIN units |->
                            IF units[i] \in DOMAIN Inflated THEN Inflated[units[i]]
                            ELSE IF units[i] \in Nat THEN <<units[i]>> ELSE << >>]
  OBVIOUS
<1>3. ASSUME NEW i \in 1 .. Len(units) PROVE each[i] \in Seq(Nat)
  <2>1. << >> \in Seq(Nat)
    BY EmptySeq
  <2>2. units[i] \in Nat => <<units[i]>> \in Seq(Nat)
    OBVIOUS
  <2> QED
    BY <1>1, <1>2, <2>1, <2>2, InflatedAssumption
<1>4. each \in [1 .. Len(units) -> Seq(Nat)]
  BY <1>1, <1>2, <1>3
<1>5. each \in Seq(Seq(Nat))
  BY <1>1, <1>4, FunctionIsSeq
<1>6. Bytes(units) = FlattenSeq(each)
  BY <1>2 DEF Bytes
<1> QED
  BY <1>5, <1>6, FlattenType

\* The reader that is made for what follows.
LEMMA FactoryIsSource ==
  ASSUME NEW rest \in Seq(Int), NEW already \in Seq(Int), NEW require \in BOOLEAN,
         \/ require
         \/ rest \in Seq(PlainUnits) /\ already \in Seq(PlainUnits)
         \/ already = << >> /\ rest # << >> /\ rest[1] = Magic,
         NEW made, made = ReadFactory(rest, already, require)
  PROVE  IsSource(made) /\ made.kind # "none"
<1> DEFINE missing == IF Len(already) < MagicSize THEN MagicSize - Len(already) ELSE 0
<1>1. MagicSize \in Nat /\ MagicSize > 0
  BY SizesAssumption
<1>2. Len(already) \in Nat /\ Len(rest) \in Nat
  BY SeqFacts
<1>3. PICK m \in Nat : m = missing
  <2>1. PICK k \in Nat, l \in Nat : k = MagicSize /\ l = Len(already)
    BY <1>1, <1>2
  <2>2. missing = IF l < k THEN k - l ELSE 0
    BY ONLY <2>1
  <2>3. CASE l < k
    <3>1. missing = k - l /\ k - l \in Nat
      BY <2>2, <2>3
    <3> QED
      BY <3>1
  <2>4. CASE ~(l < k)
    <3>1. missing = 0
      BY <2>2, <2>4
    <3> QED
      BY <3>1
  <2> QED
    BY <2>3, <2>4
<1>4. FirstOf(rest, m) \in Seq(Int)
  BY FirstOfFacts
<1>5. PICK header : header = already \o FirstOf(rest, m)
  OBVIOUS
<1>6. header \in Seq(Int) /\ Len(header) = Len(already) + Len(FirstOf(rest, m))
  BY <1>4, <1>5, ConcatProperties
<1>7. PICK n \in Nat : n = Len(FirstOf(rest, m)) /\ Len(header) = Len(already) + n
  BY <1>4, <1>6, SeqFacts
<1>8. PICK later : later = Rest(rest, n + 1)
  OBVIOUS
<1>9. later \in Seq(Int)
  BY <1>8, RestFacts
<1>10. Len(header) - Len(already) + 1 = n + 1
  BY <1>2, <1>7
<1>11. made = IF header = << >> THEN Source("Complete", << >>, << >>)
              ELSE IF DetectMagic(header) THEN Source("StreamCompressed", header, later)
              ELSE IF require THEN Broken
              ELSE Source("UncompressedWithHeader", header, later)
  BY <1>3, <1>5, <1>8, <1>10 DEF ReadFactory
<1>12. << >> \in Seq(Int)
  BY EmptySeq
<1>13. CASE header = << >>
  <2>1. IsSource(Source("Complete", << >>, << >>))
    BY <1>12, NewSource DEF Kinds
  <2> QED
    BY <1>11, <1>13, <2>1, SourceIs
<1>14. CASE header # << >> /\ DetectMagic(header)
  <2>1. IsSource(Source("StreamCompressed", header, later))
    BY <1>6, <1>9, NewSource DEF Kinds
  <2> QED
    BY <1>11, <1>14, <2>1, SourceIs
<1>15. CASE header # << >> /\ ~DetectMagic(header) /\ require
  BY <1>11, <1>15, BrokenIsSource
<1>16. CASE header # << >> /\ ~DetectMagic(header) /\ ~require
  <2>1. rest \in Seq(PlainUnits) /\ already \in Seq(PlainUnits)
    <3> SUFFICES ASSUME already = << >>, rest # << >>, rest[1] = Magic PROVE FALSE
      BY <1>16
    <3>1. Len(already) = 0 /\ m = MagicSize
      BY <1>1, <1>3
    <3>2. Len(FirstOf(rest, m)) > 0 /\ FirstOf(rest, m)[1] = Magic
      <4>1. Len(rest) > 0
        BY <1>2
      <4>2. /\ Len(FirstOf(rest, m)) = IF m < Len(rest) THEN m ELSE Len(rest)
            /\ \A j \in 1 .. Len(FirstOf(rest, m)) : FirstOf(rest, m)[j] = rest[j]
        BY FirstOfFacts
      <4> QED
        BY <1>1, <1>2, <3>1, <4>1, <4>2
    <3>3. header = FirstOf(rest, m)
      BY <1>4, <1>5, ConcatEmptySeq
    <3> QED
      BY <1>16, <3>2, <3>3 DEF DetectMagic
  <2>2. header \in Seq(PlainUnits) /\ later \in Seq(PlainUnits)
    <3>1. FirstOf(rest, m) \in Seq(PlainUnits) /\ later \in Seq(PlainUnits)
      BY <1>8, <2>1, FirstOfFacts, RestFacts
    <3> QED
      BY <1>5, <2>1, <3>1, ConcatProperties
  <2>3. IsSource(Source("UncompressedWithHeader", header, later))
    BY <1>6, <1>9, <2>2, NewSource DEF Kinds
  <2> QED
    BY <1>11, <1>16, <2>3, SourceIs
<1> QED
  BY <1>13, <1>14, <1>15, <1>16

\* A turn of zlib's uses a number of units it has.
LEMMA InflateIs ==
  ASSUME NEW s, IsSource(s), NEW amount \in Nat, NEW i \in Inflate(s, amount)
  PROVE  /\ i.used \in 0 .. Len(s.held)
         /\ i.out = s.out \o Bytes(SubSeq(s.held, 1, i.used))
         /\ i.ended = (i.used > 0 /\ s.held[i.used] = End)
         /\ \/ Len(i.out) >= amount \/ i.used = Len(s.held) \/ i.ended
<1> DEFINE shown(k) == s.out \o Bytes(SubSeq(s.held, 1, k))
           ended(k) == k > 0 /\ s.held[k] = End
           stops(k) == Len(shown(k)) >= amount \/ k = Len(s.held) \/ ended(k)
           first == CHOOSE k \in 0 .. Len(s.held) : stops(k) /\ \A j \in 0 .. k - 1 : ~stops(j)
           over == first < Len(s.held) /\ s.held[first + 1] = End /\ Len(shown(first)) = amount
<1>1. s.held \in Seq(Int) /\ Len(s.held) \in Nat
  BY SeqFacts DEF IsSource
<1>2. PICK K : K = {k \in 0 .. Len(s.held) : stops(k)}
  OBVIOUS
<1>3. stops(Len(s.held))
  OBVIOUS
<1> HIDE DEF shown, ended, stops, first, over
<1>4. K \subseteq Nat /\ K # {}
  BY <1>1, <1>2, <1>3
<1>5. \E k \in K : \A j \in K : k <= j
  BY <1>4, Least
<1>6. PICK k \in K : \A j \in K : k <= j
  BY <1>5
<1>7. k \in 0 .. Len(s.held) /\ stops(k)
  BY <1>2, <1>6
<1>8. ASSUME NEW j \in 0 .. k - 1 PROVE ~stops(j)
  <2>1. j \in 0 .. Len(s.held) /\ ~(k <= j)
    BY <1>1, <1>7, <1>8
  <2> QED
    BY <1>2, <1>6, <2>1
<1>9. \E x \in 0 .. Len(s.held) : stops(x) /\ \A j \in 0 .. x - 1 : ~stops(j)
  BY <1>7, <1>8
<1>10. first \in 0 .. Len(s.held) /\ stops(first)
  BY <1>9 DEF first
<1>11. PICK x \in {first} \cup (IF over THEN {first + 1} ELSE {}) :
         i = [used |-> x, out |-> shown(x), ended |-> ended(x)]
  BY DEF Inflate, shown, ended, stops, first, over
<1>12. i.used = x /\ i.out = shown(x) /\ i.ended = ended(x)
  BY <1>11
<1>13. x = first \/ (x = first + 1 /\ over)
  BY <1>11
<1>14. CASE x = first
  BY <1>10, <1>12, <1>14 DEF shown, ended, stops
<1>15. CASE x = first + 1 /\ over
  <2>1. x \in 0 .. Len(s.held) /\ ended(x)
    BY <1>1, <1>10, <1>15 DEF ended, over
  <2> QED
    BY <1>12, <2>1 DEF shown, ended
<1> QED
  BY <1>13, <1>14, <1>15

\* What a turn gives and what it leaves, when the source is read as it is.
LEMMA UncompressedIs ==
  ASSUME NEW s, IsSource(s), s.kind = "Uncompressed", NEW amount \in Nat \ {0},
         NEW t \in Uncompressed(s, amount)
  PROVE  /\ t.returns
         /\ \/ s.rest = << >> /\ t.got = << >> /\ t.source = s
            \/ \E n \in 1 .. Len(s.rest) :
                 /\ n <= amount /\ t.got = FirstOf(s.rest, n)
                 /\ t.source = [s EXCEPT !.rest = Rest(s.rest, n + 1)]
<1>1. s.rest \in Seq(Int) /\ Len(s.rest) \in Nat
  BY SeqFacts DEF IsSource
<1>2. CASE s.rest = << >>
  BY <1>2 DEF Uncompressed, Got
<1>3. CASE s.rest # << >>
  <2>1. PICK n \in 1 .. AtMost(amount, Len(s.rest)) :
          t = Got(FirstOf(s.rest, n), [s EXCEPT !.rest = Rest(s.rest, n + 1)])
    BY <1>3 DEF Uncompressed
  <2>2. n \in 1 .. Len(s.rest) /\ n <= amount
    BY <1>1, <2>1 DEF AtMost
  <2>3. t.returns /\ t.got = FirstOf(s.rest, n) /\ t.source = [s EXCEPT !.rest = Rest(s.rest, n + 1)]
    BY <2>1 DEF Got
  <2> QED
    BY <2>2, <2>3
<1> QED
  BY <1>2, <1>3

\* What UncompressedWithHeader::Read gives, and what reads on after it.
LEMMA WithHeaderIs ==
  ASSUME NEW s, IsSource(s), s.kind = "UncompressedWithHeader", NEW amount \in Nat \ {0},
         NEW t \in UncompressedWithHeader(s, amount)
  PROVE  /\ t.returns /\ t.got = FirstOf(s.held, amount)
         /\ \/ /\ Rest(s.held, amount + 1) = << >>
               /\ t.source = Source("Uncompressed", << >>, s.rest)
            \/ t.source = [s EXCEPT !.held = Rest(s.held, amount + 1)]
BY DEF UncompressedWithHeader, Got

\* What StreamCompressed::Read has put before zlib.
Fed(s) ==
  IF s.held # << >> THEN s
  ELSE [s EXCEPT !.held = FirstOf(s.rest, InputBuffer), !.rest = Rest(s.rest, InputBuffer + 1)]

\* What zlib was fed from is still the reader of a compressed file.
LEMMA FedIsSource ==
  ASSUME NEW s, IsSource(s), s.kind = "StreamCompressed", NEW f, f = Fed(s)
  PROVE  IsSource(f) /\ f.kind = "StreamCompressed" /\ f.out = s.out
<1>1. s \in [kind : Kinds, held : Seq(Int), rest : Seq(Int), out : Seq(Nat)]
  BY DEF IsSource
<1>2. PICK n \in Nat \ {0}, c \in Seq(Int) : n = InputBuffer /\ c = s.rest
  BY <1>1, SizesAssumption
<1>3. FirstOf(s.rest, InputBuffer) \in Seq(Int) /\ Rest(s.rest, InputBuffer + 1) \in Seq(Int)
  <2>1. FirstOf(c, n) \in Seq(Int)
    BY ONLY <1>2, FirstOfFacts
  <2>2. n + 1 \in Nat \ {0}
    BY ONLY <1>2
  <2>3. Rest(c, n + 1) \in Seq(Int)
    BY ONLY <1>2, <2>2, RestFacts
  <2> QED
    BY ONLY <1>2, <2>1, <2>3
<1>4. /\ f \in [kind : Kinds, held : Seq(Int), rest : Seq(Int), out : Seq(Nat)]
      /\ f.kind = s.kind /\ f.out = s.out
  <2>1. PICK h \in Seq(Int), r \in Seq(Int) : h = FirstOf(s.rest, InputBuffer) /\ r = Rest(s.rest, InputBuffer + 1)
    BY <1>3
  <2>2. f = s \/ f = [s EXCEPT !.held = h, !.rest = r]
    BY <2>1 DEF Fed
  <2> QED
    BY ONLY <1>1, <2>2
<1> QED
  BY <1>4 DEF IsSource

\* After f was fed to zlib, i is what that made of it, and t the turn.
Continued(f, amount, i) ==
  [f EXCEPT !.held = Rest(f.held, i.used + 1), !.out = Rest(i.out, amount + 1)]

\* Whether the member ended or not, what reads on; and what the caller gets.
Streamed(f, amount, i, after, t) ==
  /\ after = Continued(f, amount, i)
  /\ i.ended => t.source = ReadFactory(f.rest, after.held, TRUE)
  /\ ~i.ended => (t.source = Broken /\ i.used = 0 /\ i.out = << >>) \/ t.source = after
  /\ (i.out = << >> /\ t.got = << >> /\ ~t.returns) \/ (t.got = FirstOf(i.out, amount) /\ t.returns)

\* A turn of StreamCompressed::Read, told step by step.
LEMMA StreamIs ==
  ASSUME NEW s, IsSource(s), s.kind = "StreamCompressed", NEW amount \in Nat \ {0},
         NEW t \in StreamCompressed(s, amount)
  PROVE  \E i \in Inflate(Fed(s), amount) : \E after : Streamed(Fed(s), amount, i, after, t)
<1> DEFINE fed == IF s.held # << >> THEN s
                  ELSE [s EXCEPT !.held = FirstOf(s.rest, InputBuffer),
                                 !.rest = Rest(s.rest, InputBuffer + 1)]
           after(i) == [fed EXCEPT !.held = Rest(fed.held, i.used + 1), !.out = Rest(i.out, amount + 1)]
           next(i) == IF i.ended THEN ReadFactory(fed.rest, after(i).held, TRUE)
                      ELSE IF i.used = 0 /\ i.out = << >> THEN Broken ELSE after(i)
<1>1. fed = Fed(s)
  BY DEF Fed
<1> HIDE DEF fed
<1>2. PICK i \in Inflate(fed, amount) :
        t = IF i.out = << >> THEN GoesOn(next(i)) ELSE Got(FirstOf(i.out, amount), next(i))
  BY DEF StreamCompressed, fed
<1>3. /\ t.source = next(i)
      /\ i.out = << >> => t.got = << >> /\ ~t.returns
      /\ i.out # << >> => t.got = FirstOf(i.out, amount) /\ t.returns
  <2> HIDE DEF next
  <2>1. CASE i.out = << >>
    BY <1>2, <2>1 DEF GoesOn
  <2>2. CASE i.out # << >>
    BY <1>2, <2>2 DEF Got
  <2> QED
    BY <2>1, <2>2
<1>4. PICK a : a = after(i)
  OBVIOUS
<1> HIDE DEF after
<1>5. t.source = IF i.ended THEN ReadFactory(fed.rest, a.held, TRUE)
                 ELSE IF i.used = 0 /\ i.out = << >> THEN Broken ELSE a
  BY <1>3, <1>4
<1>6. a = Continued(fed, amount, i)
  BY <1>4 DEF after, Continued
<1>7. Streamed(fed, amount, i, a, t)
  <2>1. i.ended => t.source = ReadFactory(fed.rest, a.held, TRUE)
    BY ONLY <1>5
  <2>2. ~i.ended => (t.source = Broken /\ i.used = 0 /\ i.out = << >>) \/ t.source = a
    BY ONLY <1>5
  <2>3. (i.out = << >> /\ t.got = << >> /\ ~t.returns) \/ (t.got = FirstOf(i.out, amount) /\ t.returns)
    BY ONLY <1>3
  <2> QED
    BY ONLY <1>6, <2>1, <2>2, <2>3 DEF Streamed
<1> QED
  BY <1>1, <1>2, <1>7

\* A turn gives no more than asked for, bytes, and leaves a reader.
LEMMA TurnIs ==
  ASSUME NEW s, IsSource(s), s.kind \notin {"none", "thrown"}, NEW amount \in Nat \ {0},
         NEW t \in Turn(s, amount)
  PROVE  /\ t.got \in Seq(Nat) /\ Len(t.got) <= amount
         /\ IsSource(t.source) /\ t.source.kind # "none"
<1>1. /\ s \in [kind : Kinds, held : Seq(Int), rest : Seq(Int), out : Seq(Nat)]
      /\ << >> \in Seq(Nat) /\ << >> \in Seq(Int) /\ Len(<< >>) = 0
      /\ << >> \in Seq(PlainUnits)
  BY EmptySeq DEF IsSource
<1>2. CASE s.kind = "Uncompressed"
  <2>1. t \in Uncompressed(s, amount)
    BY <1>2 DEF Turn
  <2>2. CASE s.rest = << >> /\ t.got = << >> /\ t.source = s
    BY <1>1, <1>2, <2>2
  <2>3. ASSUME NEW n \in 1 .. Len(s.rest), n <= amount, t.got = FirstOf(s.rest, n),
               t.source = [s EXCEPT !.rest = Rest(s.rest, n + 1)]
        PROVE  /\ t.got \in Seq(Nat) /\ Len(t.got) <= amount
               /\ IsSource(t.source) /\ t.source.kind # "none"
    <3>1. s.rest \in Seq(PlainUnits) /\ s.held \in Seq(PlainUnits) /\ Len(s.rest) \in Nat
      BY <1>1, <1>2, SeqFacts DEF IsSource
    <3>2. n \in Nat /\ n + 1 \in Nat \ {0}
      OBVIOUS
    <3>3. PICK r : r = Rest(s.rest, n + 1)
      OBVIOUS
    <3>4. r \in Seq(PlainUnits) /\ r \in Seq(Int)
      BY <1>1, <3>1, <3>2, <3>3, RestFacts
    <3>5. FirstOf(s.rest, n) \in Seq(PlainUnits) /\ Len(FirstOf(s.rest, n)) = n
      BY <3>1, <3>2, FirstOfFacts
    <3>6. FirstOf(s.rest, n) \in Seq(Nat)
      BY <3>5, SeqMonotonic DEF PlainUnits
    <3>7. PICK next : next = [s EXCEPT !.rest = r]
      OBVIOUS
    <3>8. /\ next \in [kind : Kinds, held : Seq(Int), rest : Seq(Int), out : Seq(Nat)]
          /\ next.kind = s.kind /\ next.held = s.held /\ next.rest = r
      BY <1>1, <3>4, <3>7
    <3>9. IsSource(next) /\ next.kind # "none"
      BY <1>2, <3>1, <3>4, <3>8 DEF IsSource
    <3> QED
      BY <2>3, <3>3, <3>5, <3>6, <3>7, <3>9
  <2> QED
    BY <1>2, <2>1, <2>2, <2>3, UncompressedIs
<1>3. CASE s.kind = "UncompressedWithHeader"
  <2>1. t \in UncompressedWithHeader(s, amount)
    BY <1>3 DEF Turn
  <2>2. /\ t.got = FirstOf(s.held, amount)
        /\ \/ t.source = Source("Uncompressed", << >>, s.rest)
           \/ t.source = [s EXCEPT !.held = Rest(s.held, amount + 1)]
    BY <1>3, <2>1, WithHeaderIs
  <2>3. s.held \in Seq(PlainUnits) /\ s.rest \in Seq(PlainUnits) /\ Len(s.held) \in Nat
    BY <1>1, <1>3, SeqFacts DEF IsSource
  <2>4. t.got \in Seq(Nat) /\ Len(t.got) <= amount
    <3>1. /\ FirstOf(s.held, amount) \in Seq(PlainUnits)
          /\ Len(FirstOf(s.held, amount)) = IF amount < Len(s.held) THEN amount ELSE Len(s.held)
      BY <2>3, FirstOfFacts
    <3>2. t.got \in Seq(Nat)
      BY <2>2, <3>1, SeqMonotonic DEF PlainUnits
    <3> QED
      BY <2>2, <2>3, <3>1, <3>2
  <2>5. CASE t.source = Source("Uncompressed", << >>, s.rest)
    <3>1. IsSource(Source("Uncompressed", << >>, s.rest))
      BY <1>1, <2>3, NewSource DEF Kinds
    <3> QED
      BY <2>4, <2>5, <3>1, SourceIs
  <2>6. CASE t.source = [s EXCEPT !.held = Rest(s.held, amount + 1)]
    <3>1. PICK r : r = Rest(s.held, amount + 1)
      OBVIOUS
    <3>2. r \in Seq(PlainUnits) /\ r \in Seq(Int)
      <4>1. amount + 1 \in Nat \ {0}
        OBVIOUS
      <4> QED
        BY <1>1, <2>3, <3>1, <4>1, RestFacts
    <3>3. /\ t.source \in [kind : Kinds, held : Seq(Int), rest : Seq(Int), out : Seq(Nat)]
          /\ t.source.kind = s.kind /\ t.source.held = r /\ t.source.rest = s.rest
      BY <1>1, <2>6, <3>1, <3>2
    <3> QED
      BY <1>3, <2>3, <2>4, <3>2, <3>3 DEF IsSource
  <2> QED
    BY <2>2, <2>5, <2>6
<1>4. CASE s.kind = "StreamCompressed"
  <2>1. t \in StreamCompressed(s, amount)
    BY <1>4 DEF Turn
  <2>2. PICK f : f = Fed(s)
    OBVIOUS
  <2>3. /\ IsSource(f) /\ f.kind = "StreamCompressed"
        /\ f \in [kind : Kinds, held : Seq(Int), rest : Seq(Int), out : Seq(Nat)]
    BY <1>4, <2>2, FedIsSource DEF IsSource
  <2>4. PICK i \in Inflate(f, amount) : \E after : Streamed(f, amount, i, after, t)
    BY <1>4, <2>1, <2>2, StreamIs
  <2>5. PICK after : Streamed(f, amount, i, after, t)
    BY <2>4
  <2>6. /\ after = Continued(f, amount, i)
        /\ i.ended => t.source = ReadFactory(f.rest, after.held, TRUE)
        /\ ~i.ended => t.source = Broken \/ t.source = after
        /\ t.got = << >> \/ t.got = FirstOf(i.out, amount)
    BY ONLY <2>5 DEF Streamed
  <2>7. /\ i.used \in 0 .. Len(f.held)
        /\ i.out = f.out \o Bytes(SubSeq(f.held, 1, i.used))
    BY <2>3, InflateIs
  <2>8. i.out \in Seq(Nat)
    <3>1. Len(f.held) \in Nat /\ \A j \in 1 .. Len(f.held) : f.held[j] \in Int
      BY <2>3, SeqFacts
    <3>2. i.used \in Int /\ \A j \in 1 .. i.used : f.held[j] \in Int
      BY <2>7, <3>1
    <3>3. SubSeq(f.held, 1, i.used) \in Seq(Int)
      BY <3>2, SubSeqProperties
    <3>4. Bytes(SubSeq(f.held, 1, i.used)) \in Seq(Nat)
      BY <3>3, BytesType
    <3> QED
      BY <2>3, <2>7, <3>4, ConcatProperties
  <2>9. t.got \in Seq(Nat) /\ Len(t.got) <= amount
    <3>1. Len(i.out) \in Nat /\ FirstOf(i.out, amount) \in Seq(Nat)
      BY <2>8, SeqFacts, FirstOfFacts
    <3>2. Len(FirstOf(i.out, amount)) = IF amount < Len(i.out) THEN amount ELSE Len(i.out)
      BY <2>8, FirstOfFacts
    <3>3. Len(FirstOf(i.out, amount)) <= amount
      BY <3>1, <3>2
    <3>4. t.got = << >> \/ t.got = FirstOf(i.out, amount)
      BY ONLY <2>6
    <3>5. Len(<< >>) <= amount
      BY <1>1
    <3> QED
      BY <1>1, <3>1, <3>3, <3>4, <3>5
  <2>10. PICK h, o : h = Rest(f.held, i.used + 1) /\ o = Rest(i.out, amount + 1)
    OBVIOUS
  <2>11. h \in Seq(Int) /\ o \in Seq(Nat)
    <3>1. i.used + 1 \in Nat \ {0}
      BY <2>7
    <3> QED
      BY <2>3, <2>8, <2>10, <3>1, RestFacts
  <2>12. after = [f EXCEPT !.held = h, !.out = o]
    BY ONLY <2>6, <2>10 DEF Continued
  <2>13. /\ after \in [kind : Kinds, held : Seq(Int), rest : Seq(Int), out : Seq(Nat)]
         /\ after.kind = "StreamCompressed" /\ after.held = h
    BY <2>3, <2>11, <2>12
  <2>14. IsSource(after) /\ after.kind # "none"
    BY <2>13 DEF IsSource
  <2>15. CASE i.ended
    <3>1. PICK made : made = ReadFactory(f.rest, h, TRUE)
      OBVIOUS
    <3>2. IsSource(made) /\ made.kind # "none"
      BY <2>3, <2>11, <3>1, FactoryIsSource
    <3>3. t.source = made
      <4>1. t.source = ReadFactory(f.rest, after.held, TRUE)
        BY ONLY <2>6, <2>15
      <4>2. after.held = h
        BY <2>13
      <4> QED
        BY ONLY <3>1, <4>1, <4>2
    <3> QED
      BY ONLY <2>9, <3>2, <3>3
  <2>16. CASE ~i.ended
    <3>1. t.source = Broken \/ t.source = after
      BY ONLY <2>6, <2>16
    <3> QED
      BY <2>9, <2>14, <3>1, BrokenIsSource
  <2> QED
    BY <2>15, <2>16
<1>5. CASE s.kind = "Complete"
  <2>1. t \in {Got(<< >>, s)}
    BY <1>5 DEF Turn
  <2>2. t.got = << >> /\ t.source = s
    BY <2>1 DEF Got
  <2>3. Len(<< >>) <= amount
    BY <1>1
  <2> QED
    BY <1>1, <1>5, <2>2, <2>3
<1> QED
  BY <1>1, <1>2, <1>3, <1>4, <1>5 DEF Kinds

-----------------------------------------------------------------------------
(* The window                                                              *)

\* The numbers and flags of a FilePiece.
PieceNumbers ==
  /\ position \in Nat /\ map_size \in Nat /\ offset \in Nat /\ wanted \in Nat /\ skip \in Nat
  /\ at_end \in BOOLEAN /\ fallback \in BOOLEAN

\* The types of what FilePiece keeps; a file is mapped only if it is not
\* compressed, and what is asked for has room.
PieceOK ==
  /\ IsFile(file) /\ window \in Seq(Nat) /\ PieceNumbers /\ IsSource(source)
  /\ fallback => source.kind # "none" /\ Len(window) + wanted <= map_size
  /\ wanted > 0 => fallback
  /\ map_size = 0 => ~fallback /\ window = << >>
  /\ map_size > 0 /\ ~fallback => file.units \in Seq(PlainUnits)

\* The sizes are positive numbers, and a mapping has room for the magic number.
LEMMA PageFacts ==
  /\ PageSize \in Nat /\ PageSize > 0
  /\ MinMapSize \in Nat /\ MinMapSize > 0 /\ MagicSize \in Nat /\ MagicSize > 0
  /\ MagicSize <= MinMapSize
<1>1. PageSize \in Nat \ {0} /\ MagicSize <= MinMapSize /\ MagicSize \in Nat \ {0}
  BY PageAssumption, SizesAssumption
<1>2. PICK n \in 2 .. MinMapSize : MinMapSize = n * PageSize
  BY PageAssumption
<1>3. CASE MinMapSize \in Int
  BY <1>1, <1>2, <1>3
<1>4. n \in Int
  BY <1>2
<1>5. n * PageSize \in Int
  BY <1>1, <1>4
<1> QED
  BY <1>2, <1>3, <1>5

\* The parts of a file, which is either bytes or begins with the magic number.
LEMMA FileFacts ==
  ASSUME IsFile(file)
  PROVE  /\ file.units \in Seq(Int) /\ Len(file.units) \in Nat
         /\ file.regular \in BOOLEAN /\ file.faulty \in BOOLEAN
         /\ file.units \in Seq(PlainUnits) \/ (Len(file.units) >= MagicSize /\ DetectMagic(file.units))
<1>1. file.units \in Seq(Int) /\ file.regular \in BOOLEAN /\ file.faulty \in BOOLEAN
  BY DEF IsFile
<1> QED
  BY <1>1, SeqFacts DEF IsFile, PlainUnits

\* What is mapped of a file.
LEMMA MappedIs ==
  ASSUME NEW S, file.units \in Seq(S), NEW begin \in Nat, NEW size \in Nat
  PROVE  /\ Mapped(begin, size) \in Seq(S)
         /\ Len(Mapped(begin, size)) =
              IF Len(file.units) <= begin THEN 0
              ELSE IF begin + size < Len(file.units) THEN size ELSE Len(file.units) - begin
         /\ \A i \in 1 .. Len(Mapped(begin, size)) : Mapped(begin, size)[i] = file.units[begin + i]
<1>1. PICK m : m = Mapped(begin, size)
  OBVIOUS
<1>2. Len(file.units) \in Nat /\ \A i \in 1 .. Len(file.units) : file.units[i] \in S
  BY SeqFacts
<1>3. PICK last \in Nat : /\ last = AtMost(begin + size, Len(file.units)) /\ last <= Len(file.units)
                          /\ last = IF begin + size < Len(file.units) THEN begin + size ELSE Len(file.units)
  BY <1>2 DEF AtMost
<1>4. begin + 1 \in Int /\ \A i \in begin + 1 .. last : file.units[i] \in S
  BY <1>2, <1>3
<1>5. m = SubSeq(file.units, begin + 1, last)
  BY <1>1, <1>3 DEF Mapped
<1>6. /\ m \in Seq(S)
      /\ Len(m) = IF begin + 1 <= last THEN last - (begin + 1) + 1 ELSE 0
      /\ \A i \in 1 .. last - (begin + 1) + 1 : m[i] = file.units[(begin + 1) + i - 1]
  BY <1>3, <1>4, <1>5, SubSeqProperties
<1>7. Len(m) = IF Len(file.units) <= begin THEN 0
               ELSE IF begin + size < Len(file.units) THEN size ELSE Len(file.units) - begin
  BY <1>2, <1>3, <1>6
<1>8. ASSUME NEW i \in 1 .. Len(m) PROVE m[i] = file.units[begin + i]
  <2>1. i \in 1 .. last - (begin + 1) + 1 /\ (begin + 1) + i - 1 = begin + i
    BY <1>2, <1>3, <1>6
  <2> QED
    BY <1>6, <2>1
<1> QED
  BY <1>1, <1>6, <1>7, <1>8

\* What the first mapping shows is the beginning of the file.
LEMMA FirstMapped ==
  ASSUME NEW S, file.units \in Seq(S), NEW size \in Nat, size = MinMapSize
  PROVE  /\ Mapped(0, size) \in Seq(S)
         /\ Len(Mapped(0, size)) = IF Len(file.units) = 0 THEN 0
                                   ELSE IF size < Len(file.units) THEN size ELSE Len(file.units)
         /\ \A i \in 1 .. Len(Mapped(0, size)) : Mapped(0, size)[i] = file.units[i]
<1>1. PICK m : m = Mapped(0, size)
  OBVIOUS
<1>2. Len(file.units) \in Nat
  BY SeqFacts
<1>3. PICK b \in Nat : b = 0
  OBVIOUS
<1>4. m = Mapped(b, size)
  BY <1>1, <1>3
<1>5. /\ m \in Seq(S)
      /\ Len(m) = IF Len(file.units) <= b THEN 0
                  ELSE IF b + size < Len(file.units) THEN size ELSE Len(file.units) - b
      /\ \A i \in 1 .. Len(m) : m[i] = file.units[b + i]
  BY <1>4, MappedIs
<1>6. Len(m) \in Nat
  BY <1>5, SeqFacts
<1>7. \A i \in 1 .. Len(m) : b + i = i
  BY <1>3, <1>6
<1> QED
  BY <1>1, <1>2, <1>3, <1>5, <1>7

\* The first bytes of a file show whether it is compressed.
LEMMA MagicShows ==
  ASSUME IsFile(file)
  PROVE  \/ file.units \in Seq(PlainUnits)
         \/ Len(Mapped(0, MinMapSize)) >= MagicSize /\ DetectMagic(Mapped(0, MinMapSize))
<1> SUFFICES ASSUME Len(file.units) >= MagicSize, DetectMagic(file.units)
             PROVE  Len(Mapped(0, MinMapSize)) >= MagicSize /\ DetectMagic(Mapped(0, MinMapSize))
  BY FileFacts
<1>1. file.units \in Seq(Int) /\ Len(file.units) \in Nat
  BY FileFacts
<1>2. PICK size \in Nat : size = MinMapSize
  BY PageFacts
<1>3. PICK m : m = Mapped(0, size)
  OBVIOUS
<1>4. /\ m \in Seq(Int)
      /\ Len(m) = IF Len(file.units) = 0 THEN 0
                  ELSE IF size < Len(file.units) THEN size ELSE Len(file.units)
      /\ \A i \in 1 .. Len(m) : m[i] = file.units[i]
  BY <1>2, <1>1, <1>3, FirstMapped
<1>5. Len(m) >= MagicSize
  BY <1>2, <1>1, <1>4, PageFacts
<1>6. m # << >> /\ m[1] = file.units[1]
  <2>1. Len(m) > 0 /\ 1 \in 1 .. Len(m)
    BY <1>1, <1>4, <1>5, PageFacts
  <2> QED
    BY <1>4, <2>1, EmptySeq
<1> QED
  BY <1>2, <1>3, <1>5, <1>6 DEF DetectMagic

\* A mapping keeps the types of FilePiece.
LEMMA MapOK ==
  ASSUME PieceOK, file.units \in Seq(PlainUnits), ~fallback, NEW desired \in Nat, NEW size \in Nat \ {0},
         Map(desired, size), skip' \in Nat
  PROVE  PieceOK'
<1>1. PICK begin : begin = desired - (desired % PageSize)
  OBVIOUS
<1>2. begin \in Nat /\ desired % PageSize \in Nat
  BY <1>1, PageFacts
<1>3. /\ window' = Mapped(begin, size) /\ position' = desired % PageSize
      /\ map_size' = size /\ offset' = begin
      /\ at_end' = (begin + size >= Len(file.units))
      /\ UNCHANGED <<file, fallback, source, wanted>>
  BY <1>1 DEF Map
<1>4. Mapped(begin, size) \in Seq(PlainUnits)
  BY <1>2, MappedIs
<1>5. window' \in Seq(Nat)
  BY <1>3, <1>4, SeqMonotonic DEF PlainUnits
<1>6. PieceNumbers'
  BY <1>2, <1>3 DEF PieceOK, PieceNumbers
<1> QED
  BY <1>3, <1>5, <1>6 DEF PieceOK

\* So does the change to reading ...
LEMMA ReadFromOK ==
  ASSUME PieceOK, NEW a \in Nat, NEW size \in Nat \ {0}, ReadFrom(a, size), skip' \in Nat,
         a = 0 \/ file.units \in Seq(PlainUnits)
  PROVE  PieceOK'
<1>1. PICK rest : rest = Rest(file.units, a + 1)
  OBVIOUS
<1>2. /\ fallback' = TRUE /\ at_end' = FALSE /\ source' = ReadFactory(rest, << >>, FALSE)
      /\ window' = << >> /\ position' = 0 /\ map_size' = size /\ wanted' = size
      /\ UNCHANGED <<file, offset>>
  BY <1>1 DEF ReadFrom
<1>3. /\ file.units \in Seq(Int) /\ Len(file.units) \in Nat
      /\ << >> \in Seq(Int) /\ << >> \in Seq(PlainUnits) /\ << >> \in Seq(Nat) /\ Len(<< >>) = 0
  BY FileFacts, EmptySeq DEF PieceOK
<1>4. a + 1 \in Nat \ {0}
  OBVIOUS
<1>5. rest \in Seq(Int)
  BY <1>1, <1>3, <1>4, RestFacts
<1>6. \/ rest \in Seq(PlainUnits)
      \/ rest # << >> /\ rest[1] = Magic
  <2>1. CASE file.units \in Seq(PlainUnits)
    BY <1>1, <1>4, <2>1, RestFacts
  <2>2. CASE a = 0 /\ Len(file.units) >= MagicSize /\ DetectMagic(file.units)
    <3>1. rest = file.units
      BY <1>1, <1>3, <2>2, SubSeqFull DEF Rest
    <3> QED
      BY <2>2, <3>1 DEF DetectMagic
  <2> QED
    BY <2>1, <2>2, FileFacts DEF PieceOK
<1>7. IsSource(source') /\ source'.kind # "none"
  <2>1. PICK none : none = << >> /\ none \in Seq(Int) /\ none \in Seq(PlainUnits)
    BY <1>3
  <2>2. PICK made : made = ReadFactory(rest, none, FALSE)
    OBVIOUS
  <2>3. IsSource(made) /\ made.kind # "none"
    BY <1>5, <1>6, <2>1, <2>2, FactoryIsSource
  <2> QED
    BY <1>2, <2>1, <2>2, <2>3
<1>8. PieceNumbers'
  BY <1>2 DEF PieceOK, PieceNumbers
<1>9. window' \in Seq(Nat) /\ Len(window') + wanted' <= map_size'
  BY <1>2, <1>3
<1> QED
  BY <1>2, <1>7, <1>8, <1>9 DEF PieceOK

\* ... the constructor ...
LEMMA OpenOK ==
  ASSUME PieceOK, Open
  PROVE  PieceOK'
<1>1. skip' \in Nat /\ ~fallback
  BY DEF Open, PieceOK, PieceNumbers
<1>2. CASE /\ file.regular
           /\ ~(Len(Mapped(0, MinMapSize)) >= MagicSize /\ DetectMagic(Mapped(0, MinMapSize)))
           /\ Map(0, MinMapSize)
  <2>1. file.units \in Seq(PlainUnits)
    BY <1>2, MagicShows DEF PieceOK
  <2> QED
    BY <1>1, <1>2, <2>1, PageFacts, MapOK
<1>3. CASE /\ file.regular
           /\ Len(Mapped(0, MinMapSize)) >= MagicSize /\ DetectMagic(Mapped(0, MinMapSize))
           /\ fallback' = TRUE /\ source' = ReadFactory(file.units, << >>, FALSE)
           /\ map_size' = MinMapSize
           /\ UNCHANGED <<file, window, position, offset, at_end, wanted>>
  <2>1. file.units \in Seq(Int) /\ Len(file.units) \in Nat /\ << >> \in Seq(Int) /\ Len(<< >>) = 0
    BY FileFacts, EmptySeq DEF PieceOK
  <2>2. file.units # << >> /\ file.units[1] = Magic
    <3>1. PICK size \in Nat : size = MinMapSize
      BY PageFacts
    <3>2. PICK m : m = Mapped(0, size)
      OBVIOUS
    <3>3. m # << >> /\ m[1] = Magic
      BY <1>3, <3>1, <3>2 DEF DetectMagic
    <3>4. m \in Seq(Int) /\ \A i \in 1 .. Len(m) : m[i] = file.units[i]
      BY <2>1, <3>1, <3>2, FirstMapped
    <3>5. Len(m) = IF Len(file.units) = 0 THEN 0
                   ELSE IF size < Len(file.units) THEN size ELSE Len(file.units)
      BY <2>1, <3>1, <3>2, FirstMapped
    <3>6. 1 \in 1 .. Len(m)
      BY <3>3, <3>4, EmptySeq
    <3>7. m[1] = file.units[1]
      BY <3>4, <3>6
    <3>8. Len(file.units) > 0
      BY <2>1, <3>5, <3>6
    <3> QED
      BY <2>1, <3>3, <3>7, <3>8
  <2>3. IsSource(source') /\ source'.kind # "none"
    <3>1. PICK none : none = << >> /\ none \in Seq(Int)
      BY <2>1
    <3>2. PICK made : made = ReadFactory(file.units, none, FALSE)
      OBVIOUS
    <3>3. IsSource(made) /\ made.kind # "none"
      BY <2>1, <2>2, <3>1, <3>2, FactoryIsSource
    <3> QED
      BY <1>3, <3>1, <3>2, <3>3
  <2>4. Len(window') + wanted' <= map_size'
    <3>1. window = << >> /\ wanted = 0
      BY DEF Open, PieceOK, PieceNumbers
    <3> QED
      BY <1>3, <2>1, <3>1, PageFacts
  <2>5. PieceNumbers'
    BY <1>1, <1>3, PageFacts DEF PieceOK, PieceNumbers
  <2>6. file' = file /\ window' = window /\ fallback' = TRUE /\ map_size' > 0
    BY <1>3, PageFacts
  <2> QED
    BY <2>3, <2>4, <2>5, <2>6 DEF PieceOK
<1>4. CASE ReadFrom(0, MinMapSize)
  BY <1>1, <1>4, PageFacts, ReadFromOK
<1> QED
  BY <1>2, <1>3, <1>4 DEF Open

\* Where a search stops, if there is a set of places where it may.
LeastIn(found, n) == IF found = {} THEN n ELSE CHOOSE i \in found : \A j \in found : i <= j

\* It is a least one.
LEMMA LeastInIs ==
  ASSUME NEW found, NEW n, found \subseteq Nat
  PROVE  /\ found = {} => LeastIn(found, n) = n
         /\ found # {} => /\ LeastIn(found, n) \in found
                          /\ \A j \in found : LeastIn(found, n) <= j
<1>1. CASE found = {}
  BY <1>1 DEF LeastIn
<1>2. CASE found # {}
  <2>1. \E i \in found : \A j \in found : i <= j
    BY <1>2, Least
  <2>2. PICK at : at = CHOOSE i \in found : \A j \in found : i <= j
    OBVIOUS
  <2>3. at \in found /\ \A j \in found : at <= j
    BY <2>1, <2>2
  <2>4. LeastIn(found, n) = at
    BY <1>2, <2>2 DEF LeastIn
  <2> QED
    BY <1>2, <2>3, <2>4
<1> QED
  BY <1>1, <1>2

\* A word or newline begins in the unread part of the window, or at its end.
LEMMA StartIs ==
  ASSUME PieceOK
  PROVE  /\ Start \in Nat
         /\ Start = Len(window) \/ (position <= Start /\ Start < Len(window))
<1> DEFINE found == {i \in position .. Len(window) - 1 :
                       ~Delimiter(window[i + 1]) \/ window[i + 1] = Newline}
<1>1. Len(window) \in Nat /\ position \in Nat
  BY SeqFacts DEF PieceOK, PieceNumbers
<1>2. Start = LeastIn(found, Len(window))
  BY DEF Start, Find, LeastIn
<1>3. \A i \in found : i \in Nat /\ position <= i /\ i < Len(window)
  BY <1>1
<1> HIDE DEF found
<1>4. found \subseteq Nat
  BY <1>3
<1>5. (found = {} => Start = Len(window)) /\ (found # {} => Start \in found)
  BY <1>2, <1>4, LeastInIs
<1>6. CASE found = {}
  BY <1>1, <1>5, <1>6
<1>7. CASE found # {}
  BY <1>3, <1>5, <1>7
<1> QED
  BY <1>6, <1>7

\* It stops behind what has been looked at, or at the end of the window.
LEMMA StopIs ==
  ASSUME PieceOK
  PROVE  /\ Stop \in Nat
         /\ Stop = Len(window) \/ (Start + skip <= Stop /\ Stop < Len(window))
<1> DEFINE a == Start + skip
           found == {i \in a .. Len(window) - 1 : Delimiter(window[i + 1])}
<1>1. Len(window) \in Nat /\ a \in Nat
  BY StartIs, SeqFacts DEF PieceOK, PieceNumbers
<1>2. Stop = LeastIn(found, Len(window))
  BY DEF Stop, Find, LeastIn
<1>3. \A i \in found : i \in Nat /\ a <= i /\ i < Len(window)
  BY <1>1
<1> HIDE DEF found
<1>4. found \subseteq Nat
  BY <1>3
<1>5. (found = {} => Stop = Len(window)) /\ (found # {} => Stop \in found)
  BY <1>2, <1>4, LeastInIs
<1>6. CASE found = {}
  BY <1>1, <1>5, <1>6
<1>7. CASE found # {}
  BY <1>3, <1>5, <1>7
<1> QED
  BY <1>6, <1>7

\* ... Shift, which asks for no more than there is room for ...
LEMMA ShiftOK ==
  ASSUME PieceOK, Ready, NEW from \in Nat, NEW looked_at \in Nat, Shift(from, looked_at)
  PROVE  PieceOK'
<1>1. skip' \in Nat /\ map_size \in Nat /\ map_size > 0 /\ offset \in Nat /\ wanted = 0
  BY DEF Shift, PieceOK, PieceNumbers, Ready
<1>2. CASE MMapShift(from)
  <2>1. PICK desired \in Nat : desired = from + offset
    BY <1>1
  <2>2. PICK size \in Nat : size > 0 /\ size = IF from = desired % PageSize THEN 2 * map_size ELSE map_size
    BY <1>1
  <2>3. ~fallback /\ (Map(desired, size) \/ ReadFrom(desired, size))
    BY <1>2, <2>1, <2>2 DEF MMapShift
  <2>4. file.units \in Seq(PlainUnits)
    BY <1>1, <2>3 DEF PieceOK
  <2> QED
    BY <1>1, <2>2, <2>3, <2>4, MapOK, ReadFromOK
<1>3. CASE ReadShift(from)
  <2>1. PICK unread : unread = Rest(window, from + 1)
    OBVIOUS
  <2>2. from + 1 \in Nat \ {0} /\ window \in Seq(Nat) /\ Len(window) \in Nat
    BY SeqFacts DEF PieceOK
  <2>3. unread \in Seq(Nat) /\ Len(unread) \in Nat /\ Len(unread) <= Len(window)
    <3>1. unread \in Seq(Nat) /\ Len(unread) = IF from + 1 <= Len(window) THEN Len(window) - (from + 1) + 1 ELSE 0
      BY <2>1, <2>2, RestFacts
    <3> QED
      BY <2>2, <3>1
  <2>4. /\ fallback
        /\ \/ window' = unread /\ position' = 0
           \/ window' = window /\ position' = from
        /\ map_size' = IF Len(window) = map_size /\ unread = window THEN 2 * map_size ELSE map_size
        /\ wanted' = map_size' - Len(window')
        /\ UNCHANGED <<file, offset, at_end, fallback, source>>
    BY <1>3, <2>1 DEF ReadShift
  <2>5. Len(window) <= map_size
    BY <1>1, <2>2, <2>4 DEF PieceOK
  <2>6. map_size' \in Nat /\ map_size' >= map_size
    BY <1>1, <2>4
  <2>7. window' \in Seq(Nat) /\ Len(window') <= map_size' /\ Len(window') \in Nat
    BY <1>1, <2>2, <2>3, <2>4, <2>5, <2>6
  <2>8. wanted' \in Nat /\ Len(window') + wanted' <= map_size'
    <3>1. PICK l \in Nat, z \in Nat : l = Len(window') /\ z = map_size' /\ l <= z
      BY ONLY <2>6, <2>7
    <3>2. wanted' = z - l
      BY ONLY <2>4, <3>1
    <3> QED
      BY ONLY <3>1, <3>2
  <2>9. PieceNumbers'
    BY <1>1, <2>4, <2>6, <2>8 DEF PieceOK, PieceNumbers
  <2> QED
    BY <1>1, <2>4, <2>6, <2>7, <2>8, <2>9 DEF PieceOK
<1> QED
  BY <1>2, <1>3 DEF Shift

\* ... the searches that call it ...
LEMMA NeedMoreOK ==
  ASSUME PieceOK, NeedMore
  PROVE  PieceOK'
<1>1. Start \in Nat /\ Len(window) \in Nat /\ (Start = Len(window) \/ Start < Len(window)) /\ Ready
  BY StartIs, SeqFacts DEF PieceOK, NeedMore
<1>2. CASE Shift(Start, 0)
  BY <1>1, <1>2, ShiftOK
<1>3. CASE Shift(Start, Len(window) - Start)
  <2>1. Len(window) - Start \in Nat
    BY <1>1
  <2> QED
    BY <1>1, <1>3, <2>1, ShiftOK
<1> QED
  BY <1>2, <1>3 DEF NeedMore

\* ... what the source gives, which is no more than was asked for ...
LEMMA ReadOK ==
  ASSUME PieceOK, Read
  PROVE  PieceOK'
<1>1. PICK turn \in Turn(source, wanted) :
        /\ source' = turn.source
        /\ IF turn.returns /\ turn.source # Broken
             THEN /\ window' = window \o turn.got
                  /\ at_end' = (turn.got = << >>)
                  /\ wanted' = 0
             ELSE UNCHANGED <<window, at_end, wanted>>
  BY DEF Read
<1>2. /\ wanted \in Nat \ {0} /\ source # Broken /\ fallback /\ window \in Seq(Nat)
      /\ UNCHANGED <<file, position, map_size, offset, fallback, skip>>
  BY DEF Read, PieceOK, PieceNumbers
<1>3. source.kind \notin {"none", "thrown"} /\ IsSource(source)
  BY <1>2 DEF PieceOK, IsSource
<1>4. /\ turn.got \in Seq(Nat) /\ Len(turn.got) <= wanted
      /\ IsSource(turn.source) /\ turn.source.kind # "none"
  BY <1>1, <1>2, <1>3, TurnIs
<1>5. Len(window) + wanted <= map_size /\ map_size \in Nat /\ Len(window) \in Nat /\ Len(turn.got) \in Nat
  BY <1>2, <1>4, SeqFacts DEF PieceOK, PieceNumbers
<1>6. CASE turn.returns /\ turn.source # Broken
  <2>1. window' \in Seq(Nat) /\ Len(window') = Len(window) + Len(turn.got)
    <3>1. PICK g : g = turn.got
      OBVIOUS
    <3>2. g \in Seq(Nat) /\ window \in Seq(Nat) /\ window' = window \o g
      BY <1>1, <1>2, <1>4, <1>6, <3>1
    <3>3. window \o g \in Seq(Nat) /\ Len(window \o g) = Len(window) + Len(g)
      BY ONLY <3>2, ConcatProperties
    <3> QED
      BY <3>1, <3>2, <3>3
  <2>2. wanted' = 0 /\ at_end' \in BOOLEAN
    <3>1. wanted' = 0 /\ at_end' = (turn.got = << >>)
      BY ONLY <1>1, <1>6
    <3> QED
      BY ONLY <3>1, Zenon
  <2>3. Len(window') + wanted' <= map_size'
    BY <1>2, <1>4, <1>5, <2>1, <2>2
  <2>4. PieceNumbers'
    BY <1>2, <2>2 DEF PieceOK, PieceNumbers
  <2>5. map_size' # 0
    BY <1>2, <1>5
  <2>6. IsSource(source') /\ source'.kind # "none" /\ fallback' = TRUE
    BY <1>1, <1>2, <1>4 DEF PieceOK, PieceNumbers
  <2>7. IsFile(file)'
    BY <1>2 DEF PieceOK
  <2> QED
    BY <2>1, <2>3, <2>4, <2>5, <2>6, <2>7 DEF PieceOK
<1>7. CASE ~(turn.returns /\ turn.source # Broken)
  <2>1. UNCHANGED <<window, at_end, wanted>>
    BY <1>1, <1>7
  <2>2. PieceNumbers'
    BY <1>2, <2>1 DEF PieceOK, PieceNumbers
  <2> QED
    BY <1>1, <1>2, <1>4, <2>1, <2>2 DEF PieceOK
<1> QED
  BY <1>6, <1>7

\* ... and what is consumed.
LEMMA TakeOK ==
  ASSUME PieceOK, NEW to \in Nat, Take(to), Ready
  PROVE  PieceOK'
<1>1. PieceNumbers' /\ UNCHANGED <<file, window, map_size, offset, at_end, fallback, source, wanted>>
  BY DEF PieceOK, PieceNumbers, Take
<1> QED
  BY <1>1 DEF PieceOK, Ready

\* A word is a sequence of bytes, and its id a number.
LEMMA WordIs ==
  ASSUME PieceOK, AtWord
  PROVE  TheWord \in Seq(Nat) /\ Id(TheWord) \in Nat
<1>1. window \in Seq(Nat) /\ Len(window) \in Nat /\ \A i \in 1 .. Len(window) : window[i] \in Nat
  BY SeqFacts DEF PieceOK
<1>2. Start \in Nat /\ Stop \in Nat /\ Stop <= Len(window)
  BY <1>1, StartIs, StopIs
<1>3. TheWord \in Seq(Nat)
  <2>1. \A i \in Start + 1 .. Stop : window[i] \in Nat
    BY <1>1, <1>2
  <2>2. Start + 1 \in Int /\ Stop \in Int
    BY <1>2
  <2> QED
    BY <2>1, <2>2, SubSeqProperties DEF TheWord
<1>4. PICK w \in Seq(Nat) : w = TheWord
  BY <1>3
<1>5. Id(w) \in Nat
  <2>1. Len(w) \in Nat /\ \A i \in 1 .. Len(w) : w[i] \in Nat
    BY SeqFacts
  <2>2. PICK step : step = [p \in (1 .. Len(w)) \X Nat |-> 10 * p[2] + w[p[1]]]
    OBVIOUS
  <2>3. ASSUME NEW k \in 1 .. Len(w), NEW v \in Nat
        PROVE  step[<<k, v>>] = 10 * v + w[k] /\ step[<<k, v>>] \in Nat
    <3>1. w[k] \in Nat /\ <<k, v>> \in (1 .. Len(w)) \X Nat
      BY <2>1
    <3>2. step[<<k, v>>] = 10 * v + w[k]
      BY <2>2, <3>1
    <3> QED
      BY <3>1, <3>2
  <2>4. step \in [(1 .. Len(w)) \X Nat -> Nat]
    <3>1. ASSUME NEW p \in (1 .. Len(w)) \X Nat PROVE step[p] \in Nat
      <4>1. p[1] \in 1 .. Len(w) /\ p[2] \in Nat /\ p = <<p[1], p[2]>>
        OBVIOUS
      <4> QED
        BY <2>3, <4>1
    <3> QED
      BY <2>2, <3>1
  <2>5. PICK f \in [0 .. Len(w) -> Nat] : Built(f, Len(w), 0, step)
    BY <2>1, <2>4, BuiltExists
  <2> DEFINE F(h) == [n \in 0 .. Len(w) |-> IF n = 0 THEN 0 ELSE 10 * h[n - 1] + w[n]]
  <2>6. f = F(f)
    <3>1. ASSUME NEW n \in 0 .. Len(w) PROVE f[n] = IF n = 0 THEN 0 ELSE 10 * f[n - 1] + w[n]
      <4>1. CASE n = 0
        BY <2>5, <4>1 DEF Built
      <4>2. CASE n # 0
        <5>1. n \in 1 .. Len(w) /\ n - 1 \in 0 .. Len(w)
          BY <2>1, <4>2
        <5>2. f[n] = step[<<n, f[n - 1]>>] /\ f[n - 1] \in Nat
          BY <2>5, <5>1 DEF Built
        <5> QED
          BY <2>3, <4>2, <5>1, <5>2
      <4> QED
        BY <4>1, <4>2
    <3> QED
      BY <2>5, <3>1
  <2>7. PICK h : h = CHOOSE x : x = F(x)
    OBVIOUS
  <2>8. h = F(h)
    BY <2>6, <2>7
  <2>9. Id(w) = h[Len(w)]
    BY <2>7 DEF Id
  <2> HIDE DEF F
  <2>10. PICK I : I = {m \in Nat : m <= Len(w) => h[m] \in Nat}
    OBVIOUS
  <2>11. 0 \in I
    <3>1. h[0] = 0
      BY <2>1, <2>8 DEF F
    <3> QED
      BY <2>10, <3>1
  <2>12. ASSUME NEW m \in Nat, m \in I PROVE m + 1 \in I
    <3> SUFFICES ASSUME m + 1 <= Len(w) PROVE h[m + 1] \in Nat
      BY <2>10
    <3>1. PICK k \in Nat : k = m + 1 /\ k \in 0 .. Len(w) /\ k \in 1 .. Len(w) /\ k # 0 /\ k - 1 = m
      BY <2>1
    <3>2. h[k] = 10 * h[k - 1] + w[k]
      BY <2>8, <3>1 DEF F
    <3>3. h[m] \in Nat /\ w[k] \in Nat
      BY <2>1, <2>10, <2>12, <3>1
    <3> QED
      BY <3>1, <3>2, <3>3
  <2>13. Len(w) \in I
    BY <2>1, <2>11, <2>12, Induction
  <2> QED
    BY <2>9, <2>10, <2>13
<1> QED
  BY <1>3, <1>4, <1>5

-----------------------------------------------------------------------------
(* Counting                                                                *)

\* What the gram of a record is: words.
NGram == [1 .. Order -> Nat]

\* What the counting keeps.
CountOK ==
  /\ PieceOK
  /\ context \in [1 .. Order - 1 -> Nat]
  /\ block \in Seq(Entries) /\ sent \in Seq(Seq(Entries))
  /\ closed \in BOOLEAN
  /\ IsFiniteSet(dedupe) /\ TableTellsTheBlock

\* Entries are records of N words and a positive count.
LEMMA EntriesAre == Entries = [gram : NGram, count : Nat \ {0}] /\ Order \in Nat /\ Order >= 2
BY OrderAssumption DEF Entries, NGram

\* The N-gram of a context and a word.
LEMMA GramIs ==
  ASSUME NEW c \in [1 .. Order - 1 -> Nat], NEW w \in Nat
  PROVE  /\ Append(c, w) \in NGram
         /\ Tail(Append(c, w)) \in [1 .. Order - 1 -> Nat]
<1>1. PICK n \in Nat : n = Order - 1 /\ n + 1 = Order
  BY EntriesAre
<1>2. c \in Seq(Nat) /\ Len(c) = n
  BY <1>1, FunctionIsSeq
<1>3. PICK g : g = Append(c, w)
  OBVIOUS
<1>4. g \in Seq(Nat) /\ g # << >> /\ Len(g) = n + 1
  BY <1>2, <1>3, AppendProperties
<1>5. g \in [1 .. n + 1 -> Nat]
  BY <1>4, LenProperties
<1>6. Tail(g) \in Seq(Nat) /\ Len(Tail(g)) = (n + 1) - 1
  BY <1>4, HeadTailProperties
<1>7. Tail(g) \in [1 .. n -> Nat]
  <2>1. Len(Tail(g)) = n
    BY <1>6
  <2> QED
    BY <1>6, <2>1, LenProperties
<1> QED
  BY <1>1, <1>3, <1>5, <1>7 DEF NGram

\* The grams of a sequence of records.
GramsOf(b) == {b[i].gram : i \in DOMAIN b}

\* An N-gram that is new to a block goes to its end, and its key to the table.
LEMMA AppendCounted ==
  ASSUME block \in Seq(Entries), IsFiniteSet(dedupe), TableTellsTheBlock,
         NEW g \in NGram, g \notin dedupe,
         NEW full, full = Append(block, [gram |-> g, count |-> 1])
  PROVE  /\ full \in Seq(Entries) /\ Len(full) = Len(block) + 1
         /\ GramsOf(full) = dedupe \cup {g}
         /\ IsFiniteSet(dedupe \cup {g}) /\ Cardinality(dedupe \cup {g}) = Len(full)
<1>1. PICK r : r = [gram |-> g, count |-> 1]
  OBVIOUS
<1>2. r \in Entries /\ r.gram = g
  BY <1>1, EntriesAre
<1>3. /\ full \in Seq(Entries) /\ Len(full) = Len(block) + 1 /\ full[Len(block) + 1] = r
      /\ \A i \in 1 .. Len(block) : full[i] = block[i]
  BY <1>1, <1>2, AppendProperties
<1>4. Len(block) \in Nat /\ DOMAIN block = 1 .. Len(block) /\ DOMAIN full = 1 .. Len(full)
  BY <1>3, SeqFacts
<1>5. dedupe = {block[i].gram : i \in 1 .. Len(block)} /\ Cardinality(dedupe) = Len(block)
  BY <1>4 DEF TableTellsTheBlock
<1>6. GramsOf(full) = dedupe \cup {g}
  <2>1. ASSUME NEW x \in GramsOf(full) PROVE x \in dedupe \cup {g}
    <3>1. PICK i \in 1 .. Len(block) + 1 : x = full[i].gram
      BY <1>3, <1>4 DEF GramsOf
    <3>2. CASE i = Len(block) + 1
      BY <1>2, <1>3, <3>1, <3>2
    <3>3. CASE i # Len(block) + 1
      <4>1. i \in 1 .. Len(block)
        BY <1>4, <3>3
      <4>2. x = block[i].gram
        BY <1>3, <3>1, <4>1
      <4> QED
        BY <1>5, <4>1, <4>2
    <3> QED
      BY <3>2, <3>3
  <2>2. ASSUME NEW x \in dedupe PROVE x \in GramsOf(full)
    <3>1. PICK i \in 1 .. Len(block) : x = block[i].gram
      BY <1>5
    <3>2. i \in DOMAIN full /\ x = full[i].gram
      BY <1>3, <1>4, <3>1
    <3> QED
      BY <3>2 DEF GramsOf
  <2>3. g \in GramsOf(full)
    <3>1. Len(block) + 1 \in DOMAIN full /\ full[Len(block) + 1].gram = g
      BY <1>2, <1>3, <1>4
    <3> QED
      BY <3>1 DEF GramsOf
  <2> QED
    BY <2>1, <2>2, <2>3
<1>7. IsFiniteSet(dedupe \cup {g}) /\ Cardinality(dedupe \cup {g}) = Cardinality(dedupe) + 1
  BY FS_AddElement
<1> QED
  BY <1>3, <1>5, <1>6, <1>7

\* A repeat adds to the count of its record.
LEMMA RepeatCounted ==
  ASSUME block \in Seq(Entries), NEW g \in NGram, NEW b,
         b = [i \in DOMAIN block |->
                IF block[i].gram = g THEN [block[i] EXCEPT !.count = @ + 1] ELSE block[i]]
  PROVE  b \in Seq(Entries) /\ Len(b) = Len(block) /\ GramsOf(b) = GramsOf(block)
<1>1. Len(block) \in Nat /\ DOMAIN block = 1 .. Len(block) /\ \A i \in 1 .. Len(block) : block[i] \in Entries
  BY SeqFacts
<1>2. ASSUME NEW i \in 1 .. Len(block) PROVE b[i] \in Entries /\ b[i].gram = block[i].gram
  <2>1. PICK r \in Entries : r = block[i]
    BY <1>1
  <2>2. b[i] = IF r.gram = g THEN [r EXCEPT !.count = @ + 1] ELSE r
    BY <1>1, <2>1
  <2>3. [r EXCEPT !.count = @ + 1] \in Entries /\ [r EXCEPT !.count = @ + 1].gram = r.gram
    <3>1. r.count + 1 \in Nat \ {0} /\ r.gram \in NGram /\ r = [gram |-> r.gram, count |-> r.count]
      BY EntriesAre
    <3>2. [r EXCEPT !.count = @ + 1] = [gram |-> r.gram, count |-> r.count + 1]
      BY <3>1
    <3> QED
      BY <3>1, <3>2, EntriesAre
  <2> QED
    BY <2>1, <2>2, <2>3
<1>3. b \in [1 .. Len(block) -> Entries]
  BY <1>1, <1>2
<1>4. b \in Seq(Entries) /\ Len(b) = Len(block)
  BY <1>1, <1>3, FunctionIsSeq
<1>5. DOMAIN b = DOMAIN block
  BY <1>1, <1>3
<1> QED
  BY <1>1, <1>2, <1>4, <1>5 DEF GramsOf

\* Writer::Append keeps the table and the block in step.
LEMMA AppendWordOK ==
  ASSUME CountOK, NEW w \in Nat, AppendWord(w)
  PROVE  /\ block' \in Seq(Entries) /\ sent' \in Seq(Seq(Entries))
         /\ IsFiniteSet(dedupe') /\ TableTellsTheBlock'
<1>1. PICK g \in NGram : g = Append(context, w)
  BY GramIs DEF CountOK
<1>2. PICK full : full = Append(block, [gram |-> g, count |-> 1])
  OBVIOUS
<1>3. /\ block \in Seq(Entries) /\ sent \in Seq(Seq(Entries)) /\ IsFiniteSet(dedupe) /\ TableTellsTheBlock
      /\ Len(block) \in Nat /\ PerBlock \in Nat \ {0}
  BY SeqFacts, PerBlockAssumption DEF CountOK
<1>4. CASE /\ g \in dedupe
           /\ block' = [i \in DOMAIN block |->
                          IF block[i].gram = g THEN [block[i] EXCEPT !.count = @ + 1] ELSE block[i]]
           /\ UNCHANGED <<dedupe, sent>>
  <2>1. PICK b : b = block'
    OBVIOUS
  <2>2. b \in Seq(Entries) /\ Len(b) = Len(block) /\ GramsOf(b) = GramsOf(block)
    BY <1>3, <1>4, <2>1, RepeatCounted
  <2>3. dedupe' = dedupe /\ sent' = sent
    BY <1>4
  <2> QED
    BY <1>3, <2>1, <2>2, <2>3 DEF TableTellsTheBlock, GramsOf
<1>5. CASE g \notin dedupe /\ Len(full) < PerBlock /\ block' = full /\ dedupe' = dedupe \cup {g} /\ UNCHANGED sent
  <2>1. /\ full \in Seq(Entries) /\ GramsOf(full) = dedupe \cup {g}
        /\ IsFiniteSet(dedupe \cup {g}) /\ Cardinality(dedupe \cup {g}) = Len(full)
    BY <1>2, <1>3, <1>5, AppendCounted
  <2> QED
    BY <1>3, <1>5, <2>1 DEF TableTellsTheBlock, GramsOf
<1>6. CASE g \notin dedupe /\ Len(full) = PerBlock /\ sent' = Append(sent, full) /\ block' = << >> /\ dedupe' = {}
  <2>1. full \in Seq(Entries)
    BY <1>2, <1>3, <1>6, AppendCounted
  <2>2. sent' \in Seq(Seq(Entries))
    BY <1>3, <1>6, <2>1, AppendProperties
  <2>3. block' \in Seq(Entries) /\ Len(block') = 0 /\ DOMAIN block' = {}
    BY <1>6, EmptySeq
  <2>4. IsFiniteSet(dedupe') /\ Cardinality(dedupe') = 0
    BY <1>6, FS_EmptySet
  <2>5. dedupe' = {block'[i].gram : i \in DOMAIN block'}
    BY <1>6, <2>3
  <2> QED
    BY <1>3, <2>2, <2>3, <2>4, <2>5 DEF TableTellsTheBlock
<1>7. \/ g \in dedupe /\ UNCHANGED <<dedupe, sent>>
         /\ block' = [i \in DOMAIN block |->
                        IF block[i].gram = g THEN [block[i] EXCEPT !.count = @ + 1] ELSE block[i]]
      \/ g \notin dedupe /\ Len(full) < PerBlock /\ block' = full /\ dedupe' = dedupe \cup {g} /\ UNCHANGED sent
      \/ g \notin dedupe /\ Len(full) = PerBlock /\ sent' = Append(sent, full) /\ block' = << >> /\ dedupe' = {}
  BY <1>1, <1>2 DEF AppendWord
<1> QED
  BY <1>4, <1>5, <1>6, <1>7

\* What a word, a newline and the end of the file make of it.
LEMMA CountStepOK ==
  ASSUME CountOK, Count
  PROVE  CountOK'
<1>1. PieceOK /\ context \in [1 .. Order - 1 -> Nat]
  BY DEF CountOK
<1>2. CASE Reading
  <2>1. PieceOK' /\ UNCHANGED <<context, block, dedupe, sent, closed>>
    BY <1>1, <1>2, OpenOK, NeedMoreOK, ReadOK DEF Reading
  <2> QED
    BY <2>1 DEF CountOK, TableTellsTheBlock
<1>3. CASE ReadWord
  <2>1. /\ AtWord /\ Take(Stop) /\ UNCHANGED closed /\ Ready
        /\ \/ UNCHANGED <<context, block, dedupe, sent>>
           \/ AppendWord(Id(TheWord)) /\ context' = Tail(Append(context, Id(TheWord)))
    BY <1>3 DEF ReadWord, AtWord
  <2>2. Stop \in Nat /\ Id(TheWord) \in Nat
    BY <1>1, <2>1, StopIs, WordIs
  <2>3. PieceOK'
    BY <1>1, <2>1, <2>2, TakeOK
  <2>4. CASE UNCHANGED <<context, block, dedupe, sent>>
    BY <2>1, <2>3, <2>4 DEF CountOK, TableTellsTheBlock
  <2>5. CASE AppendWord(Id(TheWord)) /\ context' = Tail(Append(context, Id(TheWord)))
    <3>1. context' \in [1 .. Order - 1 -> Nat]
      BY <1>1, <2>2, <2>5, GramIs
    <3>2. /\ block' \in Seq(Entries) /\ sent' \in Seq(Seq(Entries))
          /\ IsFiniteSet(dedupe') /\ TableTellsTheBlock'
      BY <2>2, <2>5, AppendWordOK
    <3>3. closed' \in BOOLEAN
      BY <2>1 DEF CountOK
    <3> QED
      BY <2>3, <3>1, <3>2, <3>3 DEF CountOK
  <2> QED
    BY <2>1, <2>4, <2>5
<1>4. CASE EndLine
  <2>1. Take(Start + 1) /\ AppendWord(kEOS) /\ context' = StartSentence /\ UNCHANGED closed /\ Ready
    BY <1>4 DEF EndLine, AtNewline
  <2>2. Start + 1 \in Nat
    BY <1>1, StartIs
  <2>3. PieceOK'
    BY <1>1, <2>1, <2>2, TakeOK
  <2>4. StartSentence \in [1 .. Order - 1 -> Nat]
    BY DEF StartSentence, kBOS
  <2>5. kEOS \in Nat
    BY DEF kEOS
  <2>6. /\ block' \in Seq(Entries) /\ sent' \in Seq(Seq(Entries))
        /\ IsFiniteSet(dedupe') /\ TableTellsTheBlock'
    BY <2>1, <2>5, AppendWordOK
  <2> QED
    BY <2>1, <2>3, <2>4, <2>6 DEF CountOK
<1>5. CASE EndOfFile
  <2>1. sent' = Append(sent, block) /\ closed' = TRUE /\ UNCHANGED <<piece, context, block, dedupe>>
    BY <1>5 DEF EndOfFile
  <2>2. sent' \in Seq(Seq(Entries))
    <3>1. sent \in Seq(Seq(Entries)) /\ block \in Seq(Entries)
      BY DEF CountOK
    <3> QED
      BY <2>1, <3>1, AppendProperties
  <2>3. PieceOK'
    BY <1>1, <2>1 DEF piece, PieceOK, PieceNumbers
  <2> QED
    BY <2>1, <2>2, <2>3 DEF CountOK, TableTellsTheBlock
<1> QED
  BY <1>2, <1>3, <1>4, <1>5 DEF Count

\* What the counting begins with.
LEMMA CountInitOK ==
  ASSUME NEW f, IsFile(f), CountInit(f)
  PROVE  CountOK
<1>1. /\ << >> \in Seq(Nat) /\ << >> \in Seq(Int) /\ << >> \in Seq(Entries) /\ << >> \in Seq(Seq(Entries))
      /\ Len(<< >>) = 0
  BY EmptySeq
<1>2. /\ file = f /\ window = << >> /\ position = 0 /\ map_size = 0 /\ offset = 0
      /\ at_end = FALSE /\ fallback = FALSE /\ source = Source("none", << >>, << >>) /\ wanted = 0 /\ skip = 0
      /\ context = StartSentence /\ block = << >> /\ dedupe = {} /\ sent = << >> /\ closed = FALSE
  BY DEF CountInit, PieceInit
<1>3. IsSource(source)
  <2>1. PICK none : none = << >> /\ none \in Seq(Int)
    BY <1>1
  <2>2. IsSource(Source("none", none, none))
    BY <2>1, NewSource DEF Kinds
  <2> QED
    BY <1>2, <2>1, <2>2
<1>4. PieceNumbers
  BY <1>2 DEF PieceNumbers
<1>5. window \in Seq(Nat) /\ IsFile(file)
  BY <1>1, <1>2
<1>6. PieceOK
  BY <1>2, <1>3, <1>4, <1>5 DEF PieceOK
<1>7. context \in [1 .. Order - 1 -> Nat]
  BY <1>2 DEF StartSentence, kBOS
<1>8. IsFiniteSet(dedupe) /\ Cardinality(dedupe) = 0
  BY <1>2, FS_EmptySet
<1>9. TableTellsTheBlock
  <2>1. DOMAIN block = {} /\ Len(block) = 0 /\ PerBlock \in Nat \ {0}
    BY <1>1, <1>2, PerBlockAssumption
  <2> QED
    BY <1>2, <1>8, <2>1 DEF TableTellsTheBlock
<1>10. block \in Seq(Entries) /\ sent \in Seq(Seq(Entries)) /\ closed \in BOOLEAN
  BY <1>1, <1>2
<1> QED
  BY <1>6, <1>7, <1>8, <1>9, <1>10 DEF CountOK

-----------------------------------------------------------------------------
(* Logs of run lengths                                                     *)

\* Products with a number of runs.
LEMMA Products ==
  ASSUME NEW n \in Nat, NEW l \in Nat
  PROVE  /\ n * l \in Nat /\ (n + 1) * l = n * l + l /\ 0 * l = 0 /\ 1 * l = l
         /\ n > 0 => n * l >= l /\ (n - 1) * l = n * l - l
<1>1. n * l \in Nat /\ (n + 1) * l = n * l + l /\ 0 * l = 0 /\ 1 * l = l
  OBVIOUS
<1>2. ASSUME n > 0 PROVE n * l >= l /\ (n - 1) * l = n * l - l
  <2>1. PICK m \in Nat : m = n - 1 /\ n = m + 1
    BY <1>2
  <2>2. m * l \in Nat /\ (m + 1) * l = m * l + l
    OBVIOUS
  <2> QED
    BY <2>1, <2>2
<1> QED
  BY <1>1, <1>2

\* f adds up d.
Adds(f, n, d) ==
  /\ f \in [1 .. n + 1 -> Nat] /\ d \in [1 .. n -> Nat]
  /\ \A k \in 1 .. n : f[k + 1] = f[k] + d[k]

\* What adds up the same differs by what it began with.
LEMMA AddsAlike ==
  ASSUME NEW n \in Nat, NEW d, NEW f, NEW g, Adds(f, n, d), Adds(g, n, d),
         NEW c \in Int, f[1] = g[1] + c
  PROVE  \A k \in 1 .. n + 1 : f[k] = g[k] + c
<1>1. PICK I : I = {m \in Nat : m <= n => f[m + 1] = g[m + 1] + c}
  OBVIOUS
<1>2. 0 \in I
  BY <1>1
<1>3. ASSUME NEW m \in Nat, m \in I PROVE m + 1 \in I
  <2> SUFFICES ASSUME m + 1 <= n PROVE f[m + 1 + 1] = g[m + 1 + 1] + c
    BY <1>1
  <2>1. PICK k \in 1 .. n : k = m + 1
    OBVIOUS
  <2>2. f[k] = g[k] + c /\ k \in 1 .. n + 1 /\ k + 1 \in 1 .. n + 1
    BY <1>1, <1>3, <2>1
  <2>3. f[k + 1] = f[k] + d[k] /\ g[k + 1] = g[k] + d[k]
    BY DEF Adds
  <2>4. f[k] \in Nat /\ g[k] \in Nat /\ f[k + 1] \in Nat /\ g[k + 1] \in Nat
    BY <2>2 DEF Adds
  <2>5. f[k + 1] = g[k + 1] + c
    <3>1. PICK fk, gk, fl, gl : fk = f[k] /\ gk = g[k] /\ fl = f[k + 1] /\ gl = g[k + 1]
      OBVIOUS
    <3>2. PICK dk \in Nat : dk = d[k]
      BY DEF Adds
    <3>3. fk \in Nat /\ gk \in Nat /\ fl \in Nat /\ gl \in Nat /\ fl = fk + dk /\ gl = gk + dk /\ fk = gk + c
      BY <2>2, <2>3, <2>4, <3>1, <3>2
    <3> QED
      BY <3>1, <3>3
  <2> QED
    BY <2>1, <2>5
<1>4. \A m \in Nat : m \in I
  BY <1>2, <1>3, Induction
<1>5. ASSUME NEW k \in 1 .. n + 1 PROVE f[k] = g[k] + c
  <2>1. PICK m \in Nat : k = m + 1 /\ m <= n
    <3>1. k - 1 \in Nat /\ k = (k - 1) + 1 /\ k - 1 <= n
      OBVIOUS
    <3> QED
      BY <3>1
  <2> QED
    BY <1>1, <1>4, <2>1
<1> QED
  BY <1>5

\* There is what adds up d from 0 on.
LEMMA AddsExists ==
  ASSUME NEW n \in Nat, NEW d \in [1 .. n -> Nat]
  PROVE  \E g : Adds(g, n, d) /\ g[1] = 0
<1>1. PICK step : step = [p \in (1 .. n) \X Nat |-> p[2] + d[p[1]]]
  OBVIOUS
<1>2. ASSUME NEW k \in 1 .. n, NEW v \in Nat
      PROVE  step[<<k, v>>] = v + d[k] /\ step[<<k, v>>] \in Nat
  <2>1. <<k, v>> \in (1 .. n) \X Nat /\ d[k] \in Nat
    OBVIOUS
  <2>2. step[<<k, v>>] = v + d[k]
    BY <1>1, <2>1
  <2> QED
    BY <2>1, <2>2
<1>3. step \in [(1 .. n) \X Nat -> Nat]
  <2>1. ASSUME NEW p \in (1 .. n) \X Nat PROVE step[p] \in Nat
    <3>1. p[1] \in 1 .. n /\ p[2] \in Nat /\ p = <<p[1], p[2]>>
      OBVIOUS
    <3> QED
      BY <1>2, <3>1
  <2> QED
    BY <1>1, <2>1
<1>4. PICK f \in [0 .. n -> Nat] : Built(f, n, 0, step)
  BY <1>3, BuiltExists
<1>5. PICK g : g = [k \in 1 .. n + 1 |-> f[k - 1]]
  OBVIOUS
<1>6. g \in [1 .. n + 1 -> Nat] /\ g[1] = 0
  BY <1>4, <1>5 DEF Built
<1>7. ASSUME NEW j \in 1 .. n
      PROVE  g[j + 1] = g[j] + d[j]
  <2>1. j + 1 \in 1 .. n + 1 /\ (j + 1) - 1 = j /\ j \in 1 .. n + 1 /\ j - 1 \in 0 .. n
    OBVIOUS
  <2>2. g[j + 1] = f[j] /\ g[j] = f[j - 1]
    BY <1>5, <2>1
  <2>3. f[j] = step[<<j, f[j - 1]>>] /\ f[j - 1] \in Nat
    BY <1>4, <2>1 DEF Built
  <2>4. f[j] = f[j - 1] + d[j]
    BY <1>2, <2>3
  <2> QED
    BY <2>2, <2>4
<1> QED
  BY <1>6, <1>7 DEF Adds

\* A recursive function adds d up.
LEMMA AddsOf ==
  ASSUME NEW n \in Nat, NEW d \in [1 .. n -> Nat], NEW h, h = [k \in 1 .. n + 1 |-> h[k]],
         h[1] = 0, \A k \in 1 .. n : h[k + 1] = h[k] + d[k]
  PROVE  Adds(h, n, d)
<1>1. PICK I : I = {m \in Nat : m <= n => h[m + 1] \in Nat}
  OBVIOUS
<1>2. 0 \in I
  BY <1>1
<1>3. ASSUME NEW m \in Nat, m \in I PROVE m + 1 \in I
  <2> SUFFICES ASSUME m + 1 <= n PROVE h[m + 1 + 1] \in Nat
    BY <1>1
  <2>1. PICK k \in 1 .. n : k = m + 1
    OBVIOUS
  <2>2. h[k] \in Nat /\ d[k] \in Nat
    BY <1>1, <1>3, <2>1
  <2>3. h[k + 1] = h[k] + d[k]
    OBVIOUS
  <2> QED
    BY <2>1, <2>2, <2>3
<1>4. \A m \in Nat : m \in I
  BY <1>2, <1>3, Induction
<1>5. ASSUME NEW k \in 1 .. n + 1 PROVE h[k] \in Nat
  <2>1. PICK m \in Nat : k = m + 1 /\ m <= n
    <3>1. k - 1 \in Nat /\ k = (k - 1) + 1 /\ k - 1 <= n
      OBVIOUS
    <3> QED
      BY <3>1
  <2> QED
    BY <1>1, <1>4, <2>1
<1>6. h \in [1 .. n + 1 -> Nat]
  BY <1>5
<1> QED
  BY <1>6 DEF Adds

\* What each entry of a log stands for, and what they all do.
Sizes(log) == [k \in 1 .. Len(log) |-> log[k].run * log[k].length]
\* How many runs each entry tells.
Numbers(log) == [k \in 1 .. Len(log) |-> log[k].run]
\* What a log tells: the bytes and the runs of all its entries.
TotalBytes(log) == BytesBefore(log)[Len(log) + 1]
TotalRuns(log) == RunsBefore(log)[Len(log) + 1]

\* The entries of a log, and what they tell.
LEMMA RunFacts ==
  ASSUME NEW log \in Seq(Runs)
  PROVE  /\ Len(log) \in Nat /\ DOMAIN log = 1 .. Len(log)
         /\ \A k \in 1 .. Len(log) : log[k] \in Runs /\ log[k].run \in Nat /\ log[k].length \in Nat
         /\ Sizes(log) \in [1 .. Len(log) -> Nat] /\ Numbers(log) \in [1 .. Len(log) -> Nat]
<1>1. Len(log) \in Nat /\ DOMAIN log = 1 .. Len(log) /\ \A k \in 1 .. Len(log) : log[k] \in Runs
  BY SeqFacts
<1>2. \A k \in 1 .. Len(log) : log[k].run \in Nat /\ log[k].length \in Nat
  BY <1>1 DEF Runs
<1>3. \A k \in 1 .. Len(log) : log[k].run * log[k].length \in Nat
  BY <1>2
<1> QED
  BY <1>1, <1>2, <1>3 DEF Sizes, Numbers

\* BytesBefore adds up the sizes ...
LEMMA BytesAdd ==
  ASSUME NEW log \in Seq(Runs)
  PROVE  Adds(BytesBefore(log), Len(log), Sizes(log)) /\ BytesBefore(log)[1] = 0
<1> DEFINE F(x) == [k \in 1 .. Len(log) + 1 |->
                      IF k = 1 THEN 0 ELSE x[k - 1] + log[k - 1].run * log[k - 1].length]
<1>1. PICK n \in Nat : n = Len(log)
  BY RunFacts
<1>2. Sizes(log) \in [1 .. n -> Nat] /\ \A k \in 1 .. n : Sizes(log)[k] = log[k].run * log[k].length
  BY <1>1, RunFacts DEF Sizes
<1>3. PICK d : d = Sizes(log)
  OBVIOUS
<1>4. PICK g : Adds(g, n, d) /\ g[1] = 0
  BY <1>2, <1>3, AddsExists
<1>5. ASSUME NEW k \in 1 .. n + 1
      PROVE  g[k] = IF k = 1 THEN 0 ELSE g[k - 1] + log[k - 1].run * log[k - 1].length
  <2>1. CASE k = 1
    BY <1>4, <2>1
  <2>2. CASE k # 1
    <3>1. PICK j \in 1 .. n : k = j + 1 /\ k - 1 = j
      <4>1. k - 1 \in 1 .. n /\ k = (k - 1) + 1
        BY <2>2
      <4> QED
        BY <4>1
    <3>2. g[j + 1] = g[j] + d[j]
      BY <1>4 DEF Adds
    <3> QED
      BY <1>2, <1>3, <2>2, <3>1, <3>2
  <2> QED
    BY <2>1, <2>2
<1>6. g = F(g)
  BY <1>1, <1>4, <1>5 DEF Adds
<1>7. PICK h : h = CHOOSE x : x = F(x)
  OBVIOUS
<1>8. h = F(h)
  BY <1>6, <1>7
<1>9. BytesBefore(log) = h
  BY <1>7 DEF BytesBefore
<1>10. h[1] = 0
  <2>1. 1 \in 1 .. Len(log) + 1
    BY <1>1
  <2>2. h[1] = F(h)[1]
    BY <1>8
  <2>3. F(h)[1] = 0
    BY <2>1
  <2> QED
    BY ONLY <2>2, <2>3
<1>11. ASSUME NEW k \in 1 .. n PROVE h[k + 1] = h[k] + d[k]
  <2>1. PICK j \in 1 .. n + 1 : j = k + 1 /\ j # 1 /\ j - 1 = k
    OBVIOUS
  <2>2. h[j] = F(h)[j]
    BY <1>8
  <2>3. F(h)[j] = h[j - 1] + log[j - 1].run * log[j - 1].length
    BY <1>1, <2>1
  <2>4. h[j] = h[j - 1] + log[j - 1].run * log[j - 1].length
    BY ONLY <2>2, <2>3
  <2> QED
    BY <1>2, <1>3, <2>1, <2>4
<1>12. h = [k \in 1 .. n + 1 |-> h[k]]
  BY <1>1, <1>8
<1> HIDE <1>8 DEF F
<1>13. Adds(h, n, d)
  BY <1>2, <1>3, <1>10, <1>11, <1>12, AddsOf
<1> QED
  BY <1>1, <1>3, <1>9, <1>10, <1>13

\* ... and RunsBefore the numbers of runs.
LEMMA RunsAdd ==
  ASSUME NEW log \in Seq(Runs)
  PROVE  Adds(RunsBefore(log), Len(log), Numbers(log)) /\ RunsBefore(log)[1] = 0
<1> DEFINE F(x) == [k \in 1 .. Len(log) + 1 |-> IF k = 1 THEN 0 ELSE x[k - 1] + log[k - 1].run]
<1>1. PICK n \in Nat : n = Len(log)
  BY RunFacts
<1>2. Numbers(log) \in [1 .. n -> Nat] /\ \A k \in 1 .. n : Numbers(log)[k] = log[k].run
  BY <1>1, RunFacts DEF Numbers
<1>3. PICK d : d = Numbers(log)
  OBVIOUS
<1>4. PICK g : Adds(g, n, d) /\ g[1] = 0
  BY <1>2, <1>3, AddsExists
<1>5. ASSUME NEW k \in 1 .. n + 1
      PROVE  g[k] = IF k = 1 THEN 0 ELSE g[k - 1] + log[k - 1].run
  <2>1. CASE k = 1
    BY <1>4, <2>1
  <2>2. CASE k # 1
    <3>1. PICK j \in 1 .. n : k = j + 1 /\ k - 1 = j
      <4>1. k - 1 \in 1 .. n /\ k = (k - 1) + 1
        BY <2>2
      <4> QED
        BY <4>1
    <3>2. g[j + 1] = g[j] + d[j]
      BY <1>4 DEF Adds
    <3> QED
      BY <1>2, <1>3, <2>2, <3>1, <3>2
  <2> QED
    BY <2>1, <2>2
<1>6. g = F(g)
  BY <1>1, <1>4, <1>5 DEF Adds
<1>7. PICK h : h = CHOOSE x : x = F(x)
  OBVIOUS
<1>8. h = F(h)
  BY <1>6, <1>7
<1>9. RunsBefore(log) = h
  BY <1>7 DEF RunsBefore
<1>10. h[1] = 0
  <2>1. 1 \in 1 .. Len(log) + 1
    BY <1>1
  <2>2. h[1] = F(h)[1]
    BY <1>8
  <2>3. F(h)[1] = 0
    BY <2>1
  <2> QED
    BY ONLY <2>2, <2>3
<1>11. ASSUME NEW k \in 1 .. n PROVE h[k + 1] = h[k] + d[k]
  <2>1. PICK j \in 1 .. n + 1 : j = k + 1 /\ j # 1 /\ j - 1 = k
    OBVIOUS
  <2>2. h[j] = F(h)[j]
    BY <1>8
  <2>3. F(h)[j] = h[j - 1] + log[j - 1].run
    BY <1>1, <2>1
  <2>4. h[j] = h[j - 1] + log[j - 1].run
    BY ONLY <2>2, <2>3
  <2> QED
    BY <1>2, <1>3, <2>1, <2>4
<1>12. h = [k \in 1 .. n + 1 |-> h[k]]
  BY <1>1, <1>8
<1> HIDE <1>8 DEF F
<1>13. Adds(h, n, d)
  BY <1>2, <1>3, <1>10, <1>11, <1>12, AddsOf
<1> QED
  BY <1>1, <1>3, <1>9, <1>10, <1>13

\* With one more thing to add at the end, the sums before are the same.
LEMMA AddsMore ==
  ASSUME NEW n \in Nat, NEW m, m = n + 1, NEW d, NEW e, NEW f, NEW g, Adds(f, n, d), Adds(g, m, e),
         f[1] = g[1], \A k \in 1 .. n : e[k] = d[k]
  PROVE  (\A k \in 1 .. m : g[k] = f[k]) /\ g[m + 1] = f[m] + e[m]
<1>1. PICK h : h = [k \in 1 .. n + 1 |-> g[k]]
  OBVIOUS
<1>2. \A k \in 1 .. n + 1 : h[k] = g[k]
  BY <1>1
<1>3. g \in [1 .. m + 1 -> Nat] /\ e \in [1 .. m -> Nat] /\ \A k \in 1 .. m : g[k + 1] = g[k] + e[k]
  BY DEF Adds
<1>4. h \in [1 .. n + 1 -> Nat]
  BY <1>1, <1>3
<1>5. ASSUME NEW k \in 1 .. n PROVE h[k + 1] = h[k] + d[k]
  <2>1. k \in 1 .. n + 1 /\ k + 1 \in 1 .. n + 1 /\ k \in 1 .. m
    OBVIOUS
  <2>2. h[k + 1] = g[k + 1] /\ h[k] = g[k] /\ e[k] = d[k] /\ g[k + 1] = g[k] + e[k]
    BY <1>2, <1>3, <2>1
  <2> QED
    BY <2>2
<1>6. Adds(h, n, d)
  BY <1>4, <1>5 DEF Adds
<1>7. h[1] = f[1] + 0
  <2>1. 1 \in 1 .. n + 1
    OBVIOUS
  <2>2. f[1] \in Nat
    BY <2>1 DEF Adds
  <2> QED
    BY <1>2, <2>1, <2>2
<1>8. \A k \in 1 .. n + 1 : h[k] = f[k] + 0
  BY <1>6, <1>7, AddsAlike
<1>9. ASSUME NEW k \in 1 .. m PROVE g[k] = f[k]
  <2>1. k \in 1 .. n + 1
    OBVIOUS
  <2>2. f[k] \in Nat
    BY <2>1 DEF Adds
  <2> QED
    BY <1>2, <1>8, <2>1, <2>2
<1>10. m \in 1 .. m
  OBVIOUS
<1>11. g[m + 1] = g[m] + e[m] /\ g[m] = f[m]
  BY <1>3, <1>9, <1>10
<1> QED
  BY <1>9, <1>11

\* One of two lists of things to add is the other behind a first thing.
Later(e, d, n) == \A k \in 1 .. n : e[k + 1] = d[k]

\* Sums that are all higher by c.
Raised(g, f, m, c) == \A k \in 1 .. m : g[k + 1] = f[k] + c

\* With another thing added first, all sums are higher by it.
LEMMA AddsAfter ==
  ASSUME NEW n \in Nat, NEW m, m = n + 1, NEW d, NEW e, NEW f, NEW g, Adds(f, n, d), Adds(g, m, e),
         f[1] = 0, g[1] = 0, Later(e, d, n)
  PROVE  Raised(g, f, m, e[1])
<1>1. PICK h : h = [k \in 1 .. n + 1 |-> g[k + 1]]
  OBVIOUS
<1>2. \A k \in 1 .. n + 1 : h[k] = g[k + 1]
  BY <1>1
<1>3. g \in [1 .. m + 1 -> Nat] /\ e \in [1 .. m -> Nat] /\ \A k \in 1 .. m : g[k + 1] = g[k] + e[k]
  BY DEF Adds
<1>4. h \in [1 .. n + 1 -> Nat]
  <2>1. ASSUME NEW k \in 1 .. n + 1 PROVE g[k + 1] \in Nat
    <3>1. k + 1 \in 1 .. m + 1
      OBVIOUS
    <3> QED
      BY <1>3, <3>1
  <2> QED
    BY <1>1, <2>1
<1>5. ASSUME NEW k \in 1 .. n PROVE h[k + 1] = h[k] + d[k]
  <2>1. PICK j : j = k + 1
    OBVIOUS
  <2>2. k \in 1 .. n + 1 /\ j \in 1 .. n + 1 /\ j \in 1 .. m
    BY <2>1
  <2>3. h[j] = g[j + 1] /\ h[k] = g[k + 1] /\ e[j] = d[k] /\ g[j + 1] = g[j] + e[j]
    BY <1>2, <1>3, <2>1, <2>2 DEF Later
  <2> QED
    BY <2>1, <2>3
<1>6. Adds(h, n, d)
  <2>1. d \in [1 .. n -> Nat]
    BY DEF Adds
  <2> QED
    BY <1>4, <1>5, <2>1 DEF Adds
<1>7. e[1] \in Nat /\ h[1] = f[1] + e[1]
  <2>1. 1 \in 1 .. n + 1 /\ 1 \in 1 .. m
    OBVIOUS
  <2>2. e[1] \in Nat /\ g[1 + 1] = g[1] + e[1]
    BY <1>3, <2>1
  <2>3. h[1] = g[1 + 1]
    BY <1>2, <2>1
  <2> QED
    BY <2>2, <2>3
<1>8. PICK c \in Int : c = e[1]
  BY <1>7
<1>9. \A k \in 1 .. n + 1 : h[k] = f[k] + c
  <2>1. h[1] = f[1] + c
    BY <1>7, <1>8
  <2> QED
    BY <1>6, <2>1, AddsAlike
<1>10. ASSUME NEW k \in 1 .. m PROVE g[k + 1] = f[k] + e[1]
  <2>1. k \in 1 .. n + 1
    OBVIOUS
  <2> QED
    BY <1>2, <1>8, <1>9, <2>1
<1> QED
  BY <1>10 DEF Raised

\* What the totals of a log are when an entry comes to it.
Grown(P, log, r) ==
  TotalBytes(P) = TotalBytes(log) + r.run * r.length /\ TotalRuns(P) = TotalRuns(log) + r.run

\* An entry at the end of the log.
LEMMA AppendLog ==
  ASSUME NEW log \in Seq(Runs), NEW r \in Runs, NEW P, P = Append(log, r)
  PROVE  /\ P \in Seq(Runs) /\ Len(P) = Len(log) + 1 /\ P # << >>
         /\ (\A k \in 1 .. Len(log) : P[k] = log[k]) /\ P[Len(log) + 1] = r
         /\ Grown(P, log, r)
         /\ \A k \in 1 .. Len(log) + 1 : BytesBefore(P)[k] = BytesBefore(log)[k]
<1>1. PICK n \in Nat : n = Len(log)
  BY RunFacts
<1>2. P \in Seq(Runs) /\ Len(P) = n + 1 /\ (\A k \in 1 .. n : P[k] = log[k]) /\ P[n + 1] = r
  <2>1. P \in Seq(Runs) /\ Len(P) = Len(log) + 1 /\ (\A k \in 1 .. Len(log) : P[k] = log[k]) /\ P[Len(log) + 1] = r
    BY AppendProperties
  <2> QED
    BY <1>1, <2>1
<1>3. PICK m : m = n + 1 /\ m \in Nat /\ m \in 1 .. m /\ Len(P) = m
  BY <1>2
<1>4. Adds(BytesBefore(log), n, Sizes(log)) /\ BytesBefore(log)[1] = 0
  BY <1>1, BytesAdd
<1>5. Adds(BytesBefore(P), m, Sizes(P)) /\ BytesBefore(P)[1] = 0
  BY <1>2, <1>3, BytesAdd
<1>6. \A k \in 1 .. n : Sizes(P)[k] = Sizes(log)[k]
  BY <1>1, <1>2, <1>3 DEF Sizes
<1>7. Sizes(P)[m] = r.run * r.length
  BY <1>2, <1>3 DEF Sizes
<1>8. PICK f, g, d, e : f = BytesBefore(log) /\ g = BytesBefore(P) /\ d = Sizes(log) /\ e = Sizes(P)
  OBVIOUS
<1>9. (\A k \in 1 .. m : g[k] = f[k]) /\ g[m + 1] = f[m] + e[m]
  <2>1. Adds(f, n, d) /\ Adds(g, m, e) /\ f[1] = g[1] /\ \A k \in 1 .. n : e[k] = d[k]
    BY ONLY <1>4, <1>5, <1>6, <1>8
  <2>2. n \in Nat /\ m = n + 1
    BY <1>3
  <2> QED
    BY ONLY <2>1, <2>2, AddsMore
<1>10. TotalBytes(P) = TotalBytes(log) + r.run * r.length
  BY <1>1, <1>3, <1>7, <1>8, <1>9 DEF TotalBytes
<1>11. \A k \in 1 .. Len(log) + 1 : BytesBefore(P)[k] = BytesBefore(log)[k]
  BY <1>1, <1>3, <1>8, <1>9
<1>12. Adds(RunsBefore(log), n, Numbers(log)) /\ RunsBefore(log)[1] = 0
  BY <1>1, RunsAdd
<1>13. Adds(RunsBefore(P), m, Numbers(P)) /\ RunsBefore(P)[1] = 0
  BY <1>2, <1>3, RunsAdd
<1>14. \A k \in 1 .. n : Numbers(P)[k] = Numbers(log)[k]
  BY <1>1, <1>2, <1>3 DEF Numbers
<1>15. Numbers(P)[m] = r.run
  BY <1>2, <1>3 DEF Numbers
<1>16. TotalRuns(P) = TotalRuns(log) + r.run
  <2>1. PICK p, q, a, b : p = RunsBefore(log) /\ q = RunsBefore(P) /\ a = Numbers(log) /\ b = Numbers(P)
    OBVIOUS
  <2>2. Adds(p, n, a) /\ Adds(q, m, b) /\ p[1] = q[1] /\ \A k \in 1 .. n : b[k] = a[k]
    BY ONLY <1>12, <1>13, <1>14, <2>1
  <2>3. q[m + 1] = p[m] + b[m]
    BY <1>3, <2>2, AddsMore
  <2> QED
    BY <1>1, <1>3, <1>15, <2>1, <2>3 DEF TotalRuns
<1> QED
  <2>1. P # << >>
    BY <1>2, SeqFacts
  <2>2. Grown(P, log, r)
    BY <1>10, <1>16 DEF Grown
  <2> QED
    BY <1>1, <1>2, <1>11, <2>1, <2>2

\* An entry at the beginning of the log.
LEMMA ConsLog ==
  ASSUME NEW log \in Seq(Runs), NEW r \in Runs, NEW P, P = <<r>> \o log
  PROVE  /\ P \in Seq(Runs) /\ Len(P) = Len(log) + 1 /\ P # << >> /\ P[1] = r
         /\ \A k \in 1 .. Len(log) : P[k + 1] = log[k]
         /\ TotalBytes(P) = r.run * r.length + TotalBytes(log)
         /\ TotalRuns(P) = r.run + TotalRuns(log)
         /\ BytesBefore(P)[1] = 0
         /\ \A k \in 1 .. Len(log) + 1 : BytesBefore(P)[k + 1] = BytesBefore(log)[k] + r.run * r.length
<1>1. PICK n \in Nat : n = Len(log)
  BY RunFacts
<1>2. P \in Seq(Runs) /\ Len(P) = n + 1 /\ P[1] = r /\ \A k \in 1 .. n : P[k + 1] = log[k]
  <2>1. <<r>> \in Seq(Runs) /\ Len(<<r>>) = 1 /\ <<r>>[1] = r
    OBVIOUS
  <2>2. PICK s : s = <<r>>
    OBVIOUS
  <2>3. s \in Seq(Runs) /\ Len(s) = 1 /\ s[1] = r
    BY <2>1, <2>2
  <2>4. P \in Seq(Runs) /\ Len(P) = 1 + n
        /\ \A i \in 1 .. 1 + n : P[i] = IF i <= 1 THEN s[i] ELSE log[i - 1]
    <3>1. s \o log \in Seq(Runs) /\ Len(s \o log) = Len(s) + Len(log)
          /\ \A i \in 1 .. Len(s) + Len(log) : (s \o log)[i] = IF i <= Len(s) THEN s[i] ELSE log[i - Len(s)]
      BY <2>3, ConcatProperties
    <3> QED
      BY <1>1, <2>2, <2>3, <3>1
  <2>5. ASSUME NEW k \in 1 .. n PROVE P[k + 1] = log[k]
    <3>1. k + 1 \in 1 .. 1 + n /\ ~(k + 1 <= 1) /\ (k + 1) - 1 = k
      OBVIOUS
    <3> QED
      BY <2>4, <3>1
  <2> QED
    BY <2>3, <2>4, <2>5
<1>3. PICK m : m = n + 1 /\ m \in Nat /\ m \in 1 .. m /\ 1 \in 1 .. m /\ Len(P) = m
  BY <1>2
<1>4. Adds(BytesBefore(log), n, Sizes(log)) /\ BytesBefore(log)[1] = 0
  BY <1>1, BytesAdd
<1>5. Adds(BytesBefore(P), m, Sizes(P)) /\ BytesBefore(P)[1] = 0
  BY <1>2, <1>3, BytesAdd
<1>6. ASSUME NEW k \in 1 .. n PROVE Sizes(P)[k + 1] = Sizes(log)[k] /\ Numbers(P)[k + 1] = Numbers(log)[k]
  <2>1. k + 1 \in 1 .. m
    BY <1>3
  <2> QED
    BY <1>1, <1>2, <1>3, <2>1 DEF Sizes, Numbers
<1>7. Sizes(P)[1] = r.run * r.length /\ Numbers(P)[1] = r.run
  BY <1>2, <1>3 DEF Sizes, Numbers
<1>8. PICK f, g, d, e : f = BytesBefore(log) /\ g = BytesBefore(P) /\ d = Sizes(log) /\ e = Sizes(P)
  OBVIOUS
<1>9. \A k \in 1 .. m : g[k + 1] = f[k] + e[1]
  <2>1. Adds(f, n, d) /\ Adds(g, m, e) /\ f[1] = 0 /\ g[1] = 0 /\ Later(e, d, n)
    BY ONLY <1>4, <1>5, <1>6, <1>8 DEF Later
  <2>2. Raised(g, f, m, e[1])
    BY <1>3, <2>1, AddsAfter
  <2> QED
    BY <2>2 DEF Raised
<1>10. TotalBytes(log) \in Nat /\ TotalRuns(log) \in Nat
  <2>1. Len(log) + 1 \in 1 .. Len(log) + 1
    BY <1>1
  <2> QED
    BY <2>1, BytesAdd, RunsAdd DEF TotalBytes, TotalRuns, Adds
<1>11. r.run \in Nat /\ r.length \in Nat /\ r.run * r.length \in Nat
  <2>1. r.run \in Nat /\ r.length \in Nat
    BY DEF Runs
  <2> QED
    BY <2>1
<1>12. TotalBytes(P) = r.run * r.length + TotalBytes(log)
  <2>1. g[m + 1] = f[m] + e[1]
    BY <1>3, <1>9
  <2>2. TotalBytes(P) = TotalBytes(log) + r.run * r.length
    BY <1>1, <1>3, <1>7, <1>8, <2>1 DEF TotalBytes
  <2> QED
    BY <1>10, <1>11, <2>2
<1>13. \A k \in 1 .. Len(log) + 1 : BytesBefore(P)[k + 1] = BytesBefore(log)[k] + r.run * r.length
  BY <1>1, <1>3, <1>7, <1>8, <1>9
<1>14. TotalRuns(P) = r.run + TotalRuns(log)
  <2>1. Adds(RunsBefore(log), n, Numbers(log)) /\ RunsBefore(log)[1] = 0
    BY <1>1, RunsAdd
  <2>2. Adds(RunsBefore(P), m, Numbers(P)) /\ RunsBefore(P)[1] = 0
    BY <1>2, <1>3, RunsAdd
  <2>3. PICK p, q, a, b : p = RunsBefore(log) /\ q = RunsBefore(P) /\ a = Numbers(log) /\ b = Numbers(P)
    OBVIOUS
  <2>4. Adds(p, n, a) /\ Adds(q, m, b) /\ p[1] = 0 /\ q[1] = 0 /\ Later(b, a, n)
    BY ONLY <1>6, <2>1, <2>2, <2>3 DEF Later
  <2>5. \A k \in 1 .. m : q[k + 1] = p[k] + b[1]
    <3>1. Raised(q, p, m, b[1])
      BY <1>3, <2>4, AddsAfter
    <3> QED
      BY <3>1 DEF Raised
  <2>6. q[m + 1] = p[m] + b[1]
    BY <1>3, <2>5
  <2>7. TotalRuns(P) = TotalRuns(log) + r.run
    BY <1>1, <1>3, <1>7, <2>3, <2>6 DEF TotalRuns
  <2> QED
    BY <1>10, <1>11, <2>7
<1> QED
  <2>1. P # << >>
    BY <1>2, SeqFacts
  <2> QED
    BY <1>1, <1>2, <1>5, <1>12, <1>13, <1>14, <2>1

\* The lengths of whole numbers of entries.
Wholes == {n * EntrySize : n \in Nat}

\* A log entry tells of runs, and these are not empty.
Solid(r) == r.run > 0 /\ r.length > 0 /\ r.length \in Wholes

\* All entries of a log do.
AllSolid(log) == \A k \in 1 .. Len(log) : Solid(log[k])

\* Reset's entry, which FinishedAppending skips.
Skipped == [length |-> 0, run |-> 0]

\* Behind the entry that is skipped the log has front.
Told(o, front, total) ==
  /\ o.log = <<Skipped>> \o front /\ AllSolid(Append(front, o.cur))
  /\ TotalBytes(Append(front, o.cur)) = total /\ TotalRuns(Append(front, o.cur)) = o.blocks

\* Offsets to which lengths are appended, total bytes in all.
Appending(o, total) ==
  /\ o \in Logs /\ o.sum = 0
  /\ \/ o.log = << >> /\ o.cur = Skipped /\ o.blocks = 0 /\ total = 0
     \/ \E front \in Seq(Runs) : Told(o, front, total)

\* Offsets that are read: rest is the number of bytes in the runs still to
\* come.
Telling(o, rest) ==
  /\ o \in Logs
  /\ TotalBytes(Entering(o)) = rest /\ TotalRuns(Entering(o)) = o.blocks
  /\ o.blocks = 0 => o.log = << >> /\ o.cur.run = 0
  /\ o.blocks > 0 => AllSolid(Entering(o))

\* An entry and an object Offsets, made of their parts.
Entry(length, run) == [length |-> length, run |-> run]

LogOf(log, cur, blocks, sum) == [log |-> log, cur |-> cur, blocks |-> blocks, sum |-> sum]

\* An Offsets is made of its parts.
LEMMA LogFacts ==
  ASSUME NEW o \in Logs
  PROVE  /\ o.log \in Seq(Runs) /\ o.cur \in Runs /\ o.blocks \in Nat /\ o.sum \in Nat
         /\ o.cur.length \in Nat /\ o.cur.run \in Nat
         /\ o = LogOf(o.log, o.cur, o.blocks, o.sum)
         /\ o.cur = Entry(o.cur.length, o.cur.run)
<1>1. o.log \in Seq(Runs) /\ o.cur \in Runs /\ o.blocks \in Nat /\ o.sum \in Nat
  BY DEF Logs
<1>2. o.cur.length \in Nat /\ o.cur.run \in Nat /\ o.cur = Entry(o.cur.length, o.cur.run)
  BY <1>1 DEF Runs, Entry
<1>3. o = LogOf(o.log, o.cur, o.blocks, o.sum)
  BY DEF Logs, LogOf
<1> QED
  BY <1>1, <1>2, <1>3

\* An empty log tells nothing.
LEMMA EmptyLog ==
  TotalBytes(<< >>) = 0 /\ TotalRuns(<< >>) = 0 /\ << >> \in Seq(Runs) /\ AllSolid(<< >>)
<1>1. PICK e : e = << >>
  OBVIOUS
<1>2. e \in Seq(Runs) /\ Len(e) = 0
  BY <1>1
<1>3. Len(e) + 1 = 1
  BY <1>2
<1>4. BytesBefore(e)[1] = 0 /\ RunsBefore(e)[1] = 0
  BY <1>2, BytesAdd, RunsAdd
<1>5. AllSolid(e)
  BY <1>2 DEF AllSolid
<1> QED
  BY <1>1, <1>2, <1>3, <1>4, <1>5 DEF TotalBytes, TotalRuns

\* Totals are numbers.
LEMMA Totals ==
  ASSUME NEW log \in Seq(Runs)
  PROVE  TotalBytes(log) \in Nat /\ TotalRuns(log) \in Nat
<1>1. Len(log) + 1 \in 1 .. Len(log) + 1
  BY RunFacts
<1> QED
  BY <1>1, BytesAdd, RunsAdd DEF TotalBytes, TotalRuns, Adds

\* A log is its first entry and the others.
LEMMA SplitLog ==
  ASSUME NEW log \in Seq(Runs), log # << >>
  PROVE  Head(log) \in Runs /\ Tail(log) \in Seq(Runs) /\ log = <<Head(log)>> \o Tail(log) /\ Head(log) = log[1]
<1>1. Len(log) \in Nat /\ Len(log) > 0 /\ \A i \in 1 .. Len(log) : log[i] \in Runs
  OBVIOUS
<1>2. Head(log) = log[1] /\ Head(log) \in Runs
  <2>1. 1 \in 1 .. Len(log)
    BY <1>1
  <2> QED
    BY <1>1, <2>1
<1>3. Tail(log) \in Seq(Runs) /\ Len(Tail(log)) = Len(log) - 1
      /\ \A i \in 1 .. Len(log) - 1 : Tail(log)[i] = log[i + 1]
  OBVIOUS
<1>4. PICK s, t : s = <<Head(log)>> /\ t = Tail(log)
  OBVIOUS
<1>5. s \in Seq(Runs) /\ Len(s) = 1 /\ s[1] = log[1] /\ t \in Seq(Runs) /\ Len(t) = Len(log) - 1
  BY <1>2, <1>3, <1>4
<1>6. s \o t \in Seq(Runs) /\ Len(s \o t) = Len(s) + Len(t)
      /\ \A i \in 1 .. Len(s) + Len(t) : (s \o t)[i] = IF i <= Len(s) THEN s[i] ELSE t[i - Len(s)]
  BY <1>5, ConcatProperties
<1>7. PICK u : u = s \o t
  OBVIOUS
<1>8. u \in Seq(Runs) /\ Len(u) = Len(log)
  BY <1>1, <1>5, <1>6, <1>7
<1>9. ASSUME NEW i \in 1 .. Len(log) PROVE u[i] = log[i]
  <2>1. CASE i = 1
    <3>1. i <= Len(s) /\ i \in 1 .. Len(s) + Len(t)
      BY <1>1, <1>5, <2>1
    <3> QED
      BY <1>5, <1>6, <1>7, <2>1, <3>1
  <2>2. CASE i # 1
    <3>1. PICK j \in 1 .. Len(log) - 1 : i = j + 1
      <4>1. i - 1 \in 1 .. Len(log) - 1 /\ i = (i - 1) + 1
        BY <1>1, <2>2
      <4> QED
        BY <4>1
    <3>2. ~(i <= Len(s)) /\ i - Len(s) = j /\ i \in 1 .. Len(s) + Len(t)
      BY <1>1, <1>5, <3>1
    <3>3. u[i] = t[j]
      BY <1>6, <1>7, <3>2
    <3>4. t[j] = log[j + 1]
      BY <1>3, <1>4
    <3> QED
      BY <3>1, <3>3, <3>4
  <2> QED
    BY <2>1, <2>2
<1>10. u = log
  BY <1>8, <1>9, SeqEqual
<1> QED
  BY <1>2, <1>3, <1>4, <1>7, <1>10

\* A longer log is solid when its first entry and the others are.
LEMMA SolidConsIs ==
  ASSUME NEW log \in Seq(Runs), NEW r \in Runs, NEW P, P = <<r>> \o log
  PROVE  AllSolid(P) <=> Solid(r) /\ AllSolid(log)
<1>1. PICK n \in Nat : n = Len(log)
  BY RunFacts
<1>2. Len(P) = n + 1 /\ P[1] = r /\ \A k \in 1 .. n : P[k + 1] = log[k]
  BY <1>1, ConsLog
<1>3. ASSUME AllSolid(P) PROVE Solid(r) /\ AllSolid(log)
  <2>1. \A k \in 1 .. n + 1 : Solid(P[k])
    BY <1>2, <1>3 DEF AllSolid
  <2>2. 1 \in 1 .. n + 1
    OBVIOUS
  <2>3. ASSUME NEW k \in 1 .. n PROVE Solid(log[k])
    <3>1. k + 1 \in 1 .. n + 1
      OBVIOUS
    <3> QED
      BY <1>2, <2>1, <3>1
  <2> QED
    BY <1>1, <1>2, <2>1, <2>2, <2>3 DEF AllSolid
<1>4. ASSUME Solid(r), AllSolid(log) PROVE AllSolid(P)
  <2>1. ASSUME NEW k \in 1 .. n + 1 PROVE Solid(P[k])
    <3>1. CASE k = 1
      BY <1>2, <1>4, <3>1
    <3>2. CASE k # 1
      <4>1. PICK j \in 1 .. n : k = j + 1
        <5>1. k - 1 \in 1 .. n /\ k = (k - 1) + 1
          BY <3>2
        <5> QED
          BY <5>1
      <4> QED
        BY <1>1, <1>2, <1>4, <4>1 DEF AllSolid
    <3> QED
      BY <3>1, <3>2
  <2> QED
    BY <1>2, <2>1 DEF AllSolid
<1> QED
  BY <1>3, <1>4

\* A solid entry keeps a log solid.
LEMMA SolidAppend ==
  ASSUME NEW log \in Seq(Runs), NEW r \in Runs, Solid(r), AllSolid(log)
  PROVE  AllSolid(Append(log, r))
<1>1. PICK P : P = Append(log, r)
  OBVIOUS
<1>2. PICK n \in Nat : n = Len(log)
  BY RunFacts
<1>3. Len(P) = n + 1 /\ P[n + 1] = r /\ \A k \in 1 .. n : P[k] = log[k]
  BY <1>1, <1>2, AppendLog
<1>4. ASSUME NEW k \in 1 .. n + 1 PROVE Solid(P[k])
  <2>1. CASE k = n + 1
    BY <1>3, <2>1
  <2>2. CASE k # n + 1
    <3>1. k \in 1 .. n
      BY <2>2
    <3> QED
      BY <1>2, <1>3, <3>1 DEF AllSolid
  <2> QED
    BY <2>1, <2>2
<1> QED
  BY <1>1, <1>3, <1>4 DEF AllSolid

\* A solid log that is not empty tells of runs.
LEMMA SolidTotals ==
  ASSUME NEW log \in Seq(Runs), AllSolid(log), log # << >>
  PROVE  TotalRuns(log) > 0
<1>1. PICK r, t : r = Head(log) /\ t = Tail(log)
  OBVIOUS
<1>2. r \in Runs /\ t \in Seq(Runs) /\ log = <<r>> \o t
  BY <1>1, SplitLog
<1>3. Solid(r) /\ AllSolid(t)
  BY <1>2, SolidConsIs
<1>4. TotalRuns(log) = r.run + TotalRuns(t) /\ TotalRuns(t) \in Nat /\ r.run \in Nat
  BY <1>2, ConsLog, Totals DEF Runs
<1> QED
  BY <1>3, <1>4 DEF Solid

\* An entry comes first and another last, in either order.
LEMMA ConsAppend ==
  ASSUME NEW r \in Runs, NEW front \in Seq(Runs), NEW q \in Runs, NEW log, log = <<r>> \o front
  PROVE  Append(log, q) = <<r>> \o Append(front, q)
<1>1. PICK n \in Nat : n = Len(front)
  BY RunFacts
<1>2. PICK a, b : a = Append(log, q) /\ b = Append(front, q)
  OBVIOUS
<1>3. PICK c : c = <<r>> \o b
  OBVIOUS
<1>4. log \in Seq(Runs) /\ Len(log) = n + 1 /\ log[1] = r /\ \A k \in 1 .. n : log[k + 1] = front[k]
  BY <1>1, ConsLog
<1>5. b \in Seq(Runs) /\ Len(b) = n + 1 /\ b[n + 1] = q /\ \A k \in 1 .. n : b[k] = front[k]
  BY <1>1, <1>2, AppendLog
<1>6. PICK m \in Nat : m = n + 1
  OBVIOUS
<1>7. a \in Seq(Runs) /\ Len(a) = m + 1 /\ a[m + 1] = q /\ \A k \in 1 .. m : a[k] = log[k]
  <2>1. Len(log) = m
    BY <1>4, <1>6
  <2> QED
    BY <1>2, <1>4, <2>1, AppendLog
<1>8. c \in Seq(Runs) /\ Len(c) = m + 1 /\ c[1] = r /\ \A k \in 1 .. m : c[k + 1] = b[k]
  <2>1. Len(b) = m
    BY <1>5, <1>6
  <2> QED
    BY <1>3, <1>5, <2>1, ConsLog
<1>9. ASSUME NEW i \in 1 .. m + 1 PROVE a[i] = c[i]
  <2>1. CASE i = 1
    <3>1. 1 \in 1 .. m
      BY <1>6
    <3> QED
      BY <1>4, <1>7, <1>8, <2>1, <3>1
  <2>2. CASE i = m + 1
    <3>1. m \in 1 .. m
      BY <1>6
    <3>2. c[m + 1] = b[m]
      BY <1>8, <3>1
    <3> QED
      BY <1>5, <1>6, <1>7, <2>2, <3>2
  <2>3. CASE i # 1 /\ i # m + 1
    <3>1. PICK k \in 1 .. n : i = k + 1
      <4>1. i - 1 \in 1 .. n /\ i = (i - 1) + 1
        BY <1>6, <2>3
      <4> QED
        BY <4>1
    <3>2. i \in 1 .. m /\ k \in 1 .. m
      BY <1>6, <2>3
    <3>3. a[i] = log[i] /\ c[k + 1] = b[k]
      BY <1>7, <1>8, <3>2
    <3>4. log[k + 1] = front[k] /\ b[k] = front[k]
      BY <1>4, <1>5
    <3> QED
      BY <3>1, <3>3, <3>4
  <2> QED
    BY <2>1, <2>2, <2>3
<1>10. a = c
  BY <1>7, <1>8, <1>9, SeqEqual
<1> QED
  BY <1>2, <1>3, <1>10

\* The entry that is skipped is an entry.
LEMMA SkippedType == Skipped \in Runs /\ Skipped.length = 0 /\ Skipped.run = 0
BY DEF Skipped, Runs

\* Whole numbers of entries can be added and subtracted, and are no shorter
\* than one entry.
LEMMA WholeFacts ==
  /\ 0 \in Wholes
  /\ \A x \in Wholes : x \in Nat /\ (x > 0 => x >= EntrySize)
  /\ \A x, y \in Wholes : x + y \in Wholes /\ (x >= y => x - y \in Wholes)
<1>1. EntrySize \in Nat /\ EntrySize > 0
  BY EntryAssumption
<1>2. 0 \in Wholes
  <2>1. 0 * EntrySize = 0
    BY <1>1
  <2> QED
    BY <2>1 DEF Wholes
<1>3. ASSUME NEW x \in Wholes PROVE x \in Nat /\ (x > 0 => x >= EntrySize)
  <2>1. PICK n \in Nat : x = n * EntrySize
    BY DEF Wholes
  <2>2. n * EntrySize \in Nat /\ (n > 0 => n * EntrySize >= EntrySize) /\ 0 * EntrySize = 0
    BY <1>1, Products
  <2>3. PICK p \in Nat : p = n * EntrySize
    BY <2>2
  <2>4. CASE n = 0
    BY <1>1, <2>1, <2>2, <2>4
  <2>5. CASE n # 0
    BY <1>1, <2>1, <2>2, <2>3, <2>5
  <2> QED
    BY <2>4, <2>5
<1>4. ASSUME NEW x \in Wholes, NEW y \in Wholes PROVE x + y \in Wholes /\ (x >= y => x - y \in Wholes)
  <2>1. PICK n \in Nat, m \in Nat : x = n * EntrySize /\ y = m * EntrySize
    BY DEF Wholes
  <2>2. x + y = (n + m) * EntrySize
    BY <1>1, <2>1
  <2>3. ASSUME x >= y PROVE x - y \in Wholes
    <3>1. x - y = (n - m) * EntrySize
      BY <1>1, <2>1
    <3>2. CASE n >= m
      <4>1. n - m \in Nat
        BY <3>2
      <4> QED
        BY <3>1, <4>1 DEF Wholes
    <3>3. CASE n < m
      <4>1. PICK k \in Nat : k = m - n /\ k > 0 /\ m = n + k
        BY <3>3
      <4>2. k * EntrySize >= EntrySize /\ k * EntrySize \in Nat /\ n * EntrySize \in Nat
        BY <1>1, <4>1, Products
      <4>3. (n + k) * EntrySize = n * EntrySize + k * EntrySize
        BY <1>1
      <4>4. y = x + k * EntrySize
        BY <2>1, <4>1, <4>3
      <4>5. PICK q \in Nat : q = k * EntrySize /\ q >= EntrySize
        BY <4>2
      <4>6. x \in Nat /\ y = x + q
        BY <1>3, <4>4, <4>5
      <4> QED
        BY <1>1, <2>3, <4>5, <4>6
    <3> QED
      BY <3>2, <3>3
  <2> QED
    BY <2>2, <2>3 DEF Wholes
<1> QED
  BY <1>2, <1>3, <1>4

\* A new Offsets has nothing appended.
LEMMA NewOffsetsOK == Appending(NewOffsets, 0)
<1>1. NewOffsets \in Logs /\ NewOffsets.sum = 0 /\ NewOffsets.log = << >> /\ NewOffsets.cur = Skipped
      /\ NewOffsets.blocks = 0
  BY SkippedType, EmptyLog DEF NewOffsets, Logs, Skipped
<1> QED
  BY <1>1 DEF Appending

\* The length of the run before comes again.
MoreRun(o) ==
  [o EXCEPT !.blocks = @ + 1, !.cur.run = @ + 1]

\* What is then in the Offsets.
LEMMA MoreOfCur ==
  ASSUME NEW o \in Logs
  PROVE  /\ MoreRun(o) \in Logs /\ MoreRun(o).log = o.log
         /\ MoreRun(o).blocks = o.blocks + 1 /\ MoreRun(o).sum = o.sum
         /\ MoreRun(o).cur.length = o.cur.length /\ MoreRun(o).cur.run = o.cur.run + 1
<1>1. PICK p : p = MoreRun(o) /\ p = [o EXCEPT !.blocks = @ + 1, !.cur.run = @ + 1]
  BY DEF MoreRun
<1>2. o.blocks \in Nat /\ o.cur.run \in Nat
  BY LogFacts
<1>3. PICK b \in Nat, r \in Nat : b = o.blocks + 1 /\ r = o.cur.run + 1
  BY <1>2
<1>4. PICK c \in Runs : c = [o.cur EXCEPT !.run = r] /\ c.length = o.cur.length /\ c.run = r
  <2>1. o.cur \in Runs
    BY LogFacts
  <2>2. [o.cur EXCEPT !.run = r] \in Runs
    BY <2>1 DEF Runs
  <2> QED
    BY <2>1, <2>2 DEF Runs
<1>5. p = [o EXCEPT !.blocks = b, !.cur = c]
  <2>1. PICK q : q = [o EXCEPT !.blocks = b]
    OBVIOUS
  <2>2. q.cur = o.cur
    BY <2>1, LogFacts DEF LogOf
  <2>3. p = [q EXCEPT !.cur.run = @ + 1]
    BY <1>1, <1>3, <2>1
  <2>4. p = [q EXCEPT !.cur = [q.cur EXCEPT !.run = q.cur.run + 1]]
    BY <2>3
  <2>5. [q.cur EXCEPT !.run = q.cur.run + 1] = c
    BY <1>3, <1>4, <2>2
  <2> QED
    BY <2>1, <2>4, <2>5
<1>6. p \in Logs /\ p.log = o.log /\ p.blocks = b /\ p.sum = o.sum /\ p.cur = c
  BY <1>5 DEF Logs
<1> QED
  BY <1>1, <1>3, <1>4, <1>6

\* Another length comes.
Another(o, length) ==
  [o EXCEPT !.blocks = @ + 1, !.log = Append(@, o.cur), !.cur = [length |-> length, run |-> 1]]

\* What is then in the Offsets.
LEMMA AnotherCur ==
  ASSUME NEW o \in Logs, NEW length \in Nat
  PROVE  /\ Another(o, length) \in Logs /\ Another(o, length).log = Append(o.log, o.cur)
         /\ Another(o, length).blocks = o.blocks + 1 /\ Another(o, length).sum = o.sum
         /\ Another(o, length).cur.length = length /\ Another(o, length).cur.run = 1
<1>1. PICK p :
        /\ p = Another(o, length)
        /\ p = [o EXCEPT !.blocks = @ + 1, !.log = Append(@, o.cur), !.cur = [length |-> length, run |-> 1]]
  BY DEF Another
<1>2. o.blocks \in Nat /\ o.cur.run \in Nat
  BY LogFacts
<1>3. PICK b \in Nat, l \in Seq(Runs), r \in Runs :
        b = o.blocks + 1 /\ l = Append(o.log, o.cur) /\ r = [length |-> length, run |-> 1]
         /\ r.length = length /\ r.run = 1
  <2>1. Append(o.log, o.cur) \in Seq(Runs) /\ o.blocks + 1 \in Nat
    BY <1>2, LogFacts, AppendProperties
  <2>2. [length |-> length, run |-> 1] \in Runs
    BY DEF Runs
  <2> QED
    BY <2>1, <2>2
<1>4. p = [o EXCEPT !.blocks = b, !.log = l, !.cur = r]
  BY <1>1, <1>3
<1>5. p \in Logs /\ p.log = l /\ p.blocks = b /\ p.sum = o.sum /\ p.cur = r
  BY <1>4 DEF Logs, Runs
<1> QED
  BY <1>1, <1>3, <1>5

\* A run has been taken.
Used(o) ==
  [o EXCEPT !.sum = @ + o.cur.length, !.blocks = @ - 1, !.cur.run = @ - 1]

\* What is then in the Offsets.
LEMMA LessOfCur ==
  ASSUME NEW o \in Logs, o.blocks > 0, o.cur.run > 0
  PROVE  /\ Used(o) \in Logs /\ Used(o).log = o.log
         /\ Used(o).blocks = o.blocks - 1 /\ Used(o).sum = o.sum + o.cur.length
         /\ Used(o).cur.length = o.cur.length /\ Used(o).cur.run = o.cur.run - 1
<1>1. PICK p : p = Used(o) /\ p = [o EXCEPT !.sum = @ + o.cur.length, !.blocks = @ - 1, !.cur.run = @ - 1]
  BY DEF Used
<1>2. o.blocks \in Nat /\ o.cur.run \in Nat /\ o.cur.length \in Nat /\ o.sum \in Nat
  BY LogFacts
<1>3. PICK b \in Nat, r \in Nat, s \in Nat : b = o.blocks - 1 /\ r = o.cur.run - 1 /\ s = o.sum + o.cur.length
  BY <1>2
<1>4. PICK c \in Runs : c = [o.cur EXCEPT !.run = r] /\ c.length = o.cur.length /\ c.run = r
  <2>1. o.cur \in Runs
    BY LogFacts
  <2>2. [o.cur EXCEPT !.run = r] \in Runs
    BY <2>1 DEF Runs
  <2> QED
    BY <2>1, <2>2 DEF Runs
<1>5. p = [o EXCEPT !.sum = s, !.blocks = b, !.cur = c]
  <2>1. PICK q : q = [o EXCEPT !.sum = s, !.blocks = b]
    OBVIOUS
  <2>2. q.cur = o.cur
    BY <2>1, LogFacts DEF LogOf
  <2>3. p = [q EXCEPT !.cur.run = @ - 1]
    BY <1>1, <1>3, <2>1
  <2>4. p = [q EXCEPT !.cur = [q.cur EXCEPT !.run = q.cur.run - 1]]
    BY <2>3
  <2>5. [q.cur EXCEPT !.run = q.cur.run - 1] = c
    BY <1>3, <1>4, <2>2
  <2> QED
    BY <2>1, <2>4, <2>5
<1>6. p \in Logs /\ p.log = o.log /\ p.blocks = b /\ p.sum = s /\ p.cur = c
  BY <1>5 DEF Logs
<1> QED
  BY <1>1, <1>3, <1>4, <1>6

\* There are no runs to be read.
Stopped(o, log) ==
  [o EXCEPT !.log = log, !.cur.run = 0]

\* What is then in the Offsets.
LEMMA CurStops ==
  ASSUME NEW o \in Logs, NEW log \in Seq(Runs)
  PROVE  /\ Stopped(o, log) \in Logs /\ Stopped(o, log).log = log
         /\ Stopped(o, log).blocks = o.blocks /\ Stopped(o, log).sum = o.sum
         /\ Stopped(o, log).cur.length = o.cur.length /\ Stopped(o, log).cur.run = 0
BY DEF Stopped, Logs, Runs

\* The next entry is taken from the log.
FromLog(o, log, cur) ==
  [o EXCEPT !.log = log, !.cur = cur]

\* What is then in the Offsets.
IsCut(p, o, log, cur) ==
  p \in Logs /\ p.log = log /\ p.cur = cur /\ p.blocks = o.blocks /\ p.sum = o.sum

\* Taking the next entry changes nothing else.
LEMMA CurFromLog ==
  ASSUME NEW o \in Logs, NEW log \in Seq(Runs), NEW cur \in Runs
  PROVE  IsCut(FromLog(o, log, cur), o, log, cur)
BY DEF IsCut, FromLog, Logs, Runs

\* Totals with another entry.
LEMMA AppendTotals ==
  ASSUME NEW log \in Seq(Runs), NEW r \in Runs
  PROVE  /\ TotalBytes(Append(log, r)) = TotalBytes(log) + r.run * r.length
         /\ TotalRuns(Append(log, r)) = TotalRuns(log) + r.run
<1>1. PICK P : P = Append(log, r)
  OBVIOUS
<1>2. Grown(P, log, r)
  BY <1>1, AppendLog
<1> QED
  BY <1>1, <1>2 DEF Grown

\* After Offsets::Append the log tells that many bytes more.
LEMMA AppendLengthOK ==
  ASSUME NEW o, NEW total \in Nat, Appending(o, total), NEW length \in Wholes
  PROVE  Appending(AppendLength(o, length), total + length)
<1>1. o \in Logs /\ o.sum = 0 /\ length \in Nat
  BY WholeFacts DEF Appending
<1>2. PICK log \in Seq(Runs), cur \in Runs, blocks \in Nat :
        /\ log = o.log /\ cur = o.cur /\ blocks = o.blocks
        /\ o = LogOf(log, cur, blocks, 0)
  BY <1>1, LogFacts
<1>3. cur.length \in Nat /\ cur.run \in Nat /\ cur = Entry(cur.length, cur.run)
  BY <1>1, <1>2, LogFacts
<1>4. PICK p : p = AppendLength(o, length)
  OBVIOUS
<1>5. CASE length = 0
  <2>1. p = o /\ total + length = total
    BY <1>4, <1>5 DEF AppendLength
  <2> QED
    BY <1>4, <2>1
<1>6. CASE length # 0 /\ length = cur.length
  <2>1. p = MoreRun(o)
    BY <1>2, <1>4, <1>6 DEF AppendLength, MoreRun
  <2>2. p \in Logs /\ p.log = log /\ p.blocks = blocks + 1 /\ p.sum = 0
        /\ p.cur.length = length /\ p.cur.run = cur.run + 1
    BY <1>1, <1>2, <1>6, <2>1, MoreOfCur
  <2>3. PICK more \in Runs : more = p.cur /\ more.length = length /\ more.run = cur.run + 1
    BY <2>2, LogFacts
  <2>4. PICK front \in Seq(Runs) : Told(o, front, total)
    BY <1>2, <1>6, SkippedType DEF Appending
  <2>5. TotalBytes(Append(front, cur)) = TotalBytes(front) + cur.run * cur.length
        /\ TotalRuns(Append(front, cur)) = TotalRuns(front) + cur.run
    BY AppendTotals
  <2>6. TotalBytes(Append(front, more)) = TotalBytes(front) + more.run * more.length
        /\ TotalRuns(Append(front, more)) = TotalRuns(front) + more.run
    BY AppendTotals
  <2>7. TotalBytes(front) \in Nat /\ TotalRuns(front) \in Nat
    BY Totals
  <2>8. (cur.run + 1) * length = cur.run * length + length /\ cur.run * length \in Nat
    BY <1>1, <1>3, Products
  <2>9. TotalBytes(Append(front, more)) = total + length /\ TotalRuns(Append(front, more)) = blocks + 1
    <3>1. PICK c \in Nat : c = cur.run * length /\ (cur.run + 1) * length = c + length
      BY <2>8
    <3>2. TotalBytes(front) + c = total /\ TotalRuns(front) + cur.run = blocks
      BY <1>2, <1>6, <2>4, <2>5, <3>1 DEF Told
    <3>3. TotalBytes(Append(front, more)) = TotalBytes(front) + (c + length)
      BY <2>3, <2>6, <3>1
    <3>4. TotalRuns(Append(front, more)) = TotalRuns(front) + (cur.run + 1)
      BY <2>3, <2>6
    <3>5. PICK b \in Nat, u \in Nat, v \in Nat : b = TotalBytes(front) /\ u = TotalRuns(front) /\ v = cur.run
      BY <1>3, <2>7
    <3>6. b + (c + length) = total + length
      <4>1. b + c = total
        BY <3>2, <3>5
      <4> QED
        BY <1>1, <4>1
    <3>7. u + (v + 1) = blocks + 1
      <4>1. PICK w \in Nat : w = blocks
        OBVIOUS
      <4>2. u + v = w
        BY <3>2, <3>5, <4>1
      <4>3. u + (v + 1) = w + 1
        BY <4>2
      <4> QED
        BY <4>1, <4>3
    <3> QED
      BY <3>3, <3>4, <3>5, <3>6, <3>7
  <2>10. AllSolid(Append(front, more))
    <3>1. AllSolid(front)
      <4>1. AllSolid(Append(front, cur))
        BY <1>2, <2>4 DEF Told
      <4>2. Len(Append(front, cur)) = Len(front) + 1 /\ \A k \in 1 .. Len(front) : Append(front, cur)[k] = front[k]
        BY AppendLog
      <4>3. Len(front) \in Nat
        BY RunFacts
      <4> QED
        BY <4>1, <4>2, <4>3 DEF AllSolid
    <3>2. Solid(more)
      BY <1>1, <1>3, <1>6, <2>3 DEF Solid
    <3> QED
      BY <3>1, <3>2, SolidAppend
  <2>11. Told(p, front, total + length)
    BY <1>2, <2>2, <2>3, <2>4, <2>9, <2>10 DEF Told
  <2> QED
    BY <1>4, <2>2, <2>11 DEF Appending
<1>7. CASE length # 0 /\ length # cur.length
  <2>1. p = Another(o, length)
    BY <1>2, <1>4, <1>7 DEF AppendLength, Another
  <2>2. p \in Logs /\ p.log = Append(log, cur) /\ p.blocks = blocks + 1 /\ p.sum = 0
        /\ p.cur.length = length /\ p.cur.run = 1
    BY <1>1, <1>2, <2>1, AnotherCur
  <2>3. PICK longer \in Seq(Runs) : longer = Append(log, cur)
    BY AppendLog
  <2>4. PICK one \in Runs : one = p.cur /\ one.length = length /\ one.run = 1
    BY <2>2, LogFacts
  <2>5. Solid(one)
    BY <1>1, <1>7, <2>4 DEF Solid
  <2>6. 1 * length = length
    BY <1>1, Products
  <2>7. \E front \in Seq(Runs) : Told(p, front, total + length)
    <3>1. CASE log = << >> /\ cur = Skipped /\ blocks = 0 /\ total = 0
      <4>1. PICK none \in Seq(Runs) : none = << >> /\ TotalBytes(none) = 0 /\ TotalRuns(none) = 0 /\ AllSolid(none)
        BY EmptyLog
      <4>2. longer = <<Skipped>> \o none
        BY <2>3, <3>1, <4>1, SkippedType
      <4>3. TotalBytes(Append(none, one)) = 0 + length /\ TotalRuns(Append(none, one)) = 0 + 1
        <5>1. TotalBytes(Append(none, one)) = TotalBytes(none) + one.run * one.length
              /\ TotalRuns(Append(none, one)) = TotalRuns(none) + one.run
          BY AppendTotals
        <5> QED
          BY <2>4, <2>6, <4>1, <5>1
      <4>4. AllSolid(Append(none, one))
        BY <2>5, <4>1, SolidAppend
      <4>5. Told(p, none, total + length)
        BY <2>2, <2>3, <2>4, <3>1, <4>2, <4>3, <4>4 DEF Told
      <4> QED
        BY <4>5
    <3>2. CASE ~(log = << >> /\ cur = Skipped /\ blocks = 0 /\ total = 0)
      <4>1. PICK front \in Seq(Runs) : Told(o, front, total)
        BY <1>2, <3>2 DEF Appending
      <4>2. PICK f \in Seq(Runs) : f = Append(front, cur)
        BY AppendLog
      <4>3. AllSolid(f) /\ TotalBytes(f) = total /\ TotalRuns(f) = blocks /\ log = <<Skipped>> \o front
        BY <1>2, <4>1, <4>2 DEF Told
      <4>4. longer = <<Skipped>> \o f
        BY <2>3, <4>2, <4>3, ConsAppend, SkippedType
      <4>5. TotalBytes(Append(f, one)) = total + length /\ TotalRuns(Append(f, one)) = blocks + 1
        <5>1. TotalBytes(Append(f, one)) = TotalBytes(f) + one.run * one.length
              /\ TotalRuns(Append(f, one)) = TotalRuns(f) + one.run
          BY AppendTotals
        <5> QED
          BY <2>4, <2>6, <4>3, <5>1
      <4>6. AllSolid(Append(f, one))
        BY <2>5, <4>3, SolidAppend
      <4>7. Told(p, f, total + length)
        BY <2>2, <2>3, <2>4, <4>4, <4>5, <4>6 DEF Told
      <4> QED
        BY <4>7
    <3> QED
      BY <3>1, <3>2
  <2> QED
    BY <1>4, <2>2, <2>7 DEF Appending
<1> QED
  BY <1>5, <1>6, <1>7

\* After FinishedAppending the log that was written can be read.
LEMMA FinishedAppendingOK ==
  ASSUME NEW o, NEW total \in Nat, Appending(o, total)
  PROVE  Telling(FinishedAppending(o), total) /\ FinishedAppending(o).sum = 0
<1>1. o \in Logs /\ o.sum = 0
  BY DEF Appending
<1>2. PICK log \in Seq(Runs), cur \in Runs, blocks \in Nat :
        /\ log = o.log /\ cur = o.cur /\ blocks = o.blocks
        /\ o = LogOf(log, cur, blocks, 0)
  BY <1>1, LogFacts
<1>3. cur.length \in Nat /\ cur.run \in Nat /\ cur = Entry(cur.length, cur.run)
  BY <1>1, <1>2, LogFacts
<1>4. PICK p : p = FinishedAppending(o)
  OBVIOUS
<1>5. CASE log = << >> /\ cur = Skipped /\ blocks = 0 /\ total = 0
  <2>1. PICK none \in Seq(Runs) : none = << >> /\ TotalBytes(none) = 0 /\ TotalRuns(none) = 0
    BY EmptyLog
  <2>2. Tail(Append(log, cur)) = none
    BY <1>5, <2>1, SkippedType
  <2>3. p = Stopped(o, none)
    BY <1>2, <1>4, <1>5, <2>2 DEF FinishedAppending, Stopped
  <2>4. p \in Logs /\ p.log = none /\ p.cur.run = 0 /\ p.cur.length = 0 /\ p.blocks = 0 /\ p.sum = 0
    <3>1. /\ Stopped(o, none) \in Logs /\ Stopped(o, none).log = none
          /\ Stopped(o, none).blocks = o.blocks /\ Stopped(o, none).sum = o.sum
          /\ Stopped(o, none).cur.length = o.cur.length /\ Stopped(o, none).cur.run = 0
      BY <1>1, CurStops
    <3> QED
      BY <1>1, <1>2, <1>5, <2>3, <3>1, SkippedType
  <2>5. TotalBytes(<<p.cur>> \o none) = 0 /\ TotalRuns(<<p.cur>> \o none) = 0
    <3>1. PICK c \in Runs : c = p.cur /\ c.run = 0 /\ c.length = 0
      BY <2>4, LogFacts
    <3>2. TotalBytes(<<c>> \o none) = c.run * c.length + TotalBytes(none)
          /\ TotalRuns(<<c>> \o none) = c.run + TotalRuns(none)
      <4>1. PICK f : f = <<c>> \o none
        OBVIOUS
      <4>2. none \in Seq(Runs) /\ c \in Runs
        BY <2>1, <3>1
      <4> QED
        BY ONLY <4>1, <4>2, ConsLog
    <3> QED
      BY <2>1, <3>1, <3>2
  <2>6. Telling(p, total)
    BY <1>5, <2>1, <2>4, <2>5, SkippedType DEF Telling, Entering
  <2> QED
    BY <1>4, <2>4, <2>6
<1>6. CASE ~(log = << >> /\ cur = Skipped /\ blocks = 0 /\ total = 0)
  <2>1. PICK front \in Seq(Runs) : Told(o, front, total)
    BY <1>2, <1>6 DEF Appending
  <2>2. PICK f \in Seq(Runs) : f = Append(front, cur) /\ f # << >>
    BY AppendLog
  <2>3. AllSolid(f) /\ TotalBytes(f) = total /\ TotalRuns(f) = blocks /\ log = <<Skipped>> \o front
    BY <1>2, <2>1, <2>2 DEF Told
  <2>4. blocks > 0
    BY <2>2, <2>3, SolidTotals
  <2>5. PICK whole : whole = Append(log, cur)
    OBVIOUS
  <2>6. whole = <<Skipped>> \o f
    BY <2>2, <2>3, <2>5, ConsAppend, SkippedType
  <2>7. PICK first \in Runs, rest \in Seq(Runs) : f = <<first>> \o rest /\ first = f[1]
    <3>1. Head(f) \in Runs /\ Tail(f) \in Seq(Runs) /\ f = <<Head(f)>> \o Tail(f) /\ Head(f) = f[1]
      BY <2>2, SplitLog
    <3> QED
      BY <3>1
  <2>8. PICK n \in Nat : n = Len(rest)
    BY RunFacts
  <2>9. Len(f) = n + 1 /\ \A k \in 1 .. n : f[k + 1] = rest[k]
    BY <2>7, <2>8, ConsLog
  <2>10. PICK m \in Nat : m = n + 1 /\ Len(f) = m
    BY <2>9
  <2>11. whole \in Seq(Runs) /\ Len(whole) = m + 1 /\ \A k \in 1 .. m : whole[k + 1] = f[k]
    BY <2>6, <2>10, ConsLog, SkippedType
  <2>12. whole[2] = first
    <3>1. 1 \in 1 .. m /\ 1 + 1 = 2
      BY <2>10
    <3> QED
      BY <2>7, <2>11, <3>1
  <2>13. SubSeq(whole, 3, Len(whole)) = rest
    <3>1. PICK s : s = SubSeq(whole, 3, Len(whole))
      OBVIOUS
    <3>2. s \in Seq(Runs) /\ Len(s) = n /\ \A i \in 1 .. n : s[i] = whole[i + 2]
      <4>1. Len(whole) = n + 2
        BY <2>10, <2>11
      <4> QED
        BY <2>11, <3>1, <4>1
    <3>3. ASSUME NEW i \in 1 .. n PROVE s[i] = rest[i]
      <4>1. PICK j \in 1 .. m : j = i + 1
        BY <2>10
      <4>2. whole[j + 1] = f[j]
        BY <2>11
      <4>3. j + 1 = i + 2 /\ f[j] = rest[i]
        BY <2>9, <4>1
      <4> QED
        BY <3>2, <4>2, <4>3
    <3>4. s = rest
      BY <2>8, <3>2, <3>3, SeqEqual
    <3> QED
      BY <3>1, <3>4
  <2>14. p = FromLog(o, rest, first)
    <3>1. o.blocks # 0 /\ Append(o.log, o.cur) = whole
      <4>1. blocks # 0
        BY <2>4
      <4> QED
        BY <1>2, <2>5, <4>1
    <3> QED
      BY <1>4, <2>12, <2>13, <3>1 DEF FinishedAppending, FromLog
  <2>15. p \in Logs /\ p.log = rest /\ p.cur = first /\ p.blocks = blocks /\ p.sum = 0
    <3>1. IsCut(p, o, rest, first)
      BY <1>1, <2>14, CurFromLog
    <3> QED
      BY <1>1, <1>2, <3>1 DEF IsCut
  <2>16. Entering(p) = f
    BY <2>7, <2>15 DEF Entering
  <2>17. Telling(p, total)
    BY <2>3, <2>4, <2>15, <2>16 DEF Telling
  <2> QED
    BY <1>4, <2>15, <2>17
<1> QED
  BY <1>5, <1>6

\* NextSize gives a run that is there, not empty, and leaves the others to be
\* told.
LEMMA NextSizeOK ==
  ASSUME NEW o, NEW rest \in Nat, Telling(o, rest), o.blocks > 0
  PROVE  /\ o.cur.length \in Wholes /\ o.cur.length > 0 /\ o.cur.length <= rest
         /\ Telling(NextSize(o), rest - o.cur.length)
         /\ NextSize(o).sum = o.sum + o.cur.length /\ NextSize(o).blocks = o.blocks - 1
<1>1. o \in Logs
  BY DEF Telling
<1>2. PICK log \in Seq(Runs), cur \in Runs, blocks \in Nat, sum \in Nat :
        /\ log = o.log /\ cur = o.cur /\ blocks = o.blocks /\ sum = o.sum
        /\ o = LogOf(log, cur, blocks, sum)
  BY <1>1, LogFacts
<1>3. PICK length \in Nat, run \in Nat : length = cur.length /\ run = cur.run /\ cur = Entry(length, run)
  BY <1>1, <1>2, LogFacts
<1>4. blocks > 0
  BY <1>2
<1>5. Entering(o) = <<cur>> \o log
  BY <1>2 DEF Entering
<1>6. PICK E : E = <<cur>> \o log
  OBVIOUS
<1>7. AllSolid(E) /\ TotalBytes(E) = rest /\ TotalRuns(E) = blocks
  BY <1>2, <1>4, <1>5, <1>6 DEF Telling
<1>8. Solid(cur) /\ AllSolid(log)
  BY <1>6, <1>7, SolidConsIs
<1>9. run > 0 /\ length > 0 /\ length \in Wholes
  BY <1>3, <1>8 DEF Solid
<1>10. rest = run * length + TotalBytes(log) /\ blocks = run + TotalRuns(log)
  BY <1>3, <1>6, <1>7, ConsLog
<1>11. TotalBytes(log) \in Nat /\ TotalRuns(log) \in Nat
  BY Totals
<1>12. PICK fewer \in Nat : fewer = run - 1 /\ run = fewer + 1
  BY <1>9
<1>13. PICK c \in Nat : c = fewer * length /\ run * length = c + length
  BY <1>12, Products
<1>14. length <= rest /\ rest - length \in Nat /\ rest - length = c + TotalBytes(log) /\ blocks - 1 = fewer + TotalRuns(log)
       /\ blocks - 1 \in Nat
  <2>1. PICK t \in Nat, u \in Nat : t = TotalBytes(log) /\ u = TotalRuns(log)
    BY <1>11
  <2>2. rest = (c + length) + t /\ blocks = run + u
    BY <1>10, <1>13, <2>1
  <2>3. length <= rest /\ rest - length = c + t /\ c + t \in Nat
    BY <2>2
  <2>4. blocks - 1 = fewer + u /\ fewer + u \in Nat
    BY <1>12, <2>2
  <2> QED
    BY <2>1, <2>3, <2>4
<1>15. PICK used : used = Used(o)
  OBVIOUS
<1>16. used \in Logs /\ used.log = log /\ used.blocks = blocks - 1 /\ used.sum = sum + length
       /\ used.cur.length = length /\ used.cur.run = fewer
  BY <1>1, <1>2, <1>3, <1>4, <1>9, <1>12, <1>15, LessOfCur
<1>17. PICK less \in Runs : less = used.cur /\ less.length = length /\ less.run = fewer
  BY <1>16, LogFacts
<1>18. PICK p : p = NextSize(o)
  OBVIOUS
<1>19. p = IF fewer = 0 /\ blocks - 1 > 0 THEN [used EXCEPT !.log = Tail(@), !.cur = Head(used.log)] ELSE used
  BY <1>15, <1>16, <1>18 DEF NextSize, Used
<1>20. CASE fewer = 0 /\ blocks - 1 > 0
  <2>1. log # << >>
    <3>1. CASE log = << >>
      <4>1. TotalRuns(log) = 0
        BY <3>1, EmptyLog
      <4> QED
        BY <1>14, <1>20, <4>1
    <3> QED
      BY <3>1
  <2>2. PICK first \in Runs, others \in Seq(Runs) :
          log = <<first>> \o others /\ first = Head(log) /\ others = Tail(log)
    BY <2>1, SplitLog
  <2>3. p = FromLog(used, others, first)
    BY <1>16, <1>19, <1>20, <2>2 DEF FromLog
  <2>4. p \in Logs /\ p.log = others /\ p.cur = first /\ p.blocks = blocks - 1 /\ p.sum = sum + length
    <3>1. IsCut(p, used, others, first)
      BY <1>16, <2>3, CurFromLog
    <3> QED
      BY <1>16, <3>1 DEF IsCut
  <2>5. Entering(p) = log
    BY <2>2, <2>4 DEF Entering
  <2>6. rest - length = TotalBytes(log) /\ blocks - 1 = TotalRuns(log)
    <3>1. c = 0
      <4>1. 0 * length = 0
        BY Products
      <4> QED
        BY <1>13, <1>20, <4>1
    <3> QED
      BY <1>11, <1>14, <1>20, <3>1
  <2>7. Telling(p, rest - length)
    <3>1. p.blocks # 0
      BY <1>20, <2>4
    <3> QED
      BY <1>8, <2>4, <2>5, <2>6, <3>1 DEF Telling
  <2> QED
    BY <1>2, <1>3, <1>9, <1>14, <1>18, <2>4, <2>7
<1>21. CASE ~(fewer = 0 /\ blocks - 1 > 0)
  <2>1. p = used
    BY <1>19, <1>21
  <2>2. PICK F : F = <<less>> \o log
    OBVIOUS
  <2>3. Entering(p) = F
    BY <1>16, <1>17, <2>1, <2>2 DEF Entering
  <2>4. TotalBytes(F) = c + TotalBytes(log) /\ TotalRuns(F) = fewer + TotalRuns(log)
    BY <1>13, <1>17, <2>2, ConsLog
  <2>5. ASSUME blocks - 1 = 0 PROVE log = << >> /\ less.run = 0
    <3>1. fewer = 0 /\ TotalRuns(log) = 0
      BY <1>11, <1>14, <2>5
    <3>2. log = << >>
      BY <1>8, <3>1, SolidTotals
    <3> QED
      BY <1>17, <3>1, <3>2
  <2>6. ASSUME blocks - 1 > 0 PROVE AllSolid(F)
    <3>1. fewer # 0
      BY <1>21, <2>6
    <3>2. Solid(less)
      BY <1>9, <1>17, <3>1 DEF Solid
    <3> QED
      BY <1>8, <2>2, <3>2, SolidConsIs
  <2>7. Telling(p, rest - length)
    BY <1>14, <1>16, <1>17, <2>1, <2>3, <2>4, <2>5, <2>6 DEF Telling
  <2> QED
    BY <1>2, <1>3, <1>9, <1>14, <1>16, <1>18, <2>1, <2>7
<1> QED
  BY <1>20, <1>21

-----------------------------------------------------------------------------
(* Whole numbers of entries, files                                         *)

\* What is rounded down to a multiple of the entry size is the greatest one
\* below.
LEMMA RoundDown ==
  ASSUME NEW x \in Nat
  PROVE  /\ x - (x % EntrySize) \in Wholes /\ x - (x % EntrySize) <= x
         /\ \A w \in Wholes : w <= x => w <= x - (x % EntrySize)
<1>1. EntrySize \in Nat /\ EntrySize > 0
  BY EntryAssumption
<1>2. PICK e \in Nat : e = EntrySize /\ e > 0
  BY <1>1
<1>3. PICK q \in Nat, r \in Nat : q = x \div e /\ r = x % e
  BY <1>2
<1>4. x = e * q + r /\ r < e
  BY <1>2, <1>3
<1>5. PICK p \in Nat : p = q * e /\ e * q = p
  BY <1>2
<1>6. x - r = p /\ p <= x
  BY <1>4, <1>5
<1>7. ASSUME NEW w \in Wholes, w <= x PROVE w <= p
  <2>1. PICK n \in Nat : w = n * e
    BY <1>2 DEF Wholes
  <2>2. CASE n <= q
    <3>1. PICK d \in Nat : q = n + d
      <4>1. q - n \in Nat /\ q = n + (q - n)
        BY <2>2
      <4> QED
        BY <4>1
    <3>2. (n + d) * e = n * e + d * e /\ n * e \in Nat /\ d * e \in Nat
      BY <1>2
    <3>3. PICK a \in Nat, b \in Nat : a = n * e /\ b = d * e
      BY <3>2
    <3> QED
      BY <1>5, <2>1, <3>1, <3>2, <3>3
  <2>3. CASE n > q
    <3>1. PICK d \in Nat : n = q + d /\ d > 0
      <4>1. n - q \in Nat /\ n = q + (n - q) /\ n - q > 0
        BY <2>3
      <4> QED
        BY <4>1
    <3>2. (q + d) * e = q * e + d * e
      BY <1>2
    <3>3. d * e >= e /\ d * e \in Nat
      BY <1>2, <3>1, Products
    <3>4. PICK b \in Nat : b = d * e /\ b >= e
      BY <3>3
    <3>5. w = p + b
      BY <1>5, <2>1, <3>1, <3>2, <3>4
    <3> QED
      BY <1>2, <1>4, <1>5, <1>7, <3>4, <3>5
  <2> QED
    BY <2>2, <2>3
<1>8. p \in Wholes
  BY <1>2, <1>5 DEF Wholes
<1> QED
  BY <1>2, <1>3, <1>6, <1>7, <1>8

\* The quotient is what fits that many times.
LEMMA Quotient ==
  ASSUME NEW x \in Nat, NEW n \in Nat, n > 0
  PROVE  /\ x \div n \in Nat /\ n * (x \div n) <= x
         /\ \A m \in Nat : m <= x \div n => m * n <= x
         /\ \A m \in Nat : m * n <= x => m <= x \div n
<1>1. PICK q \in Nat, r \in Nat : q = x \div n /\ r = x % n
  OBVIOUS
<1>2. x = n * q + r /\ r < n
  BY <1>1
<1>3. PICK p \in Nat : p = q * n /\ n * q = p
  OBVIOUS
<1>4. ASSUME NEW m \in Nat, m <= q PROVE m * n <= x
  <2>1. PICK d \in Nat : q = m + d
    <3>1. q - m \in Nat /\ q = m + (q - m)
      BY <1>4
    <3> QED
      BY <3>1
  <2>2. (m + d) * n = m * n + d * n /\ m * n \in Nat /\ d * n \in Nat
    OBVIOUS
  <2>3. PICK a \in Nat, b \in Nat : a = m * n /\ b = d * n
    BY <2>2
  <2> QED
    BY <1>2, <1>3, <2>1, <2>2, <2>3
<1>5. ASSUME NEW m \in Nat, m * n <= x PROVE m <= q
  <2>1. SUFFICES ASSUME m > q PROVE FALSE
    OBVIOUS
  <2>2. PICK d \in Nat : m = q + d /\ d > 0
    <3>1. m - q \in Nat /\ m = q + (m - q) /\ m - q > 0
      BY <2>1
    <3> QED
      BY <3>1
  <2>3. (q + d) * n = q * n + d * n
    OBVIOUS
  <2>4. d * n >= n /\ d * n \in Nat
    BY <2>2, Products
  <2>5. PICK b \in Nat : b = d * n /\ b >= n
    BY <2>4
  <2> QED
    BY <1>2, <1>3, <1>5, <2>2, <2>3, <2>5
<1> QED
  BY <1>1, <1>2, <1>3, <1>4, <1>5

\* A sequence, of whatever elements.
Listed(s) == Len(s) \in Nat /\ s = [i \in 1 .. Len(s) |-> s[i]]

\* A file, whatever its records are.
IsRecordFile(f) ==
  f = [records |-> f.records, at |-> f.at] /\ Listed(f.records) /\ f.at \in Nat

\* What is listed from 1 to n has n elements.
LEMMA ListedFacts ==
  ASSUME NEW n \in Nat, NEW s, s = [i \in 1 .. n |-> s[i]]
  PROVE  Len(s) = n /\ Listed(s)
<1>1. PICK S : S = {s[i] : i \in 1 .. n}
  OBVIOUS
<1>2. s \in [1 .. n -> S]
  BY <1>1
<1>3. Len(s) = n
  BY <1>2, FunctionIsSeq
<1> QED
  BY <1>3 DEF Listed

\* Sequences are.
LEMMA SeqIsListed ==
  ASSUME NEW S, NEW s \in Seq(S)
  PROVE  Listed(s)
BY DEF Listed

\* The size of a file is a whole number of entries.
LEMMA SizeFacts ==
  ASSUME NEW f, IsRecordFile(f)
  PROVE  SizeOf(f) \in Wholes /\ SizeOf(f) \in Nat /\ Len(f.records) \in Nat /\ f.at \in Nat
         /\ DOMAIN f.records = 1 .. Len(f.records)
<1>1. Len(f.records) \in Nat /\ f.at \in Nat
  BY DEF IsRecordFile, Listed
<1>2. DOMAIN f.records = 1 .. Len(f.records)
  <2>1. PICK n, s : n = Len(f.records) /\ s = f.records
    OBVIOUS
  <2>2. s = [i \in 1 .. n |-> s[i]]
    BY <2>1 DEF IsRecordFile, Listed
  <2>3. DOMAIN s = 1 .. n
    BY <2>2
  <2> QED
    BY <2>1, <2>3
<1>3. SizeOf(f) \in Wholes
  BY <1>1 DEF SizeOf, Wholes
<1>4. SizeOf(f) \in Nat
  BY <1>3, WholeFacts
<1> QED
  BY <1>1, <1>2, <1>3, <1>4

\* What a write at the end of a file does to its length, and to its records.
LEMMA WriteIs ==
  ASSUME NEW f, IsRecordFile(f), f.at = Len(f.records), NEW s, Listed(s)
  PROVE  /\ IsRecordFile(Write(f, s))
         /\ Len(Write(f, s).records) = Len(f.records) + Len(s)
         /\ Write(f, s).at = Len(f.records) + Len(s)
         /\ \A i \in 1 .. Len(f.records) : Write(f, s).records[i] = f.records[i]
         /\ \A i \in 1 .. Len(s) : Write(f, s).records[Len(f.records) + i] = s[i]
<1>1. PICK n \in Nat, m \in Nat : n = Len(f.records) /\ m = Len(s) /\ f.at = n
  BY SizeFacts DEF Listed
<1>2. PICK w : w = Write(f, s)
  OBVIOUS
<1>3. PICK e \in Nat : e = n + m
  OBVIOUS
<1>4. AtLeast(e, n) = e
  BY <1>3 DEF AtLeast
<1>5. w = [at |-> e, records |-> [i \in 1 .. e |->
             IF i > n /\ i <= e THEN s[i - n] ELSE IF i <= n THEN f.records[i] ELSE Hole]]
  BY <1>1, <1>2, <1>3, <1>4 DEF Write
<1>6. PICK t : t = [i \in 1 .. e |-> IF i > n /\ i <= e THEN s[i - n] ELSE IF i <= n THEN f.records[i] ELSE Hole]
  OBVIOUS
<1>7. w = [at |-> e, records |-> t] /\ w.at = e /\ w.records = t
  BY <1>5, <1>6
<1>8. t = [i \in 1 .. e |-> t[i]]
  BY <1>6
<1>9. Len(t) = e /\ Listed(t)
  BY <1>8, ListedFacts
<1>10. IsRecordFile(w)
  <2>1. w = [records |-> w.records, at |-> w.at]
    BY <1>7
  <2> QED
    BY <1>7, <1>9, <2>1 DEF IsRecordFile
<1>11. ASSUME NEW i \in 1 .. n PROVE t[i] = f.records[i]
  BY <1>3, <1>6
<1>12. ASSUME NEW i \in 1 .. m PROVE t[n + i] = s[i]
  <2>1. PICK j \in 1 .. e : j = n + i /\ j > n /\ j <= e /\ j - n = i
    BY <1>3
  <2>2. t[j] = s[j - n]
    BY <1>6, <2>1
  <2> QED
    BY <2>1, <2>2
<1>13. Len(w.records) = n + m /\ w.at = n + m
  BY <1>3, <1>7, <1>9
<1> QED
  BY <1>1, <1>2, <1>7, <1>10, <1>11, <1>12, <1>13

\* A file of m more records is that much larger.
LEMMA GrownSize ==
  ASSUME NEW f, NEW g, NEW n \in Nat, NEW m \in Nat, Len(f.records) = n, Len(g.records) = n + m
  PROVE  SizeOf(g) = SizeOf(f) + m * EntrySize
<1>1. PICK e \in Nat : e = EntrySize
  BY EntryAssumption
<1>2. (n + m) * e = n * e + m * e
  OBVIOUS
<1> QED
  BY <1>1, <1>2 DEF SizeOf

\* A new file is empty.
LEMMA NewFileIs == IsRecordFile(NewFile) /\ NewFile.at = 0 /\ Len(NewFile.records) = 0 /\ SizeOf(NewFile) = 0
<1>1. NewFile.at = 0 /\ NewFile.records = << >> /\ NewFile = [records |-> NewFile.records, at |-> NewFile.at]
  BY DEF NewFile
<1>2. PICK e : e = << >>
  OBVIOUS
<1>3. e \in Seq(Nat) /\ Len(e) = 0
  BY <1>2
<1>4. Listed(NewFile.records) /\ Len(NewFile.records) = 0
  BY <1>1, <1>2, <1>3, SeqIsListed
<1>5. 0 * EntrySize = 0
  BY EntryAssumption
<1> QED
  BY <1>1, <1>5, <1>4 DEF IsRecordFile, SizeOf

\* Only the position changes.
LEMMA Seek0Is ==
  ASSUME NEW f, IsRecordFile(f)
  PROVE  IsRecordFile(Seek0(f)) /\ Seek0(f).at = 0 /\ Seek0(f).records = f.records /\ SizeOf(Seek0(f)) = SizeOf(f)
<1>1. f = [records |-> f.records, at |-> f.at] /\ Listed(f.records)
  BY DEF IsRecordFile
<1>2. Seek0(f) = [records |-> f.records, at |-> 0]
  BY <1>1 DEF Seek0
<1>3. Seek0(f).at = 0 /\ Seek0(f).records = f.records
  BY <1>2
<1> QED
  BY <1>1, <1>2, <1>3 DEF IsRecordFile, SizeOf

\* The file whose records are cut off.
LEMMA EmptiedIs ==
  ASSUME NEW f, IsRecordFile(f), f.at = 0
  PROVE  [f EXCEPT !.records = << >>] = NewFile
<1>1. f = [records |-> f.records, at |-> f.at]
  BY DEF IsRecordFile
<1> QED
  BY <1>1 DEF NewFile

\* A hole has the place of what was read, and the file keeps its size.
LEMMA PunchedIs ==
  ASSUME IsRecordFile(data), NEW e
  PROVE  /\ IsRecordFile(Punched(e)) /\ Punched(e).at = data.at /\ Len(Punched(e).records) = Len(data.records)
         /\ SizeOf(Punched(e)) = SizeOf(data)
         /\ \A i \in 1 .. Len(data.records) : Punched(e).records[i] =
              IF i - From(e) - 1 \in Records(e) THEN Hole ELSE data.records[i]
<1>1. data = [records |-> data.records, at |-> data.at] /\ Listed(data.records) /\ data.at \in Nat
  BY DEF IsRecordFile
<1>2. PICK n \in Nat : n = Len(data.records) /\ DOMAIN data.records = 1 .. n
  BY SizeFacts
<1>3. PICK t : t = [i \in 1 .. n |-> IF i - From(e) - 1 \in Records(e) THEN Hole ELSE data.records[i]]
  OBVIOUS
<1>4. PICK p : p = Punched(e)
  OBVIOUS
<1>5. p = [data EXCEPT !.records = t]
  BY <1>2, <1>3, <1>4 DEF Punched
<1>6. p = [records |-> t, at |-> data.at]
  BY <1>1, <1>5
<1>7. p.records = t /\ p.at = data.at /\ p = [records |-> p.records, at |-> p.at]
  BY <1>6
<1>8. t = [i \in 1 .. n |-> t[i]]
  BY <1>3
<1>9. Len(t) = n /\ Listed(t)
  BY <1>8, ListedFacts
<1>10. IsRecordFile(p)
  BY <1>1, <1>7, <1>9 DEF IsRecordFile
<1>11. SizeOf(p) = SizeOf(data)
  BY <1>2, <1>7, <1>9 DEF SizeOf
<1>12. \A i \in 1 .. n : t[i] = IF i - From(e) - 1 \in Records(e) THEN Hole ELSE data.records[i]
  BY <1>3
<1> QED
  BY <1>2, <1>4, <1>7, <1>9, <1>10, <1>11, <1>12

-----------------------------------------------------------------------------
(* The shape of what the sorter keeps, whatever the records are            *)

\* The file and log for the next pass are as new.
Fresh == data2 = NewFile /\ offsets2 = NewOffsets
\* A MergingReader is at work.
InPass == phase \in {"group", "push", "pop"}

\* What the constructor makes sure of.
ConfigOK ==
  /\ config.buffer_size \in Wholes /\ config.buffer_size > 0
  /\ config.total_memory \in Nat /\ config.total_memory >= 4 * config.buffer_size

\* Types, of what does not concern the records; and nothing has been aborted.
PartsOK ==
  /\ use \in Uses \cup {"promised"}
  /\ phase \in {"counting", "idle", "merge", "group", "push", "pop", "done"}
  /\ lazy \in Nat /\ returned \in Nat \cup {-1} /\ reading \in Nat /\ per_buffer \in Nat
  /\ buf \in Nat /\ written \in Nat /\ assert_one \in BOOLEAN /\ aborted = FALSE
  /\ IsRecordFile(data) /\ IsRecordFile(data2) /\ IsFiniteSet(queue)

\* Each block is a run at the end of the file, and its length is in the log.
CountingOK ==
  phase = "counting" =>
    /\ Appending(offsets, SizeOf(data)) /\ data.at = Len(data.records)
    /\ Fresh /\ returned = -1 /\ use # "promised"

\* Between passes the log tells the whole file.
BetweenOK == phase \in {"idle", "merge"} => Telling(offsets, SizeOf(data)) /\ offsets.sum = 0 /\ Fresh

\* What Merge has returned is enough.
PromiseOK ==
  /\ returned # -1 => returned <= lazy
  /\ phase = "merge" => returned = -1
  /\ phase = "idle" /\ returned # -1 => returned = LazySize
  /\ phase = "idle" /\ (use = "promised" \/ returned # -1) => Enough \/ offsets.blocks <= 1
  /\ use = "promised" => phase # "merge" /\ (InPass => assert_one)

\* Offsets for bytes in a file that end with some of a run that is not told yet.
Logging(o, bytes, run) == \E total \in Nat : Appending(o, total) /\ bytes = total + run

\* The bytes that a group has written, which are in the log when it ends.
Unlogged == IF phase = "group" THEN 0 ELSE written * EntrySize

\* In a pass the log tells what groups have not taken, and the other log what
\* they have written.
PassOK ==
  InPass =>
    /\ offsets.sum \in Wholes /\ offsets.sum <= SizeOf(data)
    /\ Telling(offsets, SizeOf(data) - offsets.sum)
    /\ ~assert_one =>
         /\ data.at = 0 /\ data2.at = Len(data2.records) /\ returned = -1
         /\ Logging(offsets2, SizeOf(data2), Unlogged)
         /\ reading >= 2 * config.buffer_size \/ SizeOf(data) <= reading
    /\ assert_one /\ phase = "group" =>
         offsets.blocks * config.buffer_size <= reading \/ SizeOf(data) <= reading
    /\ assert_one /\ phase = "pop" => offsets.blocks = 0

\* There is memory for another buffer: everything fits, or two buffers do, or
\* there is only one to have, or all do.
RoomFor(taken, blocks) ==
  \/ SizeOf(data) <= reading
  \/ ~assert_one /\ per_buffer + per_buffer <= reading
  \/ ~assert_one /\ per_buffer <= reading /\ blocks + taken <= 1
  \/ (taken + blocks) * per_buffer <= reading

\* While the queue is filled each run has its own buffer, and no run that is
\* pushed needs more memory than the runs have in the file.
PushOK ==
  phase = "push" =>
    /\ written = 0 /\ per_buffer \in Wholes /\ per_buffer > 0
    /\ buf <= offsets.sum /\ buf <= Cardinality(queue) * per_buffer
    /\ RoomFor(Cardinality(queue), offsets.blocks)

\* An entry has a record in its buffer, and a whole buffer if more is to come.
EntryOK(e, per, top) ==
  /\ e.current \in Nat /\ e.end \in Nat /\ e.remaining \in Wholes /\ e.offset \in Wholes
  /\ e = [current |-> e.current, end |-> e.end, remaining |-> e.remaining, offset |-> e.offset]
  /\ e.current < e.end /\ e.end - e.current \in Wholes /\ e.end <= top
  /\ e.remaining > 0 => per <= e.end /\ e.end - per <= e.current

\* The buffers of the queue are apart, and in the memory.
QueueOK ==
  /\ phase \notin {"push", "pop"} => queue = {}
  /\ queue # {} => per_buffer \in Wholes /\ per_buffer > 0
  /\ phase \in {"push", "pop"} => buf <= reading
  /\ \A e \in queue : EntryOK(e, per_buffer, buf)
  /\ \A e, f \in queue : e # f => Extent(e) \cap Extent(f) = {}

\* All of it: the inductive invariant.
Shape ==
  /\ CountOK /\ ConfigOK /\ PartsOK /\ CountingOK /\ BetweenOK /\ PromiseOK
  /\ PassOK /\ PushOK /\ QueueOK

-----------------------------------------------------------------------------
(* Initially                                                               *)

\* What the counting keeps is kept if nothing of it changes.
LEMMA CountKept ==
  ASSUME CountOK, UNCHANGED counting
  PROVE  CountOK'
BY DEF CountOK, counting, piece, PieceOK, PieceNumbers, TableTellsTheBlock

\* The memory DefaultLazy has.
LEMMA DefaultLazyType ==
  ASSUME NEW t \in Nat, NEW b \in Nat, b > 0, t >= 4 * b
  PROVE  (t * (t \div b - 1)) \div (t \div b) \in Nat
<1>1. PICK q \in Nat : q = t \div b /\ q >= 4
  <2>1. t \div b \in Nat /\ 4 <= t \div b
    BY Quotient
  <2> QED
    BY <2>1
<1>2. q - 1 \in Nat /\ t * (q - 1) \in Nat
  BY <1>1
<1>3. PICK p \in Nat : p = t * (q - 1)
  BY <1>2
<1>4. p \div q \in Nat
  BY <1>1, Quotient
<1> QED
  BY <1>1, <1>3, <1>4

\* The constructor of the sort: config_ is checked, and the files are empty.
LEMMA InitShape == Init => Shape
<1> SUFFICES ASSUME Init PROVE Shape
  OBVIOUS
<1>1. PICK job \in Jobs : CountInit(job.file) /\ SortInit(job.config, job.use)
  BY DEF Init
<1>2. IsFile(job.file) /\ job.config \in [buffer_size : Nat, total_memory : Nat] /\ job.use \in Uses
  BY JobsAssumption
<1>3. CountOK
  BY <1>1, <1>2, CountInitOK
<1>4. PICK c : c = job.config
  OBVIOUS
<1>5. c.buffer_size \in Nat /\ c.total_memory \in Nat
      /\ c = [buffer_size |-> c.buffer_size, total_memory |-> c.total_memory]
  BY <1>2, <1>4
<1>6. config = [c EXCEPT !.buffer_size = @ - (@ % EntrySize)] /\ config.buffer_size > 0
      /\ config.total_memory >= 4 * config.buffer_size
  BY <1>1, <1>4 DEF SortInit
<1>7. config.buffer_size = c.buffer_size - (c.buffer_size % EntrySize) /\ config.total_memory = c.total_memory
  BY <1>5, <1>6
<1>8. config.buffer_size \in Wholes
  BY <1>5, <1>7, RoundDown
<1>9. ConfigOK
  BY <1>5, <1>6, <1>7, <1>8 DEF ConfigOK
<1>10. lazy \in Nat
  <2>1. config.buffer_size \in Nat /\ config.total_memory \in Nat
    BY <1>9, WholeFacts DEF ConfigOK
  <2>2. PICK t \in Nat, b \in Nat : t = config.total_memory /\ b = config.buffer_size
    BY <2>1
  <2>3. (t * (t \div b - 1)) \div (t \div b) \in Nat
    BY <1>6, <2>2, DefaultLazyType
  <2>4. PICK x \in Nat : x = (t * (t \div b - 1)) \div (t \div b)
    BY <2>3
  <2>5. lazy = 0 \/ lazy \in LazyMemories \/ lazy = x
    BY <1>1, <2>2, <2>4 DEF SortInit
  <2>6. LazyMemories \subseteq Nat
    BY EntryAssumption
  <2>7. CASE lazy = 0
    BY ONLY <2>7
  <2>8. CASE lazy \in LazyMemories
    BY ONLY <2>6, <2>8
  <2>9. CASE lazy = x
    BY ONLY x \in Nat, <2>9
  <2> QED
    BY ONLY <2>5, <2>7, <2>8, <2>9
<1>11. PartsOK
  <2>1. use = job.use /\ phase = "counting" /\ returned = -1 /\ reading = 0 /\ assert_one = FALSE /\ per_buffer = 0
        /\ buf = 0 /\ queue = {} /\ written = 0 /\ aborted = FALSE /\ data = NewFile /\ data2 = NewFile
    BY <1>1 DEF SortInit
  <2>2. IsFiniteSet({})
    BY FS_EmptySet
  <2> QED
    BY <1>2, <1>10, <2>1, <2>2, NewFileIs DEF PartsOK
<1>12. CountingOK
  <2>1. data = NewFile /\ offsets = NewOffsets /\ Fresh /\ returned = -1
    BY <1>1 DEF SortInit, Fresh
  <2>2. use # "promised"
    BY <1>1, <1>2 DEF SortInit, Uses
  <2> QED
    BY <2>1, <2>2, NewFileIs, NewOffsetsOK DEF CountingOK
<1>13. phase = "counting" /\ queue = {} /\ returned = -1
  BY <1>1 DEF SortInit
<1>14. BetweenOK /\ PassOK /\ PushOK /\ QueueOK
  BY <1>13 DEF BetweenOK, PassOK, PushOK, QueueOK, InPass
<1>15. PromiseOK
  BY <1>12, <1>13 DEF PromiseOK, CountingOK, InPass
<1> QED
  BY <1>3, <1>9, <1>11, <1>12, <1>14, <1>15 DEF Shape

-----------------------------------------------------------------------------
(* The blocks                                                              *)

\* The counting does not touch the sort.
LEMMA CountShape ==
  ASSUME Shape, Count, UNCHANGED sorting
  PROVE  Shape'
<1>1. CountOK'
  BY CountStepOK DEF Shape
<1>2. /\ config' = config /\ use' = use /\ data' = data /\ offsets' = offsets /\ data2' = data2 /\ offsets2' = offsets2
      /\ phase' = phase /\ lazy' = lazy /\ returned' = returned /\ reading' = reading /\ assert_one' = assert_one
      /\ per_buffer' = per_buffer /\ buf' = buf /\ queue' = queue /\ written' = written /\ aborted' = aborted
  BY DEF sorting, files, reader
<1>3. ConfigOK' /\ PartsOK' /\ CountingOK' /\ BetweenOK'
  BY <1>2 DEF Shape, ConfigOK, PartsOK, CountingOK, BetweenOK, Fresh
<1>4. PromiseOK'
  BY <1>2 DEF Shape, PromiseOK, Enough, LazyArity, LazySize, InPass
<1>5. PassOK' /\ PushOK'
  BY <1>2 DEF Shape, PassOK, PushOK, RoomFor, Unlogged, InPass
<1>6. QueueOK'
  BY <1>2 DEF Shape, QueueOK, Extent
<1> QED
  BY <1>1, <1>3, <1>4, <1>5, <1>6 DEF Shape

\* Nothing changes.
LEMMA StutterShape ==
  ASSUME Shape, UNCHANGED vars
  PROVE  Shape'
<1>1. CountOK'
  BY CountKept DEF Shape, vars
<1>2. /\ config' = config /\ use' = use /\ data' = data /\ offsets' = offsets /\ data2' = data2 /\ offsets2' = offsets2
      /\ phase' = phase /\ lazy' = lazy /\ returned' = returned /\ reading' = reading /\ assert_one' = assert_one
      /\ per_buffer' = per_buffer /\ buf' = buf /\ queue' = queue /\ written' = written /\ aborted' = aborted
  BY DEF vars, sorting, files, reader
<1>3. ConfigOK' /\ PartsOK' /\ CountingOK' /\ BetweenOK'
  BY <1>2 DEF Shape, ConfigOK, PartsOK, CountingOK, BetweenOK, Fresh
<1>4. PromiseOK'
  BY <1>2 DEF Shape, PromiseOK, Enough, LazyArity, LazySize, InPass
<1>5. PassOK' /\ PushOK'
  BY <1>2 DEF Shape, PassOK, PushOK, RoomFor, Unlogged, InPass
<1>6. QueueOK'
  BY <1>2 DEF Shape, QueueOK, Extent
<1> QED
  BY <1>1, <1>3, <1>4, <1>5, <1>6 DEF Shape

\* What a sort makes of a block has its length, and its records.
LEMMA SortedIs ==
  ASSUME NEW s \in Seq(Entries), NEW t \in Sorted(s)
  PROVE  /\ t \in Seq(Entries) /\ Len(t) = Len(s)
         /\ \A i, j \in 1 .. Len(s) : i < j => RecordLess(t[i], t[j])
<1>1. PICK n \in Nat : n = Len(s) /\ DOMAIN s = 1 .. n /\ \A i \in 1 .. n : s[i] \in Entries
  BY SeqFacts
<1>2. Range(s) \subseteq Entries
  BY <1>1 DEF Range
<1>3. t \in [1 .. n -> Range(s)] /\ \A i, j \in 1 .. n : i < j => RecordLess(t[i], t[j])
  BY <1>1 DEF Sorted
<1>4. t \in [1 .. n -> Entries]
  BY <1>2, <1>3
<1> QED
  BY <1>1, <1>3, <1>4, FunctionIsSeq

\* A block that is sorted and written is another run that the log tells.
LEMMA SortBlockShape ==
  ASSUME Shape, SortBlock
  PROVE  Shape'
<1>1. phase = "counting" /\ sent # << >> /\ sent \in Seq(Seq(Entries))
  BY DEF SortBlock, Shape, CountOK
<1>2. PICK first : first = Head(sent)
  OBVIOUS
<1>3. first \in Seq(Entries) /\ Tail(sent) \in Seq(Seq(Entries))
  BY <1>1, <1>2
<1>4. PICK sorted \in Sorted(first) : data' = Write(data, sorted)
  BY <1>2 DEF SortBlock
<1>5. PICK n \in Nat : n = Len(first) /\ Len(sorted) = n /\ Listed(sorted)
  BY <1>3, SortedIs, SeqFacts, SeqIsListed
<1>6. offsets' = AppendLength(offsets, n * EntrySize)
  BY <1>2, <1>5 DEF SortBlock
<1>7. /\ piece' = piece /\ context' = context /\ block' = block /\ dedupe' = dedupe /\ closed' = closed
      /\ sent' = Tail(sent)
      /\ config' = config /\ use' = use /\ data2' = data2 /\ offsets2' = offsets2
      /\ phase' = phase /\ lazy' = lazy /\ returned' = returned /\ reading' = reading /\ assert_one' = assert_one
      /\ per_buffer' = per_buffer /\ buf' = buf /\ queue' = queue /\ written' = written /\ aborted' = aborted
  BY DEF SortBlock, reader
<1>8. CountOK'
  <2>1. PieceOK'
    BY <1>7 DEF Shape, CountOK, piece, PieceOK, PieceNumbers
  <2> QED
    BY <1>3, <1>7, <2>1 DEF Shape, CountOK, TableTellsTheBlock
<1>9. IsRecordFile(data) /\ Appending(offsets, SizeOf(data)) /\ data.at = Len(data.records)
  BY <1>1 DEF Shape, PartsOK, CountingOK
<1>10. PICK d \in Nat : d = Len(data.records)
  BY <1>9, SizeFacts
<1>11. IsRecordFile(data') /\ Len(data'.records) = d + n /\ data'.at = d + n
  <2>1. IsRecordFile(Write(data, sorted)) /\ Len(Write(data, sorted).records) = Len(data.records) + Len(sorted)
        /\ Write(data, sorted).at = Len(data.records) + Len(sorted)
    BY <1>5, <1>9, WriteIs
  <2> QED
    BY <1>4, <1>5, <1>10, <2>1
<1>12. SizeOf(data') = SizeOf(data) + n * EntrySize
  BY <1>10, <1>11, GrownSize
<1>13. n * EntrySize \in Wholes
  BY DEF Wholes
<1>14. PICK w \in Wholes : w = n * EntrySize
  BY <1>13
<1>15. Appending(offsets', SizeOf(data) + w)
  <2>1. SizeOf(data) \in Nat
    BY <1>9, SizeFacts
  <2>2. PICK z \in Nat : z = SizeOf(data)
    BY <2>1
  <2>3. Appending(AppendLength(offsets, w), z + w)
    BY <1>9, <2>2, AppendLengthOK
  <2> QED
    BY <1>6, <1>14, <2>2, <2>3
<1>16. CountingOK'
  BY <1>1, <1>7, <1>11, <1>12, <1>14, <1>15 DEF Shape, CountingOK, Fresh
<1>17. ConfigOK' /\ PartsOK'
  BY <1>7, <1>11 DEF Shape, ConfigOK, PartsOK
<1>18. phase' = "counting" /\ queue' = {} /\ returned' = -1
  BY <1>1, <1>7 DEF Shape, QueueOK, CountingOK
<1>19. BetweenOK' /\ PassOK' /\ PushOK' /\ QueueOK'
  BY <1>18 DEF BetweenOK, PassOK, PushOK, QueueOK, InPass
<1>20. PromiseOK'
  BY <1>16, <1>18 DEF PromiseOK, CountingOK, InPass
<1> QED
  BY <1>8, <1>16, <1>17, <1>19, <1>20 DEF Shape

\* Behind the last block the log can be read.
LEMMA AllSortedShape ==
  ASSUME Shape, AllSorted
  PROVE  Shape'
<1>1. /\ phase = "counting" /\ phase' = "idle" /\ offsets' = FinishedAppending(offsets)
      /\ UNCHANGED counting
      /\ config' = config /\ use' = use /\ data' = data /\ data2' = data2 /\ offsets2' = offsets2
      /\ lazy' = lazy /\ returned' = returned /\ reading' = reading /\ assert_one' = assert_one
      /\ per_buffer' = per_buffer /\ buf' = buf /\ queue' = queue /\ written' = written /\ aborted' = aborted
  BY DEF AllSorted, reader
<1>2. CountOK'
  BY <1>1, CountKept DEF Shape
<1>3. ConfigOK' /\ PartsOK'
  BY <1>1 DEF Shape, ConfigOK, PartsOK
<1>4. IsRecordFile(data) /\ Appending(offsets, SizeOf(data)) /\ Fresh /\ returned = -1 /\ use # "promised"
  BY <1>1 DEF Shape, PartsOK, CountingOK
<1>5. PICK z \in Nat : z = SizeOf(data)
  BY <1>4, SizeFacts
<1>6. Telling(offsets', z) /\ offsets'.sum = 0
  BY <1>1, <1>4, <1>5, FinishedAppendingOK
<1>7. BetweenOK'
  BY <1>1, <1>4, <1>5, <1>6 DEF BetweenOK, Fresh
<1>8. queue' = {} /\ returned' = -1 /\ use' # "promised"
  BY <1>1, <1>4 DEF Shape, QueueOK
<1>9. CountingOK' /\ PassOK' /\ PushOK' /\ QueueOK'
  BY <1>1, <1>8 DEF CountingOK, PassOK, PushOK, QueueOK, InPass
<1>10. PromiseOK'
  BY <1>1, <1>8 DEF PromiseOK
<1> QED
  BY <1>2, <1>3, <1>7, <1>9, <1>10 DEF Shape

-----------------------------------------------------------------------------
(* Between passes                                                          *)

\* The sizes of buffers and memory are numbers.
LEMMA ConfigFacts ==
  ASSUME ConfigOK
  PROVE  /\ config.buffer_size \in Nat /\ config.buffer_size > 0 /\ config.total_memory \in Nat
         /\ config.total_memory >= 4 * config.buffer_size
BY WholeFacts DEF ConfigOK

\* The parts of an Offsets that is read are numbers.
LEMMA TellingFacts ==
  ASSUME NEW o, NEW rest, Telling(o, rest)
  PROVE  o \in Logs /\ o.blocks \in Nat /\ o.sum \in Nat /\ o.cur.length \in Nat /\ rest \in Nat
<1>1. o \in Logs
  BY DEF Telling
<1>2. o.blocks \in Nat /\ o.sum \in Nat /\ o.cur.length \in Nat /\ o.cur \in Runs /\ o.log \in Seq(Runs)
  BY <1>1, LogFacts
<1>3. PICK E : E = Entering(o)
  OBVIOUS
<1>4. E \in Seq(Runs)
  BY <1>2, <1>3, ConsLog DEF Entering
<1>5. rest = TotalBytes(E)
  BY <1>3 DEF Telling
<1> QED
  BY <1>1, <1>2, <1>4, <1>5, Totals

\* More than one run are no more than the arity if they have whole buffers in
\* the memory.
LEMMA ArityIs ==
  ASSUME ConfigOK, lazy \in Nat
  PROVE  /\ LazyArity \in Nat
         /\ \A b \in Nat : b > 1 => (b <= LazyArity <=> b * config.buffer_size <= lazy)
<1>1. PICK B \in Nat : B = config.buffer_size /\ B > 0
  BY ConfigFacts
<1>2. PICK q \in Nat : q = lazy \div B
  BY <1>1, Quotient
<1>3. LazyArity = IF 1 < q THEN q ELSE 1
  BY <1>1, <1>2 DEF LazyArity, AtLeast
<1>4. ASSUME NEW b \in Nat, b > 1 PROVE b <= LazyArity <=> b * B <= lazy
  <2>1. b <= LazyArity <=> b <= q
    BY <1>3, <1>4
  <2>2. b <= q <=> b * B <= lazy
    BY <1>1, <1>2, Quotient
  <2> QED
    BY <2>1, <2>2
<1> QED
  BY <1>1, <1>3, <1>4

\* When the rest is left to the lazy merge: there are buffers for all runs, or
\* memory for the whole file.
LEMMA EnoughIs ==
  ASSUME ConfigOK, lazy \in Nat, offsets.blocks \in Nat, offsets.blocks > 1
  PROVE  Enough <=> (offsets.blocks * config.buffer_size <= lazy \/ SizeOf(data) <= lazy)
<1>1. PICK b \in Nat : b = offsets.blocks /\ b > 1
  OBVIOUS
<1>2. b <= LazyArity <=> b * config.buffer_size <= lazy
  BY <1>1, ArityIs
<1> QED
  BY <1>1, <1>2 DEF Enough

\* What Merge returns is no more than it was given.
LEMMA LazySizeIs ==
  ASSUME ConfigOK, lazy \in Nat, offsets.blocks \in Nat, IsRecordFile(data), Enough \/ offsets.blocks <= 1
  PROVE  LazySize \in Nat /\ LazySize <= lazy
<1>1. PICK b \in Nat, B \in Nat, z \in Nat : b = offsets.blocks /\ B = config.buffer_size /\ z = SizeOf(data)
  BY ConfigFacts, SizeFacts
<1>2. PICK p \in Nat : p = b * B
  OBVIOUS
<1>3. LazySize = IF b <= 1 THEN 0 ELSE IF z < p THEN z ELSE p
  BY <1>1, <1>2 DEF LazySize, AtMost
<1>4. ASSUME b > 1 PROVE p <= lazy \/ z <= lazy
  <2>1. offsets.blocks > 1
    BY <1>1, <1>4
  <2>2. Enough
    BY <1>1, <1>4
  <2> QED
    BY <1>1, <1>2, <2>1, <2>2, EnoughIs
<1> QED
  BY <1>3, <1>4

\* Merge returns: what it promises is enough.
LEMMA MergeReturnsShape ==
  ASSUME Shape, MergeReturns
  PROVE  Shape'
<1>1. /\ phase \in {"idle", "merge"} /\ returned = -1 /\ (Enough \/ offsets.blocks <= 1)
      /\ returned' = LazySize /\ data' = (IF phase = "merge" THEN Seek0(data) ELSE data) /\ phase' = "idle"
      /\ UNCHANGED counting
      /\ config' = config /\ use' = use /\ offsets' = offsets /\ data2' = data2 /\ offsets2' = offsets2
      /\ lazy' = lazy /\ reading' = reading /\ assert_one' = assert_one
      /\ per_buffer' = per_buffer /\ buf' = buf /\ queue' = queue /\ written' = written /\ aborted' = aborted
  <2>1. Enough \/ offsets.blocks <= 1
    BY DEF MergeReturns
  <2> QED
    BY <2>1 DEF MergeReturns, reader
<1>2. CountOK'
  BY <1>1, CountKept DEF Shape
<1>3. Telling(offsets, SizeOf(data)) /\ offsets.sum = 0 /\ Fresh /\ IsRecordFile(data) /\ ConfigOK /\ lazy \in Nat
  BY <1>1 DEF Shape, BetweenOK, PartsOK
<1>4. IsRecordFile(data') /\ SizeOf(data') = SizeOf(data)
  BY <1>1, <1>3, Seek0Is
<1>5. LazySize \in Nat /\ LazySize <= lazy
  BY <1>1, <1>3, TellingFacts, LazySizeIs
<1>6. ConfigOK' /\ PartsOK'
  BY <1>1, <1>4, <1>5 DEF Shape, ConfigOK, PartsOK
<1>7. BetweenOK'
  BY <1>1, <1>3, <1>4 DEF BetweenOK, Fresh
<1>8. queue' = {}
  BY <1>1 DEF Shape, QueueOK
<1>9. CountingOK' /\ PassOK' /\ PushOK' /\ QueueOK'
  BY <1>1, <1>8 DEF CountingOK, PassOK, PushOK, QueueOK, InPass
<1>10. LazySize' = LazySize /\ Enough' = Enough
  BY <1>1, <1>4 DEF LazySize, Enough, LazyArity
<1>11. PromiseOK'
  BY <1>1, <1>5, <1>10 DEF PromiseOK, InPass
<1> QED
  BY <1>2, <1>6, <1>7, <1>9, <1>11 DEF Shape

\* A pass begins with memory for two buffers or for the whole file.
LEMMA BeginPassShape ==
  ASSUME Shape, BeginPass
  PROVE  Shape'
<1>1. /\ phase \in {"idle", "merge"} /\ returned = -1 /\ ~Enough /\ (phase = "idle" => offsets.blocks > 1)
      /\ data' = Seek0(data) /\ phase' = "group" /\ assert_one' = FALSE
      /\ reading' = AtMost(config.total_memory - 2 * config.buffer_size, SizeOf(data))
      /\ UNCHANGED counting
      /\ config' = config /\ use' = use /\ offsets' = offsets /\ data2' = data2 /\ offsets2' = offsets2
      /\ lazy' = lazy /\ returned' = returned
      /\ per_buffer' = per_buffer /\ buf' = buf /\ queue' = queue /\ written' = written /\ aborted' = aborted
  BY DEF BeginPass
<1>2. CountOK'
  BY <1>1, CountKept DEF Shape
<1>3. Telling(offsets, SizeOf(data)) /\ offsets.sum = 0 /\ Fresh /\ IsRecordFile(data) /\ ConfigOK /\ lazy \in Nat
  BY <1>1 DEF Shape, BetweenOK, PartsOK
<1>4. IsRecordFile(data') /\ SizeOf(data') = SizeOf(data) /\ data'.at = 0
  BY <1>1, <1>3, Seek0Is
<1>5. PICK B \in Nat, T \in Nat, z \in Nat :
        B = config.buffer_size /\ T = config.total_memory /\ z = SizeOf(data) /\ T >= 4 * B /\ B > 0
  BY <1>3, ConfigFacts, SizeFacts
<1>6. reading' \in Nat /\ (reading' >= 2 * B \/ z <= reading')
  <2>1. reading' = IF T - 2 * B < z THEN T - 2 * B ELSE z
    BY <1>1, <1>5 DEF AtMost
  <2> QED
    BY <1>5, <2>1
<1>7. ConfigOK' /\ PartsOK'
  BY <1>1, <1>4, <1>6 DEF Shape, ConfigOK, PartsOK
<1>8. queue' = {} /\ use # "promised"
  <2>1. queue' = {}
    BY <1>1 DEF Shape, QueueOK
  <2>2. offsets.blocks \in Nat
    BY <1>3, TellingFacts
  <2>3. CASE phase = "idle"
    BY <1>1, <2>1, <2>2, <2>3 DEF Shape, PromiseOK
  <2>4. CASE phase = "merge"
    BY <2>1, <2>4 DEF Shape, PromiseOK
  <2> QED
    BY <1>1, <2>1, <2>3, <2>4
<1>9. CountingOK' /\ BetweenOK' /\ PushOK' /\ QueueOK'
  BY <1>1, <1>8 DEF CountingOK, BetweenOK, PushOK, QueueOK
<1>10. PromiseOK'
  BY <1>1, <1>8 DEF PromiseOK
<1>11. PassOK'
  <2>1. offsets'.sum = 0 /\ 0 \in Wholes /\ 0 <= SizeOf(data')
    BY <1>1, <1>3, <1>4, <1>5, WholeFacts
  <2>2. Telling(offsets', SizeOf(data') - offsets'.sum)
    <3>1. z - 0 = z
      OBVIOUS
    <3> QED
      BY <1>1, <1>3, <1>4, <1>5, <3>1
  <2>3. Logging(offsets2', SizeOf(data2'), Unlogged')
    <3>1. Unlogged' = 0
      BY <1>1 DEF Unlogged
    <3>2. SizeOf(data2') = 0 /\ offsets2' = NewOffsets
      BY <1>1, <1>3, NewFileIs DEF Fresh
    <3>3. 0 \in Nat /\ 0 = 0 + 0 /\ Appending(NewOffsets, 0)
      BY NewOffsetsOK
    <3> QED
      BY <3>1, <3>2, <3>3 DEF Logging
  <2>4. data2'.at = Len(data2'.records) /\ returned' = -1
    BY <1>1, <1>3, NewFileIs DEF Fresh
  <2>5. reading' >= 2 * config'.buffer_size \/ SizeOf(data') <= reading'
    BY <1>1, <1>4, <1>5, <1>6
  <2>6. offsets'.sum \in Wholes /\ offsets'.sum <= SizeOf(data')
    BY <2>1
  <2> QED
    BY <1>1, <1>4, <2>2, <2>3, <2>4, <2>5, <2>6 DEF PassOK
<1> QED
  BY <1>2, <1>7, <1>9, <1>10, <1>11 DEF Shape

\* A pass ends: the log it wrote tells the file it wrote.
LEMMA EndPassShape ==
  ASSUME Shape, EndPass
  PROVE  Shape'
<1>1. /\ phase = "group" /\ offsets.blocks = 0 /\ ~assert_one
      /\ data' = data2 /\ offsets' = FinishedAppending(offsets2)
      /\ data2' = [data EXCEPT !.records = << >>] /\ offsets2' = NewOffsets /\ phase' = "merge"
      /\ UNCHANGED counting
      /\ config' = config /\ use' = use /\ lazy' = lazy /\ returned' = returned
      /\ reading' = reading /\ assert_one' = assert_one
      /\ per_buffer' = per_buffer /\ buf' = buf /\ queue' = queue /\ written' = written /\ aborted' = aborted
  BY DEF EndPass, reader
<1>2. CountOK'
  BY <1>1, CountKept DEF Shape
<1>3. IsRecordFile(data) /\ IsRecordFile(data2) /\ data.at = 0 /\ returned = -1 /\ use # "promised"
      /\ Logging(offsets2, SizeOf(data2), Unlogged)
  BY <1>1 DEF Shape, PartsOK, PassOK, PromiseOK, InPass
<1>4. data2' = NewFile
  BY <1>1, <1>3, EmptiedIs
<1>5. PICK total \in Nat : Appending(offsets2, total) /\ SizeOf(data2) = total
  <2>1. Unlogged = 0
    BY <1>1 DEF Unlogged
  <2>2. PICK total \in Nat : Appending(offsets2, total) /\ SizeOf(data2) = total + 0
    BY <1>3, <2>1 DEF Logging
  <2> QED
    BY <2>2
<1>6. Telling(offsets', total) /\ offsets'.sum = 0
  BY <1>1, <1>5, FinishedAppendingOK
<1>7. BetweenOK'
  BY <1>1, <1>4, <1>5, <1>6 DEF BetweenOK, Fresh
<1>8. ConfigOK' /\ PartsOK'
  BY <1>1, <1>3, <1>4, NewFileIs DEF Shape, ConfigOK, PartsOK
<1>9. queue' = {}
  BY <1>1 DEF Shape, QueueOK
<1>10. CountingOK' /\ PassOK' /\ PushOK' /\ QueueOK'
  BY <1>1, <1>9 DEF CountingOK, PassOK, PushOK, QueueOK, InPass
<1>11. PromiseOK'
  BY <1>1, <1>3 DEF PromiseOK, InPass
<1> QED
  BY <1>2, <1>7, <1>8, <1>10, <1>11 DEF Shape

\* Merge, called with what it returned, has nothing to do.
LEMMA MergeAgainShape ==
  ASSUME Shape, MergeAgain
  PROVE  Shape'
<1>1. /\ phase = "idle" /\ returned # -1 /\ lazy' = returned /\ returned' = -1 /\ use' = "promised"
      /\ UNCHANGED counting
      /\ config' = config /\ phase' = phase
      /\ data' = data /\ offsets' = offsets /\ data2' = data2 /\ offsets2' = offsets2
      /\ reading' = reading /\ assert_one' = assert_one
      /\ per_buffer' = per_buffer /\ buf' = buf /\ queue' = queue /\ written' = written /\ aborted' = aborted
  BY DEF MergeAgain, reader, files
<1>2. CountOK'
  BY <1>1, CountKept DEF Shape
<1>3. Telling(offsets, SizeOf(data)) /\ IsRecordFile(data) /\ ConfigOK /\ returned \in Nat /\ returned = LazySize
  BY <1>1 DEF Shape, BetweenOK, PartsOK, PromiseOK
<1>4. ConfigOK' /\ PartsOK' /\ BetweenOK'
  BY <1>1, <1>3 DEF Shape, ConfigOK, PartsOK, BetweenOK, Fresh
<1>5. queue' = {}
  BY <1>1 DEF Shape, QueueOK
<1>6. CountingOK' /\ PassOK' /\ PushOK' /\ QueueOK'
  BY <1>1, <1>5 DEF CountingOK, PassOK, PushOK, QueueOK, InPass
<1>7. Enough' \/ offsets'.blocks <= 1
  <2>1. SUFFICES ASSUME offsets.blocks > 1 PROVE Enough'
    BY <1>1, <1>3, TellingFacts
  <2>2. PICK b \in Nat, B \in Nat, z \in Nat : b = offsets.blocks /\ B = config.buffer_size /\ z = SizeOf(data)
                                               /\ b > 1 /\ B > 0
    BY <1>3, <2>1, TellingFacts, ConfigFacts, SizeFacts
  <2>3. PICK p \in Nat : p = b * B
    OBVIOUS
  <2>4. lazy' = IF z < p THEN z ELSE p
    BY <1>1, <1>3, <2>2, <2>3 DEF LazySize, AtMost
  <2>5. CASE z <= lazy'
    BY <1>1, <2>2, <2>5 DEF Enough
  <2>6. CASE ~(z <= lazy')
    <3>1. lazy' = p
      BY <2>4, <2>6
    <3>2. PICK q \in Nat : q = p \div B
      BY <2>2, Quotient
    <3>3. b <= q
      BY <2>2, <2>3, <3>2, Quotient
    <3>4. LazyArity' = IF 1 < q THEN q ELSE 1
      BY <1>1, <2>2, <3>1, <3>2 DEF LazyArity, AtLeast
    <3>5. b <= LazyArity'
      BY <3>3, <3>4
    <3> QED
      BY <1>1, <2>2, <3>5 DEF Enough
  <2> QED
    BY <2>5, <2>6
<1>8. PromiseOK'
  BY <1>1, <1>7 DEF PromiseOK, InPass
<1> QED
  BY <1>2, <1>4, <1>6, <1>8 DEF Shape

\* Output: all the runs that are left get buffers, or the whole file fits.
LEMMA OutputShape ==
  ASSUME Shape, Output
  PROVE  Shape'
<1>1. /\ phase = "idle" /\ returned # -1 /\ reading' = lazy /\ assert_one' = TRUE
      /\ UNCHANGED counting
      /\ config' = config /\ use' = use /\ data' = data /\ data2' = data2 /\ offsets2' = offsets2
      /\ lazy' = lazy /\ returned' = returned
      /\ per_buffer' = per_buffer /\ buf' = buf /\ queue' = queue /\ written' = written /\ aborted' = aborted
      /\ \/ offsets.blocks > 1 /\ phase' = "group" /\ offsets' = offsets
         \/ phase' = "done"
  BY DEF Output
<1>2. CountOK'
  BY <1>1, CountKept DEF Shape
<1>3. Telling(offsets, SizeOf(data)) /\ IsRecordFile(data) /\ ConfigOK /\ lazy \in Nat /\ offsets.sum = 0
  BY <1>1 DEF Shape, BetweenOK, PartsOK
<1>4. ConfigOK' /\ PartsOK'
  BY <1>1, <1>3 DEF Shape, ConfigOK, PartsOK
<1>5. queue' = {}
  BY <1>1 DEF Shape, QueueOK
<1>6. CountingOK' /\ BetweenOK' /\ PushOK' /\ QueueOK'
  BY <1>1, <1>5 DEF CountingOK, BetweenOK, PushOK, QueueOK
<1>7. PromiseOK'
  <2>1. returned' <= lazy'
    BY <1>1 DEF Shape, PromiseOK
  <2> QED
    BY <1>1, <2>1 DEF PromiseOK
<1>8. PassOK'
  <2>1. CASE phase' = "done"
    BY <2>1 DEF PassOK, InPass
  <2>2. CASE offsets.blocks > 1 /\ phase' = "group" /\ offsets' = offsets
    <3>1. offsets.blocks * config.buffer_size <= lazy \/ SizeOf(data) <= lazy
      <4>1. offsets.blocks \in Nat
        BY <1>3, TellingFacts
      <4>2. Enough
        BY <1>1, <2>2, <4>1 DEF Shape, PromiseOK
      <4> QED
        BY <1>3, <2>2, <4>1, <4>2, EnoughIs
    <3>2. offsets'.sum \in Wholes /\ offsets'.sum <= SizeOf(data')
      <4>1. offsets'.sum = 0 /\ SizeOf(data') \in Nat
        BY <1>1, <1>3, <2>2, SizeFacts
      <4>2. 0 \in Wholes
        BY WholeFacts
      <4> QED
        BY <4>1, <4>2
    <3>3. Telling(offsets', SizeOf(data') - offsets'.sum)
      <4>1. PICK z \in Nat : z = SizeOf(data)
        BY <1>3, SizeFacts
      <4>2. z - 0 = z
        OBVIOUS
      <4> QED
        BY <1>1, <1>3, <2>2, <4>1, <4>2
    <3> QED
      BY <1>1, <2>2, <3>1, <3>2, <3>3 DEF PassOK
  <2> QED
    BY <1>1, <2>1, <2>2
<1> QED
  BY <1>2, <1>4, <1>6, <1>7, <1>8 DEF Shape

\* A last step, which leaves the records to the user.
LEMMA DoneShape ==
  ASSUME Shape, phase' = "done", UNCHANGED counting, IsRecordFile(data'), queue' = {},
         config' = config, use' = use, data2' = data2, lazy' = lazy, returned' = returned,
         reading' = reading, assert_one' = assert_one, per_buffer' = per_buffer, buf' = buf, written' = written,
         aborted' = aborted
  PROVE  Shape'
<1>1. CountOK'
  BY CountKept DEF Shape
<1>2. ConfigOK' /\ PartsOK'
  <2>1. IsFiniteSet({})
    BY FS_EmptySet
  <2> QED
    BY <2>1 DEF Shape, ConfigOK, PartsOK
<1>3. CountingOK' /\ BetweenOK' /\ PassOK' /\ PushOK' /\ QueueOK'
  BY DEF CountingOK, BetweenOK, PassOK, PushOK, QueueOK, InPass
<1>4. PromiseOK'
  BY DEF Shape, PromiseOK, InPass
<1> QED
  BY <1>1, <1>2, <1>3, <1>4 DEF Shape

\* The lazy merge has come to its end.
LEMMA OutputEndsShape ==
  ASSUME Shape, OutputEnds
  PROVE  Shape'
<1>1. /\ phase = "group" /\ phase' = "done" /\ UNCHANGED counting /\ data' = data /\ queue' = queue
      /\ config' = config /\ use' = use /\ data2' = data2 /\ lazy' = lazy /\ returned' = returned
      /\ reading' = reading /\ assert_one' = assert_one /\ per_buffer' = per_buffer /\ buf' = buf
      /\ written' = written /\ aborted' = aborted
  BY DEF OutputEnds, reader, files
<1>2. IsRecordFile(data') /\ queue' = {}
  BY <1>1 DEF Shape, PartsOK, QueueOK
<1> QED
  BY <1>1, <1>2, DoneShape

\* The file is handed over.
LEMMA StealCompletedShape ==
  ASSUME Shape, StealCompleted
  PROVE  Shape'
<1>1. /\ phase = "idle" /\ phase' = "done" /\ UNCHANGED counting /\ data' = Seek0(data) /\ queue' = queue
      /\ config' = config /\ use' = use /\ data2' = data2 /\ lazy' = lazy /\ returned' = returned
      /\ reading' = reading /\ assert_one' = assert_one /\ per_buffer' = per_buffer /\ buf' = buf
      /\ written' = written /\ aborted' = aborted
  BY DEF StealCompleted, reader
<1>2. IsRecordFile(data') /\ queue' = {}
  BY <1>1, Seek0Is DEF Shape, PartsOK, QueueOK
<1> QED
  BY <1>1, <1>2, DoneShape

-----------------------------------------------------------------------------
(* The groups                                                              *)

\* Run's per_buffer is a whole number of entries, not zero; two of them fit the
\* memory of a pass if there are two runs, and all of them if a buffer for each
\* does.
LEMMA BufferIs ==
  ASSUME NEW B \in Wholes, B > 0, NEW R \in Nat, NEW b \in Nat, b > 0, NEW per,
         NEW bytes, bytes = AtLeast(B, R \div b), per = bytes - (bytes % EntrySize)
  PROVE  /\ per \in Wholes /\ per > 0
         /\ R >= 2 * B => per + per <= R \/ (per <= R /\ b = 1)
         /\ b * B <= R => b * per <= R
<1>1. B \in Nat
  BY WholeFacts
<1>2. PICK q \in Nat : q = R \div b
  BY Quotient
<1>3. bytes = IF B < q THEN q ELSE B
  BY <1>2 DEF AtLeast
<1>4. bytes \in Nat /\ B <= bytes
  BY <1>1, <1>3
<1>5. per \in Wholes /\ per <= bytes /\ B <= per
  <2>1. \A w \in Wholes : w <= bytes => w <= bytes - (bytes % EntrySize)
    BY <1>4, RoundDown
  <2>2. B <= bytes - (bytes % EntrySize)
    BY <1>4, <2>1
  <2>3. bytes - (bytes % EntrySize) \in Wholes /\ bytes - (bytes % EntrySize) <= bytes
    BY <1>4, RoundDown
  <2> QED
    BY <2>2, <2>3
<1>6. per \in Nat /\ per > 0
  <2>1. per \in Nat
    BY <1>5, WholeFacts
  <2> QED
    BY <1>1, <1>5, <2>1
<1>7. per <= q => per * b <= R
  BY <1>2, <1>6, Quotient
<1>8. ASSUME R >= 2 * B PROVE per + per <= R \/ (per <= R /\ b = 1)
  <2>1. CASE per <= B
    BY <1>1, <1>6, <1>8, <2>1
  <2>2. CASE ~(per <= B)
    <3>1. per <= q
      BY <1>1, <1>2, <1>3, <1>5, <1>6, <2>2
    <3>2. per * b <= R
      BY <1>7, <3>1
    <3>3. CASE b = 1
      <4>1. per * 1 = per
        BY <1>6
      <4> QED
        BY <3>2, <3>3, <4>1
    <3>4. CASE b # 1
      <4>1. PICK d \in Nat : b = 2 + d
        <5>1. b - 2 \in Nat /\ b = 2 + (b - 2)
          BY <3>4
        <5> QED
          BY <5>1
      <4>2. per * (2 + d) = per + per + per * d /\ per * d \in Nat
        BY <1>6
      <4>3. PICK x \in Nat : x = per * d
        BY <4>2
      <4> QED
        BY <1>6, <3>2, <4>1, <4>2, <4>3
    <3> QED
      BY <3>3, <3>4
  <2> QED
    BY <2>1, <2>2
<1>9. ASSUME b * B <= R PROVE b * per <= R
  <2>1. B * b = b * B /\ per * b = b * per
    BY <1>1, <1>6
  <2>2. B <= q
    BY <1>1, <1>2, <1>9, <2>1, Quotient
  <2>3. per <= q
    BY <1>1, <1>2, <1>3, <1>5, <1>6, <2>2
  <2> QED
    BY <1>7, <2>1, <2>3
<1> QED
  BY <1>5, <1>6, <1>8, <1>9

\* A group begins with room for buffers.
LEMMA BeginGroupShape ==
  ASSUME Shape, BeginGroup
  PROVE  Shape'
<1> DEFINE bytes == AtLeast(config.buffer_size, reading \div offsets.blocks)
<1>1. /\ phase = "group" /\ offsets.blocks > 0 /\ per_buffer' = bytes - (bytes % EntrySize)
      /\ buf' = 0 /\ written' = 0 /\ phase' = "push"
      /\ UNCHANGED counting
      /\ config' = config /\ use' = use /\ data' = data /\ offsets' = offsets /\ data2' = data2 /\ offsets2' = offsets2
      /\ lazy' = lazy /\ returned' = returned /\ reading' = reading /\ assert_one' = assert_one
      /\ queue' = queue /\ aborted' = aborted
  BY DEF BeginGroup, files
<1>2. CountOK'
  BY <1>1, CountKept DEF Shape
<1>3. /\ Telling(offsets, SizeOf(data) - offsets.sum) /\ offsets.sum \in Wholes /\ offsets.sum <= SizeOf(data)
      /\ ConfigOK /\ reading \in Nat /\ queue = {}
      /\ ~assert_one => /\ data.at = 0 /\ data2.at = Len(data2.records) /\ returned = -1
                        /\ Logging(offsets2, SizeOf(data2), Unlogged)
                        /\ reading >= 2 * config.buffer_size \/ SizeOf(data) <= reading
      /\ assert_one => offsets.blocks * config.buffer_size <= reading \/ SizeOf(data) <= reading
  BY <1>1 DEF Shape, PassOK, PartsOK, QueueOK, InPass
<1>4. PICK b \in Nat, B \in Nat, R \in Nat :
        /\ b = offsets.blocks /\ B = config.buffer_size /\ R = reading
        /\ b > 0 /\ B \in Wholes /\ B > 0
  <2>1. offsets.blocks \in Nat /\ config.buffer_size \in Nat
    BY <1>3, TellingFacts, ConfigFacts
  <2> QED
    BY <1>1, <1>3, <2>1 DEF ConfigOK
<1>5. PICK s, per : s = AtLeast(B, R \div b) /\ per = s - (s % EntrySize) /\ per = per_buffer'
  BY <1>1, <1>4
<1>6. per \in Wholes /\ per > 0 /\ (R >= 2 * B => per + per <= R \/ (per <= R /\ b = 1)) /\ (b * B <= R => b * per <= R)
  BY <1>4, <1>5, BufferIs
<1> HIDE DEF bytes
<1>7. ConfigOK' /\ PartsOK'
  BY <1>1, <1>4, <1>5, <1>6, WholeFacts DEF Shape, ConfigOK, PartsOK
<1>8. CountingOK' /\ BetweenOK'
  BY <1>1 DEF CountingOK, BetweenOK
<1>9. PromiseOK'
  BY <1>1 DEF Shape, PromiseOK, InPass
<1>10. QueueOK'
  BY <1>1, <1>3, <1>4, <1>5, <1>6 DEF QueueOK
<1>11. PassOK'
  <2>1. Unlogged' = Unlogged
    <3>1. 0 * EntrySize = 0
      BY EntryAssumption
    <3> QED
      BY <1>1, <3>1 DEF Unlogged
  <2> QED
    BY <1>1, <1>3, <2>1 DEF PassOK, Logging
<1>12. PushOK'
  <2>1. Cardinality(queue') = 0
    BY <1>1, <1>3, FS_EmptySet
  <2>2. 0 * per = 0 /\ 0 <= offsets.sum
    <3>1. per \in Nat /\ offsets.sum \in Nat
      BY <1>3, <1>6, WholeFacts
    <3> QED
      BY <3>1
  <2>3. RoomFor(0, b)'
    <3>1. CASE SizeOf(data) <= reading
      BY <1>1, <3>1 DEF RoomFor
    <3>2. CASE ~(SizeOf(data) <= reading) /\ ~assert_one
      <4>1. per + per <= R \/ (per <= R /\ b + 0 <= 1)
        <5>1. R >= 2 * B
          BY <1>3, <1>4, <3>2
        <5>2. per + per <= R \/ (per <= R /\ b = 1)
          BY <1>6, <5>1
        <5> QED
          BY <5>2
      <4> QED
        BY <1>1, <1>4, <1>5, <3>2, <4>1 DEF RoomFor
    <3>3. CASE ~(SizeOf(data) <= reading) /\ assert_one
      <4>1. b * per <= R
        BY <1>3, <1>4, <1>5, <1>6, <3>3
      <4>2. (0 + b) * per <= R
        BY <1>4, <4>1
      <4> QED
        BY <1>1, <1>4, <1>5, <4>2 DEF RoomFor
    <3> QED
      BY <3>1, <3>2, <3>3
  <2>4. RoomFor(Cardinality(queue), offsets.blocks)'
    BY <1>1, <1>4, <1>5, <2>1, <2>3 DEF RoomFor
  <2> QED
    BY <1>1, <1>4, <1>5, <1>6, <2>1, <2>2, <2>4 DEF PushOK
<1> QED
  BY <1>2, <1>7, <1>8, <1>9, <1>10, <1>11, <1>12 DEF Shape

\* What is read into the buffer of e.
Amount(e) == AtMost(per_buffer, e.remaining)

\* Entry::Read: the buffer gets what fits, and what is left is to be read
\* later.
LEMMA ReadIntoIs ==
  ASSUME per_buffer \in Wholes, per_buffer > 0, NEW e, e.end \in Nat, e.remaining \in Wholes, e.remaining > 0,
         e.offset \in Wholes, per_buffer <= e.end
  PROVE  /\ Amount(e) \in Wholes /\ Amount(e) > 0 /\ Amount(e) <= per_buffer /\ Amount(e) <= e.remaining
         /\ Amount(e) = per_buffer \/ Amount(e) = e.remaining
         /\ ReadInto(e).current = e.end - per_buffer /\ ReadInto(e).end = e.end - per_buffer + Amount(e)
         /\ ReadInto(e).remaining = e.remaining - Amount(e) /\ ReadInto(e).offset = e.offset + Amount(e)
         /\ EntryOK(ReadInto(e), per_buffer, e.end - per_buffer + Amount(e))
<1>1. PICK per \in Nat, end \in Nat, left \in Nat, off \in Nat :
        per = per_buffer /\ end = e.end /\ left = e.remaining /\ off = e.offset
        /\ per \in Wholes /\ left \in Wholes /\ off \in Wholes /\ per > 0 /\ left > 0 /\ per <= end
  BY WholeFacts
<1>2. PICK a : a = Amount(e)
  OBVIOUS
<1>3. a = IF per < left THEN per ELSE left
  BY <1>1, <1>2 DEF Amount, AtMost
<1>4. a \in Wholes /\ a \in Nat /\ a > 0 /\ a <= per /\ a <= left /\ (a = per \/ a = left)
  BY <1>1, <1>3
<1>5. PICK r : r = ReadInto(e)
  OBVIOUS
<1>6. r = [current |-> end - per, end |-> IF per < left THEN end ELSE (end - per) + a,
           remaining |-> left - a, offset |-> off + a]
  BY <1>1, <1>2, <1>5 DEF ReadInto, Amount
<1>7. r.current = end - per /\ r.end = (IF per < left THEN end ELSE (end - per) + a)
      /\ r.remaining = left - a /\ r.offset = off + a
      /\ r = [current |-> r.current, end |-> r.end, remaining |-> r.remaining, offset |-> r.offset]
  BY <1>6
<1>8. r.end = end - per + a
  BY <1>1, <1>3, <1>7
<1>9. left - a \in Wholes /\ off + a \in Wholes
  BY <1>1, <1>4, WholeFacts
<1>10. PICK top \in Nat : top = end - per + a
  BY <1>1, <1>4
<1>11. EntryOK(r, per, top)
  <2>1. r.current \in Nat /\ r.end \in Nat /\ r.remaining \in Wholes /\ r.offset \in Wholes
    BY <1>1, <1>7, <1>8, <1>9, <1>10
  <2>2. r.current < r.end /\ r.end - r.current = a /\ r.end <= top
    BY <1>1, <1>4, <1>7, <1>8, <1>10
  <2>3. r.remaining > 0 => per <= r.end /\ r.end - per <= r.current
    BY <1>1, <1>4, <1>7, <1>8
  <2> QED
    BY <1>4, <1>7, <2>1, <2>2, <2>3 DEF EntryOK
<1> QED
  BY <1>1, <1>2, <1>4, <1>5, <1>7, <1>8, <1>10, <1>11

\* The first and the last address an entry will use.
LEMMA ExtentIs ==
  ASSUME NEW e, NEW per \in Nat, per = per_buffer, NEW top \in Nat, EntryOK(e, per, top)
  PROVE  /\ e.current \in Nat /\ e.end \in Nat /\ e.current < e.end /\ e.end <= top
         /\ Extent(e) = (IF e.remaining > 0 THEN e.end - per ELSE e.current) .. e.end - 1
         /\ Extent(e) \subseteq 0 .. top - 1
         /\ e.current \in Extent(e)
<1>1. e.current \in Nat /\ e.end \in Nat /\ e.current < e.end /\ e.end <= top
      /\ (e.remaining > 0 => per <= e.end /\ e.end - per <= e.current)
  BY DEF EntryOK
<1>2. PICK c \in Nat, n \in Nat : c = e.current /\ n = e.end
  BY <1>1
<1>3. CASE e.remaining > 0
  <2>1. Extent(e) = n - per .. n - 1
    BY <1>2, <1>3 DEF Extent
  <2>2. per <= n /\ n - per <= c /\ c < n /\ n <= top
    BY <1>1, <1>2, <1>3
  <2>3. n - per .. n - 1 \subseteq 0 .. top - 1 /\ c \in n - per .. n - 1
    BY <2>2
  <2> QED
    BY <1>1, <1>2, <1>3, <2>1, <2>3
<1>4. CASE ~(e.remaining > 0)
  <2>1. Extent(e) = c .. n - 1
    BY <1>2, <1>4 DEF Extent
  <2>2. c < n /\ n <= top
    BY <1>1, <1>2
  <2>3. c .. n - 1 \subseteq 0 .. top - 1 /\ c \in c .. n - 1
    BY <2>2
  <2> QED
    BY <1>1, <1>2, <1>4, <2>1, <2>3
<1> QED
  BY <1>3, <1>4

\* An entry below an address is below a higher one.
LEMMA HigherTop ==
  ASSUME NEW e, NEW per, NEW top \in Nat, EntryOK(e, per, top), NEW higher \in Nat, top <= higher
  PROVE  EntryOK(e, per, higher)
<1>1. e.end \in Nat /\ e.end <= higher
  BY DEF EntryOK
<1> QED
  BY <1>1 DEF EntryOK

\* The run that is next.
NextRun == [end |-> buf + per_buffer, offset |-> offsets.sum, remaining |-> offsets.cur.length]

\* What a push does, said of NextRun.
LEMMA PushIs ==
  ASSUME Shape, Push
  PROVE  /\ phase = "push" /\ offsets.blocks > 0 /\ phase' = phase
         /\ queue' = queue \cup {ReadInto(NextRun)} /\ data' = Punched(NextRun)
         /\ buf' = buf + Amount(NextRun) /\ offsets' = NextSize(offsets)
         /\ buf + Amount(NextRun) <= reading
         /\ UNCHANGED counting
         /\ config' = config /\ use' = use /\ data2' = data2 /\ offsets2' = offsets2
         /\ lazy' = lazy /\ returned' = returned /\ reading' = reading /\ assert_one' = assert_one
         /\ per_buffer' = per_buffer /\ written' = written /\ aborted' = aborted /\ head' = head /\ out' = out
         /\ memory' = Load(NextRun)
<1>1. NextRun.remaining = offsets.cur.length
  BY DEF NextRun
<1>2. AtMost(per_buffer, offsets.cur.length) = Amount(NextRun)
  BY <1>1 DEF Amount
<1>3. AtMost(offsets.cur.length, per_buffer) = Amount(NextRun)
  <2>1. per_buffer \in Nat /\ offsets.cur.length \in Nat
    <3>1. Telling(offsets, SizeOf(data) - offsets.sum)
      BY DEF Push, Shape, PassOK, InPass
    <3> QED
      BY <3>1, TellingFacts DEF Shape, PartsOK
  <2> QED
    BY <1>2, <2>1 DEF AtMost
<1> QED
  BY <1>2, <1>3 DEF Push, Fits, NextRun

\* What the pushing of a run relies on.
LEMMA NextRunIs ==
  ASSUME Shape, phase = "push", offsets.blocks > 0
  PROVE  /\ per_buffer \in Wholes /\ per_buffer > 0 /\ per_buffer \in Nat /\ buf \in Nat
         /\ NextRun.end \in Nat /\ NextRun.end = buf + per_buffer /\ per_buffer <= NextRun.end
         /\ NextRun.offset = offsets.sum /\ NextRun.offset \in Wholes
         /\ NextRun.remaining = offsets.cur.length /\ NextRun.remaining \in Wholes /\ NextRun.remaining > 0
         /\ offsets.sum \in Nat /\ SizeOf(data) \in Nat /\ offsets.sum + offsets.cur.length <= SizeOf(data)
         /\ offsets.cur.length \in Nat /\ offsets.blocks \in Nat
         /\ Telling(NextSize(offsets), SizeOf(data) - (offsets.sum + offsets.cur.length))
         /\ NextSize(offsets).sum = offsets.sum + offsets.cur.length /\ NextSize(offsets).blocks = offsets.blocks - 1
<1>1. per_buffer \in Wholes /\ per_buffer > 0 /\ buf \in Nat /\ per_buffer \in Nat
  BY DEF Shape, PushOK, PartsOK
<1>2. offsets.sum \in Wholes /\ offsets.sum <= SizeOf(data) /\ Telling(offsets, SizeOf(data) - offsets.sum)
      /\ IsRecordFile(data)
  BY DEF Shape, PassOK, PartsOK, InPass
<1>3. PICK z \in Nat, s \in Nat, l \in Nat, b \in Nat :
        z = SizeOf(data) /\ s = offsets.sum /\ l = offsets.cur.length /\ b = offsets.blocks
  BY <1>2, TellingFacts, SizeFacts
<1>4. PICK r \in Nat : r = z - s
  BY <1>2, <1>3
<1>5. /\ offsets.cur.length \in Wholes /\ offsets.cur.length > 0 /\ offsets.cur.length <= r
      /\ Telling(NextSize(offsets), r - offsets.cur.length)
      /\ NextSize(offsets).sum = offsets.sum + offsets.cur.length /\ NextSize(offsets).blocks = offsets.blocks - 1
  <2>1. Telling(offsets, r)
    BY <1>2, <1>3, <1>4
  <2> QED
    BY <2>1, NextSizeOK
<1>6. r - l = z - (s + l) /\ s + l <= z
  BY <1>3, <1>4, <1>5
<1>7. Telling(NextSize(offsets), SizeOf(data) - (offsets.sum + offsets.cur.length))
  BY <1>3, <1>5, <1>6
<1>8. NextRun.end = buf + per_buffer /\ NextRun.offset = offsets.sum /\ NextRun.remaining = offsets.cur.length
  BY DEF NextRun
<1>9. buf + per_buffer \in Nat /\ per_buffer <= buf + per_buffer
  BY <1>1
<1>10. offsets.sum + offsets.cur.length <= SizeOf(data)
  BY <1>3, <1>6
<1> QED
  BY <1>1, <1>2, <1>3, <1>5, <1>7, <1>8, <1>9, <1>10

\* The buffer of a run that is pushed is behind all the others.
LEMMA PushedIs ==
  ASSUME Shape, phase = "push", offsets.blocks > 0
  PROVE  /\ Amount(NextRun) \in Wholes /\ Amount(NextRun) \in Nat /\ Amount(NextRun) > 0
         /\ Amount(NextRun) <= per_buffer /\ Amount(NextRun) <= offsets.cur.length
         /\ Amount(NextRun) = per_buffer \/ Amount(NextRun) = offsets.cur.length
         /\ ReadInto(NextRun).current = buf /\ ReadInto(NextRun).end = buf + Amount(NextRun)
         /\ ReadInto(NextRun).remaining = offsets.cur.length - Amount(NextRun)
         /\ ReadInto(NextRun).offset = offsets.sum + Amount(NextRun)
         /\ EntryOK(ReadInto(NextRun), per_buffer, buf + Amount(NextRun))
         /\ Extent(ReadInto(NextRun)) = buf .. buf + Amount(NextRun) - 1
<1>1. /\ Amount(NextRun) \in Wholes /\ Amount(NextRun) > 0 /\ Amount(NextRun) <= per_buffer
      /\ Amount(NextRun) <= offsets.cur.length
      /\ Amount(NextRun) = per_buffer \/ Amount(NextRun) = offsets.cur.length
      /\ ReadInto(NextRun).current = NextRun.end - per_buffer
      /\ ReadInto(NextRun).end = NextRun.end - per_buffer + Amount(NextRun)
      /\ ReadInto(NextRun).remaining = offsets.cur.length - Amount(NextRun)
      /\ ReadInto(NextRun).offset = offsets.sum + Amount(NextRun)
      /\ EntryOK(ReadInto(NextRun), per_buffer, NextRun.end - per_buffer + Amount(NextRun))
  <2>1. per_buffer \in Wholes /\ per_buffer > 0 /\ NextRun.end \in Nat /\ NextRun.remaining \in Wholes
        /\ NextRun.remaining > 0 /\ NextRun.offset \in Wholes /\ per_buffer <= NextRun.end
    BY NextRunIs
  <2>2. NextRun.remaining = offsets.cur.length /\ NextRun.offset = offsets.sum
    BY NextRunIs
  <2> QED
    BY <2>1, <2>2, ReadIntoIs
<1>2. NextRun.end - per_buffer = buf
  <2>1. per_buffer \in Nat /\ buf \in Nat /\ NextRun.end = buf + per_buffer
    BY NextRunIs
  <2> QED
    BY <2>1
<1>3. PICK a \in Nat, p \in Nat, b \in Nat, l \in Nat :
        a = Amount(NextRun) /\ p = per_buffer /\ b = buf /\ l = offsets.cur.length
  <2>1. Amount(NextRun) \in Nat
    BY <1>1, WholeFacts
  <2>2. per_buffer \in Nat /\ buf \in Nat /\ offsets.cur.length \in Nat
    BY NextRunIs
  <2> QED
    BY <2>1, <2>2
<1>4. PICK r : r = ReadInto(NextRun)
  OBVIOUS
<1>5. r.current = b /\ r.end = b + a /\ r.remaining = l - a /\ (a = p \/ a = l) /\ a <= p /\ a <= l
  BY <1>1, <1>2, <1>3, <1>4
<1>6. Extent(r) = b .. b + a - 1
  <2>1. CASE r.remaining > 0
    <3>1. a = p /\ r.end - p = b
      BY <1>3, <1>5, <2>1
    <3> QED
      BY <1>3, <1>5, <2>1, <3>1 DEF Extent
  <2>2. CASE ~(r.remaining > 0)
    BY <1>3, <1>5, <2>2 DEF Extent
  <2> QED
    BY <2>1, <2>2
<1> QED
  BY <1>1, <1>2, <1>3, <1>6, <1>4

\* A push leaves room for the next.
LEMMA PushShape ==
  ASSUME Shape, Push
  PROVE  Shape'
<1>1. /\ phase = "push" /\ offsets.blocks > 0 /\ phase' = phase
      /\ queue' = queue \cup {ReadInto(NextRun)} /\ data' = Punched(NextRun)
      /\ buf' = buf + Amount(NextRun) /\ offsets' = NextSize(offsets)
      /\ buf + Amount(NextRun) <= reading
      /\ UNCHANGED counting
      /\ config' = config /\ use' = use /\ data2' = data2 /\ offsets2' = offsets2
      /\ lazy' = lazy /\ returned' = returned /\ reading' = reading /\ assert_one' = assert_one
      /\ per_buffer' = per_buffer /\ written' = written /\ aborted' = aborted
  BY PushIs
<1>2. CountOK'
  BY <1>1, CountKept DEF Shape
<1>3. IsRecordFile(data) /\ IsRecordFile(data') /\ SizeOf(data') = SizeOf(data) /\ data'.at = data.at
  <2>1. IsRecordFile(data)
    BY DEF Shape, PartsOK
  <2> QED
    BY <1>1, <2>1, PunchedIs
<1>4. PICK r : r = ReadInto(NextRun)
  OBVIOUS
<1>5. PICK a \in Nat, p \in Nat, b \in Nat, l \in Nat, n \in Nat, s \in Nat, z \in Nat, c \in Nat, R \in Nat :
        /\ a = Amount(NextRun) /\ r = ReadInto(NextRun) /\ p = per_buffer /\ b = buf /\ l = offsets.cur.length
        /\ n = offsets.blocks /\ s = offsets.sum /\ z = SizeOf(data) /\ c = Cardinality(queue) /\ R = reading
  <2>1. IsFiniteSet(queue) /\ reading \in Nat
    BY DEF Shape, PartsOK
  <2>2. Cardinality(queue) \in Nat
    BY <2>1, FS_CardinalityType
  <2>3. Amount(NextRun) \in Nat
    BY <1>1, PushedIs
  <2>4. /\ per_buffer \in Nat /\ buf \in Nat /\ offsets.cur.length \in Nat
        /\ offsets.blocks \in Nat /\ offsets.sum \in Nat /\ SizeOf(data) \in Nat
    BY <1>1, NextRunIs
  <2> QED
    BY <1>4, <2>1, <2>2, <2>3, <2>4
<1>6. /\ a > 0 /\ a <= p /\ a <= l /\ r.current = b /\ EntryOK(r, p, b + a) /\ Extent(r) = b .. b + a - 1
      /\ p \in Wholes /\ p > 0 /\ s + l <= z /\ n > 0 /\ l \in Wholes /\ s \in Wholes
      /\ Telling(offsets', z - (s + l)) /\ offsets'.sum = s + l /\ offsets'.blocks = n - 1
  BY <1>1, <1>5, PushedIs, NextRunIs
<1>7. /\ \A e \in queue : EntryOK(e, p, b)
      /\ \A e, f \in queue : e # f => Extent(e) \cap Extent(f) = {}
      /\ written = 0 /\ b <= s /\ b <= c * p /\ RoomFor(c, n) /\ IsFiniteSet(queue)
  BY <1>1, <1>5 DEF Shape, QueueOK, PushOK, PartsOK
<1>8. ASSUME NEW e \in queue PROVE Extent(e) \subseteq 0 .. b - 1 /\ e.current < b /\ EntryOK(e, p, b + a)
  <2>1. EntryOK(e, p, b)
    BY <1>7
  <2>2. /\ e.current \in Nat /\ e.end \in Nat /\ e.current < e.end /\ e.end <= b /\ Extent(e) \subseteq 0 .. b - 1
    BY <1>5, <2>1, ExtentIs
  <2>3. b + a \in Nat /\ b <= b + a
    BY <1>5
  <2>4. EntryOK(e, p, b + a)
    BY <2>1, <2>3, HigherTop
  <2> QED
    BY <1>5, <2>2, <2>4
<1>9. r \notin queue
  BY <1>6, <1>8
<1>10. IsFiniteSet(queue') /\ Cardinality(queue') = c + 1
  BY <1>1, <1>5, <1>7, <1>9, FS_AddElement
<1>11. \A e : Extent(e)' = Extent(e)
  BY <1>1 DEF Extent
<1>12. QueueOK'
  <2>1. \A e \in queue' : EntryOK(e, per_buffer', buf')
    BY <1>1, <1>5, <1>6, <1>8
  <2>2. ASSUME NEW e \in queue', NEW f \in queue', e # f PROVE Extent(e) \cap Extent(f) = {}
    <3>1. ASSUME NEW g \in queue PROVE Extent(g) \cap Extent(r) = {}
      <4>1. (0 .. b - 1) \cap (b .. b + a - 1) = {}
        BY <1>5
      <4> QED
        BY <1>6, <1>8, <4>1
    <3> QED
      BY <1>1, <1>5, <1>7, <2>2, <3>1
  <2> QED
    BY <1>1, <1>5, <1>6, <1>11, <2>1, <2>2 DEF QueueOK
<1>13. ConfigOK' /\ PartsOK'
  <2>1. buf' \in Nat
    BY <1>1, <1>5
  <2> QED
    BY <1>1, <1>3, <1>10, <2>1 DEF Shape, ConfigOK, PartsOK
<1>14. CountingOK' /\ BetweenOK'
  BY <1>1 DEF CountingOK, BetweenOK
<1>15. PromiseOK'
  BY <1>1 DEF Shape, PromiseOK, InPass
<1>16. PassOK'
  <2>1. offsets'.sum \in Wholes /\ offsets'.sum <= SizeOf(data')
    <3>1. s + l \in Wholes
      BY <1>6, WholeFacts
    <3> QED
      BY <1>3, <1>5, <1>6, <3>1
  <2>2. Telling(offsets', SizeOf(data') - offsets'.sum)
    BY <1>3, <1>5, <1>6
  <2>3. ~assert_one => /\ data.at = 0 /\ data2.at = Len(data2.records) /\ returned = -1
                       /\ Logging(offsets2, SizeOf(data2), Unlogged)
                       /\ reading >= 2 * config.buffer_size \/ SizeOf(data) <= reading
    BY <1>1 DEF Shape, PassOK, InPass
  <2>4. Unlogged' = Unlogged
    BY <1>1 DEF Unlogged
  <2> QED
    BY <1>1, <1>3, <2>1, <2>2, <2>3, <2>4 DEF PassOK, Logging
<1>17. PushOK'
  <2>1. buf' <= offsets'.sum
    <3>1. buf' = b + a /\ offsets'.sum = s + l
      BY <1>1, <1>5, <1>6
    <3>2. b \in Nat /\ a \in Nat /\ s \in Nat /\ l \in Nat /\ b <= s /\ a <= l
      BY <1>5, <1>6, <1>7
    <3>3. b + a <= s + l
      BY ONLY <3>2
    <3> QED
      BY <3>1, <3>3
  <2>2. (c + 1) * p = c * p + p /\ c * p \in Nat
    BY <1>5, Products
  <2>3. PICK x \in Nat : x = c * p
    BY <2>2
  <2>4. buf' <= Cardinality(queue') * per_buffer'
    <3>1. b + a <= x + p
      BY <1>5, <1>6, <1>7, <2>3
    <3> QED
      BY <1>1, <1>5, <1>10, <2>2, <2>3, <3>1
  <2>5. RoomFor(c + 1, n - 1)
    <3>1. (n - 1) + (c + 1) = n + c /\ (c + 1) + (n - 1) = c + n
      BY <1>5
    <3>2. CASE SizeOf(data) <= reading
      BY <3>2 DEF RoomFor
    <3>3. CASE ~assert_one /\ per_buffer + per_buffer <= reading
      BY <3>3 DEF RoomFor
    <3>4. CASE ~assert_one /\ per_buffer <= reading /\ n + c <= 1
      BY <3>1, <3>4 DEF RoomFor
    <3>5. CASE (c + n) * per_buffer <= reading
      BY <3>1, <3>5 DEF RoomFor
    <3> QED
      BY <1>7, <3>2, <3>3, <3>4, <3>5 DEF RoomFor
  <2>6. RoomFor(Cardinality(queue), offsets.blocks)'
    BY <1>1, <1>3, <1>6, <1>10, <2>5 DEF RoomFor
  <2> QED
    BY <1>1, <1>5, <1>6, <1>7, <2>1, <2>4, <2>6 DEF PushOK
<1> QED
  BY <1>2, <1>12, <1>13, <1>14, <1>15, <1>16, <1>17 DEF Shape

\* When a run does not fit, another two have been pushed, and this is no lazy merge.
LEMMA StopsLate ==
  ASSUME Shape, phase = "push", offsets.blocks > 0, ~Fits
  PROVE  Cardinality(queue) >= 2 /\ ~assert_one
<1>1. PICK a \in Nat, p \in Nat, b \in Nat, l \in Nat, n \in Nat, s \in Nat, z \in Nat, c \in Nat, R \in Nat :
        /\ a = Amount(NextRun) /\ p = per_buffer /\ b = buf /\ l = offsets.cur.length
        /\ n = offsets.blocks /\ s = offsets.sum /\ z = SizeOf(data) /\ c = Cardinality(queue) /\ R = reading
  <2>1. IsFiniteSet(queue) /\ reading \in Nat
    BY DEF Shape, PartsOK
  <2>2. Cardinality(queue) \in Nat
    BY <2>1, FS_CardinalityType
  <2> QED
    BY <2>1, <2>2, NextRunIs, PushedIs
<1>2. a <= p /\ a <= l /\ s + l <= z /\ n > 0 /\ p > 0
  BY <1>1, PushedIs, NextRunIs
<1>3. b <= s /\ b <= c * p /\ RoomFor(c, n)
  BY <1>1 DEF Shape, PushOK
<1>4. ~(b + a <= R)
  <2>1. NextRun.remaining = offsets.cur.length
    BY DEF NextRun
  <2> QED
    BY <1>1, <2>1 DEF Fits, Amount
<1>5. PICK x \in Nat : x = c * p
  BY <1>1
<1>6. ~(z <= R)
  BY <1>1, <1>2, <1>3, <1>4
<1>7. (c + 1) * p = x + p
  BY <1>1, <1>5, Products
<1>8. ~((c + n) * p <= R)
  <2>1. PICK m \in Nat : n = m + 1
    <3>1. n - 1 \in Nat /\ n = (n - 1) + 1
      BY <1>1, <1>2
    <3> QED
      BY <3>1
  <2>2. (c + n) * p = (c + 1) * p + m * p
    BY <1>1, <2>1
  <2>3. PICK y \in Nat : y = m * p
    BY <1>1, <2>1
  <2>4. b + a <= x + p
    BY <1>1, <1>2, <1>3, <1>5
  <2>5. (c + n) * p = x + p + y
    BY <1>7, <2>2, <2>3
  <2> QED
    BY <1>1, <1>4, <1>5, <2>3, <2>4, <2>5
<1>9. ~(p <= R /\ n + c <= 1)
  <2>1. ASSUME p <= R, n + c <= 1 PROVE FALSE
    <3>1. c = 0
      BY <1>1, <1>2, <2>1
    <3>2. 0 * p = 0
      BY <1>1, Products
    <3>3. b = 0
      BY <1>1, <1>3, <3>1, <3>2
    <3> QED
      BY <1>1, <1>2, <1>4, <2>1, <3>3
  <2> QED
    BY <2>1
<1>10. ~assert_one /\ p + p <= R
  BY <1>1, <1>3, <1>6, <1>8, <1>9 DEF RoomFor
<1>11. c >= 2
  <2>1. SUFFICES ASSUME c = 0 \/ c = 1 PROVE FALSE
    BY <1>1
  <2>2. 0 * p = 0 /\ 1 * p = p
    BY <1>1, Products
  <2>3. b <= p
    BY <1>1, <1>3, <2>1, <2>2
  <2> QED
    BY <1>1, <1>2, <1>4, <1>10, <2>3
<1> QED
  BY <1>1, <1>10, <1>11

\* When no more runs are pushed there are two or more, or all: the program does
\* not die.
LEMMA PopulatedShape ==
  ASSUME Shape, Populated
  PROVE  Shape'
<1>1. /\ phase = "push" /\ ~(offsets.blocks > 0 /\ Fits)
      /\ aborted' = (offsets.blocks > 0 /\ (Cardinality(queue) < 2 \/ assert_one))
      /\ phase' = IF aborted' THEN "done" ELSE "pop"
      /\ UNCHANGED counting
      /\ config' = config /\ use' = use /\ data' = data /\ offsets' = offsets /\ data2' = data2 /\ offsets2' = offsets2
      /\ lazy' = lazy /\ returned' = returned /\ reading' = reading /\ assert_one' = assert_one
      /\ per_buffer' = per_buffer /\ buf' = buf /\ queue' = queue /\ written' = written
  BY DEF Populated, files, reader
<1>2. CountOK'
  BY <1>1, CountKept DEF Shape
<1>3. ~(offsets.blocks > 0 /\ (Cardinality(queue) < 2 \/ assert_one))
  <2>1. SUFFICES ASSUME offsets.blocks > 0 PROVE ~(Cardinality(queue) < 2 \/ assert_one)
    OBVIOUS
  <2>2. Cardinality(queue) >= 2 /\ ~assert_one
    BY <1>1, <2>1, StopsLate
  <2>3. Cardinality(queue) \in Nat
    BY FS_CardinalityType DEF Shape, PartsOK
  <2> QED
    BY <2>2, <2>3
<1>4. aborted' = FALSE
  BY <1>1, <1>3, Zenon
<1>5. phase' = "pop"
  BY <1>1, <1>4
<1>6. ConfigOK' /\ PartsOK'
  BY <1>1, <1>4, <1>5 DEF Shape, ConfigOK, PartsOK
<1>7. CountingOK' /\ BetweenOK' /\ PushOK'
  BY <1>5 DEF CountingOK, BetweenOK, PushOK
<1>8. PromiseOK'
  BY <1>1, <1>5 DEF Shape, PromiseOK, InPass
<1>9. QueueOK'
  BY <1>1, <1>5 DEF Shape, QueueOK, Extent
<1>10. PassOK'
  <2>1. offsets.blocks \in Nat
    BY <1>1, TellingFacts DEF Shape, PassOK, InPass
  <2>2. assert_one' /\ phase' = "pop" => offsets'.blocks = 0
    BY <1>1, <1>3, <2>1
  <2>3. Unlogged' = Unlogged
    BY <1>1, <1>5 DEF Unlogged
  <2> QED
    BY <1>1, <1>5, <2>2, <2>3 DEF Shape, PassOK, InPass, Logging
<1> QED
  BY <1>2, <1>6, <1>7, <1>8, <1>9, <1>10 DEF Shape

-----------------------------------------------------------------------------
(* The records of a group                                                  *)

\* A record that goes to the file is not told by the log yet.
LEMMA EmitIs ==
  ASSUME Shape, phase = "pop", NEW x, Emit(x)
  PROVE  /\ IsRecordFile(data2')
         /\ ~assert_one => /\ data2'.at = Len(data2'.records)
                           /\ Logging(offsets2, SizeOf(data2'), (written + 1) * EntrySize)
<1>1. IsRecordFile(data2) /\ written \in Nat /\ assert_one \in BOOLEAN
  BY DEF Shape, PartsOK
<1>2. CASE assert_one
  BY <1>1, <1>2 DEF Emit
<1>3. CASE ~assert_one
  <2>1. data2' = Write(data2, <<x>>)
    BY <1>3 DEF Emit
  <2>2. data2.at = Len(data2.records) /\ Logging(offsets2, SizeOf(data2), written * EntrySize)
    BY <1>3 DEF Shape, PassOK, InPass, Unlogged
  <2>3. PICK s : s = <<x>>
    OBVIOUS
  <2>4. s \in Seq({x}) /\ Len(s) = 1
    BY <2>3
  <2>5. Listed(s)
    BY <2>4, SeqIsListed
  <2>6. PICK n \in Nat : n = Len(data2.records)
    BY <1>1, SizeFacts
  <2>7. IsRecordFile(data2') /\ Len(data2'.records) = n + 1 /\ data2'.at = n + 1
    <3>1. IsRecordFile(Write(data2, s)) /\ Len(Write(data2, s).records) = Len(data2.records) + Len(s)
          /\ Write(data2, s).at = Len(data2.records) + Len(s)
      BY <1>1, <2>2, <2>5, WriteIs
    <3> QED
      BY <2>1, <2>3, <2>4, <2>6, <3>1
  <2>8. SizeOf(data2') = SizeOf(data2) + 1 * EntrySize
    BY <2>6, <2>7, GrownSize
  <2>9. PICK total \in Nat : Appending(offsets2, total) /\ SizeOf(data2) = total + written * EntrySize
    BY <2>2 DEF Logging
  <2>10. SizeOf(data2') = total + (written + 1) * EntrySize
    <3>1. PICK E \in Nat : E = EntrySize
      BY EntryAssumption
    <3>2. (written + 1) * E = written * E + E /\ 1 * E = E /\ written * E \in Nat
      BY <1>1
    <3>3. PICK w \in Nat : w = written * E
      BY <3>2
    <3> QED
      BY <2>8, <2>9, <3>1, <3>2, <3>3
  <2> QED
    BY <2>7, <2>6, <2>9, <2>10 DEF Logging
<1> QED
  BY <1>1, <1>2, <1>3

\* The entry at its next record.
Stepped(e) == [e EXCEPT !.current = @ + EntrySize]

\* The entry is fine as long as it has records in its buffer.
LEMMA SteppedIs ==
  ASSUME NEW e, NEW per \in Nat, NEW top \in Nat, EntryOK(e, per, top)
  PROVE  /\ Stepped(e).current = e.current + EntrySize /\ Stepped(e).end = e.end
         /\ Stepped(e).remaining = e.remaining /\ Stepped(e).offset = e.offset
         /\ Stepped(e).current # e.end => EntryOK(Stepped(e), per, top)
<1>1. PICK c \in Nat, n \in Nat, r \in Wholes, o \in Wholes :
        c = e.current /\ n = e.end /\ r = e.remaining /\ o = e.offset
        /\ e = [current |-> c, end |-> n, remaining |-> r, offset |-> o]
  BY DEF EntryOK
<1>2. c < n /\ n - c \in Wholes /\ n <= top /\ (r > 0 => per <= n /\ n - per <= c)
  BY <1>1 DEF EntryOK
<1>3. PICK E \in Nat : E = EntrySize /\ E > 0
  BY EntryAssumption
<1>4. PICK s : s = Stepped(e)
  OBVIOUS
<1>5. s = [current |-> c + E, end |-> n, remaining |-> r, offset |-> o]
  BY <1>1, <1>3, <1>4 DEF Stepped
<1>6. s.current = c + E /\ s.end = n /\ s.remaining = r /\ s.offset = o
      /\ s = [current |-> s.current, end |-> s.end, remaining |-> s.remaining, offset |-> s.offset]
  BY <1>5
<1>7. ASSUME s.current # n PROVE EntryOK(s, per, top)
  <2>1. PICK d \in Nat : d = n - c /\ d > 0 /\ d \in Wholes
    BY <1>1, <1>2
  <2>2. d >= E
    BY <1>3, <2>1, WholeFacts
  <2>3. c + E < n
    BY <1>1, <1>3, <1>6, <1>7, <2>1, <2>2
  <2>4. E \in Wholes
    <3>1. 1 * EntrySize = EntrySize
      BY EntryAssumption
    <3>2. 1 * EntrySize \in Wholes
      BY DEF Wholes
    <3> QED
      BY <1>3, <3>1, <3>2
  <2>5. d - E \in Wholes
    BY <2>1, <2>2, <2>4, WholeFacts
  <2>6. d - E = n - (c + E)
    BY <1>1, <1>3, <2>1
  <2>7. n - (c + E) \in Wholes
    BY <2>5, <2>6
  <2>8. r > 0 => per <= n /\ n - per <= c + E
    BY <1>1, <1>2, <1>3
  <2> QED
    BY <1>1, <1>2, <1>6, <2>3, <2>7, <2>8 DEF EntryOK
<1> QED
  BY <1>1, <1>3, <1>4, <1>6, <1>7

\* An entry that moves on stays in its buffer.
LEMMA MovedOn ==
  ASSUME NEW e, per_buffer \in Wholes, per_buffer > 0, NEW top \in Nat, EntryOK(e, per_buffer, top)
  PROVE  /\ Stepped(e).current # e.end => EntryOK(Stepped(e), per_buffer, top) /\ Extent(Stepped(e)) \subseteq Extent(e)
         /\ e.remaining > 0 => EntryOK(ReadInto(e), per_buffer, top) /\ Extent(ReadInto(e)) \subseteq Extent(e)
<1>1. PICK per \in Nat : per = per_buffer /\ per \in Wholes /\ per > 0
  BY WholeFacts
<1>2. PICK c \in Nat, n \in Nat, r \in Nat, o \in Wholes :
        c = e.current /\ n = e.end /\ r = e.remaining /\ o = e.offset /\ r \in Wholes
  BY WholeFacts DEF EntryOK
<1>3. c < n /\ n <= top /\ (r > 0 => per <= n /\ n - per <= c)
  BY <1>1, <1>2 DEF EntryOK
<1>4. Extent(e) = (IF r > 0 THEN n - per ELSE c) .. n - 1
  BY <1>1, <1>2, ExtentIs
<1>5. ASSUME Stepped(e).current # e.end
      PROVE  EntryOK(Stepped(e), per_buffer, top) /\ Extent(Stepped(e)) \subseteq Extent(e)
  <2>1. PICK s : s = Stepped(e)
    OBVIOUS
  <2>2. PICK E \in Nat : E = EntrySize
    BY EntryAssumption
  <2>3. s.current = c + E /\ s.end = n /\ s.remaining = r /\ EntryOK(s, per, top)
    BY <1>1, <1>2, <1>5, <2>1, <2>2, SteppedIs
  <2>4. Extent(s) = (IF r > 0 THEN n - per ELSE c + E) .. n - 1
    BY <1>1, <2>3, ExtentIs
  <2>5. (c + E) .. n - 1 \subseteq c .. n - 1
    OBVIOUS
  <2>6. Extent(s) \subseteq Extent(e)
    <3>1. CASE r > 0
      BY <1>4, <2>4, <3>1
    <3>2. CASE ~(r > 0)
      BY <1>4, <2>4, <2>5, <3>2
    <3> QED
      BY <3>1, <3>2
  <2> QED
    BY <1>1, <2>1, <2>3, <2>6
<1>6. ASSUME e.remaining > 0
      PROVE  EntryOK(ReadInto(e), per_buffer, top) /\ Extent(ReadInto(e)) \subseteq Extent(e)
  <2>1. r > 0 /\ per <= n
    BY <1>2, <1>3, <1>6
  <2>2. PICK q : q = ReadInto(e)
    OBVIOUS
  <2>3. /\ Amount(e) \in Wholes /\ Amount(e) > 0 /\ Amount(e) <= per_buffer
        /\ ReadInto(e).current = e.end - per_buffer /\ ReadInto(e).end = e.end - per_buffer + Amount(e)
        /\ ReadInto(e).remaining = e.remaining - Amount(e)
        /\ Amount(e) = per_buffer \/ Amount(e) = e.remaining
        /\ EntryOK(ReadInto(e), per_buffer, e.end - per_buffer + Amount(e))
    BY <1>1, <1>2, <2>1, ReadIntoIs
  <2>4. Amount(e) \in Nat
    BY <2>3, WholeFacts
  <2>5. PICK a \in Nat : a = Amount(e)
    BY <2>4
  <2>6. a > 0 /\ a <= per /\ q.current = n - per /\ q.end = n - per + a /\ q.remaining = r - a /\ (a = per \/ a = r)
    BY <1>1, <1>2, <2>2, <2>3, <2>5
  <2>7. PICK h \in Nat : h = n - per + a
    BY <2>1
  <2>8. EntryOK(q, per, h)
    BY <1>1, <1>2, <2>2, <2>3, <2>5, <2>7
  <2>9. h <= n
    BY <2>6, <2>7
  <2>10. EntryOK(q, per, top)
    BY <1>3, <2>7, <2>8, <2>9, HigherTop
  <2>11. Extent(q) = (IF q.remaining > 0 THEN q.end - per ELSE q.current) .. q.end - 1
    BY <1>1, <2>7, <2>8, ExtentIs
  <2>12. Extent(q) = n - per .. h - 1
    <3>1. CASE q.remaining > 0
      <4>1. q.end - per = n - per
        BY <2>6, <3>1
      <4> QED
        BY <2>6, <2>7, <2>11, <3>1, <4>1
    <3>2. CASE ~(q.remaining > 0)
      BY <2>6, <2>7, <2>11, <3>2
    <3> QED
      BY <3>1, <3>2
  <2>13. n - per .. h - 1 \subseteq n - per .. n - 1
    BY <2>9
  <2>14. Extent(e) = n - per .. n - 1
    BY <1>4, <2>1
  <2> QED
    BY <1>1, <2>2, <2>10, <2>12, <2>13, <2>14
<1> QED
  BY <1>5, <1>6

\* What a pop does: the entry goes, or another takes its place.
LEMMA PopIs ==
  ASSUME Pop
  PROVE  /\ phase = "pop" /\ phase' = phase
         /\ UNCHANGED counting
         /\ config' = config /\ use' = use /\ offsets' = offsets /\ offsets2' = offsets2
         /\ lazy' = lazy /\ returned' = returned /\ reading' = reading /\ assert_one' = assert_one
         /\ per_buffer' = per_buffer /\ buf' = buf /\ aborted' = aborted
         /\ (written' = written /\ data2' = data2) \/ (written' = written + 1 /\ Emit(head))
         /\ \E e \in queue :
              \/ Stepped(e).current # e.end /\ queue' = (queue \ {e}) \cup {Stepped(e)} /\ data' = data
              \/ e.remaining > 0 /\ queue' = (queue \ {e}) \cup {ReadInto(e)} /\ data' = Punched(e)
              \/ queue' = queue \ {e} /\ data' = data
<1>1. PICK e \in queue :
       LET top == memory[e.current]
           next == [e EXCEPT !.current = @ + EntrySize]
       IN  /\ \A f \in queue : ~RecordLess(memory[f.current], top)
           /\ IF head # Nothing /\ head.gram = top.gram
                THEN head' = Combined(head, top) /\ UNCHANGED <<written, data2, out>>
                ELSE /\ head' = top
                     /\ IF head = Nothing THEN UNCHANGED <<written, data2, out>>
                        ELSE written' = written + 1 /\ Emit(head)
           /\ \/ /\ next.current # e.end
                 /\ queue' = (queue \ {e}) \cup {next}
                 /\ UNCHANGED <<memory, data>>
              \/ /\ next.current = e.end /\ e.remaining > 0
                 /\ queue' = (queue \ {e}) \cup {ReadInto(e)}
                 /\ memory' = Load(e)
                 /\ data' = Punched(e)
              \/ /\ next.current = e.end /\ e.remaining = 0
                 /\ queue' = queue \ {e}
                 /\ UNCHANGED <<memory, data>>
  BY DEF Pop
<1>2. \/ Stepped(e).current # e.end /\ queue' = (queue \ {e}) \cup {Stepped(e)} /\ data' = data
      \/ e.remaining > 0 /\ queue' = (queue \ {e}) \cup {ReadInto(e)} /\ data' = Punched(e)
      \/ queue' = queue \ {e} /\ data' = data
  BY <1>1 DEF Stepped
<1>3. (written' = written /\ data2' = data2) \/ (written' = written + 1 /\ Emit(head))
  BY <1>1
<1> QED
  BY <1>2, <1>3 DEF Pop

\* The queue with an entry replaced.
LEMMA ReplacedIs ==
  ASSUME IsFiniteSet(queue), NEW top \in Nat, NEW per,
         \A e \in queue : EntryOK(e, per, top),
         \A e, f \in queue : e # f => Extent(e) \cap Extent(f) = {},
         NEW e \in queue, NEW n, EntryOK(n, per, top), Extent(n) \subseteq Extent(e),
         NEW q, q = (queue \ {e}) \cup {n}
  PROVE  /\ IsFiniteSet(q) /\ \A x \in q : EntryOK(x, per, top)
         /\ \A x, y \in q : x # y => Extent(x) \cap Extent(y) = {}
<1>1. IsFiniteSet(q)
  <2>1. IsFiniteSet(queue \ {e})
    BY FS_RemoveElement
  <2> QED
    BY <2>1, FS_AddElement
<1>2. \A x \in q : EntryOK(x, per, top)
  OBVIOUS
<1>3. ASSUME NEW x \in q, NEW y \in q, x # y PROVE Extent(x) \cap Extent(y) = {}
  <2>1. ASSUME NEW f \in queue, f # e PROVE Extent(f) \cap Extent(n) = {}
    <3>1. Extent(f) \cap Extent(e) = {}
      BY <2>1
    <3> QED
      BY <3>1
  <2> QED
    BY <1>3, <2>1
<1> QED
  BY <1>1, <1>2, <1>3

\* A pop replaces an entry by one that stays in its buffer, or drops it.
LEMMA PopShape ==
  ASSUME Shape, Pop
  PROVE  Shape'
<1>1. /\ phase = "pop" /\ phase' = phase
      /\ UNCHANGED counting
      /\ config' = config /\ use' = use /\ offsets' = offsets /\ offsets2' = offsets2
      /\ lazy' = lazy /\ returned' = returned /\ reading' = reading /\ assert_one' = assert_one
      /\ per_buffer' = per_buffer /\ buf' = buf /\ aborted' = aborted
      /\ (written' = written /\ data2' = data2) \/ (written' = written + 1 /\ Emit(head))
      /\ \E e \in queue :
           \/ Stepped(e).current # e.end /\ queue' = (queue \ {e}) \cup {Stepped(e)} /\ data' = data
           \/ e.remaining > 0 /\ queue' = (queue \ {e}) \cup {ReadInto(e)} /\ data' = Punched(e)
           \/ queue' = queue \ {e} /\ data' = data
  BY PopIs
<1>2. CountOK'
  BY <1>1, CountKept DEF Shape
<1>3. /\ IsFiniteSet(queue) /\ buf \in Nat /\ IsRecordFile(data) /\ IsRecordFile(data2) /\ written \in Nat
      /\ \A e \in queue : EntryOK(e, per_buffer, buf)
      /\ \A e, f \in queue : e # f => Extent(e) \cap Extent(f) = {}
      /\ queue # {} => per_buffer \in Wholes /\ per_buffer > 0
  BY DEF Shape, PartsOK, QueueOK
<1>4. PICK e \in queue :
           \/ Stepped(e).current # e.end /\ queue' = (queue \ {e}) \cup {Stepped(e)} /\ data' = data
           \/ e.remaining > 0 /\ queue' = (queue \ {e}) \cup {ReadInto(e)} /\ data' = Punched(e)
           \/ queue' = queue \ {e} /\ data' = data
  BY <1>1
<1>5. per_buffer \in Wholes /\ per_buffer > 0 /\ EntryOK(e, per_buffer, buf)
  BY <1>3
<1>6. /\ IsFiniteSet(queue') /\ \A x \in queue' : EntryOK(x, per_buffer, buf)
      /\ \A x, y \in queue' : x # y => Extent(x) \cap Extent(y) = {}
  <2>1. CASE Stepped(e).current # e.end /\ queue' = (queue \ {e}) \cup {Stepped(e)}
    <3>1. EntryOK(Stepped(e), per_buffer, buf) /\ Extent(Stepped(e)) \subseteq Extent(e)
      BY <1>3, <1>5, <2>1, MovedOn
    <3> QED
      BY <1>3, <2>1, <3>1, ReplacedIs
  <2>2. CASE e.remaining > 0 /\ queue' = (queue \ {e}) \cup {ReadInto(e)}
    <3>1. EntryOK(ReadInto(e), per_buffer, buf) /\ Extent(ReadInto(e)) \subseteq Extent(e)
      BY <1>3, <1>5, <2>2, MovedOn
    <3> QED
      BY <1>3, <2>2, <3>1, ReplacedIs
  <2>3. CASE queue' = queue \ {e}
    <3>1. IsFiniteSet(queue \ {e})
      BY <1>3, FS_RemoveElement
    <3> QED
      BY <1>3, <2>3, <3>1
  <2> QED
    BY <1>4, <2>1, <2>2, <2>3
<1>7. \A x : Extent(x)' = Extent(x)
  BY <1>1 DEF Extent
<1>8. QueueOK'
  BY <1>1, <1>5, <1>6, <1>7 DEF Shape, QueueOK
<1>9. IsRecordFile(data') /\ SizeOf(data') = SizeOf(data) /\ data'.at = data.at
  <2>1. CASE data' = data
    BY <1>3, <2>1 DEF SizeOf
  <2>2. CASE data' = Punched(e)
    BY <1>3, <2>2, PunchedIs
  <2> QED
    BY <1>4, <2>1, <2>2
<1>10. /\ IsRecordFile(data2') /\ written' \in Nat
       /\ ~assert_one => data2'.at = Len(data2'.records) /\ Logging(offsets2, SizeOf(data2'), written' * EntrySize)
  <2>1. CASE written' = written /\ data2' = data2
    BY <1>1, <1>3, <2>1 DEF Shape, PassOK, InPass, Unlogged, SizeOf
  <2>2. CASE written' = written + 1 /\ Emit(head)
    BY <1>1, <1>3, <2>2, EmitIs
  <2> QED
    BY <1>1, <2>1, <2>2
<1>11. ConfigOK' /\ PartsOK'
  BY <1>1, <1>6, <1>9, <1>10 DEF Shape, ConfigOK, PartsOK
<1>12. CountingOK' /\ BetweenOK' /\ PushOK'
  BY <1>1 DEF CountingOK, BetweenOK, PushOK
<1>13. PromiseOK'
  BY <1>1 DEF Shape, PromiseOK, InPass
<1>14. PassOK'
  <2>1. Unlogged' = written' * EntrySize
    BY <1>1 DEF Unlogged
  <2>2. /\ offsets.sum \in Wholes /\ offsets.sum <= SizeOf(data)
        /\ Telling(offsets, SizeOf(data) - offsets.sum)
        /\ ~assert_one => /\ data.at = 0 /\ returned = -1
                          /\ reading >= 2 * config.buffer_size \/ SizeOf(data) <= reading
        /\ assert_one => offsets.blocks = 0
    BY <1>1 DEF Shape, PassOK, InPass
  <2> QED
    BY <1>1, <1>9, <1>10, <2>1, <2>2 DEF PassOK, Logging
<1> QED
  BY <1>2, <1>8, <1>11, <1>12, <1>13, <1>14 DEF Shape

\* At the end of a group the log is told what it has written.
LEMMA EndGroupShape ==
  ASSUME Shape, EndGroup
  PROVE  Shape'
<1>1. /\ phase = "pop" /\ queue = {} /\ Emit(head) /\ written' = written + 1
      /\ offsets2' = (IF assert_one THEN offsets2 ELSE AppendLength(offsets2, written' * EntrySize))
      /\ phase' = "group"
      /\ UNCHANGED counting
      /\ config' = config /\ use' = use /\ data' = data /\ offsets' = offsets
      /\ lazy' = lazy /\ returned' = returned /\ reading' = reading /\ assert_one' = assert_one
      /\ per_buffer' = per_buffer /\ buf' = buf /\ queue' = queue /\ aborted' = aborted
  BY DEF EndGroup
<1>2. CountOK'
  BY <1>1, CountKept DEF Shape
<1>3. /\ written' \in Nat /\ written' * EntrySize \in Wholes
  <2>1. written' \in Nat
    BY <1>1 DEF Shape, PartsOK
  <2> QED
    BY <2>1 DEF Wholes
<1>4. /\ IsRecordFile(data2')
      /\ ~assert_one => data2'.at = Len(data2'.records) /\ Logging(offsets2, SizeOf(data2'), written' * EntrySize)
  BY <1>1, EmitIs
<1>5. ConfigOK' /\ PartsOK'
  BY <1>1, <1>3, <1>4 DEF Shape, ConfigOK, PartsOK
<1>6. CountingOK' /\ BetweenOK' /\ PushOK'
  BY <1>1 DEF CountingOK, BetweenOK, PushOK
<1>7. PromiseOK'
  BY <1>1 DEF Shape, PromiseOK, InPass
<1>8. QueueOK'
  BY <1>1 DEF QueueOK
<1>9. ASSUME ~assert_one PROVE Logging(offsets2', SizeOf(data2'), 0)
  <2>1. PICK total \in Nat : Appending(offsets2, total) /\ SizeOf(data2') = total + written' * EntrySize
    BY <1>4, <1>9 DEF Logging
  <2>2. PICK w \in Wholes : w = written' * EntrySize
    BY <1>3
  <2>3. Appending(AppendLength(offsets2, w), total + w)
    BY <2>1, AppendLengthOK
  <2>4. PICK t \in Nat : t = total + w
    BY <2>2, WholeFacts
  <2>5. Appending(offsets2', t) /\ SizeOf(data2') = t + 0
    BY <1>1, <1>9, <2>1, <2>2, <2>3, <2>4
  <2> QED
    BY <2>5 DEF Logging
<1>10. PassOK'
  <2>1. Unlogged' = 0
    BY <1>1 DEF Unlogged
  <2>2. /\ offsets.sum \in Wholes /\ offsets.sum <= SizeOf(data)
        /\ Telling(offsets, SizeOf(data) - offsets.sum)
        /\ ~assert_one => /\ data.at = 0 /\ returned = -1
                          /\ reading >= 2 * config.buffer_size \/ SizeOf(data) <= reading
        /\ assert_one => offsets.blocks = 0
    BY <1>1 DEF Shape, PassOK, InPass
  <2>3. assert_one => offsets.blocks * config.buffer_size <= reading
    <3>1. config.buffer_size \in Nat /\ reading \in Nat
      BY ConfigFacts DEF Shape, PartsOK
    <3>2. 0 * config.buffer_size = 0
      BY <3>1
    <3> QED
      BY <2>2, <3>1, <3>2
  <2> QED
    BY <1>1, <1>4, <1>9, <2>1, <2>2, <2>3 DEF PassOK
<1> QED
  BY <1>2, <1>5, <1>6, <1>7, <1>8, <1>10 DEF Shape

-----------------------------------------------------------------------------
(* The theorems                                                            *)

\* Every step keeps the shape.
LEMMA NextShape == Shape /\ [Next]_vars => Shape'
<1> SUFFICES ASSUME Shape, [Next]_vars PROVE Shape'
  OBVIOUS
<1>1. CASE Count /\ UNCHANGED sorting
  BY <1>1, CountShape
<1>2. CASE SortBlock
  BY <1>2, SortBlockShape
<1>3. CASE AllSorted
  BY <1>3, AllSortedShape
<1>4. CASE MergeReturns
  BY <1>4, MergeReturnsShape
<1>5. CASE BeginPass
  BY <1>5, BeginPassShape
<1>6. CASE EndPass
  BY <1>6, EndPassShape
<1>7. CASE BeginGroup
  BY <1>7, BeginGroupShape
<1>8. CASE Push
  BY <1>8, PushShape
<1>9. CASE Populated
  BY <1>9, PopulatedShape
<1>10. CASE Pop
  BY <1>10, PopShape
<1>11. CASE EndGroup
  BY <1>11, EndGroupShape
<1>12. CASE MergeAgain
  BY <1>12, MergeAgainShape
<1>13. CASE Output
  BY <1>13, OutputShape
<1>14. CASE OutputEnds
  BY <1>14, OutputEndsShape
<1>15. CASE StealCompleted
  BY <1>15, StealCompletedShape
<1>16. CASE UNCHANGED vars
  BY <1>16, StutterShape
<1> QED
  BY <1>1, <1>2, <1>3, <1>4, <1>5, <1>6, <1>7, <1>8, <1>9, <1>10, <1>11, <1>12, <1>13, <1>14, <1>15, <1>16
  DEF Next, Sorting

\* The sort keeps its shape, for every corpus, order, size of records, buffers
\* and memory, and however read(2) and the sort behave.
THEOREM SortKeepsItsShape == Spec => []Shape
BY InitShape, NextShape, PTL DEF Spec

\* The shape keeps the buffers apart.
LEMMA ShapeApart == Shape => BuffersApart
<1> SUFFICES ASSUME Shape, NEW e \in queue
             PROVE  /\ Extent(e) \subseteq 0 .. reading - 1
                    /\ \A f \in queue : f # e => Extent(e) \cap Extent(f) = {}
  BY DEF BuffersApart
<1>1. phase \in {"push", "pop"} /\ per_buffer \in Nat /\ buf \in Nat /\ reading \in Nat /\ buf <= reading
      /\ EntryOK(e, per_buffer, buf) /\ \A f \in queue : e # f => Extent(e) \cap Extent(f) = {}
  BY DEF Shape, PartsOK, QueueOK
<1>2. Extent(e) \subseteq 0 .. buf - 1
  BY <1>1, ExtentIs
<1>3. 0 .. buf - 1 \subseteq 0 .. reading - 1
  BY <1>1
<1> QED
  BY <1>1, <1>2, <1>3

\* The shape has what Merge promises.
LEMMA ShapeLazy == Shape => LazyFits
<1> SUFFICES ASSUME Shape PROVE LazyFits
  OBVIOUS
<1>1. PromiseOK
  BY DEF Shape
<1> QED
  BY <1>1 DEF PromiseOK, LazyFits, InPass

\* The two messages "Bug in sort implementation" of MergingReader::Run never
\* come, whatever the lengths of the runs and the memory are: there is always
\* room for two buffers or for all that is left.
THEOREM NeverDiesMerging == Spec => []NeverAborts
<1>1. Shape => NeverAborts
  BY DEF Shape, PartsOK, NeverAborts
<1> QED
  BY <1>1, SortKeepsItsShape, PTL

\* The buffers of a merge are in the memory allocated and do not overlap; and
\* what Merge returns is enough for a lazy merge without more passes.
THEOREM EveryBufferFits == Spec => [](BuffersApart /\ LazyFits)
BY ShapeApart, ShapeLazy, SortKeepsItsShape, PTL

\* The counting keeps its types, and as long as it goes on the hash table has
\* just the N-grams of the block that is being filled, which is not full.
THEOREM BlocksAreTold == Spec => [](CountTypeOK /\ (~closed => TableTellsTheBlock))
<1>1. Shape => CountTypeOK /\ (~closed => TableTellsTheBlock)
  BY DEF Shape, CountOK, PieceOK, PieceNumbers, CountTypeOK
<1> QED
  BY <1>1, SortKeepsItsShape, PTL
=============================================================================
