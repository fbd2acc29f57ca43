---------------------------- MODULE RewindProofs ----------------------------
(***************************************************************************)
(* TLAPS proofs about util/stream/rewindable_stream.cc, for any number and *)
(* length of blocks and any number of records.                             *)
(*                                                                         *)
(* The blocks before, in and behind the stream follow each other without a *)
(* gap (Flow, in terms of Run), so the number of a record, from which the  *)
(* properties are stated, is the number of records in the blocks before it *)
(* (RunRecords) wherever blocks are handed on, buffered or cut.  The       *)
(* cursor is on a record of the block it is said to be in, and the mark in *)
(* the first block (Places).  Each action is shown to keep both, and what  *)
(* it does to the cursor's and the mark's position; these lemmas give      *)
(* BufferInvariant and that the stream implements Tape.                    *)
(*                                                                         *)
(* The theorems suppose that no block is empty: the stream then stands     *)
(* behind the last record of a block, which it takes for one.              *)
(***************************************************************************)
EXTENDS RewindableStream, FiniteSetTheorems, SequenceTheorems, WellFoundedInduction, TLAPS

\* The stream is in use: neither poisoned nor being poisoned.
Open == pc \in {"fetch", "ready", "aborted"}

\* The blocks of q hold the records from a to b, without a gap.
Run(q, a, b) ==
  /\ q = << >> => a = b
  /\ q # << >> => q[1].start = a /\ q[Len(q)].start + q[Len(q)].size = b
  /\ \A i \in 1 .. Len(q) - 1 : q[i + 1].start = q[i].start + q[i].size

\* The number of the first record that has not come yet.
Mid == IF blocks = << >> THEN progress ELSE Back(blocks).start + Back(blocks).size

\* What the stream relies on: no block is empty, and in the first phase, where
\* the vocabulary is read back, none is cut.
Whole(block) == block.size > 0 /\ (first => block.size = PerBlock)

\* The blocks on their way.
Flow ==
  /\ \A i \in 1 .. Len(out) : out[i] # None
  /\ \A i \in 1 .. Len(in) : in[i] = None => i = Len(in) /\ ended
  /\ \A i \in 1 .. Len(in) : in[i] # None => Whole(in[i])
  /\ \A i \in 1 .. Len(blocks) : Whole(blocks[i])
  /\ Run(out, received, progress) /\ Run(blocks, progress, Mid) /\ Run(Real(in), Mid, given)

\* Where the cursor is: on a record of a buffered block, or behind the last.
OnRecord ==
  /\ blocks_it < Len(blocks) /\ current # None
  /\ LET b == blocks[blocks_it + 1]
     IN  Base(b.mem) <= current /\ current < BlockEnd(b) /\ block_end = BlockEnd(b)

AtEnd ==
  /\ blocks_it = Len(blocks)
  /\ blocks # << >> => current = BlockEnd(Back(blocks))

\* The cursor and the mark, in each phase of the stream.
Places ==
  /\ pc = "fetch" => AtEnd /\ Len(blocks) < BlockCount /\ ~poisoned /\ ~hit_poison
  /\ pc = "aborted" => AtEnd /\ Len(blocks) = BlockCount
  /\ pc = "ready" => OnRecord \/ (poisoned /\ AtEnd)
  /\ Len(blocks) <= BlockCount
  /\ progress <= Pos
  /\ marked # None =>
       blocks # << >> /\ Base(blocks[1].mem) <= marked /\ marked < BlockEnd(blocks[1])

\* The inductive invariant.
IInv == TypeOK /\ (Open => Flow /\ Places)

-----------------------------------------------------------------------------
(* Numbers and sequences                                                   *)

\* A set of numbers has a least element.
LEMMA Least ==
  ASSUME NEW R, IsWellFoundedOn(R, Nat), NEW T, T \subseteq Nat, T # {}
  PROVE  \E x \in T : \A y \in T : ~ (<<y, x>> \in R)
BY WFMin

\* Induction, for a set of numbers.
LEMMA Induction ==
  ASSUME NEW S, 0 \in S, \A n \in Nat : n \in S => n + 1 \in S
  PROVE  Nat \subseteq S
<1> SUFFICES ASSUME NEW m \in Nat, m \notin S PROVE FALSE
  OBVIOUS
<1>1. PICK R : IsWellFoundedOn(R, Nat) /\ \A x, y \in Nat : <<x, y>> \in R <=> x < y
  <2>1. \A x, y \in Nat : <<x, y>> \in OpToRel(<, Nat) <=> x < y
    BY DEF OpToRel
  <2> QED
    BY <2>1, NatLessThanWellFounded
<1>2. PICK T : T = {n \in Nat : n \notin S}
  OBVIOUS
<1>3. T \subseteq Nat /\ T # {}
  BY <1>2
<1>4. \E x \in T : \A y \in T : ~(<<y, x>> \in R)
  BY <1>1, <1>3, Least
<1>5. PICK x \in T : \A y \in T : ~(<<y, x>> \in R)
  BY <1>4
<1>6. x \in Nat /\ x \notin S /\ x # 0
  BY <1>2
<1>7. x - 1 \in Nat /\ x - 1 < x /\ (x - 1) + 1 = x
  BY <1>6
<1>8. x - 1 \notin T
  BY <1>1, <1>5, <1>6, <1>7
<1> QED
  BY <1>2, <1>6, <1>7, <1>8

\* A sequence has its elements at the numbers up to its length.
LEMMA SeqFacts ==
  ASSUME NEW S, NEW s \in Seq(S)
  PROVE  Len(s) \in Nat /\ (s = << >> <=> Len(s) = 0) /\ \A i \in 1 .. Len(s) : s[i] \in S
OBVIOUS

\* What Append does.
LEMMA SeqAppend ==
  ASSUME NEW S, NEW s \in Seq(S), NEW x \in S
  PROVE  /\ Append(s, x) \in Seq(S) /\ Append(s, x) # << >> /\ Len(Append(s, x)) = Len(s) + 1
         /\ Append(s, x)[Len(s) + 1] = x
         /\ \A i \in 1 .. Len(s) : Append(s, x)[i] = s[i]
OBVIOUS

\* What Tail and Head do.
LEMMA SeqTail ==
  ASSUME NEW S, NEW s \in Seq(S), s # << >>
  PROVE  /\ Tail(s) \in Seq(S) /\ Len(s) \in Nat \ {0} /\ Len(Tail(s)) = Len(s) - 1
         /\ Head(s) = s[1] /\ s[1] \in S
         /\ \A i \in 1 .. Len(s) - 1 : Tail(s)[i] = s[i + 1]
OBVIOUS

\* The first n elements.
LEMMA SeqFirst ==
  ASSUME NEW S, NEW s \in Seq(S), NEW n \in 0 .. Len(s)
  PROVE  /\ SubSeq(s, 1, n) \in Seq(S) /\ Len(SubSeq(s, 1, n)) = n
         /\ \A i \in 1 .. n : SubSeq(s, 1, n)[i] = s[i]
<1>1. \A i \in 1 .. n : s[i] \in S
  BY SeqFacts
<1>2. 1 \in Int /\ n \in Int /\ (IF 1 <= n THEN n - 1 + 1 ELSE 0) = n
  BY SeqFacts
<1>3. /\ SubSeq(s, 1, n) \in Seq(S)
      /\ Len(SubSeq(s, 1, n)) = IF 1 <= n THEN n - 1 + 1 ELSE 0
      /\ \A i \in 1 .. n - 1 + 1 : SubSeq(s, 1, n)[i] = s[1 + i - 1]
  BY <1>1, <1>2, SubSeqProperties
<1>4. \A i \in 1 .. n : i \in 1 .. n - 1 + 1 /\ 1 + i - 1 = i
  BY <1>2
<1> QED
  BY <1>2, <1>3, <1>4

\* The elements behind the first n.
LEMMA SeqRest ==
  ASSUME NEW S, NEW s \in Seq(S), NEW n \in 0 .. Len(s)
  PROVE  LET r == SubSeq(s, n + 1, Len(s))
         IN  r \in Seq(S) /\ Len(r) = Len(s) - n /\ \A i \in 1 .. Len(s) - n : r[i] = s[n + i]
<1> DEFINE r == SubSeq(s, n + 1, Len(s))
<1>1. \A i \in n + 1 .. Len(s) : s[i] \in S
  BY SeqFacts
<1>2. n + 1 \in Int /\ Len(s) \in Int /\ (IF n + 1 <= Len(s) THEN Len(s) - (n + 1) + 1 ELSE 0) = Len(s) - n
  BY SeqFacts
<1>3. /\ r \in Seq(S)
      /\ Len(r) = IF n + 1 <= Len(s) THEN Len(s) - (n + 1) + 1 ELSE 0
      /\ \A i \in 1 .. Len(s) - (n + 1) + 1 : r[i] = s[(n + 1) + i - 1]
  BY <1>1, <1>2, SubSeqProperties
<1>4. \A i \in 1 .. Len(s) - n : i \in 1 .. Len(s) - (n + 1) + 1 /\ (n + 1) + i - 1 = n + i
  BY <1>2
<1> QED
  BY <1>2, <1>3, <1>4

-----------------------------------------------------------------------------
(* Blocks that follow each other                                           *)

\* Adding the block that comes next.
LEMMA RunAppend ==
  ASSUME NEW q \in Seq(Pieces), NEW a \in Nat, NEW b \in Nat, Run(q, a, b),
         NEW x \in Pieces, x.start = b, NEW r, r = Append(q, x)
  PROVE  Run(r, a, b + x.size)
<1>1. /\ Len(q) \in Nat /\ r # << >> /\ Len(r) = Len(q) + 1
      /\ r[Len(q) + 1] = x /\ \A i \in 1 .. Len(q) : r[i] = q[i]
  BY SeqAppend, SeqFacts
<1>2. q = << >> <=> Len(q) = 0
  BY SeqFacts
<1>3. r[1].start = a
  <2>1. CASE q = << >>
    BY <1>1, <1>2, <2>1 DEF Run
  <2>2. CASE q # << >>
    <3>1. 1 \in 1 .. Len(q)
      BY <1>1, <1>2, <2>2
    <3> QED
      BY <1>1, <2>2, <3>1 DEF Run
  <2> QED
    BY <2>1, <2>2
<1>4. ASSUME NEW i \in 1 .. Len(r) - 1
      PROVE  r[i + 1].start = r[i].start + r[i].size
  <2>1. CASE i = Len(q)
    <3>1. q # << >> /\ r[i] = q[Len(q)] /\ r[i + 1] = x
      BY <1>1, <1>2, <2>1
    <3> QED
      BY <3>1 DEF Run
  <2>2. CASE i # Len(q)
    <3>1. i \in 1 .. Len(q) - 1 /\ i \in 1 .. Len(q) /\ i + 1 \in 1 .. Len(q)
      BY <1>1, <2>2
    <3> QED
      BY <1>1, <3>1 DEF Run
  <2> QED
    BY <2>1, <2>2
<1>5. r[Len(r)].start + r[Len(r)].size = b + x.size
  BY <1>1
<1> QED
  BY <1>1, <1>3, <1>4, <1>5 DEF Run

\* Taking the first block.
LEMMA RunTail ==
  ASSUME NEW q \in Seq(Pieces), NEW a \in Nat, NEW b \in Nat, Run(q, a, b), q # << >>,
         NEW r, r = Tail(q)
  PROVE  q[1].start = a /\ Run(r, a + q[1].size, b)
<1>1. /\ r \in Seq(Pieces) /\ Len(q) \in Nat \ {0} /\ Len(r) = Len(q) - 1
      /\ \A i \in 1 .. Len(q) - 1 : r[i] = q[i + 1]
  BY SeqTail
<1>2. q[1].start = a /\ q[Len(q)].start + q[Len(q)].size = b
  BY DEF Run
<1>3. r = << >> <=> Len(r) = 0
  BY <1>1, SeqFacts
<1>4. r = << >> => a + q[1].size = b
  BY <1>1, <1>2, <1>3
<1>5. ASSUME r # << >>
      PROVE  r[1].start = a + q[1].size /\ r[Len(r)].start + r[Len(r)].size = b
  <2>1. 1 \in 1 .. Len(q) - 1 /\ Len(r) \in 1 .. Len(q) - 1 /\ Len(r) + 1 = Len(q)
    BY <1>1, <1>3, <1>5
  <2>2. r[1] = q[1 + 1] /\ r[Len(r)] = q[Len(q)]
    BY <1>1, <2>1
  <2>3. q[1 + 1].start = q[1].start + q[1].size
    BY <2>1 DEF Run
  <2> QED
    BY <1>2, <2>2, <2>3
<1>6. ASSUME NEW i \in 1 .. Len(r) - 1
      PROVE  r[i + 1].start = r[i].start + r[i].size
  <2>1. i \in 1 .. Len(q) - 1 /\ i + 1 \in 1 .. Len(q) - 1
    BY <1>1
  <2>2. r[i] = q[i + 1] /\ r[i + 1] = q[(i + 1) + 1]
    BY <1>1, <2>1
  <2> QED
    BY <2>1, <2>2 DEF Run
<1> QED
  BY <1>2, <1>4, <1>5, <1>6 DEF Run

\* Two runs of blocks of which one begins where the other ends.
LEMMA RunConcat ==
  ASSUME NEW p \in Seq(Pieces), NEW q \in Seq(Pieces), NEW a \in Nat, NEW b \in Nat, NEW c \in Nat,
         Run(p, a, b), Run(q, b, c), NEW r, r = p \o q
  PROVE  r \in Seq(Pieces) /\ Run(r, a, c)
<1>1. /\ r \in Seq(Pieces) /\ Len(r) = Len(p) + Len(q)
      /\ \A i \in 1 .. Len(p) + Len(q) : r[i] = IF i <= Len(p) THEN p[i] ELSE q[i - Len(p)]
  BY ConcatProperties
<1>2. /\ Len(p) \in Nat /\ (p = << >> <=> Len(p) = 0)
      /\ Len(q) \in Nat /\ (q = << >> <=> Len(q) = 0) /\ (r = << >> <=> Len(r) = 0)
  BY <1>1, SeqFacts
<1>3. \A i \in 1 .. Len(p) : r[i] = p[i]
  BY <1>1, <1>2
<1>4. \A i \in 1 .. Len(q) : r[Len(p) + i] = q[i]
  <2> SUFFICES ASSUME NEW i \in 1 .. Len(q) PROVE r[Len(p) + i] = q[i]
    OBVIOUS
  <2>1. Len(p) + i \in 1 .. Len(p) + Len(q) /\ ~(Len(p) + i <= Len(p)) /\ (Len(p) + i) - Len(p) = i
    BY <1>2
  <2> QED
    BY <1>1, <2>1
<1>5. r = << >> => a = c
  BY <1>1, <1>2 DEF Run
<1>6. ASSUME r # << >>
      PROVE  r[1].start = a /\ r[Len(r)].start + r[Len(r)].size = c
  <2>1. r[1].start = a
    <3>1. CASE p # << >>
      BY <1>2, <1>3, <3>1 DEF Run
    <3>2. CASE p = << >>
      <4>1. q # << >> /\ 1 \in 1 .. Len(q) /\ Len(p) + 1 = 1 /\ a = b
        BY <1>1, <1>2, <1>6, <3>2 DEF Run
      <4> QED
        BY <1>4, <4>1 DEF Run
    <3> QED
      BY <3>1, <3>2
  <2>2. r[Len(r)].start + r[Len(r)].size = c
    <3>1. CASE q # << >>
      <4>1. Len(q) \in 1 .. Len(q) /\ Len(p) + Len(q) = Len(r)
        BY <1>1, <1>2, <3>1
      <4> QED
        BY <1>4, <3>1, <4>1 DEF Run
    <3>2. CASE q = << >>
      <4>1. p # << >> /\ Len(p) \in 1 .. Len(p) /\ Len(p) = Len(r) /\ b = c
        BY <1>1, <1>2, <1>6, <3>2 DEF Run
      <4> QED
        BY <1>3, <4>1 DEF Run
    <3> QED
      BY <3>1, <3>2
  <2> QED
    BY <2>1, <2>2
<1>7. ASSUME NEW i \in 1 .. Len(r) - 1
      PROVE  r[i + 1].start = r[i].start + r[i].size
  <2>1. CASE i < Len(p)
    <3>1. i \in 1 .. Len(p) - 1 /\ i \in 1 .. Len(p) /\ i + 1 \in 1 .. Len(p)
      BY <1>2, <2>1
    <3> QED
      BY <1>3, <3>1 DEF Run
  <2>2. CASE i = Len(p)
    <3>1. p # << >> /\ q # << >> /\ i \in 1 .. Len(p) /\ 1 \in 1 .. Len(q)
      BY <1>1, <1>2, <2>2
    <3>2. r[i] = p[Len(p)] /\ r[i + 1] = q[1]
      BY <1>3, <1>4, <2>2, <3>1
    <3> QED
      BY <3>1, <3>2 DEF Run
  <2>3. CASE i > Len(p)
    <3>1. i - Len(p) \in 1 .. Len(q) - 1 /\ i - Len(p) \in 1 .. Len(q) /\ (i - Len(p)) + 1 \in 1 .. Len(q)
          /\ Len(p) + (i - Len(p)) = i /\ Len(p) + ((i - Len(p)) + 1) = i + 1
      BY <1>1, <1>2, <2>3
    <3>2. r[i] = q[i - Len(p)] /\ r[i + 1] = q[(i - Len(p)) + 1]
      BY <1>4, <3>1
    <3> QED
      BY <3>1, <3>2 DEF Run
  <2>4. i < Len(p) \/ i = Len(p) \/ i > Len(p)
    BY <1>2
  <2> QED
    BY ONLY <2>1, <2>2, <2>3, <2>4
<1> QED
  BY <1>1, <1>5, <1>6, <1>7 DEF Run

\* The block after the first n begins where they end.
LEMMA RunNext ==
  ASSUME NEW q \in Seq(Pieces), NEW a \in Nat, NEW b \in Nat, Run(q, a, b), NEW n \in 0 .. Len(q),
         NEW m, n = 0 => m = a, n # 0 => m = q[n].start + q[n].size
  PROVE  n < Len(q) => q[n + 1].start = m
<1>1. Len(q) \in Nat /\ (q = << >> <=> Len(q) = 0)
  BY SeqFacts
<1> SUFFICES ASSUME n < Len(q) PROVE q[n + 1].start = m
  OBVIOUS
<1>2. CASE n = 0
  BY <1>1, <1>2 DEF Run
<1>3. CASE n # 0
  <2>1. n \in 1 .. Len(q) - 1
    BY <1>1, <1>3
  <2> QED
    BY <1>3, <2>1 DEF Run
<1> QED
  BY <1>2, <1>3

\* The first n blocks.
LEMMA RunFirst ==
  ASSUME NEW q \in Seq(Pieces), NEW a \in Nat, NEW b \in Nat, Run(q, a, b), NEW n \in 0 .. Len(q),
         NEW m, n = 0 => m = a, n # 0 => m = q[n].start + q[n].size, NEW p, p = SubSeq(q, 1, n)
  PROVE  p \in Seq(Pieces) /\ Run(p, a, m)
<1>1. p \in Seq(Pieces) /\ Len(p) = n /\ \A i \in 1 .. n : p[i] = q[i]
  BY SeqFirst
<1>2. Len(q) \in Nat /\ (q = << >> <=> Len(q) = 0) /\ (p = << >> <=> n = 0)
  <2>1. Len(q) \in Nat /\ (q = << >> <=> Len(q) = 0) /\ (p = << >> <=> Len(p) = 0)
    BY <1>1, SeqFacts
  <2>2. Len(p) = n
    BY <1>1
  <2> QED
    BY ONLY <2>1, <2>2
<1>3. p # << >> => p[1].start = a /\ p[Len(p)].start + p[Len(p)].size = m
  <2> SUFFICES ASSUME p # << >>
               PROVE  p[1].start = a /\ p[Len(p)].start + p[Len(p)].size = m
    OBVIOUS
  <2>1. n \in 1 .. n /\ 1 \in 1 .. n /\ q # << >>
    BY <1>2
  <2>2. p[1] = q[1] /\ p[n] = q[n]
    BY <1>1, <2>1
  <2> QED
    BY <1>1, <1>2, <2>1, <2>2 DEF Run
<1>4. ASSUME NEW i \in 1 .. Len(p) - 1
      PROVE  p[i + 1].start = p[i].start + p[i].size
  <2>1. i \in 1 .. Len(q) - 1 /\ i \in 1 .. n /\ i + 1 \in 1 .. n
    <3>1. i \in 1 .. n - 1
      BY <1>1
    <3> QED
      BY <1>2, <3>1
  <2> QED
    BY <1>1, <2>1 DEF Run
<1> QED
  BY <1>1, <1>2, <1>3, <1>4 DEF Run

\* The others.
LEMMA RunRest ==
  ASSUME NEW q \in Seq(Pieces), NEW a \in Nat, NEW b \in Nat, Run(q, a, b), NEW n \in 0 .. Len(q),
         NEW m, n = 0 => m = a, n # 0 => m = q[n].start + q[n].size,
         NEW k, k = n + 1, NEW r, r = SubSeq(q, k, Len(q))
  PROVE  r \in Seq(Pieces) /\ Run(r, m, b)
<1>1. r \in Seq(Pieces) /\ Len(r) = Len(q) - n /\ \A i \in 1 .. Len(q) - n : r[i] = q[n + i]
  BY SeqRest
<1>2. Len(q) \in Nat /\ (q = << >> <=> Len(q) = 0) /\ (r = << >> <=> Len(q) = n)
  <2>1. Len(q) \in Nat /\ (q = << >> <=> Len(q) = 0) /\ (r = << >> <=> Len(r) = 0)
    BY <1>1, SeqFacts
  <2>2. Len(r) = Len(q) - n
    BY <1>1
  <2>3. Len(q) - n = 0 <=> Len(q) = n
    BY <2>1
  <2> QED
    BY ONLY <2>1, <2>2, <2>3
<1>3. n < Len(q) => q[n + 1].start = m
  BY RunNext
<1>4. r = << >> => m = b
  <2> SUFFICES ASSUME r = << >> PROVE m = b
    OBVIOUS
  <2>1. Len(q) = n
    BY <1>2
  <2>2. CASE n = 0
    BY <1>2, <2>1, <2>2 DEF Run
  <2>3. CASE n # 0
    BY <1>2, <2>1, <2>3 DEF Run
  <2> QED
    BY <2>2, <2>3
<1>5. ASSUME r # << >>
      PROVE  r[1].start = m /\ r[Len(r)].start + r[Len(r)].size = b
  <2>1. n < Len(q) /\ 1 \in 1 .. Len(q) - n /\ Len(q) - n \in 1 .. Len(q) - n /\ n + (Len(q) - n) = Len(q)
        /\ q # << >>
    BY <1>2, <1>5
  <2>2. r[1] = q[n + 1] /\ r[Len(r)] = q[Len(q)]
    BY <1>1, <2>1
  <2> QED
    BY <1>3, <2>1, <2>2 DEF Run
<1>6. ASSUME NEW i \in 1 .. Len(r) - 1
      PROVE  r[i + 1].start = r[i].start + r[i].size
  <2>1. n + i \in 1 .. Len(q) - 1 /\ i \in 1 .. Len(q) - n /\ i + 1 \in 1 .. Len(q) - n /\ n + (i + 1) = (n + i) + 1
    BY <1>1, <1>2
  <2>2. r[i] = q[n + i] /\ r[i + 1] = q[(n + i) + 1]
    BY <1>1, <2>1
  <2> QED
    BY <2>1, <2>2 DEF Run
<1> QED
  BY <1>1, <1>4, <1>5, <1>6 DEF Run

-----------------------------------------------------------------------------
(* The records in blocks that follow each other                            *)

\* The records of the first n blocks of q.
First(q, n) == {record \in (1 .. n) \X (1 .. PerBlock) : record[2] <= q[record[1]].size}

\* The records of one block are as many as its size.
LEMMA BlockRecords ==
  ASSUME NEW n, NEW size \in 0 .. PerBlock
  PROVE  IsFiniteSet({n} \X (1 .. size)) /\ Cardinality({n} \X (1 .. size)) = size
<1>1. size \in Int /\ (IF 1 > size THEN 0 ELSE size - 1 + 1) = size
  BY SizesAssumption
<1>2. IsFiniteSet(1 .. size) /\ Cardinality(1 .. size) = size
  BY <1>1, FS_Interval
<1> DEFINE f == [j \in 1 .. size |-> <<n, j>>]
<1>3. f \in Bijection(1 .. size, {n} \X (1 .. size))
  <2>1. f \in [1 .. size -> {n} \X (1 .. size)]
    OBVIOUS
  <2>2. \A i, j \in 1 .. size : f[i] = f[j] => i = j
    OBVIOUS
  <2>3. ASSUME NEW t \in {n} \X (1 .. size)
        PROVE  \E j \in 1 .. size : f[j] = t
    <3>1. PICK j \in 1 .. size : t = <<n, j>>
      OBVIOUS
    <3> QED
      BY <3>1
  <2>4. f \in Injection(1 .. size, {n} \X (1 .. size))
    <3> HIDE DEF f
    <3> QED
      BY <2>1, <2>2 DEF Injection, IsInjective
  <2>5. f \in Surjection(1 .. size, {n} \X (1 .. size))
    <3> HIDE DEF f
    <3> QED
      BY <2>1, <2>3 DEF Surjection
  <2> QED
    BY <2>4, <2>5 DEF Bijection
<1>4. ExistsBijection(1 .. size, {n} \X (1 .. size))
  BY <1>3 DEF ExistsBijection
<1> QED
  BY <1>2, <1>4, FS_Bijection

\* The records of one more block.
LEMMA OneMore ==
  ASSUME NEW q \in Seq(Pieces), NEW n \in 0 .. Len(q) - 1, IsFiniteSet(First(q, n))
  PROVE  /\ IsFiniteSet(First(q, n + 1))
         /\ Cardinality(First(q, n + 1)) = Cardinality(First(q, n)) + q[n + 1].size
<1> DEFINE new == {n + 1} \X (1 .. q[n + 1].size)
<1>1. Len(q) \in Nat /\ n + 1 \in 1 .. Len(q)
  BY SeqFacts
<1>2. q[n + 1].size \in 0 .. PerBlock /\ PerBlock \in Nat
  <2>1. q[n + 1] \in Pieces
    BY <1>1, SeqFacts
  <2> QED
    BY <2>1, SizesAssumption DEF Pieces
<1>3. IsFiniteSet(new) /\ Cardinality(new) = q[n + 1].size
  BY <1>2, BlockRecords
<1>4. First(q, n + 1) = First(q, n) \cup new
  <2> DEFINE P(record) == record[2] <= q[record[1]].size
             A == (1 .. n) \X (1 .. PerBlock)
             B == {n + 1} \X (1 .. PerBlock)
  <2>1. (1 .. n + 1) \X (1 .. PerBlock) = A \cup B
    <3>1. 1 .. n + 1 = (1 .. n) \cup {n + 1}
      BY <1>1
    <3> QED
      BY <3>1
  <2>2. {record \in B : P(record)} = new
    BY <1>2
  <2>3. First(q, n + 1) = {record \in A \cup B : P(record)} /\ First(q, n) = {record \in A : P(record)}
    BY <2>1 DEF First
  <2> HIDE DEF A, B, P, new
  <2> QED
    BY ONLY <2>2, <2>3
<1>5. First(q, n) \cap new = {}
  <2>1. \A record \in First(q, n) : record[1] \in 1 .. n
    BY DEF First
  <2>2. \A record \in new : record[1] = n + 1
    OBVIOUS
  <2>3. n + 1 \notin 1 .. n
    BY <1>1
  <2> HIDE DEF new
  <2> QED
    BY ONLY <2>1, <2>2, <2>3
<1> HIDE DEF new
<1>6. Cardinality(First(q, n)) \in Nat
  BY FS_CardinalityType
<1>7. Cardinality(First(q, n) \cap new) = 0
  BY <1>5, FS_EmptySet
<1>8. /\ IsFiniteSet(First(q, n) \cup new)
      /\ Cardinality(First(q, n) \cup new) =
           Cardinality(First(q, n)) + Cardinality(new) - Cardinality(First(q, n) \cap new)
  BY <1>3, FS_Union
<1>9. q[n + 1].size \in Nat
  BY <1>2
<1> DEFINE old == First(q, n)
           size == q[n + 1].size
<1> HIDE DEF old, size
<1> QED
  <2>1. /\ IsFiniteSet(old \cup new) /\ Cardinality(old) \in Nat /\ size \in Nat
        /\ Cardinality(old \cup new) = Cardinality(old) + Cardinality(new) - 0
        /\ Cardinality(new) = size
    BY <1>3, <1>6, <1>7, <1>8, <1>9 DEF old, size
  <2>2. Cardinality(old \cup new) = Cardinality(old) + size
    BY ONLY <2>1
  <2> QED
    BY ONLY <1>4, <2>1, <2>2 DEF old, size

\* No blocks hold no records.
LEMMA NoRecords ==
  ASSUME NEW q
  PROVE  IsFiniteSet(First(q, 0)) /\ Cardinality(First(q, 0)) = 0
<1>1. First(q, 0) = {}
  <2>1. ASSUME NEW record \in First(q, 0) PROVE FALSE
    <3>1. record \in (1 .. 0) \X (1 .. PerBlock)
      BY <2>1 DEF First
    <3>2. 1 .. 0 = {}
      OBVIOUS
    <3> QED
      BY <3>1, <3>2
  <2> QED
    BY <2>1
<1> QED
  BY <1>1, FS_EmptySet

\* Blocks that hold the records from a to b hold b - a records.
LEMMA RunRecords ==
  ASSUME NEW q \in Seq(Pieces), NEW a \in Nat, NEW b \in Nat, Run(q, a, b)
  PROVE  a <= b /\ Records(q) = b - a
<1> DEFINE Until(n) == IF n = 0 THEN a ELSE q[n].start + q[n].size
           Good(n) == n <= Len(q) =>
             IsFiniteSet(First(q, n)) /\ a + Cardinality(First(q, n)) = Until(n)
           S == {n \in Nat : Good(n)}
<1>1. Len(q) \in Nat /\ (q = << >> <=> Len(q) = 0) /\ \A i \in 1 .. Len(q) : q[i] \in Pieces
  BY SeqFacts
<1>2. 0 \in S
  BY NoRecords
<1>3. ASSUME NEW n \in Nat, n \in S
      PROVE  n + 1 \in S
  <2> SUFFICES ASSUME n + 1 <= Len(q)
               PROVE  IsFiniteSet(First(q, n + 1)) /\ a + Cardinality(First(q, n + 1)) = Until(n + 1)
    OBVIOUS
  <2>1. n \in 0 .. Len(q) - 1 /\ n <= Len(q) /\ n + 1 \in 1 .. Len(q)
    BY <1>1
  <2>2. IsFiniteSet(First(q, n)) /\ a + Cardinality(First(q, n)) = Until(n)
    BY <1>3, <2>1
  <2>3. /\ IsFiniteSet(First(q, n + 1))
        /\ Cardinality(First(q, n + 1)) = Cardinality(First(q, n)) + q[n + 1].size
    BY <2>1, <2>2, OneMore
  <2>4. q[n + 1].start = Until(n)
    <3>1. CASE n = 0
      BY <1>1, <2>1, <3>1 DEF Run
    <3>2. CASE n # 0
      <4>1. n \in 1 .. Len(q) - 1
        BY <2>1, <3>2
      <4> QED
        BY <3>2, <4>1 DEF Run
    <3> QED
      BY <3>1, <3>2
  <2>5. Until(n + 1) = q[n + 1].start + q[n + 1].size
    OBVIOUS
  <2>6. Cardinality(First(q, n)) \in Nat /\ q[n + 1].size \in Nat /\ q[n + 1].start \in Nat
    <3>1. Cardinality(First(q, n)) \in Nat
      BY <2>2, FS_CardinalityType
    <3>2. q[n + 1] \in Pieces
      BY <2>1, SeqFacts
    <3>3. \A x \in Pieces : x.size \in Nat /\ x.start \in Nat
      BY SizesAssumption DEF Pieces
    <3> QED
      BY <3>1, <3>2, <3>3
  <2> HIDE DEF Until
  <2> QED
    BY ONLY <2>2, <2>3, <2>4, <2>5, <2>6
<1>4. Nat \subseteq S
  <2> HIDE DEF S
  <2> QED
    BY <1>2, <1>3, Induction
<1>5. IsFiniteSet(First(q, Len(q))) /\ a + Cardinality(First(q, Len(q))) = Until(Len(q))
  BY <1>1, <1>4
<1>6. Until(Len(q)) = b
  BY <1>1 DEF Run
<1>7. Records(q) = Cardinality(First(q, Len(q)))
  BY DEF Records, First
<1>8. Cardinality(First(q, Len(q))) \in Nat
  BY <1>5, FS_CardinalityType
<1> HIDE DEF Until
<1> QED
  BY <1>5, <1>6, <1>7, <1>8

-----------------------------------------------------------------------------
(* The queue that may end in poison, and numbers                           *)

\* Poison is no block.
LEMMA NoPiece == None \notin Pieces /\ None \notin Nat /\ None \notin Addresses
<1>1. 0 .. BlockCount - 1 \subseteq Nat /\ 0 .. PerBlock \subseteq Nat /\ Addresses \subseteq Int
  BY SizesAssumption, CountAssumption DEF Addresses
<1>2. Pieces \subseteq [mem : Nat, size : Nat, start : Nat]
  BY <1>1 DEF Pieces
<1>3. None \notin Int /\ Nat \subseteq Int /\ None \notin [mem : Nat, size : Nat, start : Nat]
  BY NoneAssumption
<1> QED
  BY ONLY <1>1, <1>2, <1>3, Zenon

\* At most the last of a queue is poison.
PoisonIsLast(q) == \A i \in 1 .. Len(q) : q[i] = None => i = Len(q)

\* A sequence over a set is one over a larger set ...
LEMMA SeqWiden ==
  ASSUME NEW S, NEW T, S \subseteq T, NEW q \in Seq(S)
  PROVE  q \in Seq(T)
OBVIOUS

\* ... and one over whatever set has its elements.
LEMMA SeqNarrow ==
  ASSUME NEW S, NEW T, NEW q \in Seq(S), \A i \in 1 .. Len(q) : q[i] \in T
  PROVE  q \in Seq(T)
BY SeqDef

\* The blocks of a queue.
LEMMA RealIsBlocks ==
  ASSUME NEW q \in Seq(Pieces \cup {None}), PoisonIsLast(q)
  PROVE  /\ Real(q) \in Seq(Pieces)
         /\ Len(Real(q)) = IF q # << >> /\ q[Len(q)] = None THEN Len(q) - 1 ELSE Len(q)
         /\ \A i \in 1 .. Len(Real(q)) : i \in 1 .. Len(q) /\ q[i] # None /\ Real(q)[i] = q[i]
<1>1. Len(q) \in Nat /\ (q = << >> <=> Len(q) = 0) /\ \A i \in 1 .. Len(q) : q[i] \in Pieces \cup {None}
  BY SeqFacts
<1>2. CASE q # << >> /\ q[Len(q)] = None
  <2>1. Len(q) - 1 \in 0 .. Len(q) /\ Real(q) = SubSeq(q, 1, Len(q) - 1)
    BY <1>1, <1>2 DEF Real, Back
  <2>2. /\ Real(q) \in Seq(Pieces \cup {None}) /\ Len(Real(q)) = Len(q) - 1
        /\ \A i \in 1 .. Len(q) - 1 : Real(q)[i] = q[i]
    <3>1. PICK n : n = Len(q) - 1
      OBVIOUS
    <3>2. n \in 0 .. Len(q) /\ Real(q) = SubSeq(q, 1, n)
      BY <2>1, <3>1
    <3>3. /\ Real(q) \in Seq(Pieces \cup {None}) /\ Len(Real(q)) = n
          /\ \A i \in 1 .. n : Real(q)[i] = q[i]
      BY <3>2, SeqFirst
    <3> QED
      BY ONLY <3>1, <3>3
  <2>3. \A i \in 1 .. Len(q) - 1 : q[i] # None /\ i \in 1 .. Len(q)
    BY <1>1 DEF PoisonIsLast
  <2>4. \A i \in 1 .. Len(Real(q)) : Real(q)[i] \in Pieces
    BY <1>1, <2>2, <2>3
  <2>5. Real(q) \in Seq(Pieces)
    BY <2>2, <2>4, SeqNarrow
  <2> QED
    BY <1>2, <2>2, <2>3, <2>5
<1>3. CASE ~(q # << >> /\ q[Len(q)] = None)
  <2>1. Real(q) = q
    BY <1>3 DEF Real, Back
  <2>2. ASSUME NEW i \in 1 .. Len(q)
        PROVE  q[i] # None /\ q[i] \in Pieces
    <3>1. q # << >> /\ q[Len(q)] # None
      BY <1>1, <1>3
    <3>2. q[i] # None
      BY <1>1, <3>1 DEF PoisonIsLast
    <3> QED
      BY <1>1, <3>2
  <2>3. q \in Seq(Pieces)
    BY <2>2, SeqNarrow
  <2> QED
    BY <1>3, <2>1, <2>2, <2>3
<1> QED
  BY <1>2, <1>3

\* Taking the first, which is a block.
LEMMA RealTail ==
  ASSUME NEW q \in Seq(Pieces \cup {None}), PoisonIsLast(q), q # << >>, Head(q) # None,
         NEW r, r = Tail(q)
  PROVE  /\ r \in Seq(Pieces \cup {None}) /\ PoisonIsLast(r)
         /\ Real(q) # << >> /\ Real(q)[1] = Head(q) /\ Real(r) = Tail(Real(q))
         /\ \A i \in 1 .. Len(r) : i + 1 \in 1 .. Len(q) /\ r[i] = q[i + 1]
<1>1. /\ r \in Seq(Pieces \cup {None}) /\ Len(q) \in Nat \ {0} /\ Len(r) = Len(q) - 1
      /\ Head(q) = q[1] /\ \A i \in 1 .. Len(q) - 1 : r[i] = q[i + 1]
  BY SeqTail
<1>2. \A i \in 1 .. Len(r) : i + 1 \in 1 .. Len(q) /\ r[i] = q[i + 1]
  BY <1>1
<1>3. PoisonIsLast(r)
  <2> SUFFICES ASSUME NEW i \in 1 .. Len(r), r[i] = None PROVE i = Len(r)
    BY DEF PoisonIsLast
  <2>1. i + 1 = Len(q)
    BY <1>2 DEF PoisonIsLast
  <2>2. i \in Int /\ Len(q) \in Int /\ Len(r) = Len(q) - 1
    BY <1>1
  <2> QED
    BY ONLY <2>1, <2>2
<1>4. /\ Real(q) \in Seq(Pieces)
      /\ Len(Real(q)) = IF q # << >> /\ q[Len(q)] = None THEN Len(q) - 1 ELSE Len(q)
      /\ \A i \in 1 .. Len(Real(q)) : i \in 1 .. Len(q) /\ q[i] # None /\ Real(q)[i] = q[i]
  BY RealIsBlocks
<1>5. /\ Real(r) \in Seq(Pieces)
      /\ Len(Real(r)) = IF r # << >> /\ r[Len(r)] = None THEN Len(r) - 1 ELSE Len(r)
      /\ \A i \in 1 .. Len(Real(r)) : i \in 1 .. Len(r) /\ r[i] # None /\ Real(r)[i] = r[i]
  BY <1>1, <1>3, RealIsBlocks
<1>6. (r = << >> <=> Len(r) = 0) /\ (Real(q) = << >> <=> Len(Real(q)) = 0)
  BY <1>1, <1>4, SeqFacts
<1>7. Len(q) = 1 => q[Len(q)] # None
  BY <1>1
<1>8. Len(q) # 1 => r # << >> /\ r[Len(r)] = q[Len(q)]
  <2> SUFFICES ASSUME Len(q) # 1 PROVE r # << >> /\ r[Len(r)] = q[Len(q)]
    OBVIOUS
  <2>1. Len(r) \in 1 .. Len(r) /\ Len(r) + 1 = Len(q) /\ Len(r) # 0
    BY <1>1
  <2> QED
    BY <1>2, <1>6, <2>1
<1>9. Len(Real(q)) = Len(Real(r)) + 1 /\ Len(Real(r)) \in Nat
  <2>1. Len(q) \in Nat \ {0} /\ Len(r) = Len(q) - 1 /\ Len(Real(r)) \in Nat
    BY <1>1, <1>5, SeqFacts
  <2>2. CASE q[Len(q)] = None
    <3>1. Len(q) # 1 /\ r # << >> /\ r[Len(r)] = None
      BY <1>7, <1>8, <2>2
    <3>2. Len(Real(q)) = Len(q) - 1 /\ Len(Real(r)) = Len(r) - 1
      BY <1>4, <1>5, <2>2, <3>1
    <3> QED
      BY ONLY <2>1, <3>2
  <2>3. CASE q[Len(q)] # None
    <3>1. r # << >> => r[Len(r)] # None
      <4>1. r # << >> => Len(q) # 1
        BY <1>6, <2>1
      <4> QED
        BY <1>8, <2>3, <4>1
    <3>2. Len(Real(q)) = Len(q) /\ Len(Real(r)) = Len(r)
      BY <1>4, <1>5, <2>3, <3>1
    <3> QED
      BY ONLY <2>1, <3>2
  <2> QED
    BY <2>2, <2>3
<1>10. Real(q) # << >> /\ Real(q)[1] = Head(q)
  <2>1. 1 \in 1 .. Len(Real(q)) /\ Len(Real(q)) # 0
    BY <1>9
  <2> QED
    BY <1>1, <1>4, <1>6, <2>1
<1>11. /\ Tail(Real(q)) \in Seq(Pieces) /\ Len(Tail(Real(q))) = Len(Real(q)) - 1
       /\ \A i \in 1 .. Len(Real(q)) - 1 : Tail(Real(q))[i] = Real(q)[i + 1]
  BY <1>4, <1>10, SeqTail
<1>12. Len(Tail(Real(q))) = Len(Real(r))
  BY <1>9, <1>11
<1>13. ASSUME NEW i \in 1 .. Len(Real(r))
       PROVE  Tail(Real(q))[i] = Real(r)[i]
  <2>1. i \in 1 .. Len(Real(q)) - 1 /\ i + 1 \in 1 .. Len(Real(q)) /\ i \in 1 .. Len(r)
    BY <1>5, <1>9
  <2> QED
    BY <1>2, <1>4, <1>5, <1>11, <2>1
<1>14. Tail(Real(q)) = Real(r)
  BY <1>5, <1>11, <1>12, <1>13, SeqEqual
<1> QED
  BY <1>1, <1>2, <1>3, <1>10, <1>14

\* No element of a queue is poison.
NoPoison(q) == \A i \in 1 .. Len(q) : q[i] # None

\* Adding a block, or poison, to a queue that holds no poison.
LEMMA RealAppend ==
  ASSUME NEW q \in Seq(Pieces \cup {None}), NoPoison(q),
         NEW x \in Pieces \cup {None}, NEW r, r = Append(q, x)
  PROVE  /\ q \in Seq(Pieces) /\ Real(q) = q
         /\ r \in Seq(Pieces \cup {None}) /\ PoisonIsLast(r)
         /\ x = None => Real(r) = q
         /\ x # None => Real(r) = r
         /\ Len(r) = Len(q) + 1 /\ r[Len(q) + 1] = x /\ \A i \in 1 .. Len(q) : r[i] = q[i]
<1>1. /\ r \in Seq(Pieces \cup {None}) /\ r # << >> /\ Len(r) = Len(q) + 1
      /\ r[Len(q) + 1] = x /\ \A i \in 1 .. Len(q) : r[i] = q[i]
  BY SeqAppend
<1>2. Len(q) \in Nat /\ (q = << >> <=> Len(q) = 0) /\ \A i \in 1 .. Len(q) : q[i] \in Pieces \cup {None}
  BY SeqFacts
<1>3. q \in Seq(Pieces)
  <2>1. \A i \in 1 .. Len(q) : q[i] \in Pieces
    BY <1>2 DEF NoPoison
  <2> QED
    BY <2>1, SeqNarrow
<1>4. Real(q) = q
  <2>1. q # << >> => Len(q) \in 1 .. Len(q)
    BY <1>2
  <2> QED
    BY <2>1 DEF Real, Back, NoPoison
<1>5. PoisonIsLast(r)
  BY <1>1, <1>2 DEF PoisonIsLast, NoPoison
<1>6. Real(r) = IF x = None THEN q ELSE r
  <2>1. r[Len(r)] = x
    BY <1>1
  <2>2. CASE x # None
    BY <1>1, <2>1, <2>2 DEF Real, Back
  <2>3. CASE x = None
    <3>1. Real(r) = SubSeq(r, 1, Len(r) - 1) /\ Len(r) - 1 = Len(q) /\ Len(q) \in 0 .. Len(r)
      BY <1>1, <1>2, <2>1, <2>3 DEF Real, Back
    <3>2. /\ Real(r) \in Seq(Pieces \cup {None}) /\ Len(Real(r)) = Len(q)
          /\ \A i \in 1 .. Len(q) : Real(r)[i] = r[i]
      BY <1>1, <3>1, SeqFirst
    <3>3. \A i \in 1 .. Len(q) : Real(r)[i] = q[i]
      BY <1>1, <3>2
    <3>4. Real(r) = q
      BY <3>2, <3>3, SeqEqual
    <3> QED
      BY <2>3, <3>4
  <2> QED
    BY <2>2, <2>3
<1> QED
  BY <1>1, <1>3, <1>4, <1>5, <1>6

-----------------------------------------------------------------------------
(* Addresses and positions                                                 *)

\* The addresses of a block's records, and the one behind them.
LEMMA BlockAddresses ==
  ASSUME NEW b \in Pieces
  PROVE  /\ b.mem \in Nat /\ b.size \in Nat /\ b.size <= PerBlock /\ b.start \in Nat
         /\ Base(b.mem) \in Nat /\ BlockEnd(b) = Base(b.mem) + b.size
         /\ \A n \in 0 .. PerBlock : Base(b.mem) + n \in Addresses
         /\ Base(b.mem) \in Addresses /\ BlockEnd(b) \in Addresses
<1>1. b.mem \in 0 .. BlockCount - 1 /\ b.size \in 0 .. PerBlock /\ b.start \in Nat
  BY DEF Pieces
<1>2. BlockCount \in Nat /\ PerBlock \in Nat
  BY CountAssumption, SizesAssumption
<1>3. b.mem \in Nat /\ b.mem + 1 <= BlockCount
  BY <1>1, <1>2
<1>4. b.mem * PerBlock \in Nat
  BY <1>2, <1>3
<1>5. (b.mem + 1) * PerBlock = b.mem * PerBlock + PerBlock
  BY <1>2, <1>3
<1>6. (b.mem + 1) * PerBlock <= BlockCount * PerBlock /\ BlockCount * PerBlock \in Nat
  <2>1. PICK k \in Nat : BlockCount = b.mem + 1 + k
    <3>1. BlockCount - (b.mem + 1) \in Nat /\ BlockCount = b.mem + 1 + (BlockCount - (b.mem + 1))
      BY <1>2, <1>3
    <3> QED
      BY <3>1
  <2>2. k * PerBlock \in Nat /\ BlockCount * PerBlock = (b.mem + 1) * PerBlock + k * PerBlock
    BY <1>2, <1>3, <2>1
  <2>3. (b.mem + 1) * PerBlock \in Nat
    BY <1>2, <1>3
  <2> QED
    BY ONLY <2>2, <2>3
<1>7. \A n \in 0 .. PerBlock : b.mem * PerBlock + n \in 0 .. BlockCount * PerBlock
  BY ONLY <1>2, <1>4, <1>5, <1>6
<1>8. \A n \in 0 .. PerBlock : Base(b.mem) + n \in Addresses
  BY <1>7 DEF Base, Addresses
<1>9. Base(b.mem) \in Nat /\ BlockEnd(b) = Base(b.mem) + b.size
  BY <1>4 DEF Base, BlockEnd
<1>10. Base(b.mem) \in Addresses
  <2>1. 0 \in 0 .. PerBlock /\ Base(b.mem) + 0 = Base(b.mem)
    BY <1>2, <1>9
  <2> QED
    BY <1>8, <2>1
<1>11. BlockEnd(b) \in Addresses
  BY <1>1, <1>8, <1>9
<1> QED
  BY <1>1, <1>2, <1>8, <1>9, <1>10, <1>11

\* Addresses are numbers ...
LEMMA AddressesAreNumbers == Addresses \subseteq Nat
BY DEF Addresses

\* ... and so is every address below one.
LEMMA AddressBelow ==
  ASSUME NEW x \in Addresses, NEW y \in Nat, y <= x
  PROVE  y \in Addresses
<1>1. PICK top : top = BlockCount * PerBlock
  OBVIOUS
<1>2. top \in Nat /\ Addresses = 0 .. top
  BY <1>1, CountAssumption, SizesAssumption DEF Addresses
<1> QED
  BY <1>2

\* The buffered blocks.
LEMMA Buffer ==
  ASSUME TypeOK
  PROVE  /\ Len(blocks) \in Nat /\ (blocks = << >> <=> Len(blocks) = 0)
         /\ \A i \in 1 .. Len(blocks) : blocks[i] \in Pieces
         /\ blocks # << >> => Back(blocks) \in Pieces /\ Back(blocks) = blocks[Len(blocks)]
         /\ Mid \in Nat
<1>1. blocks \in Seq(Pieces) /\ progress \in Nat
  BY DEF TypeOK
<1>2. /\ Len(blocks) \in Nat /\ (blocks = << >> <=> Len(blocks) = 0)
      /\ \A i \in 1 .. Len(blocks) : blocks[i] \in Pieces
  BY <1>1, SeqFacts
<1>3. blocks # << >> => Back(blocks) \in Pieces /\ Back(blocks) = blocks[Len(blocks)]
  <2>1. blocks # << >> => Len(blocks) \in 1 .. Len(blocks)
    BY <1>2
  <2> QED
    BY <1>2, <2>1 DEF Back
<1>4. Mid \in Nat
  <2>1. CASE blocks = << >>
    BY <1>1, <2>1 DEF Mid
  <2>2. CASE blocks # << >>
    <3>1. Back(blocks).start \in Nat /\ Back(blocks).size \in Nat
      BY <1>3, <2>2, BlockAddresses
    <3> QED
      BY <2>2, <3>1 DEF Mid
  <2> QED
    BY <2>1, <2>2
<1> QED
  BY <1>2, <1>3, <1>4

\* The position of a cursor on a record.
LEMMA PositionOnRecord ==
  ASSUME TypeOK, OnRecord, NEW b, b = blocks[blocks_it + 1]
  PROVE  /\ blocks_it \in Nat /\ blocks_it + 1 \in 1 .. Len(blocks) /\ b \in Pieces
         /\ current \in Nat /\ Base(b.mem) <= current /\ current < Base(b.mem) + b.size
         /\ block_end = Base(b.mem) + b.size
         /\ Pos = b.start + (current - Base(b.mem)) /\ Pos \in Nat
         /\ b.start <= Pos /\ Pos < b.start + b.size
<1>1. blocks_it \in Nat /\ current \in Addresses \cup {None}
  BY CountAssumption DEF TypeOK
<1>2. blocks_it + 1 \in 1 .. Len(blocks)
  BY <1>1, Buffer DEF OnRecord
<1>3. b \in Pieces
  BY <1>2, Buffer
<1>4. current \in Nat
  BY <1>1, AddressesAreNumbers DEF OnRecord
<1>5. /\ b.size \in Nat /\ b.start \in Nat
      /\ Base(b.mem) \in Nat /\ BlockEnd(b) = Base(b.mem) + b.size
  BY <1>3, BlockAddresses
<1>6. Base(b.mem) <= current /\ current < BlockEnd(b) /\ block_end = BlockEnd(b) /\ blocks_it < Len(blocks)
  BY DEF OnRecord
<1>7. Pos = b.start + current - Base(b.mem)
  BY <1>6 DEF Pos
<1>8. /\ Pos = b.start + (current - Base(b.mem)) /\ Pos \in Nat
      /\ b.start <= Pos /\ Pos < b.start + b.size
  BY ONLY <1>4, <1>5, <1>6, <1>7
<1> QED
  BY <1>1, <1>2, <1>3, <1>4, <1>5, <1>6, <1>8

\* The position of a cursor behind the last record.
LEMMA PositionAtEnd ==
  ASSUME TypeOK, AtEnd
  PROVE  Pos = Mid
<1>1. ~(blocks_it < Len(blocks))
  BY Buffer DEF AtEnd
<1> QED
  BY <1>1 DEF Pos, Mid

-----------------------------------------------------------------------------
(* The stream                                                              *)

\* Fetch adds the block that comes next, or finds the poison; the cursor does
\* not move.
LEMMA FetchKeeps ==
  ASSUME IInv, Fetch
  PROVE  IInv' /\ Pos' = Pos /\ (marked # None => MarkPos' = MarkPos)
<1> DEFINE get == Head(in)
<1>1. Flow /\ Places /\ TypeOK
  BY DEF IInv, Fetch, Open
<1>2. AtEnd /\ Len(blocks) < BlockCount /\ ~poisoned /\ ~hit_poison /\ Pos = Mid
  BY <1>1, PositionAtEnd DEF Places, Fetch
<1>3. PoisonIsLast(in) /\ in \in Seq(Pieces \cup {None}) /\ in # << >> /\ in' = Tail(in)
  BY <1>1 DEF Flow, PoisonIsLast, TypeOK, Fetch
<1>4. /\ Len(in) \in Nat \ {0} /\ get = in[1] /\ get \in Pieces \cup {None}
      /\ in' \in Seq(Pieces \cup {None})
      /\ Len(in') = Len(in) - 1 /\ \A i \in 1 .. Len(in) - 1 : in'[i] = in[i + 1]
  BY <1>3, SeqTail
<1>5. UNCHANGED <<first, out, marked, progress, free, given, ended, received>>
  BY DEF Fetch, chain
<1>6. CASE get = None
  <2>1. /\ hit_poison' = TRUE /\ poisoned' = TRUE /\ pc' = "ready"
        /\ UNCHANGED <<blocks, blocks_it, current, block_end>>
    BY <1>6 DEF Fetch
  <2>2. TypeOK'
    BY <1>1, <1>4, <1>5, <2>1 DEF TypeOK
  <2>3. Pos' = Pos /\ Mid' = Mid /\ AtEnd'
    BY <1>2, <1>5, <2>1 DEF Pos, Mid, AtEnd
  <2>4. MarkPos' = MarkPos
    BY <1>5, <2>1 DEF MarkPos
  <2>5. Len(in) = 1
    <3>1. 1 \in 1 .. Len(in)
      BY <1>4
    <3> QED
      BY <1>3, <1>4, <1>6, <3>1 DEF PoisonIsLast
  <2>6. Real(in) = << >> /\ Real(in') = << >>
    <3>1. Len(Real(in)) = 0 /\ Real(in) \in Seq(Pieces)
      BY <1>3, <1>4, <1>6, <2>5, RealIsBlocks
    <3>2. in' = << >>
      BY <1>4, <2>5, SeqFacts
    <3>3. Real(in) = << >>
      BY <3>1, SeqFacts
    <3>4. Real(in') = << >>
      BY ONLY <3>2 DEF Real
    <3> QED
      BY <3>3, <3>4
  <2>7. Flow'
    <3>1. Len(in') = 0
      BY <1>4, <2>5
    <3>2. (\A i \in 1 .. Len(blocks) : Whole(blocks[i]))'
      <4>1. (\A i \in 1 .. Len(blocks) : Whole(blocks[i])) /\ first' = first /\ blocks' = blocks
        BY <1>1, <1>5, <2>1 DEF Flow
      <4> QED
        BY ONLY <4>1 DEF Whole
    <3>3. (Run(Real(in), Mid, given))'
      BY <1>1, <1>5, <2>3, <2>6 DEF Flow
    <3> QED
      BY <1>1, <1>5, <2>1, <2>3, <3>1, <3>2, <3>3 DEF Flow
  <2>8. Places'
    BY <1>1, <1>2, <1>5, <2>1, <2>3 DEF Places
  <2> QED
    BY <2>2, <2>3, <2>4, <2>7, <2>8 DEF IInv
<1>7. CASE get # None
  <2>1. get \in Pieces /\ blocks' = Append(blocks, get) /\ UNCHANGED <<hit_poison, poisoned>>
    BY <1>4, <1>7 DEF Fetch
  <2>2. get.size > 0 /\ (first => get.size = PerBlock) /\ Whole(get)
    <3>1. 1 \in 1 .. Len(in)
      BY <1>4
    <3> QED
      BY <1>1, <1>4, <1>7, <3>1 DEF Flow, Whole
  <2>3. pc' = "ready" /\ current' = Base(get.mem) /\ block_end' = BlockEnd(get) /\ blocks_it' = Len(blocks)
    BY <1>7, <2>1, <2>2, BlockAddresses DEF Fetch
  <2>4. blocks \in Seq(Pieces) /\ Len(blocks) \in Nat /\ (blocks = << >> <=> Len(blocks) = 0)
    BY <1>1, Buffer DEF TypeOK
  <2>5. /\ blocks' \in Seq(Pieces) /\ blocks' # << >> /\ Len(blocks') = Len(blocks) + 1
        /\ blocks'[Len(blocks) + 1] = get /\ \A i \in 1 .. Len(blocks) : blocks'[i] = blocks[i]
    BY <2>1, <2>4, SeqAppend
  <2>6. /\ get.mem \in Nat /\ get.size \in Nat /\ get.start \in Nat /\ Base(get.mem) \in Nat
        /\ BlockEnd(get) = Base(get.mem) + get.size
        /\ Base(get.mem) \in Addresses /\ BlockEnd(get) \in Addresses
    BY <2>1, BlockAddresses
  <2>7. TypeOK'
    <3>1. blocks_it' \in 0 .. BlockCount
      BY <1>2, <2>3, <2>4, CountAssumption
    <3> QED
      BY <1>1, <1>4, <1>5, <2>1, <2>3, <2>5, <2>6, <3>1 DEF TypeOK
  <2>8. Mid \in Nat /\ given \in Nat /\ received \in Nat /\ progress \in Nat
    BY <1>1, Buffer DEF TypeOK
  <2>9. /\ Real(in) # << >> /\ Real(in)[1] = get /\ Real(in') = Tail(Real(in))
        /\ PoisonIsLast(in') /\ \A i \in 1 .. Len(in') : i + 1 \in 1 .. Len(in) /\ in'[i] = in[i + 1]
        /\ Real(in) \in Seq(Pieces)
    BY <1>3, <1>7, RealTail, RealIsBlocks
  <2>10. get.start = Mid /\ Run(Real(in'), Mid + get.size, given)
    BY <1>1, <2>8, <2>9, RunTail DEF Flow
  <2>11. Mid' = Mid + get.size
    BY <2>5, <2>10 DEF Mid, Back
  <2>12. Run(blocks', progress, Mid + get.size)
    BY <1>1, <2>1, <2>4, <2>8, <2>10, RunAppend DEF Flow
  <2>13. Flow'
    <3>1. \A i \in 1 .. Len(in') : in'[i] = None => i = Len(in') /\ ended
      <4> SUFFICES ASSUME NEW i \in 1 .. Len(in'), in'[i] = None PROVE i = Len(in') /\ ended
        OBVIOUS
      <4>1. i = Len(in')
        BY <2>9 DEF PoisonIsLast
      <4> QED
        BY <1>1, <2>9, <4>1 DEF Flow
    <3>2. \A i \in 1 .. Len(in') : in'[i] # None => Whole(in'[i])
      BY <1>1, <2>9 DEF Flow
    <3>3. \A i \in 1 .. Len(blocks') : Whole(blocks'[i])
      <4> SUFFICES ASSUME NEW i \in 1 .. Len(blocks') PROVE Whole(blocks'[i])
        OBVIOUS
      <4>1. CASE i = Len(blocks) + 1
        BY <2>2, <2>5, <4>1
      <4>2. CASE i # Len(blocks) + 1
        <5>1. i \in 1 .. Len(blocks)
          BY <2>4, <2>5, <4>2
        <5> QED
          BY <1>1, <2>5, <5>1 DEF Flow
      <4> QED
        BY <4>1, <4>2
    <3>4. /\ (\A i \in 1 .. Len(in) : in[i] # None => Whole(in[i]))'
          /\ (\A i \in 1 .. Len(blocks) : Whole(blocks[i]))'
      BY <1>5, <3>2, <3>3 DEF Whole
    <3> QED
      BY <1>1, <1>5, <2>10, <2>11, <2>12, <3>1, <3>4 DEF Flow
  <2>14. Pos' = Pos
    <3>1. blocks_it' < Len(blocks') /\ blocks'[blocks_it' + 1] = get
      BY <2>3, <2>4, <2>5
    <3>2. Pos' = get.start + current' - Base(get.mem)
      BY <3>1 DEF Pos
    <3>3. get.start + current' - Base(get.mem) = get.start
      BY ONLY <2>3, <2>6
    <3> QED
      BY <1>2, <2>10, <3>2, <3>3
  <2>15. marked # None => blocks # << >> /\ blocks'[1] = blocks[1]
    <3> SUFFICES ASSUME marked # None PROVE blocks # << >> /\ blocks'[1] = blocks[1]
      OBVIOUS
    <3>1. blocks # << >>
      BY <1>1 DEF Places
    <3>2. 1 \in 1 .. Len(blocks)
      BY <2>4, <3>1
    <3> QED
      BY <2>5, <3>1, <3>2
  <2>16. marked # None => MarkPos' = MarkPos
    BY <1>5, <2>15 DEF MarkPos
  <2>17. OnRecord'
    <3>1. blocks_it' < Len(blocks') /\ blocks'[blocks_it' + 1] = get
      BY <2>3, <2>4, <2>5
    <3>2. current' # None
      BY <2>3, <2>6, NoPiece
    <3>3. Base(get.mem) <= current' /\ current' < BlockEnd(get)
      BY ONLY <2>2, <2>3, <2>6
    <3> QED
      BY <2>3, <3>1, <3>2, <3>3 DEF OnRecord
  <2>18. Places'
    <3>1. Len(blocks') <= BlockCount
      BY <1>2, <2>4, <2>5, CountAssumption
    <3>2. progress' <= Pos'
      BY <1>1, <1>5, <2>14 DEF Places
    <3>3. marked' # None =>
            blocks' # << >> /\ Base(blocks'[1].mem) <= marked' /\ marked' < BlockEnd(blocks'[1])
      BY <1>1, <1>5, <2>5, <2>15 DEF Places
    <3> QED
      BY <2>3, <2>17, <3>1, <3>2, <3>3 DEF Places
  <2> QED
    BY <2>7, <2>13, <2>14, <2>16, <2>18 DEF IInv
<1> QED
  BY <1>6, <1>7

\* Steps that move no block.
LEMMA FlowStays ==
  ASSUME Flow, UNCHANGED <<first, in, out, blocks, progress, given, ended, received>>
  PROVE  Flow' /\ Mid' = Mid
<1>1. Mid' = Mid
  BY DEF Mid
<1>2. \A b : Whole(b)' = Whole(b)
  BY DEF Whole
<1> QED
  BY <1>1 DEF Flow, Whole

\* The cursor moves to the next record of its block.
LEMMA AdvanceKeeps ==
  ASSUME IInv, Advance
  PROVE  IInv' /\ Pos' = Pos + 1 /\ MarkPos' = MarkPos
<1>1. Flow /\ Places /\ TypeOK /\ pc = "ready" /\ ~poisoned
  BY DEF IInv, Advance, Open
<1>2. OnRecord
  BY <1>1 DEF Places
<1>3. /\ UNCHANGED <<first, in, out, blocks, blocks_it, block_end, marked, hit_poison, poisoned,
                     progress, pc, free, given, ended, received>>
      /\ current' = current + 1 /\ current + 1 # block_end
  BY DEF Advance, chain
<1>4. PICK b : b = blocks[blocks_it + 1]
  OBVIOUS
<1>5. /\ blocks_it \in Nat /\ blocks_it + 1 \in 1 .. Len(blocks) /\ b \in Pieces
      /\ current \in Nat /\ Base(b.mem) <= current /\ current < Base(b.mem) + b.size
      /\ block_end = Base(b.mem) + b.size
      /\ Pos = b.start + (current - Base(b.mem)) /\ Pos \in Nat
  BY <1>1, <1>2, <1>4, PositionOnRecord
<1>6. /\ b.size \in Nat /\ b.size <= PerBlock /\ b.start \in Nat /\ Base(b.mem) \in Nat
      /\ BlockEnd(b) = Base(b.mem) + b.size /\ BlockEnd(b) \in Addresses
  BY <1>5, BlockAddresses
<1>7. current' \in Nat /\ Base(b.mem) <= current' /\ current' < Base(b.mem) + b.size /\ block_end \in Nat
  BY ONLY <1>3, <1>5, <1>6
<1>8. current' \in Addresses /\ current' # None
  <2>1. current' <= BlockEnd(b)
    BY ONLY <1>6, <1>7
  <2> QED
    BY <1>6, <1>7, <2>1, NoPiece, AddressBelow
<1>9. TypeOK'
  BY <1>1, <1>3, <1>8 DEF TypeOK
<1>10. Flow'
  BY <1>1, <1>3, FlowStays
<1>11. OnRecord'
  BY <1>2, <1>3, <1>4, <1>5, <1>6, <1>7, <1>8 DEF OnRecord
<1>12. Pos' = Pos + 1
  <2>1. Pos' = b.start + current' - Base(b.mem)
    BY <1>2, <1>3, <1>4 DEF Pos, OnRecord
  <2>2. b.start + (current + 1) - Base(b.mem) = (b.start + (current - Base(b.mem))) + 1
    BY ONLY <1>5, <1>6
  <2> QED
    BY <1>3, <1>5, <2>1, <2>2
<1>13. MarkPos' = MarkPos
  BY <1>3 DEF MarkPos
<1>14. Places'
  <2>1. progress <= Pos /\ progress \in Nat
    BY <1>1 DEF Places, TypeOK
  <2>2. progress' <= Pos'
    BY ONLY <1>3, <1>5, <1>12, <2>1
  <2> QED
    BY <1>1, <1>3, <1>11, <2>2 DEF Places
<1> QED
  BY <1>9, <1>10, <1>12, <1>13, <1>14 DEF IInv

\* Over the end of a block into one that is still buffered.
LEMMA AdvanceBufferedKeeps ==
  ASSUME IInv, AdvanceBuffered
  PROVE  IInv' /\ Pos' = Pos + 1 /\ MarkPos' = MarkPos
<1>1. Flow /\ Places /\ TypeOK /\ pc = "ready" /\ ~poisoned
  BY DEF IInv, AdvanceBuffered, Open
<1>2. OnRecord
  BY <1>1 DEF Places
<1>3. /\ UNCHANGED <<first, in, out, blocks, marked, hit_poison, poisoned, progress, pc,
                     free, given, ended, received>>
      /\ current + 1 = block_end /\ blocks_it + 1 # Len(blocks)
      /\ blocks_it' = blocks_it + 1
      /\ current' = Base(blocks[blocks_it + 2].mem) /\ block_end' = BlockEnd(blocks[blocks_it + 2])
  BY DEF AdvanceBuffered, chain
<1>4. PICK b : b = blocks[blocks_it + 1]
  OBVIOUS
<1>5. PICK next : next = blocks[blocks_it + 2]
  OBVIOUS
<1>6. /\ blocks_it \in Nat /\ blocks_it + 1 \in 1 .. Len(blocks) /\ b \in Pieces
      /\ current \in Nat /\ block_end = Base(b.mem) + b.size
      /\ Pos = b.start + (current - Base(b.mem)) /\ Pos \in Nat
  BY <1>1, <1>2, <1>4, PositionOnRecord
<1>7. /\ Len(blocks) \in Nat /\ blocks_it + 1 \in 1 .. Len(blocks) - 1
      /\ blocks_it + 2 \in 1 .. Len(blocks) /\ (blocks_it + 1) + 1 = blocks_it + 2
  BY <1>1, <1>3, <1>6, Buffer
<1>8. next \in Pieces /\ Whole(next)
  BY <1>1, <1>5, <1>7, Buffer DEF Flow
<1>9. next.start = b.start + b.size
  BY <1>1, <1>4, <1>5, <1>7 DEF Flow, Run
<1>10. /\ next.size \in Nat /\ next.start \in Nat /\ Base(next.mem) \in Nat
       /\ BlockEnd(next) = Base(next.mem) + next.size
       /\ Base(next.mem) \in Addresses /\ BlockEnd(next) \in Addresses
  BY <1>8, BlockAddresses
<1>11. b.size \in Nat /\ b.start \in Nat /\ Base(b.mem) \in Nat
  BY <1>6, BlockAddresses
<1>12. current' = Base(next.mem) /\ block_end' = BlockEnd(next)
  BY <1>3, <1>5
<1>13. TypeOK'
  <2>1. blocks_it' \in 0 .. BlockCount
    <3>1. Len(blocks) <= BlockCount
      BY <1>1 DEF Places
    <3> QED
      BY <1>3, <1>6, <1>7, <3>1, CountAssumption
  <2> QED
    BY <1>1, <1>3, <1>10, <1>12, <2>1 DEF TypeOK
<1>14. Flow'
  BY <1>1, <1>3, FlowStays
<1>15. blocks_it' < Len(blocks) /\ blocks'[blocks_it' + 1] = next /\ blocks' = blocks
  BY <1>3, <1>5, <1>6, <1>7
<1>16. OnRecord'
  <2>1. Base(next.mem) < BlockEnd(next) /\ Base(next.mem) <= Base(next.mem)
    <3>1. next.size > 0
      BY <1>8 DEF Whole
    <3> QED
      BY ONLY <1>10, <3>1
  <2>2. current' # None
    BY <1>10, <1>12, NoPiece
  <2>3. /\ blocks_it' < Len(blocks') /\ blocks'[blocks_it' + 1] = next
        /\ Base(next.mem) <= current' /\ current' < BlockEnd(next) /\ block_end' = BlockEnd(next)
    BY ONLY <1>12, <1>15, <2>1
  <2> QED
    BY ONLY <2>2, <2>3 DEF OnRecord
<1>17. Pos' = Pos + 1
  <2>1. Pos' = next.start + current' - Base(next.mem)
    BY <1>15 DEF Pos
  <2>2. next.start + Base(next.mem) - Base(next.mem) = (b.start + (current - Base(b.mem))) + 1
    <3>1. current + 1 = Base(b.mem) + b.size /\ next.start = b.start + b.size /\ current \in Int
      BY <1>3, <1>6, <1>9
    <3>2. b.size \in Int /\ b.start \in Int /\ Base(b.mem) \in Int /\ Base(next.mem) \in Int
      BY <1>10, <1>11
    <3> QED
      BY ONLY <3>1, <3>2
  <2> QED
    BY <1>6, <1>12, <2>1, <2>2
<1>18. MarkPos' = MarkPos
  BY <1>3 DEF MarkPos
<1>19. Places'
  <2>1. progress <= Pos /\ progress \in Nat
    BY <1>1 DEF Places, TypeOK
  <2>2. progress' <= Pos'
    BY ONLY <1>3, <1>6, <1>17, <2>1
  <2> QED
    BY <1>1, <1>3, <1>16, <2>2 DEF Places
<1> QED
  BY <1>13, <1>14, <1>17, <1>18, <1>19 DEF IInv

\* The marked record is in the first block, and not yet handed on.
LEMMA MarkFacts ==
  ASSUME TypeOK, Flow, Places, marked # None, NEW b, b = blocks[1]
  PROVE  /\ b \in Pieces /\ blocks # << >> /\ 1 \in 1 .. Len(blocks) /\ b.start = progress
         /\ marked \in Nat /\ Base(b.mem) <= marked /\ marked < Base(b.mem) + b.size
         /\ MarkPos = b.start + (marked - Base(b.mem)) /\ MarkPos \in Nat
         /\ progress <= MarkPos /\ MarkPos < b.start + b.size
<1>1. blocks # << >> /\ Base(b.mem) <= marked /\ marked < BlockEnd(b)
  BY DEF Places
<1>2. 1 \in 1 .. Len(blocks)
  BY <1>1, Buffer
<1>3. b \in Pieces
  BY <1>2, Buffer
<1>4. b.start = progress
  BY <1>1 DEF Flow, Run
<1>5. marked \in Nat
  BY AddressesAreNumbers DEF TypeOK
<1>6. b.size \in Nat /\ b.start \in Nat /\ Base(b.mem) \in Nat /\ BlockEnd(b) = Base(b.mem) + b.size
  BY <1>3, BlockAddresses
<1>7. MarkPos = b.start + marked - Base(b.mem)
  BY DEF MarkPos
<1>8. MarkPos = b.start + (marked - Base(b.mem)) /\ MarkPos \in Nat
      /\ b.start <= MarkPos /\ MarkPos < b.start + b.size
      /\ Base(b.mem) <= marked /\ marked < Base(b.mem) + b.size
  BY ONLY <1>1, <1>5, <1>6, <1>7
<1> QED
  BY <1>1, <1>2, <1>3, <1>4, <1>5, <1>8

\* Back to the marked record.
LEMMA RewindKeeps ==
  ASSUME IInv, Rewind
  PROVE  IInv' /\ Pos' = MarkPos /\ MarkPos' = MarkPos
<1>1. Flow /\ Places /\ TypeOK /\ pc = "ready" /\ marked # None
  BY DEF IInv, Rewind, Open
<1>2. /\ UNCHANGED <<first, in, out, blocks, marked, hit_poison, progress, pc, free, given, ended, received>>
      /\ poisoned' = (poisoned /\ current = marked)
      /\ blocks_it' = 0 /\ current' = marked /\ block_end' = BlockEnd(blocks[1])
  BY DEF Rewind, chain
<1>3. PICK b : b = blocks[1]
  OBVIOUS
<1>4. /\ b \in Pieces /\ blocks # << >> /\ 1 \in 1 .. Len(blocks) /\ b.start = progress
      /\ marked \in Nat /\ Base(b.mem) <= marked /\ marked < Base(b.mem) + b.size
      /\ MarkPos = b.start + (marked - Base(b.mem)) /\ MarkPos \in Nat
      /\ progress <= MarkPos
  BY <1>1, <1>3, MarkFacts
<1>5. /\ b.size \in Nat /\ b.start \in Nat /\ Base(b.mem) \in Nat
      /\ BlockEnd(b) = Base(b.mem) + b.size /\ BlockEnd(b) \in Addresses
  BY <1>4, BlockAddresses
<1>6. TypeOK'
  <2>1. 0 \in 0 .. BlockCount
    BY CountAssumption
  <2>2. poisoned' \in BOOLEAN
    BY <1>1, <1>2 DEF TypeOK
  <2> QED
    BY <1>1, <1>2, <1>3, <1>5, <2>1, <2>2 DEF TypeOK
<1>7. Flow'
  BY <1>1, <1>2, FlowStays
<1>8. blocks_it' < Len(blocks) /\ blocks'[blocks_it' + 1] = b /\ blocks' = blocks
  <2>1. Len(blocks) \in Nat /\ Len(blocks) # 0
    BY <1>1, <1>4, Buffer
  <2>2. blocks_it' + 1 = 1
    BY <1>2
  <2> QED
    BY <1>2, <1>3, <2>1, <2>2
<1>9. OnRecord'
  BY <1>1, <1>2, <1>3, <1>4, <1>5, <1>8 DEF OnRecord
<1>10. Pos' = MarkPos
  <2>1. Pos' = b.start + current' - Base(b.mem)
    BY <1>8 DEF Pos
  <2>2. b.start + marked - Base(b.mem) = b.start + (marked - Base(b.mem))
    BY ONLY <1>4, <1>5
  <2> QED
    BY <1>2, <1>4, <2>1, <2>2
<1>11. MarkPos' = MarkPos
  BY <1>2 DEF MarkPos
<1>12. Places'
  BY <1>1, <1>2, <1>4, <1>9, <1>10 DEF Places
<1> QED
  BY <1>6, <1>7, <1>10, <1>11, <1>12 DEF IInv

\* Handing on the blocks p that come next.
LEMMA HandOn ==
  ASSUME TypeOK, Flow, NEW p \in Seq(Pieces), NEW m \in Nat, Run(p, progress, m), NEW r, r = out \o p
  PROVE  /\ r \in Seq(Pieces \cup {None}) /\ \A i \in 1 .. Len(r) : r[i] # None
         /\ Run(r, received, m) /\ progress <= m /\ progress + Records(p) = m
<1>1. out \in Seq(Pieces \cup {None}) /\ received \in Nat /\ progress \in Nat
  BY DEF TypeOK
<1>2. Run(out, received, progress) /\ \A i \in 1 .. Len(out) : out[i] # None
  BY DEF Flow
<1>3. out \in Seq(Pieces)
  <2>1. \A i \in 1 .. Len(out) : out[i] \in Pieces
    BY <1>1, <1>2, SeqFacts
  <2> QED
    BY <1>1, <2>1, SeqNarrow
<1>4. r \in Seq(Pieces) /\ Run(r, received, m)
  BY <1>1, <1>2, <1>3, RunConcat
<1>5. \A i \in 1 .. Len(r) : r[i] # None
  BY <1>4, SeqFacts, NoPiece
<1>6. r \in Seq(Pieces \cup {None})
  <2>1. Pieces \subseteq Pieces \cup {None}
    OBVIOUS
  <2> QED
    BY <1>4, <2>1, SeqWiden
<1>7. progress <= m /\ Records(p) = m - progress
  BY <1>1, RunRecords
<1>8. progress + Records(p) = m
  BY ONLY <1>1, <1>7
<1> QED
  BY <1>4, <1>5, <1>6, <1>7, <1>8

\* No blocks hold the records from a to a.
LEMMA RunEmpty ==
  ASSUME NEW q \in Seq(Pieces), q = << >>, NEW a
  PROVE  Run(q, a, a)
<1>1. Len(q) = 0
  BY SeqFacts
<1> QED
  BY <1>1 DEF Run

\* A sequence is the whole of itself.
LEMMA WholeSeq ==
  ASSUME NEW q \in Seq(Pieces)
  PROVE  SubSeq(q, 1, Len(q)) = q
<1>1. Len(q) \in Nat /\ Len(q) \in 0 .. Len(q)
  BY SeqFacts
<1>2. /\ SubSeq(q, 1, Len(q)) \in Seq(Pieces) /\ Len(SubSeq(q, 1, Len(q))) = Len(q)
      /\ \A i \in 1 .. Len(q) : SubSeq(q, 1, Len(q))[i] = q[i]
  BY <1>1, SeqFirst
<1> QED
  BY <1>2, SeqEqual

\* Over the end of the last buffered block.
LEMMA AdvanceAppendKeeps ==
  ASSUME IInv, AdvanceAppend
  PROVE  /\ IInv' /\ Pos' = Pos + 1 /\ (marked # None => MarkPos' = MarkPos /\ progress' = progress)
         /\ progress <= progress' /\ progress' <= Pos' /\ ~Closed'
<1>1. Flow /\ Places /\ TypeOK /\ pc = "ready" /\ ~poisoned
  BY DEF IInv, AdvanceAppend, Open
<1>2. OnRecord
  BY <1>1 DEF Places
<1>3. /\ UNCHANGED <<first, in, block_end, marked, hit_poison, free, given, ended, received>>
      /\ current + 1 = block_end /\ blocks_it + 1 = Len(blocks) /\ current' = current + 1
      /\ AppendBlock(blocks')
  BY DEF AdvanceAppend, chain
<1>4. PICK b : b = blocks[blocks_it + 1]
  OBVIOUS
<1>5. /\ blocks_it \in Nat /\ blocks_it + 1 \in 1 .. Len(blocks) /\ b \in Pieces
      /\ current \in Nat /\ block_end = Base(b.mem) + b.size
      /\ Pos = b.start + (current - Base(b.mem)) /\ Pos \in Nat
  BY <1>1, <1>2, <1>4, PositionOnRecord
<1>6. /\ b.size \in Nat /\ b.start \in Nat /\ Base(b.mem) \in Nat
      /\ BlockEnd(b) = Base(b.mem) + b.size /\ BlockEnd(b) \in Addresses
  BY <1>5, BlockAddresses
<1>7. blocks # << >> /\ b = Back(blocks) /\ Mid \in Nat /\ blocks \in Seq(Pieces) /\ Len(blocks) \in Nat
  BY <1>1, <1>3, <1>4, <1>5, Buffer DEF TypeOK
<1>8. Mid = b.start + b.size
  BY <1>7 DEF Mid
<1>9. Mid = Pos + 1
  <2>1. current + 1 = Base(b.mem) + b.size
    BY <1>3, <1>5
  <2>2. b.size \in Nat /\ b.start \in Nat /\ Base(b.mem) \in Nat /\ current \in Nat
    BY <1>5, <1>6
  <2>3. Pos = b.start + (current - Base(b.mem))
    BY <1>5
  <2> QED
    BY ONLY <1>8, <2>1, <2>2, <2>3
<1>10. current' = BlockEnd(b) /\ current' \in Addresses
  BY <1>3, <1>5, <1>6
<1>11. hit_poison \in BOOLEAN /\ poisoned \in BOOLEAN
  BY <1>1 DEF TypeOK
<1>12. ASSUME Len(blocks') \in Nat
       PROVE  /\ poisoned' \in BOOLEAN
              /\ \/ Len(blocks') >= BlockCount /\ pc' = "aborted" /\ poisoned' = poisoned
                 \/ Len(blocks') < BlockCount /\ hit_poison /\ poisoned' = TRUE /\ pc' = "ready"
                 \/ Len(blocks') < BlockCount /\ ~hit_poison /\ pc' = "fetch" /\ poisoned' = poisoned
  <2>1. CASE Len(blocks') >= BlockCount
    <3>1. pc' = "aborted" /\ poisoned' = poisoned
      BY <1>3, <2>1 DEF AppendBlock
    <3> QED
      BY <1>11, <2>1, <3>1
  <2>2. CASE ~(Len(blocks') >= BlockCount)
    <3>1. Len(blocks') < BlockCount
      BY <1>12, <2>2, CountAssumption
    <3>2. /\ hit_poison => poisoned' = TRUE /\ pc' = pc
          /\ ~hit_poison => pc' = "fetch" /\ poisoned' = poisoned
      BY <1>3, <2>2 DEF AppendBlock
    <3> QED
      BY <1>1, <1>11, <3>1, <3>2
  <2> QED
    BY <2>1, <2>2
<1>13. ~Closed'
  <2>1. blocks' = << >> \/ blocks' = blocks
    BY DEF AdvanceAppend
  <2>2. Len(blocks') \in Nat
    BY <1>7, <2>1
  <2> QED
    BY <1>12, <2>2 DEF Closed
<1>14. CASE marked = None
  <2>1. out' = out \o SubSeq(blocks, 1, Len(blocks)) /\ progress' = progress + Records(SubSeq(blocks, 1, Len(blocks)))
        /\ blocks' = << >> /\ blocks_it' = 0
    BY <1>14 DEF AdvanceAppend, Flush
  <2>2. out' = out \o blocks /\ progress' = progress + Records(blocks)
    BY <1>7, <2>1, WholeSeq
  <2>3. Run(blocks, progress, Mid)
    BY <1>1 DEF Flow
  <2>4. /\ out' \in Seq(Pieces \cup {None}) /\ \A i \in 1 .. Len(out') : out'[i] # None
        /\ Run(out', received, Mid) /\ progress <= Mid /\ progress' = Mid
    BY <1>1, <1>7, <2>2, <2>3, HandOn
  <2>5. Len(blocks') = 0 /\ blocks' \in Seq(Pieces)
    BY <2>1, SeqFacts
  <2>6. Mid' = Mid /\ Pos' = Mid
    BY <2>1, <2>4, <2>5 DEF Mid, Pos
  <2>7. AtEnd' /\ Len(blocks') < BlockCount /\ ~(Len(blocks') >= BlockCount) /\ Len(blocks') \in Nat
    BY <2>1, <2>5, CountAssumption DEF AtEnd
  <2>8. TypeOK'
    <3>1. 0 \in 0 .. BlockCount
      BY CountAssumption
    <3> QED
      BY <1>1, <1>3, <1>7, <1>10, <1>12, <2>1, <2>4, <2>5, <2>7, <3>1 DEF TypeOK
  <2>9. Flow'
    <3>1. Run(blocks', progress', Mid')
      BY <2>1, <2>4, <2>5, <2>6, RunEmpty
    <3>2. (\A i \in 1 .. Len(in) : in[i] # None => Whole(in[i]))'
      <4>1. (\A i \in 1 .. Len(in) : in[i] # None => Whole(in[i])) /\ in' = in /\ first' = first
        BY <1>1, <1>3 DEF Flow
      <4> QED
        BY ONLY <4>1 DEF Whole
    <3>3. (\A i \in 1 .. Len(blocks) : Whole(blocks[i]))'
      BY <2>5
    <3>4. (\A i \in 1 .. Len(in) : in[i] = None => i = Len(in) /\ ended)' /\ Run(Real(in), Mid, given)'
      BY <1>1, <1>3, <2>6 DEF Flow
    <3>5. Run(out, received, progress)' /\ (\A i \in 1 .. Len(out) : out[i] # None)'
      BY <1>3, <2>4
    <3> QED
      BY <3>1, <3>2, <3>3, <3>4, <3>5 DEF Flow
  <2>10. Places'
    <3>1. pc' = "fetch" \/ (pc' = "ready" /\ poisoned' = TRUE)
      BY <1>12, <2>7
    <3>2. pc' = "fetch" => ~hit_poison' /\ ~poisoned'
      BY <1>1, <1>3, <1>12, <2>7
    <3>3. Len(blocks') <= BlockCount /\ progress' <= Pos' /\ marked' = None
      BY <1>3, <1>7, <1>14, <2>4, <2>5, <2>6, CountAssumption
    <3> QED
      BY <2>7, <3>1, <3>2, <3>3 DEF Places
  <2> QED
    BY <1>7, <1>9, <1>14, <1>13, <2>4, <2>6, <2>8, <2>9, <2>10 DEF IInv
<1>15. CASE marked # None
  <2>1. UNCHANGED <<out, blocks, progress>> /\ blocks_it' = Len(blocks)
    BY <1>3, <1>15 DEF AdvanceAppend
  <2>2. Flow' /\ Mid' = Mid
    BY <1>1, <1>3, <2>1, FlowStays
  <2>3. AtEnd'
    BY <1>7, <1>10, <2>1 DEF AtEnd
  <2>4. Pos' = Mid
    <3>1. ~(blocks_it' < Len(blocks'))
      BY <1>7, <2>1
    <3> QED
      BY <2>2, <3>1 DEF Pos, Mid
  <2>5. MarkPos' = MarkPos
    BY <1>3, <2>1 DEF MarkPos
  <2>6. Len(blocks) <= BlockCount /\ progress <= Pos /\ progress \in Nat
    BY <1>1 DEF Places, TypeOK
  <2>7. TypeOK'
    <3>1. blocks_it' \in 0 .. BlockCount
      BY <1>7, <2>1, <2>6, CountAssumption
    <3> QED
      BY <1>1, <1>3, <1>7, <1>10, <1>12, <2>1, <3>1 DEF TypeOK
  <2>8. progress <= progress' /\ progress' <= Pos'
    BY ONLY <1>5, <1>9, <2>1, <2>4, <2>6
  <2>9. Places'
    <3>1. /\ pc' = "fetch" => Len(blocks') < BlockCount /\ ~hit_poison' /\ ~poisoned'
          /\ pc' = "aborted" => Len(blocks') = BlockCount
          /\ pc' = "ready" => poisoned'
      <4>1. Len(blocks') \in Nat /\ Len(blocks') <= BlockCount
        BY <1>7, <2>1, <2>6
      <4>2. Len(blocks') >= BlockCount => Len(blocks') = BlockCount
        BY <4>1, CountAssumption
      <4> QED
        BY <1>1, <1>3, <1>12, <4>1, <4>2
    <3>2. marked' # None =>
            blocks' # << >> /\ Base(blocks'[1].mem) <= marked' /\ marked' < BlockEnd(blocks'[1])
      BY <1>1, <1>3, <2>1 DEF Places
    <3> QED
      BY <2>1, <2>3, <2>6, <2>8, <3>1, <3>2 DEF Places
  <2> QED
    BY <1>9, <1>13, <2>1, <2>2, <2>4, <2>5, <2>7, <2>8, <2>9 DEF IInv
<1> QED
  BY <1>14, <1>15

\* Setting a mark, and handing on the blocks before it.
LEMMA MarkKeeps ==
  ASSUME IInv, Mark
  PROVE  /\ IInv' /\ Pos' = Pos /\ MarkPos' = Pos /\ marked' # None
         /\ progress <= progress' /\ progress' <= Pos /\ progress' \in Nat
<1>1. Flow /\ Places /\ TypeOK /\ pc = "ready" /\ ~poisoned
  BY DEF IInv, Mark, Open
<1>2. OnRecord
  BY <1>1 DEF Places
<1>3. PICK n, b, p, r : /\ n = blocks_it /\ b = blocks[n + 1]
                        /\ p = SubSeq(blocks, 1, n) /\ r = SubSeq(blocks, n + 1, Len(blocks))
  OBVIOUS
<1>4. /\ UNCHANGED <<first, in, current, block_end, hit_poison, poisoned, pc, free, given, ended, received>>
      /\ marked' = current /\ out' = out \o p /\ progress' = progress + Records(p)
      /\ blocks' = r /\ blocks_it' = 0
  BY <1>3 DEF Mark, Flush, chain
<1>5. /\ n \in Nat /\ n + 1 \in 1 .. Len(blocks) /\ b \in Pieces
      /\ current \in Nat /\ Base(b.mem) <= current /\ current < Base(b.mem) + b.size
      /\ block_end = Base(b.mem) + b.size
      /\ Pos = b.start + (current - Base(b.mem)) /\ Pos \in Nat /\ b.start <= Pos
  BY <1>1, <1>2, <1>3, PositionOnRecord
<1>6. /\ b.size \in Nat /\ b.start \in Nat /\ Base(b.mem) \in Nat
      /\ BlockEnd(b) = Base(b.mem) + b.size
  BY <1>5, BlockAddresses
<1>7. /\ blocks \in Seq(Pieces) /\ Len(blocks) \in Nat /\ progress \in Nat /\ Mid \in Nat
      /\ n \in 0 .. Len(blocks) /\ n < Len(blocks)
  BY <1>1, <1>5, Buffer DEF TypeOK
<1>8. Run(blocks, progress, Mid) /\ \A i \in 1 .. Len(blocks) : Whole(blocks[i])
  BY <1>1 DEF Flow
<1>9. PICK m : (n = 0 => m = progress) /\ (n # 0 => m = blocks[n].start + blocks[n].size)
  OBVIOUS
<1>10. m = b.start
  <2>1. n < Len(blocks) => blocks[n + 1].start = m
    BY <1>7, <1>8, <1>9, RunNext
  <2> QED
    BY <1>3, <1>7, <2>1
<1>11. p \in Seq(Pieces) /\ Run(p, progress, m)
  BY <1>3, <1>7, <1>8, <1>9, RunFirst
<1>12. r \in Seq(Pieces) /\ Run(r, m, Mid)
  <2>1. /\ blocks \in Seq(Pieces) /\ progress \in Nat /\ Mid \in Nat /\ n \in 0 .. Len(blocks)
        /\ Run(blocks, progress, Mid)
    BY <1>3, <1>7, <1>8
  <2>2. PICK k : k = n + 1 /\ r = SubSeq(blocks, k, Len(blocks))
    BY <1>3
  <2> QED
    BY ONLY <1>9, <2>1, <2>2, RunRest
<1>13. Len(r) = Len(blocks) - n /\ \A i \in 1 .. Len(blocks) - n : r[i] = blocks[n + i]
  <2>1. /\ Len(SubSeq(blocks, n + 1, Len(blocks))) = Len(blocks) - n
        /\ \A i \in 1 .. Len(blocks) - n : SubSeq(blocks, n + 1, Len(blocks))[i] = blocks[n + i]
    BY <1>7, SeqRest
  <2> QED
    BY <1>3, <2>1
<1>14. /\ out' \in Seq(Pieces \cup {None}) /\ \A i \in 1 .. Len(out') : out'[i] # None
       /\ Run(out', received, m) /\ progress <= m /\ progress' = m
  BY <1>1, <1>4, <1>6, <1>10, <1>11, HandOn
<1>15. Len(r) \in Nat /\ Len(r) > 0 /\ r # << >> /\ r[1] = b /\ Back(r) = Back(blocks) /\ blocks # << >>
  <2>1. Len(r) \in Nat /\ Len(r) > 0 /\ 1 \in 1 .. Len(blocks) - n /\ Len(r) \in 1 .. Len(blocks) - n
        /\ n + Len(r) = Len(blocks) /\ Len(blocks) # 0
    BY <1>7, <1>13
  <2>2. r # << >> /\ blocks # << >>
    BY <1>7, <1>12, <2>1, SeqFacts
  <2> QED
    BY <1>3, <1>13, <2>1, <2>2 DEF Back
<1>16. Mid' = Mid
  BY <1>4, <1>15 DEF Mid
<1>17. TypeOK'
  <2>1. 0 \in 0 .. BlockCount
    BY CountAssumption
  <2>2. current \in Addresses /\ m \in Nat
    BY <1>1, <1>5, <1>6, <1>10, NoPiece DEF TypeOK
  <2> QED
    BY <1>1, <1>4, <1>12, <1>14, <2>1, <2>2 DEF TypeOK
<1>18. Flow'
  <2>1. (\A i \in 1 .. Len(blocks) : Whole(blocks[i]))'
    <3>1. ASSUME NEW i \in 1 .. Len(r)
          PROVE  Whole(r[i])
      <4>1. i \in 1 .. Len(blocks) - n /\ n + i \in 1 .. Len(blocks)
        BY <1>7, <1>13
      <4> QED
        BY <1>8, <1>13, <4>1
    <3> QED
      BY <1>4, <3>1 DEF Whole
  <2>2. (\A i \in 1 .. Len(in) : in[i] # None => Whole(in[i]))'
    <3>1. (\A i \in 1 .. Len(in) : in[i] # None => Whole(in[i])) /\ in' = in /\ first' = first
      BY <1>1, <1>4 DEF Flow
    <3> QED
      BY ONLY <3>1 DEF Whole
  <2>3. (\A i \in 1 .. Len(in) : in[i] = None => i = Len(in) /\ ended)' /\ Run(Real(in), Mid, given)'
    BY <1>1, <1>4, <1>16 DEF Flow
  <2>4. Run(out, received, progress)' /\ (\A i \in 1 .. Len(out) : out[i] # None)'
    BY <1>4, <1>14
  <2>5. Run(blocks, progress, Mid)'
    BY <1>4, <1>12, <1>14, <1>16
  <2> QED
    BY <2>1, <2>2, <2>3, <2>4, <2>5 DEF Flow
<1>19. blocks_it' < Len(blocks') /\ blocks'[blocks_it' + 1] = b /\ blocks'[1] = b
  BY <1>4, <1>15
<1>20. Pos' = Pos
  <2>1. Pos' = b.start + current' - Base(b.mem)
    BY <1>19 DEF Pos
  <2>2. b.start + current - Base(b.mem) = b.start + (current - Base(b.mem))
    BY ONLY <1>5, <1>6
  <2> QED
    BY <1>4, <1>5, <2>1, <2>2
<1>21. MarkPos' = Pos
  <2>1. MarkPos' = b.start + marked' - Base(b.mem)
    BY <1>19 DEF MarkPos
  <2>2. b.start + current - Base(b.mem) = b.start + (current - Base(b.mem))
    BY ONLY <1>5, <1>6
  <2> QED
    BY <1>4, <1>5, <2>1, <2>2
<1>22. OnRecord'
  <2>1. /\ blocks_it' < Len(blocks') /\ blocks'[blocks_it' + 1] = b /\ current' # None
        /\ Base(b.mem) <= current' /\ current' < BlockEnd(b) /\ block_end' = BlockEnd(b)
    BY <1>4, <1>5, <1>6, <1>19, NoPiece
  <2> QED
    BY ONLY <2>1 DEF OnRecord
<1>23. Places'
  <2>1. Len(blocks') <= BlockCount
    <3>1. Len(blocks) <= BlockCount
      BY <1>1 DEF Places
    <3> QED
      BY <1>4, <1>7, <1>13, <3>1, CountAssumption
  <2>2. progress' <= Pos'
    BY <1>5, <1>10, <1>14, <1>20
  <2>3. blocks' # << >> /\ Base(blocks'[1].mem) <= marked' /\ marked' < BlockEnd(blocks'[1])
    BY <1>4, <1>5, <1>6, <1>15, <1>19
  <2>4. pc' = "ready"
    BY <1>1, <1>4
  <2> QED
    BY <1>22, <2>1, <2>2, <2>3, <2>4 DEF Places
<1>24. marked' # None
  BY <1>4, <1>5, NoPiece
<1> QED
  BY <1>5, <1>6, <1>10, <1>14, <1>17, <1>18, <1>20, <1>21, <1>23, <1>24 DEF IInv

\* Cutting the last block.
LEMMA RunCut ==
  ASSUME NEW q \in Seq(Pieces), NEW a \in Nat, NEW b \in Nat, Run(q, a, b), q # << >>,
         NEW size \in 0 .. PerBlock, NEW cut, cut = [q EXCEPT ![Len(q)].size = size]
  PROVE  cut \in Seq(Pieces) /\ Run(cut, a, q[Len(q)].start + size)
<1>1. Len(q) \in Nat \ {0} /\ Len(q) \in 1 .. Len(q) /\ 1 \in 1 .. Len(q) /\ \A i \in 1 .. Len(q) : q[i] \in Pieces
  BY SeqFacts
<1>2. q \in [1 .. Len(q) -> Pieces]
  BY SeqDef, LenProperties
<1>3. PICK last : last = [q[Len(q)] EXCEPT !.size = size]
  OBVIOUS
<1>4. last \in Pieces /\ last.start = q[Len(q)].start /\ last.size = size
  <2>1. q[Len(q)] \in Pieces
    BY <1>1
  <2> QED
    BY <1>3, <2>1 DEF Pieces
<1>5. cut = [q EXCEPT ![Len(q)] = last]
  BY <1>3
<1>6. /\ cut \in [1 .. Len(q) -> Pieces] /\ cut[Len(q)] = last
      /\ \A i \in 1 .. Len(q) : i # Len(q) => cut[i] = q[i]
  BY <1>1, <1>2, <1>4, <1>5
<1>7. cut \in Seq(Pieces) /\ Len(cut) = Len(q)
  <2>1. cut \in Seq(Pieces)
    BY <1>1, <1>6, SeqDef
  <2>2. DOMAIN cut = 1 .. Len(q) /\ DOMAIN cut = 1 .. Len(cut) /\ Len(cut) \in Nat
    BY <1>6, <2>1, LenProperties
  <2>3. Len(cut) = Len(q)
    BY ONLY <1>1, <2>2, LenProperties, <2>1
  <2> QED
    BY <2>1, <2>3
<1>8. cut # << >>
  BY <1>1, <1>7, SeqFacts
<1>9. \A i \in 1 .. Len(q) : cut[i].start = q[i].start
  BY <1>4, <1>6
<1>10. cut[1].start = a /\ cut[Len(cut)].start + cut[Len(cut)].size = q[Len(q)].start + size
  BY <1>1, <1>4, <1>6, <1>7, <1>9 DEF Run
<1>11. ASSUME NEW i \in 1 .. Len(cut) - 1
       PROVE  cut[i + 1].start = cut[i].start + cut[i].size
  <2>1. i \in 1 .. Len(q) - 1 /\ i \in 1 .. Len(q) /\ i + 1 \in 1 .. Len(q) /\ i # Len(q)
    BY <1>1, <1>7
  <2>2. cut[i] = q[i] /\ cut[i + 1].start = q[i + 1].start
    BY <1>6, <1>9, <2>1
  <2> QED
    BY <2>1, <2>2 DEF Run
<1> QED
  BY <1>7, <1>8, <1>10, <1>11 DEF Run

\* Poison hands on the blocks, the last one cut at the cursor.
LEMMA PoisonKeeps ==
  ASSUME IInv, Poison
  PROVE  TypeOK' /\ pc' \in {"closing", "closed"} /\ progress' = Pos
<1>1. Flow /\ Places /\ TypeOK /\ pc = "ready" /\ blocks # << >> /\ blocks_it + 1 >= Len(blocks)
  BY DEF IInv, Poison, Open
<1>2. PICK size \in CutSizes :
        LET cut == [blocks EXCEPT ![Len(blocks)].size = size]
            all == out \o cut
        IN  /\ out' = IF hit_poison THEN Append(all, None) ELSE all
            /\ progress' = progress + Records(cut)
  BY DEF Poison
<1>3. /\ UNCHANGED <<first, in, current, block_end, marked, hit_poison, free, given, ended, received>>
      /\ blocks' = << >> /\ blocks_it' = 0
      /\ hit_poison => poisoned' = TRUE /\ pc' = "closed"
      /\ ~hit_poison => pc' = "closing" /\ poisoned' = poisoned
  BY DEF Poison, chain
<1>4. PICK b : b = blocks[Len(blocks)]
  OBVIOUS
<1>5. /\ blocks \in Seq(Pieces) /\ Len(blocks) \in Nat /\ b = Back(blocks) /\ b \in Pieces
      /\ Mid \in Nat /\ progress \in Nat /\ Mid = b.start + b.size
  <2>1. /\ blocks \in Seq(Pieces) /\ Len(blocks) \in Nat /\ b = Back(blocks) /\ b \in Pieces
        /\ Mid \in Nat /\ progress \in Nat
    BY <1>1, <1>4, Buffer DEF TypeOK
  <2> QED
    BY <1>1, <2>1 DEF Mid
<1>6. /\ b.size \in Nat /\ b.size <= PerBlock /\ b.start \in Nat /\ Base(b.mem) \in Nat
      /\ BlockEnd(b) = Base(b.mem) + b.size /\ PerBlock \in Nat
  BY <1>5, BlockAddresses, SizesAssumption
<1>7. /\ current \in Nat /\ Base(b.mem) <= current /\ current <= Base(b.mem) + b.size
      /\ Pos = b.start + (current - Base(b.mem))
  <2>1. CASE OnRecord
    <3>1. PICK c : c = blocks[blocks_it + 1]
      OBVIOUS
    <3>2. /\ blocks_it \in Nat /\ blocks_it + 1 \in 1 .. Len(blocks)
          /\ current \in Nat /\ Base(c.mem) <= current /\ current < Base(c.mem) + c.size
          /\ Pos = c.start + (current - Base(c.mem))
      BY <1>1, <2>1, <3>1, PositionOnRecord
    <3>3. blocks_it + 1 = Len(blocks)
      BY <1>1, <1>5, <3>2
    <3>4. c = b
      BY <1>4, <3>1, <3>3
    <3>5. current <= Base(b.mem) + b.size
      BY ONLY <1>6, <3>2, <3>4
    <3> QED
      BY <3>2, <3>4, <3>5
  <2>2. CASE AtEnd
    <3>1. current = Base(b.mem) + b.size
      BY <1>1, <1>5, <1>6, <2>2 DEF AtEnd
    <3>2. Pos = b.start + b.size
      BY <1>1, <1>5, <2>2, PositionAtEnd
    <3> QED
      BY ONLY <1>6, <3>1, <3>2
  <2> QED
    BY <1>1, <2>1, <2>2 DEF Places
<1>8. size = current - Base(b.mem) /\ size \in 0 .. PerBlock
  <2>1. current \in Base(b.mem) .. Base(b.mem) + PerBlock /\ current - Base(b.mem) \in 0 .. PerBlock
    BY ONLY <1>6, <1>7
  <2>2. CutSizes = {current - Base(b.mem)}
    BY <1>5, <2>1 DEF CutSizes
  <2> QED
    BY <1>2, <2>1, <2>2
<1>9. PICK cut : cut = [blocks EXCEPT ![Len(blocks)].size = size]
  OBVIOUS
<1>10. Run(blocks, progress, Mid)
  BY <1>1 DEF Flow
<1>11. cut \in Seq(Pieces) /\ Run(cut, progress, b.start + size)
  BY <1>1, <1>4, <1>5, <1>8, <1>9, <1>10, RunCut
<1>12. b.start + size = Pos /\ Pos \in Nat
  <2>1. Base(b.mem) <= current /\ current \in Nat /\ Base(b.mem) \in Nat /\ b.start \in Nat
        /\ Pos = b.start + (current - Base(b.mem)) /\ size = current - Base(b.mem)
    BY <1>6, <1>7, <1>8
  <2> QED
    BY ONLY <2>1
<1>13. PICK all : all = out \o cut
  OBVIOUS
<1>14. all \in Seq(Pieces \cup {None}) /\ progress + Records(cut) = Pos
  BY <1>1, <1>11, <1>12, <1>13, HandOn
<1>15. out' = (IF hit_poison THEN Append(all, None) ELSE all) /\ progress' = Pos
  BY <1>2, <1>9, <1>13, <1>14
<1>16. out' \in Seq(Pieces \cup {None})
  <2>1. Append(all, None) \in Seq(Pieces \cup {None})
    BY <1>14, SeqAppend
  <2> QED
    BY <1>14, <1>15, <2>1
<1>17. TypeOK'
  <2>1. 0 \in 0 .. BlockCount /\ blocks' \in Seq(Pieces)
    BY <1>3, CountAssumption
  <2>2. poisoned' \in BOOLEAN /\ pc' \in {"closing", "closed"}
    BY <1>1, <1>3 DEF TypeOK
  <2> QED
    BY <1>1, <1>3, <1>12, <1>15, <1>16, <2>1, <2>2 DEF TypeOK
<1> QED
  BY <1>1, <1>3, <1>15, <1>17 DEF TypeOK

\* Poison of a stream that has no block hands on nothing.
LEMMA PoisonNothingKeeps ==
  ASSUME IInv, PoisonNothing
  PROVE  TypeOK' /\ pc' = "closed" /\ progress' = Pos
<1>1. /\ TypeOK /\ blocks = << >> /\ pc' = "closed"
      /\ UNCHANGED <<first, in, out, blocks, blocks_it, current, block_end, marked, hit_poison,
                     poisoned, progress, free, given, ended, received>>
  BY DEF IInv, PoisonNothing, stream, chain
<1>2. TypeOK'
  BY <1>1 DEF TypeOK
<1>3. ~(blocks_it < Len(blocks))
  <2>1. blocks_it \in Nat /\ Len(blocks) = 0
    BY <1>1, Buffer, CountAssumption DEF TypeOK
  <2> QED
    BY <2>1
<1> QED
  BY <1>1, <1>2, <1>3 DEF Pos

\* The destructor drains the blocks that come after the poison.
LEMMA PoisonConsumeKeeps ==
  ASSUME IInv, PoisonConsume
  PROVE  IInv' /\ pc = "closing" /\ pc' = "closed" /\ progress' = progress
<1>1. TypeOK /\ pc = "closing" /\ in # << >> /\ in' = Tail(in) /\ out' = Append(out, None)
      /\ hit_poison' = TRUE /\ poisoned' = TRUE /\ pc' = "closed"
      /\ UNCHANGED <<first, blocks, blocks_it, current, block_end, marked, progress,
                     free, given, ended, received>>
  BY DEF IInv, PoisonConsume, chain
<1>2. in \in Seq(Pieces \cup {None}) /\ out \in Seq(Pieces \cup {None})
  BY <1>1 DEF TypeOK
<1>3. in' \in Seq(Pieces \cup {None})
  BY <1>1, <1>2, SeqTail
<1>4. out' \in Seq(Pieces \cup {None})
  BY <1>1, <1>2, SeqAppend
<1>5. TypeOK'
  BY <1>1, <1>3, <1>4 DEF TypeOK
<1> QED
  BY <1>1, <1>5 DEF IInv, Open

-----------------------------------------------------------------------------
(* The chain around it                                                     *)

\* Steps of the chain leave the cursor and the mark where they are.
LEMMA PlacesStay ==
  ASSUME Places, UNCHANGED <<stream, pc>>
  PROVE  Places' /\ Mid' = Mid /\ Pos' = Pos /\ MarkPos' = MarkPos
<1>1. UNCHANGED <<blocks, blocks_it, current, block_end, marked, hit_poison, poisoned, progress, pc>>
  BY DEF stream
<1>2. Mid' = Mid /\ Pos' = Pos /\ MarkPos' = MarkPos
  BY <1>1 DEF Mid, Pos, MarkPos
<1>3. AtEnd' = AtEnd /\ OnRecord' = OnRecord
  BY <1>1 DEF AtEnd, OnRecord
<1> QED
  BY <1>1, <1>2, <1>3 DEF Places

\* The chain sends the stream a block that is not empty.
LEMMA GiveKeeps ==
  ASSUME IInv, Give, 0 \notin Sizes
  PROVE  IInv'
<1>1. TypeOK /\ free # << >> /\ ~ended /\ free' = Tail(free)
      /\ UNCHANGED <<first, out, stream, pc, ended, received>>
  BY DEF IInv, Give
<1>2. UNCHANGED <<blocks, blocks_it, current, block_end, marked, hit_poison, poisoned, progress>>
  BY <1>1 DEF stream
<1>3. PICK n \in IF first THEN {PerBlock} ELSE Sizes :
        /\ in' = Append(in, [mem |-> Head(free), size |-> n, start |-> given])
        /\ given' = given + n
  BY DEF Give
<1>4. n \in 0 .. PerBlock /\ n # 0 /\ (first => n = PerBlock) /\ n \in Nat /\ n > 0
  BY <1>3, SizesAssumption
<1>5. free' \in Seq(0 .. BlockCount - 1) /\ Head(free) \in 0 .. BlockCount - 1
  <2>1. free \in Seq(0 .. BlockCount - 1)
    BY <1>1 DEF TypeOK
  <2>2. Tail(free) \in Seq(0 .. BlockCount - 1) /\ Head(free) = free[1] /\ free[1] \in 0 .. BlockCount - 1
    BY ONLY <1>1, <2>1, SeqTail
  <2> QED
    BY <1>1, <2>2
<1>6. PICK x : x = [mem |-> Head(free), size |-> n, start |-> given]
  OBVIOUS
<1>7. /\ x \in Pieces /\ x.size = n /\ x.start = given /\ in' = Append(in, x)
      /\ given \in Nat /\ received \in Nat /\ in \in Seq(Pieces \cup {None})
  BY <1>1, <1>3, <1>4, <1>5, <1>6 DEF Pieces, TypeOK
<1>8. in' \in Seq(Pieces \cup {None}) /\ given' \in Nat
  BY <1>3, <1>4, <1>7, SeqAppend
<1>9. TypeOK'
  BY <1>1, <1>2, <1>5, <1>8 DEF TypeOK
<1>10. CASE ~Open
  BY <1>1, <1>9, <1>10 DEF IInv, Open
<1>11. CASE Open
  <2>1. Flow /\ Places
    BY <1>11 DEF IInv
  <2>2. \A i \in 1 .. Len(in) : in[i] # None
    BY <1>1, <2>1 DEF Flow
  <2>3. x # None
    BY <1>7, NoPiece
  <2>4. /\ in \in Seq(Pieces) /\ Real(in) = in /\ PoisonIsLast(in') /\ Real(in') = in'
        /\ Len(in') = Len(in) + 1 /\ in'[Len(in) + 1] = x /\ \A i \in 1 .. Len(in) : in'[i] = in[i]
    <3>1. in \in Seq(Pieces \cup {None}) /\ x \in Pieces \cup {None} /\ in' = Append(in, x)
      BY <1>7
    <3>2. NoPoison(in)
      BY <2>2 DEF NoPoison
    <3>3. in \in Seq(Pieces) /\ Real(in) = in /\ PoisonIsLast(in')
      BY ONLY <3>1, <3>2, RealAppend
    <3>4. Real(in') = in'
      BY ONLY <2>3, <3>1, <3>2, RealAppend
    <3>5. Len(in') = Len(in) + 1 /\ in'[Len(in) + 1] = x /\ \A i \in 1 .. Len(in) : in'[i] = in[i]
      BY ONLY <3>1, SeqAppend
    <3> QED
      BY <3>3, <3>4, <3>5
  <2>5. Mid \in Nat /\ Mid' = Mid /\ Places'
    BY <1>1, <2>1, Buffer, PlacesStay
  <2>6. Run(in, Mid, given)
    BY <2>1, <2>4 DEF Flow
  <2>7. Run(in', Mid, given + x.size)
    BY <1>7, <2>4, <2>5, <2>6, RunAppend
  <2>8. \A i \in 1 .. Len(in') : in'[i] # None /\ Whole(in'[i])
    <3> SUFFICES ASSUME NEW i \in 1 .. Len(in') PROVE in'[i] # None /\ Whole(in'[i])
      OBVIOUS
    <3>1. CASE i = Len(in) + 1
      BY <1>4, <1>7, <2>3, <2>4, <3>1 DEF Whole
    <3>2. CASE i # Len(in) + 1
      <4>1. Len(in) \in Nat
        BY <2>4, SeqFacts
      <4>2. i \in 1 .. Len(in)
        BY <2>4, <3>2, <4>1
      <4> QED
        BY <2>1, <2>2, <2>4, <4>2 DEF Flow
    <3> QED
      BY <3>1, <3>2
  <2>9. (\A i \in 1 .. Len(in) : in[i] # None /\ Whole(in[i]))'
    BY <1>1, <2>8 DEF Whole
  <2>10. (\A i \in 1 .. Len(blocks) : Whole(blocks[i]))'
    <3>1. (\A i \in 1 .. Len(blocks) : Whole(blocks[i])) /\ blocks' = blocks /\ first' = first
      BY <1>1, <1>2, <2>1 DEF Flow
    <3> QED
      BY ONLY <3>1 DEF Whole
  <2>11. Run(Real(in), Mid, given)'
    BY <1>3, <1>7, <2>4, <2>5, <2>7
  <2>12. (\A i \in 1 .. Len(out) : out[i] # None)' /\ Run(out, received, progress)' /\ Run(blocks, progress, Mid)'
    BY <1>1, <1>2, <2>1, <2>5 DEF Flow
  <2>13. Flow'
    BY <2>9, <2>10, <2>11, <2>12 DEF Flow
  <2> QED
    BY <1>9, <2>5, <2>13 DEF IInv
<1> QED
  BY <1>10, <1>11

\* The chain sends the poison behind the last block.
LEMMA EndInputKeeps ==
  ASSUME IInv, EndInput
  PROVE  IInv'
<1>1. TypeOK /\ free # << >> /\ ~ended /\ free' = Tail(free) /\ in' = Append(in, None) /\ ended' = TRUE
      /\ UNCHANGED <<first, out, stream, pc, given, received>>
  BY DEF IInv, EndInput
<1>2. UNCHANGED <<blocks, blocks_it, current, block_end, marked, hit_poison, poisoned, progress>>
  BY <1>1 DEF stream
<1>3. free' \in Seq(0 .. BlockCount - 1)
  <2>1. free \in Seq(0 .. BlockCount - 1)
    BY <1>1 DEF TypeOK
  <2> QED
    BY <1>1, <2>1, SeqTail
<1>4. in \in Seq(Pieces \cup {None})
  BY <1>1 DEF TypeOK
<1>5. in' \in Seq(Pieces \cup {None})
  BY <1>1, <1>4, SeqAppend
<1>6. TypeOK'
  BY <1>1, <1>2, <1>3, <1>5 DEF TypeOK
<1>7. CASE ~Open
  BY <1>1, <1>6, <1>7 DEF IInv, Open
<1>8. CASE Open
  <2>1. Flow /\ Places
    BY <1>8 DEF IInv
  <2>2. \A i \in 1 .. Len(in) : in[i] # None
    BY <1>1, <2>1 DEF Flow
  <2>3. /\ Real(in) = in /\ PoisonIsLast(in') /\ Real(in') = in
        /\ Len(in') = Len(in) + 1 /\ in'[Len(in) + 1] = None /\ \A i \in 1 .. Len(in) : in'[i] = in[i]
    <3>1. None \in Pieces \cup {None} /\ in' = Append(in, None)
      BY <1>1
    <3>2. NoPoison(in)
      BY <2>2 DEF NoPoison
    <3>3. Real(in) = in /\ PoisonIsLast(in')
      BY ONLY <1>4, <3>1, <3>2, RealAppend
    <3>4. Real(in') = in
      BY ONLY <1>4, <3>1, <3>2, RealAppend
    <3>5. Len(in') = Len(in) + 1 /\ in'[Len(in) + 1] = None /\ \A i \in 1 .. Len(in) : in'[i] = in[i]
      BY ONLY <1>4, <3>1, SeqAppend
    <3> QED
      BY <3>3, <3>4, <3>5
  <2>4. Mid' = Mid /\ Places'
    BY <1>1, <2>1, PlacesStay
  <2>5. \A i \in 1 .. Len(in') : in'[i] # None => Whole(in'[i])
    <3> SUFFICES ASSUME NEW i \in 1 .. Len(in'), in'[i] # None PROVE Whole(in'[i])
      OBVIOUS
    <3>1. Len(in) \in Nat
      BY <1>4, SeqFacts
    <3>2. i \in 1 .. Len(in)
      BY <2>3, <3>1
    <3> QED
      BY <2>1, <2>2, <2>3, <3>2 DEF Flow
  <2>6. (\A i \in 1 .. Len(in) : in[i] # None => Whole(in[i]))'
    BY <1>1, <2>5 DEF Whole
  <2>7. (\A i \in 1 .. Len(blocks) : Whole(blocks[i]))'
    <3>1. (\A i \in 1 .. Len(blocks) : Whole(blocks[i])) /\ blocks' = blocks /\ first' = first
      BY <1>1, <1>2, <2>1 DEF Flow
    <3> QED
      BY ONLY <3>1 DEF Whole
  <2>8. (\A i \in 1 .. Len(in) : in[i] = None => i = Len(in) /\ ended)'
    BY <1>1, <2>3 DEF PoisonIsLast
  <2>9. /\ Run(Real(in), Mid, given)' /\ Run(out, received, progress)' /\ Run(blocks, progress, Mid)'
        /\ (\A i \in 1 .. Len(out) : out[i] # None)'
    BY <1>1, <1>2, <2>1, <2>3, <2>4 DEF Flow
  <2>10. Flow'
    BY <2>6, <2>7, <2>8, <2>9 DEF Flow
  <2> QED
    BY <1>6, <2>4, <2>10 DEF IInv
<1> QED
  BY <1>7, <1>8

\* The chain takes a block that the stream has handed on.
LEMMA DrainKeeps ==
  ASSUME IInv, Drain
  PROVE  IInv'
<1>1. /\ TypeOK /\ out # << >> /\ out' = Tail(out)
      /\ Head(out) = None => free' = free /\ received' = received
      /\ Head(out) # None => free' = Append(free, Head(out).mem) /\ received' = received + Head(out).size
      /\ UNCHANGED <<first, in, stream, pc, given, ended>>
  BY DEF IInv, Drain
<1>2. UNCHANGED <<blocks, blocks_it, current, block_end, marked, hit_poison, poisoned, progress>>
  BY <1>1 DEF stream
<1>3. PICK x : x = Head(out)
  OBVIOUS
<1>4. /\ out \in Seq(Pieces \cup {None}) /\ received \in Nat /\ progress \in Nat
      /\ free \in Seq(0 .. BlockCount - 1)
  BY <1>1 DEF TypeOK
<1>5. /\ out' \in Seq(Pieces \cup {None}) /\ Len(out) \in Nat \ {0} /\ Len(out') = Len(out) - 1
      /\ x = out[1] /\ x \in Pieces \cup {None} /\ \A i \in 1 .. Len(out) - 1 : out'[i] = out[i + 1]
  BY <1>1, <1>3, <1>4, SeqTail
<1>6. TypeOK'
  <2>1. CASE x = None
    BY <1>1, <1>2, <1>3, <1>5, <2>1 DEF TypeOK
  <2>2. CASE x # None
    <3>1. x.mem \in 0 .. BlockCount - 1 /\ x.size \in Nat
      <4>1. x \in Pieces
        BY <1>5, <2>2
      <4>2. x.mem \in 0 .. BlockCount - 1
        BY <4>1 DEF Pieces
      <4> QED
        BY <4>1, <4>2, BlockAddresses
    <3>2. free' \in Seq(0 .. BlockCount - 1)
      <4>1. PICK memory : memory = 0 .. BlockCount - 1
        OBVIOUS
      <4>2. free \in Seq(memory) /\ x.mem \in memory /\ free' = Append(free, x.mem)
        BY <1>1, <1>3, <1>4, <2>2, <3>1, <4>1
      <4>3. free' \in Seq(memory)
        BY ONLY <4>2, SeqAppend
      <4> QED
        BY <4>1, <4>3
    <3>3. received' \in Nat
      BY <1>1, <1>3, <1>4, <2>2, <3>1
    <3> QED
      BY <1>1, <1>2, <1>5, <3>2, <3>3 DEF TypeOK
  <2> QED
    BY <2>1, <2>2
<1>7. CASE ~Open
  BY <1>1, <1>6, <1>7 DEF IInv, Open
<1>8. CASE Open
  <2>1. Flow /\ Places
    BY <1>8 DEF IInv
  <2>2. Run(out, received, progress) /\ \A i \in 1 .. Len(out) : out[i] # None
    BY <2>1 DEF Flow
  <2>3. out \in Seq(Pieces)
    <3>1. \A i \in 1 .. Len(out) : out[i] \in Pieces
      BY <1>4, <2>2, SeqFacts
    <3> QED
      BY <1>4, <3>1, SeqNarrow
  <2>4. x # None /\ received' = received + x.size
    <3>1. 1 \in 1 .. Len(out)
      BY <1>5
    <3> QED
      BY <1>1, <1>3, <1>5, <2>2, <3>1
  <2>5. Run(out', received', progress)
    <3>1. Run(out', received + out[1].size, progress)
      BY <1>1, <1>4, <2>2, <2>3, RunTail
    <3> QED
      BY <1>5, <2>4, <3>1
  <2>6. \A i \in 1 .. Len(out') : out'[i] # None
    <3> SUFFICES ASSUME NEW i \in 1 .. Len(out') PROVE out'[i] # None
      OBVIOUS
    <3>1. i \in 1 .. Len(out) - 1 /\ i + 1 \in 1 .. Len(out)
      BY <1>5
    <3> QED
      BY <1>5, <2>2, <3>1
  <2>7. Mid' = Mid /\ Places'
    BY <1>1, <2>1, PlacesStay
  <2>8. (\A i \in 1 .. Len(blocks) : Whole(blocks[i]))' /\ (\A i \in 1 .. Len(in) : in[i] # None => Whole(in[i]))'
    <3>1. /\ \A i \in 1 .. Len(blocks) : Whole(blocks[i])
          /\ \A i \in 1 .. Len(in) : in[i] # None => Whole(in[i])
          /\ blocks' = blocks /\ first' = first /\ in' = in
      BY <1>1, <1>2, <2>1 DEF Flow
    <3> QED
      BY ONLY <3>1 DEF Whole
  <2>9. /\ (\A i \in 1 .. Len(in) : in[i] = None => i = Len(in) /\ ended)'
        /\ Run(Real(in), Mid, given)' /\ Run(blocks, progress, Mid)'
    BY <1>1, <1>2, <2>1, <2>7 DEF Flow
  <2>10. Run(out, received, progress)' /\ (\A i \in 1 .. Len(out) : out[i] # None)'
    BY <1>2, <2>5, <2>6
  <2>11. Flow'
    BY <2>8, <2>9, <2>10 DEF Flow
  <2> QED
    BY <1>6, <2>7, <2>11 DEF IInv
<1> QED
  BY <1>7, <1>8

-----------------------------------------------------------------------------
(* The theorems                                                            *)

\* The stream begins before the first record.
LEMMA InitKeeps ==
  ASSUME Init
  PROVE  IInv /\ Pos = 0
<1>1. /\ first \in BOOLEAN /\ in = << >> /\ out = << >> /\ blocks = << >> /\ blocks_it = 0
      /\ current = None /\ block_end = None /\ marked = None /\ hit_poison = FALSE /\ poisoned = FALSE
      /\ progress = 0 /\ pc = "fetch" /\ given = 0 /\ received = 0 /\ ended = FALSE
      /\ free = [i \in 1 .. BlockCount |-> i - 1]
  BY DEF Init
<1>2. free \in Seq(0 .. BlockCount - 1)
  <2>1. free \in [1 .. BlockCount -> 0 .. BlockCount - 1] /\ BlockCount \in Nat
    BY <1>1, CountAssumption
  <2> QED
    BY <2>1, SeqDef
<1>3. 0 \in 0 .. BlockCount /\ BlockCount > 0
  BY CountAssumption
<1>4. TypeOK
  <2>1. in \in Seq(Pieces \cup {None}) /\ out \in Seq(Pieces \cup {None}) /\ blocks \in Seq(Pieces)
    BY <1>1
  <2>2. {current, block_end, marked} \subseteq Addresses \cup {None}
    BY <1>1
  <2>3. {hit_poison, poisoned, ended} \subseteq BOOLEAN
    BY <1>1
  <2>4. {progress, given, received} \subseteq Nat
    BY <1>1
  <2>5. first \in BOOLEAN /\ blocks_it \in 0 .. BlockCount
    BY <1>1, <1>3
  <2>6. pc \in {"fetch", "ready", "closing", "closed", "aborted"}
    BY <1>1
  <2> QED
    BY ONLY <1>2, <2>1, <2>2, <2>3, <2>4, <2>5, <2>6 DEF TypeOK
<1>5. Len(blocks) = 0 /\ Len(in) = 0 /\ Len(out) = 0
  BY <1>1
<1>6. Mid = 0 /\ Pos = 0
  BY <1>1, <1>5 DEF Mid, Pos
<1>7. Real(in) = << >>
  <2>1. in = << >>
    BY <1>1
  <2> QED
    BY ONLY <2>1 DEF Real
<1>8. Flow
  <2>1. \A q : q = << >> /\ Len(q) = 0 => Run(q, 0, 0)
    BY DEF Run
  <2>2. Len(Real(in)) = 0
    BY <1>7
  <2>3. Run(in, 0, 0) /\ Run(out, 0, 0) /\ Run(blocks, 0, 0) /\ Run(Real(in), 0, 0)
    BY <1>1, <1>5, <1>7, <2>1, <2>2
  <2> QED
    BY <1>1, <1>5, <1>6, <2>3 DEF Flow
<1>9. AtEnd
  BY <1>1, <1>5 DEF AtEnd
<1>10. Places
  BY <1>1, <1>3, <1>5, <1>6, <1>9 DEF Places
<1> QED
  BY <1>4, <1>6, <1>8, <1>10 DEF IInv

\* Every step keeps the invariant.
LEMMA NextKeeps ==
  ASSUME IInv, [Next]_vars, 0 \notin Sizes
  PROVE  IInv'
<1>1. CASE StreamStep
  <2>1. CASE Fetch
    BY <2>1, FetchKeeps
  <2>2. CASE Advance
    BY <2>2, AdvanceKeeps
  <2>3. CASE AdvanceBuffered
    BY <2>3, AdvanceBufferedKeeps
  <2>4. CASE AdvanceAppend
    BY <2>4, AdvanceAppendKeeps
  <2>5. CASE Mark
    BY <2>5, MarkKeeps
  <2>6. CASE Rewind
    BY <2>6, RewindKeeps
  <2>7. CASE Poison
    BY <2>7, PoisonKeeps DEF IInv, Open
  <2>8. CASE PoisonNothing
    BY <2>8, PoisonNothingKeeps DEF IInv, Open
  <2>9. CASE PoisonConsume
    BY <2>9, PoisonConsumeKeeps
  <2> QED
    BY <1>1, <2>1, <2>2, <2>3, <2>4, <2>5, <2>6, <2>7, <2>8, <2>9 DEF StreamStep
<1>2. CASE Give
  BY <1>2, GiveKeeps
<1>3. CASE EndInput
  BY <1>3, EndInputKeeps
<1>4. CASE Drain
  BY <1>4, DrainKeeps
<1>5. CASE UNCHANGED vars
  <2>1. UNCHANGED <<stream, pc, chain, first, in, out>>
    BY <1>5 DEF vars
  <2>2. UNCHANGED <<first, in, out, blocks, blocks_it, current, block_end, marked, hit_poison,
                    poisoned, progress, pc, free, given, ended, received>>
    BY <2>1 DEF stream, chain
  <2>3. TypeOK'
    BY <2>2 DEF IInv, TypeOK
  <2>4. CASE ~Open
    BY <2>2, <2>3, <2>4 DEF IInv, Open
  <2>5. CASE Open
    BY <2>1, <2>2, <2>3, <2>5, FlowStays, PlacesStay DEF IInv
  <2> QED
    BY <2>4, <2>5
<1> QED
  BY <1>1, <1>2, <1>3, <1>4, <1>5 DEF Next, Stopped

\* If the stream is given no empty block, the invariant always holds.
THEOREM Invariance ==
  ASSUME 0 \notin Sizes
  PROVE  Spec => []IInv
<1>1. Init => IInv
  BY InitKeeps
<1>2. IInv /\ [Next]_vars => IInv'
  BY NextKeeps
<1> QED
  BY <1>1, <1>2, PTL DEF Spec

-----------------------------------------------------------------------------
(* What the invariant says                                                 *)

\* The cursor of an open stream is on a record of the buffer.
LEMMA CursorIsOnRecord ==
  ASSUME IInv
  PROVE  CursorOnRecord
<1> SUFFICES ASSUME pc = "ready", ~poisoned
             PROVE  /\ blocks_it < Len(blocks)
                    /\ LET b == blocks[blocks_it + 1]
                       IN  /\ Base(b.mem) <= current /\ current < block_end
                           /\ block_end = BlockEnd(b)
  BY DEF CursorOnRecord
<1>1. OnRecord
  BY DEF IInv, Open, Places
<1> QED
  BY <1>1 DEF OnRecord

\* The blocks in the stream and around it, one after the other.
LEMMA OneRun ==
  ASSUME TypeOK, Flow, NEW all, all = Real(out) \o blocks \o Real(in)
  PROVE  all \in Seq(Pieces) /\ Run(all, received, given)
<1>1. /\ received \in Nat /\ progress \in Nat /\ given \in Nat /\ Mid \in Nat
      /\ out \in Seq(Pieces \cup {None}) /\ in \in Seq(Pieces \cup {None}) /\ blocks \in Seq(Pieces)
  BY Buffer DEF TypeOK
<1>2. Run(out, received, progress) /\ Run(blocks, progress, Mid) /\ Run(Real(in), Mid, given)
  BY DEF Flow
<1>3. NoPoison(out) /\ PoisonIsLast(in)
  BY DEF Flow, NoPoison, PoisonIsLast
<1>4. out \in Seq(Pieces) /\ Real(out) = out
  <2>1. None \in Pieces \cup {None} /\ Append(out, None) = Append(out, None)
    OBVIOUS
  <2> QED
    BY <1>1, <1>3, <2>1, RealAppend
<1>5. Real(in) \in Seq(Pieces)
  BY <1>1, <1>3, RealIsBlocks
<1>6. PICK p : p = out \o blocks
  OBVIOUS
<1>7. p \in Seq(Pieces) /\ Run(p, received, Mid)
  BY <1>1, <1>2, <1>4, <1>6, RunConcat
<1>8. all = p \o Real(in)
  BY <1>4, <1>6
<1> QED
  BY <1>1, <1>2, <1>5, <1>7, <1>8, RunConcat

\* No record is lost or there twice.
LEMMA EveryRecordIsOnce ==
  ASSUME IInv
  PROVE  EveryRecordOnce
<1> SUFFICES ASSUME pc \notin {"closed", "closing"}
             PROVE  LET all == Real(out) \o blocks \o Real(in)
                    IN  /\ \A i \in 1 .. Len(all) :
                             all[i].start = received + Records(SubSeq(all, 1, i - 1))
                        /\ received + Records(all) = given
  BY DEF EveryRecordOnce
<1>1. TypeOK /\ Flow
  BY DEF IInv, Open, TypeOK
<1>2. PICK all : all = Real(out) \o blocks \o Real(in)
  OBVIOUS
<1>3. received \in Nat /\ given \in Nat
  BY <1>1 DEF TypeOK
<1>4. all \in Seq(Pieces) /\ Run(all, received, given)
  BY <1>1, <1>2, OneRun
<1>5. received <= given /\ Records(all) = given - received
  BY <1>3, <1>4, RunRecords
<1>6. ASSUME NEW i \in 1 .. Len(all)
      PROVE  all[i].start = received + Records(SubSeq(all, 1, i - 1))
  <2>1. Len(all) \in Nat
    BY <1>4, SeqFacts
  <2>2. PICK n : n = i - 1
    OBVIOUS
  <2>3. n \in 0 .. Len(all) /\ n < Len(all) /\ n + 1 = i
    BY <2>1, <2>2
  <2>4. PICK m : (n = 0 => m = received) /\ (n # 0 => m = all[n].start + all[n].size)
    OBVIOUS
  <2>5. PICK p : p = SubSeq(all, 1, n)
    OBVIOUS
  <2>6. p \in Seq(Pieces) /\ Run(p, received, m)
    BY <1>3, <1>4, <2>3, <2>4, <2>5, RunFirst
  <2>7. all[i].start = m
    <3>1. n < Len(all) => all[n + 1].start = m
      BY <1>3, <1>4, <2>3, <2>4, RunNext
    <3> QED
      BY <2>3, <3>1
  <2>8. m \in Nat
    <3>1. all[i] \in Pieces
      BY <1>4, SeqFacts
    <3> QED
      BY <2>7, <3>1, BlockAddresses
  <2>9. received <= m /\ Records(p) = m - received
    BY <1>3, <2>6, <2>8, RunRecords
  <2>10. received + Records(p) = m
    BY ONLY <1>3, <2>8, <2>9
  <2> QED
    BY <2>2, <2>5, <2>7, <2>10
<1>7. received + Records(all) = given
  BY ONLY <1>3, <1>5
<1> QED
  BY <1>2, <1>6, <1>7

\* Full blocks begin a block's length apart.
LEMMA FullBlocks ==
  ASSUME NEW q \in Seq(Pieces), NEW a \in Nat, NEW b \in Nat, Run(q, a, b), q # << >>,
         \A i \in 1 .. Len(q) : q[i].size = PerBlock
  PROVE  b = a + Len(q) * PerBlock
<1> DEFINE S == {n \in Nat : n + 1 <= Len(q) => q[n + 1].start = a + n * PerBlock}
<1>1. Len(q) \in Nat \ {0} /\ PerBlock \in Nat /\ \A i \in 1 .. Len(q) : q[i].start \in Nat
  <2>1. Len(q) \in Nat \ {0} /\ \A i \in 1 .. Len(q) : q[i] \in Pieces
    BY SeqFacts
  <2> QED
    BY <2>1, SizesAssumption, BlockAddresses
<1>2. 0 \in S
  <2>1. q[1].start = a /\ 0 * PerBlock = 0 /\ a + 0 = a /\ 0 + 1 = 1
    BY <1>1 DEF Run
  <2> QED
    BY <2>1
<1>3. ASSUME NEW n \in Nat, n \in S
      PROVE  n + 1 \in S
  <2> SUFFICES ASSUME (n + 1) + 1 <= Len(q)
               PROVE  q[(n + 1) + 1].start = a + (n + 1) * PerBlock
    OBVIOUS
  <2>1. n + 1 \in 1 .. Len(q) - 1 /\ n + 1 <= Len(q) /\ n + 1 \in 1 .. Len(q)
    BY <1>1
  <2>2. q[n + 1].start = a + n * PerBlock /\ q[n + 1].size = PerBlock
    BY <1>3, <2>1
  <2>3. q[(n + 1) + 1].start = q[n + 1].start + q[n + 1].size
    BY <2>1 DEF Run
  <2>4. (n + 1) * PerBlock = n * PerBlock + PerBlock /\ n * PerBlock \in Nat
    BY <1>1
  <2> QED
    BY ONLY <1>1, <2>2, <2>3, <2>4
<1>4. Nat \subseteq S
  <2> HIDE DEF S
  <2> QED
    BY <1>2, <1>3, Induction
<1>5. PICK n \in Nat : n + 1 = Len(q)
  <2>1. Len(q) - 1 \in Nat /\ (Len(q) - 1) + 1 = Len(q)
    BY <1>1
  <2> QED
    BY <2>1
<1>6. q[Len(q)].start = a + n * PerBlock
  BY <1>4, <1>5
<1>7. b = q[Len(q)].start + PerBlock
  <2>1. Len(q) \in 1 .. Len(q)
    BY <1>1
  <2> QED
    BY <2>1 DEF Run
<1>8. (n + 1) * PerBlock = n * PerBlock + PerBlock /\ n * PerBlock \in Nat
  BY <1>1
<1>9. a + Len(q) * PerBlock = (a + n * PerBlock) + PerBlock
  <2>1. Len(q) * PerBlock = n * PerBlock + PerBlock
    BY <1>5, <1>8
  <2>2. PICK x, y : x = n * PerBlock /\ y = Len(q) * PerBlock
    OBVIOUS
  <2>3. a + y = (a + x) + PerBlock
    BY <1>1, <1>8, <2>1, <2>2
  <2> QED
    BY <2>2, <2>3
<1> QED
  BY <1>6, <1>7, <1>9

\* Blocks behind the mark are full, but for the last: they hold the vocabulary.
LEMMA VocabularyFits ==
  ASSUME IInv
  PROVE  FitsVocabulary
<1> SUFFICES ASSUME first, pc = "aborted", marked # None
             PROVE  Pos - MarkPos > (BlockCount - 1) * PerBlock
  BY DEF FitsVocabulary
<1>1. TypeOK /\ Flow /\ Places
  BY DEF IInv, Open
<1>2. AtEnd /\ Len(blocks) = BlockCount
  BY <1>1 DEF Places
<1>3. PICK b : b = blocks[1]
  OBVIOUS
<1>4. /\ b \in Pieces /\ blocks # << >> /\ 1 \in 1 .. Len(blocks) /\ b.start = progress
      /\ MarkPos \in Nat /\ MarkPos < b.start + b.size
  BY <1>1, <1>3, MarkFacts
<1>5. Pos = Mid /\ Mid \in Nat /\ progress \in Nat /\ blocks \in Seq(Pieces)
  BY <1>1, <1>2, PositionAtEnd, Buffer DEF TypeOK
<1>6. \A i \in 1 .. Len(blocks) : blocks[i].size = PerBlock
  BY <1>1 DEF Flow, Whole
<1>7. Run(blocks, progress, Mid)
  BY <1>1 DEF Flow
<1>8. Mid = progress + Len(blocks) * PerBlock
  BY <1>4, <1>5, <1>6, <1>7, FullBlocks
<1>9. MarkPos < progress + PerBlock
  BY <1>3, <1>4, <1>6
<1>10. (BlockCount - 1) * PerBlock + PerBlock = BlockCount * PerBlock /\ BlockCount * PerBlock \in Nat
       /\ PerBlock \in Nat /\ (BlockCount - 1) * PerBlock \in Int
  BY CountAssumption, SizesAssumption
<1>11. Pos = progress + BlockCount * PerBlock
  BY <1>2, <1>5, <1>8
<1>12. PICK k \in Int : k = (BlockCount - 1) * PerBlock /\ k + PerBlock = BlockCount * PerBlock
  BY <1>10
<1>13. Pos = progress + (k + PerBlock) /\ MarkPos \in Nat /\ progress \in Nat /\ PerBlock \in Nat
  BY <1>4, <1>5, <1>10, <1>11, <1>12
<1>14. Pos - MarkPos > k
  <2>1. MarkPos < progress + PerBlock /\ k \in Int
    BY <1>9, <1>12
  <2>2. PICK x, y : x = Pos /\ y = MarkPos
    OBVIOUS
  <2>3. x - y > k
    BY ONLY <1>13, <2>1, <2>2
  <2> QED
    BY <2>2, <2>3
<1> QED
  BY <1>12, <1>14

\* BufferInvariant: the cursor is on a record, BlockCount - 1 full blocks fit
\* after a mark, and every record is in one place.
THEOREM BufferInvariantHolds ==
  ASSUME 0 \notin Sizes
  PROVE  Spec => []BufferInvariant
<1>1. IInv => BufferInvariant
  BY CursorIsOnRecord, EveryRecordIsOnce, VocabularyFits DEF IInv, BufferInvariant
<1> QED
  BY <1>1, Invariance, PTL

-----------------------------------------------------------------------------
(* The stream is a tape                                                    *)

\* Steps that move neither the cursor nor the mark, and hand nothing on.
LEMMA Stutters ==
  ASSUME UNCHANGED <<TapePos, TapeMark, progress, Closed>>
  PROVE  UNCHANGED Cursor!vars
BY DEF Cursor!vars

\* Steps of the chain around the stream.
LEMMA ChainStutters ==
  ASSUME UNCHANGED <<stream, pc>>
  PROVE  UNCHANGED Cursor!vars
<1>1. UNCHANGED <<blocks, blocks_it, current, block_end, marked, hit_poison, poisoned, progress, pc>>
  BY DEF stream
<1>2. UNCHANGED <<TapePos, TapeMark, progress, Closed>>
  BY <1>1 DEF TapePos, TapeMark, Closed, Pos, MarkPos
<1> QED
  BY <1>2, Stutters

\* While the stream is open, what the tape shows of it.
LEMMA Shown ==
  ASSUME IInv, ~Closed
  PROVE  /\ TapePos = Pos /\ TapeMark = (IF marked = None THEN None ELSE MarkPos)
         /\ (TapeMark = None <=> marked = None) /\ progress \in Nat /\ progress <= Pos /\ Closed = FALSE
         /\ marked # None => progress <= MarkPos /\ MarkPos \in Nat
<1>1. TypeOK /\ Flow /\ Places
  <2>1. Open
    BY DEF IInv, Open, Closed, TypeOK
  <2> QED
    BY <2>1 DEF IInv
<1>2. marked # None => progress <= MarkPos /\ MarkPos \in Nat
  <2>1. PICK b : b = blocks[1]
    OBVIOUS
  <2> QED
    BY <1>1, <2>1, MarkFacts
<1>3. progress \in Nat /\ progress <= Pos
  BY <1>1 DEF Places, TypeOK
<1>4. Closed = FALSE
  BY DEF Closed
<1> QED
  BY <1>2, <1>3, <1>4, NoPiece DEF TapePos, TapeMark

\* What the tape shows of it afterwards.
LEMMA ShownNext ==
  ASSUME ~Closed'
  PROVE  /\ TapePos' = Pos' /\ TapeMark' = (IF marked' = None THEN None ELSE MarkPos')
         /\ Closed' = FALSE
<1>1. Closed' = FALSE
  BY DEF Closed
<1> QED
  BY <1>1 DEF TapePos, TapeMark

\* Moving on within the buffer.
LEMMA MovesOn ==
  ASSUME IInv, pc = "ready", pc' = pc, marked' = marked, progress' = progress,
         Pos \in Nat, Pos' = Pos + 1, MarkPos' = MarkPos
  PROVE  Cursor!Forward
<1>1. ~Closed /\ ~Closed'
  BY DEF Closed
<1>2. /\ TapePos = Pos /\ TapeMark = (IF marked = None THEN None ELSE MarkPos)
      /\ (TapeMark = None <=> marked = None) /\ progress \in Nat /\ progress <= Pos /\ Closed = FALSE
      /\ marked # None => progress <= MarkPos /\ MarkPos \in Nat
  BY <1>1, Shown
<1>3. /\ TapePos' = Pos' /\ TapeMark' = (IF marked' = None THEN None ELSE MarkPos')
      /\ Closed' = FALSE
  BY <1>1, ShownNext
<1>4. TapePos' \in {TapePos, TapePos + 1} /\ TapeMark' = TapeMark /\ Closed' = Closed
  BY <1>2, <1>3
<1>5. progress' \in progress .. (IF TapeMark = None THEN TapePos' ELSE TapeMark)
  <2>1. CASE marked = None
    <3>1. progress' \in progress .. TapePos'
      BY ONLY <1>2, <1>3, progress' = progress, Pos \in Nat, Pos' = Pos + 1
    <3> QED
      BY <1>2, <2>1, <3>1
  <2>2. CASE marked # None
    <3>1. progress' \in progress .. MarkPos
      BY <1>2, <2>2
    <3> QED
      BY <1>2, <2>2, <3>1
  <2> QED
    BY <2>1, <2>2
<1> QED
  BY <1>1, <1>4, <1>5 DEF Cursor!Forward

\* The position of a record is a number.
LEMMA PosIsNumber ==
  ASSUME TypeOK, OnRecord
  PROVE  Pos \in Nat
<1>1. PICK b : b = blocks[blocks_it + 1]
  OBVIOUS
<1> QED
  BY <1>1, PositionOnRecord

\* Every step of the stream is one of the tape, or leaves it as it is.
LEMMA StepMaps ==
  ASSUME IInv, [Next]_vars, 0 \notin Sizes
  PROVE  Cursor!Next \/ UNCHANGED Cursor!vars
<1>1. CASE Fetch
  <2>1. pc = "fetch" /\ pc' \in {"fetch", "ready"} /\ marked' = marked /\ progress' = progress
    BY <1>1 DEF Fetch
  <2>2. ~Closed /\ ~Closed'
    BY <2>1 DEF Closed
  <2>3. Pos' = Pos /\ (marked # None => MarkPos' = MarkPos)
    BY <1>1, FetchKeeps
  <2>4. /\ TapePos = Pos /\ TapeMark = (IF marked = None THEN None ELSE MarkPos) /\ Closed = FALSE
        /\ TapePos' = Pos' /\ TapeMark' = (IF marked' = None THEN None ELSE MarkPos') /\ Closed' = FALSE
    BY <2>2, Shown, ShownNext
  <2> QED
    BY <2>1, <2>3, <2>4, Stutters
<1>2. CASE Advance
  <2>1. pc = "ready" /\ pc' = pc /\ marked' = marked /\ progress' = progress /\ ~poisoned
    BY <1>2 DEF Advance
  <2>2. TypeOK /\ OnRecord
    BY <2>1 DEF IInv, Open, Places
  <2>3. Pos' = Pos + 1 /\ MarkPos' = MarkPos
    BY <1>2, AdvanceKeeps
  <2> QED
    BY <2>1, <2>2, <2>3, PosIsNumber, MovesOn DEF Cursor!Next
<1>3. CASE AdvanceBuffered
  <2>1. pc = "ready" /\ pc' = pc /\ marked' = marked /\ progress' = progress /\ ~poisoned
    BY <1>3 DEF AdvanceBuffered
  <2>2. TypeOK /\ OnRecord
    BY <2>1 DEF IInv, Open, Places
  <2>3. Pos' = Pos + 1 /\ MarkPos' = MarkPos
    BY <1>3, AdvanceBufferedKeeps
  <2> QED
    BY <2>1, <2>2, <2>3, PosIsNumber, MovesOn DEF Cursor!Next
<1>4. CASE AdvanceAppend
  <2>1. pc = "ready" /\ marked' = marked /\ ~poisoned
    BY <1>4 DEF AdvanceAppend
  <2>2. ~Closed
    BY <2>1 DEF Closed
  <2>3. TypeOK /\ OnRecord
    BY <2>1 DEF IInv, Open, Places
  <2>4. Pos \in Nat
    BY <2>3, PosIsNumber
  <2>5. /\ IInv' /\ Pos' = Pos + 1 /\ (marked # None => MarkPos' = MarkPos /\ progress' = progress)
        /\ progress <= progress' /\ progress' <= Pos' /\ ~Closed'
    BY <1>4, AdvanceAppendKeeps
  <2>6. /\ TapePos = Pos /\ TapeMark = (IF marked = None THEN None ELSE MarkPos)
        /\ (TapeMark = None <=> marked = None) /\ progress \in Nat /\ progress <= Pos /\ Closed = FALSE
        /\ marked # None => progress <= MarkPos /\ MarkPos \in Nat
    BY <2>2, Shown
  <2>7. /\ TapePos' = Pos' /\ TapeMark' = (IF marked' = None THEN None ELSE MarkPos')
        /\ Closed' = FALSE
    BY <2>5, ShownNext
  <2>8. TapePos' \in {TapePos, TapePos + 1} /\ TapeMark' = TapeMark /\ Closed' = Closed
    BY <2>1, <2>5, <2>6, <2>7
  <2>9. progress' \in progress .. (IF TapeMark = None THEN TapePos' ELSE TapeMark)
    <3>1. progress' \in Nat
      BY <2>5 DEF IInv, TypeOK
    <3>2. CASE marked = None
      <4>1. progress' \in progress .. TapePos'
        BY ONLY <2>4, <2>5, <2>6, <2>7, <3>1
      <4> QED
        BY <2>6, <3>2, <4>1
    <3>3. CASE marked # None
      <4>1. progress' \in progress .. MarkPos
        BY <2>5, <2>6, <3>1, <3>3
      <4> QED
        BY <2>6, <3>3, <4>1
    <3> QED
      BY <3>2, <3>3
  <2> QED
    BY <2>2, <2>8, <2>9 DEF Cursor!Forward, Cursor!Next
<1>5. CASE Mark
  <2>1. pc = "ready" /\ pc' = "ready"
    BY <1>5 DEF Mark
  <2>2. ~Closed /\ ~Closed'
    BY <2>1 DEF Closed
  <2>3. /\ Pos' = Pos /\ MarkPos' = Pos /\ marked' # None
        /\ progress <= progress' /\ progress' <= Pos /\ progress' \in Nat
    BY <1>5, MarkKeeps
  <2>4. TapePos = Pos /\ progress \in Nat /\ Closed = FALSE
    BY <2>2, Shown
  <2>5. TapePos' = Pos' /\ TapeMark' = (IF marked' = None THEN None ELSE MarkPos') /\ Closed' = FALSE
    BY <2>2, ShownNext
  <2>6. TypeOK /\ OnRecord
    BY <1>5, <2>1 DEF IInv, Open, Places, Mark
  <2>7. Pos \in Nat
    BY <2>6, PosIsNumber
  <2>8. TapeMark' = TapePos /\ TapePos' = TapePos /\ Closed' = Closed
    BY <2>3, <2>4, <2>5
  <2>9. progress' \in progress .. TapePos
    BY ONLY <2>3, <2>4, <2>7
  <2> QED
    BY <2>2, <2>8, <2>9 DEF Cursor!Mark, Cursor!Next
<1>6. CASE Rewind
  <2>1. pc = "ready" /\ pc' = "ready" /\ marked # None /\ marked' = marked /\ progress' = progress
    BY <1>6 DEF Rewind
  <2>2. ~Closed /\ ~Closed'
    BY <2>1 DEF Closed
  <2>3. Pos' = MarkPos /\ MarkPos' = MarkPos
    BY <1>6, RewindKeeps
  <2>4. TapeMark = (IF marked = None THEN None ELSE MarkPos) /\ Closed = FALSE
        /\ (TapeMark = None <=> marked = None)
    BY <2>2, Shown
  <2>5. TapePos' = Pos' /\ TapeMark' = (IF marked' = None THEN None ELSE MarkPos') /\ Closed' = FALSE
    BY <2>2, ShownNext
  <2>6. TapeMark # None /\ TapePos' = TapeMark /\ UNCHANGED <<TapeMark, progress, Closed>>
    BY <2>1, <2>3, <2>4, <2>5
  <2> QED
    BY <2>2, <2>6 DEF Cursor!Rewind, Cursor!Next
<1>7. CASE Poison \/ PoisonNothing
  <2>1. pc = "ready"
    BY <1>7 DEF Poison, PoisonNothing
  <2>2. pc' \in {"closing", "closed"} /\ progress' = Pos
    BY <1>7, PoisonKeeps, PoisonNothingKeeps
  <2>3. ~Closed /\ Closed' = TRUE
    BY <2>1, <2>2 DEF Closed
  <2>4. TapePos = Pos
    BY <2>3, Shown
  <2>5. TapePos' = progress' /\ TapeMark' = None
    BY <2>3 DEF TapePos, TapeMark
  <2>6. TapePos' = TapePos /\ progress' = TapePos
    BY <2>2, <2>4, <2>5
  <2> QED
    BY <2>3, <2>5, <2>6 DEF Cursor!Close, Cursor!Next
<1>8. CASE PoisonConsume
  <2>1. pc = "closing" /\ pc' = "closed" /\ progress' = progress
    BY <1>8, PoisonConsumeKeeps
  <2>2. Closed = TRUE /\ Closed' = TRUE
    BY <2>1 DEF Closed
  <2>3. TapePos' = TapePos /\ TapeMark' = TapeMark
    BY <2>1, <2>2 DEF TapePos, TapeMark
  <2> QED
    BY <2>1, <2>2, <2>3, Stutters
<1>9. CASE Give
  BY <1>9, ChainStutters DEF Give
<1>10. CASE EndInput
  BY <1>10, ChainStutters DEF EndInput
<1>11. CASE Drain
  BY <1>11, ChainStutters DEF Drain
<1>12. CASE UNCHANGED vars
  BY <1>12, ChainStutters DEF vars
<1> QED
  BY <1>1, <1>2, <1>3, <1>4, <1>5, <1>6, <1>7, <1>8, <1>9, <1>10, <1>11, <1>12
     DEF Next, StreamStep, Stopped

\* RewindableStream implements Tape, however many blocks it has and of
\* whatever size, if none is empty: Rewind goes back to the very record that
\* was marked, no record after the mark is handed on, and Poison ends the data
\* at the cursor.
THEOREM Refinement ==
  ASSUME 0 \notin Sizes
  PROVE  Spec => ImplementsTape
<1>1. Init => Cursor!Init
  <2> SUFFICES ASSUME Init PROVE Cursor!Init
    OBVIOUS
  <2>1. Pos = 0 /\ pc = "fetch" /\ marked = None /\ progress = 0
    BY InitKeeps DEF Init
  <2>2. Closed = FALSE
    BY <2>1 DEF Closed
  <2>3. TapePos = 0 /\ TapeMark = None
    BY <2>1, <2>2 DEF TapePos, TapeMark
  <2> QED
    BY <2>1, <2>2, <2>3 DEF Cursor!Init
<1>2. IInv /\ [Next]_vars => [Cursor!Next]_(Cursor!vars)
  BY StepMaps
<1> QED
  BY <1>1, <1>2, Invariance, PTL DEF Spec, ImplementsTape, Cursor!Spec

=============================================================================
