---------------------------- MODULE BinaryProofs ----------------------------
(***************************************************************************)
(* TLAPS proof about lm/binary_format.cc, for any ARPA files, any order of *)
(* their words and any hash function that tells these apart: what is       *)
(* loaded is complete, wherever the program or the machine stopped.        *)
(*                                                                         *)
(* An area only rises, and what is on the disk is below what is cached     *)
(* (Levels).  So it is enough to know how far each area has come when a    *)
(* statement is next (Phases), and that whenever the magic of a complete   *)
(* file may be anywhere the tables are on the disk (Protected): then they  *)
(* are in whatever a stop leaves of the file (TablesFound).  That the      *)
(* words are given the numbers they are found under is about the order of  *)
(* hashes: the sorted words are the ones with 0, 1, 2 ... smaller hashes   *)
(* (RanksAreAll, Place), which is what Index counts.                       *)
(***************************************************************************)
EXTENDS ChartScore, FiniteSetTheorems, SequenceTheorems, TLAPS

-----------------------------------------------------------------------------
(* The vocabulary                                                          *)

\* A sequence has its elements at the numbers up to its length.
LEMMA SeqFacts ==
  ASSUME NEW S, NEW s \in Seq(S)
  PROVE  Len(s) \in Nat /\ DOMAIN s = 1 .. Len(s) /\ \A i \in 1 .. Len(s) : s[i] \in S
OBVIOUS

\* A sequence is one over whatever set has its elements.
LEMMA SeqNarrow ==
  ASSUME NEW S, NEW T, NEW s \in Seq(S), \A i \in 1 .. Len(s) : s[i] \in T
  PROVE  s \in Seq(T)
BY SeqDef

\* A sequence without its k-th element.
LEMMA Removed ==
  ASSUME NEW S, NEW s \in Seq(S), NEW k \in 1 .. Len(s), NEW r, r = RemoveAt(s, k)
  PROVE  /\ r \in Seq(S) /\ Len(r) = Len(s) - 1
         /\ \A i \in 1 .. Len(r) : r[i] = IF i < k THEN s[i] ELSE s[i + 1]
<1> DEFINE p == SubSeq(s, 1, k - 1)
           q == SubSeq(s, k + 1, Len(s))
<1>1. Len(s) \in Nat /\ \A i \in 1 .. Len(s) : s[i] \in S
  BY SeqFacts
<1>2. p \in Seq(S) /\ Len(p) = k - 1 /\ \A i \in 1 .. k - 1 : p[i] = s[i]
  <2>1. \A i \in 1 .. k - 1 : s[i] \in S
    BY <1>1
  <2>2. /\ p \in Seq(S) /\ Len(p) = IF 1 <= k - 1 THEN k - 1 - 1 + 1 ELSE 0
        /\ \A i \in 1 .. k - 1 - 1 + 1 : p[i] = s[1 + i - 1]
    BY <1>1, <2>1, SubSeqProperties
  <2>3. \A i \in 1 .. k - 1 : i \in 1 .. k - 1 - 1 + 1 /\ 1 + i - 1 = i
    BY <1>1
  <2> QED
    BY <1>1, <2>2, <2>3
<1>3. q \in Seq(S) /\ Len(q) = Len(s) - k /\ \A i \in 1 .. Len(s) - k : q[i] = s[k + i]
  <2>1. \A i \in k + 1 .. Len(s) : s[i] \in S
    BY <1>1
  <2>2. /\ q \in Seq(S) /\ Len(q) = IF k + 1 <= Len(s) THEN Len(s) - (k + 1) + 1 ELSE 0
        /\ \A i \in 1 .. Len(s) - (k + 1) + 1 : q[i] = s[(k + 1) + i - 1]
    BY <1>1, <2>1, SubSeqProperties
  <2>3. \A i \in 1 .. Len(s) - k : i \in 1 .. Len(s) - (k + 1) + 1 /\ (k + 1) + i - 1 = k + i
    BY <1>1
  <2> QED
    BY <1>1, <2>2, <2>3
<1> HIDE DEF p, q
<1>4. r = p \o q
  BY DEF RemoveAt, p, q
<1>5. /\ r \in Seq(S) /\ Len(r) = Len(p) + Len(q)
      /\ \A i \in 1 .. Len(p) + Len(q) : r[i] = IF i <= Len(p) THEN p[i] ELSE q[i - Len(p)]
  <2>1. p \in Seq(S) /\ q \in Seq(S)
    BY <1>2, <1>3
  <2> QED
    BY <1>4, <2>1, ConcatProperties
<1>6. Len(r) = Len(s) - 1
  BY <1>1, <1>2, <1>3, <1>5
<1>7. ASSUME NEW i \in 1 .. Len(r)
      PROVE  r[i] = IF i < k THEN s[i] ELSE s[i + 1]
  <2>1. i \in 1 .. Len(p) + Len(q) /\ i \in Nat /\ Len(p) = k - 1
    BY <1>2, <1>5
  <2>2. CASE i < k
    BY <1>1, <1>2, <1>5, <2>1, <2>2
  <2>3. CASE ~(i < k)
    <3>1. r[i] = q[i - Len(p)] /\ i - Len(p) \in 1 .. Len(s) - k /\ k + (i - Len(p)) = i + 1
      BY <1>1, <1>2, <1>5, <1>6, <2>1, <2>3
    <3> QED
      BY <1>3, <2>3, <3>1
  <2> QED
    BY <2>2, <2>3
<1> QED
  BY <1>5, <1>6, <1>7

\* A sequence without x, which it has at most once.
LEMMA RemovedFirst ==
  ASSUME NEW S, NEW s \in Seq(S), \A i, j \in 1 .. Len(s) : s[i] = s[j] => i = j,
         NEW x, NEW r, r = RemoveFirst(s, x)
  PROVE  /\ r \in Seq(S)
         /\ \A i \in 1 .. Len(r) : r[i] # x /\ \E j \in 1 .. Len(s) : r[i] = s[j]
         /\ \A i, j \in 1 .. Len(r) : r[i] = r[j] => i = j
<1>1. Len(s) \in Nat
  BY SeqFacts
<1>2. CASE ~\E i \in 1 .. Len(s) : s[i] = x
  <2>1. r = s
    BY <1>2 DEF RemoveFirst
  <2> QED
    BY <1>2, <2>1
<1>3. CASE \E i \in 1 .. Len(s) : s[i] = x
  <2>1. PICK k \in 1 .. Len(s) : s[k] = x
    BY <1>3
  <2>2. {i \in 1 .. Len(s) : s[i] = x} = {k}
    BY <2>1
  <2>3. Min({k}) = k
    BY <2>1 DEF Min
  <2>4. r = RemoveAt(s, k)
    BY <1>3, <2>2, <2>3 DEF RemoveFirst, SelectInSeq
  <2>5. /\ r \in Seq(S) /\ Len(r) = Len(s) - 1
        /\ \A i \in 1 .. Len(r) : r[i] = IF i < k THEN s[i] ELSE s[i + 1]
    BY <2>4, Removed
  <2>6. ASSUME NEW i \in 1 .. Len(r)
        PROVE  \E j \in 1 .. Len(s) : r[i] = s[j] /\ j # k /\ j = IF i < k THEN i ELSE i + 1
    <3>1. i \in 1 .. Len(s) /\ i + 1 \in 1 .. Len(s) /\ (i < k => i # k) /\ (~(i < k) => i + 1 # k)
      BY <1>1, <2>5
    <3> QED
      BY <2>5, <3>1
  <2>7. ASSUME NEW i \in 1 .. Len(r), NEW j \in 1 .. Len(r), r[i] = r[j]
        PROVE  i = j
    <3>1. PICK m \in 1 .. Len(s) : r[i] = s[m] /\ m = IF i < k THEN i ELSE i + 1
      BY <2>6
    <3>2. PICK n \in 1 .. Len(s) : r[j] = s[n] /\ n = IF j < k THEN j ELSE j + 1
      BY <2>6
    <3>3. m = n
      BY <2>7, <3>1, <3>2
    <3> QED
      BY <1>1, <2>5, <3>1, <3>2, <3>3
  <2> QED
    BY <2>1, <2>5, <2>6, <2>7
<1> QED
  BY <1>2, <1>3

\* The words that are inserted: those listed but for <unk>, each once.
LEMMA WordsInserted ==
  ASSUME binary.listing \in Listings \cup {<< >>}
  PROVE  /\ Inserted1Grams \in Seq(ToSet(Inserted1Grams)) /\ Unk \notin ToSet(Inserted1Grams)
         /\ DOMAIN Inserted1Grams = 1 .. Len(Inserted1Grams) /\ Len(Inserted1Grams) \in Nat
         /\ \A i, j \in 1 .. Len(Inserted1Grams) :
              Inserted1Grams[i] = Inserted1Grams[j] => i = j
         /\ \A v, w \in ToSet(Inserted1Grams) :
              Hash(v) \in Nat /\ (Hash(v) = Hash(w) => v = w)
<1>1. PICK s : s = binary.listing
  OBVIOUS
<1>2. PICK r : r = Inserted1Grams
  OBVIOUS
<1>3. r = RemoveFirst(s, Unk)
  BY <1>1, <1>2 DEF Inserted1Grams
<1>4. /\ s \in Seq(ToSet(s))
      /\ \A i, j \in 1 .. Len(s) : s[i] = s[j] => i = j
      /\ \A i, j \in 1 .. Len(s) : Hash(s[i]) \in Nat /\ (Hash(s[i]) = Hash(s[j]) => i = j)
  <2>1. CASE s \in Listings
    <3>1. s \in Seq(ToSet(s))
      BY <2>1, ListingsAssumption
    <3>2. DOMAIN s = 1 .. Len(s)
      BY <3>1, SeqFacts
    <3> QED
      BY <2>1, <3>1, <3>2, ListingsAssumption, HashAssumption
  <2>2. CASE s = << >>
    BY <2>2
  <2> QED
    BY <1>1, <2>1, <2>2
<1>5. /\ r \in Seq(ToSet(s))
      /\ \A i \in 1 .. Len(r) : r[i] # Unk /\ \E j \in 1 .. Len(s) : r[i] = s[j]
      /\ \A i, j \in 1 .. Len(r) : r[i] = r[j] => i = j
  BY <1>3, <1>4, RemovedFirst
<1>6. DOMAIN r = 1 .. Len(r) /\ Len(r) \in Nat
  BY <1>5, SeqFacts
<1>7. \A w \in ToSet(r) : \E i \in 1 .. Len(r) : w = r[i]
  BY <1>6 DEF ToSet
<1>8. \A w \in ToSet(r) : w # Unk /\ \E j \in 1 .. Len(s) : w = s[j]
  BY <1>5, <1>7
<1>9. \A v, w \in ToSet(r) : Hash(v) \in Nat /\ (Hash(v) = Hash(w) => v = w)
  BY <1>4, <1>8
<1>10. r \in Seq(ToSet(r))
  <2>1. \A i \in 1 .. Len(r) : r[i] \in ToSet(r)
    BY <1>6 DEF ToSet
  <2> QED
    BY <1>5, <1>6, <2>1, SeqNarrow
<1> QED
  BY <1>2, <1>5, <1>6, <1>8, <1>9, <1>10

\* The number of elements of S of a hash below w's.
Rank(S, w) == Cardinality({v \in S : Hash(v) < Hash(w)})

\* A smaller hash has a smaller number.
LEMMA RankGrows ==
  ASSUME NEW S, IsFiniteSet(S), \A v, w \in S : Hash(v) \in Nat /\ (Hash(v) = Hash(w) => v = w),
         NEW v \in S, NEW w \in S, Hash(v) < Hash(w)
  PROVE  Rank(S, v) < Rank(S, w)
<1> DEFINE A == {u \in S : Hash(u) < Hash(v)}
           B == {u \in S : Hash(u) < Hash(w)}
<1>1. \A u \in S : Hash(u) \in Nat
  OBVIOUS
<1>2. A \subseteq B /\ v \in B /\ v \notin A /\ B \subseteq S
  BY <1>1
<1>3. IsFiniteSet(B)
  BY <1>2, FS_Subset
<1>4. A # B
  BY <1>2
<1>5. Cardinality(A) < Cardinality(B)
  <2> HIDE DEF A, B
  <2> QED
    BY <1>2, <1>3, <1>4, FS_Subset, FS_CardinalityType
<1> QED
  BY <1>5 DEF Rank

\* The numbers of the elements of S are those from 0 to |S| - 1.
LEMMA RanksAreAll ==
  ASSUME NEW S, IsFiniteSet(S), \A v, w \in S : Hash(v) \in Nat /\ (Hash(v) = Hash(w) => v = w)
  PROVE  /\ \A w \in S : Rank(S, w) \in 0 .. Cardinality(S) - 1
         /\ \A n \in 0 .. Cardinality(S) - 1 : \E w \in S : Rank(S, w) = n
         /\ \A v, w \in S : Rank(S, v) < Rank(S, w) => Hash(v) < Hash(w)
         /\ \A v, w \in S : Rank(S, v) = Rank(S, w) => v = w
<1>1. Cardinality(S) \in Nat
  BY FS_CardinalityType
<1>2. ASSUME NEW w \in S
      PROVE  Rank(S, w) \in 0 .. Cardinality(S) - 1
  <2> DEFINE A == {u \in S : Hash(u) < Hash(w)}
  <2>1. A \subseteq S /\ w \notin A
    OBVIOUS
  <2> HIDE DEF A
  <2>2. A # S
    BY <2>1
  <2>3. IsFiniteSet(A) /\ Cardinality(A) < Cardinality(S) /\ Cardinality(A) \in Nat
    BY <2>1, <2>2, FS_Subset, FS_CardinalityType
  <2>4. Rank(S, w) = Cardinality(A)
    BY DEF Rank, A
  <2> QED
    BY <1>1, <2>3, <2>4
<1>3. ASSUME NEW v \in S, NEW w \in S
      PROVE  /\ Rank(S, v) < Rank(S, w) => Hash(v) < Hash(w)
             /\ Rank(S, v) = Rank(S, w) => v = w
  <2>1. Hash(v) \in Nat /\ Hash(w) \in Nat /\ Rank(S, v) \in Nat /\ Rank(S, w) \in Nat
    BY <1>1, <1>2
  <2>2. Hash(v) < Hash(w) => Rank(S, v) < Rank(S, w)
    BY RankGrows
  <2>3. Hash(w) < Hash(v) => Rank(S, w) < Rank(S, v)
    BY RankGrows
  <2>4. Hash(v) = Hash(w) => v = w
    OBVIOUS
  <2> QED
    BY <2>1, <2>2, <2>3, <2>4
<1>4. \A n \in 0 .. Cardinality(S) - 1 : \E w \in S : Rank(S, w) = n
  <2> DEFINE T == 0 .. Cardinality(S) - 1
             f == [w \in S |-> Rank(S, w)]
  <2>1. IsFiniteSet(T) /\ Cardinality(T) = Cardinality(S)
    <3>1. Cardinality(S) - 1 \in Int /\ Cardinality(S) - 1 - 0 + 1 = Cardinality(S)
      BY <1>1
    <3> QED
      BY <1>1, <3>1, FS_Interval
  <2>2. f \in Injection(S, T)
    <3>1. f \in [S -> T]
      BY <1>2
    <3>2. \A v, w \in S : f[v] = f[w] => v = w
      BY <1>3
    <3> QED
      BY <3>1, <3>2 DEF Injection, IsInjective
  <2>3. f \in Surjection(S, T)
    <3> HIDE DEF f, T
    <3> QED
      BY <2>1, <2>2, FS_Injection
  <2> QED
    BY <2>3 DEF Surjection
<1> QED
  BY <1>2, <1>3, <1>4

\* A sequence with no element twice has as many elements as its length.
LEMMA Listed ==
  ASSUME NEW S, NEW n \in Nat, NEW s \in [1 .. n -> S], \A i, j \in 1 .. n : s[i] = s[j] => i = j,
         \A w \in S : \E i \in 1 .. n : s[i] = w
  PROVE  IsFiniteSet(S) /\ Cardinality(S) = n
<1>1. IsFiniteSet(1 .. n) /\ Cardinality(1 .. n) = n
  <2>1. n \in Int /\ 1 \in Int /\ (IF 1 > n THEN 0 ELSE n - 1 + 1) = n
    OBVIOUS
  <2> QED
    BY <2>1, FS_Interval
<1>2. s \in Injection(1 .. n, S) /\ s \in Surjection(1 .. n, S)
  BY DEF Injection, IsInjective, Surjection
<1> QED
  BY <1>1, <1>2, FS_Surjection

\* Where an element is in the order of the hashes.
LEMMA Place ==
  ASSUME NEW S, \A v, w \in S : Hash(v) \in Nat /\ (Hash(v) = Hash(w) => v = w),
         IsFiniteSet(S), NEW n \in Nat, Cardinality(S) = n,
         NEW s \in [1 .. n -> S], \A i, j \in 1 .. n : i < j => Hash(s[i]) < Hash(s[j]),
         NEW k \in 1 .. n
  PROVE  Rank(S, s[k]) = k - 1
<1>1. IsFiniteSet(1 .. n) /\ Cardinality(1 .. n) = n
  <2>1. n \in Int /\ 1 \in Int /\ (IF 1 > n THEN 0 ELSE n - 1 + 1) = n
    OBVIOUS
  <2> QED
    BY <2>1, FS_Interval
<1>2. \A i \in 1 .. n : s[i] \in S /\ Hash(s[i]) \in Nat
  OBVIOUS
<1>3. ASSUME NEW i \in 1 .. n, NEW j \in 1 .. n
      PROVE  (Hash(s[i]) < Hash(s[j]) <=> i < j) /\ (s[i] = s[j] => i = j)
  <2>1. i < j \/ i = j \/ j < i
    OBVIOUS
  <2>2. Hash(s[i]) \in Nat /\ Hash(s[j]) \in Nat
    BY <1>2
  <2>3. (i < j => Hash(s[i]) < Hash(s[j])) /\ (j < i => Hash(s[j]) < Hash(s[i]))
    OBVIOUS
  <2> QED
    BY <2>1, <2>2, <2>3
<1>4. s \in Surjection(1 .. n, S)
  <2>1. s \in Injection(1 .. n, S)
    BY <1>3 DEF Injection, IsInjective
  <2> QED
    BY <1>1, <2>1, FS_Injection
<1>5. \A w \in S : \E i \in 1 .. n : s[i] = w
  BY <1>4 DEF Surjection
<1> DEFINE A == {v \in S : Hash(v) < Hash(s[k])}
           p == [i \in 1 .. k - 1 |-> s[i]]
<1>6. k - 1 \in Nat /\ \A i \in 1 .. k - 1 : i \in 1 .. n /\ i < k
  OBVIOUS
<1>7. p \in [1 .. k - 1 -> A]
  BY <1>2, <1>3, <1>6
<1>8. \A i, j \in 1 .. k - 1 : p[i] = p[j] => i = j
  BY <1>3, <1>6
<1>9. \A w \in A : \E i \in 1 .. k - 1 : p[i] = w
  <2> SUFFICES ASSUME NEW w \in A PROVE \E i \in 1 .. k - 1 : p[i] = w
    OBVIOUS
  <2>1. PICK i \in 1 .. n : s[i] = w
    BY <1>5
  <2>2. i < k
    BY <1>3, <2>1
  <2>3. i \in 1 .. k - 1
    BY <2>2
  <2> QED
    BY <2>1, <2>3
<1> HIDE DEF A, p
<1>10. Cardinality(A) = k - 1
  BY <1>6, <1>7, <1>8, <1>9, Listed
<1> QED
  BY <1>10 DEF Rank, A

\* A finite set of strings can be sorted.
LEMMA CanBeSorted ==
  ASSUME NEW S, \A v, w \in S : Hash(v) \in Nat /\ (Hash(v) = Hash(w) => v = w),
         IsFiniteSet(S), NEW n \in Nat, Cardinality(S) = n
  PROVE  \E s \in [1 .. n -> S] : \A i, j \in 1 .. n : i < j => Hash(s[i]) < Hash(s[j])
<1> DEFINE s == [i \in 1 .. n |-> CHOOSE w \in S : Rank(S, w) = i - 1]
<1>1. /\ \A i \in 0 .. n - 1 : \E w \in S : Rank(S, w) = i
      /\ \A v, w \in S : Rank(S, v) < Rank(S, w) => Hash(v) < Hash(w)
  BY RanksAreAll
<1>2. \A i \in 1 .. n : s[i] \in S /\ Rank(S, s[i]) = i - 1
  <2> SUFFICES ASSUME NEW i \in 1 .. n PROVE s[i] \in S /\ Rank(S, s[i]) = i - 1
    OBVIOUS
  <2>1. i - 1 \in 0 .. n - 1
    OBVIOUS
  <2> QED
    BY <1>1, <2>1
<1>3. s \in [1 .. n -> S]
  BY <1>2
<1>4. ASSUME NEW i \in 1 .. n, NEW j \in 1 .. n, i < j
      PROVE  Hash(s[i]) < Hash(s[j])
  <2>1. Rank(S, s[i]) < Rank(S, s[j])
    BY <1>2, <1>4
  <2> QED
    BY <1>1, <1>2, <2>1
<1> HIDE DEF s
<1> QED
  BY <1>3, <1>4

\* The words are given the numbers that the vocabulary finds them under.
LEMMA NumbersAgree ==
  ASSUME binary.listing \in Listings \cup {<< >>}
  PROVE  /\ Enumerated \in Seq({Unk} \cup ToSet(Inserted1Grams)) /\ Enumerated # << >>
         /\ \A i \in 1 .. Len(Enumerated) : Index(Enumerated[i]) = i - 1
<1> DEFINE ins == Inserted1Grams
           S == ToSet(ins)
           n == Len(ins)
<1>1. /\ ins \in Seq(S) /\ Unk \notin S /\ DOMAIN ins = 1 .. n /\ n \in Nat
      /\ \A i, j \in 1 .. n : ins[i] = ins[j] => i = j
      /\ \A v, w \in S : Hash(v) \in Nat /\ (Hash(v) = Hash(w) => v = w)
  BY WordsInserted
<1>2. \A w \in S : \E i \in 1 .. n : ins[i] = w
  BY <1>1 DEF ToSet
<1>3. ins \in [1 .. n -> S]
  BY <1>1
<1> PICK words : words = IF structure = "probing" THEN ins ELSE Sorted(ins)
  OBVIOUS
<1>4. words \in [1 .. n -> S] /\ \A i \in 1 .. n : Index(words[i]) = i
  <2> HIDE DEF ins, S, n
  <2>1. CASE structure = "probing"
    <3>1. words = ins
      BY <2>1
    <3>2. ASSUME NEW i \in 1 .. n
          PROVE  Index(ins[i]) = i
      <4>1. ins[i] \in S
        BY <1>3
      <4>2. Index(ins[i]) = CHOOSE j \in 1 .. n : ins[j] = ins[i]
        BY <1>1, <2>1, <4>1 DEF Index, ins, S, n
      <4> QED
        BY <1>1, <4>2
    <3> QED
      BY <1>3, <3>1, <3>2
  <2>2. CASE structure # "probing"
    <3>1. IsFiniteSet(S) /\ Cardinality(S) = n
      <4>1. n \in Nat /\ \A i, j \in 1 .. n : ins[i] = ins[j] => i = j
        BY <1>1
      <4> QED
        BY ONLY <1>2, <1>3, <4>1, Listed
    <3>2. \E s \in [1 .. n -> S] : \A i, j \in 1 .. n : i < j => Hash(s[i]) < Hash(s[j])
      BY <1>1, <3>1, CanBeSorted
    <3>3. words = CHOOSE s \in [1 .. n -> S] : \A i, j \in 1 .. n : i < j => Hash(s[i]) < Hash(s[j])
      BY <1>1, <2>2 DEF Sorted, ins, S, n
    <3>4. words \in [1 .. n -> S] /\ \A i, j \in 1 .. n : i < j => Hash(words[i]) < Hash(words[j])
      BY <3>2, <3>3
    <3>5. ASSUME NEW i \in 1 .. n
          PROVE  Index(words[i]) = i
      <4>1. words[i] \in S
        BY <3>4
      <4>2. Index(words[i]) = 1 + Rank(S, words[i])
        BY <2>2, <4>1 DEF Index, Rank, ins, S
      <4>3. n \in Nat /\ \A v, w \in S : Hash(v) \in Nat /\ (Hash(v) = Hash(w) => v = w)
        BY <1>1
      <4>4. Rank(S, words[i]) = i - 1
        BY ONLY <3>1, <3>4, <4>3, Place, i \in 1 .. n
      <4> QED
        BY <4>2, <4>4
    <3> QED
      BY <3>4, <3>5
  <2> QED
    BY <2>1, <2>2
<1>5. Enumerated = <<Unk>> \o words
  BY DEF Enumerated
<1>6. words \in Seq({Unk} \cup S) /\ Len(words) = n
  <2> HIDE DEF ins, S, n
  <2> QED
    BY <1>1, <1>4
<1>7. <<Unk>> \in Seq({Unk} \cup S) /\ Len(<<Unk>>) = 1 /\ <<Unk>>[1] = Unk
  OBVIOUS
<1>8. /\ Enumerated \in Seq({Unk} \cup S) /\ Len(Enumerated) = 1 + n
      /\ \A i \in 1 .. 1 + n : Enumerated[i] = IF i <= 1 THEN Unk ELSE words[i - 1]
  <2> HIDE DEF ins, S, n
  <2>1. /\ Enumerated \in Seq({Unk} \cup S) /\ Len(Enumerated) = Len(<<Unk>>) + Len(words)
        /\ \A i \in 1 .. Len(<<Unk>>) + Len(words) :
             Enumerated[i] = IF i <= Len(<<Unk>>) THEN <<Unk>>[i] ELSE words[i - Len(<<Unk>>)]
    BY <1>5, <1>6, <1>7, ConcatProperties
  <2>2. \A i \in 1 .. 1 + n : i <= 1 => <<Unk>>[i] = Unk
    OBVIOUS
  <2> QED
    BY <1>6, <1>7, <2>1, <2>2
<1>9. Index(Unk) = 0
  BY <1>1 DEF Index
<1>10. ASSUME NEW i \in 1 .. Len(Enumerated)
      PROVE  Index(Enumerated[i]) = i - 1
  <2> HIDE DEF ins, S, n
  <2>1. i \in 1 .. 1 + n
    BY <1>8
  <2>2. CASE i = 1
    BY <1>8, <1>9, <2>1, <2>2
  <2>3. CASE i # 1
    <3>1. i - 1 \in 1 .. n /\ Enumerated[i] = words[i - 1]
      BY <1>1, <1>8, <2>1, <2>3
    <3> QED
      BY <1>4, <3>1
  <2> QED
    BY <2>2, <2>3
<1>11. Enumerated # << >>
  <2> HIDE DEF ins, S, n
  <2>1. Len(Enumerated) # 0
    BY <1>1, <1>8
  <2> QED
    BY <2>1
<1> QED
  BY <1>8, <1>10, <1>11

-----------------------------------------------------------------------------
(* The invariant                                                           *)

Ended == {"served", "refused", "misread"}

IsRecord(b) ==
  b = [at |-> b.at, method |-> b.method, include |-> b.include, listing |-> b.listing,
       cached |-> b.cached, synced |-> b.synced, loader |-> b.loader, given |-> b.given]

\* The levels of the areas: what is on disk is in the cache, if not more.
Levels(b) ==
  /\ b.cached \in [Areas -> 0 .. 4] /\ b.synced \in [Areas -> 0 .. 4]
  /\ \A a \in Areas : b.synced[a] <= b.cached[a]
  /\ b.cached["vocab"] <= 2 /\ b.cached["search"] <= 2 /\ b.cached["words"] <= 3

Shape(b) ==
  /\ IsRecord(b) /\ Levels(b)
  /\ b.method \in {"none", "mmap", "after"} /\ b.include \in BOOLEAN
  /\ b.listing \in Listings \cup {<< >>}

\* The tables are on disk.
Secured(b) == b.synced["vocab"] = 2 /\ b.synced["search"] = 2

\* How far a file that is mapped has come, by the statement that is next ...
MappedPhases(b) ==
  /\ b.at \notin {"write_vocab", "write_search", "fsync", "write_header"}
  /\ b.at \in {"setup", "grow", "load", "finish", "write_sanity"} => b.cached["header"] <= 1
  /\ b.at \in {"setup", "grow", "load"} => b.cached["vocab"] <= 1 /\ b.cached["search"] <= 1
  /\ b.at = "write_fixed" => b.cached["header"] = 2
  /\ b.at = "write_counts" => b.cached["header"] = 3
  /\ b.at = "finish" => b.cached["vocab"] = 2 /\ b.cached["search"] = 2
  /\ b.at \in {"write_sanity", "write_fixed", "write_counts", "sync", "finished"} => Secured(b)

\* ... and one that is written when all is built.
AfterPhases(b) ==
  /\ b.at \notin {"write_sanity", "write_fixed", "write_counts", "sync"}
  /\ b.at \in {"setup", "grow", "load", "finish", "write_vocab", "write_search", "fsync",
               "write_header"} => b.cached["header"] <= 1
  /\ b.at \in {"finish", "write_vocab", "write_search", "fsync", "write_header"} =>
       (b.include => b.cached["words"] = 3)
  /\ b.at \in {"write_search", "fsync", "write_header"} => b.cached["vocab"] = 2
  /\ b.at \in {"fsync", "write_header"} => b.cached["search"] = 2
  /\ b.at = "write_header" => b.synced = b.cached

Phases(b) ==
  /\ b.method = "none" => b.at = "load"
  /\ b.method = "mmap" => MappedPhases(b)
  /\ b.method = "after" => AfterPhases(b)

\* Nothing of the header but the incomplete magic is anywhere before the tables
\* are on disk; when all is written afterwards, it is whole and the words are
\* there too.
Protected(b) ==
  b.at \notin Ended /\ b.cached["header"] >= 2 =>
    /\ Secured(b)
    /\ b.method = "after" => b.cached["header"] = 4 /\ (b.include => b.synced["words"] = 3)

IInv == Shape(binary) /\ Phases(binary) /\ Protected(binary) /\ WhatIsLoadedIsComplete

-----------------------------------------------------------------------------
(* What the steps do to the record                                         *)

\* What a step of the program leaves alone.
Same(c, b) == c.method = b.method /\ c.include = b.include /\ c.listing = b.listing

\* Writing changes the level of the areas written.
LEMMA Writing ==
  ASSUME NEW b, IsRecord(b), NEW f, NEW c, c = InCache(b, f)
  PROVE  /\ IsRecord(c) /\ Same(c, b) /\ c.at = b.at /\ c.synced = b.synced
         /\ c.cached = [a \in Areas |-> IF a \in DOMAIN f THEN f[a] ELSE b.cached[a]]
<1>1. c = [b EXCEPT !.cached = [a \in Areas |-> IF a \in DOMAIN f THEN f[a] ELSE b.cached[a]]]
  BY DEF InCache, IsRecord
<1>2. PICK new : new = [a \in Areas |-> IF a \in DOMAIN f THEN f[a] ELSE b.cached[a]]
  OBVIOUS
<1>3. c = [b EXCEPT !.cached = new]
  BY <1>1, <1>2
<1>4. IsRecord(c) /\ Same(c, b) /\ c.at = b.at /\ c.synced = b.synced /\ c.cached = new
  BY <1>3 DEF IsRecord, Same
<1> QED
  BY <1>2, <1>4

\* Unmapping puts what is mapped on the disk.
LEMMA Syncing ==
  ASSUME NEW b, IsRecord(b), NEW c, c = Synced(b)
  PROVE  /\ IsRecord(c) /\ Same(c, b) /\ c.at = b.at /\ c.cached = b.cached
         /\ c.synced = [a \in Areas |-> IF a \in Mapped THEN b.cached[a] ELSE b.synced[a]]
<1>1. c = [b EXCEPT !.synced = [a \in Areas |-> IF a \in Mapped THEN b.cached[a] ELSE b.synced[a]]]
  BY DEF Synced, IsRecord
<1>2. PICK new : new = [a \in Areas |-> IF a \in Mapped THEN b.cached[a] ELSE b.synced[a]]
  OBVIOUS
<1>3. c = [b EXCEPT !.synced = new]
  BY <1>1, <1>2
<1>4. IsRecord(c) /\ Same(c, b) /\ c.at = b.at /\ c.cached = b.cached /\ c.synced = new
  BY <1>3 DEF IsRecord, Same
<1> QED
  BY <1>2, <1>4

\* Going on to the next statement.
LEMMA Going ==
  ASSUME NEW b, IsRecord(b), NEW x, Goes(x, b)
  PROVE  /\ IsRecord(binary') /\ Same(binary', b) /\ binary'.at = x
         /\ binary'.cached = b.cached /\ binary'.synced = b.synced
BY DEF Goes, IsRecord, Same

\* An invariant that holds of the record after a step.
LEMMA Step ==
  ASSUME Shape(binary'), Phases(binary'), Protected(binary'), binary'.at \notin Ended
  PROVE  IInv'
<1>1. WhatIsLoadedIsComplete'
  BY DEF WhatIsLoadedIsComplete, Ended
<1> QED
  BY <1>1 DEF IInv, Shape, IsRecord, Levels, Phases, MappedPhases, AfterPhases, Protected, Secured

\* Writing f puts no area higher than it can be, and none lower than it is.
Rises(b, f) ==
  \A a \in Areas : a \in DOMAIN f =>
    f[a] \in 0 .. (IF a = "header" THEN 4 ELSE IF a = "words" THEN 3 ELSE 2) /\ b.cached[a] <= f[a]

\* Writing some areas keeps the levels in order if it does not lower any.
LEMMA WritingKeeps ==
  ASSUME NEW b, Levels(b), NEW c, c.synced = b.synced, NEW f,
         c.cached = [a \in Areas |-> IF a \in DOMAIN f THEN f[a] ELSE b.cached[a]],
         Rises(b, f)
  PROVE  Levels(c)
<1>1. \A a \in Areas : c.cached[a] \in 0 .. 4 /\ b.cached[a] <= c.cached[a]
  BY DEF Levels, Rises
<1>2. \A a \in Areas : b.synced[a] \in 0 .. 4 /\ b.cached[a] \in 0 .. 4 /\ b.synced[a] <= b.cached[a]
  BY DEF Levels
<1>3. \A a \in Areas : c.synced[a] <= c.cached[a]
  BY <1>1, <1>2
<1>4. c.cached["vocab"] <= 2 /\ c.cached["search"] <= 2 /\ c.cached["words"] <= 3
  BY DEF Levels, Areas, Rises
<1>5. c.cached \in [Areas -> 0 .. 4] /\ c.synced \in [Areas -> 0 .. 4]
  BY <1>1 DEF Levels
<1> QED
  BY <1>3, <1>4, <1>5 DEF Levels

\* Syncing keeps the levels in order.
LEMMA SyncingKeeps ==
  ASSUME NEW b, Levels(b), NEW c, c.cached = b.cached,
         c.synced = [a \in Areas |-> IF a \in Mapped THEN b.cached[a] ELSE b.synced[a]]
  PROVE  Levels(c) /\ c.synced["vocab"] = b.cached["vocab"] /\ c.synced["search"] = b.cached["search"]
<1>1. \A a \in Areas : b.synced[a] \in 0 .. 4 /\ b.cached[a] \in 0 .. 4 /\ b.synced[a] <= b.cached[a]
  BY DEF Levels
<1>2. \A a \in Areas : c.synced[a] \in 0 .. 4 /\ c.synced[a] <= c.cached[a]
  BY <1>1
<1>3. c.synced \in [Areas -> 0 .. 4]
  BY <1>2
<1> QED
  BY <1>2, <1>3 DEF Levels, Areas, Mapped

\* The record after a step that goes on from b.
LEMMA ShapeKept ==
  ASSUME NEW b, Shape(b), NEW c, IsRecord(c), Same(c, b), Levels(c)
  PROVE  Shape(c)
BY DEF Shape, Same

\* Going on keeps the record's shape.
LEMMA ShapeGoing ==
  ASSUME NEW b, Shape(b), NEW x, Goes(x, b)
  PROVE  /\ Shape(binary') /\ Same(binary', b) /\ binary'.at = x
         /\ binary'.cached = b.cached /\ binary'.synced = b.synced
<1>1. IsRecord(b)
  BY DEF Shape
<1>2. /\ IsRecord(binary') /\ Same(binary', b) /\ binary'.at = x
      /\ binary'.cached = b.cached /\ binary'.synced = b.synced
  BY <1>1, Going
<1>3. Levels(binary')
  BY <1>2 DEF Shape, Levels
<1> QED
  BY <1>2, <1>3, ShapeKept

\* Writing, and going on.
LEMMA ShapeWriting ==
  ASSUME NEW b, Shape(b), NEW f, NEW x, Goes(x, InCache(b, f)),
         Rises(b, f)
  PROVE  /\ Shape(binary') /\ Same(binary', b) /\ binary'.at = x /\ binary'.synced = b.synced
         /\ binary'.cached = [a \in Areas |-> IF a \in DOMAIN f THEN f[a] ELSE b.cached[a]]
<1>1. PICK c : c = InCache(b, f)
  OBVIOUS
<1>2. IsRecord(b) /\ Levels(b)
  BY DEF Shape
<1>3. /\ IsRecord(c) /\ Same(c, b) /\ c.at = b.at /\ c.synced = b.synced
      /\ c.cached = [a \in Areas |-> IF a \in DOMAIN f THEN f[a] ELSE b.cached[a]]
  BY <1>1, <1>2, Writing
<1>4. Levels(c)
  BY <1>2, <1>3, WritingKeeps
<1>5. Shape(c)
  BY <1>3, <1>4, ShapeKept
<1>6. Goes(x, c)
  BY <1>1
<1>7. /\ Shape(binary') /\ Same(binary', c) /\ binary'.at = x
      /\ binary'.cached = c.cached /\ binary'.synced = c.synced
  BY <1>5, <1>6, ShapeGoing
<1> QED
  BY <1>3, <1>7 DEF Same

\* Syncing.
LEMMA ShapeSyncing ==
  ASSUME NEW b, Shape(b), NEW c, c = Synced(b)
  PROVE  /\ Shape(c) /\ Same(c, b) /\ c.at = b.at /\ c.cached = b.cached
         /\ c.synced["vocab"] = b.cached["vocab"] /\ c.synced["search"] = b.cached["search"]
<1>1. IsRecord(b) /\ Levels(b)
  BY DEF Shape
<1>2. /\ IsRecord(c) /\ Same(c, b) /\ c.at = b.at /\ c.cached = b.cached
      /\ c.synced = [a \in Areas |-> IF a \in Mapped THEN b.cached[a] ELSE b.synced[a]]
  BY <1>1, Syncing
<1>3. Levels(c) /\ c.synced["vocab"] = b.cached["vocab"] /\ c.synced["search"] = b.cached["search"]
  BY <1>1, <1>2, SyncingKeeps
<1> QED
  BY <1>2, <1>3, ShapeKept

-----------------------------------------------------------------------------
(* The steps of building                                                   *)

\* The levels are numbers.
LEMMA LevelTypes ==
  ASSUME NEW b, Shape(b)
  PROVE  /\ b.cached["header"] \in 0 .. 4 /\ b.cached["vocab"] \in 0 .. 2
         /\ b.cached["search"] \in 0 .. 2 /\ b.cached["words"] \in 0 .. 3
         /\ \A a \in Areas : b.cached[a] \in 0 .. 4 /\ b.synced[a] \in 0 .. 4 /\ b.synced[a] <= b.cached[a]
BY DEF Shape, Levels, Areas

\* The header and the vocabulary are mapped.
LEMMA SetupKeeps ==
  ASSUME IInv, SetupJustVocab
  PROVE  IInv'
<1>1. Shape(binary) /\ Phases(binary) /\ binary.at = "setup" /\ binary.method # "none"
  BY DEF IInv, SetupJustVocab, Phases
<1>2. CASE binary.method = "mmap"
  <2> DEFINE f == [header |-> 1, vocab |-> 1]
  <2>1. Goes("grow", InCache(binary, f))
    BY <1>1, <1>2 DEF SetupJustVocab
  <2>2. binary.cached["header"] <= 1 /\ binary.cached["vocab"] <= 1 /\ binary.cached["search"] <= 1
    BY <1>1, <1>2 DEF Phases, MappedPhases
  <2>3. Rises(binary, f)
    BY <2>2 DEF Rises
  <2>4. /\ Shape(binary') /\ Same(binary', binary) /\ binary'.at = "grow"
        /\ binary'.cached = [a \in Areas |-> IF a \in DOMAIN f THEN f[a] ELSE binary.cached[a]]
    BY <1>1, <2>1, <2>3, ShapeWriting
  <2>5. binary'.cached["header"] = 1 /\ binary'.cached["vocab"] = 1 /\ binary'.cached["search"] <= 1
    BY <2>2, <2>4 DEF Areas
  <2>6. binary'.method = "mmap"
    BY <1>2, <2>4 DEF Same
  <2> QED
    BY <2>4, <2>5, <2>6, Step DEF Phases, MappedPhases, Protected, Ended
<1>3. CASE binary.method = "after"
  <2>1. Goes("grow", binary)
    BY <1>3 DEF SetupJustVocab
  <2>2. /\ Shape(binary') /\ Same(binary', binary) /\ binary'.at = "grow"
        /\ binary'.cached = binary.cached
    BY <1>1, <2>1, ShapeGoing
  <2>3. binary'.method = "after" /\ binary'.cached["header"] <= 1 /\ ~(binary'.cached["header"] >= 2)
    BY <1>1, <1>3, <2>2, LevelTypes DEF Phases, AfterPhases, Same
  <2> QED
    BY <2>2, <2>3, Step DEF Phases, AfterPhases, Protected, Ended
<1> QED
  BY <1>1, <1>2, <1>3 DEF Shape

\* The file is synced and mapped again with room for the search.
LEMMA GrowKeeps ==
  ASSUME IInv, GrowForSearch
  PROVE  IInv'
<1>1. Shape(binary) /\ Phases(binary) /\ binary.at = "grow" /\ binary.method # "none"
  BY DEF IInv, GrowForSearch, Phases
<1>2. CASE binary.method = "mmap"
  <2> DEFINE f == [search |-> 1]
  <2>1. PICK b : b = Synced(binary)
    OBVIOUS
  <2>2. Goes("load", InCache(b, f))
    BY <1>1, <1>2, <2>1 DEF GrowForSearch
  <2>3. Shape(b) /\ Same(b, binary) /\ b.cached = binary.cached
    BY <1>1, <2>1, ShapeSyncing
  <2>4. b.cached["header"] <= 1 /\ b.cached["vocab"] <= 1 /\ b.cached["search"] <= 1
    BY <1>1, <1>2, <2>3 DEF Phases, MappedPhases
  <2>5. Rises(b, f)
    BY <2>4 DEF Rises
  <2>6. /\ Shape(binary') /\ Same(binary', b) /\ binary'.at = "load"
        /\ binary'.cached = [a \in Areas |-> IF a \in DOMAIN f THEN f[a] ELSE b.cached[a]]
    BY <2>2, <2>3, <2>5, ShapeWriting
  <2>7. binary'.cached["header"] <= 1 /\ binary'.cached["vocab"] <= 1 /\ binary'.cached["search"] = 1
    BY <2>4, <2>6 DEF Areas
  <2>8. binary'.method = "mmap" /\ ~(binary'.cached["header"] >= 2)
    BY <1>2, <2>3, <2>6, <2>7, LevelTypes DEF Same
  <2> QED
    BY <2>6, <2>7, <2>8, Step DEF Phases, MappedPhases, Protected, Ended
<1>3. CASE binary.method = "after"
  <2>1. Goes("load", binary)
    BY <1>3 DEF GrowForSearch
  <2>2. /\ Shape(binary') /\ Same(binary', binary) /\ binary'.at = "load"
        /\ binary'.cached = binary.cached
    BY <1>1, <2>1, ShapeGoing
  <2>3. binary'.method = "after" /\ binary'.cached["header"] <= 1 /\ ~(binary'.cached["header"] >= 2)
    BY <1>1, <1>3, <2>2, LevelTypes DEF Phases, AfterPhases, Same
  <2> QED
    BY <2>2, <2>3, Step DEF Phases, AfterPhases, Protected, Ended
<1> QED
  BY <1>1, <1>2, <1>3 DEF Shape

\* The words go into a file whose tables are whole, if it is mapped.
LEMMA WordsKeep ==
  ASSUME IInv, WriteVocabWords
  PROVE  IInv'
<1>1. Shape(binary) /\ Phases(binary) /\ binary.at = "load" /\ binary.method # "none"
  BY DEF IInv, WriteVocabWords, Saving
<1> DEFINE there(b, area) == IF b.cached[area] = 0 THEN 1 ELSE b.cached[area]
           words(b) == [words |-> 3, vocab |-> there(b, "vocab"), search |-> there(b, "search")]
<1>2. ASSUME NEW b, Shape(b)
      PROVE  Rises(b, words(b))
  BY <1>2, LevelTypes DEF Rises
<1>3. CASE binary.method = "mmap"
  <2> DEFINE f == [vocab |-> 2, search |-> 2]
  <2>1. PICK b : b = InCache(binary, f)
    OBVIOUS
  <2>2. PICK c : c = Synced(b)
    OBVIOUS
  <2>3. binary.cached["header"] <= 1 /\ binary.cached["vocab"] <= 1 /\ binary.cached["search"] <= 1
    BY <1>1, <1>3 DEF Phases, MappedPhases
  <2>4. /\ Shape(b) /\ Same(b, binary)
        /\ b.cached["header"] <= 1 /\ b.cached["vocab"] = 2 /\ b.cached["search"] = 2
    <3>1. Rises(binary, f)
      BY <1>1, LevelTypes DEF Rises
    <3>2. /\ IsRecord(b) /\ Same(b, binary) /\ b.synced = binary.synced
          /\ b.cached = [a \in Areas |-> IF a \in DOMAIN f THEN f[a] ELSE binary.cached[a]]
      BY <1>1, <2>1, Writing DEF Shape
    <3>3. Levels(b)
      BY <1>1, <3>1, <3>2, WritingKeeps DEF Shape
    <3>4. Shape(b)
      BY <1>1, <3>2, <3>3, ShapeKept
    <3> QED
      BY <2>3, <3>2, <3>4 DEF Areas
  <2>5. Shape(c) /\ Same(c, b) /\ c.cached = b.cached
    BY <2>2, <2>4, ShapeSyncing
  <2>6. CASE ~binary.include
    <3>1. Goes("finish", b)
      BY <1>3, <2>1, <2>6 DEF WriteVocabWords
    <3>2. /\ Shape(binary') /\ Same(binary', b) /\ binary'.at = "finish" /\ binary'.cached = b.cached
      BY <2>4, <3>1, ShapeGoing
    <3>3. binary'.method = "mmap" /\ ~(binary'.cached["header"] >= 2)
      BY <1>3, <2>4, <3>2, LevelTypes DEF Same
    <3> QED
      BY <2>4, <3>2, <3>3, Step DEF Phases, MappedPhases, Protected, Ended
  <2>7. CASE binary.include
    <3>1. Goes("finish", InCache(c, [words |-> 3, vocab |-> there(b, "vocab"),
                                     search |-> there(b, "search")]))
      BY <1>3, <2>1, <2>2, <2>7 DEF WriteVocabWords
    <3>2. Goes("finish", InCache(c, words(c)))
      BY <2>5, <3>1
    <3>3. /\ Shape(binary') /\ Same(binary', c) /\ binary'.at = "finish"
          /\ binary'.cached = [a \in Areas |-> IF a \in DOMAIN words(c) THEN words(c)[a] ELSE c.cached[a]]
      BY <1>2, <2>5, <3>2, ShapeWriting
    <3>4. binary'.cached["header"] <= 1 /\ binary'.cached["vocab"] = 2 /\ binary'.cached["search"] = 2
      BY <2>4, <2>5, <3>3 DEF Areas
    <3>5. binary'.method = "mmap" /\ ~(binary'.cached["header"] >= 2)
      BY <1>3, <2>4, <2>5, <3>3, <3>4, LevelTypes DEF Same
    <3> QED
      BY <3>3, <3>4, <3>5, Step DEF Phases, MappedPhases, Protected, Ended
  <2> QED
    BY <2>6, <2>7
<1>4. CASE binary.method = "after"
  <2>1. binary.cached["header"] <= 1
    BY <1>1, <1>4 DEF Phases, AfterPhases
  <2>2. CASE ~binary.include
    <3>1. Goes("finish", binary)
      BY <1>4, <2>2 DEF WriteVocabWords
    <3>2. /\ Shape(binary') /\ Same(binary', binary) /\ binary'.at = "finish"
          /\ binary'.cached = binary.cached
      BY <1>1, <3>1, ShapeGoing
    <3>3. binary'.method = "after" /\ ~binary'.include /\ ~(binary'.cached["header"] >= 2)
      BY <1>4, <2>1, <2>2, <3>2, LevelTypes DEF Same
    <3> QED
      BY <2>1, <3>2, <3>3, Step DEF Phases, AfterPhases, Protected, Ended
  <2>3. CASE binary.include
    <3>1. Goes("finish", InCache(binary, words(binary)))
      BY <1>4, <2>3 DEF WriteVocabWords
    <3>2. /\ Shape(binary') /\ Same(binary', binary) /\ binary'.at = "finish"
          /\ binary'.cached = [a \in Areas |->
               IF a \in DOMAIN words(binary) THEN words(binary)[a] ELSE binary.cached[a]]
      BY <1>1, <1>2, <3>1, ShapeWriting
    <3>3. binary'.cached["header"] <= 1 /\ binary'.cached["words"] = 3
      BY <2>1, <3>2 DEF Areas
    <3>4. binary'.method = "after" /\ ~(binary'.cached["header"] >= 2)
      BY <1>4, <3>2, <3>3, LevelTypes DEF Same
    <3> QED
      BY <3>2, <3>3, <3>4, Step DEF Phases, AfterPhases, Protected, Ended
  <2> QED
    BY <2>2, <2>3
<1> QED
  BY <1>1, <1>3, <1>4 DEF Shape

-----------------------------------------------------------------------------
(* The steps of writing                                                    *)

\* The header of a file that is not going to be accepted.
LEMMA NotYet ==
  ASSUME NEW b, Shape(b), b.cached["header"] <= 1
  PROVE  Protected(b)
BY LevelTypes DEF Protected

\* The tables of a mapped file are put on the disk, those of another are yet to be
\* written.
LEMMA FinishKeeps ==
  ASSUME IInv, FinishFile
  PROVE  IInv'
<1>1. Shape(binary) /\ Phases(binary) /\ binary.at = "finish"
  BY DEF IInv, FinishFile
<1>2. CASE binary.method = "mmap"
  <2>1. /\ binary.cached["header"] <= 1 /\ binary.cached["vocab"] = 2 /\ binary.cached["search"] = 2
    BY <1>1, <1>2 DEF Phases, MappedPhases
  <2>2. PICK b : b = Synced(binary)
    OBVIOUS
  <2>3. Goes("write_sanity", b)
    BY <1>2, <2>2 DEF FinishFile
  <2>4. /\ Shape(b) /\ Same(b, binary) /\ b.cached = binary.cached
        /\ b.synced["vocab"] = binary.cached["vocab"] /\ b.synced["search"] = binary.cached["search"]
    BY <1>1, <2>2, ShapeSyncing
  <2>5. /\ Shape(binary') /\ Same(binary', b) /\ binary'.at = "write_sanity"
        /\ binary'.cached = b.cached /\ binary'.synced = b.synced
    BY <2>3, <2>4, ShapeGoing
  <2>6. binary'.method = "mmap" /\ Secured(binary') /\ binary'.cached["header"] <= 1
    BY <1>2, <2>1, <2>4, <2>5 DEF Same, Secured
  <2>7. Protected(binary')
    BY <2>5, <2>6, NotYet
  <2> QED
    BY <2>5, <2>6, <2>7, Step DEF Phases, MappedPhases, Ended
<1>3. CASE binary.method = "after"
  <2>1. binary.cached["header"] <= 1 /\ (binary.include => binary.cached["words"] = 3)
    BY <1>1, <1>3 DEF Phases, AfterPhases
  <2>2. Goes("write_vocab", binary)
    BY <1>3 DEF FinishFile
  <2>3. /\ Shape(binary') /\ Same(binary', binary) /\ binary'.at = "write_vocab"
        /\ binary'.cached = binary.cached
    BY <1>1, <2>2, ShapeGoing
  <2>4. /\ binary'.method = "after" /\ binary'.cached["header"] <= 1
        /\ binary'.include => binary'.cached["words"] = 3
    BY <1>3, <2>1, <2>3 DEF Same
  <2>5. Protected(binary')
    BY <2>3, <2>4, NotYet
  <2> QED
    BY <2>3, <2>4, <2>5, Step DEF Phases, AfterPhases, Ended
<1> QED
  BY <1>1, <1>2, <1>3 DEF FinishFile

\* The header of a mapped file, at each of its writes.
LEMMA HeaderWritten ==
  ASSUME Shape(binary), Phases(binary), binary.method = "mmap", NEW n \in 2 .. 4, NEW x,
         binary.at \in {"write_sanity", "write_fixed", "write_counts"},
         binary.cached["header"] <= n, Goes(x, InCache(binary, [header |-> n])),
         x = IF n = 2 THEN "write_fixed" ELSE IF n = 3 THEN "write_counts" ELSE "sync"
  PROVE  IInv'
<1> DEFINE f == [header |-> n]
<1>1. Secured(binary)
  BY DEF Phases, MappedPhases
<1>2. Rises(binary, f)
  <2>1. DOMAIN f = {"header"} /\ f["header"] = n /\ n \in 0 .. 4
    OBVIOUS
  <2> QED
    BY <2>1 DEF Rises
<1>3. /\ Shape(binary') /\ Same(binary', binary) /\ binary'.at = x /\ binary'.synced = binary.synced
      /\ binary'.cached = [a \in Areas |-> IF a \in DOMAIN f THEN f[a] ELSE binary.cached[a]]
  BY <1>2, ShapeWriting
<1>4. binary'.method = "mmap" /\ Secured(binary') /\ binary'.cached["header"] = n
  BY <1>1, <1>3 DEF Same, Secured, Areas
<1>5. Protected(binary')
  BY <1>4 DEF Protected
<1>6. x \notin Ended
  BY DEF Ended
<1>7. Phases(binary')
  BY <1>3, <1>4 DEF Phases, MappedPhases
<1> QED
  BY <1>3, <1>5, <1>6, <1>7, Step

\* A mapped file gets its header when its tables are on the disk.
LEMMA HeaderKeeps ==
  ASSUME IInv, WriteHeader
  PROVE  IInv'
<1>1. /\ Shape(binary) /\ Phases(binary)
      /\ binary.at \in {"write_sanity", "write_fixed", "write_counts", "sync"}
  BY DEF IInv, WriteHeader
<1>2. binary.method = "mmap" /\ Secured(binary)
  BY <1>1 DEF Shape, Phases, MappedPhases, AfterPhases
<1>3. CASE binary.at = "write_sanity"
  <2>1. binary.cached["header"] <= 2
    <3>1. binary.cached["header"] \in 0 .. 4
      BY <1>1, LevelTypes
    <3>2. binary.cached["header"] <= 1
      BY <1>1, <1>2, <1>3 DEF Phases, MappedPhases
    <3> QED
      BY <3>1, <3>2
  <2>2. Goes("write_fixed", InCache(binary, [header |-> 2]))
    BY <1>3 DEF WriteHeader
  <2> QED
    BY <1>1, <1>2, <1>3, <2>1, <2>2, HeaderWritten
<1>4. CASE binary.at = "write_fixed"
  <2>1. binary.cached["header"] <= 3
    <3>1. binary.cached["header"] \in 0 .. 4
      BY <1>1, LevelTypes
    <3>2. binary.cached["header"] = 2
      BY <1>1, <1>2, <1>4 DEF Phases, MappedPhases
    <3> QED
      BY <3>1, <3>2
  <2>2. Goes("write_counts", InCache(binary, [header |-> 3]))
    BY <1>4 DEF WriteHeader
  <2> QED
    BY <1>1, <1>2, <1>4, <2>1, <2>2, HeaderWritten
<1>5. CASE binary.at = "write_counts"
  <2>1. binary.cached["header"] <= 4
    <3>1. binary.cached["header"] \in 0 .. 4
      BY <1>1, LevelTypes
    <3>2. binary.cached["header"] = 3
      BY <1>1, <1>2, <1>5 DEF Phases, MappedPhases
    <3> QED
      BY <3>1, <3>2
  <2>2. Goes("sync", InCache(binary, [header |-> 4]))
    BY <1>5 DEF WriteHeader
  <2> QED
    BY <1>1, <1>2, <1>5, <2>1, <2>2, HeaderWritten
<1>6. CASE binary.at = "sync"
  <2>1. PICK b : b = Synced(binary)
    OBVIOUS
  <2>2. Goes("finished", b)
    BY <1>6, <2>1 DEF WriteHeader
  <2>3. /\ Shape(b) /\ Same(b, binary) /\ b.cached = binary.cached
        /\ b.synced["vocab"] = binary.cached["vocab"] /\ b.synced["search"] = binary.cached["search"]
    BY <1>1, <2>1, ShapeSyncing
  <2>4. /\ Shape(binary') /\ Same(binary', b) /\ binary'.at = "finished"
        /\ binary'.cached = b.cached /\ binary'.synced = b.synced
    BY <2>2, <2>3, ShapeGoing
  <2>5. binary.cached["vocab"] = 2 /\ binary.cached["search"] = 2
    <3>1. /\ binary.cached["vocab"] \in 0 .. 2 /\ binary.cached["search"] \in 0 .. 2
          /\ binary.synced["vocab"] <= binary.cached["vocab"]
          /\ binary.synced["search"] <= binary.cached["search"]
      BY <1>1, LevelTypes DEF Areas
    <3> QED
      BY <1>2, <3>1 DEF Secured
  <2>6. binary'.method = "mmap" /\ Secured(binary')
    BY <1>2, <2>3, <2>4, <2>5 DEF Same, Secured
  <2>7. Protected(binary')
    BY <2>6 DEF Protected
  <2> QED
    BY <2>4, <2>6, <2>7, Step DEF Phases, MappedPhases, Ended
<1> QED
  BY <1>1, <1>3, <1>4, <1>5, <1>6

\* One written afterwards, too: all that is cached is synced before.
LEMMA AfterKeeps ==
  ASSUME IInv, WriteAfter
  PROVE  IInv'
<1>1. /\ Shape(binary) /\ Phases(binary)
      /\ binary.at \in {"write_vocab", "write_search", "fsync", "write_header"}
  BY DEF IInv, WriteAfter
<1>2. binary.method = "after"
  BY <1>1 DEF Shape, Phases, MappedPhases
<1>3. binary.cached["header"] <= 1 /\ (binary.include => binary.cached["words"] = 3)
  BY <1>1, <1>2 DEF Phases, AfterPhases
<1>4. CASE binary.at = "write_vocab"
  <2> DEFINE f == [header |-> 1, vocab |-> 2]
  <2>1. Goes("write_search", InCache(binary, f))
    BY <1>4 DEF WriteAfter
  <2>2. Rises(binary, f)
    BY <1>1, <1>3, LevelTypes DEF Rises
  <2>3. /\ Shape(binary') /\ Same(binary', binary) /\ binary'.at = "write_search"
        /\ binary'.cached = [a \in Areas |-> IF a \in DOMAIN f THEN f[a] ELSE binary.cached[a]]
    BY <1>1, <2>1, <2>2, ShapeWriting
  <2>4. /\ binary'.method = "after" /\ binary'.cached["header"] <= 1 /\ binary'.cached["vocab"] = 2
        /\ binary'.include => binary'.cached["words"] = 3
    BY <1>2, <1>3, <2>3 DEF Same, Areas
  <2>5. Protected(binary')
    BY <2>3, <2>4, NotYet
  <2> QED
    BY <2>3, <2>4, <2>5, Step DEF Phases, AfterPhases, Ended
<1>5. CASE binary.at = "write_search"
  <2> DEFINE f == [search |-> 2]
  <2>1. Goes("fsync", InCache(binary, f))
    BY <1>5 DEF WriteAfter
  <2>2. Rises(binary, f)
    BY <1>1, LevelTypes DEF Rises
  <2>3. /\ Shape(binary') /\ Same(binary', binary) /\ binary'.at = "fsync"
        /\ binary'.cached = [a \in Areas |-> IF a \in DOMAIN f THEN f[a] ELSE binary.cached[a]]
    BY <1>1, <2>1, <2>2, ShapeWriting
  <2>4. binary.cached["vocab"] = 2
    BY <1>1, <1>2, <1>5 DEF Phases, AfterPhases
  <2>5. /\ binary'.method = "after" /\ binary'.cached["header"] <= 1 /\ binary'.cached["vocab"] = 2
        /\ binary'.cached["search"] = 2 /\ (binary'.include => binary'.cached["words"] = 3)
    BY <1>2, <1>3, <2>3, <2>4 DEF Same, Areas
  <2>6. Protected(binary')
    BY <2>3, <2>5, NotYet
  <2> QED
    BY <2>3, <2>5, <2>6, Step DEF Phases, AfterPhases, Ended
<1>6. CASE binary.at = "fsync"
  <2>1. PICK b : b = [binary EXCEPT !.synced = binary.cached]
    OBVIOUS
  <2>2. Goes("write_header", b)
    BY <1>6, <2>1 DEF WriteAfter
  <2>3. IsRecord(b) /\ Same(b, binary) /\ b.cached = binary.cached /\ b.synced = binary.cached
    BY <1>1, <2>1 DEF Shape, IsRecord, Same
  <2>4. Levels(b)
    BY <1>1, <2>3 DEF Shape, Levels
  <2>5. Shape(b)
    BY <1>1, <2>3, <2>4, ShapeKept
  <2>6. /\ Shape(binary') /\ Same(binary', b) /\ binary'.at = "write_header"
        /\ binary'.cached = b.cached /\ binary'.synced = b.synced
    BY <2>2, <2>5, ShapeGoing
  <2>7. binary.cached["vocab"] = 2 /\ binary.cached["search"] = 2
    BY <1>1, <1>2, <1>6 DEF Phases, AfterPhases
  <2>8. /\ binary'.method = "after" /\ binary'.cached["header"] <= 1 /\ binary'.cached["vocab"] = 2
        /\ binary'.cached["search"] = 2 /\ (binary'.include => binary'.cached["words"] = 3)
        /\ binary'.synced = binary'.cached
    BY <1>2, <1>3, <2>3, <2>6, <2>7 DEF Same
  <2>9. Protected(binary')
    BY <2>6, <2>8, NotYet
  <2> QED
    BY <2>6, <2>8, <2>9, Step DEF Phases, AfterPhases, Ended
<1>7. CASE binary.at = "write_header"
  <2> DEFINE f == [header |-> 4]
  <2>1. Goes("finished", InCache(binary, f))
    BY <1>7 DEF WriteAfter
  <2>2. Rises(binary, f)
    BY <1>1, LevelTypes DEF Rises
  <2>3. /\ Shape(binary') /\ Same(binary', binary) /\ binary'.at = "finished"
        /\ binary'.synced = binary.synced
        /\ binary'.cached = [a \in Areas |-> IF a \in DOMAIN f THEN f[a] ELSE binary.cached[a]]
    BY <1>1, <2>1, <2>2, ShapeWriting
  <2>4. /\ binary.cached["vocab"] = 2 /\ binary.cached["search"] = 2 /\ binary.synced = binary.cached
    BY <1>1, <1>2, <1>7 DEF Phases, AfterPhases
  <2>5. /\ binary'.method = "after" /\ binary'.cached["header"] = 4 /\ Secured(binary')
        /\ binary'.include => binary'.synced["words"] = 3
    BY <1>2, <1>3, <2>3, <2>4 DEF Same, Areas, Secured
  <2> QED
    BY <2>3, <2>5, Step DEF Phases, AfterPhases, Protected, Ended
<1> QED
  BY <1>1, <1>4, <1>5, <1>6, <1>7

\* Whenever the program or the machine stops, the file stays as it is.
LEMMA StoppingKeeps ==
  ASSUME IInv, Stop \/ PowerFailure
  PROVE  IInv'
<1>1. Shape(binary) /\ Phases(binary) /\ Protected(binary)
  BY DEF IInv
<1>2. PICK x \in {"stopped", "powerless"} : Goes(x, binary)
  BY DEF Stop, PowerFailure
<1>3. binary.method # "none" /\ binary.at \notin Ended
  BY <1>1 DEF Stop, PowerFailure, Running, Phases, Ended
<1>4. /\ Shape(binary') /\ Same(binary', binary) /\ binary'.at = x
      /\ binary'.cached = binary.cached /\ binary'.synced = binary.synced
  BY <1>1, <1>2, ShapeGoing
<1>5. Protected(binary')
  BY <1>1, <1>3, <1>4 DEF Protected, Secured, Same
<1>6. Phases(binary')
  BY <1>3, <1>4 DEF Phases, MappedPhases, AfterPhases, Same
<1>7. x \notin Ended
  BY DEF Ended
<1> QED
  BY <1>4, <1>5, <1>6, <1>7, Step

-----------------------------------------------------------------------------
(* Loading                                                                 *)

\* What is found of a file has its tables if it has more than a sanity block,
\* and all if it was written when all was built.
LEMMA TablesFound ==
  ASSUME Shape(binary), Phases(binary), Protected(binary), binary.at \in {"stopped", "powerless"},
         NEW found \in Survivors
  PROVE  /\ found \in [Areas -> 0 .. 4]
         /\ found["vocab"] <= 2 /\ found["search"] <= 2 /\ found["words"] <= 3
         /\ found["header"] >= 2 => found["vocab"] = 2 /\ found["search"] = 2
         /\ binary.method = "after" =>
              found["header"] \notin {2, 3}
              /\ (found["header"] = 4 /\ binary.include => found["words"] = 3)
<1>1. binary.at \notin Ended
  BY DEF Ended
<1>2. /\ \A a \in Areas : binary.cached[a] \in 0 .. 4 /\ binary.synced[a] \in 0 .. 4
                          /\ binary.synced[a] <= binary.cached[a]
      /\ binary.cached \in [Areas -> 0 .. 4]
      /\ binary.cached["vocab"] <= 2 /\ binary.cached["search"] <= 2 /\ binary.cached["words"] <= 3
  BY DEF Shape, Levels
<1>3. binary.cached["header"] >= 2 =>
        /\ binary.synced["vocab"] = 2 /\ binary.synced["search"] = 2
        /\ binary.method = "after" =>
             binary.cached["header"] = 4 /\ (binary.include => binary.synced["words"] = 3)
  BY <1>1 DEF Protected, Secured
<1>4. /\ found \in [Areas -> 0 .. 4]
      /\ \A a \in Areas : found[a] \in 0 .. 4 /\ binary.synced[a] <= found[a]
                          /\ found[a] <= binary.cached[a]
  <2>1. CASE binary.at = "stopped"
    <3>1. found = binary.cached
      BY <2>1 DEF Survivors
    <3> QED
      BY <1>2, <3>1
  <2>2. CASE binary.at # "stopped"
    <3>1. found \in [Areas -> 0 .. 4] /\ \A a \in Areas : found[a] \in binary.synced[a] .. binary.cached[a]
      BY <2>2 DEF Survivors
    <3>2. ASSUME NEW a \in Areas
          PROVE  found[a] \in 0 .. 4 /\ binary.synced[a] <= found[a] /\ found[a] <= binary.cached[a]
      <4>1. found[a] \in binary.synced[a] .. binary.cached[a] /\ found[a] \in 0 .. 4
        BY <3>1
      <4>2. binary.cached[a] \in 0 .. 4 /\ binary.synced[a] \in 0 .. 4
        BY <1>2
      <4> QED
        BY <4>1, <4>2
    <3> QED
      BY <3>1, <3>2
  <2> QED
    BY <2>1, <2>2
<1>5. \A a \in {"header", "vocab", "search", "words"} :
        /\ found[a] \in 0 .. 4 /\ binary.cached[a] \in 0 .. 4 /\ binary.synced[a] \in 0 .. 4
        /\ binary.synced[a] <= found[a] /\ found[a] <= binary.cached[a]
  BY <1>2, <1>4 DEF Areas
<1>6. found["vocab"] <= 2 /\ found["search"] <= 2 /\ found["words"] <= 3
  BY <1>2, <1>5
<1>7. found["header"] >= 2 => found["vocab"] = 2 /\ found["search"] = 2
  <2>1. found["header"] >= 2 => binary.cached["header"] >= 2
    BY <1>5
  <2> QED
    BY <1>3, <1>5, <1>6, <2>1
<1>8. ASSUME binary.method = "after"
      PROVE  found["header"] \notin {2, 3}
             /\ (found["header"] = 4 /\ binary.include => found["words"] = 3)
  <2>1. found["header"] \notin {2, 3}
    <3>1. CASE binary.at = "stopped"
      <4>1. found = binary.cached
        BY <3>1 DEF Survivors
      <4> QED
        BY <1>3, <1>5, <1>8, <4>1
    <3>2. CASE binary.at # "stopped"
      BY <1>8, <3>2 DEF Survivors
    <3> QED
      BY <3>1, <3>2
  <2>2. found["header"] = 4 => binary.cached["header"] >= 2
    BY <1>5
  <2> QED
    BY <1>3, <1>5, <1>6, <1>8, <2>1, <2>2
<1> QED
  BY <1>4, <1>6, <1>7, <1>8

\* Where the search is read is where it was written.
LEMMA SamePlace ==
  ASSUME binary.listing \in Listings \cup {<< >>}
  PROVE  SearchReadAt = SearchWrittenAt
<1>1. Len(binary.listing) \in Nat
  BY ListingsAssumption
<1>2. PICK n \in Nat : n = Len(binary.listing)
  BY <1>1
<1>3. SearchReadAt = n + (IF structure = "trie" /\ ~SawUnk THEN 1 ELSE 0) + 1
  BY <1>2 DEF SearchReadAt, HeaderWords, DeclaredWords, VocabSize
<1>4. SearchWrittenAt = n + 1 + (IF structure = "trie" /\ ~SawUnk THEN 1 ELSE 0)
  BY <1>2 DEF SearchWrittenAt, UnkCountChangePadding, DeclaredWords, VocabSize
<1> QED
  BY <1>3, <1>4

\* The words read from a file, but the last if it was cut, have the numbers the
\* vocabulary gives them.
LEMMA WordsAgree ==
  ASSUME binary.listing \in Listings \cup {<< >>}, NEW found, NEW i \in DOMAIN WordsRead(found),
         i # Len(WordsRead(found)) \/ found.words = 3
  PROVE  Index(WordsRead(found)[i]) = i - 1
<1> PICK words : words = Enumerated
  OBVIOUS
<1> PICK S : S = {Unk} \cup ToSet(Inserted1Grams)
  OBVIOUS
<1>1. /\ words \in Seq(S) /\ words # << >>
      /\ \A k \in 1 .. Len(words) : Index(words[k]) = k - 1
  BY NumbersAgree
<1>2. CASE found.words = 3
  <2>1. WordsRead(found) = words
    BY <1>2 DEF WordsRead
  <2> QED
    BY <1>1, <2>1
<1>3. CASE found.words # 3
  <2> PICK cut : cut = CutWord
    OBVIOUS
  <2>1. WordsRead(found) = Front(words) \o <<cut>>
    BY <1>3 DEF WordsRead
  <2>2. Len(words) \in Nat /\ Len(words) # 0 /\ \A k \in 1 .. Len(words) : words[k] \in S
    BY <1>1
  <2> PICK n \in Nat : n = Len(words) - 1
    BY <2>2
  <2> PICK front : front = Front(words)
    OBVIOUS
  <2>3. front \in Seq(S) /\ Len(front) = n /\ \A k \in 1 .. n : front[k] = words[k]
    <3>1. front = SubSeq(words, 1, n)
      BY DEF Front
    <3>2. \A k \in 1 .. n : words[k] \in S
      BY <2>2
    <3>3. /\ front \in Seq(S) /\ Len(front) = IF 1 <= n THEN n - 1 + 1 ELSE 0
          /\ \A k \in 1 .. n - 1 + 1 : front[k] = words[1 + k - 1]
      BY <3>1, <3>2, SubSeqProperties
    <3>4. \A k \in 1 .. n : k \in 1 .. n - 1 + 1 /\ 1 + k - 1 = k
      OBVIOUS
    <3> QED
      BY <3>3, <3>4
  <2>4. front \in Seq(S \cup {cut}) /\ <<cut>> \in Seq(S \cup {cut}) /\ Len(<<cut>>) = 1
    <3>1. front \in Seq(S \cup {cut})
      <4>1. \A k \in 1 .. Len(front) : front[k] \in S \cup {cut}
        BY <2>3
      <4> QED
        BY <2>3, <4>1, SeqNarrow
    <3> QED
      BY <3>1
  <2>5. /\ front \o <<cut>> \in Seq(S \cup {cut}) /\ Len(front \o <<cut>>) = Len(front) + Len(<<cut>>)
        /\ \A k \in 1 .. Len(front) + Len(<<cut>>) :
             (front \o <<cut>>)[k] = IF k <= Len(front) THEN front[k] ELSE <<cut>>[k - Len(front)]
    BY <2>4, ConcatProperties
  <2> PICK read : read = front \o <<cut>>
    OBVIOUS
  <2>6. WordsRead(found) = read
    BY <2>1
  <2>7. DOMAIN read = 1 .. n + 1 /\ Len(read) = n + 1 /\ \A k \in 1 .. n : read[k] = words[k]
    <3>1. Len(read) = n + 1 /\ read \in Seq(S \cup {cut})
      BY <2>3, <2>4, <2>5
    <3>2. DOMAIN read = 1 .. n + 1
      BY <3>1
    <3>3. ASSUME NEW k \in 1 .. n PROVE read[k] = words[k]
      <4>1. k \in 1 .. Len(front) + Len(<<cut>>) /\ k <= Len(front)
        BY <2>3, <2>4
      <4>2. read[k] = front[k]
        BY <2>5, <4>1
      <4> QED
        BY <2>3, <4>2
    <3> QED
      BY <3>1, <3>2, <3>3
  <2>8. i \in 1 .. n + 1 /\ i # n + 1
    BY <1>3, <2>6, <2>7
  <2>9. i \in 1 .. n /\ i \in 1 .. Len(words)
    BY <2>2, <2>8
  <2> QED
    BY <1>1, <2>6, <2>7, <2>9
<1> QED
  BY <1>2, <1>3

\* Whoever loads a file after a stop gets all of it, or notices.
LEMMA LoadingKeeps ==
  ASSUME IInv, LoadBinary, structure' = structure
  PROVE  IInv'
<1>1. /\ Shape(binary) /\ Phases(binary) /\ Protected(binary)
      /\ binary.at \in {"stopped", "powerless"}
  BY DEF IInv, LoadBinary
<1>2. PICK found \in Survivors, kind \in Structures, enumerate \in BOOLEAN :
        LET loader == [structure |-> kind, enumerate |-> enumerate]
            at == Outcome(loader, found)
        IN  Goes(at, [binary EXCEPT !.cached = found, !.synced = found, !.loader = loader,
                                    !.given = IF at = "served" /\ enumerate THEN WordsRead(found)
                                              ELSE << >>])
  BY DEF LoadBinary
<1> PICK loader : loader = [structure |-> kind, enumerate |-> enumerate]
  OBVIOUS
<1> PICK at : at = Outcome(loader, found)
  OBVIOUS
<1> PICK got : got = IF at = "served" /\ enumerate THEN WordsRead(found) ELSE << >>
  OBVIOUS
<1>3. /\ IsRecord(binary') /\ Same(binary', binary) /\ binary'.at = at
      /\ binary'.cached = found /\ binary'.synced = found
      /\ binary'.loader = loader /\ binary'.given = got
  <2>1. binary' = [[binary EXCEPT !.cached = found, !.synced = found, !.loader = loader,
                                  !.given = got] EXCEPT !.at = at]
    BY <1>2 DEF Goes
  <2> QED
    BY <1>1, <2>1 DEF Shape, IsRecord, Same
<1>4. at \in Ended
  BY DEF Outcome, Ended
<1>5. binary.method # "none"
  BY <1>1 DEF Phases
<1>6. /\ found \in [Areas -> 0 .. 4]
      /\ found["vocab"] <= 2 /\ found["search"] <= 2 /\ found["words"] <= 3
      /\ found["header"] >= 2 => found["vocab"] = 2 /\ found["search"] = 2
      /\ binary.method = "after" =>
           found["header"] \notin {2, 3}
           /\ (found["header"] = 4 /\ binary.include => found["words"] = 3)
  BY <1>1, TablesFound
<1>7. found["header"] \in 0 .. 4
  BY <1>6 DEF Areas
<1>8. Shape(binary')
  <2>1. \A a \in Areas : found[a] \in 0 .. 4 /\ found[a] <= found[a]
    BY <1>6
  <2>2. Levels(binary')
    BY <1>3, <1>6, <2>1 DEF Levels
  <2> QED
    BY <1>1, <1>3, <2>2, ShapeKept
<1>9. Phases(binary') /\ Protected(binary')
  BY <1>3, <1>4, <1>5 DEF Phases, MappedPhases, AfterPhases, Protected, Same, Ended
<1>10. SearchReadAt = SearchWrittenAt
  BY <1>1, SamePlace DEF Shape
<1>11. ASSUME at = "misread"
       PROVE  binary.method = "mmap" /\ found["header"] = 3 /\ ~binary.include
  <2>1. ~Refuses(loader, found) /\ Misreads(found)
    BY <1>11 DEF Outcome
  <2>2. ~(found["header"] <= 2) /\ ~(binary.include /\ found["header"] = 3)
    BY <2>1 DEF Refuses
  <2>3. found["header"] = 3
    BY <1>6, <1>7, <1>10, <2>1, <2>2 DEF Misreads
  <2>4. binary.method \in {"none", "mmap", "after"} /\ binary.include \in BOOLEAN
    BY <1>1 DEF Shape
  <2> QED
    BY <1>5, <1>6, <2>2, <2>3, <2>4
<1>12. ASSUME at = "served"
       PROVE  /\ found["header"] = 4 /\ found["vocab"] = 2 /\ found["search"] = 2
              /\ binary.method = "after" => (binary.include => found["words"] = 3)
              /\ enumerate => binary.include
  <2>1. ~Refuses(loader, found) /\ ~Misreads(found)
    BY <1>12 DEF Outcome
  <2>2. ~(found["header"] <= 2) /\ found["header"] # 3
    BY <2>1 DEF Refuses, Misreads
  <2>3. enumerate => binary.include
    BY <2>1 DEF Refuses
  <2> QED
    BY <1>6, <1>7, <2>2, <2>3
<1>13. ASSUME at = "served", NEW i \in DOMAIN got
       PROVE  Index(got[i]) = i - 1 \/ (i = Len(got) /\ binary.include /\ found["words"] # 3)
  <2>1. enumerate
    BY <1>13
  <2>2. got = WordsRead(found)
    BY <1>13, <2>1
  <2>3. binary.include
    BY <1>12, <1>13, <2>1
  <2>4. CASE i # Len(got) \/ found.words = 3
    BY <1>1, <1>13, <2>2, <2>4, WordsAgree DEF Shape
  <2>5. CASE i = Len(got) /\ found.words # 3
    BY <2>3, <2>5
  <2> QED
    BY <2>4, <2>5
<1>14. ASSUME at = "refused", found["header"] = 4, found["vocab"] = 2, found["search"] = 2,
              binary.include => found["words"] = 3
       PROVE  kind # structure \/ (enumerate /\ ~binary.include)
  <2>1. Refuses(loader, found)
    BY <1>14 DEF Outcome
  <2>2. loader.structure = kind /\ loader.enumerate = enumerate
    OBVIOUS
  <2> QED
    BY <1>14, <2>1, <2>2 DEF Refuses
<1>15. \A w : Index(w)' = Index(w)
  BY <1>3 DEF Index, Inserted1Grams, Same
<1>16. WhatIsLoadedIsComplete'
  <2>1. /\ binary'.at = at /\ binary'.cached = found /\ binary'.given = got
        /\ binary'.method = binary.method /\ binary'.include = binary.include
        /\ binary'.loader.structure = kind /\ binary'.loader.enumerate = enumerate
    BY <1>3 DEF Same
  <2>2. at = "misread" =>
          binary'.method = "mmap" /\ binary'.cached.header = 3 /\ ~binary'.include
    BY <1>11, <2>1
  <2>3. at = "served" =>
          Whole(binary'.cached) /\ (binary'.method = "after" => (binary'.include => binary'.cached.words = 3))
    BY <1>12, <2>1 DEF Whole
  <2>4. ASSUME at = "served", NEW i \in DOMAIN binary'.given
        PROVE  Index(binary.given[i])' = i - 1
               \/ (i = Len(binary'.given) /\ ~(binary'.include => binary'.cached.words = 3))
    BY <1>13, <1>15, <2>1, <2>4
  <2>5. at = "refused" /\ Whole(binary'.cached) /\ (binary'.include => binary'.cached.words = 3) =>
          binary'.loader.structure # structure' \/ (binary'.loader.enumerate /\ ~binary'.include)
    BY <1>14, <2>1 DEF Whole
  <2> QED
    BY <2>1, <2>2, <2>3, <2>4, <2>5 DEF WhatIsLoadedIsComplete, AllWords, Whole
<1> QED
  BY <1>8, <1>9, <1>16
     DEF IInv, Shape, IsRecord, Levels, Phases, MappedPhases, AfterPhases, Protected, Secured

-----------------------------------------------------------------------------
(* The other steps                                                         *)

\* The structure is chosen once.
LEMMA BuildingIsOfOneKind ==
  ASSUME LoadStep
  PROVE  structure' = structure
<1>1. CASE ReadNGram
  BY <1>1 DEF ReadNGram, given
<1>2. CASE BuildTrie
  <2>1. CASE FindBlanks
    BY <2>1 DEF FindBlanks, given
  <2>2. CASE EndOfFindBlanks
    BY <2>2 DEF EndOfFindBlanks, given
  <2>3. CASE ObtainBackoffs
    BY <2>3 DEF ObtainBackoffs, given
  <2>4. CASE Write
    BY <2>4 DEF Write, given
  <2>5. CASE FinishedLoading
    BY <2>5 DEF FinishedLoading, given
  <2> QED
    BY <1>2, <2>1, <2>2, <2>3, <2>4, <2>5 DEF BuildTrie
<1> QED
  BY <1>1, <1>2 DEF LoadStep

\* Steps that leave the file alone.
LEMMA Unchanged ==
  ASSUME IInv, binary' = binary, structure' = structure
  PROVE  IInv'
<1>1. \A w : Index(w)' = Index(w)
  BY DEF Index, Inserted1Grams
<1>2. WhatIsLoadedIsComplete'
  BY <1>1 DEF IInv, WhatIsLoadedIsComplete, AllWords, Whole
<1> QED
  BY <1>2 DEF IInv, Shape, IsRecord, Levels, Phases, MappedPhases, AfterPhases, Protected, Secured

\* Each step of the program, of its end and of another one that loads the file.
LEMMA BinaryStepKeeps ==
  ASSUME IInv, BinaryStep
  PROVE  IInv'
<1>1. CASE BuildStep
  BY <1>1, BuildingIsOfOneKind, Unchanged DEF BuildStep
<1>2. CASE SetupJustVocab
  BY <1>2, SetupKeeps
<1>3. CASE GrowForSearch
  BY <1>3, GrowKeeps
<1>4. CASE WriteVocabWords
  BY <1>4, WordsKeep
<1>5. CASE FinishFile
  BY <1>5, FinishKeeps
<1>6. CASE WriteHeader
  BY <1>6, HeaderKeeps
<1>7. CASE WriteAfter
  BY <1>7, AfterKeeps
<1>8. CASE Stop \/ PowerFailure
  BY <1>8, StoppingKeeps
<1>9. CASE LoadBinary /\ UNCHANGED searchVars
  <2>1. structure' = structure
    BY <1>9 DEF searchVars, given
  <2> QED
    BY <1>9, <2>1, LoadingKeeps
<1> QED
  BY <1>1, <1>2, <1>3, <1>4, <1>5, <1>6, <1>7, <1>8, <1>9 DEF BinaryStep

\* An empty file.
LEMMA Initially ==
  ASSUME Init
  PROVE  IInv
<1>1. PICK at \in {"load", "setup"}, method \in {"none", "mmap", "after"}, include \in BOOLEAN,
           listing \in Listings \cup {<< >>} :
        binary = Binary(at, method, include, listing) /\ (method = "none" => at = "load")
  BY DEF Init, BinaryInit
<1>2. /\ binary.at = at /\ binary.method = method /\ binary.include = include
      /\ binary.listing = listing /\ binary.cached = Nothing /\ binary.synced = Nothing
      /\ IsRecord(binary)
  BY <1>1 DEF Binary, IsRecord
<1>3. /\ Nothing \in [Areas -> 0 .. 4] /\ \A a \in Areas : Nothing[a] <= Nothing[a]
      /\ \A a \in {"header", "vocab", "search", "words"} : Nothing[a] = 0
  BY DEF Nothing, Areas
<1>4. Shape(binary)
  BY <1>2, <1>3 DEF Shape, Levels
<1>5. Phases(binary)
  BY <1>1, <1>2, <1>3 DEF Phases, MappedPhases, AfterPhases
<1>6. Protected(binary)
  BY <1>2, <1>3, <1>4, NotYet
<1>7. WhatIsLoadedIsComplete
  BY <1>2 DEF WhatIsLoadedIsComplete
<1> QED
  BY <1>4, <1>5, <1>6, <1>7 DEF IInv

-----------------------------------------------------------------------------
(* The theorems                                                            *)

\* The inductive invariant holds in every state.
THEOREM Invariance == Spec => []IInv
<1>1. Init => IInv
  BY Initially
<1>2. IInv /\ [Next]_vars => IInv'
  <2> SUFFICES ASSUME IInv, [Next]_vars PROVE IInv'
    OBVIOUS
  <2>1. CASE Load
    BY <2>1, BinaryStepKeeps DEF Load
  <2>2. CASE UNCHANGED modelVars
    <3>1. binary' = binary /\ structure' = structure
      BY <2>2 DEF modelVars, searchVars, given
    <3> QED
      BY <3>1, Unchanged
  <2>3. CASE UNCHANGED vars
    BY <2>2, <2>3 DEF vars
  <2>4. CASE BeginSentence \/ Terminal \/ NonTerminal
    BY <2>2, <2>4 DEF BeginSentence, Terminal, NonTerminal
  <2>5. CASE BeginNonTerminal \/ Finish \/ Reset
    BY <2>2, <2>5 DEF BeginNonTerminal, Finish, Reset
  <2> QED
    BY <2>1, <2>3, <2>4, <2>5 DEF Next
<1> QED
  BY <1>1, <1>2, PTL DEF Spec

\* "indicates an incomplete binary file (i.e. build failed)": wherever the
\* program or the machine stops, a file that is accepted has all of its tables
\* and the words have the numbers of the vocabulary, but for the two gaps that
\* the property names.
THEOREM WhatIsLoadedIsCompleteHolds == Spec => []WhatIsLoadedIsComplete
<1>1. IInv => WhatIsLoadedIsComplete
  BY DEF IInv
<1> QED
  BY <1>1, Invariance, PTL
=============================================================================
