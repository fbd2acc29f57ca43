---------------------------- MODULE ProbingProofs ----------------------------
(***************************************************************************)
(* TLAPS proofs about util/probing_hash_table.hh, for every set of keys,   *)
(* every hash function and every size: the table and AutoProbing keep      *)
(* their invariant, throw only when they hold what they were sized for,    *)
(* and implement KeySet.                                                   *)
(*                                                                         *)
(* Between calls no bucket from the ideal one of a key to the key is empty *)
(* (Reached).  Double breaks that; its first loop, come to bucket a, keeps *)
(* another property (Moving): the keys it has placed are reached without   *)
(* going round the end, those it has still to place lie at their ideal     *)
(* bucket of the old size or after it, and the buckets from Half + a on    *)
(* are empty.  So a key of bucket a, whose new ideal bucket is the old one *)
(* or the old one plus Half, finds a bucket up to a or up to Half + a and  *)
(* never one the loop has still to come to.                                *)
(***************************************************************************)
EXTENDS ProbingHashTable, FiniteSetTheorems, WellFoundedInduction, TLAPS

\* The keys that are somewhere in the table, and half its size.
Members == Held(table) \cup Aside
Half == buckets \div 2

\* No key is in two buckets.
Distinct(t) == \A i, j \in DOMAIN t : t[i] = t[j] /\ t[i] # Invalid => i = j

Entries(s) == {s[i] : i \in DOMAIN s}

Tables(b) == [0 .. b - 1 -> Keys \cup {Invalid}]

\* From the ideal bucket of a key to the key no bucket is empty.
Reached(t, b) ==
  \A i \in 0 .. b - 1 : t[i] # Invalid =>
    \E d \in 0 .. b - 1 :
      Place(t[i], d, b) = i /\ \A e \in 0 .. d - 1 : t[Place(t[i], e, b)] # Invalid

\* The same for a bucket that is not before the ideal one.
Near(t, b, i) ==
  Ideal(t[i], b) <= i /\ \A q \in Ideal(t[i], b) .. i : t[q] # Invalid

\* Double's first loop, over the buckets 0 .. half - 1, has come to a.
Moving(t, half, a) ==
  /\ \A q \in half + a .. 2 * half - 1 : t[q] = Invalid
  /\ \A p \in 0 .. 2 * half - 1 : t[p] # Invalid /\ (p < a \/ p >= half) =>
       Near(t, 2 * half, p) /\ (p >= half => Ideal(t[p], 2 * half) >= half)
  /\ \A p \in a .. half - 1 : t[p] # Invalid => Ideal(t[p], half) <= p

-----------------------------------------------------------------------------
(* Numbers, and the buckets of a key                                       *)

\* A set of naturals that is not empty has a least element, and LeastOf is it.
LEMMA Least ==
  ASSUME NEW S \in SUBSET Nat, S # {}
  PROVE  LeastOf(S) \in S /\ \A y \in S : LeastOf(S) <= y
<1> DEFINE R == OpToRel(<, Nat)
<1>1. IsWellFoundedOn(R, Nat)
  BY NatLessThanWellFounded
<1>2. \A x, y \in Nat : <<x, y>> \in R <=> x < y
  BY DEF OpToRel
<1> HIDE DEF R
<1>3. \E x \in S : \A y \in S : ~ (<<y, x>> \in R)
  <2>1. S \subseteq Nat /\ S # {}
    OBVIOUS
  <2> QED
    BY <1>1, <2>1, WFMin
<1>4. \E x \in S : \A y \in S : x <= y
  <2>1. PICK x \in S : \A y \in S : ~ (<<y, x>> \in R)
    BY <1>3
  <2>2. ASSUME NEW y \in S PROVE x <= y
    <3>1. x \in Nat /\ y \in Nat
      OBVIOUS
    <3>2. ~(<<y, x>> \in R)
      BY <2>1
    <3>3. <<y, x>> \in R <=> y < x
      BY <1>2, <3>1
    <3>4. ~(y < x)
      BY <3>2, <3>3
    <3> QED
      BY <3>1, <3>4
  <2> QED
    BY <2>2
<1> QED
  BY <1>4 DEF LeastOf

\* hash % buckets, of a hash written as a multiple of the buckets and a rest.
LEMMA ModUnique ==
  ASSUME NEW b \in Nat \ {0}, NEW q \in Nat, NEW r \in 0 .. b - 1
  PROVE (b * q + r) % b = r
OBVIOUS

\* Going on from a bucket goes round the end of the table once at most.
LEMMA ModAdd ==
  ASSUME NEW b \in Nat \ {0}, NEW x \in 0 .. b - 1, NEW d \in 0 .. b - 1
  PROVE  (x + d) % b = IF x + d < b THEN x + d ELSE x + d - b
OBVIOUS

\* In a table of twice the size the ideal bucket of a key is the old one, or
\* the old one in the new half.
LEMMA ModDouble ==
  ASSUME NEW b \in Nat \ {0}, NEW h \in Nat
  PROVE  h % (2 * b) \in {h % b, (h % b) + b}
<1>1. PICK q \in Nat, r \in 0 .. b - 1 : h = b * q + r /\ r = h % b
  <2>1. h = b * (h \div b) + (h % b) /\ h % b \in 0 .. b - 1 /\ h \div b \in Nat
    OBVIOUS
  <2> QED
    BY <2>1
<1>2. PICK p \in Nat, e \in {0, 1} : q = 2 * p + e
  <2>1. q = 2 * (q \div 2) + (q % 2) /\ q \div 2 \in Nat /\ q % 2 \in {0, 1}
    OBVIOUS
  <2> QED
    BY <2>1
<1>3. b * (2 * p + e) = (2 * b) * p + b * e
  OBVIOUS
<1>4. b * e + r \in 0 .. 2 * b - 1 /\ (e = 0 => b * e + r = r) /\ (e = 1 => b * e + r = b + r)
  OBVIOUS
<1>5. h = (2 * b) * p + (b * e + r)
  BY <1>1, <1>2, <1>3
<1> DEFINE c == 2 * b s == b * e + r
<1>6. c \in Nat \ {0} /\ s \in 0 .. c - 1 /\ h = c * p + s
  BY <1>4, <1>5
<1> HIDE DEF c, s
<1>7. h % c = s
  BY <1>6, ModUnique
<1> QED
  BY <1>1, <1>4, <1>7 DEF c, s

\* The d-th bucket from the ideal one of a key, without the remainder.
LEMMA PlaceIs ==
  ASSUME hash \in [Keys -> Nat], NEW b \in Nat \ {0}, NEW k \in Keys
  PROVE  /\ Ideal(k, b) \in 0 .. b - 1
         /\ \A d \in 0 .. b - 1 :
              /\ Place(k, d, b) \in 0 .. b - 1
              /\ Place(k, d, b) = IF Ideal(k, b) + d < b THEN Ideal(k, b) + d
                                 ELSE Ideal(k, b) + d - b
<1>1. Ideal(k, b) \in 0 .. b - 1
  <2>1. hash[k] \in Nat
    OBVIOUS
  <2> QED
    BY <2>1 DEF Ideal
<1>2. ASSUME NEW d \in 0 .. b - 1
      PROVE  Place(k, d, b) = IF Ideal(k, b) + d < b THEN Ideal(k, b) + d
                              ELSE Ideal(k, b) + d - b
  BY <1>1, ModAdd DEF Place
<1>3. ASSUME NEW d \in 0 .. b - 1
      PROVE  Place(k, d, b) \in 0 .. b - 1
  BY <1>1, <1>2
<1> QED
  BY <1>1, <1>2, <1>3

\* From its ideal bucket a key comes to every bucket.
LEMMA Covers ==
  ASSUME hash \in [Keys -> Nat], NEW b \in Nat \ {0}, NEW k \in Keys, NEW i \in 0 .. b - 1
  PROVE  \E d \in 0 .. b - 1 : Place(k, d, b) = i
<1> DEFINE I == Ideal(k, b)
<1>1. I \in 0 .. b - 1
  BY PlaceIs
<1>2. \A d \in 0 .. b - 1 : Place(k, d, b) = IF I + d < b THEN I + d ELSE I + d - b
  BY PlaceIs
<1> HIDE DEF I
<1>3. CASE i >= I
  <2>1. i - I \in 0 .. b - 1 /\ I + (i - I) < b /\ I + (i - I) = i
    BY <1>1, <1>3
  <2> QED
    BY <1>2, <2>1
<1>4. CASE i < I
  <2>1. i - I + b \in 0 .. b - 1 /\ ~(I + (i - I + b) < b) /\ I + (i - I + b) - b = i
    BY <1>1, <1>4
  <2> QED
    BY <1>2, <2>1
<1> QED
  BY <1>1, <1>3, <1>4

\* A loop of the table that has a bucket to stop at stops at the first.
LEMMA StopFacts ==
  ASSUME hash \in [Keys -> Nat], NEW b \in Nat \ {0}, NEW k \in Keys, NEW t, NEW Stops,
         \E i \in 0 .. b - 1 : t[i] \in Stops
  PROVE  \E d \in 0 .. b - 1 :
           /\ Stop(t, b, k, Stops) = Place(k, d, b)
           /\ Place(k, d, b) \in 0 .. b - 1
           /\ t[Place(k, d, b)] \in Stops
           /\ \A e \in 0 .. b - 1 : t[Place(k, e, b)] \in Stops => d <= e
<1> DEFINE S == {d \in 0 .. b - 1 : t[Place(k, d, b)] \in Stops}
<1>1. PICK i \in 0 .. b - 1 : t[i] \in Stops
  OBVIOUS
<1>2. PICK d \in 0 .. b - 1 : Place(k, d, b) = i
  BY Covers
<1>3. S \in SUBSET Nat /\ S # {}
  BY <1>1, <1>2
<1>4. LeastOf(S) \in S /\ \A e \in S : LeastOf(S) <= e
  BY <1>3, Least
<1>5. Stop(t, b, k, Stops) = Place(k, LeastOf(S), b)
  BY DEF Stop
<1> DEFINE m == LeastOf(S)
<1>6. m \in 0 .. b - 1 /\ t[Place(k, m, b)] \in Stops
  BY <1>4
<1>7. \A e \in 0 .. b - 1 : t[Place(k, e, b)] \in Stops => m <= e
  BY <1>4
<1>8. Place(k, m, b) \in 0 .. b - 1
  BY <1>6, PlaceIs
<1> HIDE DEF S
<1> QED
  BY <1>5, <1>6, <1>7, <1>8

-----------------------------------------------------------------------------
(* Finding and storing a key                                               *)

\* When no bucket between a key and its ideal one is empty, the loop of Find
\* finds the keys the table holds and no others.
LEMMA FoundIsHeld ==
  ASSUME hash \in [Keys -> Nat], NEW b \in Nat \ {0}, NEW k \in Keys, NEW t \in Tables(b),
         Reached(t, b), \E i \in 0 .. b - 1 : t[i] = Invalid
  PROVE  Found(t, b, k) <=> k \in Held(t)
<1>0. k # Invalid /\ DOMAIN t = 0 .. b - 1
  BY KeysAssumption DEF Tables
<1>1. PICK m \in 0 .. b - 1 :
        /\ Stop(t, b, k, {k, Invalid}) = Place(k, m, b)
        /\ Place(k, m, b) \in 0 .. b - 1
        /\ t[Place(k, m, b)] \in {k, Invalid}
        /\ \A e \in 0 .. b - 1 : t[Place(k, e, b)] \in {k, Invalid} => m <= e
  <2>1. \E i \in 0 .. b - 1 : t[i] \in {k, Invalid}
    OBVIOUS
  <2> QED
    BY <2>1, StopFacts
<1>2. ASSUME Found(t, b, k) PROVE k \in Held(t)
  <2>1. t[Place(k, m, b)] = k
    BY <1>1, <1>2 DEF Found
  <2> QED
    BY <1>0, <1>1, <2>1 DEF Held
<1>3. ASSUME k \in Held(t) PROVE Found(t, b, k)
  <2>1. PICK i \in 0 .. b - 1 : t[i] = k
    BY <1>0, <1>3 DEF Held
  <2>2. PICK d \in 0 .. b - 1 :
          Place(k, d, b) = i /\ \A e \in 0 .. d - 1 : t[Place(k, e, b)] # Invalid
    BY <1>0, <2>1 DEF Reached
  <2>3. m <= d
    BY <1>1, <2>1, <2>2
  <2>4. t[Place(k, m, b)] # Invalid
    <3>1. CASE m = d
      BY <1>0, <2>1, <2>2, <3>1
    <3>2. CASE m # d
      <4>1. m \in 0 .. d - 1
        BY <2>3, <3>2
      <4> QED
        BY <2>2, <4>1
    <3> QED
      BY <3>1, <3>2
  <2> QED
    BY <1>1, <2>4 DEF Found
<1> QED
  BY <1>2, <1>3

\* UncheckedInsert takes an empty bucket, leaves no gap behind a key, and does
\* not go past an empty bucket that comes later than the ideal one.
LEMMA InsertFacts ==
  ASSUME hash \in [Keys -> Nat], NEW b \in Nat \ {0}, NEW k \in Keys, NEW t \in Tables(b),
         \E i \in 0 .. b - 1 : t[i] = Invalid
  PROVE  \E s \in 0 .. b - 1 :
           /\ t[s] = Invalid
           /\ UncheckedInsert(t, b, k) = [t EXCEPT ![s] = k]
           /\ Reached(t, b) => Reached([t EXCEPT ![s] = k], b)
           /\ \A p \in 0 .. b - 1 : t[p] = Invalid /\ Ideal(k, b) <= p =>
                s \in Ideal(k, b) .. p /\ \A q \in Ideal(k, b) .. s - 1 : t[q] # Invalid
<1>0. k # Invalid /\ DOMAIN t = 0 .. b - 1
  BY KeysAssumption DEF Tables
<1>1. PICK m \in 0 .. b - 1 :
        /\ Stop(t, b, k, {Invalid}) = Place(k, m, b)
        /\ Place(k, m, b) \in 0 .. b - 1
        /\ t[Place(k, m, b)] \in {Invalid}
        /\ \A e \in 0 .. b - 1 : t[Place(k, e, b)] \in {Invalid} => m <= e
  <2>1. \E i \in 0 .. b - 1 : t[i] \in {Invalid}
    OBVIOUS
  <2> QED
    BY <2>1, StopFacts
<1>2. PICK s \in 0 .. b - 1 : s = Place(k, m, b)
  BY <1>1
<1>3. t[s] = Invalid /\ UncheckedInsert(t, b, k) = [t EXCEPT ![s] = k]
  BY <1>1, <1>2 DEF UncheckedInsert
<1>4. \A e \in 0 .. m - 1 : t[Place(k, e, b)] # Invalid
  <2> SUFFICES ASSUME NEW e \in 0 .. m - 1, t[Place(k, e, b)] = Invalid
               PROVE  FALSE
    OBVIOUS
  <2>1. e \in 0 .. b - 1 /\ ~(m <= e)
    OBVIOUS
  <2> QED
    BY <1>1, <2>1
<1> DEFINE u == [t EXCEPT ![s] = k]
<1>5. u[s] = k /\ \A i \in 0 .. b - 1 : i # s => u[i] = t[i]
  BY <1>0
<1>6. \A i \in 0 .. b - 1 : t[i] # Invalid => u[i] # Invalid
  BY <1>0, <1>5
<1> HIDE DEF u
<1>7. ASSUME Reached(t, b), NEW i \in 0 .. b - 1, u[i] # Invalid
      PROVE  \E d \in 0 .. b - 1 :
               Place(u[i], d, b) = i /\ \A e \in 0 .. d - 1 : u[Place(u[i], e, b)] # Invalid
  <2>1. CASE i = s
    <3>1. \A e \in 0 .. m - 1 : Place(k, e, b) \in 0 .. b - 1
      BY PlaceIs
    <3>2. \A e \in 0 .. m - 1 : u[Place(k, e, b)] # Invalid
      BY <1>4, <1>6, <3>1
    <3>3. Place(u[i], m, b) = i /\ u[i] = k
      BY <1>2, <1>5, <2>1
    <3> QED
      BY <3>2, <3>3
  <2>2. CASE i # s
    <3>1. u[i] = t[i] /\ t[i] # Invalid /\ t[i] \in Keys
      BY <1>5, <1>7, <2>2 DEF Tables
    <3>2. PICK d \in 0 .. b - 1 :
            Place(t[i], d, b) = i /\ \A e \in 0 .. d - 1 : t[Place(t[i], e, b)] # Invalid
      BY <1>7, <3>1 DEF Reached
    <3>3. \A e \in 0 .. d - 1 : Place(t[i], e, b) \in 0 .. b - 1
      BY <3>1, PlaceIs
    <3>4. \A e \in 0 .. d - 1 : u[Place(t[i], e, b)] # Invalid
      BY <1>6, <3>2, <3>3
    <3> QED
      BY <3>1, <3>2, <3>4
  <2> QED
    BY <2>1, <2>2
<1>8. Reached(t, b) => Reached(u, b)
  BY <1>7 DEF Reached
<1>9. ASSUME NEW p \in 0 .. b - 1, t[p] = Invalid, Ideal(k, b) <= p
      PROVE  s \in Ideal(k, b) .. p /\ \A q \in Ideal(k, b) .. s - 1 : t[q] # Invalid
  <2> DEFINE I == Ideal(k, b)
  <2>1. I \in 0 .. b - 1 /\ I <= p
    BY <1>9, PlaceIs
  <2>2. \A d \in 0 .. b - 1 : Place(k, d, b) = IF I + d < b THEN I + d ELSE I + d - b
    BY PlaceIs
  <2> HIDE DEF I
  <2>3. p - I \in 0 .. b - 1 /\ I + (p - I) = p
    BY <2>1
  <2>4. Place(k, p - I, b) = p
    BY <2>2, <2>3
  <2>5. m <= p - I
    BY <1>1, <1>9, <2>3, <2>4
  <2>6. s = I + m /\ s \in I .. p
    BY <1>2, <2>1, <2>2, <2>5
  <2>7. ASSUME NEW q \in I .. s - 1
        PROVE  t[q] # Invalid
    <3>1. q - I \in 0 .. m - 1 /\ q - I \in 0 .. b - 1 /\ I + (q - I) = q /\ q < b
      BY <2>1, <2>6
    <3>2. Place(k, q - I, b) = q
      BY <2>2, <3>1
    <3> QED
      BY <1>4, <3>1, <3>2
  <2> QED
    BY <2>6, <2>7 DEF I
<1> QED
  BY <1>3, <1>8, <1>9 DEF u

\* The keys of a table are finitely many.
LEMMA HeldFacts ==
  ASSUME NEW b \in Nat \ {0}, NEW t \in Tables(b)
  PROVE  /\ Held(t) \subseteq Keys /\ IsFiniteSet(Held(t))
         /\ \A i \in 0 .. b - 1 : t[i] # Invalid => t[i] \in Held(t)
<1>1. Held(t) \subseteq Keys
  BY DEF Held, Tables
<1>2. IsFiniteSet(Held(t))
  BY <1>1, KeysAssumption, FS_Subset
<1> QED
  BY <1>1, <1>2 DEF Held, Tables

\* Emptying a bucket takes its key, and no other, out of the table.
LEMMA HeldRemoved ==
  ASSUME NEW b \in Nat \ {0}, NEW t \in Tables(b), NEW s \in 0 .. b - 1,
         t[s] # Invalid, Distinct(t),
         NEW u \in Tables(b), u[s] = Invalid, \A i \in 0 .. b - 1 : i # s => u[i] = t[i]
  PROVE  Distinct(u) /\ Held(u) = Held(t) \ {t[s]}
<1>0. DOMAIN t = 0 .. b - 1 /\ DOMAIN u = 0 .. b - 1
  BY DEF Tables
<1>1. \A i \in 0 .. b - 1 : t[i] = t[s] => i = s
  BY <1>0 DEF Distinct
<1>2. Distinct(u)
  BY <1>0 DEF Distinct
<1>3. Held(u) = Held(t) \ {t[s]}
  BY <1>0, <1>1 DEF Held
<1> QED
  BY <1>2, <1>3

\* UncheckedInsert of a key that is not there adds it, and it alone.
LEMMA StoreFacts ==
  ASSUME hash \in [Keys -> Nat], NEW b \in Nat \ {0}, NEW k \in Keys, NEW t \in Tables(b),
         \E i \in 0 .. b - 1 : t[i] = Invalid, k \notin Held(t), Distinct(t),
         NEW r, r = UncheckedInsert(t, b, k)
  PROVE  /\ r \in Tables(b) /\ Distinct(r) /\ Held(r) = Held(t) \cup {k}
         /\ Reached(t, b) => Reached(r, b)
         /\ \E s \in 0 .. b - 1 :
              /\ t[s] = Invalid /\ r[s] = k /\ \A i \in 0 .. b - 1 : i # s => r[i] = t[i]
              /\ \A p \in 0 .. b - 1 : t[p] = Invalid /\ Ideal(k, b) <= p =>
                   s \in Ideal(k, b) .. p /\ \A q \in Ideal(k, b) .. s - 1 : t[q] # Invalid
<1>1. PICK s \in 0 .. b - 1 :
        /\ t[s] = Invalid
        /\ UncheckedInsert(t, b, k) = [t EXCEPT ![s] = k]
        /\ Reached(t, b) => Reached([t EXCEPT ![s] = k], b)
        /\ \A p \in 0 .. b - 1 : t[p] = Invalid /\ Ideal(k, b) <= p =>
             s \in Ideal(k, b) .. p /\ \A q \in Ideal(k, b) .. s - 1 : t[q] # Invalid
  BY InsertFacts
<1>2. r = [t EXCEPT ![s] = k]
  BY <1>1
<1>3. Reached(t, b) => Reached(r, b)
  BY <1>1
<1>4. r \in Tables(b) /\ r[s] = k /\ \A i \in 0 .. b - 1 : i # s => r[i] = t[i]
  BY <1>2 DEF Tables
<1>5. Distinct(r) /\ Held(r) = Held(t) \cup {k}
  <2>0. t[s] = Invalid /\ k # Invalid /\ DOMAIN t = 0 .. b - 1 /\ DOMAIN r = 0 .. b - 1
    BY <1>1, <1>4, KeysAssumption DEF Tables
  <2>1. \A i \in 0 .. b - 1 : t[i] # k
    BY <2>0 DEF Held
  <2>2. Distinct(r)
    BY ONLY <1>4, <2>0, <2>1, Distinct(t) DEF Distinct
  <2>3. Held(r) = Held(t) \cup {k}
    BY ONLY <1>4, <2>0, s \in 0 .. b - 1 DEF Held
  <2> QED
    BY <2>2, <2>3
<1> QED
  BY <1>1, <1>3, <1>4, <1>5

\* A table with fewer keys than buckets has an empty bucket.
LEMMA GapOfCount ==
  ASSUME NEW b \in Nat \ {0}, NEW t \in Tables(b), Distinct(t), Cardinality(Held(t)) < b
  PROVE  \E i \in 0 .. b - 1 : t[i] = Invalid
<1> SUFFICES ASSUME \A i \in 0 .. b - 1 : t[i] # Invalid PROVE FALSE
  OBVIOUS
<1>0. DOMAIN t = 0 .. b - 1
  BY DEF Tables
<1>1. \A i \in 0 .. b - 1 : t[i] \in Held(t)
  BY HeldFacts
<1>2. t \in [0 .. b - 1 -> Held(t)]
  BY <1>1 DEF Tables
<1>3. t \in Injection(0 .. b - 1, Held(t))
  BY <1>0, <1>2 DEF Distinct, Injection, IsInjective
<1>4. IsFiniteSet(Held(t))
  BY HeldFacts
<1>5. Cardinality(0 .. b - 1) <= Cardinality(Held(t))
  BY <1>3, <1>4, FS_Injection
<1>6. Cardinality(0 .. b - 1) = b /\ Cardinality(Held(t)) \in Nat
  <2>1. 0 \in Int /\ b - 1 \in Int /\ 0 <= b - 1
    OBVIOUS
  <2>2. Cardinality(0 .. b - 1) = (b - 1) - 0 + 1
    BY <2>1, FS_Interval
  <2> QED
    BY <1>4, <2>2, FS_CardinalityType
<1> QED
  BY <1>5, <1>6

-----------------------------------------------------------------------------
(* Doubling                                                                *)

\* One turn of Double's first loop: the key of bucket a finds a bucket that is
\* not in a + 1 .. B - 1, where the loop has still to come, nor round the end.
LEMMA ReinsertFacts ==
  ASSUME hash \in [Keys -> Nat], NEW B \in Nat \ {0}, NEW t \in Tables(2 * B), NEW a \in 0 .. B - 1,
         Moving(t, B, a), Distinct(t), t[a] # Invalid
  PROVE  LET r == UncheckedInsert([t EXCEPT ![a] = Invalid], 2 * B, t[a])
         IN  /\ r \in Tables(2 * B) /\ Distinct(r) /\ Held(r) = Held(t)
             /\ Moving(r, B, a + 1)
<1> DEFINE b == 2 * B
           k == t[a]
           u == [t EXCEPT ![a] = Invalid]
           r == UncheckedInsert(u, b, k)
           I == Ideal(k, b)
<1>0. /\ b \in Nat \ {0} /\ a \in 0 .. b - 1 /\ DOMAIN t = 0 .. b - 1 /\ DOMAIN u = 0 .. b - 1
      /\ B + a \in 0 .. b - 1 /\ b = 2 * B
  BY DEF Tables
<1>1. k \in Keys /\ k # Invalid
  BY <1>0 DEF Tables
<1>2. /\ u \in Tables(b) /\ Distinct(u) /\ Held(u) = Held(t) \ {k}
      /\ u[a] = Invalid /\ \A i \in 0 .. b - 1 : i # a => u[i] = t[i]
  <2>1. u \in Tables(b) /\ u[a] = Invalid /\ \A i \in 0 .. b - 1 : i # a => u[i] = t[i]
    BY <1>0 DEF Tables
  <2> HIDE DEF u
  <2>2. t \in Tables(b) /\ k = t[a]
    OBVIOUS
  <2> HIDE DEF b, k
  <2>3. t[a] # Invalid /\ Distinct(t)
    OBVIOUS
  <2>4. Distinct(u) /\ Held(u) = Held(t) \ {t[a]}
    BY ONLY <1>0, <2>1, <2>2, <2>3, HeldRemoved
  <2> QED
    BY <2>1, <2>2, <2>4
<1>3. u[a] = Invalid /\ \A i \in 0 .. b - 1 : i # a => u[i] = t[i]
  BY <1>2
<1>4. I = Ideal(k, B) \/ I = Ideal(k, B) + B
  BY <1>1, ModDouble DEF Ideal
<1>5. Ideal(k, B) \in 0 .. a
  <2>1. Ideal(k, B) <= a
    BY <1>1 DEF Moving
  <2> QED
    BY <1>1, <2>1, PlaceIs
<1>6. k \in Held(t)
  BY <1>0, <1>1 DEF Held
<1>7. r = UncheckedInsert(u, b, k)
  OBVIOUS
<1> HIDE DEF b, k, u, r, I
<1>8. /\ r \in Tables(b) /\ Distinct(r) /\ Held(r) = Held(u) \cup {k}
      /\ Reached(u, b) => Reached(r, b)
      /\ \E s \in 0 .. b - 1 :
           /\ u[s] = Invalid /\ r[s] = k /\ \A i \in 0 .. b - 1 : i # s => r[i] = u[i]
           /\ \A p \in 0 .. b - 1 : u[p] = Invalid /\ Ideal(k, b) <= p =>
                s \in Ideal(k, b) .. p /\ \A q \in Ideal(k, b) .. s - 1 : u[q] # Invalid
  <2>1. (\E i \in 0 .. b - 1 : u[i] = Invalid) /\ k \notin Held(u)
    BY <1>0, <1>2
  <2>2. hash \in [Keys -> Nat] /\ b \in Nat \ {0} /\ k \in Keys /\ u \in Tables(b) /\ Distinct(u)
    BY <1>0, <1>1, <1>2
  <2> QED
    BY ONLY <1>7, <2>1, <2>2, StoreFacts
<1>9. PICK s \in 0 .. b - 1 :
        /\ u[s] = Invalid /\ r[s] = k /\ \A i \in 0 .. b - 1 : i # s => r[i] = u[i]
        /\ \A p \in 0 .. b - 1 : u[p] = Invalid /\ I <= p =>
             s \in I .. p /\ \A q \in I .. s - 1 : u[q] # Invalid
  BY <1>8 DEF I
<1>10. /\ s \in I .. b - 1 /\ \A q \in I .. s - 1 : u[q] # Invalid
       /\ s \in 0 .. a \/ (I >= B /\ s \in B .. B + a)
  <2>1. CASE I = Ideal(k, B)
    <3>1. I \in 0 .. a
      BY <1>5, <2>1
    <3>2. s \in I .. a /\ \A q \in I .. s - 1 : u[q] # Invalid
      BY <1>0, <1>3, <1>9, <3>1
    <3> QED
      BY <1>0, <3>1, <3>2
  <2>2. CASE I = Ideal(k, B) + B
    <3>1. I \in B .. B + a
      BY <1>5, <2>2
    <3>2. u[B + a] = Invalid
      <4>1. t[B + a] = Invalid
        BY DEF Moving
      <4>2. B + a # a
        OBVIOUS
      <4> QED
        BY <1>0, <1>3, <4>1, <4>2
    <3>3. s \in I .. B + a /\ \A q \in I .. s - 1 : u[q] # Invalid
      BY <1>0, <1>9, <3>1, <3>2
    <3> QED
      BY <1>0, <3>1, <3>3
  <2> QED
    BY <1>4, <2>1, <2>2
<1>11. \A i \in 0 .. b - 1 : r[i] # Invalid <=> (i = s \/ (i # a /\ t[i] # Invalid))
  BY <1>1, <1>3, <1>9
<1>12. \A i \in 0 .. b - 1 : r[i] # Invalid /\ i # s => r[i] = t[i]
  BY <1>3, <1>9, <1>11
<1>13. I \in 0 .. b - 1
  BY <1>0, <1>1, PlaceIs DEF I
<1>14. ASSUME NEW q \in B + (a + 1) .. b - 1
       PROVE  r[q] = Invalid
  <2>1. q \in 0 .. b - 1 /\ q # s /\ q \in B + a .. b - 1
    BY <1>0, <1>10
  <2>2. t[q] = Invalid
    BY <2>1 DEF Moving, b
  <2> QED
    BY <1>11, <2>1, <2>2
<1>15. ASSUME NEW p \in 0 .. b - 1, r[p] # Invalid, p < a + 1 \/ p >= B
       PROVE  Near(r, b, p) /\ (p >= B => Ideal(r[p], b) >= B)
  <2>1. CASE p = s
    <3>1. r[p] = k /\ Ideal(r[p], b) = I
      BY <1>9, <2>1 DEF I
    <3>2. ASSUME NEW q \in I .. p
          PROVE  r[q] # Invalid
      <4>1. CASE q = s
        BY <1>1, <1>9, <4>1
      <4>2. CASE q # s
        <5>1. q \in I .. s - 1 /\ q \in 0 .. b - 1
          BY <1>0, <1>13, <2>1, <3>2, <4>2
        <5>2. u[q] # Invalid
          BY <1>10, <5>1
        <5> QED
          BY <1>9, <4>2, <5>1, <5>2
      <4> QED
        BY <4>1, <4>2
    <3>3. I <= p /\ (p >= B => I >= B)
      BY <1>10, <2>1
    <3> QED
      BY <3>1, <3>2, <3>3 DEF Near
  <2>2. CASE p # s
    <3>1. r[p] = t[p] /\ t[p] # Invalid /\ p # a
      BY <1>11, <1>12, <1>15, <2>2
    <3>2. p < a \/ p >= B
      BY <1>15, <3>1
    <3>3. Near(t, b, p) /\ (p >= B => Ideal(t[p], b) >= B)
      BY <3>1, <3>2 DEF Moving, b
    <3> DEFINE J == Ideal(t[p], b)
    <3>4. J \in 0 .. b - 1 /\ J <= p
      <4>1. t[p] \in Keys
        BY <3>1, <1>0 DEF Tables, b
      <4> QED
        BY <1>0, <3>3, <4>1, PlaceIs DEF Near
    <3>5. ASSUME NEW q \in J .. p
          PROVE  r[q] # Invalid
      <4>1. q \in 0 .. b - 1 /\ q # a
        <5>1. CASE p < a
          BY <1>0, <3>4, <3>5, <5>1
        <5>2. CASE p >= B
          BY <1>0, <3>3, <3>4, <3>5, <5>2
        <5> QED
          BY <3>2, <5>1, <5>2
      <4>2. t[q] # Invalid
        BY <3>3 DEF Near
      <4> QED
        BY <1>11, <4>1, <4>2
    <3> QED
      BY <3>1, <3>3, <3>5 DEF Near
  <2> QED
    BY <2>1, <2>2
<1>16. ASSUME NEW p \in a + 1 .. B - 1, r[p] # Invalid
       PROVE  Ideal(r[p], B) <= p
  <2>1. p # s /\ p \in 0 .. b - 1 /\ p \in a .. B - 1
    BY <1>0, <1>10
  <2>2. r[p] = t[p] /\ t[p] # Invalid
    BY <1>11, <1>12, <1>16, <2>1
  <2> QED
    BY <2>1, <2>2 DEF Moving
<1>17. Moving(r, B, a + 1)
  BY <1>14, <1>15, <1>16 DEF Moving, b
<1>18. Held(r) = Held(t)
  BY <1>2, <1>6, <1>8
<1> QED
  BY <1>8, <1>17, <1>18 DEF r, u, k, b

\* The same turn, when the bucket is empty.
LEMMA ReinsertNothing ==
  ASSUME NEW B \in Nat \ {0}, NEW t, NEW a \in 0 .. B - 1,
         Moving(t, B, a), t[a] = Invalid
  PROVE  Moving(t, B, a + 1)
<1>1. ASSUME NEW p \in 0 .. 2 * B - 1, t[p] # Invalid, p < a + 1 \/ p >= B
      PROVE  p < a \/ p >= B
  BY <1>1
<1>2. \A q \in B + (a + 1) .. 2 * B - 1 : q \in B + a .. 2 * B - 1
  OBVIOUS
<1>3. \A p \in a + 1 .. B - 1 : p \in a .. B - 1
  OBVIOUS
<1> QED
  BY <1>1, <1>2, <1>3 DEF Moving

\* When the first loop has been through the old half, every key is reached
\* from its ideal bucket in the table of twice the size.
LEMMA ReinsertDone ==
  ASSUME hash \in [Keys -> Nat], NEW B \in Nat \ {0}, NEW t \in Tables(2 * B), Moving(t, B, B)
  PROVE  Reached(t, 2 * B)
<1> DEFINE b == 2 * B
<1>0. b \in Nat \ {0} /\ b = 2 * B
  OBVIOUS
<1> SUFFICES ASSUME NEW i \in 0 .. b - 1, t[i] # Invalid
             PROVE  \E d \in 0 .. b - 1 :
                      Place(t[i], d, b) = i /\ \A e \in 0 .. d - 1 : t[Place(t[i], e, b)] # Invalid
  BY DEF Reached
<1>1. Near(t, b, i)
  BY DEF Moving
<1>2. t[i] \in Keys
  BY DEF Tables
<1> HIDE DEF b
<1> DEFINE I == Ideal(t[i], b)
<1>3. I \in 0 .. b - 1 /\ \A d \in 0 .. b - 1 : Place(t[i], d, b) = IF I + d < b THEN I + d ELSE I + d - b
  BY <1>0, <1>2, PlaceIs
<1>4. I <= i /\ \A q \in I .. i : t[q] # Invalid
  BY <1>1 DEF Near
<1> HIDE DEF I
<1>5. i - I \in 0 .. b - 1 /\ I + (i - I) = i /\ i < b
  BY <1>0, <1>3, <1>4
<1>6. Place(t[i], i - I, b) = i
  BY <1>3, <1>5
<1>7. ASSUME NEW e \in 0 .. (i - I) - 1
      PROVE  t[Place(t[i], e, b)] # Invalid
  <2>1. e \in 0 .. b - 1 /\ I + e < b /\ I + e \in I .. i
    BY <1>0, <1>3, <1>5
  <2>2. Place(t[i], e, b) = I + e
    BY <1>3, <2>1
  <2> QED
    BY <1>4, <2>1, <2>2
<1> QED
  BY <1>5, <1>6, <1>7

\* The first empty bucket is there, and the buckets before it are full.
LEMMA FirstGap ==
  ASSUME NEW B \in Nat \ {0}, NEW t, \E i \in 0 .. B - 1 : t[i] = Invalid,
         NEW g, g = LeastOf({i \in 0 .. B : i = B \/ t[i] = Invalid})
  PROVE  g \in 0 .. B - 1 /\ t[g] = Invalid /\ \A i \in 0 .. g - 1 : t[i] # Invalid
<1> DEFINE S == {i \in 0 .. B : i = B \/ t[i] = Invalid}
<1>1. PICK i \in 0 .. B - 1 : t[i] = Invalid
  OBVIOUS
<1>2. S \in SUBSET Nat /\ i \in S
  BY <1>1
<1>3. g \in S /\ \A x \in S : g <= x
  BY <1>2, Least
<1>4. g \in 0 .. B /\ g <= i
  BY <1>2, <1>3
<1>5. g \in 0 .. B - 1
  BY <1>4
<1>6. t[g] = Invalid
  BY <1>3, <1>5
<1>7. ASSUME NEW x \in 0 .. g - 1, t[x] = Invalid
      PROVE  FALSE
  <2>1. x \in S /\ ~(g <= x)
    BY <1>5, <1>7
  <2> QED
    BY <1>3, <2>1
<1> QED
  BY <1>5, <1>6, <1>7

\* Without the keys before the first gap, every key of the old half is at its
\* ideal bucket of the old size or after it: none has gone round the end.
LEMMA GrowMoving ==
  ASSUME hash \in [Keys -> Nat], NEW B \in Nat \ {0}, NEW t \in Tables(B), Reached(t, B),
         NEW g \in 0 .. B - 1, t[g] = Invalid,
         NEW u \in Tables(2 * B),
         \A i \in 0 .. 2 * B - 1 : u[i] = IF i < g \/ i >= B THEN Invalid ELSE t[i]
  PROVE  Moving(u, B, 0)
<1>1. ASSUME NEW q \in B + 0 .. 2 * B - 1
      PROVE  u[q] = Invalid
  BY <1>1
<1>2. ASSUME NEW p \in 0 .. 2 * B - 1, u[p] # Invalid
      PROVE  p \in 0 .. B - 1 /\ p > g /\ u[p] = t[p] /\ t[p] # Invalid
  BY <1>2
<1>3. ASSUME NEW p \in 0 .. B - 1, u[p] # Invalid
      PROVE  Ideal(u[p], B) <= p
  <2>1. p > g /\ u[p] = t[p] /\ t[p] # Invalid
    BY <1>2, <1>3
  <2>2. t[p] \in Keys
    BY <2>1 DEF Tables
  <2>3. PICK d \in 0 .. B - 1 : Place(t[p], d, B) = p /\ \A e \in 0 .. d - 1 : t[Place(t[p], e, B)] # Invalid
    BY <2>1 DEF Reached
  <2> DEFINE I == Ideal(t[p], B)
  <2>4. I \in 0 .. B - 1 /\ \A e \in 0 .. B - 1 : Place(t[p], e, B) = IF I + e < B THEN I + e ELSE I + e - B
    BY <2>2, PlaceIs
  <2> HIDE DEF I
  <2>5. ASSUME I > p PROVE FALSE
    <3>1. p = IF I + d < B THEN I + d ELSE I + d - B
      BY <2>3, <2>4
    <3>2. d = p + B - I
      BY <2>4, <2>5, <3>1
    <3>3. g + B - I \in 0 .. d - 1 /\ g + B - I \in 0 .. B - 1 /\ I + (g + B - I) - B = g /\ ~(I + (g + B - I) < B)
      BY <2>1, <2>4, <2>5, <3>2
    <3>4. Place(t[p], g + B - I, B) = g
      BY <2>4, <3>3
    <3> QED
      BY <2>3, <3>3, <3>4
  <2> QED
    BY <2>1, <2>4, <2>5 DEF I
<1>4. ASSUME NEW p \in 0 .. 2 * B - 1, u[p] # Invalid, p < 0 \/ p >= B
      PROVE  FALSE
  BY <1>2, <1>4
<1>5. B + 0 = B
  OBVIOUS
<1> QED
  BY <1>1, <1>3, <1>4, <1>5 DEF Moving

\* Of the table t with its first gap at g, u keeps what r does not.
Split(t, g, B, u, r) ==
  /\ \A i \in 0 .. 2 * B - 1 : u[i] = IF i < g \/ i >= B THEN Invalid ELSE t[i]
  /\ DOMAIN r = 1 .. g /\ \A i \in 1 .. g : r[i] = t[i - 1]

\* No key is in two places of the table u and the sequence r.
Parted(u, r) ==
  /\ Distinct(u)
  /\ \A i, j \in DOMAIN r : r[i] = r[j] => i = j
  /\ Held(u) \cap Entries(r) = {}

\* The keys of the table are those that stay and those put aside.
LEMMA GrowParts ==
  ASSUME NEW B \in Nat \ {0}, NEW t \in Tables(B), Distinct(t),
         NEW g \in 0 .. B - 1, t[g] = Invalid, \A i \in 0 .. g - 1 : t[i] # Invalid,
         NEW u \in Tables(2 * B), NEW r, Split(t, g, B, u, r)
  PROVE  Parted(u, r) /\ Held(u) \cup Entries(r) = Held(t)
<1> USE DEF Split
<1>0. DOMAIN t = 0 .. B - 1 /\ DOMAIN u = 0 .. 2 * B - 1 /\ DOMAIN r = 1 .. g
  BY DEF Tables
<1>1. \A i \in 1 .. g : i - 1 \in 0 .. g - 1 /\ i - 1 \in 0 .. B - 1 /\ r[i] = t[i - 1]
  OBVIOUS
<1>4. \A p \in 0 .. 2 * B - 1 : u[p] # Invalid => p \in 0 .. B - 1 /\ ~(p < g) /\ u[p] = t[p]
  OBVIOUS
<1>5. Distinct(u)
  BY <1>0, <1>4 DEF Distinct
<1>6. ASSUME NEW i \in 1 .. g, NEW j \in 1 .. g, r[i] = r[j]
      PROVE  i = j
  <2>1. t[i - 1] = t[j - 1] /\ t[i - 1] # Invalid /\ i - 1 \in DOMAIN t /\ j - 1 \in DOMAIN t
    BY <1>0, <1>1, <1>6
  <2>2. i - 1 = j - 1
    BY <2>1 DEF Distinct
  <2> QED
    BY <2>2
<1>7. ASSUME NEW i \in 1 .. g, r[i] \in Held(u)
      PROVE  FALSE
  <2>1. PICK p \in 0 .. 2 * B - 1 : u[p] = r[i] /\ u[p] # Invalid
    BY <1>0, <1>7 DEF Held
  <2>2. t[p] = t[i - 1] /\ t[p] # Invalid /\ p \in DOMAIN t /\ i - 1 \in DOMAIN t /\ ~(p < g)
    BY <1>0, <1>1, <1>4, <2>1
  <2>3. p = i - 1
    BY <2>2 DEF Distinct
  <2> QED
    BY <2>2, <2>3
<1>8. ASSUME NEW k \in Held(t)
      PROVE  k \in Held(u) \/ \E i \in 1 .. g : r[i] = k
  <2>1. PICK p \in 0 .. B - 1 : t[p] = k /\ k # Invalid
    BY <1>0, <1>8 DEF Held
  <2>2. CASE p < g
    <3>1. p + 1 \in 1 .. g /\ p + 1 - 1 = p
      BY <2>2
    <3>2. r[p + 1] = k
      BY <1>1, <2>1, <3>1
    <3> QED
      BY <3>1, <3>2
  <2>3. CASE ~(p < g)
    <3>1. p \in 0 .. 2 * B - 1 /\ u[p] = t[p]
      BY <2>3
    <3> QED
      BY <1>0, <2>1, <3>1 DEF Held
  <2> QED
    BY <2>2, <2>3
<1>9. \A k \in Held(u) : k \in Held(t)
  BY <1>0, <1>4 DEF Held
<1>10. \A i \in 1 .. g : r[i] \in Held(t)
  BY <1>0, <1>1 DEF Held
<1> DEFINE A == Entries(r)
<1>11. \A k : k \in A <=> \E i \in 1 .. g : r[i] = k
  BY <1>0 DEF Entries
<1> HIDE DEF A
<1>12. Held(u) \cap A = {}
  BY <1>7, <1>11
<1>13. Held(u) \cup A = Held(t)
  BY <1>8, <1>9, <1>10, <1>11
<1>14. \A i, j \in DOMAIN r : r[i] = r[j] => i = j
  BY <1>0, <1>6
<1> QED
  BY <1>0, <1>5, <1>12, <1>13, <1>14 DEF A, Parted

-----------------------------------------------------------------------------
(* The sizes of tables                                                     *)

\* Twice a power of two is a power of two: a proper odd divisor of 2 * p divides p.
LEMMA PowerDoubles ==
  ASSUME NEW p \in Nat \ {0}, PowerOfTwo(p)
  PROVE  PowerOfTwo(2 * p)
<1> SUFFICES ASSUME NEW d \in 1 .. 2 * p, (2 * p) % d = 0, d % 2 # 0
             PROVE  d = 1
  BY DEF PowerOfTwo
<1>1. PICK m \in Nat : 2 * p = d * m
  <2>1. d \in Nat \ {0} /\ 2 * p = d * ((2 * p) \div d) + ((2 * p) % d) /\ (2 * p) \div d \in Nat
    OBVIOUS
  <2> QED
    BY <2>1
<1>2. PICK c \in Nat : d = 2 * c + 1
  <2>1. d = 2 * (d \div 2) + (d % 2) /\ d % 2 \in {0, 1} /\ d \div 2 \in Nat
    OBVIOUS
  <2> QED
    BY <2>1
<1>3. d * m = 2 * (c * m) + m
  BY <1>2
<1> DEFINE x == c * m
<1>4. x \in Nat /\ 2 * p = 2 * x + m
  BY <1>1, <1>3
<1> HIDE DEF x
<1>5. p - x \in Nat /\ m = 2 * (p - x)
  BY <1>4
<1>6. x = 2 * (c * (p - x))
  BY <1>5 DEF x
<1>7. p = d * (p - x)
  <2> DEFINE n == p - x  y == c * n
  <2>1. d * n = 2 * y + n
    BY <1>2, <1>5
  <2>2. x = 2 * y /\ y \in Int /\ n \in Nat /\ p = x + n
    BY <1>4, <1>5, <1>6
  <2> HIDE DEF n, y
  <2>3. d * n = p
    BY <2>1, <2>2
  <2> QED
    BY <2>3 DEF n
<1> DEFINE n == p - x
<1>8. n \in Nat /\ p = d * n
  BY <1>5, <1>7
<1> HIDE DEF n
<1>9. p % d = 0
  <2>1. d \in Nat \ {0} /\ 0 \in 0 .. d - 1
    OBVIOUS
  <2>2. (d * n + 0) % d = 0
    BY <1>8, <2>1, ModUnique
  <2>3. d * n + 0 = p
    BY <1>8
  <2> QED
    BY <2>2, <2>3
<1>10. n # 0
  BY <1>8
<1>11. d <= p
  BY <1>8, <1>10
<1> QED
  BY <1>9, <1>11 DEF PowerOfTwo

\* Between n and 2 * n there is a power of two, which RoundBuckets looks for.
LEMMA PowerBetween ==
  ASSUME NEW n \in Nat \ {0}
  PROVE  \E b \in n .. 2 * n : PowerOfTwo(b)
<1> DEFINE S == {p \in 1 .. n : PowerOfTwo(p)}
           T == {x \in Nat : n - x \in S}
<1>1. PowerOfTwo(1)
  BY DEF PowerOfTwo
<1>2. n - 1 \in T
  BY <1>1
<1>3. LeastOf(T) \in T /\ \A y \in T : LeastOf(T) <= y
  <2>1. T \in SUBSET Nat /\ T # {}
    BY <1>2
  <2> QED
    BY <2>1, Least
<1>4. PICK x \in T : \A y \in T : x <= y
  BY <1>3
<1> DEFINE p == n - x
<1>5. p \in 1 .. n /\ PowerOfTwo(p) /\ x \in Nat
  BY <1>4
<1>6. PowerOfTwo(2 * p)
  BY <1>5, PowerDoubles
<1>7. 2 * p > n
  <2> SUFFICES ASSUME 2 * p <= n PROVE FALSE
    BY <1>5
  <2>1. n - 2 * p \in Nat /\ n - (n - 2 * p) = 2 * p /\ 2 * p \in 1 .. n
    BY <1>5
  <2>2. n - 2 * p \in T
    BY <1>6, <2>1
  <2>3. x <= n - 2 * p
    BY <1>4, <2>2
  <2> QED
    BY <1>5, <2>3
<1>8. 2 * p \in n .. 2 * n
  BY <1>5, <1>7
<1> QED
  BY <1>6, <1>8

\* Memory of the size asked for has more buckets than entries.
LEMMA SizeIs ==
  ASSUME NEW n \in Nat
  PROVE  Size(n) \in Nat \ {0} /\ n < Size(n) /\ (auto => PowerOfTwo(Size(n)))
<1> DEFINE wanted == (n * 12) \div 10
           from == IF wanted > n + 1 THEN wanted ELSE n + 1
<1>1. wanted \in Nat
  OBVIOUS
<1> HIDE DEF wanted
<1>2. from \in Nat \ {0} /\ n < from
  BY <1>1
<1>3. Size(n) = RoundBuckets(from)
  BY DEF Size, wanted
<1> HIDE DEF from
<1>4. CASE ~auto
  BY <1>2, <1>3, <1>4 DEF RoundBuckets
<1>5. CASE auto
  <2> DEFINE S == {b \in from .. 2 * from : PowerOfTwo(b)}
  <2>1. S \in SUBSET Nat /\ S # {}
    BY <1>2, PowerBetween
  <2>2. LeastOf(S) \in S
    BY <2>1, Least
  <2>3. Size(n) \in S
    BY <1>3, <1>5, <2>2 DEF RoundBuckets
  <2> QED
    BY <1>2, <2>3
<1> QED
  BY <1>4, <1>5

\* AutoProbing doubles before the table is full, and not before it is half full.
LEMMA ThresholdIs ==
  ASSUME NEW b \in Nat \ {0}
  PROVE  /\ Threshold(b) \in Nat /\ Threshold(b) < b
         /\ \A c \in Nat \ {0} : b = 2 * c => c <= Threshold(b)
<1> DEFINE S == {b - 1, (b * 9) \div 10}
<1>1. (b * 9) \div 10 \in Nat /\ b - 1 \in Nat
  OBVIOUS
<1>2. S \in SUBSET Nat /\ S # {}
  BY <1>1
<1>3. LeastOf(S) \in S /\ \A y \in S : LeastOf(S) <= y
  BY <1>2, Least
<1>4. Threshold(b) = LeastOf(S)
  BY DEF Threshold
<1>5. Threshold(b) \in S /\ Threshold(b) <= b - 1
  BY <1>3, <1>4
<1>6. ASSUME NEW c \in Nat \ {0}, b = 2 * c
      PROVE  c <= b - 1 /\ c <= (b * 9) \div 10
  <2>1. b * 9 = 18 * c
    BY <1>6
  <2>2. (18 * c) \div 10 >= c
    OBVIOUS
  <2> QED
    BY <1>6, <2>1, <2>2
<1> QED
  BY <1>1, <1>5, <1>6

-----------------------------------------------------------------------------
(* The inductive invariant                                                 *)

Waiting == IF pending # Null /\ pending.counted THEN 1 ELSE 0

\* What belongs to each value of pc.
Control ==
  /\ sized \in Requests
  /\ pending # Null <=> auto /\ pc # "idle"
  /\ pc = "insert" => auto
  /\ pc \in {"idle", "insert"} => rolled_over = << >>
  /\ pc # "idle" => Half \in Nat \ {0} /\ buckets = 2 * Half
  /\ pc = "reinsert" => at \in 0 .. Half - 1

\* A key is in one place: a bucket, among those put aside, or in the call.
Apart ==
  /\ Distinct(table)
  /\ \A i, j \in DOMAIN rolled_over : rolled_over[i] = rolled_over[j] => i = j
  /\ Held(table) \cap Aside = {}
  /\ pending # Null /\ pending.counted => pending.key \notin Members

Order ==
  /\ pc # "reinsert" => Reached(table, buckets)
  /\ pc = "reinsert" => Moving(table, Half, at)

Counts ==
  /\ EntriesCount
  /\ Cardinality(Members) < buckets
  /\ sized < buckets
  /\ refused > 0 => ~auto /\ Cardinality(Members) >= sized
  /\ auto /\ pc \in {"idle", "insert"} => threshold = Threshold(buckets)
  /\ auto /\ pc = "idle" => entries <= threshold
  /\ auto /\ pc # "idle" => entries + (1 - Waiting) <= Half

IInv == TypeOK /\ Control /\ Apart /\ Order /\ Counts

\* The set of keys again, of the keys that are somewhere in the table.
Promise == INSTANCE KeySet WITH members <- Members

-----------------------------------------------------------------------------
(* Every step keeps it                                                     *)

\* What every step may use: the types, and a bucket that is empty.
LEMMA Basics ==
  ASSUME IInv
  PROVE  /\ hash \in [Keys -> Nat] /\ buckets \in Nat \ {0} /\ table \in Tables(buckets)
         /\ rolled_over \in Seq(Keys) /\ Aside \subseteq Keys /\ Held(table) \subseteq Keys
         /\ IsFiniteSet(Members) /\ Cardinality(Members) \in Nat /\ Invalid \notin Members
         /\ \E i \in 0 .. buckets - 1 : table[i] = Invalid
<1>1. hash \in [Keys -> Nat] /\ buckets \in Nat \ {0} /\ table \in Tables(buckets) /\ rolled_over \in Seq(Keys)
  BY HashesAssumption DEF IInv, TypeOK, Tables
<1>2. Aside \subseteq Keys
  BY <1>1 DEF Aside
<1>3. Held(table) \subseteq Keys /\ IsFiniteSet(Held(table))
  BY <1>1, HeldFacts
<1>4. IsFiniteSet(Members) /\ Cardinality(Members) \in Nat
  BY <1>2, <1>3, KeysAssumption, FS_Subset, FS_CardinalityType DEF Members
<1>5. Cardinality(Held(table)) <= Cardinality(Members) /\ Cardinality(Held(table)) \in Nat
  BY <1>3, <1>4, FS_Subset, FS_CardinalityType DEF Members
<1>6. Cardinality(Members) < buckets
  BY DEF IInv, Counts
<1>7. Cardinality(Held(table)) < buckets
  BY <1>1, <1>4, <1>5, <1>6
<1>8. \E i \in 0 .. buckets - 1 : table[i] = Invalid
  BY <1>1, <1>7, GapOfCount DEF IInv, Apart
<1>9. Invalid \notin Members
  BY <1>2, <1>3, KeysAssumption DEF Members
<1> QED
  BY <1>1, <1>2, <1>3, <1>4, <1>8, <1>9

\* What a call finds is what the table holds.
LEMMA FoundIsMember ==
  ASSUME IInv, pc \in {"idle", "insert"}, NEW k \in Keys
  PROVE  Members = Held(table) /\ (Found(table, buckets, k) <=> k \in Members)
<1>1. rolled_over = << >>
  BY DEF IInv, Control
<1>2. Members = Held(table)
  BY <1>1 DEF Members, Aside
<1>3. Reached(table, buckets)
  BY DEF IInv, Order
<1> QED
  BY <1>2, <1>3, Basics, FoundIsHeld

\* A key is stored while the table is in order.
LEMMA StoreEffect ==
  ASSUME IInv, pc # "reinsert", NEW k \in Keys, k \notin Held(table),
         table' = UncheckedInsert(table, buckets, k), UNCHANGED <<hash, buckets>>
  PROVE  /\ table' \in Tables(buckets) /\ Distinct(table') /\ Held(table') = Held(table) \cup {k}
         /\ Reached(table, buckets)'
<1>1. Reached(table, buckets) /\ Distinct(table)
  BY DEF IInv, Order, Apart
<1>2. /\ table' \in Tables(buckets) /\ Distinct(table') /\ Held(table') = Held(table) \cup {k}
      /\ Reached(table', buckets)
  <2>1. \E i \in 0 .. buckets - 1 : table[i] = Invalid
    BY Basics
  <2> QED
    BY <1>1, <2>1, Basics, StoreFacts
<1>3. Reached(table, buckets)'
  BY <1>2 DEF Reached, Place, Ideal
<1> QED
  BY <1>2, <1>3

\* The first part of Double takes no key and stands before the first loop.
LEMMA GrowEffect ==
  ASSUME IInv, pc = "idle", Grow, UNCHANGED hash
  PROVE  /\ buckets' = 2 * buckets /\ Half' = buckets /\ pc' = "reinsert" /\ at' = 0
         /\ table' \in Tables(2 * buckets) /\ rolled_over' \in Seq(Keys)
         /\ Distinct(table')
         /\ \A i, j \in DOMAIN rolled_over' : rolled_over'[i] = rolled_over'[j] => i = j
         /\ Held(table') \cap Aside' = {} /\ Members' = Members /\ Members = Held(table)
         /\ Moving(table, Half, at)'
<1>1. PICK g : /\ g = LeastOf({i \in 0 .. buckets : i = buckets \/ table[i] = Invalid})
               /\ table' = [i \in 0 .. 2 * buckets - 1 |->
                              IF i < g \/ i >= buckets THEN Invalid ELSE table[i]]
               /\ rolled_over' = [i \in 1 .. g |-> table[i - 1]]
               /\ buckets' = 2 * buckets /\ pc' = "reinsert" /\ at' = 0
  BY DEF Grow
<1>2. g \in 0 .. buckets - 1 /\ table[g] = Invalid /\ \A i \in 0 .. g - 1 : table[i] # Invalid
  <2>1. buckets \in Nat \ {0} /\ \E i \in 0 .. buckets - 1 : table[i] = Invalid
    BY Basics
  <2>2. g = LeastOf({i \in 0 .. buckets : i = buckets \/ table[i] = Invalid})
    BY <1>1
  <2> QED
    BY ONLY <2>1, <2>2, FirstGap
<1>3. Distinct(table) /\ Reached(table, buckets) /\ rolled_over = << >>
  BY DEF IInv, Order, Apart, Control
<1>4. buckets \in Nat \ {0} /\ table \in Tables(buckets) /\ hash \in [Keys -> Nat]
  BY Basics
<1>5. Half' = buckets
  BY <1>1, <1>4 DEF Half
<1> DEFINE u == table'  r == rolled_over'
<1>6. /\ u \in Tables(2 * buckets)
      /\ \A i \in 0 .. 2 * buckets - 1 :
           u[i] = IF i < g \/ i >= buckets THEN Invalid ELSE table[i]
  BY <1>1, <1>4 DEF Tables
<1>7. DOMAIN r = 1 .. g /\ (\A i \in 1 .. g : r[i] = table[i - 1]) /\ r \in Seq(Keys)
  <2>1. DOMAIN r = 1 .. g /\ \A i \in 1 .. g : r[i] = table[i - 1]
    BY <1>1
  <2>2. \A i \in 1 .. g : r[i] \in Keys
    <3>1. \A i \in 1 .. g : i - 1 \in 0 .. g - 1 /\ i - 1 \in 0 .. buckets - 1
      BY <1>2, <1>4
    <3> QED
      BY <1>2, <1>4, <2>1, <3>1 DEF Tables
  <2>3. r = [i \in 1 .. g |-> table[i - 1]]
    BY <1>1
  <2> QED
    BY <1>2, <1>4, <2>1, <2>2, <2>3
<1> HIDE DEF u, r
<1>8. Moving(u, buckets, 0)
  BY ONLY <1>2, <1>3, <1>4, <1>6, GrowMoving
<1>9. Parted(u, r) /\ Held(u) \cup Entries(r) = Held(table)
  <2>1. Split(table, g, buckets, u, r)
    BY <1>6, <1>7 DEF Split
  <2> QED
    BY ONLY <1>2, <1>3, <1>4, <1>6, <2>1, GrowParts
<1>10. Moving(table, Half, at)' <=> Moving(u, buckets, 0)
  BY <1>1, <1>5 DEF Moving, Near, Ideal, u
<1>11. Members = Held(table)
  BY <1>3 DEF Members, Aside
<1>12. Aside' = Entries(r) /\ Members' = Held(u) \cup Entries(r)
  BY DEF Members, Aside, Entries, u, r
<1> QED
  BY <1>1, <1>5, <1>6, <1>7, <1>8, <1>9, <1>10, <1>11, <1>12 DEF Parted, u, r

\* entries_, in the terms of this module.
LEMMA Counting ==
  /\ EntriesCount <=> entries = Cardinality(Members) + refused + Waiting
  /\ EntriesCount' <=> entries' = Cardinality(Members') + refused' + Waiting'
  /\ Waiting \in {0, 1}
BY DEF EntriesCount, Members, Waiting

\* A call that stores a key that the table does not hold.
LEMMA AddKeeps ==
  ASSUME IInv, pc \in {"idle", "insert"}, pc' = "idle", pending' = Null,
         NEW k \in Keys, k \notin Members,
         table' = UncheckedInsert(table, buckets, k),
         entries' = entries + (1 - Waiting), entries' < buckets, auto => entries' <= threshold,
         reply' = "absent",
         UNCHANGED <<auto, hash, sized, buckets, threshold, at, rolled_over, refused>>
  PROVE  IInv' /\ Promise!Insert(k)
<1>1. Members = Held(table)
  BY FoundIsMember
<1>2. /\ table' \in Tables(buckets) /\ Distinct(table') /\ Held(table') = Held(table) \cup {k}
      /\ Reached(table, buckets)'
  <2>1. k \notin Held(table) /\ pc # "reinsert" /\ UNCHANGED <<hash, buckets>>
    BY <1>1
  <2> QED
    BY <2>1, StoreEffect
<1>3. rolled_over = << >> /\ Aside' = {}
  BY DEF IInv, Control, Aside
<1>4. Members' = Members \cup {k}
  BY <1>1, <1>2, <1>3 DEF Members
<1>5. Cardinality(Members') = Cardinality(Members) + 1 /\ Cardinality(Members) \in Nat
  BY <1>4, Basics, FS_AddElement
<1>6. /\ entries = Cardinality(Members) + refused + Waiting /\ Waiting \in {0, 1} /\ Waiting' = 0
      /\ refused \in Nat /\ entries \in Nat /\ buckets \in Nat \ {0} /\ sized \in Nat
  BY Counting, RequestsAssumption DEF IInv, Counts, Waiting, TypeOK, Control
<1>7. TypeOK'
  <2>1. auto' => PowerOfTwo(buckets')
    BY DEF IInv, TypeOK
  <2>2. entries' \in Nat
    BY <1>6
  <2> QED
    BY <1>2, <2>1, <2>2 DEF IInv, TypeOK, Tables
<1>8. Control'
  BY <1>3 DEF IInv, Control
<1>9. Apart'
  BY <1>2, <1>3 DEF Apart
<1>10. Order'
  BY <1>2 DEF Order
<1>11. Counts'
  <2>1. EntriesCount' /\ Cardinality(Members') < buckets'
    BY <1>5, <1>6, Counting
  <2>2. refused' > 0 => ~auto' /\ Cardinality(Members') >= sized'
    BY <1>5, <1>6 DEF IInv, Counts
  <2>3. auto' => threshold' = Threshold(buckets')
    BY DEF IInv, Counts, Threshold
  <2> QED
    BY <2>1, <2>2, <2>3 DEF IInv, Counts
<1>12. Promise!Insert(k)
  BY <1>4 DEF Promise!Insert, Promise!There
<1> QED
  BY <1>7, <1>8, <1>9, <1>10, <1>11, <1>12 DEF IInv

\* A call that leaves the table as it is, or throws.
LEMMA LeaveKeeps ==
  ASSUME IInv, pc \in {"idle", "insert"}, pc' = "idle", pending' = Null, Waiting = 0,
         auto => entries' <= threshold,
         reply' \in {"there", "absent", "full"},
         \/ UNCHANGED <<entries, refused>>
         \/ ~auto /\ entries' = entries + 1 /\ refused' = refused + 1 /\ entries' >= buckets,
         UNCHANGED <<auto, hash, sized, buckets, threshold, at, rolled_over, table>>
  PROVE  IInv' /\ Members' = Members
<1>1. Members' = Members /\ Aside' = Aside /\ Waiting' = 0 /\ Cardinality(Members) \in Nat
  BY Basics DEF Members, Aside, Waiting
<1>2. /\ entries = Cardinality(Members) + refused /\ Cardinality(Members) < buckets
      /\ refused \in Nat /\ entries \in Nat /\ buckets \in Nat \ {0} /\ sized \in Nat /\ sized < buckets
  <2>1. entries = Cardinality(Members) + refused + Waiting /\ refused \in Nat
    BY Counting DEF IInv, Counts, TypeOK
  <2>2. entries \in Nat /\ buckets \in Nat \ {0} /\ sized \in Nat /\ sized < buckets /\ Cardinality(Members) < buckets
    BY RequestsAssumption DEF IInv, Counts, TypeOK, Control
  <2> QED
    BY <1>1, <2>1, <2>2
<1>3. entries' \in Nat /\ refused' \in Nat
  BY <1>2
<1>4. TypeOK'
  <2>1. auto' => PowerOfTwo(buckets')
    BY DEF IInv, TypeOK
  <2> QED
    BY <1>3, <2>1 DEF IInv, TypeOK
<1>5. Control'
  BY DEF IInv, Control
<1>6. Apart'
  BY <1>1 DEF IInv, Apart, Distinct
<1>7. Order'
  BY DEF IInv, Order, Reached, Place, Ideal
<1>8. Counts'
  <2>1. EntriesCount' /\ Cardinality(Members') < buckets'
    BY <1>1, <1>2, Counting
  <2>2. refused' > 0 => ~auto' /\ Cardinality(Members') >= sized'
    <3>1. CASE UNCHANGED <<entries, refused>>
      BY <1>1, <3>1 DEF IInv, Counts
    <3>2. CASE ~auto /\ entries' = entries + 1 /\ refused' = refused + 1 /\ entries' >= buckets
      <4>1. CASE refused = 0
        BY <1>1, <1>2, <3>2, <4>1
      <4>2. CASE refused # 0
        BY <1>1, <1>2, <3>2, <4>2 DEF IInv, Counts
      <4> QED
        BY <4>1, <4>2
    <3> QED
      BY <3>1, <3>2
  <2>3. auto' => threshold' = Threshold(buckets')
    BY DEF IInv, Counts, Threshold
  <2> QED
    BY <2>1, <2>2, <2>3 DEF IInv, Counts
<1> QED
  BY <1>1, <1>4, <1>5, <1>6, <1>7, <1>8 DEF IInv

\* A new key is stored, or the table is as full as it may be and the call throws.
LEMMA StoreKeeps ==
  ASSUME IInv, pc \in {"idle", "insert"}, pc' = "idle", pending' = Null, Waiting = 0,
         auto => entries + 1 <= threshold,
         NEW k \in Keys, k \notin Members, Store(k),
         UNCHANGED <<auto, hash, sized, buckets, threshold, at, rolled_over>>
  PROVE  IInv' /\ (Promise!Insert(k) \/ Promise!Refuse(k))
<1>1. entries' = entries + 1 /\ entries \in Nat /\ buckets \in Nat \ {0} /\ threshold \in Nat
  BY DEF Store, IInv, TypeOK
<1>2. CASE entries' >= buckets
  <2>1. ~auto
    <3>1. auto => threshold = Threshold(buckets)
      BY DEF IInv, Counts
    <3> QED
      BY <1>1, <1>2, <3>1, ThresholdIs
  <2>2. reply' = "full" /\ refused' = refused + 1 /\ UNCHANGED table
    BY <1>2 DEF Store
  <2> QED
    BY <1>1, <1>2, <2>1, <2>2, LeaveKeeps DEF Promise!Refuse
<1>3. CASE ~(entries' >= buckets)
  <2>1. table' = UncheckedInsert(table, buckets, k) /\ reply' = "absent" /\ UNCHANGED refused
    BY <1>3 DEF Store
  <2>2. entries' = entries + (1 - Waiting) /\ entries' < buckets
    BY <1>1, <1>3
  <2> QED
    BY <1>1, <2>1, <2>2, AddKeeps
<1> QED
  BY <1>2, <1>3

\* FindOrInsert finds the key, stores it or throws.
LEMMA FindOrInsertKeeps ==
  ASSUME IInv, pc \in {"idle", "insert"}, pc' = "idle", pending' = Null, Waiting = 0,
         auto => entries + 1 <= threshold,
         NEW k \in Keys, FindOrInsertHere(k),
         UNCHANGED <<auto, hash, sized, buckets, threshold, at, rolled_over>>
  PROVE  IInv' /\ (Promise!Insert(k) \/ Promise!Refuse(k))
<1>1. CASE Found(table, buckets, k)
  <2>1. reply' = "there" /\ UNCHANGED <<table, entries, refused>>
    BY <1>1 DEF FindOrInsertHere
  <2>2. auto => entries' <= threshold
    BY <2>1 DEF IInv, TypeOK
  <2>3. IInv' /\ Members' = Members
    BY <2>1, <2>2, LeaveKeeps
  <2>4. k \in Members
    BY <1>1, FoundIsMember
  <2> QED
    BY <2>1, <2>3, <2>4 DEF Promise!Insert, Promise!There
<1>2. CASE ~Found(table, buckets, k)
  <2>1. k \notin Members
    BY <1>2, FoundIsMember
  <2>2. Store(k)
    BY <1>2 DEF FindOrInsertHere
  <2> QED
    BY <2>1, <2>2, StoreKeeps
<1> QED
  BY <1>1, <1>2

\* Clear leaves the empty set, in a table of the same size.
LEMMA ClearKeeps ==
  ASSUME IInv, Clear
  PROVE  IInv' /\ Promise!Clear
<1>1. table' = [i \in 0 .. buckets - 1 |-> Invalid] /\ pc = "idle" /\ entries' = 0 /\ refused' = 0
  BY DEF Clear, Empty
<1>2. buckets \in Nat \ {0} /\ rolled_over = << >> /\ pending = Null
  BY <1>1 DEF IInv, TypeOK, Control
<1>3. UNCHANGED <<auto, hash, sized, buckets, threshold, pc, at, rolled_over, pending, reply>>
  BY DEF Clear, doubling
<1>4. Held(table') = {} /\ Aside' = {} /\ Waiting' = 0
  BY <1>1, <1>2, <1>3 DEF Held, Aside, Waiting
<1>5. Members' = {} /\ Cardinality(Members') = 0
  BY <1>4, FS_EmptySet DEF Members
<1>6. TypeOK'
  <2>1. auto' => PowerOfTwo(buckets')
    BY <1>3 DEF IInv, TypeOK
  <2> QED
    BY <1>1, <1>2, <1>3, <2>1 DEF IInv, TypeOK
<1>7. Control'
  BY <1>1, <1>2, <1>3 DEF IInv, Control
<1>8. Apart'
  BY <1>1, <1>2, <1>3, <1>4 DEF Apart, Distinct
<1>9. Order'
  BY <1>1, <1>3 DEF Order, Reached
<1>10. Counts'
  <2>1. EntriesCount' /\ Cardinality(Members') < buckets'
    BY <1>1, <1>2, <1>3, <1>4, <1>5, Counting
  <2>2. auto' => threshold' = Threshold(buckets') /\ threshold \in Nat
    BY <1>1, <1>3 DEF IInv, Counts, Threshold, TypeOK
  <2>3. sized' < buckets' /\ ~(refused' > 0) /\ pc' = "idle"
    BY <1>1, <1>3 DEF IInv, Counts
  <2> QED
    BY <1>1, <1>3, <2>1, <2>2, <2>3 DEF Counts
<1> QED
  BY <1>3, <1>5, <1>6, <1>7, <1>8, <1>9, <1>10 DEF IInv, Promise!Clear

\* A table that doubles, for its user or in a call of AutoProbing.
LEMMA GrowKeeps ==
  ASSUME IInv, pc = "idle", Grow,
         \/ ~auto /\ UNCHANGED <<pending, entries>>
         \/ /\ auto
            /\ \E k \in Keys : k \notin Members /\ pending' = [key |-> k, counted |-> TRUE]
            /\ entries' = entries + 1
         \/ /\ auto
            /\ \E k \in Keys : pending' = [key |-> k, counted |-> FALSE]
            /\ UNCHANGED entries,
         UNCHANGED <<auto, hash, sized, threshold, reply, refused>>
  PROVE  IInv' /\ Members' = Members
<1>1. /\ buckets' = 2 * buckets /\ Half' = buckets /\ pc' = "reinsert" /\ at' = 0
      /\ table' \in Tables(2 * buckets) /\ rolled_over' \in Seq(Keys)
      /\ Distinct(table')
      /\ \A i, j \in DOMAIN rolled_over' : rolled_over'[i] = rolled_over'[j] => i = j
      /\ Held(table') \cap Aside' = {} /\ Members' = Members
      /\ Moving(table, Half, at)'
  BY GrowEffect
<1>2. pending = Null /\ Waiting = 0
  BY DEF IInv, Control, Waiting
<1>3. /\ pending' \in [key : Keys, counted : BOOLEAN] \cup {Null} /\ (pending' # Null <=> auto)
      /\ pending' # Null /\ pending'.counted => pending'.key \notin Members
      /\ entries' = entries + Waiting'
      /\ Waiting' \in {0, 1}
  <2>1. CASE ~auto /\ UNCHANGED <<pending, entries>>
    <3>1. Waiting' = 0 /\ entries' = entries /\ entries \in Nat
      BY <1>2, <2>1 DEF Waiting, IInv, TypeOK
    <3> QED
      BY <1>2, <2>1, <3>1
  <2>2. CASE /\ auto
             /\ \E k \in Keys : k \notin Members /\ pending' = [key |-> k, counted |-> TRUE]
             /\ entries' = entries + 1
    <3>1. PICK k \in Keys : k \notin Members /\ pending' = [key |-> k, counted |-> TRUE]
      BY <2>2
    <3>2. pending' # Null
      <4>1. pending'.key = k /\ pending'.counted = TRUE
        BY <3>1
      <4>2. pending' \in [key : Keys, counted : BOOLEAN]
        BY <3>1
      <4>3. Null \notin [key : Keys, counted : BOOLEAN]
        BY NullAssumption
      <4> QED
        BY <4>2, <4>3
    <3>3. Waiting' = 1
      BY <3>1, <3>2 DEF Waiting
    <3> QED
      BY <2>2, <3>1, <3>2, <3>3
  <2>3. CASE /\ auto
             /\ \E k \in Keys : pending' = [key |-> k, counted |-> FALSE]
             /\ UNCHANGED entries
    <3>1. PICK k \in Keys : pending' = [key |-> k, counted |-> FALSE]
      BY <2>3
    <3>2. pending' # Null
      <4>1. pending' \in [key : Keys, counted : BOOLEAN]
        BY <3>1
      <4>2. Null \notin [key : Keys, counted : BOOLEAN]
        BY NullAssumption
      <4> QED
        BY <4>1, <4>2
    <3>3. Waiting' = 0 /\ entries \in Nat
      BY <3>1 DEF Waiting, IInv, TypeOK
    <3> QED
      BY <2>3, <3>1, <3>2, <3>3
  <2> QED
    BY <2>1, <2>2, <2>3
<1>4. /\ entries = Cardinality(Members) + refused /\ Cardinality(Members) < buckets
      /\ Cardinality(Members) \in Nat /\ refused \in Nat /\ entries \in Nat
      /\ buckets \in Nat \ {0} /\ sized \in Nat /\ sized < buckets
  <2>1. entries = Cardinality(Members) + refused + Waiting /\ refused \in Nat
    BY Counting DEF IInv, Counts, TypeOK
  <2>2. /\ entries \in Nat /\ buckets \in Nat \ {0} /\ sized \in Nat /\ sized < buckets
        /\ Cardinality(Members) < buckets
    BY RequestsAssumption DEF IInv, Counts, TypeOK, Control
  <2> QED
    BY <1>2, <2>1, <2>2, Basics
<1>5. TypeOK'
  <2>1. auto' => PowerOfTwo(buckets')
    BY <1>1, <1>4, PowerDoubles DEF IInv, TypeOK
  <2>2. buckets' \in Nat \ {0} /\ at' \in 0 .. buckets' /\ entries' \in Nat
    BY <1>1, <1>3, <1>4
  <2>3. table' \in [0 .. buckets' - 1 -> Keys \cup {Invalid}]
    BY <1>1 DEF Tables
  <2> QED
    BY <1>1, <1>3, <2>1, <2>2, <2>3 DEF IInv, TypeOK
<1>6. Control'
  <2>1. Half' \in Nat \ {0} /\ buckets' = 2 * Half' /\ at' \in 0 .. Half' - 1
    BY <1>1, <1>4
  <2>2. (pending' # Null <=> auto' /\ pc' # "idle") /\ sized' \in Requests
    BY <1>1, <1>3 DEF IInv, Control
  <2> QED
    BY <1>1, <2>1, <2>2 DEF Control
<1>7. Apart'
  BY <1>1, <1>3 DEF Apart
<1>8. Order'
  BY <1>1 DEF Order
<1>9. Counts'
  <2>1. EntriesCount' /\ Cardinality(Members') < buckets' /\ sized' < buckets'
    BY <1>1, <1>3, <1>4, Counting
  <2>2. refused' > 0 => ~auto' /\ Cardinality(Members') >= sized'
    BY <1>1 DEF IInv, Counts
  <2>3. ASSUME auto' PROVE entries' + (1 - Waiting') <= Half'
    <3>1. threshold = Threshold(buckets) /\ entries <= threshold
      BY <2>3 DEF IInv, Counts
    <3>2. entries + 1 <= buckets
      BY <1>4, <3>1, ThresholdIs
    <3> QED
      BY <1>1, <1>3, <1>4, <3>2
  <2> QED
    BY <1>1, <2>1, <2>2, <2>3 DEF Counts
<1> QED
  BY <1>1, <1>5, <1>6, <1>7, <1>8, <1>9 DEF IInv

\* A turn of Double's first loop takes no key.
LEMMA ReinsertKeeps ==
  ASSUME IInv, Reinsert
  PROVE  IInv' /\ Members' = Members
<1>0. /\ pc = "reinsert" /\ at' = at + 1
      /\ table' = IF table[at] = Invalid THEN table
                  ELSE UncheckedInsert([table EXCEPT ![at] = Invalid], buckets, table[at])
      /\ pc' = IF at' = Half THEN "put_back" ELSE "reinsert"
      /\ UNCHANGED <<auto, hash, sized, buckets, entries, threshold, rolled_over, pending, reply, refused>>
  BY DEF Reinsert, Half
<1>1. Half \in Nat \ {0} /\ buckets = 2 * Half /\ at \in 0 .. Half - 1 /\ Half' = Half
  BY <1>0 DEF IInv, Control, Half
<1>2. /\ hash \in [Keys -> Nat] /\ table \in Tables(2 * Half) /\ Moving(table, Half, at)
      /\ Distinct(table)
  BY <1>0, <1>1, Basics DEF IInv, Order, Apart
<1>3. /\ table' \in Tables(buckets) /\ Distinct(table') /\ Held(table') = Held(table)
      /\ Moving(table', Half, at + 1)
  <2>1. CASE table[at] = Invalid
    <3>1. table' = table
      BY <1>0, <2>1
    <3>2. Moving(table, Half, at + 1)
      BY <1>1, <1>2, <2>1, ReinsertNothing
    <3> QED
      BY <1>1, <1>2, <3>1, <3>2
  <2>2. CASE table[at] # Invalid
    <3> DEFINE r == UncheckedInsert([table EXCEPT ![at] = Invalid], 2 * Half, table[at])
    <3>1. table' = r
      BY <1>0, <1>1, <2>2
    <3>2. /\ r \in Tables(2 * Half) /\ Distinct(r) /\ Held(r) = Held(table)
          /\ Moving(r, Half, at + 1)
      BY <1>1, <1>2, <2>2, ReinsertFacts
    <3> HIDE DEF r
    <3> QED
      BY <1>1, <3>1, <3>2
  <2> QED
    BY <2>1, <2>2
<1>4. Aside' = Aside /\ Members' = Members /\ Waiting' = Waiting
  BY <1>0, <1>3 DEF Aside, Members, Waiting
<1>5. TypeOK'
  <2>1. auto' => PowerOfTwo(buckets')
    BY <1>0 DEF IInv, TypeOK
  <2>2. at' \in 0 .. buckets'
    BY <1>0, <1>1
  <2> QED
    BY <1>0, <1>3, <2>1, <2>2 DEF IInv, TypeOK, Tables
<1>6. Control'
  <2>1. pc' = "reinsert" => at' \in 0 .. Half' - 1
    BY <1>0, <1>1
  <2>2. pc' \in {"put_back", "reinsert"}
    BY <1>0
  <2> QED
    BY <1>0, <1>1, <2>1, <2>2 DEF IInv, Control
<1>7. Apart'
  BY <1>0, <1>3, <1>4 DEF IInv, Apart
<1>8. Order'
  <2>1. CASE pc' = "reinsert"
    <3>1. Moving(table, Half, at)'
      BY <1>0, <1>1, <1>3 DEF Moving, Near, Ideal
    <3> QED
      BY <2>1, <3>1 DEF Order
  <2>2. CASE pc' = "put_back"
    <3>1. at + 1 = Half
      BY <1>0, <1>1, <2>2
    <3>2. Reached(table', 2 * Half)
      BY <1>1, <1>2, <1>3, <3>1, ReinsertDone
    <3>3. Reached(table', buckets)
      BY <1>1, <3>2
    <3>4. Reached(table, buckets)'
      BY <1>0, <3>3 DEF Reached, Place, Ideal
    <3> QED
      BY <2>2, <3>4 DEF Order
  <2> QED
    BY <1>0, <2>1, <2>2
<1>9. Counts'
  <2>1. EntriesCount'
    BY <1>0, <1>4, Counting DEF IInv, Counts
  <2>2. pc' \notin {"idle", "insert"}
    BY <1>0
  <2> QED
    BY <1>0, <1>1, <1>4, <2>1, <2>2 DEF IInv, Counts
<1> QED
  BY <1>4, <1>5, <1>6, <1>7, <1>8, <1>9 DEF IInv

\* A turn of Double's second loop moves a key from those put aside into the
\* table; the loop over, every key is in the table again.
LEMMA PutBackKeeps ==
  ASSUME IInv, PutBack
  PROVE  IInv' /\ Members' = Members
<1>0. pc = "put_back" /\ UNCHANGED <<auto, hash, sized, buckets, entries, at, pending, reply, refused>>
  BY DEF PutBack
<1>1. Half' = Half /\ Waiting' = Waiting
  BY <1>0 DEF Half, Waiting
<1>2. CASE rolled_over # << >>
  <2>1. /\ table' = UncheckedInsert(table, buckets, Head(rolled_over))
        /\ rolled_over' = Tail(rolled_over) /\ UNCHANGED <<pc, threshold>>
    BY <1>2 DEF PutBack
  <2> DEFINE k == rolled_over[1]
  <2>2. rolled_over \in Seq(Keys) /\ Len(rolled_over) \in Nat /\ Len(rolled_over) > 0
    BY <1>2, Basics
  <2>3. /\ Head(rolled_over) = k /\ rolled_over' \in Seq(Keys)
        /\ DOMAIN rolled_over = 1 .. Len(rolled_over)
        /\ DOMAIN rolled_over' = 1 .. Len(rolled_over) - 1
        /\ \A i \in 1 .. Len(rolled_over) - 1 : rolled_over'[i] = rolled_over[i + 1]
    BY <2>1, <2>2
  <2>4. \A i, j \in DOMAIN rolled_over : rolled_over[i] = rolled_over[j] => i = j
    BY DEF IInv, Apart
  <2>5. k \in Aside /\ k \in Keys
    <3>1. 1 \in DOMAIN rolled_over
      BY <2>2, <2>3
    <3>2. k \in Aside
      BY <3>1 DEF Aside
    <3> QED
      BY <3>2, Basics
  <2> HIDE DEF k
  <2>6. Aside' = Aside \ {k}
    <3>1. ASSUME NEW x \in Aside' PROVE x \in Aside /\ x # k
      <4>1. PICK i \in 1 .. Len(rolled_over) - 1 : x = rolled_over[i + 1]
        BY <2>3, <3>1 DEF Aside
      <4>2. i + 1 \in 1 .. Len(rolled_over) /\ 1 \in 1 .. Len(rolled_over) /\ i + 1 # 1
        BY <2>2
      <4> QED
        BY <2>3, <2>4, <4>1, <4>2 DEF Aside, k
    <3>2. ASSUME NEW x \in Aside, x # k PROVE x \in Aside'
      <4>1. PICK i \in 1 .. Len(rolled_over) : x = rolled_over[i]
        BY <2>3 DEF Aside
      <4>2. i # 1
        BY <3>2, <4>1 DEF k
      <4>3. i - 1 \in 1 .. Len(rolled_over) - 1 /\ (i - 1) + 1 = i
        BY <2>2, <4>2
      <4>4. rolled_over'[i - 1] = x
        BY <2>3, <4>1, <4>3
      <4> QED
        BY <2>3, <4>3, <4>4 DEF Aside
    <3> QED
      BY <3>1, <3>2
  <2>7. Held(table) \cap Aside = {}
    BY DEF IInv, Apart
  <2>8. /\ table' \in Tables(buckets) /\ Distinct(table') /\ Held(table') = Held(table) \cup {k}
        /\ Reached(table, buckets)'
    <3>1. k \notin Held(table) /\ pc # "reinsert" /\ UNCHANGED <<hash, buckets>>
      BY <1>0, <2>5, <2>7
    <3> QED
      BY <2>1, <2>3, <2>5, <3>1, StoreEffect
  <2>9. Members' = Members /\ Held(table') \cap Aside' = {}
    BY <2>5, <2>6, <2>7, <2>8 DEF Members
  <2>10. TypeOK'
    <3>1. auto' => PowerOfTwo(buckets')
      BY <1>0 DEF IInv, TypeOK
    <3> QED
      BY <1>0, <2>1, <2>3, <2>8, <3>1 DEF IInv, TypeOK, Tables
  <2>11. Control'
    BY <1>0, <1>1, <2>1 DEF IInv, Control
  <2>12. Apart'
    <3>1. ASSUME NEW i \in DOMAIN rolled_over', NEW j \in DOMAIN rolled_over', rolled_over'[i] = rolled_over'[j]
          PROVE  i = j
      <4>1. i \in 1 .. Len(rolled_over) - 1 /\ j \in 1 .. Len(rolled_over) - 1
        BY <2>3
      <4>2. i + 1 \in DOMAIN rolled_over /\ j + 1 \in DOMAIN rolled_over
        BY <2>2, <2>3, <4>1
      <4>3. i + 1 = j + 1
        BY <2>3, <2>4, <3>1, <4>1, <4>2
      <4> QED
        BY <4>1, <4>3
    <3> QED
      BY <1>0, <2>8, <2>9, <3>1 DEF IInv, Apart
  <2>13. Order'
    BY <1>0, <2>1, <2>8 DEF Order
  <2>14. Counts'
    <3>1. EntriesCount'
      BY <1>0, <1>1, <2>9, Counting DEF IInv, Counts
    <3>2. pc' = "put_back"
      BY <1>0, <2>1
    <3> QED
      BY <1>0, <1>1, <2>9, <3>1, <3>2 DEF IInv, Counts
  <2> QED
    BY <2>9, <2>10, <2>11, <2>12, <2>13, <2>14 DEF IInv
<1>3. CASE rolled_over = << >>
  <2>1. /\ pc' = IF auto THEN "insert" ELSE "idle"
        /\ threshold' = Threshold(buckets) /\ UNCHANGED <<table, rolled_over>>
    BY <1>3 DEF PutBack
  <2>2. Members' = Members /\ Aside' = Aside
    BY <2>1 DEF Members, Aside
  <2>3. TypeOK'
    <3>1. auto' => PowerOfTwo(buckets')
      BY <1>0 DEF IInv, TypeOK
    <3>2. threshold' \in Nat
      BY <2>1, Basics, ThresholdIs
    <3> QED
      BY <1>0, <2>1, <3>1, <3>2 DEF IInv, TypeOK
  <2>4. Control'
    BY <1>0, <1>1, <1>3, <2>1 DEF IInv, Control
  <2>5. Apart'
    BY <1>0, <2>1, <2>2 DEF IInv, Apart, Distinct
  <2>6. Order'
    BY <1>0, <2>1 DEF IInv, Order, Reached, Place, Ideal
  <2>7. Counts'
    <3>1. EntriesCount'
      BY <1>0, <1>1, <2>2, Counting DEF IInv, Counts
    <3>2. threshold' = Threshold(buckets') /\ Threshold(buckets') = Threshold(buckets)
      BY <1>0, <2>1
    <3>3. auto' => pc' # "idle"
      BY <1>0, <2>1
    <3> QED
      BY <1>0, <1>1, <2>2, <3>1, <3>2, <3>3 DEF IInv, Counts
  <2> QED
    BY <2>2, <2>3, <2>4, <2>5, <2>6, <2>7 DEF IInv
<1> QED
  BY <1>2, <1>3

\* A new table is empty and has room for what it was sized for.
LEMMA InitHolds == Init => IInv
<1> SUFFICES ASSUME Init PROVE IInv
  OBVIOUS
<1>1. sized \in Nat /\ sized \in Requests
  BY RequestsAssumption DEF Init
<1>2. buckets \in Nat \ {0} /\ sized < buckets /\ (auto => PowerOfTwo(buckets))
  BY <1>1, SizeIs DEF Init
<1>3. table = [i \in 0 .. buckets - 1 |-> Invalid] /\ rolled_over = << >> /\ pending = Null
  BY DEF Init, Empty
<1>4. Held(table) = {} /\ Aside = {} /\ Waiting = 0
  BY <1>3 DEF Held, Aside, Waiting
<1>5. Members = {} /\ Cardinality(Members) = 0
  BY <1>4, FS_EmptySet DEF Members
<1>6. Threshold(buckets) \in Nat
  BY <1>2, ThresholdIs
<1>7. TypeOK
  BY <1>2, <1>3, <1>6 DEF Init, TypeOK
<1>8. Control
  BY <1>1, <1>3 DEF Init, Control
<1>9. Apart
  BY <1>2, <1>3, <1>4 DEF Apart, Distinct
<1>10. Order
  BY <1>3 DEF Init, Order, Reached
<1>11. Counts
  <2>1. EntriesCount /\ Cardinality(Members) < buckets
    BY <1>2, <1>4, <1>5, Counting DEF Init
  <2> QED
    BY <1>2, <1>6, <2>1 DEF Init, Counts
<1> QED
  BY <1>7, <1>8, <1>9, <1>10, <1>11 DEF IInv

\* Nothing of the invariant is in reply.
LEMMA ReplyKeeps ==
  ASSUME IInv, reply' \in {"there", "absent", "full"},
         UNCHANGED <<auto, hash, sized, table, buckets, entries, threshold, pc, doubling, refused>>
  PROVE  IInv' /\ Members' = Members
<1>1. UNCHANGED <<at, rolled_over, pending>>
  BY DEF doubling
<1>2. Members' = Members /\ Aside' = Aside /\ Half' = Half /\ Waiting' = Waiting
  BY <1>1 DEF Members, Aside, Half, Waiting
<1>3. TypeOK'
  <2>1. auto' => PowerOfTwo(buckets')
    BY DEF IInv, TypeOK
  <2> QED
    BY <1>1, <2>1 DEF IInv, TypeOK
<1>4. Control'
  BY <1>1, <1>2 DEF IInv, Control
<1>5. Apart'
  BY <1>1, <1>2 DEF IInv, Apart, Distinct
<1>6. Order'
  BY <1>1, <1>2 DEF IInv, Order, Reached, Moving, Near, Place, Ideal
<1>7. Counts'
  <2>1. EntriesCount'
    BY <1>2, Counting DEF IInv, Counts
  <2>2. Threshold(buckets') = Threshold(buckets)
    OBVIOUS
  <2> QED
    BY <1>2, <2>1, <2>2 DEF IInv, Counts
<1> QED
  BY <1>2, <1>3, <1>4, <1>5, <1>6, <1>7 DEF IInv

\* Every step keeps the invariant and is a step of the set of keys, or a stutter.
LEMMA StepKeeps == IInv /\ [Next]_vars => IInv' /\ [Promise!Next]_(Promise!vars)
<1> SUFFICES ASSUME IInv, [Next]_vars PROVE IInv' /\ [Promise!Next]_(Promise!vars)
  OBVIOUS
<1>0. /\ pc = "idle" => pending = Null /\ Waiting = 0
      /\ pc = "insert" => auto /\ pending # Null /\ pending.key \in Keys /\ pending.counted \in BOOLEAN
      /\ entries \in Nat /\ buckets \in Nat \ {0} /\ refused \in Nat
  <2>1. pc = "idle" => pending = Null /\ Waiting = 0
    BY DEF IInv, Control, Waiting
  <2>2. pc = "insert" => auto /\ pending # Null
    BY DEF IInv, Control
  <2>3. pending # Null => pending.key \in Keys /\ pending.counted \in BOOLEAN
    BY DEF IInv, TypeOK
  <2>4. entries \in Nat /\ buckets \in Nat \ {0} /\ refused \in Nat
    BY DEF IInv, TypeOK
  <2> QED
    BY <2>1, <2>2, <2>3, <2>4
<1> USE DEF Promise!Next, Promise!vars
<1>1. ASSUME NEW k \in Keys, Insert(k) PROVE IInv' /\ [Promise!Next]_(Promise!vars)
  <2>1. /\ ~auto /\ pc = "idle" /\ k \notin Held(table) /\ Store(k)
        /\ UNCHANGED <<auto, hash, sized, buckets, threshold, pc, at, rolled_over, pending>>
    BY <1>1 DEF Insert, doubling
  <2>2. k \notin Members
    BY <2>1, FoundIsMember
  <2> QED
    BY <1>0, <2>1, <2>2, StoreKeeps
<1>2. ASSUME NEW k \in Keys, FindOrInsert(k) PROVE IInv' /\ [Promise!Next]_(Promise!vars)
  <2>1. /\ ~auto /\ pc = "idle" /\ FindOrInsertHere(k)
        /\ UNCHANGED <<auto, hash, sized, buckets, threshold, pc, at, rolled_over, pending>>
    BY <1>2 DEF FindOrInsert, doubling
  <2> QED
    BY <1>0, <2>1, FindOrInsertKeeps
<1>3. ASSUME NEW k \in Keys, Find(k) PROVE IInv' /\ [Promise!Next]_(Promise!vars)
  <2>1. /\ reply' \in {"there", "absent", "full"}
        /\ UNCHANGED <<auto, hash, sized, table, buckets, entries, threshold, pc, doubling, refused>>
    BY <1>3 DEF Find
  <2>2. pc = "idle" /\ reply' = IF k \in Members THEN "there" ELSE "absent"
    BY <1>3, FoundIsMember DEF Find
  <2> QED
    BY <2>1, <2>2, ReplyKeeps DEF Promise!Find, Promise!There
<1>4. ASSUME NEW k \in Keys, AutoInsert(k) PROVE IInv' /\ [Promise!Next]_(Promise!vars)
  <2>1. /\ auto /\ pc = "idle" /\ k \notin Held(table) /\ entries' = entries + 1
        /\ UNCHANGED <<auto, hash, sized, threshold, refused>>
    BY <1>4 DEF AutoInsert
  <2>2. k \notin Members
    BY <2>1, FoundIsMember
  <2>3. CASE entries' < threshold
    <3>1. /\ table' = UncheckedInsert(table, buckets, k) /\ reply' = "absent"
          /\ UNCHANGED <<buckets, pc, at, rolled_over, pending>>
      BY <1>4, <2>3 DEF AutoInsert, doubling
    <3>2. threshold = Threshold(buckets)
      BY <2>1 DEF IInv, Counts
    <3>3. entries' = entries + (1 - Waiting) /\ entries' < buckets /\ entries' <= threshold
      BY <1>0, <2>1, <2>3, <3>2, ThresholdIs
    <3> QED
      BY <1>0, <2>1, <2>2, <3>1, <3>3, AddKeeps
  <2>4. CASE ~(entries' < threshold)
    <3>1. Grow /\ pending' = [key |-> k, counted |-> TRUE] /\ UNCHANGED reply
      BY <1>4, <2>4 DEF AutoInsert
    <3> QED
      BY <2>1, <2>2, <3>1, GrowKeeps
  <2> QED
    BY <2>3, <2>4
<1>5. ASSUME NEW k \in Keys, AutoFindOrInsert(k) PROVE IInv' /\ [Promise!Next]_(Promise!vars)
  <2>1. auto /\ pc = "idle" /\ UNCHANGED <<auto, hash, sized, threshold>>
    BY <1>5 DEF AutoFindOrInsert
  <2>2. CASE entries < threshold
    <3>1. FindOrInsertHere(k) /\ UNCHANGED <<buckets, pc, at, rolled_over, pending>>
      BY <1>5, <2>2 DEF AutoFindOrInsert, doubling
    <3>2. entries + 1 <= threshold
      <4>1. threshold \in Nat
        BY DEF IInv, TypeOK
      <4> QED
        BY <1>0, <2>2, <4>1
    <3> QED
      BY <1>0, <2>1, <3>1, <3>2, FindOrInsertKeeps
  <2>3. CASE ~(entries < threshold)
    <3>1. Grow /\ pending' = [key |-> k, counted |-> FALSE] /\ UNCHANGED <<entries, reply, refused>>
      BY <1>5, <2>3 DEF AutoFindOrInsert
    <3> QED
      BY <2>1, <3>1, GrowKeeps
  <2> QED
    BY <2>2, <2>3
<1>6. CASE Clear
  BY <1>6, ClearKeeps
<1>7. CASE Double
  <2>1. /\ ~auto /\ pc = "idle" /\ Grow
        /\ UNCHANGED <<auto, hash, sized, entries, threshold, pending, reply, refused>>
    BY <1>7 DEF Double
  <2> QED
    BY <2>1, GrowKeeps
<1>8. CASE Reinsert
  BY <1>8, ReinsertKeeps DEF Reinsert
<1>9. CASE PutBack
  BY <1>9, PutBackKeeps DEF PutBack
<1>10. CASE AutoRest
  <2>1. /\ pc = "insert" /\ pending' = Null /\ pc' = "idle"
        /\ UNCHANGED <<auto, hash, sized, buckets, threshold, at, rolled_over>>
    BY <1>10 DEF AutoRest
  <2>2. /\ auto /\ threshold = Threshold(buckets) /\ entries + (1 - Waiting) <= Half
        /\ Half \in Nat \ {0} /\ buckets = 2 * Half
    BY <1>0, <2>1 DEF IInv, Counts, Control
  <2>3. Half <= threshold /\ threshold < buckets /\ threshold \in Nat
    BY <1>0, <2>2, ThresholdIs
  <2>4. CASE pending.counted
    <3>1. Waiting = 1
      BY <1>0, <2>1, <2>4 DEF Waiting
    <3>2. /\ table' = UncheckedInsert(table, buckets, pending.key) /\ reply' = "absent"
          /\ UNCHANGED <<entries, refused>>
      BY <1>10, <2>4 DEF AutoRest
    <3>3. entries' = entries + (1 - Waiting) /\ entries' < buckets /\ entries' <= threshold
      BY <1>0, <2>2, <2>3, <3>1, <3>2
    <3>4. pending.key \notin Members
      BY <1>0, <2>1, <2>4 DEF IInv, Apart
    <3> QED
      BY <1>0, <2>1, <3>2, <3>3, <3>4, AddKeeps
  <2>5. CASE ~pending.counted
    <3>1. Waiting = 0
      BY <2>5 DEF Waiting
    <3>2. FindOrInsertHere(pending.key)
      BY <1>10, <2>5 DEF AutoRest
    <3>3. entries + 1 <= threshold
      BY <1>0, <2>2, <2>3, <3>1
    <3> QED
      BY <1>0, <2>1, <3>1, <3>2, <3>3, FindOrInsertKeeps
  <2> QED
    BY <2>4, <2>5
<1>11. CASE UNCHANGED vars
  <2>1. /\ reply' \in {"there", "absent", "full"}
        /\ UNCHANGED <<auto, hash, sized, table, buckets, entries, threshold, pc, doubling, refused>>
    BY <1>11 DEF vars, IInv, TypeOK
  <2> QED
    BY <1>11, <2>1, ReplyKeeps DEF vars
<1> QED
  BY <1>1, <1>2, <1>3, <1>4, <1>5, <1>6, <1>7, <1>8, <1>9, <1>10, <1>11 DEF Next

-----------------------------------------------------------------------------
(* The theorems                                                            *)

\* The invariant of this module, for any keys, hash functions and sizes.
THEOREM Invariance == Spec => []IInv
BY InitHolds, StepKeeps, PTL DEF Spec

\* util/probing_hash_table.hh keeps its types and entries_ counts the keys, those
\* put aside and those refused; there is an empty bucket whenever a loop looks
\* for one, in the middle of Double too, so that every loop over buckets ends.
THEOREM TableInvariantHolds == Spec => []TableInvariant
<1>1. IInv => TableInvariant
  <2> SUFFICES ASSUME IInv PROVE TableInvariant
    OBVIOUS
  <2>1. \E i \in 0 .. buckets - 1 : table[i] = Invalid
    BY Basics
  <2>2. GapRemains
    BY <2>1 DEF GapRemains, IInv, TypeOK
  <2> QED
    BY <2>2 DEF TableInvariant, IInv, Counts
<1> QED
  BY <1>1, Invariance, PTL

\* A table of the memory Size computes never throws before it holds the number
\* of entries it was sized for, and AutoProbing never throws.
THEOREM TakesWhatItIsSizedForHolds == Spec => []TakesWhatItIsSizedFor
<1>1. IInv => TakesWhatItIsSizedFor
  <2> SUFFICES ASSUME IInv, refused > 0
               PROVE  ~auto /\ (pc = "idle" => Cardinality(Held(table)) >= sized)
    BY DEF TakesWhatItIsSizedFor
  <2>1. ~auto /\ Cardinality(Members) >= sized
    BY DEF IInv, Counts
  <2>2. pc = "idle" => Members = Held(table)
    BY DEF IInv, Control, Members, Aside
  <2> QED
    BY <2>1, <2>2
<1> QED
  BY <1>1, Invariance, PTL

\* What the calls find is what the table holds.
Agree == Contents = Members

LEMMA ContentsAreMembers == IInv => Agree
<1> SUFFICES ASSUME IInv PROVE Contents = Members
  BY DEF Agree
<1>1. CASE pc \in {"idle", "insert"}
  <2>1. \A k \in Keys : Found(table, buckets, k) <=> k \in Members
    BY <1>1, FoundIsMember
  <2>2. Members \subseteq Keys
    BY Basics DEF Members
  <2> QED
    BY <1>1, <2>1, <2>2 DEF Contents
<1>2. CASE pc \notin {"idle", "insert"}
  BY <1>2 DEF Contents, Members
<1> QED
  BY <1>1, <1>2

\* The calls of the table are those of a set of keys, whatever the hash function:
\* what was inserted is found after any number of doublings, and nothing else.
THEOREM Refinement == Spec => ImplementsKeySet
<1>1. Init => Set!Init
  <2> SUFFICES ASSUME Init PROVE Set!Init
    OBVIOUS
  <2>1. Contents = Members
    BY InitHolds, ContentsAreMembers DEF Agree
  <2>2. Held(table) = {} /\ Aside = {}
    BY DEF Init, Empty, Held, Aside
  <2> QED
    BY <2>1, <2>2 DEF Init, Set!Init, Members
<1>2. IInv' => Agree'
  BY ContentsAreMembers, PTL
<1>3. IInv /\ [Next]_vars => [Set!Next]_(Set!vars)
  <2> SUFFICES ASSUME IInv, [Next]_vars PROVE [Set!Next]_(Set!vars)
    OBVIOUS
  <2>1. IInv' /\ [Promise!Next]_(Promise!vars)
    BY StepKeeps
  <2>2. Contents = Members /\ Contents' = Members'
    BY <1>2, <2>1, ContentsAreMembers DEF Agree
  <2> QED
    BY <2>1, <2>2 DEF Set!Next, Set!vars, Set!Insert, Set!Find, Set!Refuse, Set!Clear, Set!There,
       Promise!Next, Promise!vars, Promise!Insert, Promise!Find, Promise!Refuse, Promise!Clear,
       Promise!There
<1> QED
  BY <1>1, <1>3, Invariance, PTL DEF Spec, ImplementsKeySet, Set!Spec
=============================================================================
