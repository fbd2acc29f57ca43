-------------------------- MODULE ProbingHashTable --------------------------
(***************************************************************************)
(* util/probing_hash_table.hh: a hash table with linear probing over       *)
(* memory of a fixed size, and AutoProbing, which owns the memory and      *)
(* doubles it.  Both moduli are hash % buckets: Power2Mod only takes       *)
(* powers of two.                                                          *)
(*                                                                         *)
(* The table holds keys (an entry's value travels with its key).  hash is  *)
(* any function the user may have given, sized the number of entries the   *)
(* memory was asked for.  A call is one step, but for doubling, whose      *)
(* loops are steps of their own: pc is "idle" between calls, "reinsert"    *)
(* and "put_back" in Double's two loops, "insert" in an AutoProbing call   *)
(* that has doubled.                                                       *)
(***************************************************************************)
EXTENDS Integers, Sequences, FiniteSets

CONSTANTS Keys,
          Invalid,        \* the key of an empty bucket
          Hashes,         \* the hash functions considered
          Requests,       \* the numbers of entries memory is asked for
          MaxBuckets,     \* bound: Double stops here
          MaxRefused,     \* bound on the calls that find the table full
          Null

ASSUME KeysAssumption == IsFiniteSet(Keys) /\ Invalid \notin Keys
ASSUME NullAssumption == Null \notin [key : Keys, counted : BOOLEAN]
ASSUME HashesAssumption == Hashes \subseteq [Keys -> Nat]
ASSUME RequestsAssumption == Requests \subseteq Nat

VARIABLES auto,        \* AutoProbing, or a table of a fixed size
          hash, sized,
          table,       \* begin_ .. end_, bucket -> key
          buckets, entries,
          threshold,   \* AutoProbing's: doubles when there are so many entries
          pc,
          at,          \* Double's i
          rolled_over,
          pending,     \* the key of the call that doubled
          reply,       \* the last call's: the key was there, or absent, or it threw
          refused      \* calls that threw ProbingSizeException since Clear

doubling == <<at, rolled_over, pending>>
vars == <<auto, hash, sized, table, buckets, entries, threshold, pc, doubling, reply, refused>>

LeastOf(S) == CHOOSE x \in S : \A y \in S : x <= y

\* No odd number but 1 divides b.
PowerOfTwo(b) == \A d \in 1 .. b : b % d = 0 => d = 1 \/ d % 2 = 0

\* RoundBuckets: DivMod takes any number, Power2Mod the next power of two.
RoundBuckets(from) == IF auto THEN LeastOf({b \in from .. 2 * from : PowerOfTwo(b)}) ELSE from

\* Fault of Size: no room for a gap.
SizeTight(n) == RoundBuckets(IF n = 0 THEN 1 ELSE n)

\* Size, for the multiplier 1.2 of AutoProbing, in buckets.
Size(n) ==
  LET wanted == (n * 12) \div 10
  IN  RoundBuckets(IF wanted > n + 1 THEN wanted ELSE n + 1)

\* AutoProbing's threshold_, always below the number of buckets.
Threshold(b) == LeastOf({b - 1, (b * 9) \div 10})

Empty(b) == [i \in 0 .. b - 1 |-> Invalid]
Held(t) == {t[i] : i \in DOMAIN t} \ {Invalid}

Ideal(k, b) == hash[k] % b
\* The d-th bucket from the ideal one, going round by Next.
Place(k, d, b) == (Ideal(k, b) + d) % b

\* Where the loops that look for a key stop: the first bucket, from the ideal
\* one, with one of the keys in Stops.  They run for ever if there is none.
Stop(t, b, k, Stops) ==
  Place(k, LeastOf({d \in 0 .. b - 1 : t[Place(k, d, b)] \in Stops}), b)

Found(t, b, k) == t[Stop(t, b, k, {k, Invalid})] = k

UncheckedInsert(t, b, k) == [t EXCEPT ![Stop(t, b, k, {Invalid})] = k]

Init ==
  /\ auto \in BOOLEAN
  /\ hash \in Hashes
  /\ sized \in Requests
  /\ buckets = Size(sized)
  /\ table = Empty(buckets)
  /\ entries = 0
  /\ threshold = Threshold(buckets)
  /\ pc = "idle" /\ at = 0 /\ rolled_over = << >> /\ pending = Null
  /\ reply = "absent"
  /\ refused = 0

-----------------------------------------------------------------------------
(* The calls of a table                                                    *)

\* Fault: the last empty bucket is used as well.
StoreLast(k) ==
  /\ entries' = entries + 1
  /\ IF entries' > buckets
       THEN /\ refused < MaxRefused
            /\ reply' = "full" /\ refused' = refused + 1
            /\ UNCHANGED table
       ELSE /\ table' = UncheckedInsert(table, buckets, k)
            /\ reply' = "absent"
            /\ UNCHANGED refused

\* if (++entries_ >= buckets_) throw ...; *i = t
Store(k) ==
  /\ entries' = entries + 1
  /\ IF entries' >= buckets
       THEN /\ refused < MaxRefused
            /\ reply' = "full" /\ refused' = refused + 1
            /\ UNCHANGED table
       ELSE /\ table' = UncheckedInsert(table, buckets, k)
            /\ reply' = "absent"
            /\ UNCHANGED refused

\* Insert assumes that the key is new.
Insert(k) ==
  /\ ~auto /\ pc = "idle"
  /\ k \notin Held(table)
  /\ Store(k)
  /\ UNCHANGED <<auto, hash, sized, buckets, threshold, pc, doubling>>

FindOrInsertHere(k) ==
  IF Found(table, buckets, k)
    THEN reply' = "there" /\ UNCHANGED <<table, entries, refused>>
    ELSE Store(k)

FindOrInsert(k) ==
  /\ ~auto /\ pc = "idle"
  /\ FindOrInsertHere(k)
  /\ UNCHANGED <<auto, hash, sized, buckets, threshold, pc, doubling>>

Find(k) ==
  /\ pc = "idle"
  /\ reply' = IF Found(table, buckets, k) THEN "there" ELSE "absent"
  /\ UNCHANGED <<auto, hash, sized, table, buckets, entries, threshold, pc, doubling, refused>>

Clear ==
  /\ pc = "idle"
  /\ table' = Empty(buckets)
  /\ entries' = 0 /\ refused' = 0
  /\ UNCHANGED <<auto, hash, sized, buckets, threshold, pc, doubling, reply>>

-----------------------------------------------------------------------------
(* Double                                                                  *)

\* Fault: the entries at the beginning stay where they are.
GrowInPlace ==
  /\ buckets' = 2 * buckets
  /\ table' = [i \in 0 .. 2 * buckets - 1 |-> IF i >= buckets THEN Invalid ELSE table[i]]
  /\ rolled_over' = << >>
  /\ at' = 0
  /\ pc' = "reinsert"

\* Twice the memory; the entries at the beginning, up to the first empty
\* bucket, are put aside because they may not roll over any more.
Grow ==
  LET first_gap == LeastOf({i \in 0 .. buckets : i = buckets \/ table[i] = Invalid})
  IN  /\ buckets' = 2 * buckets
      /\ table' = [i \in 0 .. 2 * buckets - 1 |->
                     IF i < first_gap \/ i >= buckets THEN Invalid ELSE table[i]]
      /\ rolled_over' = [i \in 1 .. first_gap |-> table[i - 1]]
      /\ at' = 0
      /\ pc' = "reinsert"

\* The user of a fixed table doubles it between calls.
Double ==
  /\ ~auto /\ pc = "idle"
  /\ 2 * buckets <= MaxBuckets
  /\ Grow
  /\ UNCHANGED <<auto, hash, sized, entries, threshold, pending, reply, refused>>

Reinsert ==
  /\ pc = "reinsert"
  /\ at < buckets \div 2
  /\ table' = IF table[at] = Invalid THEN table
              ELSE UncheckedInsert([table EXCEPT ![at] = Invalid], buckets, table[at])
  /\ at' = at + 1
  /\ pc' = IF at' = buckets \div 2 THEN "put_back" ELSE "reinsert"
  /\ UNCHANGED <<auto, hash, sized, buckets, entries, threshold, rolled_over, pending, reply, refused>>

PutBack ==
  /\ pc = "put_back"
  /\ IF rolled_over # << >>
       THEN /\ table' = UncheckedInsert(table, buckets, Head(rolled_over))
            /\ rolled_over' = Tail(rolled_over)
            /\ UNCHANGED <<pc, threshold>>
       ELSE /\ pc' = IF auto THEN "insert" ELSE "idle"
            /\ threshold' = Threshold(buckets)
            /\ UNCHANGED <<table, rolled_over>>
  /\ UNCHANGED <<auto, hash, sized, buckets, entries, at, pending, reply, refused>>

-----------------------------------------------------------------------------
(* AutoProbing's calls                                                     *)

\* ++entries_; DoubleIfNeeded(); UncheckedInsert
AutoInsert(k) ==
  /\ auto /\ pc = "idle"
  /\ k \notin Held(table)
  /\ entries' = entries + 1
  /\ IF entries' < threshold
       THEN /\ table' = UncheckedInsert(table, buckets, k)
            /\ reply' = "absent"
            /\ UNCHANGED <<buckets, pc, doubling>>
       ELSE /\ 2 * buckets <= MaxBuckets
            /\ Grow
            /\ pending' = [key |-> k, counted |-> TRUE]
            /\ UNCHANGED reply
  /\ UNCHANGED <<auto, hash, sized, threshold, refused>>

\* DoubleIfNeeded(); FindOrInsert
AutoFindOrInsert(k) ==
  /\ auto /\ pc = "idle"
  /\ IF entries < threshold
       THEN FindOrInsertHere(k) /\ UNCHANGED <<buckets, pc, doubling>>
       ELSE /\ 2 * buckets <= MaxBuckets
            /\ Grow
            /\ pending' = [key |-> k, counted |-> FALSE]
            /\ UNCHANGED <<entries, reply, refused>>
  /\ UNCHANGED <<auto, hash, sized, threshold>>

\* The rest of a call that has doubled.
AutoRest ==
  /\ pc = "insert"
  /\ IF pending.counted
       THEN /\ table' = UncheckedInsert(table, buckets, pending.key)
            /\ reply' = "absent"
            /\ UNCHANGED <<entries, refused>>
       ELSE FindOrInsertHere(pending.key)
  /\ pending' = Null
  /\ pc' = "idle"
  /\ UNCHANGED <<auto, hash, sized, buckets, threshold, at, rolled_over>>

Next ==
  \/ \E k \in Keys : Insert(k) \/ FindOrInsert(k) \/ Find(k) \/ AutoInsert(k) \/ AutoFindOrInsert(k)
  \/ Clear \/ Double \/ Reinsert \/ PutBack \/ AutoRest

Spec == Init /\ [][Next]_vars

-----------------------------------------------------------------------------
(* Properties                                                              *)

Aside == {rolled_over[i] : i \in DOMAIN rolled_over}

\* Every variable keeps its type; Power2Mod only ever sees powers of two.
TypeOK ==
  /\ auto \in BOOLEAN /\ hash \in Hashes
  /\ buckets \in Nat \ {0}
  /\ auto => PowerOfTwo(buckets)
  /\ table \in [0 .. buckets - 1 -> Keys \cup {Invalid}]
  /\ {entries, threshold, refused} \subseteq Nat
  /\ pc \in {"idle", "reinsert", "put_back", "insert"}
  /\ at \in 0 .. buckets
  /\ rolled_over \in Seq(Keys)
  /\ pending \in [key : Keys, counted : BOOLEAN] \cup {Null}
  /\ reply \in {"there", "absent", "full"}

\* The loops over the buckets end: there is always an empty bucket, in the
\* middle of doubling too.
GapRemains == \E i \in DOMAIN table : table[i] = Invalid

\* entries_ counts the keys in the table, those Double has put aside and the
\* one an Insert is about to store; only a call that threw was counted as well.
EntriesCount ==
  entries = Cardinality(Held(table) \cup Aside) + refused
            + (IF pending # Null /\ pending.counted THEN 1 ELSE 0)

\* What holds of the table at any time, in the middle of doubling too.
TableInvariant == TypeOK /\ GapRemains /\ EntriesCount

\* "Buckets must be ... greater than maximum number of elements": a table
\* whose memory Size computed for so many entries takes them all, and a table
\* that grows by itself takes any number.
TakesWhatItIsSizedFor ==
  refused > 0 => ~auto /\ (pc = "idle" => Cardinality(Held(table)) >= sized)

\* The keys the calls find; while it doubles, the table and those put aside.
Contents == IF pc \in {"idle", "insert"} THEN {k \in Keys : Found(table, buckets, k)}
                                        ELSE Held(table) \cup Aside

\* The table is a set of keys: every call finds the keys inserted before it,
\* however the entries were moved by Double, and none besides.
Set == INSTANCE KeySet WITH members <- Contents
ImplementsKeySet == Set!Spec
=============================================================================
