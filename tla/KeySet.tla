------------------------------- MODULE KeySet -------------------------------
(***************************************************************************)
(* What a hash table promises: a set of keys.  The reply to a call says    *)
(* whether the key was there before it, or that nothing was done.          *)
(***************************************************************************)
CONSTANT Keys

VARIABLES members, reply
vars == <<members, reply>>

Init == members = {} /\ reply = "absent"

There(k) == IF k \in members THEN "there" ELSE "absent"

Insert(k) == members' = members \cup {k} /\ reply' = There(k)
Find(k) == reply' = There(k) /\ UNCHANGED members
Refuse(k) == k \notin members /\ reply' = "full" /\ UNCHANGED members
Clear == members' = {} /\ UNCHANGED reply

Next == (\E k \in Keys : Insert(k) \/ Find(k) \/ Refuse(k)) \/ Clear

Spec == Init /\ [][Next]_vars
=============================================================================
