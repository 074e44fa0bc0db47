---------------------------- MODULE RankedHoles ----------------------------
(***************************************************************************)
(* What the backend promises of a Session's Bullet Holes: each change is   *)
(* made at once, one after the other, a new one ranked last and a deleted  *)
(* one closing its gap.  BulletHoles shows how its requests keep this;     *)
(* SessionLive builds on it.                                               *)
(***************************************************************************)
EXTENDS Integers, FiniteSets

CONSTANTS Hole, Key, NoKey

VARIABLES
    rank,      \* BulletHole.rank; 0 of an id no row has
    key,       \* BulletHole.idempotency_key
    deleted    \* the rows with a deleted_at

vars == <<rank, key, deleted>>

Rows == {h \in Hole : rank[h] # 0}
Live == Rows \ deleted

Init == rank = [h \in Hole |-> 0] /\ key = [h \in Hole |-> NoKey] /\ deleted = {}

(* A Bullet Hole is stored, unless its key is. *)
Add(h, k) ==
    /\ h \in Hole \ Rows
    /\ k # NoKey => \A g \in Rows : key[g] # k
    /\ rank' = [rank EXCEPT ![h] = Cardinality(Live) + 1]
    /\ key' = [key EXCEPT ![h] = k] /\ UNCHANGED deleted

(* A Bullet Hole is deleted: the ones after it move up. *)
Remove(h) ==
    /\ h \in Live /\ deleted' = deleted \cup {h}
    /\ rank' = [g \in Hole |-> IF g \in Live /\ rank[g] > rank[h] THEN rank[g] - 1 ELSE rank[g]]
    /\ UNCHANGED key

(* The Session is deleted, and its rows with it. *)
Clear == rank' = [h \in Hole |-> 0] /\ key' = [h \in Hole |-> NoKey] /\ deleted' = {}

Next ==
    \/ \E h \in Hole, k \in Key \cup {NoKey} : Add(h, k)
    \/ \E h \in Hole : Remove(h)
    \/ Clear

Spec == Init /\ [][Next]_vars
=============================================================================
