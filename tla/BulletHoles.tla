---------------------------- MODULE BulletHoles ----------------------------
(***************************************************************************)
(* The backend's Bullet Holes of one Session: services/bullets.py with its *)
(* repository and router, and the requests that change the Session itself. *)
(* Route handlers run in a threadpool, so requests interleave; a Session's *)
(* row, locked FOR UPDATE from get_for_update to the commit, is what keeps *)
(* them apart.  Each handler is cut where another could come in: where it  *)
(* takes the lock, after each of its reads, and at its commit.             *)
(***************************************************************************)
EXTENDS Integers, FiniteSets

CONSTANTS
    Thread,      \* the threads that handle requests
    Hole,        \* the ids a row can be given (uuid4: never used twice)
    Key,         \* the idempotency keys the model sends
    NoThread, NoHole, NoKey

ASSUME NoneAssumption == NoThread \notin Thread /\ NoHole \notin Hole /\ NoKey \notin Key

VARIABLES
    status,      \* Session.status, or gone once the row is deleted
    rank,        \* BulletHole.rank; 0 of an id no row has
    key,         \* BulletHole.idempotency_key
    deleted,     \* the rows with a deleted_at
    lock,        \* who holds the Session's row
    pc,          \* where each thread is
    job,         \* what it was asked for, and what it has read so far
    answer       \* the status of its last answer

table == <<rank, key, deleted>>
vars == <<status, table, lock, pc, job, answer>>

Job == [source : {"model", "manual", "delete"}, key : Key \cup {NoKey},
        hole : Hole \cup {NoHole}, rank : Nat]

NoJob == [source |-> "model", key |-> NoKey, hole |-> NoHole, rank |-> 0]

(* What each variable holds. *)
TypeOK ==
    /\ status \in {"active", "completed", "gone"}
    /\ rank \in [Hole -> Nat] /\ key \in [Hole -> Key \cup {NoKey}] /\ deleted \subseteq Hole
    /\ lock \in Thread \cup {NoThread}
    /\ pc \in [Thread -> {"idle", "lock", "check", "store", "remove", "respond"}]
    /\ job \in [Thread -> Job]
    /\ answer \in [Thread -> {"none", "201", "204", "404", "409", "500"}]

Rows == {h \in Hole : rank[h] # 0}
Live == Rows \ deleted
Keyed(k) == {h \in Rows : key[h] = k}

Init ==
    /\ status = "active"
    /\ rank = [h \in Hole |-> 0] /\ key = [h \in Hole |-> NoKey] /\ deleted = {}
    /\ lock = NoThread
    /\ pc = [t \in Thread |-> "idle"]
    /\ job = [t \in Thread |-> NoJob]
    /\ answer = [t \in Thread |-> "none"]

Goto(t, label) == pc' = [pc EXCEPT ![t] = label]

(* The request is answered: what it locked goes with its transaction, what *)
(* it read with its frame.                                                 *)
Answer(t, code) ==
    /\ Goto(t, "idle") /\ answer' = [answer EXCEPT ![t] = code]
    /\ job' = [job EXCEPT ![t] = NoJob]
    /\ lock' = IF lock = t THEN NoThread ELSE lock

-----------------------------------------------------------------------------
(* POST /bullets: the model's carries a key, the operator's none. *)
Report(t, source, k) ==
    /\ pc[t] = "idle"
    /\ source = "manual" => k = NoKey
    /\ job' = [job EXCEPT ![t] = [source |-> source, key |-> k, hole |-> NoHole, rank |-> 0]]
    /\ Goto(t, "lock") /\ answer' = [answer EXCEPT ![t] = "none"]
    /\ UNCHANGED <<status, table, lock>>

(* DELETE /bullets/{id}: the operator's, of a row it was shown. *)
Delete(t, h) ==
    /\ pc[t] = "idle" /\ h \in Rows
    /\ job' = [job EXCEPT ![t] = [source |-> "delete", key |-> NoKey, hole |-> h, rank |-> 0]]
    /\ Goto(t, "lock") /\ answer' = [answer EXCEPT ![t] = "none"]
    /\ UNCHANGED <<status, table, lock>>

(* What create_bullet answers from the Session's status alone. *)
Refused(source) ==
    \/ source = "model" /\ status = "completed"
    \/ source = "manual" /\ status = "active"

(* The bound on rows: a new one waits until an id is left for it. *)
RowLeft(t) ==
    \/ Rows # Hole \/ job[t].source = "delete"
    \/ job[t].key # NoKey /\ Keyed(job[t].key) # {}

(* Mutant: the Session read without its lock. *)
LocksNothing(t) ==
    /\ pc[t] = "lock"
    /\ \/ status = "gone" /\ Answer(t, "404")
       \/ status # "gone" /\ Refused(job[t].source) /\ Answer(t, "409")
       \/ /\ status # "gone" /\ ~Refused(job[t].source)
          /\ Goto(t, "check") /\ UNCHANGED <<lock, job, answer>>
    /\ UNCHANGED <<status, table>>

(* get_for_update: waits for the row, which is then this request's until   *)
(* it is answered or commits.                                              *)
Locks(t) ==
    /\ pc[t] = "lock" /\ lock = NoThread
    /\ \/ status = "gone" /\ Answer(t, "404")
       \/ status # "gone" /\ Refused(job[t].source) /\ Answer(t, "409")
       \/ /\ status # "gone" /\ ~Refused(job[t].source) /\ RowLeft(t)
          /\ lock' = t /\ Goto(t, "check") /\ UNCHANGED <<job, answer>>
    /\ UNCHANGED <<status, table>>

(* Mutant: only the Bullet Holes not deleted are looked at. *)
StoredLive(k) == {h \in Live : key[h] = k}

(* find_by_idempotency_key: deleted rows too. *)
Stored(k) == IF k = NoKey THEN {} ELSE Keyed(k)

(* A key the Session holds is answered with that row. *)
FindsStored(t) ==
    /\ pc[t] = "check"
    /\ \E h \in Stored(job[t].key) : job' = [job EXCEPT ![t].hole = h]
    /\ Goto(t, "respond") /\ UNCHANGED <<status, table, lock, answer>>

(* count_active: the new row's rank is decided. *)
Counts(t) ==
    /\ pc[t] = "check" /\ job[t].source # "delete" /\ Stored(job[t].key) = {}
    /\ job' = [job EXCEPT ![t].rank = Cardinality(Live) + 1]
    /\ Goto(t, "store") /\ UNCHANGED <<status, table, lock, answer>>

(* add: the insert commits, unless the unique index refuses its key. *)
Stores(t) ==
    /\ pc[t] = "store"
    /\ \/ /\ job[t].key # NoKey /\ Keyed(job[t].key) # {}
          /\ Answer(t, "500") /\ UNCHANGED table
       \/ /\ job[t].key = NoKey \/ Keyed(job[t].key) = {}
          /\ \E h \in Hole \ Rows :
              /\ rank' = [rank EXCEPT ![h] = job[t].rank]
              /\ key' = [key EXCEPT ![h] = job[t].key]
              /\ job' = [job EXCEPT ![t].hole = h]
          /\ lock' = IF lock = t THEN NoThread ELSE lock
          /\ Goto(t, "respond") /\ UNCHANGED <<deleted, answer>>
    /\ UNCHANGED status

(* The row is read again and sent: it fails if the Session went meanwhile. *)
Responds(t) ==
    /\ pc[t] = "respond"
    /\ Answer(t, IF job[t].hole \in Rows THEN "201" ELSE "500")
    /\ UNCHANGED <<status, table>>

(* get_active: the row to delete, and its rank. *)
Finds(t) ==
    /\ pc[t] = "check" /\ job[t].source = "delete"
    /\ \/ job[t].hole \notin Live /\ Answer(t, "404")
       \/ /\ job[t].hole \in Live
          /\ job' = [job EXCEPT ![t].rank = rank[job[t].hole]]
          /\ Goto(t, "remove") /\ UNCHANGED <<lock, answer>>
    /\ UNCHANGED <<status, table>>

(* move_up_after: the rows ranked after it that are not deleted. *)
MovedUp(r) == [h \in Hole |-> IF h \in Live /\ rank[h] > r THEN rank[h] - 1 ELSE rank[h]]

(* Soft delete, the bullets after it moved up, committed at once. *)
Removes(t) ==
    /\ pc[t] = "remove"
    /\ deleted' = deleted \cup {job[t].hole}
    /\ rank' = MovedUp(job[t].rank)
    /\ Answer(t, "204")
    /\ UNCHANGED <<status, key>>

-----------------------------------------------------------------------------
(* update_session and delete_session, each under the same lock from its    *)
(* read to its commit.  A deleted Session takes its rows along.            *)
ChangesStatus ==
    /\ lock = NoThread /\ status # "gone"
    /\ status' = IF status = "active" THEN "completed" ELSE "active"
    /\ UNCHANGED <<table, lock, pc, job, answer>>

DeletesSession ==
    /\ lock = NoThread /\ status # "gone" /\ status' = "gone"
    /\ rank' = [h \in Hole |-> 0] /\ key' = [h \in Hole |-> NoKey] /\ deleted' = {}
    /\ UNCHANGED <<lock, pc, job, answer>>

-----------------------------------------------------------------------------
Handles(t) ==
    Locks(t) \/ FindsStored(t) \/ Counts(t) \/ Stores(t) \/ Responds(t) \/ Finds(t) \/ Removes(t)

Requests(t) ==
    \/ \E k \in Key : Report(t, "model", k)
    \/ Report(t, "manual", NoKey)
    \/ \E h \in Hole : Delete(t, h)

Next ==
    \/ \E t \in Thread : Requests(t) \/ Handles(t)
    \/ ChangesStatus \/ DeletesSession

Spec == Init /\ [][Next]_vars

-----------------------------------------------------------------------------
(* The Bullet Holes shown are ranked 1..n, each rank once, whichever       *)
(* requests run at once: create_bullet counts under the lock, and          *)
(* delete_bullet closes the gap it makes.                                  *)
RanksAreDense ==
    /\ \A h \in Live : rank[h] \in 1..Cardinality(Live)
    /\ \A g, h \in Live : rank[g] = rank[h] => g = h

(* A key is stored once, however often and however late it is reported,    *)
(* and the unique index is never what stops a second one: the retry is     *)
(* answered with the row, not with a 500.                                  *)
KeysAreStoredOnce ==
    /\ \A g, h \in Rows : key[g] = key[h] /\ key[g] # NoKey => g = h
    /\ \A t \in Thread : pc[t] = "store" /\ job[t].key # NoKey => Keyed(job[t].key) = {}

(* A row of the model is only ever added to an active Session, and one of  *)
(* the operator to a completed one, although its status was read steps     *)
(* before the row is committed.                                            *)
StoredWhileAllowed ==
    [][\A t \in Thread : pc[t] = "store" /\ rank' # rank /\ pc'[t] = "respond" =>
          status = IF job[t].source = "model" THEN "active" ELSE "completed"]_vars

(* Bullet Holes never swap places: a delete moves the later ones up, and   *)
(* no request moves one past another.                                      *)
OrderIsKept ==
    [][\A g, h \in Live : {g, h} \subseteq Live' /\ rank[g] < rank[h] => rank'[g] < rank'[h]]_vars

(* However requests interleave, the rows change as if each request were    *)
(* made at once, one after the other.                                      *)
Table == INSTANCE RankedHoles
ChangesAreAtomic == Table!Spec
=============================================================================
