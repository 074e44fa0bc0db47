------------------------- MODULE BulletHolesProofs -------------------------
(***************************************************************************)
(* Proofs about BulletHoles, for any number of requests at once, of rows   *)
(* and of keys.                                                            *)
(***************************************************************************)
EXTENDS BulletHoles, FiniteSetTheorems, TLAPS

(* A request between its read of the Session and its commit holds the row. *)
ReadersLock == \A t \in Thread : pc[t] \in {"check", "store", "remove"} => lock = t

(* What a request decided still stands when it commits. *)
DecisionsStand ==
    /\ \A t \in Thread : pc[t] \in {"check", "store"} /\ job[t].source # "delete" =>
          status = IF job[t].source = "model" THEN "active" ELSE "completed"
    /\ \A t \in Thread : pc[t] = "store" =>
          job[t].source # "delete" /\ job[t].rank = Cardinality(Live) + 1
    /\ \A t \in Thread : pc[t] = "remove" =>
          job[t].hole \in Live /\ job[t].rank = rank[job[t].hole]

(* Only rows are deleted, and there are finitely many. *)
RowsAreRows == deleted \subseteq Rows /\ IsFiniteSet(Live)

IInv == TypeOK /\ ReadersLock /\ DecisionsStand /\ RowsAreRows /\ RanksAreDense /\ KeysAreStoredOnce
-----------------------------------------------------------------------------
(* A Session starts with no Bullet Holes. *)
LEMMA InitEstablishes == Init => IInv
<1> SUFFICES ASSUME Init PROVE IInv
  OBVIOUS
<1>1. Rows = {} /\ Live = {}
  BY DEF Init, Rows, Live
<1>2. TypeOK
  BY NoneAssumption DEF Init, TypeOK, Job, NoJob
<1>3. ReadersLock /\ DecisionsStand /\ RowsAreRows /\ RanksAreDense /\ KeysAreStoredOnce
  BY <1>1, FS_EmptySet
     DEF Init, ReadersLock, DecisionsStand, RowsAreRows, RanksAreDense, KeysAreStoredOnce
<1> QED BY <1>2, <1>3 DEF IInv

(* A step that leaves the table alone leaves what is said of it alone. *)
LEMMA TableKept ==
    ASSUME UNCHANGED table
    PROVE  /\ Rows' = Rows /\ Live' = Live /\ \A k : Keyed(k)' = Keyed(k)
           /\ rank' = rank /\ key' = key /\ deleted' = deleted
           /\ RowsAreRows' = RowsAreRows /\ RanksAreDense' = RanksAreDense
BY DEF table, Rows, Live, Keyed, RowsAreRows, RanksAreDense

(* The rows after b moved up close the gap that b leaves, in the order     *)
(* they were.                                                              *)
LEMMA GapCloses ==
    ASSUME NEW b \in Live, NEW n \in Nat, rank \in [Hole -> Nat],
           \A h \in Live : rank[h] \in 1..n, \A g, h \in Live : rank[g] = rank[h] => g = h,
           rank' = MovedUp(rank[b])
    PROVE  /\ rank' \in [Hole -> Nat] /\ \A h \in Hole : rank'[h] = 0 <=> rank[h] = 0
           /\ \A h \in Live \ {b} : rank'[h] \in 1..(n - 1)
           /\ \A g, h \in Live \ {b} : rank'[g] = rank'[h] => g = h
           /\ \A g, h \in Live \ {b} : rank[g] < rank[h] => rank'[g] < rank'[h]
<1> DEFINE r == rank[b]
<1>1. r \in 1..n
  OBVIOUS
<1>2. \A h \in Live \ {b} : rank[h] # r /\ rank[h] \in 1..n /\ h \in Hole
  BY DEF Live, Rows
<1>3. \A h \in Hole : /\ rank[h] \in Nat
                     /\ rank'[h] = IF h \in Live /\ rank[h] > r THEN rank[h] - 1 ELSE rank[h]
  BY DEF MovedUp
<1>4. rank' \in [Hole -> Nat]
  <2>1. \A h \in Hole : (IF h \in Live /\ rank[h] > r THEN rank[h] - 1 ELSE rank[h]) \in Nat
    BY <1>1, <1>3
  <2> QED BY <2>1 DEF MovedUp
<1> HIDE DEF r
<1>5. \A h \in Hole : rank'[h] \in Nat /\ (rank'[h] = 0 <=> rank[h] = 0)
  BY <1>1, <1>3
<1>6. \A h \in Live \ {b} : rank'[h] \in 1..(n - 1)
  <2> SUFFICES ASSUME NEW h \in Live \ {b} PROVE rank'[h] \in 1..(n - 1)
    OBVIOUS
  <2>1. rank[h] # r /\ rank[h] \in 1..n /\ rank'[h] = IF rank[h] > r THEN rank[h] - 1 ELSE rank[h]
    BY <1>2, <1>3
  <2> QED BY <1>1, <2>1
<1>7. ASSUME NEW g \in Live \ {b}, NEW h \in Live \ {b}
      PROVE  (rank[g] < rank[h] => rank'[g] < rank'[h]) /\ (rank'[g] = rank'[h] => g = h)
  <2>1. rank[h] # r /\ rank[h] \in 1..n /\ rank'[h] = IF rank[h] > r THEN rank[h] - 1 ELSE rank[h]
    BY <1>2, <1>3
  <2>2. rank[g] # r /\ rank[g] \in 1..n /\ rank'[g] = IF rank[g] > r THEN rank[g] - 1 ELSE rank[g]
    BY <1>2, <1>3
  <2> QED BY <1>1, <2>1, <2>2
<1> QED BY Zenon, <1>4, <1>5, <1>6, <1>7

(* A request that only reads keeps IInv. *)
LEMMA ReadsPreserve ==
    ASSUME IInv, NEW t \in Thread,
           Requests(t) \/ Locks(t) \/ FindsStored(t) \/ Counts(t) \/ Responds(t) \/ Finds(t)
    PROVE  IInv'
<1> USE NoneAssumption
<1>1. UNCHANGED <<status, table>>
  BY DEF Requests, Report, Delete, Locks, FindsStored, Counts, Responds, Finds
<1>2. RowsAreRows' /\ RanksAreDense'
  BY <1>1, TableKept DEF IInv
<1>3. Cardinality(Live) \in Nat
  BY FS_CardinalityType DEF IInv, RowsAreRows
<1>4. job' \in [Thread -> Job]
  <2>1. job \in [Thread -> Job] /\ rank \in [Hole -> Nat] /\ NoJob \in Job
    BY DEF IInv, TypeOK, Job, NoJob
  <2>2. \E j \in Job : job' = [job EXCEPT ![t] = j]
    <3>1. CASE Requests(t)
      BY <2>1, <3>1 DEF Requests, Report, Delete, Job
    <3>2. CASE Locks(t) \/ Responds(t)
      BY <2>1, <3>2 DEF Locks, Responds, Answer
    <3>3. CASE FindsStored(t)
      BY <2>1, <3>3 DEF FindsStored, Stored, Keyed, Rows, Job
    <3>4. CASE Counts(t)
      <4> DEFINE c == Cardinality(Live) + 1
      <4>1. c \in Nat /\ job' = [job EXCEPT ![t].rank = c]
        BY <1>3, <3>4 DEF Counts
      <4> HIDE DEF c
      <4> QED BY <2>1, <4>1 DEF Job
    <3>5. CASE Finds(t)
      BY <2>1, <3>5 DEF Finds, Answer, Live, Rows, Job
    <3> QED BY <3>1, <3>2, <3>3, <3>4, <3>5
  <2> QED BY <2>1, <2>2
<1>5. TypeOK'
  BY <1>1, <1>4, TableKept DEF IInv, TypeOK, Requests, Report, Delete, Locks, FindsStored, Counts,
                               Responds, Finds, Answer, Goto
<1>6. ReadersLock'
  BY DEF IInv, TypeOK, ReadersLock, Requests, Report, Delete, Locks, FindsStored, Counts, Responds,
         Finds, Answer, Goto
<1>7. \A u \in Thread \ {t} : job'[u] = job[u] /\ pc'[u] = pc[u]
  BY DEF IInv, TypeOK, Requests, Report, Delete, Locks, FindsStored, Counts, Responds, Finds, Answer, Goto
<1>8. pc'[t] \in {"check", "store"} /\ job'[t].source # "delete" =>
          status = IF job'[t].source = "model" THEN "active" ELSE "completed"
  BY DEF IInv, TypeOK, DecisionsStand, Refused, Job, Requests, Report, Delete, Locks, FindsStored,
         Counts, Responds, Finds, Answer, Goto
<1>9. pc'[t] = "store" => /\ job'[t].source # "delete" /\ job'[t].rank = Cardinality(Live) + 1
                          /\ job'[t].key # NoKey => Keyed(job'[t].key) = {}
  <2>1. pc'[t] = "store" => Counts(t)
    BY DEF IInv, TypeOK, Requests, Report, Delete, Locks, FindsStored, Responds, Finds, Answer, Goto
  <2> DEFINE c == Cardinality(Live) + 1
  <2>2. Counts(t) => /\ c \in Nat /\ job' = [job EXCEPT ![t].rank = c] /\ job[t].source # "delete"
                     /\ job[t].key # NoKey => Keyed(job[t].key) = {}
    BY <1>3 DEF Counts, Stored
  <2>3. job \in [Thread -> Job]
    BY DEF IInv, TypeOK
  <2> HIDE DEF c
  <2>4. Counts(t) => job'[t].source = job[t].source /\ job'[t].rank = c /\ job'[t].key = job[t].key
    BY <2>2, <2>3 DEF Job
  <2> QED BY <2>1, <2>2, <2>4 DEF c
<1>10. pc'[t] = "remove" => job'[t].hole \in Live /\ job'[t].rank = rank[job'[t].hole]
  BY DEF IInv, TypeOK, Job, Requests, Report, Delete, Locks, FindsStored, Counts, Responds, Finds,
         Answer, Goto
<1>11. DecisionsStand'
  BY <1>1, <1>7, <1>8, <1>9, <1>10, TableKept DEF IInv, DecisionsStand
<1>12. KeysAreStoredOnce'
  BY <1>1, <1>7, <1>9, TableKept DEF IInv, KeysAreStoredOnce
<1> QED BY <1>2, <1>5, <1>6, <1>11, <1>12 DEF IInv

(* A row stored keeps IInv: its rank is the next one, its key a new one. *)
LEMMA StoresPreserves == ASSUME IInv, NEW t \in Thread, Stores(t) PROVE IInv'
<1> USE NoneAssumption
<1> USE DEF IInv, TypeOK, Job, NoJob, Goto, Answer
<1>1. pc[t] = "store" /\ lock = t /\ \A u \in Thread : pc[u] \in {"check", "store", "remove"} => u = t
  BY DEF Stores, ReadersLock
<1>2. PICK h \in Hole \ Rows :
        /\ rank' = [rank EXCEPT ![h] = job[t].rank]
        /\ key' = [key EXCEPT ![h] = job[t].key]
        /\ job' = [job EXCEPT ![t].hole = h]
        /\ lock' = NoThread /\ pc' = [pc EXCEPT ![t] = "respond"]
        /\ UNCHANGED <<deleted, answer, status>>
  BY <1>1 DEF Stores, KeysAreStoredOnce
<1>3. job[t].rank = Cardinality(Live) + 1 /\ Cardinality(Live) \in Nat /\ IsFiniteSet(Live)
  BY <1>1, FS_CardinalityType DEF DecisionsStand, RowsAreRows
<1> DEFINE n == Cardinality(Live)
<1>a. \A g \in Hole : rank'[g] = IF g = h THEN n + 1 ELSE rank[g]
  BY <1>2, <1>3
<1>4. Rows' = Rows \cup {h} /\ Live' = Live \cup {h} /\ h \notin Live
  <2>1. h \in Hole /\ h \notin Rows /\ h \notin deleted /\ n + 1 # 0
    BY <1>2, <1>3 DEF RowsAreRows
  <2> HIDE DEF n
  <2> QED BY <1>2, <1>a, <2>1 DEF Rows, Live
<1>5. IsFiniteSet(Live') /\ Cardinality(Live') = Cardinality(Live) + 1
  BY <1>3, <1>4, FS_AddElement
<1>6. TypeOK'
  BY <1>2, <1>3
<1>7. ReadersLock' /\ DecisionsStand'
  BY <1>1, <1>2 DEF ReadersLock, DecisionsStand
<1>8. RowsAreRows'
  BY <1>2, <1>4, <1>5 DEF RowsAreRows
<1>9. RanksAreDense'
  <2>1. \A g \in Live : rank[g] \in 1..n /\ g \in Hole /\ g # h
    BY <1>4 DEF RanksAreDense, Live, Rows
  <2>2. n \in Nat /\ Cardinality(Live') = n + 1
    BY <1>3, <1>5
  <2> HIDE DEF n
  <2>3. \A g \in Live' : rank'[g] \in 1..(n + 1)
    BY <1>2, <1>a, <1>4, <2>1, <2>2
  <2>4. \A f, g \in Live' : rank'[f] = rank'[g] => f = g
    BY <1>2, <1>a, <1>4, <2>1, <2>2 DEF RanksAreDense
  <2> QED BY <2>2, <2>3, <2>4 DEF RanksAreDense
<1>10. KeysAreStoredOnce'
  BY <1>1, <1>2, <1>4 DEF KeysAreStoredOnce, Keyed
<1> QED BY <1>6, <1>7, <1>8, <1>9, <1>10

(* A row deleted keeps IInv: the rows after it close the gap. *)
LEMMA RemovesPreserves == ASSUME IInv, NEW t \in Thread, Removes(t) PROVE IInv'
<1> USE NoneAssumption
<1> USE DEF IInv, TypeOK, Job, NoJob, Goto, Answer
<1> DEFINE b == job[t].hole
           r == rank[b]
<1>1. /\ pc[t] = "remove" /\ lock = t /\ b \in Live /\ job[t].rank = r
      /\ \A u \in Thread : pc[u] \in {"check", "store", "remove"} => u = t
  BY DEF Removes, ReadersLock, DecisionsStand
<1>2. b \in Hole /\ r \in Nat /\ r # 0
  BY <1>1 DEF Live, Rows
<1> HIDE DEF b, r
<1>3. rank' = [h \in Hole |-> IF h \in Live /\ rank[h] > r THEN rank[h] - 1 ELSE rank[h]]
  BY <1>1 DEF Removes, MovedUp
<1>4. deleted' = deleted \cup {b} /\ UNCHANGED <<status, key>>
  BY DEF Removes, b
<1>5. pc' = [pc EXCEPT ![t] = "idle"] /\ lock' = NoThread
      /\ job' = [job EXCEPT ![t] = NoJob] /\ answer' = [answer EXCEPT ![t] = "204"]
  BY <1>1 DEF Removes
<1>a. /\ Live \in SUBSET Hole /\ Cardinality(Live) \in Nat /\ IsFiniteSet(Live)
      /\ \A h \in Live : rank[h] \in 1..Cardinality(Live)
      /\ \A g, h \in Live : rank[g] = rank[h] => g = h
  BY FS_CardinalityType DEF RowsAreRows, RanksAreDense, Live, Rows
<1>b. /\ rank' \in [Hole -> Nat] /\ \A h \in Hole : rank'[h] = 0 <=> rank[h] = 0
      /\ \A h \in Live \ {b} : rank'[h] \in 1..(Cardinality(Live) - 1)
      /\ \A g, h \in Live \ {b} : rank'[g] = rank'[h] => g = h
  <2>1. rank' = MovedUp(rank[b])
    BY <1>1 DEF Removes, r, b
  <2> HIDE DEF IInv, TypeOK
  <2>2. rank \in [Hole -> Nat]
    BY DEF IInv, TypeOK
  <2> QED BY <1>1, <1>a, <2>1, <2>2, GapCloses
<1>6. rank' \in [Hole -> Nat] /\ \A h \in Hole : rank'[h] = 0 <=> rank[h] = 0
  BY <1>b
<1>7. Rows' = Rows /\ Live' = Live \ {b}
  BY <1>4, <1>6 DEF Rows, Live
<1>8. /\ IsFiniteSet(Live') /\ Cardinality(Live') = Cardinality(Live) - 1
      /\ Cardinality(Live) \in Nat
  BY <1>1, <1>7, FS_RemoveElement, FS_CardinalityType DEF RowsAreRows
<1>9. TypeOK'
  BY <1>2, <1>4, <1>5, <1>6
<1>10. ReadersLock' /\ DecisionsStand'
  BY <1>1, <1>5 DEF ReadersLock, DecisionsStand
<1>11. RowsAreRows'
  BY <1>1, <1>4, <1>7, <1>8 DEF RowsAreRows, Live
<1>12. RanksAreDense'
  BY <1>b, <1>7, <1>8 DEF RanksAreDense
<1>13. KeysAreStoredOnce'
  BY <1>1, <1>4, <1>5, <1>7 DEF KeysAreStoredOnce, Keyed
<1> QED BY <1>9, <1>10, <1>11, <1>12, <1>13

(* Changing or deleting the Session keeps IInv: no request is between its  *)
(* read and its commit.                                                    *)
LEMMA SessionPreserves == ASSUME IInv, ChangesStatus \/ DeletesSession PROVE IInv'
<1> USE NoneAssumption
<1> USE DEF IInv, TypeOK, Job, NoJob
<1>1. \A t \in Thread : pc[t] \notin {"check", "store", "remove"}
  BY DEF ChangesStatus, DeletesSession, ReadersLock
<1>2. CASE ChangesStatus
  <2>1. UNCHANGED table
    BY <1>2 DEF ChangesStatus
  <2> QED BY <1>1, <1>2, <2>1, TableKept
          DEF ChangesStatus, ReadersLock, DecisionsStand, KeysAreStoredOnce
<1>3. CASE DeletesSession
  <2>1. Rows' = {} /\ Live' = {}
    BY <1>3 DEF DeletesSession, Rows, Live
  <2> QED BY <1>1, <1>3, <2>1, FS_EmptySet
          DEF DeletesSession, ReadersLock, DecisionsStand, RowsAreRows, RanksAreDense,
              KeysAreStoredOnce
<1> QED BY <1>2, <1>3

(* IInv is inductive, so it holds of every reachable state. *)
THEOREM Inductive == Spec => []IInv
<1>1. IInv /\ [Next]_vars => IInv'
  <2>1. ASSUME IInv, UNCHANGED vars PROVE IInv'
    BY <2>1 DEF vars, table, IInv, TypeOK, ReadersLock, DecisionsStand, RowsAreRows,
                RanksAreDense, KeysAreStoredOnce, Rows, Live, Keyed
  <2> QED BY <2>1, ReadsPreserve, StoresPreserves, RemovesPreserves, SessionPreserves
          DEF Next, Handles
<1> QED BY InitEstablishes, <1>1, PTL DEF Spec

(* Every variable keeps its type. *)
THEOREM TypeCorrect == Spec => []TypeOK
BY Inductive, PTL DEF IInv

(* However many requests run at once, the Bullet Holes shown are ranked    *)
(* 1..n, each rank once.                                                   *)
THEOREM RanksStayDense == Spec => []RanksAreDense
BY Inductive, PTL DEF IInv

(* However often and late a key is reported, it is stored once.            *)
THEOREM KeysStayUnique == Spec => []KeysAreStoredOnce
BY Inductive, PTL DEF IInv

(* No row is committed into a Session whose status refuses it.             *)
THEOREM AllowedWhenStored == Spec => StoredWhileAllowed
<1>1. IInv /\ [Next]_vars =>
        [\A t \in Thread : pc[t] = "store" /\ rank' # rank /\ pc'[t] = "respond" =>
            status = IF job[t].source = "model" THEN "active" ELSE "completed"]_vars
  BY DEF IInv, DecisionsStand
<1> QED BY Inductive, <1>1, PTL DEF Spec, StoredWhileAllowed

(* No step moves a Bullet Hole past another.                               *)
THEOREM OrderStays == Spec => OrderIsKept
<1>1. ASSUME IInv, [Next]_vars
      PROVE  \A g, h \in Live : {g, h} \subseteq Live' /\ rank[g] < rank[h] => rank'[g] < rank'[h]
  <2> SUFFICES ASSUME NEW g \in Live, NEW h \in Live, g \in Live', h \in Live', rank[g] < rank[h]
               PROVE  rank'[g] < rank'[h]
    BY Zenon
  <2>1. g \in Hole /\ h \in Hole /\ rank \in [Hole -> Nat]
    BY <1>1 DEF Live, Rows, IInv, TypeOK
  <2>2. CASE UNCHANGED rank
    BY <2>2
  <2>3. ASSUME NEW t \in Thread, Stores(t) PROVE rank'[g] < rank'[h]
    BY <2>1, <2>3 DEF Stores, Live, Answer, table
  <2>4. ASSUME NEW t \in Thread, Removes(t) PROVE rank'[g] < rank'[h]
    <3> DEFINE b == job[t].hole
    <3>1. b \in Live /\ rank' = MovedUp(rank[b]) /\ b \in deleted'
      BY <1>1, <2>4 DEF Removes, IInv, DecisionsStand
    <3>2. g # b /\ h # b
      BY <3>1 DEF Live
    <3>3. /\ Cardinality(Live) \in Nat /\ \A x \in Live : rank[x] \in 1..Cardinality(Live)
          /\ \A x, y \in Live : rank[x] = rank[y] => x = y
      BY <1>1, FS_CardinalityType DEF IInv, RowsAreRows, RanksAreDense
    <3> HIDE DEF b
    <3>4. \A x, y \in Live \ {b} : rank[x] < rank[y] => rank'[x] < rank'[y]
      BY <2>1, <3>1, <3>3, GapCloses
    <3> QED BY <3>2, <3>4
  <2>5. CASE DeletesSession
    BY <2>1, <2>5 DEF DeletesSession, Live, Rows
  <2> QED
    <3>1. UNCHANGED rank \/ (\E t \in Thread : Stores(t) \/ Removes(t)) \/ DeletesSession
      BY <1>1 DEF Next, vars, table, Handles, Requests, Report, Delete, Locks, FindsStored, Counts,
                  Responds, Finds, ChangesStatus
    <3> QED BY <2>2, <2>3, <2>4, <2>5, <3>1
<1>2. IInv /\ [Next]_vars =>
        [\A g, h \in Live : {g, h} \subseteq Live' /\ rank[g] < rank[h] => rank'[g] < rank'[h]]_vars
  BY <1>1
<1> QED BY Inductive, <1>2, PTL DEF Spec, OrderIsKept

(* Every step of the requests is one change of RankedHoles or none: the    *)
(* lock makes a request's read, its decision and its commit one change.    *)
THEOREM Refines == Spec => ChangesAreAtomic
<1>1. Init => Table!Init
  BY DEF Init, Table!Init
<1>2. ASSUME IInv, [Next]_vars PROVE [Table!Next]_<<rank, key, deleted>>
  <2>1. ASSUME NEW t \in Thread, Stores(t) PROVE Table!Next \/ UNCHANGED <<rank, key, deleted>>
    <3>1. /\ job[t].rank = Cardinality(Live) + 1
          /\ job[t].key \in Key \cup {NoKey} /\ (job[t].key # NoKey => Keyed(job[t].key) = {})
      BY <1>2, <2>1 DEF Stores, IInv, DecisionsStand, KeysAreStoredOnce, TypeOK, Job
    <3>2. CASE UNCHANGED table
      BY <3>2 DEF table
    <3>3. CASE ~UNCHANGED table
      <4>0. UNCHANGED deleted
        BY <2>1, <3>3 DEF Stores
      <4>1. PICK h \in Hole \ Rows : /\ rank' = [rank EXCEPT ![h] = job[t].rank]
                                     /\ key' = [key EXCEPT ![h] = job[t].key]
        BY Zenon, <2>1, <3>3 DEF Stores
      <4>2. Table!Rows = Rows /\ Table!Live = Live
        BY DEF Table!Rows, Table!Live, Rows, Live
      <4>3. job[t].key # NoKey => \A g \in Rows : key[g] # job[t].key
        BY <3>1 DEF Keyed
      <4>4. Cardinality(Live) = Table!Cardinality(Live)
        BY DEF Cardinality, Table!Cardinality, IsFiniteSet, Table!IsFiniteSet
      <4>5. rank' = [rank EXCEPT ![h] = Table!Cardinality(Live) + 1]
        BY <3>1, <4>1, <4>4
      <4>6. Table!Add(h, job[t].key)
        BY Zenon, <4>0, <4>1, <4>2, <4>3, <4>5 DEF Table!Add
      <4> QED BY <3>1, <4>1, <4>6 DEF Table!Next
    <3> QED BY <3>2, <3>3
  <2>2. ASSUME NEW t \in Thread, Removes(t) PROVE Table!Next
    <3>1. job[t].hole \in Live /\ job[t].rank = rank[job[t].hole] /\ job[t].hole \in Hole
      BY <1>2, <2>2 DEF Removes, IInv, DecisionsStand, Live, Rows
    <3>2. Table!Remove(job[t].hole)
      BY <2>2, <3>1 DEF Removes, MovedUp, Table!Remove, Table!Live, Table!Rows, Live, Rows
    <3> QED BY <3>1, <3>2 DEF Table!Next
  <2>3. CASE DeletesSession
    BY <2>3 DEF DeletesSession, Table!Next, Table!Clear
  <2> QED
    <3>1. \/ UNCHANGED <<rank, key, deleted>>
          \/ \E t \in Thread : Stores(t) \/ Removes(t)
          \/ DeletesSession
      BY <1>2 DEF Next, vars, table, Handles, Requests, Report, Delete, Locks, FindsStored, Counts,
                  Responds, Finds, ChangesStatus
    <3> QED BY <2>1, <2>2, <2>3, <3>1
<1> QED BY Inductive, <1>1, <1>2, PTL DEF Spec, ChangesAreAtomic, Table!Spec, Table!vars
=============================================================================
