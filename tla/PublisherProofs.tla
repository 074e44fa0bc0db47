-------------------------- MODULE PublisherProofs --------------------------
(***************************************************************************)
(* Proofs about Publisher, for any number of values, attempts and rows:    *)
(* nothing published is skipped, and what was posted keeps its place.  The *)
(* backend is the one BulletHolesProofs is about, so its invariant is used *)
(* and its lemmas are cited here, with a POST for each of its requests.    *)
(***************************************************************************)
EXTENDS Publisher, FiniteSetTheorems, TLAPS

Proved == INSTANCE BulletHolesProofs WITH Thread <- Post, Key <- Value

Rows == Proved!Rows
Live == Proved!Live

(* The queue holds what was published and not yet taken, in its order, and *)
(* the sentinel once the Run left.                                         *)
InOrder ==
    /\ published \in 0..MaxValues /\ queue \in Seq(Nat)
    /\ main \in {"in", "draining", "stopping", "left"}
    /\ at \in {"get", "try", "posting", "wait", "done"}
    /\ at = "done" => main # "in"
    /\ at # "done" =>
        /\ value \in 0..published
        /\ Len(queue) = published - value + (IF main = "in" THEN 0 ELSE 1)
        /\ \A i \in 1..published - value : queue[i] = value + i
        /\ main # "in" => queue[Len(queue)] = Sentinel
    /\ at \in {"try", "posting", "wait"} => value # 0 /\ attempt \in 1..Attempts
    /\ at = "wait" => attempt < Attempts

(* Every value taken is settled, but the one the worker is at. *)
Settled ==
    /\ outcome \in [Value -> {"none", "posted", "refused", "failed", "undrained"}]
    /\ at = "done" => \A v \in 1..published : outcome[v] # "none"
    /\ at # "done" => \A v \in 1..value : v < value \/ at = "get" => outcome[v] # "none"
    /\ \A v \in Value : outcome[v] = "undrained" => stop

(* A value the Session holds, or held when it was deleted. *)
Held(v) == status = "gone" \/ \E h \in Rows : key[h] = v

(* Nothing of a value that was not taken yet has reached the backend, and  *)
(* what is said to be stored is.                                           *)
Told ==
    /\ status = "gone" => Rows = {}
    /\ \A p \in Post : pc[p] # "idle" =>
        job[p].source = "model" /\ job[p].key = p[1] /\ pc[p] # "remove"
    /\ \A p \in Post : pc[p] = "respond" =>
        status = "gone" \/ (job[p].hole \in Rows /\ key[job[p].hole] = p[1])
    /\ \A p \in Post : answer[p] = "201" => Held(p[1])
    /\ \A v \in Value : outcome[v] = "posted" => Held(v)
    /\ \A h \in Rows : key[h] \in Value
    /\ at # "done" => \A p \in Post : pc[p] # "idle" => p[1] <= value
    /\ at # "done" => \A h \in Rows : key[h] <= value

Ranked ==
    \A v, w \in Value : v < w /\ outcome[v] = "posted" =>
        \A g, h \in Live : key[g] = v /\ key[h] = w => rank[g] < rank[h]

IInv == InOrder /\ Settled /\ Proved!IInv /\ Told /\ Ranked
-----------------------------------------------------------------------------
(* The backend of Publisher is the one that was proved about. *)
LEMMA SameTable == Backend!Rows = Rows /\ Backend!Live = Live /\ Table!Live = Live
BY DEF Backend!Rows, Backend!Live, Proved!Rows, Proved!Live, Rows, Live, Table!Live, Table!Rows

LEMMA SameCount == ASSUME NEW S PROVE Backend!Cardinality(S) = Proved!Cardinality(S)
BY DEF Backend!Cardinality, Proved!Cardinality, Backend!IsFiniteSet, Proved!IsFiniteSet

LEMMA SameSteps ==
    ASSUME NEW p \in Post
    PROVE  /\ Backend!Report(p, "model", value) => Proved!Report(p, "model", value)
           /\ Backend!Locks(p) => Proved!Locks(p)
           /\ Backend!FindsStored(p) => Proved!FindsStored(p)
           /\ Backend!Counts(p) => Proved!Counts(p)
           /\ Backend!Stores(p) => Proved!Stores(p)
           /\ Backend!Responds(p) => Proved!Responds(p)
           /\ Backend!Finds(p) => Proved!Finds(p)
           /\ Backend!Removes(p) => Proved!Removes(p)
<1> USE DEF Backend!Rows, Proved!Rows, Backend!Live, Proved!Live, Backend!Keyed, Proved!Keyed,
            Backend!Goto, Proved!Goto, Backend!Answer, Proved!Answer, Backend!NoJob, Proved!NoJob,
            Backend!table, Proved!table
<1>1. Backend!Report(p, "model", value) => Proved!Report(p, "model", value)
  BY DEF Backend!Report, Proved!Report
<1>2. Backend!Locks(p) => Proved!Locks(p)
  BY DEF Backend!Locks, Proved!Locks, Backend!Refused, Proved!Refused, Backend!RowLeft, Proved!RowLeft
<1>3. Backend!FindsStored(p) => Proved!FindsStored(p)
  BY DEF Backend!FindsStored, Proved!FindsStored, Backend!Stored, Proved!Stored
<1>4. Backend!Counts(p) => Proved!Counts(p)
  BY SameCount DEF Backend!Counts, Proved!Counts, Backend!Stored, Proved!Stored
<1>5. Backend!Stores(p) => Proved!Stores(p)
  BY DEF Backend!Stores, Proved!Stores
<1>6. Backend!Responds(p) => Proved!Responds(p)
  BY DEF Backend!Responds, Proved!Responds
<1>7. Backend!Finds(p) => Proved!Finds(p)
  BY DEF Backend!Finds, Proved!Finds
<1>8. Backend!Removes(p) => Proved!Removes(p)
  BY DEF Backend!Removes, Proved!Removes, Backend!MovedUp, Proved!MovedUp
<1> QED BY Zenon, <1>1, <1>2, <1>3, <1>4, <1>5, <1>6, <1>7, <1>8

LEMMA SameSession ==
    /\ Backend!Init => Proved!Init
    /\ Backend!ChangesStatus => Proved!ChangesStatus
    /\ Backend!DeletesSession => Proved!DeletesSession
BY DEF Backend!Init, Proved!Init, Backend!ChangesStatus, Proved!ChangesStatus, Backend!DeletesSession,
       Proved!DeletesSession, Backend!table, Proved!table, Backend!NoJob, Proved!NoJob

-----------------------------------------------------------------------------
(* A Run that starts has published nothing, and stored nothing. *)
LEMMA InitEstablishes == Init => IInv
<1> SUFFICES ASSUME Init PROVE IInv OBVIOUS
<1>1. Proved!IInv BY SameSession, NoneAssumption, Proved!InitEstablishes DEF Init
<1>2. Rows = {} /\ Live = {}
  BY SameTable DEF Init, Backend!Init, Backend!Rows, Backend!Live
<1>3. InOrder /\ Settled BY SizesAssumption DEF Init, InOrder, Settled, Sentinel, Value
<1>4. Told BY <1>2 DEF Init, Backend!Init, Told, Held
<1>5. Ranked BY <1>2 DEF Ranked
<1> QED BY <1>1, <1>3, <1>4, <1>5 DEF IInv

(* The queue is first in, first out. *)
LEMMA InOrderPreserved == ASSUME IInv, [Next]_vars PROVE InOrder'
<1> USE SizesAssumption DEF IInv, InOrder
<1>1. CASE Publish
  <2>1. /\ main = "in" /\ published < MaxValues /\ published' = published + 1
        /\ queue' = Append(queue, published + 1) /\ UNCHANGED <<main, at, value, attempt>>
    BY <1>1 DEF Publish, worker
  <2>2. published' \in 0..MaxValues /\ queue' \in Seq(Nat) BY <2>1
  <2>3. at # "done" => /\ value \in 0..published' /\ Len(queue') = published' - value
                       /\ \A i \in 1..published' - value : queue'[i] = value + i
    BY <2>1
  <2> QED BY <2>1, <2>2, <2>3
<1>2. CASE Exit
  <2>1. /\ main = "in" /\ main' = "draining" /\ queue' = Append(queue, Sentinel)
        /\ UNCHANGED <<published, at, value, attempt>>
    BY <1>2 DEF Exit, worker
  <2>2. queue' \in Seq(Nat) BY <2>1 DEF Sentinel
  <2>3. at # "done" => /\ Len(queue') = published - value + 1
                       /\ \A i \in 1..published - value : queue'[i] = value + i
                       /\ queue'[Len(queue')] = Sentinel
    BY <2>1 DEF Sentinel
  <2> QED BY <2>1, <2>2, <2>3
<1>3. CASE DrainTimesOut \/ Leaves
  <2>1. main # "in" /\ main' \in {"stopping", "left"} /\ UNCHANGED <<queue, published, at, value, attempt>>
    BY <1>3 DEF DrainTimesOut, Leaves, worker
  <2> QED BY <2>1
<1>4. CASE Gets
  <2>1. /\ at = "get" /\ queue # <<>> /\ queue' = Tail(queue) /\ value' = Head(queue)
        /\ \/ Head(queue) = Sentinel /\ at' = "done"
           \/ Head(queue) # Sentinel /\ at' = "try" /\ attempt' = 1
        /\ UNCHANGED <<published, main>>
    BY <1>4 DEF Gets
  <2>2. queue' \in Seq(Nat) /\ Len(queue') = Len(queue) - 1 /\ Head(queue) = queue[1]
        /\ \A i \in 1..Len(queue') : queue'[i] = queue[i + 1]
    BY <2>1
  <2>3. CASE value < published
    <3>1. value' = value + 1 /\ at' = "try" /\ attempt' = 1 BY <2>1, <2>2, <2>3 DEF Sentinel
    <3>2. /\ value' \in 0..published /\ value' # 0
          /\ Len(queue') = published - value' + (IF main = "in" THEN 0 ELSE 1)
      BY <2>1, <2>2, <2>3, <3>1
    <3>3. ASSUME NEW i \in 1..published - value' PROVE queue'[i] = value' + i
      <4>1. i + 1 \in 1..published - value /\ i \in 1..Len(queue') BY <2>1, <2>2, <2>3, <3>1
      <4>2. queue[i + 1] = value + (i + 1) BY <2>1, <4>1
      <4> QED BY <2>1, <2>2, <3>1, <4>1, <4>2
    <3>4. main # "in" => queue'[Len(queue')] = Sentinel BY <2>1, <2>2, <2>3, <3>1
    <3> QED BY <2>1, <2>2, <3>1, <3>2, <3>3, <3>4
  <2>4. CASE value = published
    <3>1. main # "in" /\ Len(queue) = 1 BY <2>1, <2>4
    <3>2. at' = "done" BY <2>1, <2>2, <3>1
    <3> QED BY <2>1, <2>2, <3>1, <3>2
  <2>5. value < published \/ value = published BY <2>1
  <2> QED BY <2>3, <2>4, <2>5
<1>5. CASE Drops \/ Tries \/ Answered
  BY <1>5 DEF Drops, Tries, Answered, Settles
<1>6. CASE Fails BY <1>6 DEF Fails, Settles
<1>7. CASE Waits BY <1>7 DEF Waits
<1>8. CASE BackendSteps \/ Over \/ UNCHANGED vars
  BY <1>8 DEF BackendSteps, Over, vars, worker
<1> QED BY <1>1, <1>2, <1>3, <1>4, <1>5, <1>6, <1>7, <1>8 DEF Next, WorkerSteps

(* The worker settles the value it is at before it takes the next. *)
LEMMA SettledPreserved == ASSUME IInv, [Next]_vars PROVE Settled'
<1> USE SizesAssumption DEF IInv, InOrder, Settled, Value
<1>1. CASE Publish BY <1>1 DEF Publish, worker
<1>2. CASE Exit \/ Leaves \/ DrainTimesOut BY <1>2 DEF Exit, Leaves, DrainTimesOut, worker
<1>3. CASE Gets
  <2>1. /\ at = "get" /\ queue # <<>> /\ value' = Head(queue)
        /\ \/ Head(queue) = Sentinel /\ at' = "done"
           \/ Head(queue) # Sentinel /\ at' = "try"
        /\ UNCHANGED <<published, stop, outcome>>
    BY <1>3 DEF Gets
  <2>2. Head(queue) = queue[1] /\ Len(queue) > 0 BY <2>1
  <2>3. CASE value < published
    <3>1. value' = value + 1 /\ at' = "try" BY <2>1, <2>2, <2>3 DEF Sentinel
    <3> QED BY <2>1, <3>1
  <2>4. CASE value = published
    <3>1. main # "in" /\ Len(queue) = 1 BY <2>1, <2>2, <2>4
    <3>2. at' = "done" BY <2>1, <2>2, <3>1
    <3> QED BY <2>1, <2>4, <3>2
  <2> QED BY <2>1, <2>3, <2>4
<1>4. CASE Drops BY <1>4 DEF Drops, Settles
<1>5. CASE Tries \/ Waits BY <1>5 DEF Tries, Waits
<1>9. ASSUME NEW result \in {"posted", "refused", "failed"}, at = "posting", Settles(result),
             UNCHANGED <<published, stop, value>>
      PROVE  Settled'
  <2>1. value \in Value /\ outcome' = [outcome EXCEPT ![value] = result] /\ at' = "get"
    BY <1>9 DEF Settles
  <2>2. \A v \in Value : outcome'[v] = IF v = value THEN result ELSE outcome[v] BY <2>1
  <2> QED BY <1>9, <2>1, <2>2
<1>6. CASE Answered BY <1>6, <1>9 DEF Answered
<1>7. CASE Fails
  <2>1. CASE Settles("failed") BY <1>7, <1>9, <2>1 DEF Fails
  <2>2. CASE at' = "wait" /\ UNCHANGED outcome BY <1>7, <2>2 DEF Fails
  <2> QED BY <1>7, <2>1, <2>2 DEF Fails
<1>8. CASE BackendSteps \/ Over \/ UNCHANGED vars
  BY <1>8 DEF BackendSteps, Over, vars, worker
<1> QED BY <1>1, <1>2, <1>3, <1>4, <1>5, <1>6, <1>7, <1>8 DEF Next, WorkerSteps

-----------------------------------------------------------------------------
LEMMA CountIsSame ==
    ASSUME NEW S
    PROVE  Proved!Cardinality(S) = Cardinality(S) /\ Proved!IsFiniteSet(S) = IsFiniteSet(S)
BY DEF Cardinality, Proved!Cardinality, IsFiniteSet, Proved!IsFiniteSet

(* What the operator deletes leaves the others in their order. *)
LEMMA OperatorDeleted ==
    ASSUME Proved!IInv, NEW b \in Hole, OperatorDeletes(b)
    PROVE  /\ Proved!IInv'
           /\ Rows' = Rows /\ Live' = Live \ {b} /\ UNCHANGED <<status, key, pc, job, answer>>
           /\ \A g, h \in Live' : rank[g] < rank[h] => rank'[g] < rank'[h]
<1> USE NoneAssumption
<1> PICK n : n = Cardinality(Live) OBVIOUS
<1>1. /\ lock = NoThread /\ b \in Live /\ deleted' = deleted \cup {b}
      /\ rank' = [g \in Hole |-> IF g \in Live /\ rank[g] > rank[b] THEN rank[g] - 1 ELSE rank[g]]
      /\ UNCHANGED <<status, key, lock, pc, job, answer>>
  BY SameTable DEF OperatorDeletes, Table!Remove
<1>2. /\ rank \in [Hole -> Nat] /\ IsFiniteSet(Live) /\ n \in Nat
      /\ \A h \in Live : rank[h] \in 1..n
      /\ \A g, h \in Live : rank[g] = rank[h] => g = h
  BY CountIsSame, FS_CardinalityType
     DEF Proved!IInv, Proved!TypeOK, Proved!RowsAreRows, Proved!RanksAreDense, Live
<1>3. rank' = Proved!MovedUp(rank[b]) BY <1>1 DEF Proved!MovedUp, Live
<1>4. /\ rank' \in [Hole -> Nat] /\ \A h \in Hole : rank'[h] = 0 <=> rank[h] = 0
      /\ \A h \in Live \ {b} : rank'[h] \in 1..(n - 1)
      /\ \A g, h \in Live \ {b} : rank'[g] = rank'[h] => g = h
      /\ \A g, h \in Live \ {b} : rank[g] < rank[h] => rank'[g] < rank'[h]
  BY <1>1, <1>2, <1>3, Proved!GapCloses DEF Live
<1>5. Rows' = Rows /\ Live' = Live \ {b}
  BY <1>1, <1>4 DEF Rows, Live, Proved!Rows, Proved!Live
<1>6. IsFiniteSet(Live') /\ Cardinality(Live') = n - 1
  BY <1>1, <1>2, <1>5, FS_RemoveElement
<1>7. Proved!TypeOK' BY <1>1, <1>4 DEF Proved!IInv, Proved!TypeOK, Proved!Job, Live, Proved!Live, Proved!Rows
<1>8. \A t \in Post : pc[t] \notin {"check", "store", "remove"}
  BY <1>1 DEF Proved!IInv, Proved!ReadersLock
<1>9. Proved!ReadersLock' /\ Proved!DecisionsStand'
  BY <1>1, <1>8 DEF Proved!ReadersLock, Proved!DecisionsStand
<1>10. Proved!RowsAreRows'
  <2>1. deleted' \subseteq Rows' BY <1>1, <1>5 DEF Proved!IInv, Proved!RowsAreRows, Live, Rows, Proved!Live
  <2> QED BY <1>6, <2>1, CountIsSame DEF Proved!RowsAreRows, Rows, Live
<1>11. Proved!RanksAreDense'
  <2>1. /\ \A h \in Live' : rank'[h] \in 1..Cardinality(Live')
        /\ \A g, h \in Live' : rank'[g] = rank'[h] => g = h
    BY <1>4, <1>5, <1>6
  <2> QED BY <2>1, CountIsSame DEF Proved!RanksAreDense, Live
<1>12. Proved!KeysAreStoredOnce'
  BY <1>1, <1>5, <1>8 DEF Proved!IInv, Proved!KeysAreStoredOnce, Rows
<1>13. Proved!IInv' BY <1>7, <1>9, <1>10, <1>11, <1>12 DEF Proved!IInv
<1> QED BY <1>1, <1>4, <1>5, <1>13

LEMMA BackendStays == ASSUME Proved!IInv, UNCHANGED backend PROVE Proved!IInv'
BY DEF backend, Proved!IInv, Proved!TypeOK, Proved!ReadersLock, Proved!DecisionsStand,
       Proved!RowsAreRows, Proved!RanksAreDense, Proved!KeysAreStoredOnce, Proved!Rows, Proved!Live,
       Proved!Keyed

(* The POST that the worker makes. *)
LEMMA TryReports ==
    ASSUME IInv, Tries, ~UNCHANGED backend
    PROVE  <<value, attempt>> \in Post /\ Proved!Report(<<value, attempt>>, "model", value)
           /\ value \in Value
<1>1. value \in Value /\ attempt \in 1..Attempts BY SizesAssumption DEF IInv, InOrder, Value, Tries
<1>2. <<value, attempt>> \in Post BY <1>1 DEF Post
<1>3. Backend!Report(<<value, attempt>>, "model", value) BY Zenon DEF Tries
<1> QED BY Zenon, <1>1, <1>2, <1>3, SameSteps

LEMMA BackendPreserved == ASSUME IInv, [Next]_vars PROVE Proved!IInv'
<1> USE NoneAssumption
<1>0. Proved!IInv BY DEF IInv
<1>1. CASE UNCHANGED backend BY <1>0, <1>1, BackendStays
<1>2. CASE Tries /\ ~UNCHANGED backend
  <2>1. Proved!Requests(<<value, attempt>>) /\ <<value, attempt>> \in Post
    BY Zenon, <1>2, TryReports DEF Proved!Requests
  <2> QED BY <1>0, <2>1, Proved!ReadsPreserve
<1>3. ASSUME NEW p \in Post, Backend!Handles(p) PROVE Proved!IInv'
  <2>1. \/ Proved!Locks(p) \/ Proved!FindsStored(p) \/ Proved!Counts(p) \/ Proved!Responds(p)
        \/ Proved!Finds(p)
        \/ Proved!Stores(p) \/ Proved!Removes(p)
    BY Zenon, <1>3, SameSteps DEF Backend!Handles
  <2> QED BY <1>0, <2>1, Proved!ReadsPreserve, Proved!StoresPreserves, Proved!RemovesPreserves
<1>4. ASSUME NEW b \in Hole, OperatorDeletes(b) PROVE Proved!IInv' BY <1>0, <1>4, OperatorDeleted
<1>5. CASE Backend!ChangesStatus \/ Backend!DeletesSession
  BY <1>0, <1>5, SameSession, Proved!SessionPreserves
<1>6. CASE BackendSteps BY <1>3, <1>4, <1>5, <1>6 DEF BackendSteps
<1> QED BY <1>1, <1>2, <1>6 DEF Next, WorkerSteps, Publish, Exit, DrainTimesOut, Leaves, Gets, Drops,
                               Answered, Fails, Waits, Over, vars

-----------------------------------------------------------------------------
(* The table as it stays while no row is stored, deleted or taken away. *)
LEMMA TableStays ==
    ASSUME UNCHANGED <<status, rank, key, deleted>>
    PROVE  Rows' = Rows /\ Live' = Live /\ \A v : Held(v)' <=> Held(v)
<1>1. Rows' = Rows /\ Live' = Live BY DEF Rows, Live, Proved!Rows, Proved!Live
<1> QED BY <1>1 DEF Held

LEMMA LiveRows == Live \subseteq Rows /\ Rows \subseteq Hole
BY DEF Live, Rows, Proved!Live, Proved!Rows

(* The worker and the Run's thread: a value is posted on the word of the   *)
(* backend, before any later one has reached it.                           *)
LEMMA WorkerTells ==
    ASSUME IInv, [Next]_vars, UNCHANGED backend PROVE Told' /\ Ranked'
<1>0. UNCHANGED <<status, rank, key, deleted, pc, job, answer>> BY DEF backend
<1>1. Rows' = Rows /\ Live' = Live /\ \A v : Held(v)' <=> Held(v) BY <1>0, TableStays
<1>2. \A v \in Value : outcome'[v] = "posted" =>
        \/ outcome[v] = "posted"
        \/ at # "done" /\ v = value /\ Held(v)
  <2>1. CASE Answered
    <3>1. at = "posting" /\ value \in Value /\ attempt \in 1..Attempts
      BY <2>1, SizesAssumption DEF Answered, IInv, InOrder, Value
    <3> PICK p : p = <<value, attempt>> OBVIOUS
    <3>2. p \in Post /\ p[1] = value BY <3>1 DEF Post
    <3>3. answer[p] = "201" => Held(value) BY <3>2 DEF IInv, Told
    <3>4. \/ answer[p] = "201" /\ outcome' = [outcome EXCEPT ![value] = "posted"]
          \/ outcome' = [outcome EXCEPT ![value] = "refused"]
      BY <2>1 DEF Answered, Settles
    <3> QED BY <3>1, <3>3, <3>4 DEF IInv, Settled
  <2>2. CASE Drops \/ Fails
    BY <2>2 DEF Drops, Fails, Settles, IInv, Settled
  <2>3. CASE ~Answered /\ ~Drops /\ ~Fails
    <3>1. outcome' = outcome
      BY <2>3 DEF Next, Publish, Exit, DrainTimesOut, Leaves, WorkerSteps, Gets, Tries, Waits,
                  BackendSteps, Over, vars
    <3> QED BY <3>1
  <2> QED BY <2>1, <2>2, <2>3
<1>3. at' # "done" => at # "done" /\ (value' = value \/ value' = value + 1) /\ value \in Nat
  <2>1. CASE Gets
    <3>1. /\ at = "get" /\ queue # <<>> /\ value' = Head(queue)
          /\ Head(queue) = Sentinel => at' = "done"
      BY <2>1 DEF Gets
    <3>2. Head(queue) = queue[1] /\ Len(queue) > 0 BY <3>1 DEF IInv, InOrder
    <3>3. CASE value < published
      <4>1. queue[1] = value + 1 BY <3>1, <3>3, SizesAssumption DEF IInv, InOrder
      <4> QED BY <3>1, <3>2, <4>1 DEF IInv, InOrder
    <3>4. CASE value = published
      <4>1. Len(queue) = 1 /\ main # "in" BY <3>1, <3>2, <3>4, SizesAssumption DEF IInv, InOrder
      <4>2. Head(queue) = Sentinel BY <3>1, <3>2, <4>1 DEF IInv, InOrder
      <4> QED BY <3>1, <4>2
    <3>5. value < published \/ value = published BY <3>1, SizesAssumption DEF IInv, InOrder
    <3> QED BY <3>3, <3>4, <3>5
  <2>2. CASE ~Gets
    <3>1. value' = value /\ (at' # "done" => at # "done")
      BY <2>2 DEF Next, Publish, Exit, DrainTimesOut, Leaves, WorkerSteps, Drops, Tries, Answered,
                  Fails, Waits, Settles, BackendSteps, Over, vars, worker
    <3> QED BY <3>1 DEF IInv, InOrder
  <2> QED BY <2>1, <2>2
<1>4. Told'
  <2>1. at' # "done" => \A v \in Nat : v <= value => v <= value' BY <1>3
  <2>2. at' # "done" => \A p \in Post : pc[p] # "idle" => p[1] <= value'
    <3>1. \A p \in Post : p[1] \in Nat BY SizesAssumption DEF Post, Value
    <3> QED BY <1>3, <2>1, <3>1 DEF IInv, Told
  <2>3. at' # "done" => \A h \in Rows : key[h] <= value'
    BY <1>3, <2>1, SizesAssumption DEF IInv, Told, Value
  <2>4. \A v \in Value : outcome'[v] = "posted" => Held(v) BY <1>2 DEF IInv, Told
  <2> QED BY <1>0, <1>1, <2>2, <2>3, <2>4 DEF IInv, Told
<1>5. Ranked'
  <2> SUFFICES ASSUME NEW v \in Value, NEW w \in Value, v < w, outcome'[v] = "posted",
                      NEW g \in Live, NEW h \in Live, key[g] = v, key[h] = w
               PROVE  rank[g] < rank[h]
    BY <1>0, <1>1 DEF Ranked
  <2>1. CASE outcome[v] = "posted" BY <2>1 DEF IInv, Ranked
  <2>2. CASE at # "done" /\ v = value
    <3>1. key[h] <= value BY <2>2, LiveRows DEF IInv, Told
    <3> QED BY <2>2, <3>1, SizesAssumption DEF Value
  <2> QED BY <1>2, <2>1, <2>2
<1> QED BY <1>4, <1>5

(* A request that only reads, and the one that the worker makes. *)
LEMMA RankedStays ==
    ASSUME IInv, UNCHANGED <<status, rank, key, deleted, outcome>> PROVE Ranked'
<1>1. Live' = Live BY TableStays
<1> QED BY <1>1 DEF IInv, Ranked

LEMMA ReportTells ==
    ASSUME IInv, Tries, ~UNCHANGED backend PROVE Told' /\ Ranked'
<1> PICK p : p = <<value, attempt>> OBVIOUS
<1>1. p \in Post /\ Proved!Report(p, "model", value) /\ value \in Value /\ p[1] = value
  BY Zenon, TryReports DEF Post
<1>2. /\ job' = [job EXCEPT ![p] = [source |-> "model", key |-> value, hole |-> NoHole, rank |-> 0]]
      /\ pc' = [pc EXCEPT ![p] = "lock"] /\ answer' = [answer EXCEPT ![p] = "none"]
      /\ UNCHANGED <<status, rank, key, deleted>>
  BY <1>1 DEF Proved!Report, Proved!Goto, Proved!table
<1>3. UNCHANGED <<value, outcome>> /\ at # "done" BY DEF Tries
<1>4. Rows' = Rows /\ \A v : Held(v)' <=> Held(v) BY <1>2, TableStays
<1>5. \A q \in Post : /\ pc'[q] = IF q = p THEN "lock" ELSE pc[q]
                      /\ answer'[q] = IF q = p THEN "none" ELSE answer[q]
                      /\ q # p => job'[q] = job[q]
  <2>1. DOMAIN pc = Post /\ DOMAIN answer = Post /\ DOMAIN job = Post
    BY DEF IInv, Proved!IInv, Proved!TypeOK
  <2> QED BY <1>2, <2>1
<1>6. job'[p].source = "model" /\ job'[p].key = value
  BY <1>1, <1>2 DEF IInv, Proved!IInv, Proved!TypeOK
<1>7. value <= value BY <1>1, SizesAssumption DEF Value
<1>8. Told' BY <1>1, <1>2, <1>3, <1>4, <1>5, <1>6, <1>7 DEF IInv, Told
<1> QED BY <1>2, <1>3, <1>8, RankedStays

LEMMA ReadTells ==
    ASSUME IInv, NEW p \in Post, UNCHANGED <<at, value, outcome>>,
           Proved!Locks(p) \/ Proved!FindsStored(p) \/ Proved!Counts(p) \/ Proved!Responds(p)
    PROVE  Told' /\ Ranked'
<1> USE DEF Proved!Answer, Proved!Goto, Proved!table
<1>0. /\ DOMAIN pc = Post /\ DOMAIN answer = Post /\ job \in [Post -> Proved!Job]
      /\ pc[p] # "idle" /\ (status # "gone" \/ Rows = {})
  BY DEF IInv, Told, Proved!IInv, Proved!TypeOK, Proved!Locks, Proved!FindsStored, Proved!Counts,
         Proved!Responds
<1>1. UNCHANGED <<status, rank, key, deleted>>
  BY DEF Proved!Locks, Proved!FindsStored, Proved!Counts, Proved!Responds
<1>2. Rows' = Rows /\ \A v : Held(v)' <=> Held(v) BY <1>1, TableStays
<1>3. \A q \in Post \ {p} : pc'[q] = pc[q] /\ answer'[q] = answer[q] /\ job'[q] = job[q]
  BY <1>0 DEF Proved!Locks, Proved!FindsStored, Proved!Counts, Proved!Responds
<1>4. job[p].source = "model" /\ job[p].key = p[1] BY <1>0 DEF IInv, Told
<1>5. /\ pc'[p] # "idle" => job'[p].source = "model" /\ job'[p].key = p[1] /\ pc'[p] # "remove"
      /\ pc'[p] = "respond" => job'[p].hole \in Rows /\ key[job'[p].hole] = p[1]
      /\ answer'[p] = "201" => answer[p] = "201" \/ Held(p[1])
  <2>1. CASE Proved!Locks(p)
    BY <1>0, <1>4, <2>1 DEF Proved!Locks
  <2>2. CASE Proved!FindsStored(p)
    <3>1. PICK h \in Proved!Stored(job[p].key) : job' = [job EXCEPT ![p].hole = h]
      BY <2>2 DEF Proved!FindsStored
    <3>2. h \in Rows /\ key[h] = p[1] BY <1>4, <3>1 DEF Proved!Stored, Proved!Keyed, Rows
    <3>3. job'[p].source = "model" /\ job'[p].key = p[1] /\ job'[p].hole = h
      BY <1>0, <1>4, <3>1 DEF Proved!Job
    <3> QED BY <1>0, <2>2, <3>2, <3>3 DEF Proved!FindsStored
  <2>3. CASE Proved!Counts(p)
    <3>1. PICK c : job' = [job EXCEPT ![p].rank = c] BY <2>3 DEF Proved!Counts
    <3>2. job'[p].source = "model" /\ job'[p].key = p[1] BY <1>0, <1>4, <3>1 DEF Proved!Job
    <3> QED BY <1>0, <2>3, <3>2 DEF Proved!Counts
  <2>4. CASE Proved!Responds(p)
    <3>1. pc[p] = "respond" /\ pc'[p] = "idle"
          /\ answer'[p] = IF job[p].hole \in Rows THEN "201" ELSE "500"
      BY <1>0, <2>4 DEF Proved!Responds, Rows
    <3>2. job[p].hole \in Rows => Held(p[1]) BY <1>0, <3>1 DEF IInv, Told, Held
    <3> QED BY <3>1, <3>2
  <2> QED BY <2>1, <2>2, <2>3, <2>4
<1>6. Told' BY <1>0, <1>1, <1>2, <1>3, <1>5 DEF IInv, Told
<1> QED BY <1>1, <1>6, RankedStays

(* A row stored is the last one: it follows every value posted before. *)
LEMMA StoreTells ==
    ASSUME IInv, NEW p \in Post, UNCHANGED <<at, value, outcome>>, Proved!Stores(p)
    PROVE  Told' /\ Ranked'
<1> USE DEF Proved!Answer, Proved!Goto, Proved!table
<1>1. /\ pc[p] = "store" /\ job[p].source = "model" /\ job[p].key = p[1] /\ p[1] \in Value
      /\ status = "active"
  <2>1. p[1] \in Value BY DEF Post
  <2> QED BY <2>1 DEF IInv, Told, Proved!IInv, Proved!DecisionsStand, Proved!Stores
<1>2. \A h \in Rows : key[h] # p[1]
  <2>1. p[1] # NoKey BY <1>1, NoneAssumption
  <2> QED BY <1>1, <2>1 DEF IInv, Proved!IInv, Proved!KeysAreStoredOnce, Proved!Keyed, Rows
<1>3. PICK b \in Hole \ Rows :
        /\ rank' = [rank EXCEPT ![b] = job[p].rank] /\ key' = [key EXCEPT ![b] = job[p].key]
        /\ job' = [job EXCEPT ![p].hole = b] /\ pc' = [pc EXCEPT ![p] = "respond"]
        /\ UNCHANGED <<deleted, answer, status>>
  BY <1>1, <1>2 DEF Proved!Stores, Proved!Keyed, Rows
<1> PICK n : n = Cardinality(Live) OBVIOUS
<1>4. /\ job[p].rank = n + 1 /\ n \in Nat /\ rank \in [Hole -> Nat]
      /\ \A h \in Live : rank[h] \in 1..n
  BY <1>1, CountIsSame, FS_CardinalityType
     DEF IInv, Proved!IInv, Proved!TypeOK, Proved!DecisionsStand, Proved!RowsAreRows,
         Proved!RanksAreDense, Live
<1>5. \A h \in Hole : /\ rank'[h] = IF h = b THEN n + 1 ELSE rank[h]
                      /\ key'[h] = IF h = b THEN p[1] ELSE key[h]
  BY <1>1, <1>3, <1>4 DEF IInv, Proved!IInv, Proved!TypeOK
<1>6. Rows' = Rows \cup {b} /\ Live' \subseteq Live \cup {b} /\ Live \subseteq Hole /\ b \notin Live
  <2>1. Live \subseteq Hole /\ b \notin Live BY <1>3, LiveRows
  <2>2. n + 1 # 0 BY <1>4
  <2>3. Rows' = Rows \cup {b} BY <1>3, <1>5, <2>2 DEF Rows, Proved!Rows
  <2>4. Live' = Rows' \ deleted' /\ Live = Rows \ deleted BY DEF Live, Rows, Proved!Live
  <2> QED BY <1>3, <2>1, <2>3, <2>4
<1>7. \A q \in Post : pc'[q] = IF q = p THEN "respond" ELSE pc[q]
  BY <1>3 DEF IInv, Proved!IInv, Proved!TypeOK
<1>8. /\ \A q \in Post : q # p => job'[q] = job[q]
      /\ job'[p].source = "model" /\ job'[p].key = p[1] /\ job'[p].hole = b
  BY <1>1, <1>3 DEF IInv, Proved!IInv, Proved!TypeOK, Proved!Job
<1>9. \A h \in Rows : h \in Hole /\ h # b /\ key'[h] = key[h] BY <1>3, <1>5, LiveRows
<1>10. key'[b] = p[1] /\ b \in Rows' BY <1>3, <1>5, <1>6
<1>11. \A v : Held(v) => Held(v)' BY <1>3, <1>6, <1>9 DEF Held
<1>12. Told'
  <2>1. \A q \in Post : pc'[q] # "idle" =>
          job'[q].source = "model" /\ job'[q].key = q[1] /\ pc'[q] # "remove"
    BY <1>7, <1>8 DEF IInv, Told
  <2>2. \A q \in Post : pc'[q] = "respond" => job'[q].hole \in Rows' /\ key'[job'[q].hole] = q[1]
    BY <1>1, <1>6, <1>7, <1>8, <1>9, <1>10 DEF IInv, Told
  <2>3. \A h \in Rows' : key'[h] \in Value BY <1>1, <1>6, <1>9, <1>10 DEF IInv, Told
  <2>4. at # "done" => \A h \in Rows' : key'[h] <= value
    BY <1>1, <1>6, <1>9, <1>10 DEF IInv, Told
  <2>5. at # "done" => \A q \in Post : pc'[q] # "idle" => q[1] <= value
    BY <1>1, <1>7 DEF IInv, Told
  <2> QED BY <1>1, <1>3, <1>11, <2>1, <2>2, <2>3, <2>4, <2>5 DEF IInv, Told
<1>13. Ranked'
  <2> SUFFICES ASSUME NEW v \in Value, NEW w \in Value, v < w, outcome[v] = "posted",
                      NEW g \in Live', NEW h \in Live', key'[g] = v, key'[h] = w
               PROVE  rank'[g] < rank'[h]
    BY DEF Ranked
  <2>1. PICK f \in Rows : key[f] = v BY <1>1 DEF IInv, Told, Held
  <2>2. g # b BY <1>2, <1>10, <2>1
  <2>3. g \in Live /\ g \in Hole /\ rank'[g] = rank[g] /\ key[g] = v BY <1>5, <1>6, <2>2
  <2>4. CASE h = b BY <1>4, <1>5, <2>3, <2>4
  <2>5. CASE h # b
    <3>1. h \in Live /\ rank'[h] = rank[h] /\ key[h] = w BY <1>5, <1>6, <2>5
    <3> QED BY <2>3, <3>1 DEF IInv, Ranked
  <2> QED BY <2>4, <2>5
<1> QED BY <1>12, <1>13

(* What happens to the Session itself, and to the rows the operator        *)
(* deletes.                                                                *)
LEMMA SessionTells ==
    ASSUME IInv, UNCHANGED <<at, value, outcome>>,
           Proved!ChangesStatus \/ Proved!DeletesSession \/ \E b \in Hole : OperatorDeletes(b)
    PROVE  Told' /\ Ranked'
<1>1. CASE Proved!ChangesStatus
  <2>1. UNCHANGED <<rank, key, deleted, pc, job, answer>> /\ status # "gone" /\ status' # "gone"
    BY <1>1 DEF Proved!ChangesStatus, Proved!table
  <2>2. Rows' = Rows /\ Live' = Live BY <2>1 DEF Rows, Live, Proved!Rows, Proved!Live
  <2>3. \A v : Held(v)' <=> Held(v) BY <2>1, <2>2 DEF Held
  <2> QED BY <2>1, <2>2, <2>3 DEF IInv, Told, Ranked
<1>2. CASE Proved!DeletesSession
  <2>1. UNCHANGED <<pc, job, answer>> /\ status' = "gone" /\ rank' = [h \in Hole |-> 0]
    BY <1>2 DEF Proved!DeletesSession
  <2>2. Rows' = {} /\ Live' = {} BY <2>1 DEF Rows, Live, Proved!Rows, Proved!Live
  <2>3. \A v : Held(v)' BY <2>1 DEF Held
  <2> QED BY <2>1, <2>2, <2>3 DEF IInv, Told, Ranked
<1>3. ASSUME NEW b \in Hole, OperatorDeletes(b) PROVE Told' /\ Ranked'
  <2>0. Proved!IInv BY DEF IInv
  <2>1. /\ Rows' = Rows /\ Live' = Live \ {b} /\ UNCHANGED <<status, key, pc, job, answer>>
        /\ \A g, h \in Live' : rank[g] < rank[h] => rank'[g] < rank'[h]
    BY <1>3, <2>0, OperatorDeleted
  <2>2. \A v : Held(v)' <=> Held(v) BY <2>1 DEF Held
  <2> QED BY <2>1, <2>2 DEF IInv, Told, Ranked
<1> QED BY <1>1, <1>2, <1>3

LEMMA ToldPreserved == ASSUME IInv, [Next]_vars PROVE Told' /\ Ranked'
<1>1. CASE UNCHANGED backend BY <1>1, WorkerTells
<1>2. CASE Tries /\ ~UNCHANGED backend BY <1>2, ReportTells
<1>3. ASSUME NEW p \in Post, Backend!Handles(p), UNCHANGED <<at, value, outcome>>
      PROVE  Told' /\ Ranked'
  <2>1. \/ Proved!Locks(p) \/ Proved!FindsStored(p) \/ Proved!Counts(p) \/ Proved!Responds(p)
        \/ Proved!Stores(p) \/ Proved!Finds(p) \/ Proved!Removes(p)
    BY Zenon, <1>3, SameSteps DEF Backend!Handles
  <2>2. ~Proved!Finds(p) /\ ~Proved!Removes(p) BY DEF IInv, Told, Proved!Finds, Proved!Removes
  <2> QED BY <1>3, <2>1, <2>2, ReadTells, StoreTells
<1>4. CASE BackendSteps
  <2>1. UNCHANGED <<at, value, outcome>> BY <1>4 DEF BackendSteps, worker
  <2>2. \/ \E p \in Post : Backend!Handles(p)
        \/ \E b \in Hole : OperatorDeletes(b)
        \/ Proved!ChangesStatus \/ Proved!DeletesSession
    BY Zenon, <1>4, SameSession DEF BackendSteps
  <2> QED BY <1>3, <2>1, <2>2, SessionTells
<1> QED BY <1>1, <1>2, <1>4 DEF Next, WorkerSteps, Publish, Exit, DrainTimesOut, Leaves, Gets, Drops,
                               Answered, Fails, Waits, Over, vars

-----------------------------------------------------------------------------
(* The queue, the worker's log and the backend keep their invariant, every *)
(* attempt that was given up on and still runs included.                   *)
THEOREM Inductive == Spec => []IInv
<1>1. IInv /\ [Next]_vars => IInv'
  BY InOrderPreserved, SettledPreserved, BackendPreserved, ToldPreserved DEF IInv
<1> QED BY <1>1, InitEstablishes, PTL DEF Spec

(* _run: the worker passes the sentinel only when every value that publish *)
(* was given is settled, and gives one up untried only on _stop.           *)
THEOREM NoneIsSkipped == Spec => []NothingSkipped
<1>1. IInv => NothingSkipped
  BY SizesAssumption DEF IInv, InOrder, Settled, NothingSkipped, Value
<1> QED BY <1>1, Inductive, PTL

(* _post with create_bullet: a value answered 201 is ranked before every   *)
(* later value, for any number of attempts still running in the backend,   *)
(* and whatever the operator deletes meanwhile.                            *)
THEOREM OrderIsPublished == Spec => []StoredInOrder
<1>1. IInv => StoredInOrder BY SameTable DEF IInv, Ranked, StoredInOrder
<1> QED BY <1>1, Inductive, PTL
=============================================================================
