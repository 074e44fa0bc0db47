------------------------- MODULE SessionLiveProofs -------------------------
(***************************************************************************)
(* Proofs about SessionLive, for any number of Bullet Holes, keys and      *)
(* requests and any size of the hub's queue: a quiet window misses no      *)
(* Bullet Hole and no change of status.  Then about PacketPipe, the other  *)
(* queue a reader waits at the end of: what may become of a captured       *)
(* packet in it.                                                           *)
(***************************************************************************)
EXTENDS SessionLive, PacketPipe, FiniteSetTheorems, SequenceTheorems, TLAPS

Live == Rowset!Live
Rows == Rowset!Rows

(* A bullet_created of some rank: no row is stored with rank 0. *)
Created(h) == [type : {"bullet_created"}, hole : {h}, rank : Nat \ {0}]

Sent ==
    [type : {"bullet_created"}, hole : Hole, rank : Nat \ {0}]
    \cup [type : {"bullet_deleted"}, hole : Hole]
    \cup [type : {"session_updated"}, status : {"active", "completed"}]
    \cup [type : {"run_moved"}]

(* What is sent says which row, and there are finitely many rows. *)
EventsAreSent ==
    /\ pending \subseteq Sent /\ queue \in Seq(Sent \cup {End})
    /\ IsFiniteSet(pending) /\ IsFiniteSet(Live)

(* A hook that runs has a copy to patch, and a fetch that read has one. *)
CopiesAreThere ==
    /\ stream # "off" => view \in Copy
    /\ fetch = "read" => snapshot \in Copy

(* A stream that has its queue no more is about to end. *)
CutOffEnds == stream \in {"answered", "open"} => subscribed \/ queue = <<End>>

(* A fetch in flight under an open stream is tried again if it fails. *)
FetchIsKept == stream = "open" /\ fetch # "none" => awaited

(* What will bring a row into the window, or has. *)
Announced(h) == (\E e \in Created(h) : e \in pending) \/ \E i \in 1..Len(queue) : queue[i] \in Created(h)

Fetched(h) ==
    \/ timer \/ fetch = "asked"
    \/ fetch = "read" /\ snapshot.rank[h] # 0
    \/ fetch = "none" /\ view.rank[h] # 0

(* Every Bullet Hole is shown, or will be, while the stream is open and the *)
(* hub has its queue.                                                       *)
Tracked == stream = "open" /\ subscribed => \A h \in Live : Announced(h) \/ Fetched(h)

(* So is the Session's status: a change of it is to come, or was fetched. *)
Updated == [type : {"session_updated"}, status : {"active", "completed"}]

Told == (\E e \in Updated : e \in pending) \/ \E i \in 1..Len(queue) : queue[i] \in Updated

StatusFetched ==
    \/ timer \/ fetch = "asked"
    \/ fetch = "read" /\ snapshot.status = status
    \/ fetch = "none" /\ view.status = status

StatusTracked == stream = "open" /\ subscribed => Told \/ StatusFetched

IInv ==
    /\ TypeOK /\ EventsAreSent /\ CopiesAreThere /\ CutOffEnds /\ FetchIsKept
    /\ Tracked /\ StatusTracked
-----------------------------------------------------------------------------
(* What is sent is an event. *)
LEMMA SentIsEvent == Sent \subseteq Event
BY DEF Sent, Event

(* A page just opened has asked for its Session. *)
LEMMA InitEstablishes == Init => IInv
<1> SUFFICES ASSUME Init PROVE IInv
  OBVIOUS
<1>1. Live = {} BY DEF Init, Rowset!Init, Live, Rowset!Live, Rowset!Rows
<1>2. Cardinality(pending) = 0 /\ IsFiniteSet(pending) /\ IsFiniteSet(Live)
  BY <1>1, FS_EmptySet DEF Init
<1>3. TypeOK
  <2>1. rank \in [Hole -> Nat] /\ key \in [Hole -> Hole \cup {NoKey}] /\ deleted \subseteq Hole
    BY DEF Init, Rowset!Init
  <2>2. Cardinality(pending) <= MaxPending /\ Len(queue) <= QueueSize BY <1>2, SizeAssumption DEF Init
  <2>3. pending \subseteq Event /\ queue \in Seq(Event \cup {End}) BY DEF Init
  <2> QED BY <2>1, <2>2, <2>3 DEF Init, TypeOK
<1>4. EventsAreSent BY <1>2 DEF Init, EventsAreSent
<1> QED BY <1>3, <1>4 DEF Init, IInv, CopiesAreThere, CutOffEnds, FetchIsKept, Tracked, StatusTracked

(* What is said of the rows is kept while they are. *)
LEMMA RowsKept == UNCHANGED database => UNCHANGED <<status, rank, key, deleted, Live, Stored>>
BY DEF database, Live, Rowset!Live, Rowset!Rows, Stored

(* The stored Session is a copy, with a rank for every Bullet Hole. *)
LEMMA StoredIsCopy ==
    ASSUME IInv
    PROVE  Stored \in Copy /\ \A h \in Live : h \in Hole /\ rank[h] \in Nat \ {0} /\ Stored.rank[h] # 0
BY DEF IInv, TypeOK, Stored, Copy, Live, Rowset!Live, Rowset!Rows

(* A request is added to those that will publish. *)
LEMMA CommitsPreserves ==
    ASSUME IInv, NEW request, NEW event \in Sent, Commits(request, event),
           status' \in {"active", "completed"}, rank' \in [Hole -> Nat],
           key' \in [Hole -> Hole \cup {NoKey}], deleted' \subseteq Hole, IsFiniteSet(Live'),
           \A h \in Live' : h \in Live \/ event \in Created(h),
           status' = status \/ event \in Updated
    PROVE  IInv'
<1>1. /\ pending' = pending \cup {event} /\ Cardinality(pending) < MaxPending
      /\ UNCHANGED <<subscribed, queue, stream, view, fetch, snapshot, awaited, outcome, timer>>
  BY DEF Commits, hub, query
<1>2. IsFiniteSet(pending') /\ Cardinality(pending') <= MaxPending
  <2>1. Cardinality(pending) \in Nat BY FS_CardinalityType DEF IInv, EventsAreSent
  <2>2. IsFiniteSet(pending) BY DEF IInv, EventsAreSent
  <2> DEFINE c == Cardinality(pending)  d == Cardinality(pending \cup {event})
  <2>3. IsFiniteSet(pending \cup {event}) /\ d = IF event \in pending THEN c ELSE c + 1
    BY <2>2, FS_AddElement
  <2>4. d <= MaxPending
    <3> HIDE DEF c, d
    <3>1. c \in Nat /\ c < MaxPending BY <1>1, <2>1 DEF c
    <3> QED BY <2>3, <3>1, SizeAssumption
  <2> QED BY <1>1, <2>3, <2>4
<1>3. pending' \subseteq Sent /\ pending' \subseteq Event
  BY <1>1, SentIsEvent DEF IInv, EventsAreSent
<1>4. TypeOK' BY <1>1, <1>2, <1>3 DEF IInv, TypeOK
<1>5. EventsAreSent' BY <1>1, <1>2, <1>3 DEF IInv, EventsAreSent
<1>6. CopiesAreThere' /\ CutOffEnds' /\ FetchIsKept'
  BY <1>1 DEF IInv, CopiesAreThere, CutOffEnds, FetchIsKept
<1>7. Tracked'
  <2> SUFFICES ASSUME stream' = "open", subscribed', NEW h \in Live'
               PROVE  Announced(h)' \/ Fetched(h)'
    BY DEF Tracked
  <2>1. CASE event \in Created(h) BY <1>1, <2>1 DEF Announced
  <2>2. CASE h \in Live
    <3>1. Announced(h) \/ Fetched(h) BY <1>1, <2>2 DEF IInv, Tracked
    <3>2. Fetched(h)' = Fetched(h) BY <1>1 DEF Fetched
    <3>3. Announced(h) => Announced(h)' BY <1>1 DEF Announced
    <3> QED BY <3>1, <3>2, <3>3
  <2> QED BY <2>1, <2>2
<1>8. StatusTracked'
  <2> SUFFICES ASSUME stream' = "open", subscribed' PROVE Told' \/ StatusFetched'
    BY DEF StatusTracked
  <2>1. CASE event \in Updated BY <1>1, <2>1 DEF Told
  <2>2. CASE status' = status
    <3>1. Told \/ StatusFetched BY <1>1 DEF IInv, StatusTracked
    <3>2. StatusFetched => StatusFetched' BY <1>1, <2>2 DEF StatusFetched
    <3>3. Told => Told' BY <1>1 DEF Told
    <3> QED BY <3>1, <3>2, <3>3
  <2> QED BY <2>1, <2>2
<1> QED BY <1>4, <1>5, <1>6, <1>7, <1>8 DEF IInv

(* A new row is announced; a deleted one is missed by nobody, and those    *)
(* after it keep a rank.                                                   *)
LEMMA RequestsPreserve == ASSUME IInv, Request PROVE IInv'
<1> USE DEF Live
<1>0. /\ rank \in [Hole -> Nat] /\ key \in [Hole -> Hole \cup {NoKey}] /\ deleted \subseteq Hole
      /\ status \in {"active", "completed"} /\ IsFiniteSet(Live)
  BY DEF IInv, TypeOK, EventsAreSent
<1>1. ASSUME NEW h \in Hole, Reports(h) PROVE IInv'
  <2> DEFINE c == Cardinality(Live) + 1
  <2>1. c \in Nat \ {0} BY <1>0, FS_CardinalityType
  <2>2. /\ h \in Hole /\ rank[h] = 0 /\ rank' = [rank EXCEPT ![h] = c]
        /\ key' = [key EXCEPT ![h] = h] /\ UNCHANGED <<deleted, status>>
    <3>1. Rowset!Add(h, h) /\ UNCHANGED status BY <1>1 DEF Reports
    <3>2. c = Rowset!Cardinality(Rowset!Live) + 1
      BY DEF Cardinality, Rowset!Cardinality, IsFiniteSet, Rowset!IsFiniteSet
    <3> HIDE DEF c
    <3> QED BY <3>1, <3>2 DEF Rowset!Add, Rowset!Rows
  <2> HIDE DEF c
  <2>3. rank'[h] = c /\ rank' \in [Hole -> Nat] BY <1>0, <2>1, <2>2
  <2> DEFINE e == [type |-> "bullet_created", hole |-> h, rank |-> rank'[h]]
  <2>4. e \in Sent /\ e \in Created(h) BY <2>1, <2>3 DEF Sent, Created
  <2>5. Live' \subseteq Live \cup {h} BY <1>0, <2>2 DEF Rowset!Live, Rowset!Rows
  <2>6. IsFiniteSet(Live') BY <1>0, <2>5, FS_AddElement, FS_Subset
  <2>7. Commits("report", e) BY <1>1 DEF Reports
  <2>8. key' \in [Hole -> Hole \cup {NoKey}] /\ deleted' \subseteq Hole /\ status' = status
    BY <1>0, <2>2
  <2>9. \A g \in Live' : g \in Live \/ e \in Created(g) BY <2>4, <2>5
  <2> HIDE DEF e
  <2> QED BY <1>0, <2>3, <2>4, <2>6, <2>7, <2>8, <2>9, CommitsPreserves
<1>2. ASSUME NEW h \in Hole, Retries(h) PROVE IInv'
  <2> DEFINE e == [type |-> "bullet_created", hole |-> h, rank |-> rank[h]]
  <2>1. e \in Sent BY <1>0, <1>2 DEF Sent, Retries, Rowset!Rows
  <2>2. Commits("retry", e) /\ UNCHANGED database BY <1>2 DEF Retries
  <2> HIDE DEF e
  <2> QED BY <1>0, <2>1, <2>2, RowsKept, CommitsPreserves
<1>3. ASSUME NEW h \in Hole, Deletes(h) PROVE IInv'
  <2> DEFINE e == [type |-> "bullet_deleted", hole |-> h]
  <2>1. e \in Sent BY DEF Sent
  <2>2. Commits("delete", e) /\ status' = status BY <1>3 DEF Deletes
  <2>3. /\ rank[h] # 0 /\ deleted' = deleted \cup {h} /\ key' = key
        /\ rank' = [g \in Hole |-> IF g \in Rowset!Live /\ rank[g] > rank[h] THEN rank[g] - 1 ELSE rank[g]]
    BY <1>3 DEF Deletes, Rowset!Remove, Rowset!Live, Rowset!Rows
  <2>4. \A g \in Hole : rank'[g] \in Nat /\ (rank[g] = 0 => rank'[g] = 0) BY <1>0, <2>3
  <2>5. rank' \in [Hole -> Nat] BY <1>0, <2>3, <2>4
  <2>6. Live' \subseteq Live BY <2>3, <2>4 DEF Rowset!Live, Rowset!Rows
  <2>7. IsFiniteSet(Live') BY <1>0, <2>6, FS_Subset
  <2> HIDE DEF e
  <2> QED BY <1>0, <2>1, <2>2, <2>3, <2>5, <2>6, <2>7, CommitsPreserves
<1>4. CASE Completes
  <2> DEFINE e == [type |-> "session_updated", status |-> "completed"]
  <2>1. e \in Sent /\ e \in Updated BY DEF Sent, Updated
  <2>2. Commits("complete", e) /\ status' = "completed" /\ UNCHANGED <<rank, key, deleted>>
    BY <1>4 DEF Completes
  <2>3. Live' = Live BY <2>2 DEF Rowset!Live, Rowset!Rows
  <2> HIDE DEF e
  <2> QED BY <1>0, <2>1, <2>2, <2>3, CommitsPreserves
<1>6. CASE Reopens
  <2> DEFINE e == [type |-> "session_updated", status |-> "active"]
  <2>1. e \in Sent /\ e \in Updated BY DEF Sent, Updated
  <2>2. Commits("reopen", e) /\ status' = "active" /\ UNCHANGED <<rank, key, deleted>>
    BY <1>6 DEF Reopens
  <2>3. Live' = Live BY <2>2 DEF Rowset!Live, Rowset!Rows
  <2> HIDE DEF e
  <2> QED BY <1>0, <2>1, <2>2, <2>3, CommitsPreserves
<1>5. CASE Moves
  <2> DEFINE e == [type |-> "run_moved"]
  <2>1. e \in Sent BY DEF Sent
  <2>2. Commits("move", e) /\ UNCHANGED database BY <1>5 DEF Moves
  <2> HIDE DEF e
  <2> QED BY <1>0, <2>1, <2>2, RowsKept, CommitsPreserves
<1> QED BY <1>1, <1>2, <1>3, <1>4, <1>5, <1>6 DEF Request

(* An event is queued for the window, or its stream is about to end or     *)
(* does not listen.                                                        *)
LEMMA PublishesPreserves == ASSUME IInv, NEW event \in pending, Publishes(event) PROVE IInv'
<1>1. /\ pending' = pending \ {event} /\ Queues(event)
      /\ UNCHANGED <<stream, view, fetch, snapshot, awaited, outcome, timer>> /\ UNCHANGED database
  BY DEF Publishes, query
<1>2. event \in Sent /\ event \in Event /\ IsFiniteSet(pending) /\ queue \in Seq(Sent \cup {End})
  BY SentIsEvent DEF IInv, EventsAreSent
<1>3. IsFiniteSet(pending') /\ Cardinality(pending') <= MaxPending
  <2>1. Cardinality(pending) \in Nat /\ Cardinality(pending) <= MaxPending
    BY <1>2, FS_CardinalityType DEF IInv, TypeOK
  <2> DEFINE c == Cardinality(pending)  d == Cardinality(pending \ {event})
  <2>2. IsFiniteSet(pending \ {event}) /\ d = c - 1 BY <1>2, FS_RemoveElement
  <2>3. d <= MaxPending
    <3>1. c \in Nat /\ c <= MaxPending BY <2>1
    <3> HIDE DEF c, d
    <3> QED BY <2>2, <3>1, SizeAssumption
  <2> QED BY <1>1, <2>2, <2>3
<1>4. /\ subscribed' \in BOOLEAN /\ queue' \in Seq(Sent \cup {End}) /\ Len(queue') <= QueueSize
      /\ \/ ~subscribed /\ UNCHANGED <<subscribed, queue>>
         \/ subscribed /\ queue' = Append(queue, event) /\ subscribed' = subscribed
         \/ ~subscribed' /\ queue' = <<End>>
  <2>0. subscribed \in BOOLEAN /\ Len(queue) <= QueueSize BY DEF IInv, TypeOK
  <2>1. CASE ~subscribed /\ UNCHANGED hub BY <1>2, <2>0, <2>1 DEF hub
  <2>2. CASE /\ subscribed /\ Len(queue) < QueueSize
             /\ queue' = Append(queue, event) /\ UNCHANGED subscribed
    <3>1. queue' \in Seq(Sent \cup {End}) /\ Len(queue') = Len(queue) + 1 BY <1>2, <2>2
    <3> QED BY <1>2, <2>0, <2>2, <3>1, SizeAssumption
  <2>3. CASE subscribed /\ Len(queue) = QueueSize /\ subscribed' = FALSE /\ queue' = <<End>>
    <3>1. <<End>> \in Seq(Sent \cup {End}) /\ Len(<<End>>) <= QueueSize BY SizeAssumption
    <3> QED BY Zenon, <2>3, <3>1
  <2> QED BY <1>1, <2>1, <2>2, <2>3 DEF Queues
<1>5. queue' \in Seq(Event \cup {End}) BY <1>4, SentIsEvent
<1>6. TypeOK' BY <1>1, <1>3, <1>4, <1>5, RowsKept DEF IInv, TypeOK
<1>7. EventsAreSent' BY <1>1, <1>3, <1>4, RowsKept DEF IInv, EventsAreSent
<1>8. CopiesAreThere' /\ FetchIsKept' BY <1>1 DEF IInv, CopiesAreThere, FetchIsKept
<1>9. CutOffEnds' BY <1>1, <1>4 DEF IInv, CutOffEnds
<1>10. Tracked'
  <2> SUFFICES ASSUME stream' = "open", subscribed', NEW h \in Live'
               PROVE  Announced(h)' \/ Fetched(h)'
    BY DEF Tracked
  <2>1. subscribed /\ queue' = Append(queue, event) BY <1>4
  <2>2. /\ Len(queue) \in Nat /\ Len(queue') = Len(queue) + 1 /\ queue'[Len(queue) + 1] = event
        /\ \A i \in 1..Len(queue) : queue'[i] = queue[i]
    BY <1>2, <2>1
  <2>3. Announced(h) \/ Fetched(h) BY <1>1, <2>1, RowsKept DEF IInv, Tracked
  <2>4. Fetched(h)' = Fetched(h) BY <1>1 DEF Fetched
  <2>5. ASSUME NEW i \in 1..Len(queue), queue[i] \in Created(h) PROVE Announced(h)'
    <3>1. i \in 1..Len(queue') /\ queue'[i] \in Created(h) BY <2>2, <2>5
    <3> QED BY <3>1 DEF Announced
  <2>6. ASSUME NEW e \in Created(h), e \in pending PROVE Announced(h)'
    <3>1. CASE e = event
      <4>1. Len(queue) + 1 \in 1..Len(queue') /\ queue'[Len(queue) + 1] \in Created(h)
        BY <2>2, <2>6, <3>1
      <4> QED BY <4>1 DEF Announced
    <3>2. CASE e # event BY <1>1, <2>6, <3>2 DEF Announced
    <3> QED BY <3>1, <3>2
  <2> QED BY <2>3, <2>4, <2>5, <2>6 DEF Announced
<1>11. StatusTracked'
  <2> SUFFICES ASSUME stream' = "open", subscribed' PROVE Told' \/ StatusFetched'
    BY DEF StatusTracked
  <2>1. subscribed /\ queue' = Append(queue, event) BY <1>4
  <2>2. /\ Len(queue) \in Nat /\ Len(queue') = Len(queue) + 1 /\ queue'[Len(queue) + 1] = event
        /\ \A i \in 1..Len(queue) : queue'[i] = queue[i]
    BY <1>2, <2>1
  <2>3. Told \/ StatusFetched BY <1>1, <2>1 DEF IInv, StatusTracked
  <2>4. StatusFetched => StatusFetched' BY <1>1, RowsKept DEF StatusFetched
  <2>5. ASSUME NEW i \in 1..Len(queue), queue[i] \in Updated PROVE Told'
    <3>1. i \in 1..Len(queue') /\ queue'[i] \in Updated BY <2>2, <2>5
    <3> QED BY <3>1 DEF Told
  <2>6. ASSUME NEW e \in Updated, e \in pending PROVE Told'
    <3>1. CASE e = event
      <4>1. Len(queue) + 1 \in 1..Len(queue') /\ queue'[Len(queue) + 1] \in Updated
        BY <2>2, <2>6, <3>1
      <4> QED BY <4>1 DEF Told
    <3>2. CASE e # event BY <1>1, <2>6, <3>2 DEF Told
    <3> QED BY <3>1, <3>2
  <2> QED BY <2>3, <2>4, <2>5, <2>6 DEF Told
<1> QED BY <1>6, <1>7, <1>8, <1>9, <1>10, <1>11 DEF IInv

(* The stream's steps other than Receives keep IInv: an open one has asked *)
(* for what it missed, and one that is not open owes nothing.              *)
LEMMA StreamPreserves ==
    ASSUME IInv,
           Answers \/ Listens \/ StopsListening \/ Opens \/ Reconnects \/ ReceivesEnd \/ Drops \/ Refuses
    PROVE  IInv'
<1> USE DEF IInv
<1>1. UNCHANGED <<database, pending, view>>
  BY DEF Answers, Listens, StopsListening, Opens, Reconnects, ReceivesEnd, Drops, Refuses
<1>2. UNCHANGED <<status, rank, key, deleted, Live>> BY <1>1, RowsKept
<1>3. /\ subscribed' \in BOOLEAN /\ (queue' = queue \/ queue' = <<>>)
      /\ stream' \in {"off", "connecting", "answered", "open", "refused"}
      /\ fetch' \in {"none", "asked", "read"} /\ awaited' \in BOOLEAN /\ timer' \in BOOLEAN
      /\ outcome' = outcome /\ (snapshot' = snapshot \/ snapshot' = NoView)
  BY DEF Answers, Listens, StopsListening, Opens, Reconnects, ReceivesEnd, Drops, Refuses,
         hub, query, Reconcile, TypeOK
<1>4. queue' \in Seq(Sent \cup {End}) /\ queue' \in Seq(Event \cup {End}) /\ Len(queue') <= QueueSize
  <2>1. CASE queue' = queue BY <2>1 DEF EventsAreSent, TypeOK
  <2>2. CASE queue' = <<>> BY <2>2, SizeAssumption
  <2> QED BY <1>3, <2>1, <2>2
<1>5. TypeOK' BY <1>1, <1>2, <1>3, <1>4 DEF TypeOK
<1>6. EventsAreSent' BY <1>1, <1>2, <1>4 DEF EventsAreSent
<1>7. CopiesAreThere'
  <2>1. stream' # "off" => view \in Copy
    BY DEF Answers, Listens, StopsListening, Opens, Reconnects, ReceivesEnd, Drops, Refuses,
           CopiesAreThere, Enabled, TypeOK
  <2>2. fetch' = "read" => fetch = "read" /\ snapshot' = snapshot
    BY DEF Answers, Listens, StopsListening, Opens, Reconnects, ReceivesEnd, Drops, Refuses,
           hub, query, Reconcile
  <2> QED BY <1>1, <2>1, <2>2 DEF CopiesAreThere
<1>8. CutOffEnds'
  BY DEF Answers, Listens, StopsListening, Opens, Reconnects, ReceivesEnd, Drops, Refuses,
         hub, query, CutOffEnds
<1>9. stream' = "open" => Opens
  BY DEF Answers, Listens, StopsListening, Opens, Reconnects, ReceivesEnd, Drops, Refuses
<1>10. FetchIsKept' /\ Tracked' /\ StatusTracked'
  BY <1>9 DEF Opens, Reconcile, FetchIsKept, Tracked, Fetched, StatusTracked, StatusFetched
<1> QED BY <1>5, <1>6, <1>7, <1>8, <1>10

(* The query's steps keep IInv: a fetch reads every row that is stored,    *)
(* and one that fails under an open stream leaves the timer set.           *)
LEMMA QueryPreserves ==
    ASSUME IInv, FetchReads \/ FetchAnswers \/ FetchFails \/ OperatorRetries \/ TimerFires
    PROVE  IInv'
<1> USE DEF IInv
<1>1. UNCHANGED <<database, pending, stream>> /\ UNCHANGED <<subscribed, queue>>
  BY DEF FetchReads, FetchAnswers, FetchFails, OperatorRetries, TimerFires, hub
<1>2. UNCHANGED <<status, rank, key, deleted, Live>> BY <1>1, RowsKept
<1>3. /\ fetch' \in {"none", "asked", "read"} /\ awaited' \in BOOLEAN /\ timer' \in BOOLEAN
      /\ outcome' \in {"pending", "success", "error"}
  BY DEF FetchReads, FetchAnswers, FetchFails, OperatorRetries, TimerFires, Reconcile, TypeOK
<1>4. snapshot' \in Copy \cup {NoView} /\ view' \in Copy \cup {NoView} /\ (view \in Copy => view' \in Copy)
  BY StoredIsCopy DEF FetchReads, FetchAnswers, FetchFails, OperatorRetries, TimerFires, Reconcile,
                      TypeOK, CopiesAreThere
<1>5. TypeOK' BY <1>1, <1>2, <1>3, <1>4 DEF TypeOK
<1>6. EventsAreSent' BY <1>1, <1>2 DEF EventsAreSent
<1>7. CopiesAreThere'
  <2>1. fetch' = "read" => snapshot' \in Copy
    BY StoredIsCopy DEF FetchReads, FetchAnswers, FetchFails, OperatorRetries, TimerFires, Reconcile,
                        CopiesAreThere
  <2> QED BY <1>1, <1>4, <2>1 DEF CopiesAreThere
<1>8. CutOffEnds' BY <1>1 DEF CutOffEnds
<1>9. stream = "open" => ~OperatorRetries
  BY NoViewAssumption DEF OperatorRetries, CopiesAreThere
<1>10. FetchIsKept'
  BY <1>1, <1>9 DEF FetchReads, FetchAnswers, FetchFails, TimerFires, Reconcile, FetchIsKept
<1>11. Tracked'
  <2> SUFFICES ASSUME stream' = "open", subscribed', NEW h \in Live' PROVE Announced(h)' \/ Fetched(h)'
    BY DEF Tracked
  <2>1. h \in Live /\ Announced(h)' = Announced(h) BY <1>1, <1>2 DEF Announced
  <2>2. Announced(h) \/ Fetched(h) BY <1>1, <2>1 DEF Tracked
  <2>3. stream = "open" /\ subscribed BY <1>1
  <2>4. Fetched(h) => Fetched(h)'
    <3>1. CASE FetchReads BY <2>1, <3>1, StoredIsCopy DEF FetchReads, Fetched
    <3>2. CASE FetchAnswers BY <3>2 DEF FetchAnswers, Fetched
    <3>3. CASE FetchFails BY <2>3, <3>3 DEF FetchFails, FetchIsKept, Fetched
    <3>4. CASE TimerFires BY <3>4 DEF TimerFires, Reconcile, Fetched
    <3> QED BY <1>9, <2>3, <3>1, <3>2, <3>3, <3>4
  <2> QED BY <2>1, <2>2, <2>4
<1>12. StatusTracked'
  <2> SUFFICES ASSUME stream' = "open", subscribed' PROVE Told' \/ StatusFetched'
    BY DEF StatusTracked
  <2>1. Told' = Told /\ stream = "open" /\ subscribed BY <1>1 DEF Told
  <2>2. Told \/ StatusFetched BY <2>1 DEF StatusTracked
  <2>3. StatusFetched => StatusFetched'
    <3>1. CASE FetchReads BY <1>2, <3>1 DEF FetchReads, StatusFetched, Stored
    <3>2. CASE FetchAnswers BY <1>2, <3>2 DEF FetchAnswers, StatusFetched
    <3>3. CASE FetchFails BY <1>2, <2>1, <3>3 DEF FetchFails, FetchIsKept, StatusFetched
    <3>4. CASE TimerFires BY <3>4 DEF TimerFires, Reconcile, StatusFetched
    <3> QED BY <1>9, <2>1, <3>1, <3>2, <3>3, <3>4
  <2> QED BY <2>1, <2>2, <2>3
<1> QED BY <1>5, <1>6, <1>7, <1>8, <1>10, <1>11, <1>12

(* An event leaves a copy a copy, and every Bullet Hole on it that it does *)
(* not delete; a bullet_created puts its own there.                        *)
LEMMA AppliedIsCopy ==
    ASSUME NEW copy \in Copy, NEW event \in Sent
    PROVE  /\ Applied(copy, event) \in Copy
           /\ event.type = "bullet_created" =>
                /\ Applied(copy, event).status = copy.status
                /\ \A h \in Hole : copy.rank[h] # 0 => Applied(copy, event).rank[h] # 0
                /\ \A h \in Hole : event \in Created(h) => Applied(copy, event).rank[h] # 0
<1>0. copy.rank \in [Hole -> Nat] /\ copy.status \in {"active", "completed"} BY DEF Copy
<1>1. CASE event \in [type : {"bullet_created"}, hole : Hole, rank : Nat \ {0}]
  <2>1. /\ event.type = "bullet_created" /\ event.hole \in Hole /\ event.rank \in Nat \ {0}
    BY <1>1
  <2>2. Applied(copy, event) = [copy EXCEPT !.rank[event.hole] = event.rank]
    BY <2>1 DEF Applied
  <2>3. Applied(copy, event) \in Copy BY <2>1, <2>2 DEF Copy
  <2>4. \A h \in Hole : Applied(copy, event).rank[h] = IF h = event.hole THEN event.rank ELSE copy.rank[h]
    BY <1>0, <2>2 DEF Copy
  <2>5. \A h \in Hole : event \in Created(h) => h = event.hole BY DEF Created
  <2>6. Applied(copy, event).status = copy.status BY <2>2 DEF Copy
  <2> QED BY <2>1, <2>3, <2>4, <2>5, <2>6
<1>2. CASE event \in [type : {"bullet_deleted"}, hole : Hole]
  <2>1. event.type = "bullet_deleted" /\ event.hole \in Hole BY <1>2
  <2> DEFINE moved == [h \in Hole |-> IF h = event.hole THEN 0
                                      ELSE IF copy.rank[h] > copy.rank[event.hole] THEN copy.rank[h] - 1
                                      ELSE copy.rank[h]]
  <2>2. Applied(copy, event) = IF copy.rank[event.hole] = 0 THEN copy ELSE [copy EXCEPT !.rank = moved]
    BY <2>1 DEF Applied
  <2>3. moved \in [Hole -> Nat]
    <3>1. \A h \in Hole : copy.rank[h] \in Nat /\ copy.rank[event.hole] \in Nat BY <1>0, <2>1
    <3> QED BY <3>1
  <2> HIDE DEF moved
  <2>4. Applied(copy, event) \in Copy BY <1>0, <2>2, <2>3 DEF Copy
  <2> QED BY <2>1, <2>4
<1>3. CASE event \in [type : {"session_updated"}, status : {"active", "completed"}]
  <2>1. event.type = "session_updated" /\ event.status \in {"active", "completed"} BY <1>3
  <2>2. Applied(copy, event) = [copy EXCEPT !.status = event.status] BY <2>1 DEF Applied
  <2>3. Applied(copy, event) \in Copy BY <1>0, <2>1, <2>2 DEF Copy
  <2> QED BY <2>1, <2>3
<1>4. CASE event \in [type : {"run_moved"}]
  <2>1. event.type = "run_moved" BY <1>4
  <2>2. Applied(copy, event) = copy BY <2>1 DEF Applied
  <2> QED BY <2>1, <2>2
<1> QED BY <1>1, <1>2, <1>3, <1>4 DEF Sent

(* The window applies an event: it shows the Bullet Hole it was told of,   *)
(* or asks for the Session again.                                          *)
LEMMA ReceivesPreserves == ASSUME IInv, Receives PROVE IInv'
<1> USE DEF IInv
<1>1. /\ stream = "open" /\ queue # <<>> /\ Head(queue) # End /\ queue' = Tail(queue)
      /\ view' = Applied(view, Head(queue)) /\ outcome' = "success"
      /\ UNCHANGED <<database, pending, subscribed, stream>>
  BY DEF Receives
<1>2. \/ Confirms(Head(queue)) /\ Reconcile
      \/ ~Confirms(Head(queue)) /\ UNCHANGED <<fetch, snapshot, awaited, timer>>
  BY DEF Receives
<1>3. UNCHANGED <<status, rank, key, deleted, Live>> BY <1>1, RowsKept
<1>4. /\ queue \in Seq(Sent \cup {End}) /\ Len(queue) \in Nat \ {0}
      /\ Head(queue) = queue[1] /\ queue[1] \in Sent
      /\ queue' \in Seq(Sent \cup {End}) /\ Len(queue') = Len(queue) - 1
      /\ \A i \in 1..Len(queue) - 1 : queue'[i] = queue[i + 1]
  BY <1>1 DEF EventsAreSent
<1>5. view' \in Copy BY <1>1, <1>4, AppliedIsCopy DEF CopiesAreThere
<1>6. queue' \in Seq(Event \cup {End}) /\ Len(queue') <= QueueSize
  <2>1. queue' \in Seq(Event \cup {End}) BY <1>4, SentIsEvent
  <2>2. Len(queue) <= QueueSize BY DEF TypeOK
  <2> QED BY <1>4, <2>1, <2>2, SizeAssumption
<1>7. /\ fetch' \in {"none", "asked", "read"} /\ awaited' \in BOOLEAN /\ timer' \in BOOLEAN
      /\ snapshot' \in Copy \cup {NoView}
  BY <1>2 DEF Reconcile, TypeOK
<1>8. TypeOK' BY <1>1, <1>3, <1>5, <1>6, <1>7 DEF TypeOK
<1>9. EventsAreSent' BY <1>1, <1>3, <1>4 DEF EventsAreSent
<1>10. CopiesAreThere' BY <1>2, <1>5 DEF Reconcile, CopiesAreThere
<1>11. FetchIsKept' BY <1>1, <1>2 DEF Reconcile, FetchIsKept
<1>12. CutOffEnds'
  <2>1. queue # <<End>> BY <1>1
  <2> QED BY <1>1, <2>1 DEF CutOffEnds
<1>13. Tracked'
  <2> SUFFICES ASSUME stream' = "open", subscribed', NEW h \in Live' PROVE Announced(h)' \/ Fetched(h)'
    BY DEF Tracked
  <2>1. CASE Confirms(Head(queue)) BY <1>2, <2>1 DEF Reconcile, Fetched
  <2>2. CASE ~Confirms(Head(queue))
    <3>1. queue[1].type = "bullet_created" /\ fetch = "none" /\ fetch' = "none" /\ timer' = timer
      BY <1>2, <1>4, <2>2 DEF Confirms
    <3>2. h \in Live /\ h \in Hole BY <1>3, StoredIsCopy
    <3>3. view.rank[h] # 0 => view'.rank[h] # 0
      BY <1>1, <1>4, <3>1, <3>2, AppliedIsCopy DEF CopiesAreThere
    <3>4. queue[1] \in Created(h) => view'.rank[h] # 0
      BY <1>1, <1>4, <3>1, <3>2, AppliedIsCopy DEF CopiesAreThere
    <3>5. Announced(h) \/ Fetched(h) BY <1>1, <3>2 DEF Tracked
    <3>6. Fetched(h) => Fetched(h)' BY <3>1, <3>3 DEF Fetched
    <3>7. ASSUME NEW i \in 1..Len(queue), queue[i] \in Created(h) PROVE Announced(h)' \/ Fetched(h)'
      <4>1. CASE i = 1 BY <3>1, <3>4, <3>7, <4>1 DEF Fetched
      <4>2. CASE i # 1
        <5>1. i - 1 \in 1..Len(queue') /\ queue'[i - 1] = queue[i] BY <1>4, <4>2
        <5> QED BY <3>7, <5>1 DEF Announced
      <4> QED BY <4>1, <4>2
    <3>8. (\E e \in Created(h) : e \in pending) => Announced(h)' BY <1>1 DEF Announced
    <3> QED BY <3>5, <3>6, <3>7, <3>8 DEF Announced
  <2> QED BY <2>1, <2>2
<1>14. StatusTracked'
  <2> SUFFICES ASSUME stream' = "open", subscribed' PROVE Told' \/ StatusFetched'
    BY DEF StatusTracked
  <2>1. CASE Confirms(Head(queue)) BY <1>2, <2>1 DEF Reconcile, StatusFetched
  <2>2. CASE ~Confirms(Head(queue))
    <3>1. queue[1].type = "bullet_created" /\ fetch = "none" /\ fetch' = "none" /\ timer' = timer
      BY <1>2, <1>4, <2>2 DEF Confirms
    <3>2. view'.status = view.status BY <1>1, <1>4, <3>1, AppliedIsCopy DEF CopiesAreThere
    <3>3. Told \/ StatusFetched BY <1>1 DEF StatusTracked
    <3>4. StatusFetched => StatusFetched' BY <1>3, <3>1, <3>2 DEF StatusFetched
    <3>5. ASSUME NEW i \in 1..Len(queue), queue[i] \in Updated PROVE Told'
      <4>1. i # 1 BY <3>1, <3>5 DEF Updated
      <4>2. i - 1 \in 1..Len(queue') /\ queue'[i - 1] = queue[i] BY <1>4, <4>1
      <4> QED BY <3>5, <4>2 DEF Told
    <3>6. (\E e \in Updated : e \in pending) => Told' BY <1>1 DEF Told
    <3> QED BY <3>3, <3>4, <3>5, <3>6 DEF Told
  <2> QED BY <2>1, <2>2
<1> QED BY <1>8, <1>9, <1>10, <1>11, <1>12, <1>13, <1>14

(* A stuttering step keeps IInv: it reads nothing but the variables. *)
LEMMA StutterPreserves == IInv /\ UNCHANGED vars => IInv'
BY DEF IInv, TypeOK, EventsAreSent, CopiesAreThere, CutOffEnds, FetchIsKept, Tracked, Announced,
       Fetched, StatusTracked, Told, StatusFetched, Live, Rowset!Live, Rowset!Rows, vars, database, hub, query

(* IInv is inductive, so it holds of every reachable state. *)
THEOREM Inductive == Spec => []IInv
<1>1. IInv /\ [Next]_vars => IInv'
  BY RequestsPreserve, PublishesPreserves, StreamPreserves, QueryPreserves, ReceivesPreserves,
     StutterPreserves
     DEF Next, Window, Fault
<1> QED BY InitEstablishes, <1>1, PTL DEF Spec

(* Every variable keeps its type, and the hub's queue its bound. *)
THEOREM TypeCorrect == Spec => []TypeOK
BY Inductive, PTL DEF IInv

(* A quiet window misses no Bullet Hole and shows the Session's status:    *)
(* whatever was published before the stream was subscribed, dropped with   *)
(* it or overtaken by a fetch, either an event of each is still to come or *)
(* a fetch that will see it.                                               *)
THEOREM NoneIsMissing == Spec => []NothingMissing
<1>1. IInv => NothingMissing
  <2> SUFFICES ASSUME IInv, Quiet PROVE view.status = status /\ Rowset!Live \subseteq Shown
    BY DEF NothingMissing
  <2>1. pending = {} /\ stream = "open" /\ queue = <<>> /\ fetch = "none" /\ ~timer BY DEF Quiet
  <2>2. queue # <<End>> /\ Len(queue) = 0 BY <2>1
  <2>3. subscribed BY <2>1, <2>2 DEF IInv, CutOffEnds
  <2>4. ASSUME NEW h \in Live PROVE h \in Shown
    <3>1. ~Announced(h) BY <2>1, <2>2 DEF Announced
    <3>2. view.rank[h] # 0 BY <2>1, <2>3, <3>1 DEF IInv, Tracked, Fetched
    <3>3. view # NoView /\ h \in Hole
      BY <2>1, NoViewAssumption, StoredIsCopy DEF IInv, CopiesAreThere
    <3> QED BY <3>2, <3>3 DEF Shown
  <2>5. ~Told BY <2>1, <2>2 DEF Told
  <2>6. view.status = status BY <2>1, <2>3, <2>5 DEF IInv, StatusTracked, StatusFetched
  <2> QED BY <2>4, <2>6 DEF Live
<1> QED BY Inductive, <1>1, PTL

-----------------------------------------------------------------------------
(* The packet pipe: its parameters and its state, apart from the window's. *)

(* A writer that reads again has room for one more. *)
RoomToRead ==
    \A w \in Writer : /\ Len(buffer[w]) <= BatchSize
                      /\ wpc[w] \in {"start", "wait", "first"} => Len(buffer[w]) < BatchSize

(* A Packet is somewhere, or its end is accounted for. *)
Held(p) ==
    \/ p \in Unparsed \cup Parsed
    \/ \E h \in Handler : p \in ToSet(batch[h])
    \/ \E w \in Writer : p \in ToSet(buffer[w])

Kept(p) == Held(p) \/ p \in dropped \cup failed \/ rows[p] > 0

PipeInv == PipeTypeOK /\ RoomToRead /\ \A p \in captured : Kept(p)

(* A worker ends only with the host, but for a writer that dies, and that  *)
(* one leaves a batch only where it found no sender.                       *)
Endings ==
    /\ \A h \in Handler : /\ hpc[h] = "exited" => stopping
                          /\ hpc[h] \in {"first", "exited"} => batch[h] = <<>>
    /\ \A w \in Writer :
        /\ wpc[w] \in {"final", "finalRetry", "exited"} => stopping
        /\ wpc[w] = "start" => buffer[w] = <<>>
        /\ wpc[w] \in {"retry", "finalRetry"} => sender[w] = "disposed"
        /\ wpc[w] = "dead" => buffer[w] = <<>> \/ stopping \/ sender[w] = "disposed"
-----------------------------------------------------------------------------
(* What is appended is the one more a sequence holds. *)
LEMMA AppendHolds ==
    ASSUME NEW S, NEW s \in Seq(S), NEW x \in S
    PROVE  /\ Append(s, x) \in Seq(S) /\ Len(Append(s, x)) = Len(s) + 1
           /\ ToSet(Append(s, x)) = ToSet(s) \cup {x}
<1>1. /\ Append(s, x) \in Seq(S) /\ Len(Append(s, x)) = Len(s) + 1 /\ Len(s) \in Nat
      /\ \A i \in 1..Len(s) : Append(s, x)[i] = s[i]
      /\ Append(s, x)[Len(s) + 1] = x
  OBVIOUS
<1>2. DOMAIN s = 1..Len(s) /\ DOMAIN Append(s, x) = 1..Len(s) + 1 BY <1>1
<1>3. ToSet(Append(s, x)) \subseteq ToSet(s) \cup {x}
  <2> SUFFICES ASSUME NEW i \in 1..Len(s) + 1 PROVE Append(s, x)[i] \in ToSet(s) \cup {x}
    BY <1>2 DEF ToSet
  <2> QED BY <1>1, <1>2 DEF ToSet
<1>4. ToSet(s) \cup {x} \subseteq ToSet(Append(s, x))
  <2>1. ASSUME NEW i \in 1..Len(s) PROVE s[i] \in ToSet(Append(s, x))
    BY <1>1, <1>2 DEF ToSet
  <2>2. x \in ToSet(Append(s, x)) BY <1>1, <1>2 DEF ToSet
  <2> QED BY <1>2, <2>1, <2>2 DEF ToSet
<1> QED BY <1>1, <1>3, <1>4

(* A sequence holds its head and what its tail holds. *)
LEMMA TailHolds ==
    ASSUME NEW S, NEW s \in Seq(S), s # <<>>
    PROVE  /\ Head(s) \in S /\ Tail(s) \in Seq(S) /\ Len(Tail(s)) = Len(s) - 1
           /\ Len(s) \in Nat \ {0}
           /\ ToSet(s) = {Head(s)} \cup ToSet(Tail(s))
<1>1. /\ Head(s) \in S /\ Tail(s) \in Seq(S) /\ Len(Tail(s)) = Len(s) - 1 /\ Len(s) \in Nat \ {0}
      /\ Head(s) = s[1] /\ \A i \in 1..Len(s) - 1 : Tail(s)[i] = s[i + 1]
  OBVIOUS
<1>2. DOMAIN s = 1..Len(s) /\ DOMAIN Tail(s) = 1..Len(s) - 1 BY <1>1
<1>3. ToSet(s) \subseteq {Head(s)} \cup ToSet(Tail(s))
  <2> SUFFICES ASSUME NEW i \in 1..Len(s), i # 1 PROVE s[i] \in ToSet(Tail(s))
    BY <1>1, <1>2 DEF ToSet
  <2>1. i - 1 \in 1..Len(s) - 1 /\ (i - 1) + 1 = i BY <1>1
  <2>2. Tail(s)[i - 1] = s[i] BY <1>1, <2>1
  <2> QED BY <1>2, <2>1, <2>2 DEF ToSet
<1>4. {Head(s)} \cup ToSet(Tail(s)) \subseteq ToSet(s)
  <2>1. ASSUME NEW i \in 1..Len(s) - 1 PROVE Tail(s)[i] \in ToSet(s)
    <3>1. i + 1 \in 1..Len(s) BY <1>1
    <3> QED BY <1>1, <1>2, <3>1 DEF ToSet
  <2>2. 1 \in 1..Len(s) BY <1>1
  <2> QED BY <1>1, <1>2, <2>1, <2>2 DEF ToSet
<1> QED BY <1>1, <1>3, <1>4

(* A read takes the first of a channel; what was parked before it is still *)
(* there, the first of it inside.                                          *)
LEMMA ReadHolds ==
    ASSUME NEW S, NEW q \in Seq(S), q # <<>>, NEW k \in Seq(S)
    PROVE  /\ Head(q) \in S
           /\ AfterRead(q, k) \in Seq(S) /\ ParkedAfterRead(k) \in Seq(S)
           /\ Len(AfterRead(q, k)) <= Len(q)
           /\ ToSet(q) \cup ToSet(k)
                = {Head(q)} \cup ToSet(AfterRead(q, k))
                    \cup ToSet(ParkedAfterRead(k))
<1>1. /\ Head(q) \in S /\ Tail(q) \in Seq(S) /\ Len(Tail(q)) = Len(q) - 1 /\ Len(q) \in Nat \ {0}
      /\ ToSet(q) = {Head(q)} \cup ToSet(Tail(q))
  BY TailHolds
<1>2. CASE k = <<>>
  <2>1. AfterRead(q, k) = Tail(q) BY <1>1, <1>2 DEF AfterRead, FirstParked
  <2>2. ParkedAfterRead(k) = k BY <1>2 DEF ParkedAfterRead
  <2> QED BY <1>1, <2>1, <2>2
<1>3. CASE k # <<>>
  <2>1. AfterRead(q, k) = Append(Tail(q), Head(k))
    <3>1. Head(k) \in S BY <1>3
    <3>2. AfterRead(q, k) = Tail(q) \o <<Head(k)>>
      BY <1>3 DEF AfterRead, FirstParked
    <3> QED BY <1>1, <3>1, <3>2, AppendIsConcat
  <2>2. ParkedAfterRead(k) = Tail(k) BY <1>3 DEF ParkedAfterRead
  <2>3. Head(k) \in S /\ Tail(k) \in Seq(S) /\ ToSet(k) = {Head(k)} \cup ToSet(Tail(k))
    BY <1>3, TailHolds
  <2>4. /\ Append(Tail(q), Head(k)) \in Seq(S)
        /\ Len(Append(Tail(q), Head(k))) = Len(Tail(q)) + 1
        /\ ToSet(Append(Tail(q), Head(k))) = ToSet(Tail(q)) \cup {Head(k)}
    <3>1. \A t \in Seq(S), x \in S :
            /\ Append(t, x) \in Seq(S) /\ Len(Append(t, x)) = Len(t) + 1
            /\ ToSet(Append(t, x)) = ToSet(t) \cup {x}
      BY AppendHolds
    <3> QED BY <1>1, <2>3, <3>1
  <2>5. Len(Tail(q)) + 1 <= Len(q) BY <1>1
  <2> QED BY <1>1, <2>1, <2>2, <2>3, <2>4, <2>5
<1> QED BY <1>2, <1>3

(* A parked write that is cancelled is the only one that goes. *)
LEMMA RemoveHolds ==
    ASSUME NEW S, NEW s \in Seq(S), NEW i \in DOMAIN s
    PROVE  /\ RemoveAt(s, i) \in Seq(S)
           /\ ToSet(s) \subseteq ToSet(RemoveAt(s, i)) \cup {s[i]}
<1>1. Len(s) \in Nat /\ i \in 1..Len(s) /\ DOMAIN s = 1..Len(s) OBVIOUS
<1> DEFINE a == SubSeq(s, 1, i - 1)  b == SubSeq(s, i + 1, Len(s))
<1>2. a \in Seq(S) /\ Len(a) = i - 1 /\ \A j \in 1..i - 1 : a[j] = s[j] BY <1>1
<1>3. b \in Seq(S) /\ Len(b) = Len(s) - i /\ \A j \in 1..Len(s) - i : b[j] = s[i + j] BY <1>1
<1>4. RemoveAt(s, i) = a \o b BY DEF RemoveAt
<1> HIDE DEF a, b
<1>5. /\ RemoveAt(s, i) \in Seq(S) /\ Len(RemoveAt(s, i)) = Len(s) - 1
      /\ \A j \in 1..i - 1 : RemoveAt(s, i)[j] = s[j]
      /\ \A j \in i..Len(s) - 1 : RemoveAt(s, i)[j] = b[j - (i - 1)]
  <2>1. /\ a \o b \in Seq(S) /\ Len(a \o b) = Len(a) + Len(b)
        /\ \A j \in 1..Len(a) + Len(b) : (a \o b)[j] = IF j <= Len(a) THEN a[j] ELSE b[j - Len(a)]
    BY <1>2, <1>3, ConcatProperties
  <2>2. Len(a) + Len(b) = Len(s) - 1 BY <1>1, <1>2, <1>3
  <2>3. \A j \in 1..Len(s) - 1 : (a \o b)[j] = IF j <= i - 1 THEN a[j] ELSE b[j - (i - 1)]
    BY <1>2, <2>1, <2>2
  <2>4. \A j \in 1..i - 1 : j \in 1..Len(s) - 1 /\ j <= i - 1 BY <1>1
  <2>5. \A j \in i..Len(s) - 1 : j \in 1..Len(s) - 1 /\ ~(j <= i - 1) BY <1>1
  <2> QED BY <1>2, <1>4, <2>1, <2>2, <2>3, <2>4, <2>5
<1>6. DOMAIN RemoveAt(s, i) = 1..Len(s) - 1 BY <1>5
<1>7. ASSUME NEW j \in 1..Len(s), j # i PROVE s[j] \in ToSet(RemoveAt(s, i))
  <2>1. CASE j < i
    <3>1. j \in 1..i - 1 /\ j \in 1..Len(s) - 1 BY <1>1, <2>1
    <3> QED BY <1>5, <1>6, <3>1 DEF ToSet
  <2>2. CASE j > i
    <3>1. j - 1 \in i..Len(s) - 1 /\ j - 1 \in 1..Len(s) - 1 /\ (j - 1) - (i - 1) = j - i
      BY <1>1, <2>2
    <3>2. j - i \in 1..Len(s) - i /\ i + (j - i) = j BY <1>1, <2>2
    <3>3. RemoveAt(s, i)[j - 1] = s[j] BY <1>3, <1>5, <3>1, <3>2
    <3> QED BY <1>6, <3>1, <3>3 DEF ToSet
  <2> QED BY <1>1, <1>7, <2>1, <2>2
<1> QED BY <1>1, <1>5, <1>7 DEF ToSet
-----------------------------------------------------------------------------
(* Nothing was captured yet. *)
LEMMA PipeStarts == PipeInit => PipeInv
<1> USE PipeAssumption
<1> SUFFICES ASSUME PipeInit PROVE PipeInv
  OBVIOUS
<1>1. PipeTypeOK
  <2>1. /\ <<>> \in Seq(Packet) /\ Len(<<>>) <= RawCapacity /\ Len(<<>>) <= ParsedCapacity
        /\ 0 \in 0..MaxFaults
    OBVIOUS
  <2>2. rows \in [Packet -> Nat] BY DEF PipeInit
  <2> QED BY <2>1, <2>2 DEF PipeInit, PipeTypeOK
<1>2. RoomToRead BY DEF PipeInit, RoomToRead
<1>3. \A p \in captured : Kept(p) BY DEF PipeInit
<1> QED BY <1>1, <1>2, <1>3 DEF PipeInv

(* The device and the tasks it starts keep IInv. *)
LEMMA DevicePreserves ==
    ASSUME PipeInv,
           DeviceSteps \/ Stop \/ \E p \in Packet : OnNext(p)
    PROVE  PipeInv'
<1> USE PipeAssumption
<1> USE DEF PipeInv
<1>1. UNCHANGED <<hpc, batch, current, wpc, buffer, sender, parsed, parsedParked, rows, dropped,
                  failed, faults>>
  BY DEF DeviceSteps, Subscribe, Unsubscribe, Arrives, Stop, OnNext, handlers,
         parsedChannel, writers, counts
<1>2. RoomToRead' BY <1>1 DEF RoomToRead
<1>3. CASE DeviceSteps \/ Stop
  <2>1. /\ UNCHANGED <<raw, rawParked>> /\ capturing' \in BOOLEAN /\ stopping' \in BOOLEAN
        /\ captured' \subseteq Packet /\ offloaded' \subseteq Packet
        /\ offloaded \subseteq offloaded' /\ captured' \subseteq captured \cup offloaded'
    BY <1>3
    DEF DeviceSteps, Subscribe, Unsubscribe, Arrives, Stop, rawChannel, device,
        PipeTypeOK
  <2>2. PipeTypeOK' BY <1>1, <2>1 DEF PipeTypeOK
  <2>3. ASSUME NEW p \in captured' PROVE Kept(p)' BY <1>1, <2>1 DEF Kept, Held, Unparsed, Parsed
  <2> QED BY <1>2, <2>2, <2>3
<1>4. ASSUME NEW p \in Packet, OnNext(p) PROVE PipeInv'
  <2>1. /\ p \in offloaded /\ offloaded' = offloaded \ {p}
        /\ UNCHANGED <<captured, capturing, stopping>>
        /\ \/ Len(raw) < RawCapacity /\ raw' = Append(raw, p) /\ UNCHANGED rawParked
           \/ rawParked' = Append(rawParked, p) /\ UNCHANGED raw
    BY <1>4 DEF OnNext, device
  <2>2. /\ raw' \in Seq(Packet) /\ Len(raw') <= RawCapacity /\ rawParked' \in Seq(Packet)
        /\ ToSet(raw') \cup ToSet(rawParked')
              = ToSet(raw) \cup ToSet(rawParked) \cup {p}
    <3>0. /\ raw \in Seq(Packet) /\ rawParked \in Seq(Packet) /\ Len(raw) \in Nat
          /\ Len(raw) <= RawCapacity
      BY DEF PipeTypeOK
    <3>1. CASE Len(raw) < RawCapacity /\ raw' = Append(raw, p) /\ UNCHANGED rawParked
      <4>1. /\ raw' \in Seq(Packet) /\ Len(raw') = Len(raw) + 1
            /\ ToSet(raw') = ToSet(raw) \cup {p}
        BY <3>0, <3>1, AppendHolds
      <4>2. Len(raw') <= RawCapacity BY <3>0, <3>1, <4>1
      <4> QED BY <3>0, <3>1, <4>1, <4>2
    <3>2. CASE rawParked' = Append(rawParked, p) /\ UNCHANGED raw
      <4>1. rawParked' \in Seq(Packet) /\ ToSet(rawParked') = ToSet(rawParked) \cup {p}
        BY <3>0, <3>2, AppendHolds
      <4> QED BY <3>0, <3>2, <4>1
    <3> QED BY <2>1, <3>1, <3>2
  <2>3. PipeTypeOK' BY <1>1, <2>1, <2>2 DEF PipeTypeOK
  <2>4. ASSUME NEW q \in captured' PROVE Kept(q)' BY <1>1, <2>1, <2>2 DEF Kept, Held, Unparsed, Parsed
  <2> QED BY <1>2, <2>3, <2>4
<1> QED BY <1>3, <1>4

(* A handler's read moves a packet into its batch. *)
LEMMA TakesRawPreserves ==
    ASSUME PipeInv, NEW h \in Handler, TakesRaw(h),
           hpc' \in [Handler -> {"first", "more", "process", "parked", "exited"}],
           UNCHANGED <<device, offloaded, current, parsedChannel, writers, rows,
                       counts, stopping, faults>>
    PROVE  PipeInv'
<1> USE PipeAssumption
<1> USE DEF PipeInv, device, parsedChannel, writers, counts
<1>1. /\ raw # <<>> /\ raw' = AfterRead(raw, rawParked)
      /\ rawParked' = ParkedAfterRead(rawParked)
      /\ batch' = [batch EXCEPT ![h] = Append(@, Head(raw))]
  BY DEF TakesRaw
<1>2. raw \in Seq(Packet) /\ rawParked \in Seq(Packet) /\ batch \in [Handler -> Seq(Packet)]
      /\ Len(raw) <= RawCapacity
  BY DEF PipeTypeOK
<1>3. /\ Head(raw) \in Packet /\ raw' \in Seq(Packet) /\ rawParked' \in Seq(Packet)
      /\ Len(raw') <= Len(raw)
      /\ ToSet(raw) \cup ToSet(rawParked)
            = {Head(raw)} \cup ToSet(raw') \cup ToSet(rawParked')
  BY <1>1, <1>2, ReadHolds
<1>4. /\ batch' \in [Handler -> Seq(Packet)]
      /\ ToSet(batch'[h]) = ToSet(batch[h]) \cup {Head(raw)}
      /\ \A g \in Handler : g # h => batch'[g] = batch[g]
  <2> DEFINE s == Append(batch[h], Head(raw))
  <2>1. batch[h] \in Seq(Packet) BY <1>2
  <2>2. s \in Seq(Packet) /\ ToSet(s) = ToSet(batch[h]) \cup {Head(raw)}
    BY <1>3, <2>1, AppendHolds
  <2>3. batch' = [batch EXCEPT ![h] = s] BY <1>1
  <2> HIDE DEF s
  <2> QED BY <1>2, <2>2, <2>3
<1>5. Len(raw') <= RawCapacity BY <1>2, <1>3
<1>6. PipeTypeOK' BY <1>3, <1>4, <1>5 DEF PipeTypeOK
<1>7. RoomToRead' BY DEF RoomToRead
<1>8. ASSUME NEW p \in captured' PROVE Kept(p)'
  <2>1. Kept(p) OBVIOUS
  <2>2. \A g \in Handler : p \in ToSet(batch[g]) => p \in ToSet(batch'[g]) BY <1>4
  <2>3. p \in ToSet(raw) \cup ToSet(rawParked) =>
          p \in ToSet(raw') \cup ToSet(rawParked') \/ p \in ToSet(batch'[h])
    BY <1>3, <1>4
  <2> QED BY <2>1, <2>2, <2>3 DEF Kept, Held, Unparsed, Parsed
<1> QED BY <1>6, <1>7, <1>8

(* A handler drops a packet, forwards it or is parked with it. *)
LEMMA ProcessesPreserves ==
    ASSUME PipeInv, NEW h \in Handler, Processes(h) PROVE PipeInv'
<1> USE PipeAssumption
<1> USE DEF PipeInv
<1> DEFINE p == Head(batch[h])  s == Tail(batch[h])
<1>1. /\ batch[h] # <<>> /\ batch' = [batch EXCEPT ![h] = s]
      /\ \/ /\ dropped' = dropped \cup {p} /\ UNCHANGED <<hpc, current, parsed, parsedParked>>
         \/ /\ Len(parsed) < ParsedCapacity /\ parsed' = Append(parsed, p)
            /\ UNCHANGED <<hpc, current, parsedParked, dropped>>
         \/ /\ hpc' = [hpc EXCEPT ![h] = "parked"] /\ current' = [current EXCEPT ![h] = p]
            /\ parsedParked' = Append(parsedParked, p) /\ UNCHANGED <<parsed, dropped>>
  BY DEF Processes, RecordParseFailure, parsedChannel
<1>2. UNCHANGED <<captured, capturing, offloaded, raw, rawParked, wpc, buffer, sender, rows,
                  failed, stopping, faults>>
  BY DEF Processes, device, rawChannel, writers
<1>3. /\ batch \in [Handler -> Seq(Packet)] /\ batch[h] \in Seq(Packet)
      /\ parsed \in Seq(Packet) /\ Len(parsed) \in Nat /\ Len(parsed) <= ParsedCapacity
      /\ parsedParked \in Seq(Packet)
  BY DEF PipeTypeOK
<1>4. p \in Packet /\ s \in Seq(Packet) /\ ToSet(batch[h]) = {p} \cup ToSet(s)
  BY <1>1, <1>3, TailHolds
<1> HIDE DEF p, s
<1>5. /\ batch' \in [Handler -> Seq(Packet)]
      /\ ToSet(batch[h]) = {p} \cup ToSet(batch'[h])
      /\ \A g \in Handler : g # h => batch'[g] = batch[g]
  BY <1>1, <1>3, <1>4
<1>6. /\ parsed' \in Seq(Packet) /\ Len(parsed') <= ParsedCapacity /\ parsedParked' \in Seq(Packet)
      /\ dropped' \subseteq Packet
      /\ ToSet(parsed') \cup ToSet(parsedParked') \cup dropped'
            = ToSet(parsed) \cup ToSet(parsedParked) \cup dropped \cup {p}
  <2>0. dropped \subseteq Packet BY DEF PipeTypeOK
  <2>1. /\ Append(parsed, p) \in Seq(Packet) /\ Len(Append(parsed, p)) = Len(parsed) + 1
        /\ ToSet(Append(parsed, p)) = ToSet(parsed) \cup {p}
    BY <1>3, <1>4, AppendHolds
  <2>2. /\ Append(parsedParked, p) \in Seq(Packet)
        /\ ToSet(Append(parsedParked, p)) = ToSet(parsedParked) \cup {p}
    BY <1>3, <1>4, AppendHolds
  <2>3. CASE dropped' = dropped \cup {p} /\ UNCHANGED <<hpc, current, parsed, parsedParked>>
    BY <1>3, <1>4, <2>0, <2>3
  <2>4. CASE /\ Len(parsed) < ParsedCapacity /\ parsed' = Append(parsed, p)
             /\ UNCHANGED <<hpc, current, parsedParked, dropped>>
    <3>1. Len(Append(parsed, p)) <= ParsedCapacity BY <1>3, <2>1, <2>4
    <3> QED BY <1>3, <2>0, <2>1, <2>4, <3>1
  <2>5. CASE parsedParked' = Append(parsedParked, p) /\ UNCHANGED <<parsed, dropped>>
    BY <1>3, <2>0, <2>2, <2>5
  <2> QED BY <1>1, <2>3, <2>4, <2>5
<1>7. /\ hpc' \in [Handler -> {"first", "more", "process", "parked", "exited"}]
      /\ current' \in [Handler -> Packet \cup {None}]
  <2>1. /\ hpc \in [Handler -> {"first", "more", "process", "parked", "exited"}]
        /\ current \in [Handler -> Packet \cup {None}]
    BY DEF PipeTypeOK
  <2>2. \/ UNCHANGED <<hpc, current>>
        \/ hpc' = [hpc EXCEPT ![h] = "parked"] /\ current' = [current EXCEPT ![h] = p]
    BY <1>1
  <2> QED BY <1>4, <2>1, <2>2
<1>8. PipeTypeOK' BY <1>2, <1>5, <1>6, <1>7 DEF PipeTypeOK
<1>9. RoomToRead' BY <1>2 DEF RoomToRead
<1>10. ASSUME NEW q \in captured' PROVE Kept(q)'
  <2>1. Kept(q) BY <1>2
  <2>2. \A g \in Handler : q \in ToSet(batch[g]) => q \in ToSet(batch'[g]) \/ q = p
    BY <1>5
  <2>3. q = p \/ q \in ToSet(parsed) \cup ToSet(parsedParked) \cup dropped =>
          q \in ToSet(parsed') \cup ToSet(parsedParked') \cup dropped'
    BY <1>6
  <2> QED BY <1>2, <2>1, <2>2, <2>3 DEF Kept, Held, Unparsed, Parsed
<1> QED BY <1>8, <1>9, <1>10

(* A handler's other steps move no packet, but for the one whose write was *)
(* cancelled, which is counted.                                            *)
LEMMA HandlerPreserves ==
    ASSUME PipeInv, NEW h \in Handler, HandlerSteps(h) PROVE PipeInv'
<1>1. CASE ReadsFirst(h) \/ ReadsMore(h)
  <2>1. hpc' \in [Handler -> {"first", "more", "process", "parked", "exited"}]
    BY <1>1 DEF ReadsFirst, ReadsMore, PipeInv, PipeTypeOK
  <2> QED BY <1>1, <2>1, TakesRawPreserves DEF ReadsFirst, ReadsMore
<1>2. CASE Processes(h) BY <1>2, ProcessesPreserves
<1>3. CASE ReadsEnough(h) \/ Forwarded(h) \/ BatchDone(h) \/ HandlerExits(h)
  <2> USE DEF PipeInv
  <2>1. UNCHANGED <<captured, capturing, offloaded, raw, rawParked, batch, parsed, parsedParked,
                    wpc, buffer,
                    sender, rows, dropped, failed, stopping, faults>>
    BY <1>3
    DEF ReadsEnough, Forwarded, BatchDone, HandlerExits, device, rawChannel,
        parsedChannel, writers, counts
  <2>2. /\ hpc' \in [Handler -> {"first", "more", "process", "parked", "exited"}]
        /\ current' \in [Handler -> Packet \cup {None}]
    BY <1>3 DEF ReadsEnough, Forwarded, BatchDone, HandlerExits, PipeTypeOK
  <2>3. PipeTypeOK' BY <2>1, <2>2 DEF PipeTypeOK
  <2>4. RoomToRead' BY <2>1 DEF RoomToRead
  <2>5. ASSUME NEW p \in captured' PROVE Kept(p)' BY <2>1 DEF Kept, Held, Unparsed, Parsed
  <2> QED BY <2>3, <2>4, <2>5
<1>4. CASE Cancelled(h)
  <2> USE DEF PipeInv
  <2>1. UNCHANGED <<captured, capturing, offloaded, raw, rawParked, batch, parsed, wpc, buffer,
                    sender, rows, failed, stopping, faults>>
    BY <1>4 DEF Cancelled, device, rawChannel, writers
  <2>2. PICK i \in DOMAIN parsedParked :
          parsedParked[i] = current[h] /\ parsedParked' = RemoveAt(parsedParked, i)
    BY <1>4 DEF Cancelled
  <2>3. /\ hpc' = [hpc EXCEPT ![h] = "process"] /\ current' = [current EXCEPT ![h] = None]
        /\ dropped' = dropped \cup {parsedParked[i]}
    BY <1>4, <2>2 DEF Cancelled, RecordParseFailure
  <2>4. parsedParked \in Seq(Packet) /\ parsedParked[i] \in Packet BY DEF PipeTypeOK
  <2>5. /\ parsedParked' \in Seq(Packet)
        /\ ToSet(parsedParked) \subseteq ToSet(parsedParked') \cup {parsedParked[i]}
    BY <2>2, <2>4, RemoveHolds
  <2>6. PipeTypeOK' BY <2>1, <2>3, <2>4, <2>5 DEF PipeTypeOK
  <2>7. RoomToRead' BY <2>1 DEF RoomToRead
  <2>8. ASSUME NEW p \in captured' PROVE Kept(p)' BY <2>1, <2>3, <2>5 DEF Kept, Held, Unparsed, Parsed
  <2> QED BY <2>6, <2>7, <2>8
<1> QED BY <1>1, <1>2, <1>3, <1>4 DEF HandlerSteps

(* A writer's read moves a packet into its buffer, where there is room. *)
LEMMA ReadsPreserves ==
    ASSUME PipeInv, NEW w \in Writer, Reads(w) PROVE PipeInv'
<1> USE PipeAssumption
<1> USE DEF PipeInv
<1> DEFINE s == Append(buffer[w], Head(parsed))
<1>1. /\ parsed # <<>> /\ parsed' = AfterRead(parsed, parsedParked)
      /\ parsedParked' = ParkedAfterRead(parsedParked)
      /\ buffer' = [buffer EXCEPT ![w] = s] /\ wpc' = [wpc EXCEPT ![w] = "more"]
      /\ wpc[w] = "first" \/ (wpc[w] = "more" /\ Len(buffer[w]) < BatchSize)
  BY DEF Reads
<1>2. UNCHANGED <<captured, capturing, offloaded, raw, rawParked, hpc, batch, current, sender,
                  rows, dropped,
                  failed, stopping, faults>>
  BY DEF Reads, device, rawChannel, handlers, counts
<1>3. /\ parsed \in Seq(Packet) /\ parsedParked \in Seq(Packet)
      /\ buffer \in [Writer -> Seq(Packet)]
      /\ Len(parsed) <= ParsedCapacity /\ buffer[w] \in Seq(Packet)
  BY DEF PipeTypeOK
<1>4. /\ Head(parsed) \in Packet /\ parsed' \in Seq(Packet) /\ parsedParked' \in Seq(Packet)
      /\ Len(parsed') <= Len(parsed)
      /\ ToSet(parsed) \cup ToSet(parsedParked)
            = {Head(parsed)} \cup ToSet(parsed') \cup ToSet(parsedParked')
  BY <1>1, <1>3, ReadHolds
<1>5. /\ s \in Seq(Packet) /\ ToSet(s) = ToSet(buffer[w]) \cup {Head(parsed)}
      /\ Len(s) = Len(buffer[w]) + 1
  BY <1>3, <1>4, AppendHolds
<1> HIDE DEF s
<1>6. /\ buffer' \in [Writer -> Seq(Packet)] /\ buffer'[w] = s
      /\ \A v \in Writer : v # w => buffer'[v] = buffer[v]
  BY <1>1, <1>3, <1>5
<1>7. Len(parsed') <= ParsedCapacity BY <1>3, <1>4
<1>8. PipeTypeOK' BY <1>1, <1>2, <1>4, <1>6, <1>7 DEF PipeTypeOK
<1>9. RoomToRead'
  <2>1. Len(buffer[w]) < BatchSize BY <1>1 DEF RoomToRead
  <2>2. Len(buffer'[w]) <= BatchSize BY <1>3, <1>5, <1>6, <2>1
  <2>3. wpc'[w] = "more" /\ \A v \in Writer : v # w => wpc'[v] = wpc[v] BY <1>1 DEF PipeTypeOK
  <2> QED BY <1>6, <2>2, <2>3 DEF RoomToRead
<1>10. ASSUME NEW p \in captured' PROVE Kept(p)'
  <2>1. Kept(p) BY <1>2
  <2>2. \A v \in Writer : p \in ToSet(buffer[v]) => p \in ToSet(buffer'[v]) BY <1>5, <1>6
  <2>3. p \in ToSet(parsed) \cup ToSet(parsedParked) =>
          p \in ToSet(parsed') \cup ToSet(parsedParked') \/ p \in ToSet(buffer'[w])
    BY <1>4, <1>5, <1>6
  <2> QED BY <1>2, <2>1, <2>2, <2>3 DEF Kept, Held, Unparsed, Parsed
<1> QED BY <1>8, <1>9, <1>10

(* A commit stores what the buffer holds, and takes no row away. *)
LEMMA CommitsStores ==
    ASSUME PipeInv, NEW w \in Writer, WritesBatch(w)
    PROVE  /\ rows' \in [Packet -> Nat] /\ \A p \in Packet : rows[p] > 0 => rows'[p] > 0
           /\ \A p \in Packet : p \in ToSet(buffer[w]) => rows'[p] > 0
<1>1. rows \in [Packet -> Nat] BY DEF PipeInv, PipeTypeOK
<1>2. \A p \in Packet : rows'[p] = rows[p] + (IF p \in ToSet(buffer[w]) THEN 1 ELSE 0)
  BY DEF WritesBatch
<1>3. \A p \in Packet : rows'[p] \in Nat BY <1>1, <1>2
<1>4. rows' \in [Packet -> Nat] BY <1>3 DEF WritesBatch
<1> QED BY <1>1, <1>2, <1>4

(* A write that fails takes no row away, whether or not it was committed. *)
LEMMA UnseenKeeps ==
    ASSUME PipeInv, NEW w \in Writer, UNCHANGED rows \/ WritesBatch(w)
    PROVE  rows' \in [Packet -> Nat] /\ \A p \in Packet : rows[p] > 0 => rows'[p] > 0
BY CommitsStores DEF PipeInv, PipeTypeOK

(* A writer's steps that keep its buffer. *)
LEMMA WaitsPreserve ==
    ASSUME PipeInv, NEW w \in Writer,
           Starts(w) \/ SenderFails(w) \/ Wakes(w) \/ ReadsEnd(w) \/ Ticks(w) \/ FlushFails(w)
           \/ RetryCancelled(w) \/ WriterStops(w)
    PROVE  PipeInv'
<1> USE PipeAssumption
<1> USE DEF PipeInv
<1>1. UNCHANGED <<captured, capturing, offloaded, raw, rawParked, hpc, batch, current, parsed,
                  parsedParked,
                  buffer, dropped, stopping>>
  BY DEF Starts, SenderFails, Wakes, ReadsEnd, Ticks, FlushFails, RetryCancelled, WriterStops, device,
         rawChannel, handlers, parsedChannel, counts
<1>2. UNCHANGED rows \/ WritesBatch(w)
  BY DEF Starts, SenderFails, Wakes, ReadsEnd, Ticks, FlushFails, RetryCancelled, WriterStops, WriteFails,
         CommittedUnseen
<1>3. rows' \in [Packet -> Nat] /\ \A p \in Packet : rows[p] > 0 => rows'[p] > 0
  BY <1>2, UnseenKeeps
<1>4. failed \subseteq failed' /\ failed' \subseteq Packet
  <2>1. ToSet(buffer[w]) \subseteq Packet BY DEF PipeTypeOK, ToSet
  <2> QED BY <2>1
          DEF Starts, SenderFails, Wakes, ReadsEnd, Ticks, FlushFails, RetryCancelled, WriterStops, counts,
              RecordFlushFailure, PipeTypeOK
<1>5. faults' \in 0..MaxFaults
  BY DEF Starts, SenderFails, Wakes, ReadsEnd, Ticks, FlushFails, RetryCancelled, WriterStops, WriteFails,
         PipeTypeOK
<1>6. PICK to \in {"wait", "first", "more", "flush", "retry", "final", "finalRetry", "exited", "dead"} :
        /\ wpc' = [wpc EXCEPT ![w] = to]
        /\ to = "wait" => \/ wpc[w] = "start"
                          \/ wpc[w] \in {"first", "more"} /\ ~(Len(buffer[w]) >= BatchSize)
        /\ to = "first" => wpc[w] = "wait"
  BY DEF Starts, SenderFails, Wakes, ReadsEnd, Ticks, FlushFails, RetryCancelled, WriterStops, ShouldFlush
<1>7. sender' \in [Writer -> {"none", "open", "disposed"}]
  BY DEF Starts, SenderFails, Wakes, ReadsEnd, Ticks, FlushFails, RetryCancelled, WriterStops, PipeTypeOK
<1>8. PipeTypeOK' BY <1>1, <1>3, <1>4, <1>5, <1>6, <1>7 DEF PipeTypeOK
<1>9. RoomToRead'
  <2>1. Len(buffer[w]) \in Nat BY DEF PipeTypeOK
  <2>2. to \in {"wait", "first"} => Len(buffer[w]) < BatchSize BY <1>6, <2>1 DEF RoomToRead
  <2>3. wpc'[w] = to /\ \A v \in Writer : v # w => wpc'[v] = wpc[v] BY <1>6 DEF PipeTypeOK
  <2> QED BY <1>1, <2>2, <2>3 DEF RoomToRead
<1>10. ASSUME NEW p \in captured' PROVE Kept(p)'
  <2>1. Kept(p) /\ p \in Packet BY <1>1 DEF PipeTypeOK
  <2> QED BY <1>1, <1>3, <1>4, <2>1 DEF Kept, Held, Unparsed, Parsed
<1> QED BY <1>8, <1>9, <1>10

(* A writer's steps that empty its buffer: it was stored, or counted. *)
LEMMA FlushesPreserve ==
    ASSUME PipeInv, NEW w \in Writer,
           Flushes(w) \/ FlushErrs(w) \/ RetriesFlush(w) \/ RetryFails(w)
           \/ FinalFlushes(w) \/ FinalFlushFails(w)
    PROVE  PipeInv'
<1> USE PipeAssumption
<1> USE DEF PipeInv
<1>1. UNCHANGED <<captured, capturing, offloaded, raw, rawParked, hpc, batch, current, parsed,
                  parsedParked,
                  sender, dropped, stopping>>
  BY DEF Flushes, FlushErrs, RetriesFlush, RetryFails, FinalFlushes, FinalFlushFails,
         device, rawChannel, handlers, parsedChannel, counts
<1>2. buffer' = [buffer EXCEPT ![w] = <<>>]
  BY DEF Flushes, FlushErrs, RetriesFlush, RetryFails, FinalFlushes, FinalFlushFails
<1>3. \/ WritesBatch(w) /\ UNCHANGED failed
      \/ (UNCHANGED rows \/ WritesBatch(w)) /\ failed' = failed \cup ToSet(buffer[w])
  BY DEF Flushes, FlushErrs, RetriesFlush, RetryFails, FinalFlushes, FinalFlushFails,
         WriteFails, CommittedUnseen, RecordFlushFailure, counts
<1>4. ToSet(buffer[w]) \subseteq Packet BY DEF PipeTypeOK, ToSet
<1>5. /\ rows' \in [Packet -> Nat] /\ failed \subseteq failed' /\ failed' \subseteq Packet
      /\ \A p \in Packet : rows[p] > 0 => rows'[p] > 0
      /\ \A p \in Packet : p \in ToSet(buffer[w]) => rows'[p] > 0 \/ p \in failed'
  <2>1. CASE WritesBatch(w) /\ UNCHANGED failed BY <2>1, CommitsStores DEF PipeTypeOK
  <2>2. CASE (UNCHANGED rows \/ WritesBatch(w)) /\ failed' = failed \cup ToSet(buffer[w])
    BY <1>4, <2>2, UnseenKeeps DEF PipeTypeOK
  <2> QED BY <1>3, <2>1, <2>2
<1>6. faults' \in 0..MaxFaults
  BY DEF Flushes, FlushErrs, RetriesFlush, RetryFails, FinalFlushes, FinalFlushFails,
         WriteFails, PipeTypeOK
<1>7. PICK to \in {"wait", "exited", "dead"} : wpc' = [wpc EXCEPT ![w] = to]
  BY DEF Flushes, FlushErrs, RetriesFlush, RetryFails, FinalFlushes, FinalFlushFails
<1>8. /\ buffer' \in [Writer -> Seq(Packet)] /\ buffer'[w] = <<>>
      /\ \A v \in Writer : v # w => buffer'[v] = buffer[v]
  BY <1>2 DEF PipeTypeOK
<1>9. PipeTypeOK' BY <1>1, <1>5, <1>6, <1>7, <1>8 DEF PipeTypeOK
<1>10. RoomToRead'
  <2>1. Len(buffer'[w]) < BatchSize /\ Len(buffer'[w]) <= BatchSize BY <1>8
  <2>2. \A v \in Writer : v # w => wpc'[v] = wpc[v] BY <1>7 DEF PipeTypeOK
  <2> QED BY <1>8, <2>1, <2>2 DEF RoomToRead
<1>11. ASSUME NEW p \in captured' PROVE Kept(p)'
  <2>1. Kept(p) /\ p \in Packet BY <1>1 DEF PipeTypeOK
  <2>2. CASE \E v \in Writer : p \in ToSet(buffer[v])
    <3>1. PICK v \in Writer : p \in ToSet(buffer[v]) BY <2>2
    <3>2. CASE v = w BY <1>5, <2>1, <3>1, <3>2 DEF Kept
    <3>3. CASE v # w BY <1>8, <3>1, <3>3 DEF Kept, Held, Unparsed, Parsed
    <3> QED BY <3>2, <3>3
  <2>3. CASE ~\E v \in Writer : p \in ToSet(buffer[v])
    BY <1>1, <1>5, <2>1, <2>3 DEF Kept, Held, Unparsed, Parsed
  <2> QED BY <2>2, <2>3
<1> QED BY <1>9, <1>10, <1>11

(* A stuttering step keeps IInv: it reads nothing but the variables. *)
LEMMA PipeStutters == PipeInv /\ UNCHANGED pipeVars => PipeInv'
BY DEF PipeInv, PipeTypeOK, RoomToRead, Kept, Held, Unparsed, Parsed, pipeVars, device, rawChannel,
       handlers, parsedChannel, writers, counts

(* IInv is inductive, so it holds of every reachable state. *)
THEOREM PipeInductive == PipeSpec => []PipeInv
<1>1. PipeInv /\ [PipeNext]_pipeVars => PipeInv'
  BY DevicePreserves, HandlerPreserves, ReadsPreserves, WaitsPreserve, FlushesPreserve,
     PipeStutters
     DEF PipeNext, WriterSteps
<1> QED BY PipeStarts, <1>1, PTL DEF PipeSpec

(* Every variable keeps its type, and the channels their bounds. *)
THEOREM PipeTypeCorrect == PipeSpec => []PipeTypeOK
BY PipeInductive, PTL DEF PipeInv

(* A handler ends between batches, and once the host stops. *)
LEMMA HandlersEnd == ASSUME PipeTypeOK, Endings, NEW h \in Handler, HandlerSteps(h) PROVE Endings'
<1>1. UNCHANGED <<wpc, buffer, sender, stopping>>
  BY DEF HandlerSteps, ReadsFirst, ReadsMore, ReadsEnough, Processes, Forwarded, Cancelled, BatchDone,
         HandlerExits, writers
<1>2. \A g \in Handler : g # h => hpc'[g] = hpc[g] /\ batch'[g] = batch[g]
  BY DEF HandlerSteps, ReadsFirst, ReadsMore, ReadsEnough, Processes, Forwarded, Cancelled, BatchDone,
         HandlerExits, TakesRaw, PipeTypeOK
<1>3. /\ hpc'[h] = "exited" => stopping
      /\ hpc'[h] \in {"first", "exited"} => batch'[h] = <<>>
  <2>1. CASE BatchDone(h) \/ HandlerExits(h) BY <2>1 DEF BatchDone, HandlerExits, PipeTypeOK, Endings
  <2>2. CASE ~(BatchDone(h) \/ HandlerExits(h))
    <3>1. hpc'[h] \in {"more", "process", "parked"}
      BY <2>2 DEF HandlerSteps, ReadsFirst, ReadsMore, ReadsEnough, Processes, Forwarded, Cancelled,
                  PipeTypeOK
    <3> QED BY <3>1
  <2> QED BY <2>1, <2>2
<1> QED BY <1>1, <1>2, <1>3 DEF Endings

(* A writer ends once the host stops, or dies: its batch empty, or its     *)
(* sender disposed.                                                        *)
LEMMA WritersEnd == ASSUME PipeTypeOK, Endings, NEW w \in Writer, WriterSteps(w) PROVE Endings'
<1>1. UNCHANGED <<hpc, batch, stopping>>
  BY DEF WriterSteps, Starts, SenderFails, Wakes, Reads, ReadsEnd, Ticks, Flushes, FlushFails, FlushErrs,
         RetriesFlush, RetryFails, RetryCancelled, WriterStops, FinalFlushes, FinalFlushFails, handlers
<1>2. \A v \in Writer : v # w => wpc'[v] = wpc[v] /\ buffer'[v] = buffer[v] /\ sender'[v] = sender[v]
  BY DEF WriterSteps, Starts, SenderFails, Wakes, Reads, ReadsEnd, Ticks, Flushes, FlushFails, FlushErrs,
         RetriesFlush, RetryFails, RetryCancelled, WriterStops, FinalFlushes, FinalFlushFails, PipeTypeOK
<1> DEFINE Good ==
      /\ wpc'[w] \in {"final", "finalRetry", "exited"} => stopping
      /\ wpc'[w] # "start"
      /\ wpc'[w] \in {"retry", "finalRetry"} => sender'[w] = "disposed"
      /\ wpc'[w] = "dead" => buffer'[w] = <<>> \/ stopping \/ sender'[w] = "disposed"
<1>3. CASE Starts(w) \/ Wakes(w) \/ Reads(w) \/ ReadsEnd(w) \/ Ticks(w)
  <2>1. wpc'[w] \in {"wait", "first", "more", "flush"}
    BY <1>3 DEF Starts, Wakes, Reads, ReadsEnd, Ticks, PipeTypeOK
  <2> QED BY <1>1, <1>2, <2>1 DEF Endings
<1>4. CASE SenderFails(w)
  <2>1. Good BY <1>1, <1>4 DEF SenderFails, Endings, PipeTypeOK
  <2> QED BY <1>1, <1>2, <2>1 DEF Endings
<1>5. CASE FlushFails(w)
  <2>1. Good BY <1>1, <1>5 DEF FlushFails, Endings, PipeTypeOK
  <2> QED BY <1>1, <1>2, <2>1 DEF Endings
<1>6. CASE Flushes(w) \/ FlushErrs(w) \/ RetriesFlush(w) \/ RetryFails(w) \/ RetryCancelled(w)
  <2>1. Good BY <1>1, <1>6 DEF Flushes, FlushErrs, RetriesFlush, RetryFails, RetryCancelled, Endings, PipeTypeOK
  <2> QED BY <1>1, <1>2, <2>1 DEF Endings
<1>7. CASE WriterStops(w)
  <2>1. stopping /\ wpc'[w] \in {"exited", "dead", "final"} BY <1>7 DEF WriterStops, PipeTypeOK
  <2> QED BY <1>1, <1>2, <2>1 DEF Endings
<1>8. CASE FinalFlushes(w) \/ FinalFlushFails(w)
  <2>1. Good BY <1>1, <1>8 DEF FinalFlushes, FinalFlushFails, Endings, PipeTypeOK
  <2> QED BY <1>1, <1>2, <2>1 DEF Endings
<1> QED BY <1>3, <1>4, <1>5, <1>6, <1>7, <1>8 DEF WriterSteps

(* So every worker's end is accounted for, in every reachable state. *)
LEMMA EndingsHold == PipeSpec => []Endings
<1>1. PipeInit => Endings BY DEF PipeInit, Endings
<1>2. ASSUME PipeTypeOK, Endings, [PipeNext]_pipeVars PROVE Endings'
  <2>1. CASE DeviceSteps \/ Stop \/ \E p \in Packet : OnNext(p)
    <3>1. UNCHANGED <<hpc, batch, wpc, buffer, sender>> /\ (stopping => stopping')
      BY <2>1 DEF DeviceSteps, Subscribe, Unsubscribe, Arrives, Stop, OnNext, handlers, writers
    <3> QED BY <1>2, <3>1 DEF Endings
  <2>2. CASE UNCHANGED pipeVars BY <1>2, <2>2 DEF Endings, pipeVars, handlers, writers
  <2> QED BY <1>2, <2>1, <2>2, HandlersEnd, WritersEnd DEF PipeNext
<1> QED BY <1>1, <1>2, PipeTypeCorrect, PTL DEF PipeSpec

(* A captured packet has a worker to take it on, is stored or counted, or  *)
(* is left behind where it may be, for any number of packets, workers and  *)
(* faults and any sizes of the channels and batches.                       *)
THEOREM NoneVanishes == PipeSpec => []NothingVanishes
<1>1. PipeInv /\ Endings => NothingVanishes
  <2> SUFFICES ASSUME PipeInv, Endings, NEW p \in captured, Settled(p) = 0
               PROVE  OnItsWay(p) \/ DiedWith(p) \/ ((stopping \/ AllDead) /\ LeftBehind(p))
    <3>1. PipeInv => \A p \in captured : Settled(p) \in Nat BY DEF PipeInv, PipeTypeOK, Settled, One
    <3> QED BY <3>1 DEF NothingVanishes
  <2>1. Held(p)
    <3>1. rows[p] \in Nat /\ Kept(p) BY DEF PipeInv, PipeTypeOK
    <3> QED BY <3>1 DEF Kept, Settled, One
  <2>2. CASE p \in Unparsed
    <3>1. CASE \E h \in Handler : hpc[h] # "exited"
      <4>1. OnItsWay(p) BY <2>2, <3>1 DEF OnItsWay
      <4> QED BY Zenon, <4>1
    <3>2. CASE \A h \in Handler : hpc[h] = "exited"
      <4>1. stopping BY <3>2, PipeAssumption DEF Endings
      <4> QED BY <2>2, <4>1 DEF LeftBehind
    <3> QED BY <3>1, <3>2
  <2>3. ASSUME NEW h \in Handler, p \in ToSet(batch[h]) PROVE OnItsWay(p)
    <3>1. batch[h] # <<>> BY <2>3 DEF ToSet
    <3> QED BY <2>3, <3>1 DEF Endings, OnItsWay
  <2>4. CASE p \in Parsed
    <3>1. CASE \E w \in Writer : ~Ended(w)
      <4>1. OnItsWay(p) BY <2>4, <3>1 DEF OnItsWay
      <4> QED BY Zenon, <4>1
    <3>2. CASE \A w \in Writer : Ended(w)
      <4>1. stopping \/ AllDead BY <3>2 DEF Ended, AllDead, Endings
      <4> QED BY <2>4, <4>1 DEF LeftBehind
    <3> QED BY <3>1, <3>2
  <2>5. ASSUME NEW w \in Writer, p \in ToSet(buffer[w])
        PROVE  OnItsWay(p) \/ DiedWith(p) \/ ((stopping \/ AllDead) /\ LeftBehind(p))
    <3>1. buffer[w] # <<>> BY <2>5 DEF ToSet
    <3>2. CASE ~Ended(w)
      <4>1. OnItsWay(p) BY <2>5, <3>2 DEF OnItsWay
      <4> QED BY Zenon, <4>1
    <3>3. CASE Ended(w)
      <4>1. LeftBehind(p) BY <2>5, <3>3 DEF LeftBehind
      <4>2. stopping \/ (wpc[w] = "dead" /\ sender[w] = "disposed") BY <3>1, <3>3 DEF Ended, Endings
      <4> QED BY <2>5, <4>1, <4>2 DEF DiedWith
    <3> QED BY <3>2, <3>3
  <2>6. CASE \E h \in Handler : p \in ToSet(batch[h])
    <3>1. OnItsWay(p) BY <2>3, <2>6
    <3> QED BY Zenon, <3>1
  <2>7. CASE \E w \in Writer : p \in ToSet(buffer[w]) BY Zenon, <2>5, <2>7
  <2> QED BY Zenon, <2>1, <2>2, <2>4, <2>6, <2>7 DEF Held
<1> QED BY PipeInductive, EndingsHold, <1>1, PTL

(* ReadFromChannel never writes past the end of its buffer. *)
THEOREM NoneOverruns == PipeSpec => []NeverOverrun
<1>1. PipeInv => NeverOverrun BY DEF PipeInv, RoomToRead, NeverOverrun
<1> QED BY PipeInductive, <1>1, PTL

=============================================================================
