---------------------------- MODULE SessionLive ----------------------------
(***************************************************************************)
(* A window that follows an active Session: core/live.py and routers/      *)
(* live.py on the backend, hooks/useSessionLive.ts in the frontend.  The   *)
(* rows are those of RankedHoles.  A request commits, and only then        *)
(* publishes its event, so events can be published out of order; the hub   *)
(* queues them for the window's stream, which may drop at any time; the    *)
(* window patches its cached copy with each event and refetches when the   *)
(* event alone is not enough.  The operator acts in another window.        *)
(***************************************************************************)
EXTENDS Integers, FiniteSets, Sequences

CONSTANTS
    Hole,          \* Bullet Hole ids; a report's key, made for it alone, is named by its id
    NoKey,
    NoView,        \* the cache before the Session was ever fetched
    End,           \* the None that ends a stream
    QueueSize,     \* QUEUE_SIZE: what a subscriber may fall behind by
    MaxPending,    \* bound: requests that committed and have not yet published
    Requests       \* the requests made: "report", "retry", "delete", "complete", "reopen", "move"

ASSUME SizeAssumption == QueueSize \in Nat \ {0} /\ MaxPending \in Nat \ {0}
ASSUME RequestAssumption ==
    Requests \subseteq {"report", "retry", "delete", "complete", "reopen", "move"}

VARIABLES
    status,          \* Session.status in the database
    rank, key, deleted,   \* its Bullet Holes
    pending,         \* the events of requests that have committed
    subscribed,      \* LiveHub._subscribers has the stream's queue
    queue,           \* that queue, and what of it is on its way
    stream,          \* the window's EventSource, or off while the hook is not enabled
    view,            \* the cached Session, as the window shows it
    fetch,           \* the query's fetch: none, asked, or read and not yet answered
    snapshot,        \* what the fetch read
    awaited,         \* a reconcile awaits the fetch, to try again if it fails
    outcome,         \* the query's status once the last fetch settled
    timer            \* reconcileTimer is set

Rowset == INSTANCE RankedHoles WITH Key <- Hole

database == <<status, rank, key, deleted>>
hub == <<subscribed, queue>>
query == <<fetch, snapshot, awaited, outcome>>
vars == <<database, pending, hub, stream, view, query, timer>>

Copy == [rank : [Hole -> Nat], status : {"active", "completed"}]

ASSUME NoViewAssumption == NoView \notin Copy

Event ==
    [type : {"bullet_created"}, hole : Hole, rank : Nat]
    \cup [type : {"bullet_deleted"}, hole : Hole]
    \cup [type : {"session_updated"}, status : {"active", "completed"}]
    \cup [type : {"run_moved"}]

(* What each variable holds; the hub's queue is bounded. *)
TypeOK ==
    /\ status \in {"active", "completed"}
    /\ rank \in [Hole -> Nat] /\ key \in [Hole -> Hole \cup {NoKey}] /\ deleted \subseteq Hole
    /\ pending \subseteq Event /\ Cardinality(pending) <= MaxPending
    /\ subscribed \in BOOLEAN
    /\ queue \in Seq(Event \cup {End}) /\ Len(queue) <= QueueSize
    /\ stream \in {"off", "connecting", "answered", "open", "refused"}
    /\ view \in Copy \cup {NoView} /\ snapshot \in Copy \cup {NoView}
    /\ fetch \in {"none", "asked", "read"}
    /\ awaited \in BOOLEAN /\ timer \in BOOLEAN
    /\ outcome \in {"pending", "success", "error"}

(* GET /sessions/{id}: the Session with the Bullet Holes not deleted. *)
Stored == [rank |-> [h \in Hole |-> IF h \in Rowset!Live THEN rank[h] ELSE 0],
           status |-> status]

Init ==
    /\ status = "active" /\ Rowset!Init
    /\ pending = {} /\ subscribed = FALSE /\ queue = <<>>
    /\ stream = "off" /\ view = NoView
    /\ fetch = "asked" /\ snapshot = NoView /\ awaited = FALSE /\ outcome = "pending"
    /\ timer = FALSE

-----------------------------------------------------------------------------
(* The requests, each up to its commit; what it will publish is pending.   *)
Commits(request, event) ==
    /\ request \in Requests /\ Cardinality(pending) < MaxPending
    /\ pending' = pending \cup {event}
    /\ UNCHANGED <<hub, stream, view, query, timer>>

Reports(h) ==
    /\ status = "active" /\ Rowset!Add(h, h)
    /\ Commits("report", [type |-> "bullet_created", hole |-> h, rank |-> rank'[h]])
    /\ UNCHANGED status

(* A POST tried again, its answer lost: the row is read and sent again. *)
Retries(h) ==
    /\ status = "active" /\ h \in Rowset!Rows
    /\ Commits("retry", [type |-> "bullet_created", hole |-> h, rank |-> rank[h]])
    /\ UNCHANGED database

Deletes(h) ==
    /\ Rowset!Remove(h)
    /\ Commits("delete", [type |-> "bullet_deleted", hole |-> h])
    /\ UNCHANGED status

Completes ==
    /\ status = "active" /\ status' = "completed"
    /\ Commits("complete", [type |-> "session_updated", status |-> "completed"])
    /\ UNCHANGED <<rank, key, deleted>>

Reopens ==
    /\ status = "completed" /\ status' = "active"
    /\ Commits("reopen", [type |-> "session_updated", status |-> "active"])
    /\ UNCHANGED <<rank, key, deleted>>

(* detection_sync kept a place of the Board; no column of this model changes. *)
Moves ==
    /\ status = "active"
    /\ Commits("move", [type |-> "run_moved"])
    /\ UNCHANGED database

Request ==
    \/ \E h \in Hole : Reports(h) \/ Retries(h) \/ Deletes(h)
    \/ Completes \/ Reopens \/ Moves

-----------------------------------------------------------------------------
(* Mutant: a full queue drops the event. *)
QueuesWhatFits(event) ==
    /\ queue' = IF subscribed /\ Len(queue) < QueueSize THEN Append(queue, event) ELSE queue
    /\ UNCHANGED subscribed

(* LiveHub.publish: a subscriber that fell behind is cut off. *)
Queues(event) ==
    \/ ~subscribed /\ UNCHANGED hub
    \/ /\ subscribed /\ Len(queue) < QueueSize
       /\ queue' = Append(queue, event) /\ UNCHANGED subscribed
    \/ /\ subscribed /\ Len(queue) = QueueSize
       /\ subscribed' = FALSE /\ queue' = <<End>>

(* publish_from_thread: the request's thread waits for the event loop. *)
Publishes(event) ==
    /\ event \in pending /\ pending' = pending \ {event}
    /\ Queues(event)
    /\ UNCHANGED <<database, stream, view, query, timer>>

(* session_live: subscribed before the response starts. *)
Answers ==
    /\ stream = "connecting"
    /\ stream' = "answered" /\ subscribed' = TRUE /\ queue' = <<>>
    /\ UNCHANGED <<database, pending, view, query, timer>>

-----------------------------------------------------------------------------
(* Mutant: a reconcile whose fetch is not tried again. *)
ReconcileOnce ==
    /\ fetch' = "asked" /\ snapshot' = NoView /\ awaited' = FALSE /\ timer' = FALSE

(* reconcile: a fetch in flight is cancelled, its answer thrown away. *)
Reconcile ==
    /\ fetch' = "asked" /\ snapshot' = NoView /\ awaited' = TRUE /\ timer' = FALSE

FetchReads ==
    /\ fetch = "asked" /\ fetch' = "read" /\ snapshot' = Stored
    /\ UNCHANGED <<database, pending, hub, stream, view, awaited, outcome, timer>>

FetchAnswers ==
    /\ fetch = "read" /\ view' = snapshot
    /\ fetch' = "none" /\ snapshot' = NoView /\ awaited' = FALSE /\ outcome' = "success"
    /\ UNCHANGED <<database, pending, hub, stream, timer>>

(* What the hook's enabled says and what its effect has done differ only   *)
(* until React renders again.                                              *)
Enabled == view # NoView /\ view.status = "active"
RenderDue == Enabled # (stream # "off")

(* Every attempt failed, which takes seconds: the window rendered          *)
(* meanwhile.  A reconcile that still runs sets its timer.                 *)
FetchFails ==
    /\ fetch # "none" /\ ~RenderDue
    /\ fetch' = "none" /\ snapshot' = NoView /\ awaited' = FALSE /\ outcome' = "error"
    /\ timer' = (timer \/ (awaited /\ stream # "off"))
    /\ UNCHANGED <<database, pending, hub, stream, view>>

(* The Retry button of the page that could not load its Session. *)
OperatorRetries ==
    /\ view = NoView /\ fetch = "none" /\ fetch' = "asked"
    /\ UNCHANGED <<database, pending, hub, stream, view, snapshot, awaited, outcome, timer>>

TimerFires ==
    /\ timer /\ Reconcile
    /\ UNCHANGED <<database, pending, hub, stream, view, outcome>>

-----------------------------------------------------------------------------
(* The effect of useSessionLive: connect, and its cleanup. *)
Listens ==
    /\ Enabled /\ stream = "off" /\ stream' = "connecting"
    /\ UNCHANGED <<database, pending, hub, view, query, timer>>

StopsListening ==
    /\ ~Enabled /\ stream # "off"
    /\ stream' = "off" /\ timer' = FALSE /\ subscribed' = FALSE /\ queue' = <<>>
    /\ UNCHANGED <<database, pending, view, query>>

(* onopen: catch up on what happened before this stream was listening. *)
Opens ==
    /\ stream = "answered" /\ stream' = "open" /\ Reconcile
    /\ UNCHANGED <<database, pending, hub, view, outcome>>

(* The connection is lost, or silent for too long: the browser, or the     *)
(* hook, connects again.                                                   *)
Drops ==
    /\ stream \in {"connecting", "answered", "open"}
    /\ stream' = "connecting" /\ subscribed' = FALSE /\ queue' = <<>>
    /\ UNCHANGED <<database, pending, view, query, timer>>

(* The backend answers with an error, and refused asks for the Session,    *)
(* unless a fetch is in flight or the cached copy is fresh.  Nothing tries *)
(* this fetch again: the stream does when it opens.                        *)
Refuses ==
    /\ stream = "connecting" /\ stream' = "refused"
    /\ \/ UNCHANGED query
       \/ /\ fetch = "none" /\ fetch' = "asked"
          /\ UNCHANGED <<snapshot, awaited, outcome>>
    /\ UNCHANGED <<database, pending, hub, view, timer>>

Reconnects ==
    /\ stream = "refused" /\ stream' = "connecting"
    /\ UNCHANGED <<database, pending, hub, view, query, timer>>

(* upsertBullet, removeBullet and the rest of applyEvent *)
Applied(copy, event) ==
    CASE event.type = "bullet_created" -> [copy EXCEPT !.rank[event.hole] = event.rank]
      [] event.type = "bullet_deleted" ->
            IF copy.rank[event.hole] = 0 THEN copy
            ELSE [copy EXCEPT !.rank = [h \in Hole |->
                    IF h = event.hole THEN 0
                    ELSE IF copy.rank[h] > copy.rank[event.hole] THEN copy.rank[h] - 1
                    ELSE copy.rank[h]]]
      [] event.type = "session_updated" -> [copy EXCEPT !.status = event.status]
      [] event.type = "run_moved" -> copy

(* A plain new Bullet Hole needs no refetch, unless one in flight may have *)
(* read the database before it.                                            *)
Confirms(event) == event.type # "bullet_created" \/ fetch # "none"

(* onmessage: on screen at once, then confirmed. *)
Receives ==
    /\ stream = "open" /\ queue # <<>> /\ Head(queue) # End
    /\ queue' = Tail(queue)
    /\ view' = Applied(view, Head(queue)) /\ outcome' = "success"
    /\ \/ Confirms(Head(queue)) /\ Reconcile
       \/ ~Confirms(Head(queue)) /\ UNCHANGED <<fetch, snapshot, awaited, timer>>
    /\ UNCHANGED <<database, pending, subscribed, stream>>

(* The stream ends: a lost connection to the browser. *)
ReceivesEnd ==
    /\ stream = "open" /\ queue = <<End>>
    /\ stream' = "connecting" /\ queue' = <<>>
    /\ UNCHANGED <<database, pending, subscribed, view, query, timer>>

-----------------------------------------------------------------------------
Window ==
    \/ Answers \/ FetchReads \/ FetchAnswers \/ OperatorRetries \/ TimerFires
    \/ Listens \/ StopsListening \/ Opens \/ Reconnects \/ Receives \/ ReceivesEnd

Fault == FetchFails \/ Drops \/ Refuses

Next ==
    \/ Request
    \/ \E event \in pending : Publishes(event)
    \/ Window
    \/ Fault

(* Everything that is under way is finished; nothing need be asked or      *)
(* fail, and nobody need press Retry.                                      *)
FairSpec ==
    /\ Init /\ [][Next]_vars
    /\ WF_vars(\E event \in pending : Publishes(event))
    /\ WF_vars(Answers) /\ WF_vars(Opens) /\ WF_vars(Reconnects)
    /\ WF_vars(FetchReads) /\ WF_vars(FetchAnswers) /\ WF_vars(TimerFires)
    /\ WF_vars(Listens) /\ WF_vars(StopsListening)
    /\ WF_vars(Receives) /\ WF_vars(ReceivesEnd)

Spec == Init /\ [][Next]_vars

-----------------------------------------------------------------------------
Shown == IF view = NoView THEN {} ELSE {h \in Hole : view.rank[h] # 0}

(* Nothing the window waits for, or that is on its way to it. *)
Quiet == pending = {} /\ stream = "open" /\ queue = <<>> /\ fetch = "none" /\ ~timer

(* A window with an open stream and nothing under way shows the Session as *)
(* it is stored, although no event is replayed, the plain ones are never   *)
(* confirmed, and fetches overtake events and fail.                        *)
QuietIsCurrent == Quiet => view = Stored

(* Whatever is deleted or retried, completed or reopened, a quiet window   *)
(* misses no Bullet Hole and shows the Session's status: the backend's     *)
(* events are published after their commit and in any order, and the       *)
(* window's fetches overtake them.                                         *)
NothingMissing == Quiet => view.status = status /\ Rowset!Live \subseteq Shown

(* The page that could not load its Session and offers Retry. *)
FailedPage == view = NoView /\ fetch = "none"

(* Once requests and faults stop, the window of an active Session comes to *)
(* show every Bullet Hole and the Session's status as they are stored, and *)
(* goes on showing them; only a window that never loaded its Session, and  *)
(* whose operator does not press Retry, stays on the page that says so.    *)
(* That of a completed one has its hook stopped.                           *)
Well == ~Request /\ ~Fault
CatchesUp ==
    <>[][Well]_vars /\ [](status = "active") =>
        \/ <>[]FailedPage
        \/ <>[](view # NoView /\ view.status = status /\ Rowset!Live \subseteq Shown)
=============================================================================
