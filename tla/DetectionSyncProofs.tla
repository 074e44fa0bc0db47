------------------------- MODULE DetectionSyncProofs -------------------------
(***************************************************************************)
(* Proofs about DetectionSync, for any Sessions, any number of request     *)
(* threads and any of the faults; that no loss is silent, for requests     *)
(* that do not meet on one Session.  Then about DetectionService, the      *)
(* service on the other side of the calls: it is the RunHolder that        *)
(* DetectionSync takes it for.                                             *)
(***************************************************************************)
EXTENDS DetectionSync, DetectionService, TLAPS

(* A Session that was committed: no step takes one back to absent. *)
Known(s) == s \in Session /\ status[s] # "absent"

(* Where a thread works on a Session, that Session was committed: so was   *)
(* the one whose background task runs.                                     *)
ThreadsKnow ==
    /\ \A p \in Process : pc[p] \notin {"idle", "read", "judge", "decide"} => Known(at[p])
    /\ \A s \in Session : pc[s] # "idle" => Known(s)

(* A thread has a call under way only where it waits for one. *)
CallersWait ==
    \A p \in Process :
        rpc[p] # "idle" => pc[p] \in {"asking", "undoing", "ending", "endingDelete", "endOther"}

(* So was the Session of every call still on its way, and the one the tick *)
(* read as active.                                                         *)
CallsKnow ==
    /\ \A x \in strays : Known(x[2])
    /\ seen.active # NoSession => Known(seen.active)

IInv == TypeOK /\ ThreadsKnow /\ CallersWait /\ CallsKnow /\ RunsAreKnown /\ WatchedIsShown
-----------------------------------------------------------------------------
(* A backend just started knows no Session and watches none. *)
LEMMA InitEstablishes == Init => IInv
<1> USE NoSessionAssumption, TickAssumption DEF Init, Process, Watcher, Known
<1>1. Service!Init => held = Service!Free /\ Service!TypeOK /\ Service!Free \notin Service!HeldRun
  BY DEF Service!Init, Service!TypeOK, Service!HeldRun, Service!RunState, Service!Free
<1>2. NothingSeen \in Seen /\ NothingSeen.active = NoSession /\ NothingSeen.run = Service!Free
  BY DEF NothingSeen, Seen
<1>3. Init => TypeOK
  <2>1. Init => up \in BOOLEAN /\ confirmed \in [Handler -> BOOLEAN]
    OBVIOUS
  <2>2. Init => /\ shown \in [Session -> State]
                /\ status \in [Session -> {"absent", "active", "completed", "deleted"}]
                /\ rpc \in [Process -> Rpc]
                /\ at \in [Process -> Session \cup {NoSession}]
                /\ from \in [Watcher -> {"starting", "not_watching"}]
    BY DEF State, IDLE, Rpc
  <2> QED BY <1>1, <1>2, <2>1, <2>2 DEF TypeOK
<1>4. Init => RunsAreKnown
  BY <1>1, <1>2 DEF RunsAreKnown
<1>5. Init => ThreadsKnow /\ CallersWait /\ CallsKnow /\ WatchedIsShown
  BY <1>2 DEF ThreadsKnow, CallersWait, CallsKnow, WatchedIsShown
<1> QED BY <1>3, <1>4, <1>5 DEF IInv

(* The service's own steps keep IInv: a Run it takes up is of the Session  *)
(* of a call, under way or late.                                           *)
LEMMA ServicePreserves == ASSUME IInv, ServiceSteps PROVE IInv'
<1> USE NoSessionAssumption, TickAssumption
<1> USE DEF IInv, TypeOK, ThreadsKnow, CallersWait, CallsKnow, RunsAreKnown, WatchedIsShown, Known,
            Process, Watcher, State, IDLE, Answers, Rpc, Stray, Seen, Unanswered, NothingSeen,
            db, memory, service, Call, Goto, Done, Set, Owes, SetFrom, Answered, TimesOut, Confirms,
            Service!TypeOK, Service!HeldRun, Service!Free, Service!RunState, Service!Holds
<1>1. ASSUME NEW p \in Process, TakesStart(p) PROVE IInv'
  BY <1>1 DEF TakesStart, Service!Take
<1>2. ASSUME NEW p \in Process, AnswersStart(p) PROVE IInv'
  BY <1>2 DEF AnswersStart
<1>3. ASSUME NEW p \in Process, TakesEnd(p) PROVE IInv'
  BY <1>3 DEF TakesEnd, Service!BeginEnd
<1>4. ASSUME NEW x \in strays, TakesStray(x) PROVE IInv'
  BY <1>4 DEF TakesStray, Service!Take, Service!BeginEnd
<1>5. CASE RunWatches
  BY <1>5 DEF RunWatches, Service!Watch
<1>6. CASE RunGivesUp
  BY <1>6 DEF RunGivesUp, Service!BeginEnd
<1>7. CASE RunLeaves
  BY <1>7 DEF RunLeaves, Service!Leave
<1>8. CASE ServiceStops
  <2>1. /\ UNCHANGED <<db, memory, pc, at, from, confirmed, seen>>
        /\ strays' = {} /\ held' = Service!Free /\ up' = FALSE
        /\ rpc' \in [Process -> Rpc] /\ \A p \in Process : rpc'[p] # "idle" => rpc[p] # "idle"
    BY <1>8 DEF ServiceStops
  <2>2. TypeOK' /\ WatchedIsShown'
    BY <2>1
  <2>3. ThreadsKnow' /\ CallersWait'
    BY <2>1
  <2>4. CallsKnow' /\ RunsAreKnown'
    BY <2>1
  <2> QED BY <2>2, <2>3, <2>4
<1>9. CASE ServiceStarts
  BY <1>9 DEF ServiceStarts
<1> QED BY <1>1, <1>2, <1>3, <1>4, <1>5, <1>6, <1>7, <1>8, <1>9 DEF ServiceSteps

(* A start's steps keep IInv: its answer is set for the Session it was     *)
(* asked for, in one block with `_watched`.                                *)
LEMMA WatchPreserves == ASSUME NEW p \in Watcher, IInv, Watches(p) PROVE IInv'
<1> USE NoSessionAssumption, TickAssumption
<1> USE DEF IInv, TypeOK, ThreadsKnow, CallersWait, CallsKnow, RunsAreKnown, WatchedIsShown, Known,
            Process, Watcher, State, IDLE, Answers, Rpc, Stray, Seen, Unanswered, NothingSeen,
            db, memory, service, Call, Goto, Done, Set, Owes, SetFrom, Answered, TimesOut, Confirms,
            Service!TypeOK, Service!HeldRun, Service!Free, Service!RunState, Service!Holds
<1>1. CASE WatchAsks(p)
  BY <1>1 DEF WatchAsks
<1>2. CASE WatchAnswered(p)
  BY SMTT(60), <1>2 DEF WatchAnswered
<1>3. CASE WatchOvertaken(p)
  BY SMTT(30), <1>3 DEF WatchOvertaken
<1>4. CASE WatchUndone(p)
  BY <1>4 DEF WatchUndone
<1> QED BY <1>1, <1>2, <1>3, <1>4 DEF Watches

(* Creating a Session keeps IInv: the Session is committed first. *)
LEMMA CreatePreserves ==
    ASSUME NEW s \in Session, IInv, CreateSession(s) \/ Starting(s) \/ CreateFails(s)
    PROVE  IInv'
<1> USE NoSessionAssumption, TickAssumption
<1> USE DEF IInv, TypeOK, ThreadsKnow, CallersWait, CallsKnow, RunsAreKnown, WatchedIsShown, Known,
            Process, Watcher, State, IDLE, Answers, Rpc, Stray, Seen, Unanswered, NothingSeen,
            db, memory, service, Call, Goto, Done, Set, Owes, SetFrom, Answered, TimesOut, Confirms,
            Service!TypeOK, Service!HeldRun, Service!Free, Service!RunState, Service!Holds
<1>1. CASE CreateSession(s)
  BY <1>1 DEF CreateSession
<1>2. CASE Starting(s)
  BY <1>2 DEF Starting
<1>3. CASE CreateFails(s)
  BY <1>3 DEF CreateFails
<1> QED BY <1>1, <1>2, <1>3

(* The operator's requests keep IInv: each is of a Session it could see. *)
LEMMA OperatorPreserves == ASSUME NEW h \in Handler, IInv, Operator(h) PROVE IInv'
<1> USE NoSessionAssumption, TickAssumption
<1> USE DEF IInv, TypeOK, ThreadsKnow, CallersWait, CallsKnow, RunsAreKnown, WatchedIsShown, Known,
            Process, Watcher, State, IDLE, Answers, Rpc, Stray, Seen, Unanswered, NothingSeen,
            db, memory, service, Call, Goto, Done, Set, Owes, SetFrom, Answered, TimesOut, Confirms,
            Service!TypeOK, Service!HeldRun, Service!Free, Service!RunState, Service!Holds
<1>1. ASSUME NEW s \in Session, Completes(h, s) PROVE IInv'
  BY <1>1 DEF Completes
<1>2. ASSUME NEW s \in Session, Deletes(h, s) PROVE IInv'
  BY <1>2 DEF Deletes
<1>3. ASSUME NEW s \in Session, Reopens(h, s) PROVE IInv'
  BY <1>3 DEF Reopens
<1> QED BY <1>1, <1>2, <1>3 DEF Operator

(* A request's own steps keep IInv, whichever branch `ending` leaves by. *)
LEMMA HandlesPreserve == ASSUME NEW h \in Handler, IInv, Handles(h) PROVE IInv'
<1> USE NoSessionAssumption, TickAssumption
<1> USE DEF IInv, TypeOK, ThreadsKnow, CallersWait, CallsKnow, RunsAreKnown, WatchedIsShown, Known,
            Process, Watcher, State, IDLE, Answers, Rpc, Stray, Seen, Unanswered, NothingSeen,
            db, memory, service, Call, Goto, Done, Set, Owes, SetFrom, Answered, TimesOut, Confirms,
            Service!TypeOK, Service!HeldRun, Service!Free, Service!RunState, Service!Holds
<1>1. CASE EndingBegins(h)
  BY <1>1 DEF EndingBegins
<1>2. CASE EndAnswered(h)
  BY <1>2 DEF EndAnswered
<1>3. CASE BlockCommits(h)
  BY <1>3 DEF BlockCommits
<1>4. CASE BlockRaises(h)
  BY <1>4 DEF BlockRaises
<1>5. CASE EndingRaised(h)
  <2>1. confirmed' \in [Handler -> BOOLEAN]
    <3> DEFINE yes == confirmed[h] \/ status[at[h]] = "active"
    <3>1. yes \in BOOLEAN
      OBVIOUS
    <3>2. confirmed' = [confirmed EXCEPT ![h] = yes] \/ confirmed' = confirmed
      BY <1>5 DEF EndingRaised
    <3> HIDE DEF yes
    <3> QED BY <3>1, <3>2
  <2>2. UNCHANGED <<db, memory, service, rpc, at, from, seen>> /\ pc[h] = "raised"
        /\ pc' = [pc EXCEPT ![h] = "finish"]
    BY <1>5 DEF EndingRaised
  <2>3. ThreadsKnow' /\ CallersWait' /\ CallsKnow' /\ RunsAreKnown' /\ WatchedIsShown'
    BY <2>2
  <2> QED BY <2>1, <2>2, <2>3
<1>6. CASE EndingFinishes(h)
  BY <1>6 DEF EndingFinishes
<1>7. CASE SkipCommits(h)
  BY <1>7 DEF SkipCommits
<1>8. CASE Reopened(h)
  BY <1>8 DEF Reopened
<1> QED BY <1>1, <1>2, <1>3, <1>4, <1>5, <1>6, <1>7, <1>8 DEF Handles

(* What a round sweeps keeps what it read and `_watched` in step. *)
LEMMA TickReadsPreserves == ASSUME IInv, TickReads PROVE IInv'
<1> USE NoSessionAssumption, TickAssumption
<1> USE DEF IInv, TypeOK, ThreadsKnow, CallersWait, CallsKnow, RunsAreKnown, WatchedIsShown, Known,
            Process, Watcher, State, IDLE, Answers, Rpc, Stray, Seen, Unanswered, NothingSeen,
            db, memory, service, Call, Goto, Done, Set, Owes, SetFrom, Answered, TimesOut, Confirms,
            Service!TypeOK, Service!HeldRun, Service!Free, Service!RunState, Service!Holds
<1>0. PICK a \in IF Active = {} THEN {NoSession} ELSE Active :
        /\ seen' = [seen EXCEPT !.active = a, !.camera = camera]
        /\ shown' = [s \in Session |-> Swept(s, a)]
        /\ watched' = watched \ {s \in Session : Swept(s, a) \in {"none", "end_unconfirmed"}}
  BY Zenon DEF TickReads
<1>1. a \in Session \cup {NoSession} /\ (a # NoSession => Known(a))
  BY DEF Active
<1>2. UNCHANGED <<db, owed, forgot, service, rpc, at, from, confirmed>>
      /\ pc[Tick] = "read" /\ pc' = [pc EXCEPT ![Tick] = "judge"]
  BY DEF TickReads
<1>3. seen' \in Seen /\ seen'.active = a /\ seen'.run = seen.run
  BY <1>0, <1>1
<1>4. shown' \in [Session -> State] /\ watched' \subseteq Session /\ WatchedIsShown'
  BY <1>0, <1>1 DEF Swept, Stuck
<1>5. TypeOK'
  BY <1>2, <1>3, <1>4
<1>6. ThreadsKnow' /\ CallersWait' /\ CallsKnow' /\ RunsAreKnown'
  BY <1>1, <1>2, <1>3
<1> QED BY <1>4, <1>5, <1>6

(* The other steps of a round keep IInv. *)
LEMMA TicksPreserve == ASSUME IInv, Ticks PROVE IInv'
<1> USE NoSessionAssumption, TickAssumption
<1> USE DEF IInv, TypeOK, ThreadsKnow, CallersWait, CallsKnow, RunsAreKnown, WatchedIsShown, Known,
            Process, Watcher, State, IDLE, Answers, Rpc, Stray, Seen, Unanswered, NothingSeen,
            db, memory, service, Call, Goto, Done, Set, Owes, SetFrom, Answered, TimesOut, Confirms,
            Service!TypeOK, Service!HeldRun, Service!Free, Service!RunState, Service!Holds
<1>1. CASE TickAsks
  BY <1>1 DEF TickAsks
<1>2. CASE TickJudges
  BY SMTT(30), <1>2 DEF TickJudges, Wanted, Unwanted
<1>3. CASE TickEndedOther
  BY <1>3 DEF TickEndedOther
<1>4. CASE TickDecides
  BY SMTT(30), <1>4 DEF TickDecides, Wanted
<1> QED BY TickReadsPreserves, <1>1, <1>2, <1>3, <1>4 DEF Ticks

(* A restart keeps IInv: a call it leaves on its way is of the Session its *)
(* thread worked on.                                                       *)
LEMMA RestartPreserves == ASSUME IInv, BackendRestarts PROVE IInv'
<1> USE NoSessionAssumption, TickAssumption DEF BackendRestarts
<1>1. \A x \in strays' : x \in Stray /\ Known(x[2])
  <2>1. SUFFICES ASSUME NEW x \in strays', x \notin strays PROVE x \in Stray /\ Known(x[2])
    BY DEF IInv, TypeOK, CallsKnow
  <2>2. PICK p \in Process : /\ rpc[p] \in {"startSent", "endSent"}
                            /\ x \in {<<"start", at[p]>>, <<"end", at[p]>>}
    BY <2>1
  <2>3. Known(at[p])
    BY <2>2 DEF IInv, CallersWait, ThreadsKnow
  <2> QED BY <2>2, <2>3 DEF Stray, Known
<1>2. \A s : Known(s)' <=> Known(s)
  BY DEF Known, db
<1>3. /\ NothingSeen \in Seen /\ NothingSeen.active = NoSession
      /\ NothingSeen.run = Service!Free /\ Service!Free \notin Service!HeldRun
  BY DEF NothingSeen, Seen, Service!HeldRun, Service!RunState, Service!Free
<1>4. TypeOK'
  <2>1. confirmed' \in [Handler -> BOOLEAN] /\ up' \in BOOLEAN
    BY DEF IInv, TypeOK
  <2> QED BY <1>1, <1>3, <2>1 DEF IInv, TypeOK, db, State, IDLE, Rpc, Service!TypeOK
<1>5. ThreadsKnow' /\ CallersWait' /\ WatchedIsShown'
  BY DEF ThreadsKnow, CallersWait, WatchedIsShown, Process
<1>6. CallsKnow' /\ RunsAreKnown'
  BY <1>1, <1>2, <1>3 DEF IInv, CallsKnow, RunsAreKnown, db
<1> QED BY <1>4, <1>5, <1>6 DEF IInv

(* The camera changing, a restart and a stuttering step keep IInv. *)
LEMMA RestPreserves == ASSUME IInv, CameraChanges \/ BackendRestarts \/ UNCHANGED vars PROVE IInv'
<1> USE NoSessionAssumption, TickAssumption
<1> USE DEF IInv, TypeOK, ThreadsKnow, CallersWait, CallsKnow, RunsAreKnown, WatchedIsShown, Known,
            Process, Watcher, State, IDLE, Answers, Rpc, Stray, Seen, Unanswered, NothingSeen,
            db, memory, service, Call, Goto, Done, Set, Owes, SetFrom, Answered, TimesOut, Confirms,
            Service!TypeOK, Service!HeldRun, Service!Free, Service!RunState, Service!Holds
<1>1. CASE CameraChanges
  BY <1>1 DEF CameraChanges
<1>2. CASE UNCHANGED vars
  BY <1>2 DEF vars
<1> QED BY RestartPreserves, <1>1, <1>2

(* IInv is inductive, so it holds of every reachable state. *)
THEOREM Inductive == Spec => []IInv
<1>1. IInv /\ [Next]_vars => IInv'
  BY ServicePreserves, WatchPreserves, CreatePreserves, OperatorPreserves, HandlesPreserve,
     TicksPreserve, RestPreserves DEF Next
<1> QED BY InitEstablishes, <1>1, PTL DEF Spec

(* Every variable keeps its type. *)
THEOREM TypeCorrect == Spec => []TypeOK
BY Inductive, PTL DEF IInv

(* `_watched` never holds a Session that reads none or end_unconfirmed,    *)
(* whatever the number of requests at once and whichever of them fail.     *)
THEOREM WatchedIsAlwaysShown == Spec => []WatchedIsShown
BY Inductive, PTL DEF IInv

(* No Run, and none a tick works from, is of a Session not committed yet,  *)
(* late starts and restarts of either side included.                       *)
THEOREM RunsAreAlwaysKnown == Spec => []RunsAreKnown
BY Inductive, PTL DEF IInv
-----------------------------------------------------------------------------
(***************************************************************************)
(* NoSilentLoss, for requests that do not meet on one Session: two         *)
(* completes at once each take the other's warning away (README).          *)
(***************************************************************************)
(* The faults NoSilentLoss is about: calls, the service and the backend.   *)
Calm == scenario \cap Fault \subseteq {"stop", "late", "restart"}

(* No two requests work on one Session at the same time. *)
Apart ==
    \A h, i \in Handler : pc[h] # "idle" /\ pc[i] # "idle" /\ at[h] = at[i] => h = i

(* At most one Session is active, whose camera stays enabled. *)
OneActive == camera = "enabled" /\ \A s, t \in Session : status[s] = "active" /\ status[t] = "active" => s = t

(* A Session that reads starting has a thread that will say what became of *)
(* it, so that no sweep forgets it; no request comes before its create     *)
(* answers.                                                                *)
StartsAreMade ==
    /\ \A s \in Session : shown[s] = "starting" =>
         \E p \in Watcher : at[p] = s /\ pc[p] \in {"watch", "asking"} /\ from[p] = "starting"
    /\ \A s \in Session : from[s] = "starting"
    /\ \A s \in Session : pc[s] = "created" =>
         at[s] = s /\ status[s] = "active" /\ \A h \in Handler : pc[h] = "idle" \/ at[h] # s

(* What a request knows of its Session, wherever it is. *)
Doing(h) ==
    /\ pc[h] \notin {"raised", "read", "judge", "decide"}
    /\ pc[h] \in {"begin", "beginDelete", "ending", "endingDelete", "complete", "delete", "reopened"}
         => status[at[h]] = "active"
    /\ pc[h] \in {"finish", "skipComplete", "skipDelete"} => status[at[h]] # "active"
    /\ pc[h] \in {"ending", "endingDelete", "complete", "delete", "finish"} => shown[at[h]] = "ending"
    /\ pc[h] \in {"complete", "delete", "finish"} /\ confirmed[h] => at[h] \notin Due

(* A Session that is owed a warning is remembered as watched until the     *)
(* warning is given.                                                       *)
Remembered(s) ==
    /\ Known(s)
    /\ status[s] = "active" => s \in watched
    /\ status[s] = "completed" =>
         \/ shown[s] = "end_unconfirmed"
         \/ /\ s \in watched /\ shown[s] = "ending"
            /\ \E h \in Handler : at[h] = s /\ pc[h] = "finish"

LInv ==
    Calm => /\ OneActive /\ StartsAreMade
            /\ \A h \in Handler : Doing(h)
            /\ \A s \in Due : Remembered(s)

(* A step of the service touches nothing LInv is about. *)
LEMMA Untouched ==
    ASSUME IInv, LInv, UNCHANGED <<status, scenario, memory, pc, at, from, confirmed>>,
           Calm => camera' = camera
    PROVE  LInv'
<1> SUFFICES ASSUME Calm' PROVE LInv' BY DEF LInv
<1>1. Calm BY DEF Calm
<1> QED BY <1>1 DEF LInv, OneActive, StartsAreMade, Doing, Remembered, Known, memory, Due

LEMMA ServiceKeeps == ASSUME IInv, LInv, ServiceSteps PROVE LInv'
<1>1. UNCHANGED <<db, memory, pc, at, from, confirmed>>
  BY DEF ServiceSteps, TakesStart, AnswersStart, TakesEnd, TakesStray, RunWatches, RunGivesUp,
         RunLeaves, ServiceStops, ServiceStarts, service
<1> QED BY <1>1, Untouched DEF db

(* A step of the backend's own threads leaves the requests alone, and a    *)
(* Session one of them is ending, or that was warned of; it forgets no     *)
(* Session that is owed a warning.                                         *)
Spares ==
    /\ UNCHANGED db
    /\ \A h \in Handler : pc'[h] = pc[h] /\ at'[h] = at[h] /\ confirmed'[h] = confirmed[h]
    /\ \A s \in Session : shown[s] \in {"ending", "end_unconfirmed"} =>
         shown'[s] = shown[s] /\ (s \in Due' => s \in Due)
    /\ \A s \in Due' : s \in Due \/ (status[s] = "active" /\ s \in watched')
    /\ \A s \in Due' : s \in Due /\ s \in watched => s \in watched'

LEMMA Spared ==
    ASSUME IInv, LInv, Calm, IInv', Spares, StartsAreMade'
    PROVE  LInv'
<1>0. /\ OneActive /\ UNCHANGED db
      /\ \A h \in Handler : Doing(h)
      /\ \A s \in Due : Remembered(s)
  BY DEF LInv, Spares
<1>1. OneActive' BY <1>0 DEF OneActive, db
<1>2. ASSUME NEW h \in Handler PROVE Doing(h)'
  <2>1. pc[h] \notin {"idle", "read", "judge", "decide"} => at[h] \in Session
    BY DEF IInv, ThreadsKnow, Known, Process
  <2> QED BY <1>0, <2>1 DEF Doing, db, Spares
<1>3. ASSUME NEW s \in Due' PROVE Remembered(s)'
  <2>1. s \in Session /\ (status[s] = "active" => Known(s)) BY DEF IInv, TypeOK, Known, Due
  <2> QED BY <1>0, <2>1 DEF Remembered, db, Known, Spares
<1> QED BY <1>1, <1>2, <1>3 DEF LInv

(* A start's answer is set only where it was asked for, so never on a      *)
(* Session a request is ending.                                            *)
LEMMA WatchKeeps == ASSUME NEW p \in Watcher, IInv, LInv, Calm, Watches(p) PROVE LInv'
<1> USE NoSessionAssumption, TickAssumption DEF Process, Watcher
<1>0. StartsAreMade BY DEF LInv
<1>1. UNCHANGED db BY DEF Watches, WatchAsks, WatchAnswered, WatchOvertaken, WatchUndone, db
<1>2. \A h \in Handler : pc'[h] = pc[h] /\ at'[h] = at[h] /\ confirmed'[h] = confirmed[h]
  BY DEF Watches, WatchAsks, WatchAnswered, WatchOvertaken, WatchUndone, Done, Goto, IInv, TypeOK
<1>3. ASSUME NEW s \in Session, shown'[s] = "starting"
      PROVE \E q \in Watcher : at'[q] = s /\ pc'[q] \in {"watch", "asking"} /\ from'[q] = "starting"
  <2>1. shown[s] = "starting" /\ ~(pc[p] = "asking" /\ at[p] = s /\ from[p] = "starting")
    BY <1>3 DEF Watches, WatchAsks, WatchAnswered, WatchOvertaken, WatchUndone, SetFrom, Set, Owes,
       Confirms, memory, Due, IInv, TypeOK
  <2>2. PICK q \in Watcher : at[q] = s /\ pc[q] \in {"watch", "asking"} /\ from[q] = "starting"
    BY <1>0, <2>1 DEF StartsAreMade
  <2>3. CASE q # p
    BY <2>2, <2>3 DEF Watches, WatchAsks, WatchAnswered, WatchOvertaken, WatchUndone, Done, Goto,
       IInv, TypeOK
  <2>4. CASE q = p
    BY <2>1, <2>2, <2>4 DEF Watches, WatchAsks, WatchAnswered, WatchOvertaken, WatchUndone, Goto,
       IInv, TypeOK
  <2> QED BY <2>3, <2>4
<1>4. StartsAreMade'
  <2>1. \A s \in Session : from'[s] = "starting"
    BY <1>0 DEF StartsAreMade, Watches, WatchAsks, WatchAnswered, WatchOvertaken, WatchUndone, Done,
       IInv, TypeOK
  <2>2. ASSUME NEW s \in Session, pc'[s] = "created"
        PROVE at'[s] = s /\ status'[s] = "active" /\ \A h \in Handler : pc'[h] = "idle" \/ at'[h] # s
    <3>1. pc[s] = "created" /\ at'[s] = at[s]
      BY <2>2 DEF Watches, WatchAsks, WatchAnswered, WatchOvertaken, WatchUndone, Done, Goto,
         IInv, TypeOK
    <3> QED BY <1>0, <1>1, <1>2, <3>1 DEF StartsAreMade, db
  <2> QED BY <1>3, <2>1, <2>2 DEF StartsAreMade
<1>5. \A s \in Session : shown[s] \in {"ending", "end_unconfirmed"} =>
        shown'[s] = shown[s] /\ (s \in Due' => s \in Due)
  BY DEF Watches, WatchAsks, WatchAnswered, WatchOvertaken, WatchUndone, SetFrom, Set, Owes,
     Confirms, memory, Due, IInv, TypeOK
<1>6. /\ \A s \in Due' : s \in Due \/ (status[s] = "active" /\ s \in watched')
      /\ \A s \in Due' : s \in Due /\ s \in watched => s \in watched'
  BY DEF Watches, WatchAsks, WatchAnswered, WatchOvertaken, WatchUndone, SetFrom, Set, Owes,
     Confirms, memory, Due, IInv, TypeOK
<1>7. Spares BY <1>1, <1>2, <1>5, <1>6 DEF Spares
<1> QED BY <1>4, <1>7, Spared, WatchPreserves

(* A create asks for its Session's Run before any request can end it. *)
LEMMA CreateKeeps ==
    ASSUME NEW s \in Session, IInv, LInv, Calm, CreateSession(s) \/ Starting(s) PROVE LInv'
<1> USE NoSessionAssumption, TickAssumption DEF Process, Watcher
<1>0. /\ OneActive /\ StartsAreMade /\ WatchedIsShown
      /\ \A h \in Handler : Doing(h)
      /\ \A t \in Due : Remembered(t)
      /\ \A h \in Handler : pc[h] \notin {"idle", "read", "judge", "decide"} => Known(at[h])
  BY DEF LInv, IInv, ThreadsKnow
<1>1. CASE CreateSession(s)
  <2>1. /\ status[s] = "absent" /\ \A t \in Session : status[t] # "active"
        /\ status' = [status EXCEPT ![s] = "active"]
        /\ pc' = [pc EXCEPT ![s] = "created"] /\ at' = [at EXCEPT ![s] = s]
        /\ UNCHANGED <<camera, scenario, memory, from, confirmed>>
    BY <1>1 DEF CreateSession, Goto, Active
  <2>2. OneActive' BY <1>0, <2>1 DEF OneActive, IInv, TypeOK
  <2>3. pc[s] = "idle" /\ \A h \in Handler : pc[h] = "idle" \/ at[h] # s
    BY <1>0, <2>1 DEF IInv, ThreadsKnow, Known, Doing
  <2>4. StartsAreMade' BY <1>0, <2>1, <2>3 DEF StartsAreMade, IInv, TypeOK, memory, Due
  <2>5. \A h \in Handler : Doing(h)' BY <1>0, <2>1, <2>3 DEF Doing, IInv, TypeOK, memory, Due, Known
  <2>6. \A t \in Due' : Remembered(t)'
    BY <1>0, <2>1 DEF Remembered, IInv, TypeOK, memory, Due, Known
  <2> QED BY <2>2, <2>4, <2>5, <2>6 DEF LInv
<1>2. CASE Starting(s)
  <2>1. /\ pc[s] = "created" /\ pc' = [pc EXCEPT ![s] = "watch"]
        /\ UNCHANGED <<db, at, confirmed, watched, owed, forgot>>
        /\ from' = [from EXCEPT ![s] = "starting"] /\ shown' = [shown EXCEPT ![s] = "starting"]
    BY <1>2 DEF Starting, Set, Owes, Goto
  <2>2. OneActive' BY <1>0, <2>1 DEF OneActive, db
  <2>3. StartsAreMade' BY <1>0, <2>1 DEF StartsAreMade, IInv, TypeOK, db
  <2>4. at[s] = s /\ status[s] = "active" /\ \A h \in Handler : pc[h] = "idle" \/ at[h] # s
    BY <1>0, <2>1 DEF StartsAreMade
  <2>5. \A h \in Handler : Doing(h)' BY <1>0, <2>1, <2>4 DEF Doing, IInv, TypeOK, db, Known, Due
  <2>6. \A t \in Due' : Remembered(t)'
    BY <1>0, <2>1, <2>4 DEF Remembered, IInv, TypeOK, db, Known, Due
  <2> QED BY <2>2, <2>3, <2>5, <2>6 DEF LInv
<1> QED BY <1>1, <1>2

(* The sweep finds no start that was lost, and lets go only of Sessions    *)
(* that are not active, and not being ended.                               *)
LEMMA TickReadsKeeps == ASSUME IInv, LInv, Calm, TickReads PROVE LInv'
<1> USE NoSessionAssumption, TickAssumption DEF Process, Watcher
<1>0. OneActive /\ StartsAreMade /\ WatchedIsShown /\ \A s \in Due : Remembered(s)
  BY DEF LInv, IInv
<1>1. /\ UNCHANGED <<db, owed, forgot, at, from, confirmed>>
      /\ pc[Tick] = "read" /\ pc' = [pc EXCEPT ![Tick] = "judge"]
  BY DEF TickReads, Goto
<1>2. PICK a \in IF Active = {} THEN {NoSession} ELSE Active :
        /\ shown' = [s \in Session |-> Swept(s, a)]
        /\ watched' = watched \ {s \in Session : Swept(s, a) \in {"none", "end_unconfirmed"}}
  BY Zenon DEF TickReads
<1>3. \A s \in Session : ~Stuck(s) BY <1>0 DEF Stuck, StartsAreMade
<1>4. \A s \in Session : status[s] = "active" => s = a BY <1>0, <1>2 DEF Active, OneActive
<1>5. \A s \in Session : shown'[s] = IF s # a /\ shown[s] \in IDLE THEN "none" ELSE shown[s]
  BY <1>2, <1>3 DEF Swept
<1>6. StartsAreMade'
  BY <1>0, <1>1, <1>5 DEF StartsAreMade, IInv, TypeOK, db
<1>7. \A s \in Session : shown[s] \in {"ending", "end_unconfirmed"} => shown'[s] = shown[s]
  BY <1>5 DEF IDLE
<1>8. ASSUME NEW s \in Due, s \in watched, shown[s] = "ending" \/ status[s] = "active"
      PROVE  s \in watched'
  <2>1. s \in Session /\ shown'[s] = shown[s]
    BY <1>4, <1>5, <1>7, <1>8 DEF IInv, TypeOK
  <2>2. shown[s] \notin {"none", "end_unconfirmed"} BY <1>0, <1>8 DEF WatchedIsShown
  <2> QED BY <1>2, <1>8, <2>1, <2>2
<1>9. OneActive' /\ \A h \in Handler : Doing(h)'
  <2>1. OneActive' BY <1>0, <1>1 DEF OneActive, db
  <2>2. ASSUME NEW h \in Handler PROVE Doing(h)'
    <3>1. pc[h] \notin {"idle", "read", "judge", "decide"} => at[h] \in Session
      BY DEF IInv, ThreadsKnow, Known
    <3>2. Doing(h) /\ pc'[h] = pc[h] BY <1>1 DEF LInv, IInv, TypeOK
    <3> QED BY <1>1, <1>7, <3>1, <3>2 DEF Doing, db, Due
  <2> QED BY <2>1, <2>2
<1>10. ASSUME NEW s \in Due' PROVE Remembered(s)'
  <2>1. s \in Due /\ s \in Session /\ Remembered(s) BY <1>0, <1>1 DEF IInv, TypeOK, Due
  <2>2. \A h \in Handler : pc'[h] = pc[h] BY <1>1 DEF IInv, TypeOK
  <2> QED BY <1>1, <1>7, <1>8, <2>1, <2>2 DEF Remembered, Known, db
<1> QED BY <1>6, <1>9, <1>10 DEF LInv

(* The other steps of a round set only a Session that reads idle. *)
LEMMA TicksKeep ==
    ASSUME IInv, LInv, Calm, TickAsks \/ TickJudges \/ TickEndedOther \/ TickDecides PROVE LInv'
<1> USE NoSessionAssumption, TickAssumption DEF Process, Watcher
<1>0. StartsAreMade BY DEF LInv
<1>1. UNCHANGED db /\ pc[Tick] \in {"idle", "judge", "endOther", "decide"}
  BY DEF TickAsks, TickJudges, TickEndedOther, TickDecides, db
<1>2. \A p \in Process : p # Tick => pc'[p] = pc[p] /\ at'[p] = at[p]
  BY DEF TickAsks, TickJudges, TickEndedOther, TickDecides, Done, Goto, IInv, TypeOK
<1>3. /\ \A h \in Handler : confirmed'[h] = confirmed[h]
      /\ \A s \in Session : from'[s] = from[s]
  BY DEF TickAsks, TickJudges, TickEndedOther, TickDecides, Done, Goto, IInv, TypeOK
<1>4. \A s \in Session : shown[s] \in {"ending", "end_unconfirmed"} =>
        shown'[s] = shown[s] /\ (s \in Due' => s \in Due)
  BY DEF TickAsks, TickJudges, TickEndedOther, TickDecides, SetFrom, Set, Owes, Confirms, memory, Due, IDLE,
     IInv, TypeOK, Wanted, Seen
<1>5. /\ \A s \in Due' : s \in Due \/ (status[s] = "active" /\ s \in watched')
      /\ \A s \in Due' : s \in Due /\ s \in watched => s \in watched'
  BY DEF TickAsks, TickJudges, TickEndedOther, TickDecides, SetFrom, Set, Owes, Confirms, memory, Due, IDLE,
     IInv, TypeOK
<1>6. \A s \in Session : shown'[s] = "starting" =>
        \/ shown[s] = "starting"
        \/ at'[Tick] = s /\ pc'[Tick] = "watch" /\ from'[Tick] = "starting"
  BY DEF TickAsks, TickJudges, TickEndedOther, TickDecides, SetFrom, Set, Owes, Confirms, memory, Due, IDLE,
     IInv, TypeOK, Wanted, Seen, Goto
<1>7. StartsAreMade'
  <2>1. ASSUME NEW s \in Session, shown[s] = "starting"
        PROVE \E q \in Watcher : at'[q] = s /\ pc'[q] \in {"watch", "asking"} /\ from'[q] = "starting"
    <3>1. PICK q \in Watcher : at[q] = s /\ pc[q] \in {"watch", "asking"} /\ from[q] = "starting"
      BY <1>0, <2>1 DEF StartsAreMade
    <3> QED BY <1>1, <1>2, <1>3, <3>1
  <2>2. Tick \in Watcher OBVIOUS
  <2>3. \A s \in Session : shown'[s] = "starting" =>
          \E q \in Watcher : at'[q] = s /\ pc'[q] \in {"watch", "asking"} /\ from'[q] = "starting"
    BY <1>6, <2>1, <2>2
  <2> QED BY <1>0, <1>1, <1>2, <1>3, <2>3 DEF StartsAreMade, db
<1>8. Spares BY <1>1, <1>2, <1>3, <1>4, <1>5 DEF Spares
<1> QED BY <1>7, <1>8, Spared, TicksPreserve DEF Ticks

(* A request takes up a Session no other works on, so what it read of it   *)
(* stays true.                                                             *)
LEMMA OperatorKeeps ==
    ASSUME NEW h \in Handler, IInv, LInv, Calm, Apart', Operator(h) PROVE LInv'
<1> USE NoSessionAssumption, TickAssumption DEF Process, Watcher
<1>0. /\ OneActive /\ StartsAreMade /\ WatchedIsShown
      /\ \A i \in Handler : Doing(i)
      /\ \A t \in Due : Remembered(t)
  BY DEF LInv, IInv
<1>1. PICK s \in Session :
        pc[s] # "created" /\ (Completes(h, s) \/ Deletes(h, s) \/ Reopens(h, s))
  BY DEF Operator
<1>2. /\ pc[h] = "idle" /\ at' = [at EXCEPT ![h] = s] /\ status[s] \in {"active", "completed"}
      /\ UNCHANGED <<camera, scenario, shown, watched, from, confirmed>>
      /\ \E l \in {"begin", "skipComplete", "beginDelete", "skipDelete", "reopened"} :
            pc' = [pc EXCEPT ![h] = l]
  BY <1>1 DEF Completes, Deletes, Reopens, db, memory, Due, Goto
<1>3. /\ pc'[h] \in {"begin", "skipComplete", "beginDelete", "skipDelete", "reopened"} /\ at'[h] = s
      /\ \A p \in Process : p # h => pc'[p] = pc[p] /\ at'[p] = at[p]
  BY <1>2 DEF IInv, TypeOK
<1>4. \A i \in Handler : i # h => pc[i] = "idle" \/ at[i] # s
  BY <1>3 DEF Apart
<1>5. /\ pc'[h] \in {"begin", "beginDelete", "reopened"} => status'[s] = "active"
      /\ pc'[h] \in {"skipComplete", "skipDelete"} => status'[s] # "active"
      /\ status' = IF pc'[h] = "reopened" THEN [status EXCEPT ![s] = "active"] ELSE status
      /\ pc'[h] = "reopened" => \A t \in Session : status[t] = "active" => t = s
  BY <1>0, <1>1 DEF Completes, Deletes, Reopens, db, Goto, OneActive, IInv, TypeOK, Active
<1>6. Due' = Due \/ (Due' = Due \ {s} /\ pc'[h] = "reopened")
  BY <1>1, <1>3 DEF Completes, Deletes, Reopens, memory, Due, Goto, IInv, TypeOK
<1>7. pc'[h] = "reopened" /\ s \in Due' => status[s] = "active"
  BY <1>1 DEF Completes, Deletes, Reopens, memory, Due, Goto, IInv, TypeOK
<1>8. OneActive' BY <1>0, <1>2, <1>5 DEF OneActive, IInv, TypeOK
<1>9. StartsAreMade'
  <2>1. \A t \in Session : status[t] = "active" => status'[t] = "active" BY <1>5 DEF IInv, TypeOK
  <2>2. \A t \in Session : pc'[t] = pc[t] /\ at'[t] = at[t] BY <1>3
  <2>3. ASSUME NEW t \in Session, pc'[t] = "created"
        PROVE  at'[t] = t /\ status'[t] = "active" /\ \A i \in Handler : pc'[i] = "idle" \/ at'[i] # t
    <3>1. pc[t] = "created" /\ t # s BY <1>1, <2>2, <2>3
    <3> QED BY <1>0, <1>3, <2>1, <2>2, <3>1 DEF StartsAreMade
  <2>4. \A q \in Watcher : pc'[q] = pc[q] /\ at'[q] = at[q] BY <1>3
  <2> QED BY <1>0, <1>2, <2>3, <2>4 DEF StartsAreMade
<1>10. ASSUME NEW i \in Handler PROVE Doing(i)'
  <2>1. CASE i = h BY <1>0, <1>2, <1>3, <1>5, <2>1 DEF Doing
  <2>2. CASE i # h
    <3>1. pc'[i] = pc[i] /\ at'[i] = at[i] /\ Doing(i) BY <1>0, <1>3, <2>2
    <3>2. pc[i] # "idle" => at[i] \in Session /\ at[i] # s
      BY <1>0, <1>4, <2>2 DEF IInv, ThreadsKnow, Known, Doing
    <3> QED BY <1>2, <1>5, <1>6, <3>1, <3>2 DEF Doing, IInv, TypeOK
  <2> QED BY <2>1, <2>2
<1>11. ASSUME NEW t \in Due' PROVE Remembered(t)'
  <2>1. t \in Due /\ t \in Session /\ Remembered(t) BY <1>0, <1>6 DEF IInv, TypeOK, Due
  <2>2. t # s => status'[t] = status[t] BY <1>5, <2>1 DEF IInv, TypeOK
  <2>3. \A i \in Handler : pc[i] = "finish" => i # h /\ pc'[i] = pc[i] /\ at'[i] = at[i]
    BY <1>2, <1>3
  <2>4. status'[s] = status[s] \/ (pc'[h] = "reopened" /\ status'[s] = "active")
    BY <1>5 DEF IInv, TypeOK
  <2>5. CASE t = s /\ pc'[h] = "reopened" /\ status'[s] = "active"
    BY <1>2, <1>7, <2>1, <2>5 DEF Remembered, Known
  <2>6. CASE status'[t] = status[t]
    BY <1>2, <2>1, <2>3, <2>6 DEF Remembered, Known
  <2> QED BY <2>2, <2>4, <2>5, <2>6
<1> QED BY <1>8, <1>9, <1>10, <1>11 DEF LInv

(* Every step of a request but its first: it finds its Session as it left  *)
(* it, and gives the warning unless the end was confirmed.                 *)
LEMMA HandlesKeep ==
    ASSUME NEW h \in Handler, IInv, LInv, Calm, Apart, Handles(h) PROVE LInv'
<1> USE NoSessionAssumption, TickAssumption DEF Process, Watcher
<1>0. /\ OneActive /\ StartsAreMade /\ WatchedIsShown
      /\ \A i \in Handler : Doing(i)
      /\ \A t \in Due : Remembered(t)
  BY DEF LInv, IInv
<1> PICK s : s = at[h] OBVIOUS
<1>1. /\ pc[h] # "idle" /\ "block" \notin scenario
      /\ \A p \in Process : p # h => pc'[p] = pc[p] /\ at'[p] = at[p]
      /\ UNCHANGED <<camera, scenario, from>>
  BY DEF Handles, EndingBegins, EndAnswered, BlockCommits, BlockRaises, EndingRaised, EndingFinishes,
     SkipCommits, Reopened, Done, Goto, IInv, TypeOK, db, Calm, Fault
<1>2. s \in Session /\ Known(s) /\ \A i \in Handler : i # h => pc[i] = "idle" \/ at[i] # s
  BY <1>0, <1>1 DEF IInv, ThreadsKnow, Known, Doing, Apart
<1>3. pc[s] # "created" BY <1>0, <1>1, <1>2 DEF StartsAreMade
<1>4. /\ \A t \in Session : t # s => status'[t] = status[t] /\ shown'[t] = shown[t]
      /\ \A t \in Session : t # s => (t \in Due' <=> t \in Due) /\ (t \in watched' <=> t \in watched)
  BY DEF Handles, EndingBegins, EndAnswered, BlockCommits, BlockRaises, EndingRaised, EndingFinishes,
     SkipCommits, Reopened, Set, Owes, SetFrom, Confirms, memory, Due, IInv, TypeOK, db
<1>5. /\ \A i \in Handler : i # h => confirmed'[i] = confirmed[i]
      /\ shown'[s] = "starting" => shown[s] = "starting"
      /\ status'[s] = "active" => status[s] = "active"
  BY <1>0, <1>1, <1>2 DEF Handles, EndingBegins, EndAnswered, BlockCommits, BlockRaises, EndingRaised, EndingFinishes,
     SkipCommits, Reopened, Set, Owes, SetFrom, Confirms, memory, Due, IInv, TypeOK, db, Done
<1>6. OneActive' BY <1>0, <1>1, <1>2, <1>4, <1>5 DEF OneActive
<1>7. StartsAreMade'
  <2>1. \A t \in Session : shown'[t] = "starting" => shown[t] = "starting" BY <1>4, <1>5
  <2>2. \A t \in Session : pc'[t] = "created" => pc[t] = "created" /\ t # s /\ at'[t] = at[t]
    BY <1>1, <1>3
  <2>3. \A t \in Session : t # s => \A i \in Handler : pc[i] = "idle" \/ at[i] # t => pc'[i] = "idle" \/ at'[i] # t
    <3>1. at'[h] \in {s, NoSession}
      BY DEF Handles, EndingBegins, EndAnswered, BlockCommits, BlockRaises, EndingRaised,
         EndingFinishes, SkipCommits, Reopened, Done, IInv, TypeOK
    <3> QED BY <1>1, <3>1
  <2> QED BY <1>0, <1>1, <1>4, <2>1, <2>2, <2>3 DEF StartsAreMade
<1>8. ASSUME NEW i \in Handler, i # h PROVE Doing(i)'
  <2>1. pc'[i] = pc[i] /\ at'[i] = at[i] /\ confirmed'[i] = confirmed[i] /\ Doing(i)
    BY <1>0, <1>1, <1>5, <1>8
  <2>2. pc[i] # "idle" => at[i] \in Session /\ at[i] # s
    BY <1>0, <1>2, <1>8 DEF IInv, ThreadsKnow, Known, Doing
  <2> QED BY <1>4, <2>1, <2>2 DEF Doing
<1>9. ASSUME NEW t \in Due', t # s PROVE Remembered(t)'
  <2>1. t \in Session /\ t \in Due /\ Remembered(t)
    BY <1>0, <1>4, <1>9, HandlesPreserve DEF IInv, TypeOK, Due
  <2>2. \A i \in Handler : at[i] = t => i # h BY <1>9
  <2> QED BY <1>1, <1>4, <1>9, <2>1, <2>2 DEF Remembered, Known
<1>10. Doing(h)' /\ (s \in Due' => Remembered(s)')
  <2>0. Doing(h) /\ (s \in Due => Remembered(s)) BY <1>0
  <2>1. CASE EndingBegins(h)
    BY <1>1, <1>2, <2>0, <2>1 DEF EndingBegins, Set, Owes, Goto, db, Doing, Remembered, Known, IInv, TypeOK, Due
  <2>2. CASE EndAnswered(h)
    BY <1>1, <1>2, <2>0, <2>2 DEF EndAnswered, Confirms, memory, Due, Goto, db, Doing, Remembered, Known, IInv, TypeOK
  <2>3. CASE BlockCommits(h)
    BY <1>1, <1>2, <2>0, <2>3 DEF BlockCommits, memory, Due, Goto, db, Doing, Remembered, Known, IInv, TypeOK
  <2>4. ~BlockRaises(h) /\ ~EndingRaised(h)
    BY <1>1, <1>2, <2>0 DEF BlockRaises, EndingRaised, Doing
  <2>5. CASE EndingFinishes(h)
    BY <1>1, <1>2, <2>0, <2>5 DEF EndingFinishes, Set, Owes, Done, Goto, db, Doing, Remembered, Known, IInv, TypeOK, Due
  <2>6. CASE SkipCommits(h)
    BY <1>1, <1>2, <2>0, <2>6 DEF SkipCommits, memory, Due, Done, Goto, db, Doing, Remembered, Known, IInv, TypeOK
  <2>7. CASE Reopened(h)
    BY <1>0, <1>1, <1>2, <2>0, <2>7 DEF Reopened, SetFrom, Set, Owes, memory, Due, Done, Goto, db, Doing,
       Remembered, Known, IInv, TypeOK, WatchedIsShown
  <2> QED BY <2>1, <2>2, <2>3, <2>4, <2>5, <2>6, <2>7 DEF Handles
<1> QED BY <1>6, <1>7, <1>8, <1>9, <1>10 DEF LInv

(* A restart leaves nothing of what is owed for the backend to remember. *)
LEMMA RestKeeps ==
    ASSUME IInv, LInv, Calm,
           CameraChanges \/ BackendRestarts \/ (\E s \in Session : CreateFails(s)) \/ UNCHANGED vars
    PROVE  LInv'
<1>1. ~CameraChanges /\ \A s \in Session : ~CreateFails(s)
  BY DEF Calm, Fault, CameraChanges, CreateFails
<1>2. CASE BackendRestarts
  BY <1>2 DEF LInv, BackendRestarts, OneActive, StartsAreMade, Doing, Remembered, db, Process, Watcher, Due
<1>3. CASE UNCHANGED vars BY <1>3, Untouched DEF vars, memory, Due
<1> QED BY <1>1, <1>2, <1>3

(* As long as no two requests work on one Session at once (two do lose the *)
(* warning: detection_sync.py:92): a completed Session whose Run was seen  *)
(* watching while it was active and whose end was never confirmed warns    *)
(* that its last Bullet Holes may be missing, for any number of Sessions   *)
(* and requests, whatever calls are lost or late and however often the     *)
(* service stops, unless a restart of the backend has forgotten it since   *)
(* (detection_sync.ending).                                                *)
THEOREM LossIsTold == Spec /\ []Apart => []NoSilentLoss
<1>1. Init => LInv
  BY NoSessionAssumption, TickAssumption DEF Init, LInv, OneActive, StartsAreMade, Doing, Process, Watcher, Due
<1>2. IInv /\ LInv /\ Apart /\ Apart' /\ [Next]_vars => LInv'
  <2> SUFFICES ASSUME IInv, LInv, Apart, Apart', [Next]_vars PROVE LInv' OBVIOUS
  <2>1. CASE Calm
    BY <2>1, ServiceKeeps, WatchKeeps, CreateKeeps, OperatorKeeps, HandlesKeep, TickReadsKeeps,
       TicksKeep, RestKeeps DEF Next, Ticks
  <2>2. CASE ~Calm
    <3>1. scenario' = scenario
      BY DEF Next, vars, ServiceSteps, TakesStart, AnswersStart, TakesEnd, TakesStray, RunWatches,
         RunGivesUp, RunLeaves, ServiceStops, ServiceStarts, Watches, WatchAsks, WatchAnswered,
         WatchOvertaken, WatchUndone, CreateSession, Starting, CreateFails, Operator, Completes,
         Deletes, Reopens, Handles, EndingBegins, EndAnswered, BlockCommits, BlockRaises,
         EndingRaised, EndingFinishes, SkipCommits, Reopened, Ticks, TickAsks, TickReads, TickJudges,
         TickEndedOther, TickDecides, CameraChanges, BackendRestarts, db
    <3> QED BY <2>2, <3>1 DEF LInv, Calm
  <2> QED BY <2>1, <2>2
<1>3. IInv /\ LInv => NoSilentLoss
  BY DEF LInv, Calm, NoSilentLoss, Remembered, Ending
<1> QED BY Inductive, <1>1, <1>2, <1>3, PTL DEF Spec

-----------------------------------------------------------------------------
(* The Detection Service itself, which DetectionSync takes for a RunHolder:*)
(* its Runs, threads and state.                                            *)

(* The place and the workers agree: a Run works exactly while it has it.   *)
PlaceIsBusy == current # NoRun => work[current] \in Busy

(* The loop exists from the moment the worker is past the open. *)
LoopIsThere ==
    \A r \in RunId :
        work[r] \in {"opened", "openedEnding", "baseline", "announcing", "looking"}
        => r \in looped

(* Before its baseline no Run watches, and an end after the loop was       *)
(* published has stopped it.                                               *)
BeforeBaseline ==
    \A r \in RunId :
        /\ work[r] \in {"unborn", "opening", "opened", "openedEnding", "baseline"}
           => state[r] # "watching"
        /\ work[r] = "opened" /\ state[r] = "ending" => r \in stopped

(* A Run not made yet is untouched, and no call names it. *)
UnbornIsUntouched ==
    /\ \A r \in RunId : work[r] = "unborn" => state[r] = "starting"
    /\ \A t \in Thread :
        call[t].pc \in {"awaiting", "toEnd", "bounded", "unbounded"}
        => work[call[t].run] # "unborn"

(* What the Events and the error say of the worker. *)
SignalsAreTrue ==
    /\ \A r \in RunId : r \in ended => work[r] = "done"
    /\ \A r \in RunId : r \in failed => work[r] \in {"leaving", "released", "done"}

(* Until the Run is over, whoever finished it is still bounding its wait. *)
FinisherWaits ==
    \A r \in RunId :
        r \in finishing /\ r \notin stopped /\ r \notin ended
        => \E t \in Thread : call[t].pc = "bounded" /\ call[t].run = r

DetectorInv ==
    /\ DetectorTypeOK
    /\ OneRun /\ PlaceIsBusy
    /\ LoopIsThere /\ BeforeBaseline /\ EndingIsTold /\ WatchingIsPlaced
    /\ UnbornIsUntouched /\ SignalsAreTrue /\ FinisherWaits
    /\ AnsweredAfterDrain /\ FailedStartLeavesNothing
-----------------------------------------------------------------------------
(* A service just started holds no Run and has answered nobody. *)
LEMMA DetectorStarts == DetectorInit => DetectorInv
BY NoRunAssumption
   DEF DetectorInit, DetectorInv, DetectorTypeOK, OneRun, PlaceIsBusy, LoopIsThere,
       BeforeBaseline, EndingIsTold, WatchingIsPlaced, UnbornIsUntouched, SignalsAreTrue,
       FinisherWaits, AnsweredAfterDrain, FailedStartLeavesNothing, Phase, Busy,
       RequestCall, Idle

(* A request thread's steps keep DetectorInv.  A start takes the place     *)
(* only when it is free; an end tells the loop in the block that makes the *)
(* Run `ending`, so no other thread sees one without the other.            *)
LEMMA RequestsPreserve ==
    ASSUME NEW t \in Thread, DetectorInv,
           Requests(t) \/ Waits(t) \/ Return(t)
    PROVE  DetectorInv'
<1> USE NoRunAssumption DEF DetectorInv, DetectorTypeOK, OneRun, PlaceIsBusy,
                            LoopIsThere, BeforeBaseline, EndingIsTold, WatchingIsPlaced,
                            UnbornIsUntouched, SignalsAreTrue, FinisherWaits,
                            AnsweredAfterDrain, FailedStartLeavesNothing, Phase, Busy,
                            RequestCall, Op, Idle, Answer, runVars
<1>1. ASSUME NEW s \in SessionId, StartNew(t, s) PROVE DetectorInv'
  <2> PICK r \in RunId : /\ current = NoRun /\ call[t] = Idle /\ work[r] = "unborn"
                         /\ current' = r
                         /\ session' = [session EXCEPT ![r] = s]
                         /\ work' = [work EXCEPT ![r] = "opening"]
                         /\ call' = [call EXCEPT ![t] = [pc |-> "awaiting", op |-> "start",
                                                         run |-> r]]
    BY <1>1 DEF StartNew
  <2> UNCHANGED <<state, looped, viewed, failed, ready, ended, finishing, stopped>>
    BY <1>1 DEF StartNew
  <2>1. DetectorTypeOK'
    OBVIOUS
  <2>2. OneRun' /\ PlaceIsBusy'
    OBVIOUS
  <2>3. UnbornIsUntouched' /\ SignalsAreTrue' /\ FinisherWaits'
    OBVIOUS
  <2>4. LoopIsThere' /\ BeforeBaseline' /\ EndingIsTold' /\ WatchingIsPlaced'
    OBVIOUS
  <2>5. AnsweredAfterDrain' /\ FailedStartLeavesNothing'
    OBVIOUS
  <2> QED BY <2>1, <2>2, <2>3, <2>4, <2>5
<1>2. ASSUME NEW s \in SessionId, StartSame(t, s) PROVE DetectorInv'
  BY <1>2 DEF StartSame
<1>3. ASSUME NEW s \in SessionId, StartOther(t, s) PROVE DetectorInv'
  BY <1>3 DEF StartOther
<1>4. ASSUME NEW s \in SessionId, End(t, s) PROVE DetectorInv'
  BY <1>4 DEF End
<1>5. CASE Close(t)
  BY <1>5 DEF Close
<1>6. CASE StartAnswers(t)
  BY <1>6 DEF StartAnswers
<1>7. CASE StartTimesOut(t)
  BY <1>7 DEF StartTimesOut
<1>8. CASE BeginEnd(t)
  <2>1. DetectorTypeOK' /\ OneRun' /\ PlaceIsBusy' /\ LoopIsThere' /\ UnbornIsUntouched'
    BY <1>8 DEF BeginEnd
  <2>2. BeforeBaseline' /\ EndingIsTold' /\ WatchingIsPlaced'
    BY <1>8 DEF BeginEnd
  <2>3. SignalsAreTrue' /\ FinisherWaits'
    BY <1>8 DEF BeginEnd
  <2>4. AnsweredAfterDrain' /\ FailedStartLeavesNothing'
    BY <1>8 DEF BeginEnd
  <2> QED BY <2>1, <2>2, <2>3, <2>4
<1>9. CASE EndTimesOut(t)
  BY <1>9 DEF EndTimesOut
<1>10. CASE EndAnswers(t)
  BY <1>10 DEF EndAnswers
<1>11. CASE Return(t)
  BY <1>11 DEF Return
<1> QED BY <1>1, <1>2, <1>3, <1>4, <1>5, <1>6, <1>7, <1>8, <1>9, <1>10, <1>11
        DEF Requests, Waits

(* A worker's steps keep DetectorInv.  It alone gives its place up, after  *)
(* the drain, and sets `ended` only after that.                            *)
LEMMA WorkPreserves ==
    ASSUME NEW r \in RunId, DetectorInv, Works(r)
    PROVE  DetectorInv'
<1> USE NoRunAssumption DEF DetectorInv, DetectorTypeOK, OneRun, PlaceIsBusy,
                            LoopIsThere, BeforeBaseline, EndingIsTold, WatchingIsPlaced,
                            UnbornIsUntouched, SignalsAreTrue, FinisherWaits,
                            AnsweredAfterDrain, FailedStartLeavesNothing, Phase, Busy,
                            RequestCall, runVars
<1>1. CASE Opens(r)
  BY <1>1 DEF Opens
<1>2. CASE OpenFails(r)
  BY <1>2 DEF OpenFails
<1>3. CASE Begins(r)
  BY <1>3 DEF Begins
<1>4. CASE Watching(r)
  BY <1>4 DEF Watching
<1>5. CASE Announces(r)
  BY <1>5 DEF Announces
<1>6. CASE Judges(r)
  BY <1>6 DEF Judges
<1>7. CASE LoopEnds(r)
  BY <1>7 DEF LoopEnds
<1>8. CASE WorkFails(r)
  BY <1>8 DEF WorkFails
<1>9. CASE Drains(r)
  BY <1>9 DEF Drains
<1>10. CASE Releases(r)
  BY <1>10 DEF Releases
<1>11. CASE Signals(r)
  BY <1>11 DEF Signals
<1> QED BY <1>1, <1>2, <1>3, <1>4, <1>5, <1>6, <1>7, <1>8, <1>9, <1>10, <1>11 DEF Works

(* A stuttering step keeps DetectorInv: it reads nothing but the variables. *)
LEMMA DetectorStutters ==
    DetectorInv /\ UNCHANGED detectorVars => DetectorInv'
BY DEF DetectorInv, DetectorTypeOK, OneRun, PlaceIsBusy, LoopIsThere, BeforeBaseline,
       EndingIsTold, WatchingIsPlaced, UnbornIsUntouched, SignalsAreTrue, FinisherWaits,
       AnsweredAfterDrain, FailedStartLeavesNothing, detectorVars

(* DetectorInv is inductive, so it holds of every reachable state. *)
THEOREM DetectorInductive == DetectorSpec => []DetectorInv
<1>1. DetectorInv /\ [DetectorNext]_detectorVars => DetectorInv'
  BY RequestsPreserve, WorkPreserves, DetectorStutters DEF DetectorNext
<1> QED BY DetectorStarts, <1>1, PTL DEF DetectorSpec

(* Every variable keeps its type. *)
THEOREM DetectorTypeCorrect == DetectorSpec => []DetectorTypeOK
BY DetectorInductive, PTL DEF DetectorInv

(* The detector, which is not thread-safe, has at most one Run using it.   *)
THEOREM OneRunHolds == DetectorSpec => []OneRun
BY DetectorInductive, PTL DEF DetectorInv

(* An end is answered only after the Run's posts are drained. *)
THEOREM AnswersAreHonest ==
    DetectorSpec => []AnsweredAfterDrain
BY DetectorInductive, PTL DEF DetectorInv

(* A start that was answered 502 left no Run that looks or posts. *)
THEOREM FailuresLeaveNothing ==
    DetectorSpec => []FailedStartLeavesNothing
BY DetectorInductive, PTL DEF DetectorInv

(* An end is never lost on a Run that can still look, wherever it caught   *)
(* the worker.                                                             *)
THEOREM EndsAreKept == DetectorSpec => []EndingIsTold
BY DetectorInductive, PTL DEF DetectorInv

(* A Run told to finish always has a thread that will stop it. *)
THEOREM FinishesAreBounded ==
    DetectorSpec => []FinishIsBounded
<1>1. DetectorInv => FinishIsBounded
  BY DEF DetectorInv, FinisherWaits, SignalsAreTrue, FinishIsBounded
<1> QED BY DetectorInductive, <1>1, PTL

-----------------------------------------------------------------------------
(* A start, an end's beginning, the baseline and the release are the steps *)
(* of RunHolder; every other step leaves what /status shows alone.         *)
LEMMA StepsAreHeld ==
    DetectorInv /\ [DetectorNext]_detectorVars => [Holder!Next]_Shown
<1> SUFFICES ASSUME DetectorInv, [DetectorNext]_detectorVars
             PROVE  Holder!Next \/ UNCHANGED Shown
  OBVIOUS
<1> USE NoRunAssumption
<1>1. CASE UNCHANGED detectorVars
  BY <1>1 DEF detectorVars, Shown
<1>2. ASSUME NEW t \in Thread, NEW s \in SessionId, StartNew(t, s)
      PROVE  Holder!Next
  <2>1. Holder!Take(s)
    BY <1>2
    DEF StartNew, Shown, Holder!Take, Holder!Free, DetectorInv, DetectorTypeOK,
        UnbornIsUntouched
  <2> QED BY <2>1 DEF Holder!Next
<1>3. ASSUME NEW t \in Thread, BeginEnd(t)
      PROVE  Holder!Next \/ UNCHANGED Shown
  <2> DEFINE r == call[t].run
  <2>1. r \in RunId /\ current' = current /\ session' = session
        /\ state' = [state EXCEPT ![r] = "ending"]
    BY <1>3 DEF BeginEnd, DetectorInv, DetectorTypeOK, RequestCall, Idle
  <2>2. CASE current # r \/ state[r] = "ending"
    BY <2>1, <2>2 DEF Shown, DetectorInv, DetectorTypeOK
  <2>3. CASE current = r /\ state[r] # "ending"
    <3>1. Holder!BeginEnd
      BY <2>1, <2>3 DEF Shown, Holder!BeginEnd, DetectorInv, DetectorTypeOK
    <3> QED BY <3>1 DEF Holder!Next
  <2> QED BY <2>2, <2>3
<1>4. ASSUME NEW r \in RunId, Watching(r)
      PROVE  Holder!Next \/ UNCHANGED Shown
  <2>1. current = r
    BY <1>4 DEF Watching, DetectorInv, OneRun, Busy, Phase
  <2>2. CASE state[r] = "starting"
    <3>1. Holder!Watch
      BY <1>4, <2>1, <2>2
      DEF Watching, Shown, Holder!Watch, DetectorInv, DetectorTypeOK
    <3> QED BY <3>1 DEF Holder!Next
  <2>3. CASE state[r] # "starting"
    BY <1>4, <2>1, <2>3 DEF Watching, Shown, DetectorInv, DetectorTypeOK
  <2> QED BY <2>2, <2>3
<1>5. ASSUME NEW r \in RunId, Releases(r) PROVE Holder!Next
  <2>1. current = r
    BY <1>5 DEF Releases, DetectorInv, OneRun, Busy, Phase
  <2>2. Holder!Leave
    BY <1>5, <2>1
    DEF Releases, Shown, Holder!Leave, Holder!Free, DetectorInv, DetectorTypeOK
  <2> QED BY <2>2 DEF Holder!Next
<1>6. ASSUME NEW t \in Thread, NEW s \in SessionId,
             StartSame(t, s) \/ StartOther(t, s) \/ End(t, s)
      PROVE  UNCHANGED Shown
  BY <1>6
  DEF StartSame, StartOther, End, runVars, Shown
<1>7. ASSUME NEW t \in Thread,
             Close(t) \/ StartAnswers(t) \/ StartTimesOut(t)
             \/ EndTimesOut(t)
             \/ EndAnswers(t) \/ Return(t)
      PROVE  UNCHANGED Shown
  BY <1>7
  DEF Close, StartAnswers, StartTimesOut, EndTimesOut, EndAnswers, Return, runVars,
      Shown
<1>8. ASSUME NEW r \in RunId,
             Opens(r) \/ OpenFails(r) \/ Begins(r)
             \/ Announces(r) \/ Judges(r)
             \/ LoopEnds(r) \/ WorkFails(r) \/ Drains(r)
             \/ Signals(r)
      PROVE  UNCHANGED Shown
  BY <1>8
  DEF Opens, OpenFails, Begins, Announces, Judges, LoopEnds, WorkFails, Drains, Signals,
      runVars, Shown
<1> QED BY <1>1, <1>2, <1>3, <1>4, <1>5, <1>6, <1>7, <1>8
        DEF DetectorNext, Requests, Waits, Works

(* The service implements RunHolder: to a reader of /status it is one Run  *)
(* at a time, of one Session, that never goes back.                        *)
THEOREM DetectorRefines == DetectorSpec => HoldsOneRun
<1>1. DetectorInit => Holder!Init
  BY DEF DetectorInit, Holder!Init, Holder!Free, Shown
<1> QED BY <1>1, StepsAreHeld, DetectorInductive, PTL
        DEF DetectorSpec, HoldsOneRun, Holder!Spec

=============================================================================
