---------------------------- MODULE DetectionSync ----------------------------
(***************************************************************************)
(* The WebApp backend's side of detection (services/detection_sync.py,     *)
(* services/detection_client.py and the Session requests of                *)
(* routers/sessions.py): what each Session's detection reads, and the      *)
(* threads that ask the Detection Service for Runs and end them.  The      *)
(* service is RunHolder, which DetectionService implements, behind a       *)
(* network: a call can be lost, answered late, or taken up after its       *)
(* caller gave up.                                                         *)
(*                                                                         *)
(* A step is what a thread does between two calls that wait (the service,  *)
(* the database) or two blocks under detection_sync._lock.                 *)
(***************************************************************************)
EXTENDS FiniteSets

CONSTANTS
    Session,     \* the Sessions that can be created, all on one camera
    Handler,     \* the threads of PATCH and DELETE requests
    Tick,        \* the reconcile loop's thread
    NoSession,   \* no Session
    Scenarios    \* the sets of requests and faults, of those below, to be met together

(* A call taken up after its caller gave up; a create failing before it    *)
(* answers; the block of an end failing, and the read of whether it        *)
(* committed failing too; the backend restarting; the Detection Service    *)
(* stopping, until it is started again; the camera being switched off and  *)
(* on, or deleted.                                                         *)
Fault == {"late", "create", "block", "blind", "restart", "stop", "cameraDisabled", "cameraDeleted"}

(* What an operator asks of a Session. *)
Request == {"complete", "delete", "reopen"}

ASSUME ScenariosAssumption == Scenarios \subseteq SUBSET (Request \cup Fault)
ASSUME TickAssumption == Tick \notin Session \cup Handler /\ Session \cap Handler = {}
ASSUME NoSessionAssumption == NoSession \notin Session

VARIABLES
    status,      \* Session.status in the database
    camera,      \* the camera in the database
    shown,       \* _states: what each Session's detection reads
    watched,     \* _watched
    owed,        \* ghost: the active Sessions seen watching, no end confirmed since
    forgot,      \* ghost: those a restart made the backend forget, not seen watching since
    up,          \* the Detection Service is running
    held,        \* its Run, RunHolder's variable
    strays,      \* calls whose caller gave up before the service took them
    rpc,         \* each thread's call to the service
    pc,          \* where each thread is
    at,          \* the Session it works on
    from,        \* watch's only_from
    confirmed,   \* a handler's `confirmed`
    seen,        \* what the reconcile tick read: the Run, the Session, the camera
    scenario     \* what may be asked and go wrong, the same from beginning to end

db == <<status, camera, scenario>>
memory == <<shown, watched, owed, forgot>>
service == <<up, held, strays>>
vars == <<status, camera, shown, watched, owed, forgot, up, held, strays,
          rpc, pc, at, from, confirmed, seen, scenario>>

Service == INSTANCE RunHolder

(* A new Session's background task is named by its Session. *)
Watcher == Session \cup {Tick}
Process == Session \cup Handler \cup {Tick}

(* Mutant: a Session that reads not watching is left alone. *)
IDLEButRetries == {"none", "watching"}

(* The states a tick may change: IDLE.  not_watching stands for every      *)
(* reason and detail of it.                                                *)
IDLE == {"none", "watching", "not_watching"}
State == IDLE \cup {"starting", "ending", "end_unconfirmed"}

Answers == {"200", "404", "409", "502"}
Rpc == {"idle", "startSent", "startTaken", "endSent", "endTaken", "dead"} \cup Answers
Stray == {"start", "end"} \X Session

(* No answer to the status read: DetectionServiceUnreachable. *)
Unanswered == [session |-> "none", state |-> "unanswered"]

Seen == [run : Service!HeldRun \cup {Service!Free, Unanswered},
         active : Session \cup {NoSession},
         camera : {"enabled", "disabled", "gone"}]

(* What each variable holds. *)
TypeOK ==
    /\ status \in [Session -> {"absent", "active", "completed", "deleted"}]
    /\ camera \in {"enabled", "disabled", "gone"} /\ scenario \in Scenarios
    /\ shown \in [Session -> State]
    /\ watched \subseteq Session /\ owed \subseteq Session /\ forgot \subseteq owed
    /\ up \in BOOLEAN /\ Service!TypeOK /\ strays \subseteq Stray
    /\ rpc \in [Process -> Rpc]
    /\ pc \in [Process -> {"idle", "created", "watch", "asking", "overtaken", "undoing",
                           "begin", "beginDelete", "ending", "endingDelete", "complete",
                           "delete", "skipComplete", "skipDelete", "raised", "finish",
                           "reopened", "read", "judge", "endOther", "decide"}]
    /\ at \in [Process -> Session \cup {NoSession}]
    /\ from \in [Watcher -> {"starting", "not_watching"}]
    /\ confirmed \in [Handler -> BOOLEAN]
    /\ seen \in Seen

Active == {s \in Session : status[s] = "active"}

NothingSeen == [run |-> Service!Free, active |-> NoSession, camera |-> "enabled"]

-----------------------------------------------------------------------------
Init ==
    /\ status = [s \in Session |-> "absent"]
    /\ camera = "enabled" /\ scenario \in Scenarios
    /\ shown = [s \in Session |-> "none"] /\ watched = {} /\ owed = {} /\ forgot = {}
    /\ up = FALSE /\ Service!Init /\ strays = {}
    /\ rpc = [p \in Process |-> "idle"]
    /\ pc = [p \in Process |-> "idle"]
    /\ at = [p \in Process |-> NoSession]
    /\ from = [p \in Watcher |-> "starting"]
    /\ confirmed = [h \in Handler |-> FALSE]
    /\ seen = NothingSeen

(* A Run seen watching an active Session owes it a confirmed end. *)
Owes(s, d) ==
    IF d = "watching" /\ status[s] = "active"
    THEN owed' = owed \cup {s} /\ forgot' = forgot \ {s}
    ELSE UNCHANGED <<owed, forgot>>

(* Mutant: what was watched is forgotten as soon as it reads otherwise. *)
SetForgets(s, d) ==
    LET e == IF d = "end_unconfirmed" /\ s \notin watched THEN "none" ELSE d IN
    /\ shown' = [shown EXCEPT ![s] = e]
    /\ watched' = IF e = "watching" THEN watched \cup {s} ELSE watched \ {s}
    /\ Owes(s, e)

(***************************************************************************)
(* _set, under the lock.  end_unconfirmed reads none for a Session no Run  *)
(* is known to have watched.  owed follows what `_watched` is said to be.  *)
(***************************************************************************)
Set(s, d) ==
    LET e == IF d = "end_unconfirmed" /\ s \notin watched THEN "none" ELSE d IN
    /\ shown' = [shown EXCEPT ![s] = e]
    /\ watched' = CASE e = "watching" -> watched \cup {s}
                    [] e \in {"none", "end_unconfirmed"} -> watched \ {s}
                    [] OTHER -> watched
    /\ Owes(s, e)

SetFrom(s, d, only) ==
    IF shown[s] \in only THEN Set(s, d) ELSE UNCHANGED memory

Goto(p, l) == pc' = [pc EXCEPT ![p] = l]
Call(p, r) == rpc' = [rpc EXCEPT ![p] = r]

(* A thread whose work is over: its local variables are gone with it. *)
Done(p) ==
    /\ Goto(p, "idle")
    /\ at' = [at EXCEPT ![p] = NoSession]
    /\ from' = IF p \in Watcher THEN [from EXCEPT ![p] = "starting"] ELSE from
    /\ confirmed' = IF p \in Handler THEN [confirmed EXCEPT ![p] = FALSE] ELSE confirmed
    /\ seen' = IF p = Tick THEN NothingSeen ELSE seen

(* The client's side of a call: an answer, or none within its timeout      *)
(* (DetectionServiceUnreachable).  A call the service had not taken up yet *)
(* may still be taken up later.                                            *)
Answered(p, code) == rpc[p] = code /\ UNCHANGED strays
TimesOut(p) ==
    /\ rpc[p] \in {"startSent", "startTaken", "endSent", "endTaken", "dead"}
    /\ strays' = CASE "late" \notin scenario \/ ~up -> strays
                   [] rpc[p] = "startSent" -> strays \cup {<<"start", at[p]>>}
                   [] rpc[p] = "endSent" -> strays \cup {<<"end", at[p]>>}
                   [] OTHER -> strays

(* _end_run's own effect: only an end that ended the Run confirms it. *)
Confirms(s, yes) ==
    IF yes THEN /\ watched' = watched \ {s} /\ UNCHANGED shown
                /\ owed' = owed \ {s} /\ forgot' = forgot \ {s}
           ELSE UNCHANGED memory

-----------------------------------------------------------------------------
(***************************************************************************)
(* The Detection Service, as RunHolder allows it to move.                  *)
(***************************************************************************)

(* A start arrives: the place is taken, shared, or another Session's. *)
TakesStart(p) ==
    /\ up /\ rpc[p] = "startSent"
    /\ \/ Service!Take(at[p]) /\ Call(p, "startTaken")
       \/ Service!Holds(at[p]) /\ Call(p, "startTaken") /\ UNCHANGED held
       \/ held # Service!Free /\ ~Service!Holds(at[p]) /\ Call(p, "409") /\ UNCHANGED held
    /\ UNCHANGED <<db, memory, up, strays, pc, at, from, confirmed, seen>>

(* The Run a start waits on is watching, or another thread is ending it. *)
AnswersStart(p) ==
    /\ up /\ rpc[p] = "startTaken" /\ held.state \in {"watching", "ending"}
    /\ Call(p, IF held.state = "watching" THEN "200" ELSE "409")
    /\ UNCHANGED <<db, memory, service, pc, at, from, confirmed, seen>>

(* An end arrives: 404 unless the Session's Run is there. *)
TakesEnd(p) ==
    /\ up /\ rpc[p] = "endSent"
    /\ IF Service!Holds(at[p])
       THEN /\ Call(p, "endTaken")
            /\ IF held.state = "ending" THEN UNCHANGED held ELSE Service!BeginEnd
       ELSE Call(p, "404") /\ UNCHANGED held
    /\ UNCHANGED <<db, memory, up, strays, pc, at, from, confirmed, seen>>

(* A call whose caller has given up is taken up all the same. *)
TakesStray(x) ==
    /\ up /\ x \in strays
    /\ strays' = strays \ {x}
    /\ \/ x[1] = "start" /\ Service!Take(x[2])
       \/ x[1] = "start" /\ held # Service!Free /\ UNCHANGED held
       \/ x[1] = "end" /\ Service!Holds(x[2]) /\ Service!BeginEnd
       \/ x[1] = "end" /\ ~(Service!Holds(x[2]) /\ held.state # "ending") /\ UNCHANGED held
    /\ UNCHANGED <<db, memory, up, rpc, pc, at, from, confirmed, seen>>

(* The Run's baseline is built, or its start gives up on it. *)
RunWatches == up /\ Service!Watch /\ UNCHANGED <<db, memory, up, strays, rpc, pc, at, from, confirmed, seen>>
RunGivesUp ==
    /\ up /\ held.state = "starting" /\ Service!BeginEnd
    /\ UNCHANGED <<db, memory, up, strays, rpc, pc, at, from, confirmed, seen>>

(* The Run is over: ends waiting on it are answered, and starts too, as    *)
(* started if it was watching and its Stream ran out.                      *)
RunLeaves ==
    /\ up /\ Service!Leave
    /\ \E code \in IF held.state = "watching" THEN {"200", "502"} ELSE {"502"} :
        rpc' = [p \in Process |-> CASE rpc[p] = "startTaken" -> code
                                    [] rpc[p] = "endTaken" -> "200"
                                    [] OTHER -> rpc[p]]
    /\ UNCHANGED <<db, memory, up, strays, pc, at, from, confirmed, seen>>

(* The service dies with its Run and the calls it was holding. *)
ServiceStops ==
    /\ "stop" \in scenario
    /\ up /\ up' = FALSE /\ held' = Service!Free /\ strays' = {}
    /\ rpc' = [p \in Process |->
                 IF rpc[p] \in {"startSent", "startTaken", "endSent", "endTaken"}
                 THEN "dead" ELSE rpc[p]]
    /\ UNCHANGED <<db, memory, pc, at, from, confirmed, seen>>

ServiceStarts ==
    /\ ~up /\ up' = TRUE
    /\ UNCHANGED <<db, memory, held, strays, rpc, pc, at, from, confirmed, seen>>

-----------------------------------------------------------------------------
(***************************************************************************)
(* watch: run by a new Session's background task and by the tick.          *)
(***************************************************************************)
WatchAsks(p) ==
    /\ pc[p] = "watch"
    /\ Call(p, "startSent") /\ Goto(p, "asking")
    /\ UNCHANGED <<db, memory, service, at, from, confirmed, seen>>

(* The answer is set only if the Session still reads what watch was called *)
(* for.  A Run started for a Session that reads otherwise is looked at     *)
(* again, outside the lock.                                                *)
WatchAnswered(p) ==
    /\ pc[p] = "asking"
    /\ \E watching \in BOOLEAN :
        /\ \/ watching /\ Answered(p, "200")
           \/ ~watching /\ (Answered(p, "409") \/ Answered(p, "502") \/ TimesOut(p))
        /\ SetFrom(at[p], IF watching THEN "watching" ELSE "not_watching", {from[p]})
        /\ IF watching /\ shown[at[p]] # from[p]
           THEN Goto(p, "overtaken") /\ UNCHANGED <<at, from, confirmed, seen>>
           ELSE Done(p)
    /\ Call(p, "idle")
    /\ UNCHANGED <<db, up, held>>

(* One that began ending meanwhile, or has ended, has its Run ended. *)
WatchOvertaken(p) ==
    /\ pc[p] = "overtaken"
    /\ IF shown[at[p]] \in {"ending", "none"}
       THEN Goto(p, "undoing") /\ Call(p, "endSent") /\ UNCHANGED <<at, from, confirmed, seen>>
       ELSE Done(p) /\ UNCHANGED rpc
    /\ UNCHANGED <<db, memory, service>>

WatchUndone(p) ==
    /\ pc[p] = "undoing"
    /\ \E yes \in BOOLEAN :
        /\ \/ yes /\ Answered(p, "200")
           \/ ~yes /\ (Answered(p, "404") \/ TimesOut(p))
        /\ Confirms(at[p], yes)
    /\ Call(p, "idle") /\ Done(p)
    /\ UNCHANGED <<db, up, held>>

(***************************************************************************)
(* POST /sessions.  The Session is committed, then reads starting, and its *)
(* Run is asked for after the answer.                                      *)
(***************************************************************************)
(* Mutant: the Run is asked for before the Session is committed. *)
CreateUncommitted(s) ==
    /\ status[s] = "absent" /\ Active = {} /\ camera = "enabled" /\ pc[s] = "idle"
    /\ Goto(s, "created") /\ at' = [at EXCEPT ![s] = s]
    /\ UNCHANGED <<db, memory, service, rpc, from, confirmed, seen>>

CreateSession(s) ==
    /\ status[s] = "absent" /\ Active = {} /\ camera = "enabled"
    /\ status' = [status EXCEPT ![s] = "active"]
    /\ Goto(s, "created") /\ at' = [at EXCEPT ![s] = s]
    /\ UNCHANGED <<camera, scenario, memory, service, rpc, from, confirmed, seen>>

Starting(s) ==
    /\ pc[s] = "created"
    /\ Set(s, "starting")
    /\ Goto(s, "watch") /\ from' = [from EXCEPT ![s] = "starting"]
    /\ UNCHANGED <<db, service, rpc, at, confirmed, seen>>

(* The request fails before it answers: its background task never runs. *)
CreateFails(s) ==
    /\ "create" \in scenario
    /\ pc[s] \in {"created", "watch"} /\ Done(s)
    /\ UNCHANGED <<db, memory, service, rpc>>

(***************************************************************************)
(* PATCH {status: completed} and DELETE, inside `ending`.                  *)
(***************************************************************************)
(* ending reads the Session, still active or not, and whether detection    *)
(* has anything to do with it.                                             *)
Completes(h, s) ==
    /\ pc[h] = "idle" /\ status[s] \in {"active", "completed"}
    /\ at' = [at EXCEPT ![h] = s]
    /\ Goto(h, IF status[s] = "active" /\ (camera # "gone" \/ shown[s] # "none")
               THEN "begin" ELSE "skipComplete")
    /\ UNCHANGED <<db, memory, service, rpc, from, confirmed, seen>>

Deletes(h, s) ==
    /\ pc[h] = "idle" /\ status[s] \in {"active", "completed"}
    /\ at' = [at EXCEPT ![h] = s]
    /\ Goto(h, IF status[s] = "active" /\ (camera # "gone" \/ shown[s] # "none")
               THEN "beginDelete" ELSE "skipDelete")
    /\ UNCHANGED <<db, memory, service, rpc, from, confirmed, seen>>

EndingBegins(h) ==
    /\ pc[h] \in {"begin", "beginDelete"}
    /\ Set(at[h], "ending")
    /\ Call(h, "endSent") /\ confirmed' = [confirmed EXCEPT ![h] = FALSE]
    /\ Goto(h, IF pc[h] = "begin" THEN "ending" ELSE "endingDelete")
    /\ UNCHANGED <<db, service, at, from, seen>>

EndAnswered(h) ==
    /\ pc[h] \in {"ending", "endingDelete"}
    /\ \E yes \in BOOLEAN :
        /\ \/ yes /\ Answered(h, "200")
           \/ ~yes /\ (Answered(h, "404") \/ TimesOut(h))
        /\ Confirms(at[h], yes)
        /\ confirmed' = [confirmed EXCEPT ![h] = yes]
    /\ Call(h, "idle")
    /\ Goto(h, IF pc[h] = "ending" THEN "complete" ELSE "delete")
    /\ UNCHANGED <<db, up, held, at, from, seen>>

(* The block commits, and may fail afterwards; a Session another request   *)
(* deleted is a 404, and so an exception, too.                             *)
BlockCommits(h) ==
    /\ pc[h] \in {"complete", "delete"} /\ status[at[h]] # "deleted"
    /\ status' = [status EXCEPT ![at[h]] = IF pc[h] = "complete" THEN "completed" ELSE "deleted"]
    /\ \/ Goto(h, "finish")
       \/ "block" \in scenario /\ Goto(h, "raised")
    /\ UNCHANGED <<camera, scenario, memory, service, rpc, at, from, confirmed, seen>>

BlockRaises(h) ==
    /\ pc[h] \in {"complete", "delete"}
    /\ status[at[h]] = "deleted" \/ "block" \in scenario
    /\ Goto(h, "raised")
    /\ UNCHANGED <<db, memory, service, rpc, at, from, confirmed, seen>>

(* The except branch: _still_active, which reads not active when the       *)
(* database cannot say.                                                    *)
EndingRaised(h) ==
    /\ pc[h] = "raised"
    /\ \/ confirmed' = [confirmed EXCEPT ![h] = @ \/ status[at[h]] = "active"]
       \/ "blind" \in scenario /\ UNCHANGED confirmed
    /\ Goto(h, "finish")
    /\ UNCHANGED <<db, memory, service, rpc, at, from, seen>>

EndingFinishes(h) ==
    /\ pc[h] = "finish"
    /\ Set(at[h], IF confirmed[h] THEN "none" ELSE "end_unconfirmed")
    /\ Done(h)
    /\ UNCHANGED <<db, service, rpc>>

(* The block of a Session ending leaves alone. *)
SkipCommits(h) ==
    /\ pc[h] \in {"skipComplete", "skipDelete"}
    /\ status' = IF status[at[h]] = "deleted" THEN status
                 ELSE [status EXCEPT ![at[h]] =
                        IF pc[h] = "skipComplete" THEN "completed" ELSE "deleted"]
    /\ Done(h)
    /\ UNCHANGED <<camera, scenario, memory, service, rpc>>

(***************************************************************************)
(* PATCH {status: active}: refused while another Session is active.        *)
(***************************************************************************)
Reopens(h, s) ==
    /\ pc[h] = "idle" /\ status[s] \in {"active", "completed"} /\ Active \subseteq {s}
    /\ status' = [status EXCEPT ![s] = "active"]
    /\ owed' = IF status[s] = "active" THEN owed ELSE owed \ {s}
    /\ forgot' = IF status[s] = "active" THEN forgot ELSE forgot \ {s}
    /\ Goto(h, "reopened") /\ at' = [at EXCEPT ![h] = s]
    /\ UNCHANGED <<camera, scenario, shown, watched, service, rpc, from, confirmed, seen>>

Reopened(h) ==
    /\ pc[h] = "reopened"
    /\ SetFrom(at[h], "none", {"end_unconfirmed"})
    /\ Done(h)
    /\ UNCHANGED <<db, service, rpc>>

(* An operator switches the camera off and on, or deletes it, which takes  *)
(* it from its Sessions.                                                   *)
CameraChanges ==
    /\ camera # "gone"
    /\ \/ "cameraDisabled" \in scenario
          /\ camera' = IF camera = "enabled" THEN "disabled" ELSE "enabled"
       \/ "cameraDeleted" \in scenario /\ camera' = "gone"
    /\ UNCHANGED <<status, scenario, memory, service, rpc, pc, at, from, confirmed, seen>>

-----------------------------------------------------------------------------
(***************************************************************************)
(* reconcile, every camera_sync_interval_s, one round at a time.           *)
(***************************************************************************)
(* The status read first: a Run is only started for a committed Session.   *)
TickAsks ==
    /\ pc[Tick] = "idle"
    /\ \E r \in {Unanswered} \cup (IF up THEN {held} ELSE {}) : seen' = [seen EXCEPT !.run = r]
    /\ Goto(Tick, "read")
    /\ UNCHANGED <<db, memory, service, rpc, at, from, confirmed>>

(* A start under way for longer than STUCK_S: no thread makes it any more. *)
Stuck(s) ==
    /\ shown[s] = "starting"
    /\ \A p \in Watcher : at[p] = s => pc[p] \notin {"watch", "asking"}

(* What a round reads the Session as, `active` being the active one: a     *)
(* start that was lost is let go, and a Session no longer active reads     *)
(* none.                                                                   *)
Swept(s, active) ==
    CASE Stuck(s) /\ s # active /\ s \in watched -> "end_unconfirmed"
      [] Stuck(s) -> "none"
      [] s # active /\ shown[s] \in IDLE -> "none"
      [] OTHER -> shown[s]

(* The database is read, and at once, under the lock, what is over swept.  *)
(* One step: nothing waits in between, and what could come in between, a   *)
(* Session created and its Run watching, takes seconds.                    *)
TickReads ==
    /\ pc[Tick] = "read"
    /\ \E a \in IF Active = {} THEN {NoSession} ELSE Active :
        /\ seen' = [seen EXCEPT !.active = a, !.camera = camera]
        /\ shown' = [s \in Session |-> Swept(s, a)]
        /\ watched' = watched \ {s \in Session : Swept(s, a) \in {"none", "end_unconfirmed"}}
    /\ Goto(Tick, "judge")
    /\ UNCHANGED <<db, owed, forgot, service, rpc, at, from, confirmed>>

(* The Session to watch: the active one, while its camera is enabled. *)
Wanted == IF seen.camera = "enabled" THEN seen.active ELSE NoSession

(* Mutant: a Run is ended only in favour of another Session.               *)
UnwantedBesideWanted ==
    /\ seen.run.state \in {"starting", "watching"}
    /\ Wanted # NoSession /\ seen.run.session # Wanted

(* The Run the status read showed is not the one to watch. *)
Unwanted == seen.run.state \in {"starting", "watching"} /\ seen.run.session # Wanted

(* What is said of the Session, and whether the Run the status read showed *)
(* is another's, which is ended.                                           *)
TickJudges ==
    /\ pc[Tick] = "judge"
    /\ LET a == seen.active IN
       IF a # NoSession /\ Wanted = NoSession
          /\ (seen.camera = "disabled" \/ shown[a] # "none")
       THEN SetFrom(a, "not_watching", IDLE)
       ELSE IF seen.run = Unanswered /\ Wanted # NoSession
       THEN SetFrom(Wanted, "not_watching", IDLE)
       ELSE UNCHANGED memory
    /\ IF seen.run = Unanswered THEN Done(Tick) /\ UNCHANGED rpc
       ELSE IF Unwanted
       THEN /\ Goto(Tick, "endOther") /\ at' = [at EXCEPT ![Tick] = seen.run.session]
            /\ Call(Tick, "endSent")
            /\ seen' = [seen EXCEPT !.run = Service!Free]
            /\ UNCHANGED <<from, confirmed>>
       ELSE Goto(Tick, "decide") /\ UNCHANGED <<rpc, at, from, confirmed, seen>>
    /\ UNCHANGED <<db, service>>

TickEndedOther ==
    /\ pc[Tick] = "endOther"
    /\ \E yes \in BOOLEAN :
        /\ \/ yes /\ Answered(Tick, "200")
           \/ ~yes /\ (Answered(Tick, "404") \/ TimesOut(Tick))
        /\ Confirms(at[Tick], yes)
    /\ Call(Tick, "idle") /\ Goto(Tick, "decide") /\ at' = [at EXCEPT ![Tick] = NoSession]
    /\ UNCHANGED <<db, up, held, from, confirmed, seen>>

(* The wanted Session's own: left to a call under way, taken for watching, *)
(* or asked for.                                                           *)
TickDecides ==
    /\ pc[Tick] = "decide"
    /\ IF Wanted = NoSession \/ seen.run.state = "ending" THEN Done(Tick) /\ UNCHANGED memory
       ELSE IF shown[Wanted] \notin IDLE THEN Done(Tick) /\ UNCHANGED memory
       ELSE IF seen.run.state = "watching" THEN Set(Wanted, "watching") /\ Done(Tick)
       ELSE LET d == IF shown[Wanted] = "none" THEN "starting" ELSE "not_watching" IN
            /\ Set(Wanted, d)
            /\ from' = [from EXCEPT ![Tick] = d]
            /\ Goto(Tick, "watch") /\ at' = [at EXCEPT ![Tick] = Wanted]
            /\ seen' = NothingSeen /\ UNCHANGED confirmed
    /\ UNCHANGED <<db, service, rpc>>

(* The backend restarts: what it held in memory is gone, `_watched` and    *)
(* the warnings among it; what was owed still is.                          *)
BackendRestarts ==
    /\ "restart" \in scenario
    /\ shown' = [s \in Session |-> "none"] /\ watched' = {}
    /\ UNCHANGED owed /\ forgot' = owed
    /\ strays' = IF "late" \notin scenario THEN strays
                 ELSE strays
                      \cup {<<"start", at[p]>> : p \in {q \in Process : rpc[q] = "startSent"}}
                      \cup {<<"end", at[p]>> : p \in {q \in Process : rpc[q] = "endSent"}}
    /\ rpc' = [p \in Process |-> "idle"] /\ pc' = [p \in Process |-> "idle"]
    /\ at' = [p \in Process |-> NoSession]
    /\ from' = [p \in Watcher |-> "starting"] /\ confirmed' = [h \in Handler |-> FALSE]
    /\ seen' = NothingSeen
    /\ UNCHANGED <<db, up, held>>

-----------------------------------------------------------------------------
ServiceSteps ==
    \/ \E p \in Process : TakesStart(p) \/ AnswersStart(p) \/ TakesEnd(p)
    \/ \E x \in strays : TakesStray(x)
    \/ RunWatches \/ RunGivesUp \/ RunLeaves \/ ServiceStops \/ ServiceStarts

Watches(p) == WatchAsks(p) \/ WatchAnswered(p) \/ WatchOvertaken(p) \/ WatchUndone(p)

(* The operator asks of a Session only what its create has answered. *)
Operator(h) ==
    \E s \in Session :
        /\ pc[s] # "created"
        /\ \/ "complete" \in scenario /\ Completes(h, s)
           \/ "delete" \in scenario /\ Deletes(h, s)
           \/ "reopen" \in scenario /\ Reopens(h, s)

Handles(h) ==
    \/ EndingBegins(h) \/ EndAnswered(h) \/ BlockCommits(h) \/ BlockRaises(h)
    \/ EndingRaised(h) \/ EndingFinishes(h) \/ SkipCommits(h) \/ Reopened(h)

Ticks == TickAsks \/ TickReads \/ TickJudges \/ TickEndedOther \/ TickDecides

Next ==
    \/ ServiceSteps
    \/ \E p \in Watcher : Watches(p)
    \/ \E s \in Session : CreateSession(s) \/ Starting(s) \/ CreateFails(s)
    \/ \E h \in Handler : Operator(h) \/ Handles(h)
    \/ Ticks \/ CameraChanges \/ BackendRestarts

Spec == Init /\ [][Next]_vars

(***************************************************************************)
(* Every thread of the backend goes on: its calls to the service have a    *)
(* timeout, and the loop sleeps for a bounded time between rounds.  The    *)
(* service that is up takes the calls it gets, and a Run of it that is     *)
(* starting or ending comes to an end of that (DetectionService's          *)
(* CallsAnswered).                                                         *)
(***************************************************************************)
RunSettles == (held.state \in {"starting", "ending"} /\ RunLeaves) \/ RunWatches \/ RunGivesUp

Fairness ==
    /\ \A p \in Watcher : WF_vars(Watches(p))
    /\ \A s \in Session : WF_vars(Starting(s))
    /\ \A h \in Handler : WF_vars(Handles(h))
    /\ WF_vars(Ticks)
    /\ \A p \in Process : WF_vars(TakesStart(p) \/ AnswersStart(p) \/ TakesEnd(p))
    /\ WF_vars(RunSettles)

FairSpec == Spec /\ Fairness

-----------------------------------------------------------------------------
(* A Session in the middle of a complete or a delete. *)
Ending(s) ==
    \E h \in Handler : at[h] = s /\ pc[h] \in {"begin", "beginDelete", "ending", "endingDelete",
                                               "complete", "delete", "raised", "finish"}

(* ending: a completed Session whose Run was seen watching while it was    *)
(* active, and whose end was never confirmed, warns that its last Bullet   *)
(* Holes may be missing, whatever it read when it was completed and        *)
(* however late or lost the calls: but for a warning, or the memory of a   *)
(* Run watching, that a restart of the backend lost and no Run seen        *)
(* watching since has brought back.                                        *)
Due == owed \ forgot
NoSilentLoss ==
    scenario \cap Fault \subseteq {"stop", "late", "restart"} =>
    \A s \in Due : status[s] = "completed" /\ ~Ending(s) => shown[s] = "end_unconfirmed"

(* What a Run is known to have watched is remembered until its end is      *)
(* confirmed or the Session reads so: `_watched` and `_states` never       *)
(* disagree, though two kinds of thread change each without the other.     *)
WatchedIsShown == \A s \in watched : shown[s] \notin {"none", "end_unconfirmed"}

(* A Run belongs to a Session that was committed before it was asked for,  *)
(* which reconcile relies on when it reads the service before the          *)
(* database: no Run it reports is of a Session it cannot know.             *)
RunsAreKnown ==
    /\ held # Service!Free => status[held.session] # "absent"
    /\ seen.run \in Service!HeldRun => status[seen.run.session] # "absent"

(* A step while all is well: no Run fails or gives up, no call goes        *)
(* unanswered, and the backend is not restarted.                           *)
Well ==
    /\ ~(held.state # "ending" /\ RunLeaves) /\ ~RunGivesUp
    /\ \A p \in Process : rpc[p] \notin Answers \cup {"idle"} => rpc'[p] # "idle"
    /\ ~(TickAsks /\ seen'.run = Unanswered) /\ ~BackendRestarts

(* Once the service is up and well, an active Session comes to read        *)
(* watching and stays so, however its Run was lost before, unless it is    *)
(* being ended; except where the database, asked whether a failed end was  *)
(* committed, could not say.                                               *)
WatchedAgain ==
    \A s \in Session :
        "blind" \notin scenario
        /\ <>[](up /\ status[s] = "active" /\ camera = "enabled" /\ ~Ending(s)) /\ <>[][Well]_vars
        => <>[](shown[s] = "watching" /\ Service!Holds(s))

(* Once the service is up and well, a Run whose Session is over is ended:  *)
(* also one a late start began, or an end that was lost left behind.       *)
UnwantedEnds ==
    \A s \in Session :
        <>[](up /\ status[s] # "active") /\ <>[][Well]_vars => <>[](~Service!Holds(s))

=============================================================================
