--------------------------- MODULE DetectionService ---------------------------
(***************************************************************************)
(* The Detection Service (ImageRecognitionService/detection/service.py):   *)
(* a process that holds the detector and at most one Run.  Its control API *)
(* is served by one thread per request (ThreadingHTTPServer); each Run is  *)
(* watched by a worker thread of its own.                                  *)
(*                                                                         *)
(* A step is what a thread does under DetectionService._lock, or between   *)
(* two points where it can wait: an Event, the Stream, the drain of its    *)
(* posts.  Waits with a timeout may time out at any moment.                *)
(***************************************************************************)
EXTENDS FiniteSets

CONSTANTS
    SessionId, \* the WebApp's Sessions
    RunId,     \* the _Run objects the process can ever make (bounds the runs)
    Thread,    \* the request threads, and the main thread for close()
    NoRun      \* DetectionService._run is None

ASSUME NoRunAssumption == NoRun \notin RunId

VARIABLES
    current,     \* DetectionService._run
    session,     \* _Run.session_id; NoRun until the Run is made
    state,       \* _Run.state
    looped,      \* the Runs whose `loop` is set
    viewed,      \* the Runs whose `baseline_view` is set
    failed,      \* the Runs whose `error` is set
    ready,       \* the Runs whose `ready` Event is set
    ended,       \* the Runs whose `ended` Event is set
    finishing,   \* the Runs whose loop was told to finish()
    stopped,     \* the Runs whose loop was told to stop()
    work,        \* where each Run's worker thread is in _work
    call         \* what each request thread is doing

runVars == <<session, state, looped, viewed, failed, ready, ended, finishing, stopped>>
detectorVars == <<current, session, state, looped, viewed, failed, ready, ended,
                  finishing, stopped, work, call>>

Op == {"start", "end", "close"}

Phase ==
    {"unborn",       \* not made yet
     "opening",      \* in RegisteredFrames.open
     "opened",       \* loop set under the lock, the state read there not acted on yet
     "openedEnding", \* the same, and it read `ending`
     "baseline",     \* in process, building the baseline
     "announcing",   \* in _watching, the lock released, `ready` not set yet
     "looking",      \* in process, past the baseline
     "draining",     \* leaving WebAppPublisher's `with`
     "failing",      \* the same, with an exception under way
     "leaving",      \* about to give the place up
     "released",     \* `_run` cleared, the Events not set yet
     "done"}

(* A worker that may call the detector or post to the backend. *)
Busy == Phase \ {"unborn", "released", "done"}

Idle == [pc |-> "idle"]

RequestCall == {Idle}
    \cup [pc : {"awaiting"}, op : {"start"}, run : RunId]
    \cup [pc : {"toEnd", "bounded", "unbounded"}, op : Op, run : RunId]
    \cup [pc : {"answered"}, op : Op, run : RunId \cup {NoRun},
          answer : {"200", "404", "409", "502"}]

(* What each variable holds: a call carries the Run it waits for.          *)
DetectorTypeOK ==
    /\ current \in RunId \cup {NoRun}
    /\ session \in [RunId -> SessionId \cup {NoRun}]
    /\ state \in [RunId -> {"starting", "watching", "ending"}]
    /\ looped \subseteq RunId /\ viewed \subseteq RunId /\ failed \subseteq RunId
    /\ ready \subseteq RunId /\ ended \subseteq RunId
    /\ finishing \subseteq RunId /\ stopped \subseteq RunId
    /\ work \in [RunId -> Phase]
    /\ call \in [Thread -> RequestCall]

Answer(op, r, code) == [pc |-> "answered", op |-> op, run |-> r, answer |-> code]

-----------------------------------------------------------------------------
DetectorInit ==
    /\ current = NoRun
    /\ session = [r \in RunId |-> NoRun]
    /\ state = [r \in RunId |-> "starting"]
    /\ looped = {} /\ viewed = {} /\ failed = {} /\ ready = {} /\ ended = {}
    /\ finishing = {} /\ stopped = {}
    /\ work = [r \in RunId |-> "unborn"]
    /\ call = [t \in Thread |-> Idle]

(***************************************************************************)
(* The request threads.                                                    *)
(***************************************************************************)

(* The next Run made: which of those left stands for it is immaterial. *)
Fresh == CHOOSE r \in RunId : work[r] = "unborn"

(* start(), its first block under the lock: a free place is taken by a new *)
(* Run and its worker thread started.                                      *)
StartNew(t, s) ==
    /\ call[t] = Idle
    /\ current = NoRun
    /\ \E r \in RunId :
        /\ work[r] = "unborn" /\ r = Fresh
        /\ current' = r
        /\ session' = [session EXCEPT ![r] = s]
        /\ work' = [work EXCEPT ![r] = "opening"]
        /\ call' = [call EXCEPT ![t] = [pc |-> "awaiting", op |-> "start", run |-> r]]
    /\ UNCHANGED <<state, looped, viewed, failed, ready, ended, finishing, stopped>>

(* start() of the Session whose Run is active: waits on it too. *)
StartSame(t, s) ==
    /\ call[t] = Idle
    /\ current # NoRun /\ session[current] = s
    /\ call' = [call EXCEPT ![t] = [pc |-> "awaiting", op |-> "start", run |-> current]]
    /\ UNCHANGED <<current, runVars, work>>

(* start() while another Session's Run is active: refused. *)
StartOther(t, s) ==
    /\ call[t] = Idle
    /\ current # NoRun /\ session[current] # s
    /\ call' = [call EXCEPT ![t] = Answer("start", NoRun, "409")]
    /\ UNCHANGED <<current, runVars, work>>

(* run.ready.wait returned: the answer read under the lock. *)
StartAnswers(t) ==
    /\ call[t].pc = "awaiting" /\ call[t].run \in ready
    /\ LET r == call[t].run IN
       call' = [call EXCEPT ![t] = Answer("start", r,
                  IF r \in failed THEN "502"
                  ELSE IF state[r] # "watching" THEN "409" ELSE "200")]
    /\ UNCHANGED <<current, runVars, work>>

(* Mutant: a start that gave up answers without ending its Run. *)
StartAbandons(t) ==
    /\ call[t].pc = "awaiting" /\ call[t].run \notin ready
    /\ call' = [call EXCEPT ![t] = Answer("start", call[t].run, "502")]
    /\ UNCHANGED <<current, runVars, work>>

(* Not watching by START_TIMEOUT_S: the start ends the Run itself. *)
StartTimesOut(t) ==
    /\ call[t].pc = "awaiting" /\ call[t].run \notin ready
    /\ call' = [call EXCEPT ![t].pc = "toEnd"]
    /\ UNCHANGED <<current, runVars, work>>

(* end(): the Session's Run, looked up under the lock, which is released   *)
(* before _end takes it again.                                             *)
End(t, s) ==
    /\ call[t] = Idle
    /\ call' = [call EXCEPT ![t] =
                  IF current # NoRun /\ session[current] = s
                  THEN [pc |-> "toEnd", op |-> "end", run |-> current]
                  ELSE Answer("end", NoRun, "404")]
    /\ UNCHANGED <<current, runVars, work>>

(* close(): the service shutting down ends its Run as an end does. *)
Close(t) ==
    /\ call[t] = Idle /\ current # NoRun
    /\ call' = [call EXCEPT ![t] = [pc |-> "toEnd", op |-> "close", run |-> current]]
    /\ UNCHANGED <<current, runVars, work>>

(* _end(), its block under the lock.  A repeat end waits on the first.     *)
BeginEnd(t) ==
    /\ call[t].pc = "toEnd"
    /\ LET r == call[t].run IN
        /\ state' = [state EXCEPT ![r] = "ending"]
        /\ finishing' = IF state[r] = "watching" THEN finishing \cup {r} ELSE finishing
        /\ stopped' = IF state[r] = "starting" /\ r \in looped
                      THEN stopped \cup {r} ELSE stopped
        /\ call' = [call EXCEPT ![t].pc =
                      IF state[r] = "watching" THEN "bounded" ELSE "unbounded"]
    /\ UNCHANGED <<current, session, looped, viewed, failed, ready, ended, work>>

(* Mutant: the bounded wait times out and nothing stops the Run. *)
EndWaitsOn(t) ==
    /\ call[t].pc = "bounded" /\ call[t].run \notin ended
    /\ call' = [call EXCEPT ![t].pc = "unbounded"]
    /\ UNCHANGED <<current, runVars, work>>

(* run.ended.wait(ENDING_TIMEOUT_S) timed out: the Run stops as it stands. *)
EndTimesOut(t) ==
    /\ call[t].pc = "bounded" /\ call[t].run \notin ended
    /\ stopped' = stopped \cup {call[t].run}
    /\ call' = [call EXCEPT ![t].pc = "unbounded"]
    /\ UNCHANGED <<current, session, state, looped, viewed, failed, ready, ended,
                   finishing, work>>

(* Mutant: the stop is taken for the end, and the drain not waited for. *)
EndAnswersOnStop(t) ==
    /\ call[t].pc \in {"bounded", "unbounded"}
    /\ call[t].pc = "unbounded" \/ call[t].run \in ended
    /\ call' = [call EXCEPT ![t] =
                  Answer(call[t].op, call[t].run, IF call[t].op = "start" THEN "502" ELSE "200")]
    /\ UNCHANGED <<current, runVars, work>>

(* run.ended is set: an end is answered, a start that gave up fails. *)
EndAnswers(t) ==
    /\ call[t].pc \in {"bounded", "unbounded"} /\ call[t].run \in ended
    /\ call' = [call EXCEPT ![t] =
                  Answer(call[t].op, call[t].run, IF call[t].op = "start" THEN "502" ELSE "200")]
    /\ UNCHANGED <<current, runVars, work>>

(* The answer is sent and the thread ends; the next request has another. *)
Return(t) ==
    /\ call[t].pc = "answered"
    /\ call' = [call EXCEPT ![t] = Idle]
    /\ UNCHANGED <<current, runVars, work>>

(***************************************************************************)
(* A Run's worker thread: _work.                                           *)
(***************************************************************************)

(* The Stream opened and Board space was built; the loop is published, and *)
(* the state read, in one block under the lock.                            *)
Opens(r) ==
    /\ work[r] = "opening"
    /\ looped' = looped \cup {r}
    /\ work' = [work EXCEPT ![r] = IF state[r] = "ending" THEN "openedEnding" ELSE "opened"]
    /\ UNCHANGED <<current, session, state, viewed, failed, ready, ended, finishing,
                   stopped, call>>

(* A Stream that cannot be opened or read: SystemExit, before any post. *)
OpenFails(r) ==
    /\ work[r] = "opening"
    /\ failed' = failed \cup {r}
    /\ work' = [work EXCEPT ![r] = "leaving"]
    /\ UNCHANGED <<current, session, state, looped, viewed, ready, ended, finishing,
                   stopped, call>>

(* The lock released: a Run ended while its Stream opened stops its loop;  *)
(* then the publisher is entered and process begins.                       *)
Begins(r) ==
    /\ work[r] \in {"opened", "openedEnding"}
    /\ stopped' = IF work[r] = "openedEnding" THEN stopped \cup {r} ELSE stopped
    /\ work' = [work EXCEPT ![r] = "baseline"]
    /\ UNCHANGED <<current, session, state, looped, viewed, failed, ready, ended,
                   finishing, call>>

(* Mutant: an ending Run goes back to watching. *)
WatchingAgain(r) ==
    /\ work[r] = "baseline"
    /\ viewed' = viewed \cup {r}
    /\ state' = [state EXCEPT ![r] = "watching"]
    /\ work' = [work EXCEPT ![r] = "announcing"]
    /\ UNCHANGED <<current, session, looped, failed, ready, ended, finishing, stopped, call>>

(* _watching, under the lock: the baseline is built, or was cut short by a *)
(* stop, which process reports the same way.                               *)
Watching(r) ==
    /\ work[r] = "baseline"
    /\ viewed' = viewed \cup {r}
    /\ state' = [state EXCEPT ![r] = IF @ = "starting" THEN "watching" ELSE @]
    /\ work' = [work EXCEPT ![r] = "announcing"]
    /\ UNCHANGED <<current, session, looped, failed, ready, ended, finishing, stopped, call>>

(* _watching, the lock released: run.ready.set(). *)
Announces(r) ==
    /\ work[r] = "announcing"
    /\ ready' = ready \cup {r}
    /\ work' = [work EXCEPT ![r] = "looking"]
    /\ UNCHANGED <<current, session, state, looped, viewed, failed, ended, finishing,
                   stopped, call>>

(* A Look of a finishing Run judged the last open Candidate: loop.stop(). *)
Judges(r) ==
    /\ work[r] = "looking" /\ r \in finishing /\ r \notin stopped
    /\ stopped' = stopped \cup {r}
    /\ UNCHANGED <<current, session, state, looped, viewed, failed, ready, ended,
                   finishing, work, call>>

(* Iteration ends: the loop was stopped, or its reader thread is gone. *)
LoopEnds(r) ==
    /\ work[r] = "looking"
    /\ work' = [work EXCEPT ![r] = "draining"]
    /\ UNCHANGED <<current, runVars, call>>

(* process raises; the publisher still drains on the way out. *)
WorkFails(r) ==
    /\ work[r] \in {"baseline", "announcing", "looking"}
    /\ work' = [work EXCEPT ![r] = "failing"]
    /\ UNCHANGED <<current, runVars, call>>

(* The drain is over, its own timeout included; an exception is recorded,  *)
(* outside the lock.                                                       *)
Drains(r) ==
    /\ work[r] \in {"draining", "failing"}
    /\ failed' = IF work[r] = "failing" THEN failed \cup {r} ELSE failed
    /\ work' = [work EXCEPT ![r] = "leaving"]
    /\ UNCHANGED <<current, session, state, looped, viewed, ready, ended, finishing,
                   stopped, call>>

(* The finally block, under the lock: the place is given up. *)
Releases(r) ==
    /\ work[r] = "leaving"
    /\ current' = IF current = r THEN NoRun ELSE current
    /\ work' = [work EXCEPT ![r] = "released"]
    /\ UNCHANGED <<runVars, call>>

(* The finally block, the lock released: run.ready.set(), run.ended.set(). *)
Signals(r) ==
    /\ work[r] = "released"
    /\ ready' = ready \cup {r}
    /\ ended' = ended \cup {r}
    /\ work' = [work EXCEPT ![r] = "done"]
    /\ UNCHANGED <<current, session, state, looped, viewed, failed, finishing, stopped, call>>

-----------------------------------------------------------------------------
Requests(t) ==
    \/ \E s \in SessionId : StartNew(t, s) \/ StartSame(t, s) \/ StartOther(t, s) \/ End(t, s)
    \/ Close(t)

Waits(t) ==
    \/ StartAnswers(t) \/ StartTimesOut(t)
    \/ BeginEnd(t) \/ EndTimesOut(t) \/ EndAnswers(t)

Works(r) ==
    \/ Opens(r) \/ OpenFails(r) \/ Begins(r) \/ Watching(r) \/ Announces(r)
    \/ Judges(r) \/ LoopEnds(r) \/ WorkFails(r) \/ Drains(r) \/ Releases(r) \/ Signals(r)

DetectorNext ==
    \/ \E t \in Thread : Requests(t) \/ Waits(t) \/ Return(t)
    \/ \E r \in RunId : Works(r)

DetectorSpec == DetectorInit /\ [][DetectorNext]_detectorVars

(***************************************************************************)
(* What the scheduling and the bounded waits of the code guarantee: a      *)
(* thread that can go on does, an Event wait with a timeout returns, the   *)
(* Stream's open is bounded by STREAM_TIMEOUT_MS and the drain by          *)
(* DRAIN_TIMEOUT_S.  Nothing makes a Stream give frames: the baseline and  *)
(* the Looks that judge are fair only once the loop was stopped.           *)
(***************************************************************************)
OpenEnds(r) == Opens(r) \/ OpenFails(r)
StopSeenInBaseline(r) == r \in stopped /\ Watching(r)
StopSeenLooking(r) == r \in stopped /\ LoopEnds(r)

DetectorFairness ==
    /\ \A t \in Thread : WF_detectorVars(Waits(t))
    /\ \A r \in RunId :
        /\ WF_detectorVars(OpenEnds(r)) /\ WF_detectorVars(Begins(r))
        /\ WF_detectorVars(Announces(r))
        /\ WF_detectorVars(StopSeenInBaseline(r)) /\ WF_detectorVars(StopSeenLooking(r))
        /\ WF_detectorVars(Drains(r)) /\ WF_detectorVars(Releases(r))
        /\ WF_detectorVars(Signals(r))

DetectorFairSpec == DetectorSpec /\ DetectorFairness

-----------------------------------------------------------------------------
(***************************************************************************)
(* Properties.                                                             *)
(***************************************************************************)

(* One detector, which is not thread-safe: a Run whose worker may still    *)
(* call it, or post, is the one `_run` names, so there is at most one,     *)
(* however starts, ends, timeouts and failures interleave.                 *)
OneRun == \A r \in RunId : work[r] \in Busy => current = r

(* end() and a start that gave up answer only once the Run is over and its *)
(* posts are drained: what was seen last was posted before the answer.     *)
AnsweredAfterDrain ==
    \A t \in Thread :
        (call[t].pc = "answered" /\ call[t].op \in {"end", "close"} /\ call[t].answer = "200")
        => work[call[t].run] = "done"

(* A start answered 502 leaves nothing behind that looks or posts.         *)
FailedStartLeavesNothing ==
    \A t \in Thread :
        (call[t].pc = "answered" /\ call[t].op = "start" /\ call[t].answer = "502")
        => work[call[t].run] \in {"leaving", "released", "done"}

(* _end's comment: a Run that reads `ending` is already finishing, or      *)
(* stopped, wherever its end caught it, the Stream still opening included. *)
EndingIsTold ==
    \A r \in RunId :
        (state[r] = "ending" /\ work[r] \in {"baseline", "announcing", "looking"})
        => r \in finishing \cup stopped

(* RegisteredFrames.finish: whoever finishes a Run also bounds the wait,   *)
(* and stops it.  A Run told to finish, and not stopped, has a thread that *)
(* will stop it, even though every repeat end waits without a bound.       *)
FinishIsBounded ==
    \A r \in RunId :
        (r \in finishing /\ r \notin stopped /\ work[r] = "looking")
        => \E t \in Thread : call[t].pc = "bounded" /\ call[t].run = r

(* What /status, a 409 and a start's 200 show of a watching Run carries    *)
(* its Baseline View, read off a loop that exists: without it the backend  *)
(* would never store the Run.                                              *)
WatchingIsPlaced ==
    \A r \in RunId : (work[r] # "unborn" /\ state[r] = "watching") => r \in viewed \cap looped

(* Every start and every end is answered, whatever the Stream does.        *)
CallsAnswered ==
    \A t \in Thread : call[t].pc # "idle" ~> call[t].pc = "answered"

(* What GET /status shows. *)
Shown ==
    IF current = NoRun THEN [session |-> "none", state |-> "free"]
    ELSE [session |-> session[current], state |-> state[current]]

Holder == INSTANCE RunHolder WITH Session <- SessionId, held <- Shown

(* The service implements RunHolder: what /status shows is one Run at a    *)
(* time, of one Session, never going back to an earlier state.             *)
HoldsOneRun == Holder!Spec
=============================================================================
