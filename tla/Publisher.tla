----------------------------- MODULE Publisher -----------------------------
(***************************************************************************)
(* detection/webapp.py's WebAppPublisher, one per Run, and the backend it  *)
(* posts to (BulletHoles).  The Run's thread publishes, its worker thread  *)
(* posts, and each attempt is a request of its own in the backend, which   *)
(* goes on there after the worker stopped waiting for its answer.          *)
(***************************************************************************)
EXTENDS Integers, Sequences

CONSTANTS
    MaxValues,   \* the Confirmed Bullet Holes published, at most
    Attempts,    \* len(RETRY_DELAYS_S) + 1
    Hole, NoThread, NoHole, NoKey

ASSUME SizesAssumption == MaxValues \in Nat /\ Attempts \in Nat \ {0}

(* The values in the order they are published; each has its own key. *)
Value == 1..MaxValues
Sentinel == 0
Post == Value \X (1..Attempts)

ASSUME NoneAssumption == NoThread \notin Post /\ NoHole \notin Hole /\ NoKey \notin Value

VARIABLES
    queue,       \* _queue
    published,   \* how many values have been published
    main,        \* the Run's thread: in the with, in __exit__, or past it
    stop,        \* _stop
    at,          \* where the worker is
    value, attempt,
    outcome,     \* what the worker logged of each value
    status, rank, key, deleted, lock, pc, job, answer   \* the backend's

worker == <<at, value, attempt>>
backend == <<status, rank, key, deleted, lock, pc, job, answer>>
vars == <<queue, published, main, stop, worker, outcome, backend>>

Backend == INSTANCE BulletHoles WITH Thread <- Post, Key <- Value
Table == INSTANCE RankedHoles WITH Key <- Value

(* What each variable holds; no value is tried more than Attempts times. *)
TypeOK ==
    /\ queue \in Seq(Value \cup {Sentinel}) /\ published \in 0..MaxValues
    /\ main \in {"in", "draining", "stopping", "left"} /\ stop \in BOOLEAN
    /\ at \in {"get", "try", "posting", "wait", "done"}
    /\ value \in Value \cup {Sentinel} /\ attempt \in 0..Attempts
    /\ outcome \in [Value -> {"none", "posted", "refused", "failed", "undrained"}]
    /\ Backend!TypeOK

Init ==
    /\ queue = <<>> /\ published = 0 /\ main = "in" /\ stop = FALSE
    /\ at = "get" /\ value = Sentinel /\ attempt = 0
    /\ outcome = [v \in Value |-> "none"]
    /\ Backend!Init

-----------------------------------------------------------------------------
(* The Run's thread. *)
Publish ==
    /\ main = "in" /\ published < MaxValues
    /\ published' = published + 1 /\ queue' = Append(queue, published + 1)
    /\ UNCHANGED <<main, stop, worker, outcome, backend>>

(* Mutant: leaving does not tell the worker. *)
ExitUntold ==
    /\ main = "in" /\ main' = "draining"
    /\ UNCHANGED <<queue, published, stop, worker, outcome, backend>>

(* __exit__: the sentinel is queued behind everything published. *)
Exit ==
    /\ main = "in" /\ main' = "draining" /\ queue' = Append(queue, Sentinel)
    /\ UNCHANGED <<published, stop, worker, outcome, backend>>

(* The first join ran out of DRAIN_TIMEOUT_S. *)
DrainTimesOut ==
    /\ main = "draining" /\ at # "done" /\ main' = "stopping" /\ stop' = TRUE
    /\ UNCHANGED <<queue, published, worker, outcome, backend>>

(* With nothing to get, the worker waits. *)
Idle == at = "get" /\ queue = <<>>

(* Either join returned.  The second one can run out only on the POST in   *)
(* flight, or on a worker that waits for a value: with _stop set, nothing  *)
(* else of it waits.                                                       *)
Leaves ==
    /\ \/ main \in {"draining", "stopping"} /\ at = "done"
       \/ main = "stopping" /\ (at = "posting" \/ Idle)
    /\ main' = "left"
    /\ UNCHANGED <<queue, published, stop, worker, outcome, backend>>

-----------------------------------------------------------------------------
(* Mutant: the newest value first. *)
GetsLast ==
    /\ at = "get" /\ queue # <<>>
    /\ queue' = SubSeq(queue, 1, Len(queue) - 1)
    /\ value' = queue[Len(queue)]
    /\ IF value' = Sentinel THEN at' = "done" /\ UNCHANGED attempt ELSE at' = "try" /\ attempt' = 1
    /\ UNCHANGED <<published, main, stop, outcome, backend>>

(* _run: the worker ends once it reaches the sentinel. *)
Gets ==
    /\ at = "get" /\ queue # <<>>
    /\ queue' = Tail(queue) /\ value' = Head(queue)
    /\ \/ Head(queue) = Sentinel /\ at' = "done" /\ UNCHANGED attempt
       \/ Head(queue) # Sentinel /\ at' = "try" /\ attempt' = 1
    /\ UNCHANGED <<published, main, stop, outcome, backend>>

Settles(result) == outcome' = [outcome EXCEPT ![value] = result] /\ at' = "get"

(* The drain timed out: the value is dropped, and so is every later one. *)
Drops ==
    /\ at = "try" /\ stop /\ Settles("undrained")
    /\ UNCHANGED <<queue, published, main, stop, value, attempt, backend>>

(* One POST, which the network may not get to the backend. *)
Tries ==
    /\ at = "try" /\ ~stop /\ at' = "posting"
    /\ Backend!Report(<<value, attempt>>, "model", value) \/ UNCHANGED backend
    /\ UNCHANGED <<queue, published, main, stop, value, attempt, outcome>>

(* The backend's answer settles the value: stored, or refused for good. *)
Answered ==
    /\ at = "posting"
    /\ \/ answer[<<value, attempt>>] = "201" /\ Settles("posted")
       \/ answer[<<value, attempt>>] \in {"404", "409"} /\ Settles("refused")
    /\ UNCHANGED <<queue, published, main, stop, value, attempt, backend>>

(* No answer in time, the connection lost, or a 500: tried again, up to    *)
(* the last attempt.  The request itself may still be running.             *)
Fails ==
    /\ at = "posting"
    /\ \/ attempt < Attempts /\ at' = "wait" /\ UNCHANGED outcome
       \/ attempt = Attempts /\ Settles("failed")
    /\ UNCHANGED <<queue, published, main, stop, value, attempt, backend>>

(* The retry's delay is over, or _stop cut it short. *)
Waits ==
    /\ at = "wait" /\ at' = "try" /\ attempt' = attempt + 1
    /\ UNCHANGED <<queue, published, main, stop, value, outcome, backend>>

(* The operator deletes a row, at once, as BulletHoles shows it is. *)
OperatorDeletes(h) ==
    /\ lock = NoThread /\ Table!Remove(h)
    /\ UNCHANGED <<status, lock, pc, job, answer>>

(* The backend's own steps, those of attempts given up on included. *)
BackendSteps ==
    /\ \/ \E p \in Post : Backend!Handles(p)
       \/ \E h \in Hole : OperatorDeletes(h)
       \/ Backend!ChangesStatus \/ Backend!DeletesSession
    /\ UNCHANGED <<queue, published, main, stop, worker, outcome>>

WorkerSteps == Gets \/ Drops \/ Tries \/ Answered \/ Fails \/ Waits

(* Everything is over: the Run has left, and no request is open. *)
Over ==
    /\ main = "left" /\ (at = "done" \/ Idle) /\ \A p \in Post : pc[p] = "idle"
    /\ UNCHANGED vars

Next == Publish \/ Exit \/ DrainTimesOut \/ Leaves \/ WorkerSteps \/ BackendSteps \/ Over

Spec == Init /\ [][Next]_vars

(***************************************************************************)
(* The worker goes on: its get returns once there is a value, a POST ends  *)
(* by its socket timeout at the latest, and a delay is bounded.  So do the *)
(* joins of __exit__.  Nothing is assumed of the backend or the operator,  *)
(* nor that a Run ever leaves.                                             *)
(***************************************************************************)
FairSpec == Spec /\ WF_vars(WorkerSteps) /\ WF_vars(DrainTimesOut) /\ WF_vars(Leaves)
-----------------------------------------------------------------------------

(* A value that was posted is ranked before every later value: its retries *)
(* never let a later one past it.  (One given up on may still be stored    *)
(* late, by an attempt the backend was slow to take.)                      *)
StoredInOrder ==
    \A v, w \in Value : v < w /\ outcome[v] = "posted" =>
        \A g \in Backend!Live, h \in Backend!Live :
            key[g] = v /\ key[h] = w => rank[g] < rank[h]

(* When the worker is done every published value was settled, and one was  *)
(* dropped untried, or between its tries, only if the drain timed out.     *)
NothingSkipped ==
    at = "done" => \A v \in 1..published :
        outcome[v] # "none" /\ (outcome[v] = "undrained" => stop)

(* Leaving the with ends, and so does the worker, whatever the backend     *)
(* does.                                                                   *)
LeavingEnds == (main = "draining") ~> (main = "left" /\ at = "done")
=============================================================================
