---------------------------- MODULE BulletWatch ----------------------------
(***************************************************************************)
(* A live Run: detection/new_bullet_holes.py's process over the Looks of a *)
(* Stream.  The loop's thread registers each frame, strips the baseline's  *)
(* marks, folds what is left into Candidates, judges them (Persistence)    *)
(* and announces the corroborated ones (_Announcer), while the reader of   *)
(* FrameStream goes on and the service stops or finishes the Run.          *)
(* A place stands for the detections same_bullet_hole takes for one mark.  *)
(***************************************************************************)
EXTENDS FrameStream, Sequences

CONSTANTS
    Spot,    \* where a mark can be
    Window   \* PERSIST_FRAMES

ASSUME WatchAssumption == Window \in Nat \ {0} /\ IsFiniteSet(Spot)

VARIABLES
    loop,        \* where the loop is
    look,        \* the frame looked at last
    looked, lost,    \* Persistence's looked_at and lost
    marks,       \* the Baseline Marks
    cand,        \* the Candidate at each place that is not closed
    changed,     \* corroboration: where Change Evidence was seen
    news,        \* this Look's: persisted, and corroborating
    waiting,     \* persisted, and not corroborated yet
    announced,   \* what was printed and published, in order
    finishing,   \* the service's flag
    finish       \* what this Look read of it, and the first Look to read it set

watch == <<loop, look, looked, lost, marks, cand, changed, news, waiting, announced,
           finishing, finish>>
vars == <<stream, watch>>

NoCand == [state |-> "none", first |-> 0, seen |-> {}]
Cand == [state : {"none", "open", "persisted"}, first : Nat, seen : SUBSET Nat]

(* The stream's part and what the loop's variables hold. *)
TypeOK ==
    /\ StreamTypeOK
    /\ loop \in {"look", "judge", "ask", "wait", "close", "done"}
    /\ look \in Nat /\ looked \subseteq Nat /\ lost \subseteq Nat
    /\ marks \subseteq Spot /\ cand \in [Spot -> Cand] /\ changed \subseteq Spot
    /\ news \in [persisted : SUBSET Spot, corroborating : SUBSET Spot]
    /\ waiting \subseteq Spot /\ announced \in Seq(Spot)
    /\ finishing \in BOOLEAN /\ finish \in [read : BOOLEAN, from : Nat \cup {NoFrame}]

NoNews == [persisted |-> {}, corroborating |-> {}]

(* RegisteredFrames.open has read frame 0 and built Board space from it.   *)
Init ==
    /\ StreamInit
    /\ loop = "look" /\ look = 0 /\ looked = {} /\ lost = {} /\ marks = {}
    /\ cand = [p \in Spot |-> NoCand] /\ changed = {} /\ news = NoNews
    /\ waiting = {} /\ announced = <<>>
    /\ finishing = FALSE /\ finish = [read |-> FALSE, from |-> NoFrame]

-----------------------------------------------------------------------------
(* Registration.register: the Board may not be found, tracked or, after a  *)
(* run of lost Looks, re-anchored, or the fit be grossly wrong: a lost     *)
(* Look.  Frame 0 is Board space itself.                                   *)
Register(registers) ==
    /\ registers \/ (look # 0 /\ faults < MaxFaults)
    /\ faults' = IF registers THEN faults ELSE faults + 1
    /\ UNCHANGED <<camera, epoch, placing, slot, offered, reader, ended, stopped, unseen>>

(* What the detector may see on a Look: nothing on a lost one, and of one  *)
(* mark on two canvases only the sheet's own.                              *)
Detections(registers) == IF registers THEN SUBSET Spot ELSE {{}}

(* baseline_marks folds the Looks of the baseline into one set, and        *)
(* strip_pre_existing takes it away from every later Look.                 *)
BaselineMarks(before, seen) == before \cup seen
StripPreExisting(seen) == seen \ marks

(* Where change detection, against the baseline's canvases, may agree. *)
ChangeEvidence(points) == SUBSET points

BaselineLook(registers, seen) ==
    /\ taken < Baseline /\ loop = "look" /\ Register(registers)
    /\ marks' = BaselineMarks(marks, seen) /\ loop' = "ask"
    /\ UNCHANGED <<look, looked, lost, cand, changed, news, waiting, announced, finishing,
                   finish>>

InWindow(c, frames) == Cardinality({i \in frames : c.first <= i /\ i < c.first + Window})

(* Mutant: judged as if no Look were to come. *)
RemainingNone(c, processed) == 0

(* The due Looks of a window still to come. *)
Remaining(c, processed) ==
    Cardinality({i \in processed..c.first + Window - 1 : LookedAt(i)} \ unseen)

(* _judge, with PERSIST a half: enough of the frames tried were looked at, *)
(* and enough of the Looks saw it, whatever the remaining ones bring.      *)
Judged(c, processed, lookedAt, lostAt) ==
    LET span  == InWindow(c, lookedAt)
        tried == span + InWindow(c, lostAt) + InWindow(c, unseen)
        left  == Remaining(c, processed)
    IN  /\ span > 0 /\ 2 * span >= tried + left
        /\ 2 * InWindow(c, c.seen) >= span + left

(* _judge_due: each open Candidate persists, stays open inside its window, *)
(* or is closed, and then gathers nothing more.                            *)
JudgeDue(cs, processed, lookedAt, lostAt) ==
    [p \in Spot |->
        IF cs[p].state # "open" THEN cs[p]
        ELSE IF Judged(cs[p], processed, lookedAt, lostAt)
             THEN [cs[p] EXCEPT !.state = "persisted"]
             ELSE IF cs[p].first + Window > processed THEN cs[p] ELSE NoCand]

(* Mutant: a finishing Run opens Candidates too. *)
FoldOpening(cs, i, seen, opening) ==
    [p \in Spot |->
        IF p \notin seen THEN cs[p]
        ELSE IF cs[p].state # "none" THEN [cs[p] EXCEPT !.seen = @ \cup {i}]
        ELSE [state |-> "open", first |-> i, seen |-> {i}]]

(* _fold: a sighting joins the Candidate at its place, or opens one. *)
Fold(cs, i, seen, opening) ==
    [p \in Spot |->
        IF p \notin seen \/ (cs[p].state = "none" /\ ~opening) THEN cs[p]
        ELSE IF cs[p].state = "none" THEN [state |-> "open", first |-> i, seen |-> {i}]
        ELSE [cs[p] EXCEPT !.seen = @ \cup {i}]]

Persisted(before, after) ==
    {p \in Spot : before[p].state # "persisted" /\ after[p].state = "persisted"}

(* A Look past the baseline: registered or lost, its detections stripped   *)
(* of the baseline's, their Change Evidence, the flag read once, and the   *)
(* first half of Persistence.add: windows that ended before it are judged, *)
(* then it is folded.                                                      *)
WatchLook(registers, seen, evidence) ==
    /\ taken >= Baseline /\ loop = "look" /\ Register(registers)
    /\ changed' = changed \cup evidence
    /\ finish' = [read |-> finishing,
                  from |-> IF finishing /\ ~finish.read THEN look ELSE finish.from]
    /\ LET judged == JudgeDue(cand, look, looked, lost)
       IN  /\ cand' = Fold(judged, look, seen, ~finishing)
           /\ news' = [persisted |-> Persisted(cand, judged), corroborating |-> evidence]
    /\ looked' = IF registers THEN looked \cup {look} ELSE looked
    /\ lost' = IF registers THEN lost ELSE lost \cup {look}
    /\ loop' = "judge"
    /\ UNCHANGED <<look, marks, waiting, announced, finishing>>

(* The places in a fixed order: the order of the Candidates. *)
InOrder(places) ==
    CHOOSE s \in [1..Cardinality(places) -> places] :
        /\ \A i, j \in DOMAIN s : i < j => s[i] # s[j]
        /\ \A i, j \in DOMAIN s : i < j => cand[s[i]].first <= cand[s[j]].first

(* _Announcer.holding: one that waits inside its window. *)
Holding(places, cs) == \E p \in places : cs[p].first + Window > look + 1

(* Mutant: what waits is announced, and goes on waiting. *)
AnnounceAgain(cs) ==
    LET new   == news.persisted \cup Persisted(cand, cs)
        ready == (waiting \cap news.corroborating) \cup (new \cap changed)
        wait  == (waiting \cup new) \ (new \cap changed)
    IN  /\ announced' = announced \o InOrder(ready) /\ waiting' = wait
        /\ stopped' = (stopped \/ (/\ finish.read /\ ~Holding(wait, cs)
                                   /\ \A p \in Spot : cs[p].state # "open"))

(* The second half of Persistence.add, the announcer's call, and the stop  *)
(* of a finishing Run with nothing left to judge or to hold for.  What     *)
(* waited is checked against this Look's evidence, what persisted now      *)
(* against all of it.                                                      *)
Announce(cs) ==
    LET new   == news.persisted \cup Persisted(cand, cs)
        ready == (waiting \cap news.corroborating) \cup (new \cap changed)
        wait  == (waiting \cup new) \ ready
    IN  /\ announced' = announced \o InOrder(ready) /\ waiting' = wait
        /\ stopped' = (stopped \/ (/\ finish.read /\ ~Holding(wait, cs)
                                   /\ \A p \in Spot : cs[p].state # "open"))

(* Past the baseline the next read finds lateness started: asking is no    *)
(* step of its own.                                                        *)
JudgeLook ==
    /\ loop = "judge" /\ loop' = "wait"
    /\ LET cs == JudgeDue(cand, look + 1, looked, lost)
       IN  cand' = cs /\ Announce(cs)
    /\ news' = NoNews
    /\ UNCHANGED <<clocks, placing, slot, offered, reader, ended, unseen, look, looked, lost,
                   marks, changed, finishing, finish>>

(* Stream.read: asks, waits, and takes the frame or ends the Looks. *)
AskFrame ==
    /\ loop = "ask" /\ loop' = "wait" /\ Ask
    /\ UNCHANGED <<look, looked, lost, marks, cand, changed, news, waiting, announced,
                   finishing, finish>>

TakeFrame ==
    /\ loop = "wait" /\ loop' = "look" /\ look' = held /\ Take
    /\ UNCHANGED <<looked, lost, marks, cand, changed, news, waiting, announced,
                   finishing, finish>>

(* looks' finally: close stops the reader. *)
EndLooks ==
    /\ loop = "wait" /\ NoMore /\ loop' = "close" /\ stopped' = TRUE
    /\ UNCHANGED <<clocks, placing, slot, offered, reader, ended, unseen, look, looked, lost,
                   marks, cand, changed, news, waiting, announced, finishing, finish>>

(* Persistence.end: what became due after the last Look. *)
PersistenceEnd == JudgeDue(cand, look + 1, looked, lost)

(* close joined the reader.  The Run reports what was announced, no more   *)
(* and no less.                                                            *)
Close ==
    /\ loop = "close" /\ reader = "ended" /\ loop' = "done"
    /\ cand' = PersistenceEnd
    /\ UNCHANGED <<stream, look, looked, lost, marks, changed, news, waiting, announced,
                   finishing, finish>>

(* The service: finish sets a flag, and stop ends the Run after the Look.  *)
Finish ==
    /\ ~finishing /\ loop # "done" /\ finishing' = TRUE
    /\ UNCHANGED <<stream, loop, look, looked, lost, marks, cand, changed, news, waiting,
                   announced, finish>>

StopRun == loop # "done" /\ Stop /\ UNCHANGED watch

LoopStep ==
    \/ \E registers \in BOOLEAN : \E seen \in Detections(registers) :
          \/ BaselineLook(registers, seen)
          \/ LET points == StripPreExisting(seen)
             IN  \E evidence \in ChangeEvidence(points) : WatchLook(registers, points, evidence)
    \/ JudgeLook \/ AskFrame \/ TakeFrame \/ EndLooks \/ Close

ReaderStep == Reads /\ UNCHANGED watch

Over == loop = "done" /\ UNCHANGED vars

Next == LoopStep \/ ReaderStep \/ Finish \/ StopRun \/ Over

Spec == Init /\ [][Next]_vars

(* The two threads run; who finishes a Run also stops it, by a timer.      *)
FairSpec ==
    /\ Spec /\ WF_vars(LoopStep) /\ WF_vars(ReaderStep) /\ WF_vars(finishing /\ StopRun)

-----------------------------------------------------------------------------
(* Persistence.end's assertion, "an early verdict the window's end         *)
(* reversed": once its window has passed, a Candidate that persisted early *)
(* still persists, whatever was lost, missed or late meanwhile.            *)
EarlyVerdictStands ==
    loop # "judge" =>
        \A p \in Spot : cand[p].state = "persisted" /\ cand[p].first + Window <= look + 1
                          => Judged(cand[p], look + 1, looked, lost)

(* Every due frame the reader has passed is accounted for exactly once:    *)
(* looked at, lost, in the baseline, unseen, late, or on its way to the    *)
(* loop (Stream._read and Persistence share these lists).                  *)
DueCountedOnce ==
    ~stopped => LET passing == ({held, hand} \cup (IF loop = "look" THEN {look} ELSE {})) \ {NoFrame}
                IN  /\ unseen \cap (looked \cup lost \cup late \cup passing) = {}
                    /\ late \cap (looked \cup lost \cup passing) = {}
                    /\ \A i \in Baseline..index : LookedAt(i) /\ taken >= Baseline /\ i > look
                           => i \in unseen \cup late \cup passing

(* A mark is announced at most once, and only with Change Evidence: what   *)
(* was announced stays so (ADR-0004, _Announcer).                          *)
AnnouncedOnce ==
    /\ \A i, j \in DOMAIN announced : i # j => announced[i] # announced[j]
    /\ \A i \in DOMAIN announced : announced[i] \in changed \ waiting

(* A finished Run looks on for at most one window: it opens no Candidate,  *)
(* judges the open ones, and stops (RegisteredFrames.finish).              *)
FinishBounded ==
    finish.read /\ ~stopped /\ loop \in {"ask", "wait"} => look + 1 < finish.from + Window

(* A stop ends the Run, its reader joined; and so does finishing, bounded  *)
(* by the service's timer (Stream.stop, close).                            *)
StopEnds == stopped \/ finishing ~> loop = "done"
=============================================================================
