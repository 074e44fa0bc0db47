---------------------------- MODULE FrameStream ----------------------------
(***************************************************************************)
(* detection/new_bullet_holes.py's Stream: the reader thread that grabs    *)
(* frames, places each by its timestamp, reopens a dropped stream and      *)
(* leaves the due frames in a slot of one, and the side of the loop that   *)
(* takes them.  Time is counted in frame intervals (1 / LIVE_FPS): frame n *)
(* goes out at time n, and is read up to MaxLag later, by the wall clock   *)
(* that measures how long a drop was.                                      *)
(***************************************************************************)
EXTENDS Integers, FiniteSets

CONSTANTS
    Baseline,    \* baseline_frames
    Stride,
    LastFrame,   \* bound: the camera's last frame
    MaxGap,      \* bound: frames lost or missed between two grabbed
    MaxLag,      \* bound: how late a frame is delivered
    MaxFaults,   \* bound: disturbed grabs, drops and lost Looks
    NoFrame

ASSUME StreamAssumption ==
    /\ Baseline \in Nat \ {0} /\ Stride \in Nat \ {0}
    /\ LastFrame \in Nat /\ MaxGap \in Nat /\ MaxLag \in Nat /\ MaxFaults \in Nat
    /\ NoFrame \notin Nat

VARIABLES
    camera,      \* the last frame that went out
    epoch,       \* the frame the RTSP session's timestamps count from
    faults,      \* how many of MaxFaults have happened
    pos,         \* _pos
    origin, trusted,   \* _origin and _trusted, without their wall clock
    index,       \* the reader's: the last frame counted
    latest,      \* when it was read
    frame,       \* which of the camera's it is
    slip,        \* how much later the drops so far made frames be delivered
    offered,     \* frames offered to the loop, frame 0 included
    down,        \* _down
    untimed,     \* were frames received untimed?
    reader,      \* where the reader is
    hand,        \* the due frame it has in hand
    held,        \* _held
    ended, stopped, dropping,
    taken,       \* frames the loop took, frame 0 not counted
    unseen,      \* due frames a drop or a gap upstream missed
    late         \* due frames replaced in the slot

clocks == <<camera, epoch, faults>>
placing == <<pos, origin, trusted, index, latest, frame, slip, down, untimed>>
slot == <<hand, held, late, taken, dropping>>
stream == <<clocks, placing, slot, offered, reader, ended, stopped, unseen>>

Fix == [pos : Nat, index : Nat]
NoFix == [pos |-> NoFrame, index |-> NoFrame]

(* Is this frame looked at under the stride? *)
LookedAt(i) == i < Baseline \/ i % Stride = 0

StreamTypeOK ==
    /\ camera \in Nat /\ epoch \in Nat /\ faults \in Nat
    /\ pos \in Nat /\ origin \in Fix \cup {NoFix} /\ trusted \in Fix \cup {NoFix}
    /\ index \in Nat /\ latest \in Nat /\ frame \in Nat /\ slip \in Int /\ offered \in Nat /\ down \in BOOLEAN
    /\ untimed \in BOOLEAN /\ reader \in {"grab", "reopen", "hand", "ended"}
    /\ hand \in Nat \cup {NoFrame} /\ held \in Nat \cup {NoFrame}
    /\ ended \in BOOLEAN /\ stopped \in BOOLEAN /\ dropping \in BOOLEAN
    /\ taken \in Nat /\ unseen \subseteq Nat /\ late \subseteq Nat

(* Stream.open read frame 0, and start started the reader. *)
StreamInit ==
    /\ camera = 0 /\ epoch = 0 /\ faults = 0
    /\ pos = 0 /\ origin = [pos |-> 0, index |-> 0] /\ trusted = NoFix
    /\ index = 0 /\ latest \in 0..MaxLag /\ frame = 0 /\ slip = 0 /\ offered = 1 /\ down = FALSE /\ untimed = FALSE
    /\ reader = "grab" /\ hand = NoFrame /\ held = NoFrame
    /\ ended = FALSE /\ stopped = FALSE /\ dropping = FALSE
    /\ taken = 0 /\ unseen = {} /\ late = {}

-----------------------------------------------------------------------------
AtLeast(a, b) == IF a < b THEN b ELSE a

(* Mutant: a drop is placed as if it had missed nothing. *)
MissedNone(now) == 0

(* How many frames the drop the stream is back from missed, estimated by   *)
(* how long ago the last one was read.                                     *)
Missed(now) == IF down THEN AtLeast(0, now - latest - 1) ELSE 0

(* _place, a session's first frame or the first to advance after an        *)
(* untimed one: by the drop's length, or by its advance on the last frame  *)
(* its timestamp timed.                                                    *)
PlacedAfresh(stamp, now) ==
    LET counted == index + 1 + Missed(now)
        resumes == ~down /\ trusted # NoFix /\ stamp > trusted.pos
        placed  == IF resumes THEN AtLeast(counted, trusted.index + stamp - trusted.pos)
                              ELSE counted
        fix     == [pos |-> stamp, index |-> placed]
    IN  [placed |-> placed, origin |-> fix, trusted |-> IF resumes THEN fix ELSE trusted]

(* _place: a timestamp that does not advance is not trusted, and the frame *)
(* is counted; any other places its frame by the origin.                   *)
Place(stamp, now) ==
    IF origin = NoFix /\ (down \/ stamp > pos) THEN PlacedAfresh(stamp, now)
    ELSE IF stamp <= pos
         THEN [placed |-> index + 1, origin |-> NoFix, trusted |-> trusted]
         ELSE LET placed == AtLeast(index + 1, origin.index + stamp - origin.pos)
              IN  [placed |-> placed, origin |-> origin,
                   trusted |-> [pos |-> stamp, index |-> placed]]

(* The frames between two indices that a look was due on. *)
DueBetween(a, b) == {i \in a + 1..b - 1 : LookedAt(i)}

(* The timestamp the frame n may carry: its own, the one before it again,  *)
(* or one counted afresh; a new session always counts afresh.              *)
Stamps(n) ==
    IF down THEN {[stamp |-> 0, epoch |-> n]}
    ELSE {[stamp |-> n - epoch, epoch |-> epoch],
          [stamp |-> pos, epoch |-> epoch], [stamp |-> 0, epoch |-> n]}

(* A read failed, or was cut short by the timeout.  The camera may go on   *)
(* for ever, so past its last frame a failure is not counted.              *)
Reconnect ==
    /\ down' = TRUE /\ reader' = "reopen" /\ origin' = NoFix /\ trusted' = NoFix

GrabFails ==
    /\ reader = "grab" /\ ~stopped
    /\ faults < MaxFaults \/ camera = LastFrame
    /\ faults' = IF camera = LastFrame THEN faults ELSE faults + 1
    /\ Reconnect
    /\ UNCHANGED <<camera, epoch, pos, index, latest, frame, slip, untimed, slot, offered,
                   ended, stopped, unseen>>

(* Mutant: a stop is not seen while the stream is down. *)
ReopenDeaf ==
    /\ reader = "reopen" /\ reader' = IF stopped THEN "reopen" ELSE "grab"
    /\ UNCHANGED <<clocks, placing, slot, offered, ended, stopped, unseen>>

(* The wait, polled on a stop, and the reopening. *)
Reopen ==
    /\ reader = "reopen" /\ reader' = "grab"
    /\ UNCHANGED <<clocks, placing, slot, offered, ended, stopped, unseen>>

(* Is the frame placed there handed over?  The baseline counts the frames  *)
(* offered, so it stays consecutive frames across a drop.                  *)
Due(placed) == LookedAt(IF offered < Baseline THEN offered ELSE placed)

(* A frame grabbed and in hand: the gap before it, of a drop or upstream,  *)
(* is counted, and a due frame goes on to the slot.                        *)
Received(at, stamp, n, now) ==
    /\ unseen' = unseen \cup DueBetween(index, at.placed)
    /\ index' = at.placed /\ latest' = now /\ frame' = n /\ down' = FALSE
    /\ slip' = IF down THEN slip + (now - n) - (latest - frame) ELSE slip
    /\ origin' = at.origin /\ trusted' = at.trusted
    /\ untimed' = (untimed \/ (~down /\ stamp <= pos))
    /\ IF Due(at.placed)
       THEN hand' = at.placed /\ offered' = offered + 1 /\ reader' = "hand"
       ELSE UNCHANGED <<hand, offered, reader>>

(* Mutant: the gap before the undecodable frame is counted again by the    *)
(* drop.                                                                   *)
UndecodableRecounted(at, n, now) ==
    /\ Due(at.placed) /\ Reconnect
    /\ unseen' = unseen \cup (IF down THEN {} ELSE DueBetween(index, at.placed))
    /\ index' = at.placed /\ UNCHANGED <<latest, frame, slip, untimed, hand, offered>>

(* A due frame that cannot be decoded is a drop, and not received.  A gap  *)
(* upstream before it is counted now: the drop runs from its last frame.   *)
Undecodable(at, n, now) ==
    /\ Due(at.placed) /\ Reconnect
    /\ LET gap == ~down /\ at.placed > index + 1
       IN  /\ unseen' = unseen \cup (IF gap THEN DueBetween(index, at.placed) ELSE {})
           /\ index' = IF gap THEN at.placed - 1 ELSE index
           /\ latest' = IF gap THEN now - 1 ELSE latest
           /\ frame' = IF gap THEN n - 1 ELSE frame
    /\ UNCHANGED <<slip, untimed, hand, offered>>

(* When the frame n may be read: no earlier than the one before, and after *)
(* a drop not at once, for RECONNECT_EVERY_S is far over a frame interval. *)
ReadAt(n) == {now \in n..n + MaxLag : now >= latest /\ (down => now > latest)}

(* What happens between a grab disturbed, in its delay too, and the stream *)
(* in order again, frames lost after an untimed one too, is one fault.     *)
Grab ==
    \E lost \in 0..MaxGap, decodes \in BOOLEAN :
        LET n == camera + 1 + lost IN
        \E s \in Stamps(n), now \in ReadAt(n) :
            LET at == Place(s.stamp, now)
                disturbed == \/ ~decodes
                             \/ ~down /\ \/ s.stamp <= pos \/ (origin # NoFix /\ lost > 0)
                                         \/ now - n # latest - frame
                spent == IF disturbed THEN 1 ELSE 0
            IN  /\ reader = "grab" /\ ~stopped /\ n <= LastFrame /\ faults + spent <= MaxFaults
                /\ camera' = n /\ epoch' = s.epoch /\ faults' = faults + spent /\ pos' = s.stamp
                /\ IF decodes THEN Received(at, s.stamp, n, now) ELSE Undecodable(at, n, now)
                /\ UNCHANGED <<held, late, taken, dropping, ended, stopped>>

(* Until the loop asks past the baseline the slot is not overwritten,      *)
(* unless the Run is stopped; after it, what it held is late.              *)
HandOver ==
    /\ reader = "hand" /\ reader' = "grab"
    /\ held = NoFrame \/ dropping \/ stopped
    /\ late' = IF held # NoFrame /\ dropping THEN late \cup {held} ELSE late
    /\ held' = hand /\ hand' = NoFrame
    /\ UNCHANGED <<clocks, placing, taken, dropping, offered, ended, stopped, unseen>>

(* The reader ends once stopped, or by what grabbing or decoding raises.   *)
ReaderEnds ==
    /\ \/ reader = "grab" /\ stopped
       \/ reader = "grab" /\ faults < MaxFaults /\ ~stopped
    /\ reader' = "ended" /\ ended' = TRUE
    /\ UNCHANGED <<clocks, placing, slot, offered, stopped, unseen>>

(* Any thread, a signal handler too: only the flag. *)
Stop ==
    /\ ~stopped /\ stopped' = TRUE
    /\ UNCHANGED <<clocks, placing, slot, offered, reader, ended, unseen>>

Reads == GrabFails \/ Reopen \/ Grab \/ HandOver \/ ReaderEnds

-----------------------------------------------------------------------------
(* read, in the loop's thread: asked past the baseline, lateness starts.   *)
Ask ==
    /\ dropping' = (taken >= Baseline - 1)
    /\ UNCHANGED <<clocks, placing, hand, held, late, taken, offered, reader, ended, stopped, unseen>>

Take ==
    /\ held # NoFrame /\ ~stopped
    /\ held' = NoFrame /\ taken' = taken + 1
    /\ UNCHANGED <<clocks, placing, hand, late, dropping, offered, reader, ended, stopped, unseen>>

NoMore == stopped \/ (ended /\ held = NoFrame)

(* Only a drop's length, measured by when frames are read, can put a frame *)
(* past its place: by as much as frames are delivered later after the      *)
(* drops than before them ("1.4 s over in #85", Stream).  Timestamps never *)
(* do, repeated, reset or missing, and while every frame was timed nothing *)
(* else moves one, through gaps upstream and frames that do not decode.    *)
PlacedByTime == index <= frame + slip /\ (~untimed => index = frame + slip)

=============================================================================
