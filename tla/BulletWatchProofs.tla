------------------------- MODULE BulletWatchProofs -------------------------
(***************************************************************************)
(* Proofs about BulletWatch, for any baseline, stride, window, bounds and  *)
(* places: where frames are placed, when a finished Run stops, that every  *)
(* due frame is accounted for, what is announced, and that an early        *)
(* verdict stands.  Then about Scoring, the tools that measure the         *)
(* pipeline, for any marks, frame rate and strides.                        *)
(***************************************************************************)
EXTENDS BulletWatch, Scoring, FiniteSetTheorems, WellFoundedInduction, TLAPS

Typed ==
    /\ StreamTypeOK
    /\ loop \in {"look", "judge", "ask", "wait", "close", "done"} /\ look \in Nat
    /\ cand \in [Spot -> Cand] /\ finishing \in BOOLEAN
    /\ finish \in [read : BOOLEAN, from : Nat \cup {NoFrame}]
    /\ waiting \subseteq Spot /\ news.persisted \subseteq Spot

(* While the stream is up the last frame grabbed is the last received, and *)
(* a drop leaves nothing to place by.                                      *)
ClocksAgree ==
    /\ epoch <= camera /\ frame <= camera /\ frame <= latest /\ index <= frame + slip
    /\ IF down THEN origin = NoFix /\ trusted = NoFix ELSE frame = camera

(* No frame is placed later in its session's time than it went out and the *)
(* drops slipped, so a frame placed by one that was is not either.         *)
FixesBehind ==
    /\ origin # NoFix => origin.index - origin.pos <= epoch + slip
    /\ trusted # NoFix => trusted.index - trusted.pos <= epoch + slip

(* With every frame timed, a session's frames are placed by one that was   *)
(* placed where it went out, but for what the drops slipped.               *)
TimedIsExact ==
    ~untimed => /\ index = frame + slip
                /\ ~down => origin # NoFix /\ origin.index - origin.pos = epoch + slip

(* Frames reach the loop in the order of their places. *)
FramesInOrder ==
    /\ look <= index
    /\ held # NoFrame => look < held /\ held <= index
    /\ hand # NoFrame => look < hand /\ hand <= index /\ (held # NoFrame => held < hand)
    /\ (reader = "hand") = (hand # NoFrame)

(* Candidates are of Looks had; once the flag was read none is opened.     *)
CandidatesPast ==
    /\ \A p \in Spot : cand[p].first <= look
    /\ finish.read => /\ finishing /\ finish.from \in Nat /\ taken >= Baseline
                      /\ \A p \in Spot : cand[p].first <= finish.from
    /\ loop = "ask" => taken < Baseline

PlaceInv == StreamTypeOK /\ ClocksAgree /\ FixesBehind /\ TimedIsExact

IInv ==
    /\ Typed /\ ClocksAgree /\ FixesBehind /\ TimedIsExact
    /\ FramesInOrder /\ CandidatesPast /\ FinishBounded
-----------------------------------------------------------------------------
(* A Run starts on frame 0, placed where it went out. *)
LEMMA InitEstablishes == Init => IInv
<1> SUFFICES ASSUME Init PROVE IInv
  OBVIOUS
<1> USE StreamAssumption DEF Init, StreamInit
<1>1. Typed
  <2>1. StreamTypeOK
    <3>1. origin \in Fix /\ trusted = NoFix /\ latest \in Nat
      BY DEF Fix
    <3>2. /\ camera \in Nat /\ epoch \in Nat /\ faults \in Nat /\ pos \in Nat /\ index \in Nat
          /\ frame \in Nat /\ slip \in Int /\ offered \in Nat /\ taken \in Nat
      OBVIOUS
    <3>3. /\ down \in BOOLEAN /\ untimed \in BOOLEAN /\ ended \in BOOLEAN /\ stopped \in BOOLEAN
          /\ dropping \in BOOLEAN /\ unseen \subseteq Nat /\ late \subseteq Nat
      BY Zenon
    <3>4. reader = "grab" /\ hand = NoFrame /\ held = NoFrame
      OBVIOUS
    <3> HIDE DEF Init, StreamInit
    <3> QED BY <3>1, <3>2, <3>3, <3>4 DEF StreamTypeOK
  <2>2. cand \in [Spot -> Cand]
    BY DEF Cand, NoCand
  <2> QED BY <2>1, <2>2 DEF Typed, NoNews
<1>2. ClocksAgree /\ FixesBehind /\ TimedIsExact
  BY DEF ClocksAgree, FixesBehind, TimedIsExact, NoFix
<1>3. FramesInOrder /\ CandidatesPast /\ FinishBounded
  BY DEF FramesInOrder, CandidatesPast, FinishBounded, NoCand
<1> QED BY <1>1, <1>2, <1>3 DEF IInv

(* What the drops will have slipped once the frame n, read at now, is      *)
(* received.                                                               *)
Slipped(n, now) == IF down THEN slip + (now - n) - (latest - frame) ELSE slip

(* _place puts a frame after the last one and not past when it went out    *)
(* and the drops slipped, and the fix it leaves is behind its session's    *)
(* time; exactly in time while every frame was timed, this one too.        *)
LEMMA Placing ==
    ASSUME PlaceInv, NEW n \in Nat, n > camera, NEW now \in Nat, now >= latest,
           down => now > latest, NEW s \in Stamps(n)
    PROVE  LET at == Place(s.stamp, now)
               slipped == Slipped(n, now)
           IN  /\ s.stamp \in Nat /\ s.epoch \in Nat /\ epoch <= s.epoch /\ s.epoch <= n
               /\ at.placed \in Nat /\ index < at.placed /\ at.placed <= n + slipped
               /\ at.origin \in Fix \cup {NoFix} /\ at.trusted \in Fix \cup {NoFix}
               /\ at.origin # NoFix => at.origin.index - at.origin.pos <= s.epoch + slipped
               /\ at.trusted # NoFix => at.trusted.index - at.trusted.pos <= s.epoch + slipped
               /\ ~untimed /\ (down \/ s.stamp > pos) =>
                      /\ at.placed = n + slipped
                      /\ at.origin # NoFix /\ at.origin.index - at.origin.pos = s.epoch + slipped
               /\ ~untimed /\ ~down /\ s.stamp <= pos => at.placed = index + 1
<1> DEFINE at == Place(s.stamp, now)
           slipped == Slipped(n, now)
<1> USE StreamAssumption DEF PlaceInv, StreamTypeOK, ClocksAgree, FixesBehind, TimedIsExact
<1>1. /\ s.stamp \in Nat /\ s.epoch \in Nat /\ epoch <= s.epoch /\ s.epoch <= n
      /\ s.stamp > pos => s.epoch = epoch /\ s.stamp = n - epoch
      /\ down => s.stamp = 0 /\ s.epoch = n
  BY DEF Stamps
<1>s. /\ slipped \in Int /\ (~down => slipped = slip)
      /\ down => slipped = slip + (now - n) - (latest - frame)
  BY DEF Slipped
<1> HIDE DEF slipped
<1>2. CASE origin = NoFix /\ (down \/ s.stamp > pos)
  <2> DEFINE counted == index + 1 + Missed(now)
             resumes == ~down /\ trusted # NoFix /\ s.stamp > trusted.pos
             placed == IF resumes THEN AtLeast(counted, trusted.index + s.stamp - trusted.pos)
                                  ELSE counted
             fix == [pos |-> s.stamp, index |-> placed]
  <2>1. at = [placed |-> placed, origin |-> fix, trusted |-> IF resumes THEN fix ELSE trusted]
    BY <1>2, Zenon DEF Place, PlacedAfresh
  <2>2. /\ counted \in Nat /\ index < counted /\ counted <= n + slipped
        /\ down /\ ~untimed => counted = n + slipped
    BY <1>s DEF Missed, AtLeast
  <2>3. placed \in Nat /\ counted <= placed /\ placed <= n + slipped /\ (down => placed = counted)
    BY <1>1, <1>2, <1>s, <2>2 DEF AtLeast, Fix
  <2>4. /\ placed - s.stamp <= s.epoch + slipped
        /\ down /\ ~untimed => placed - s.stamp = s.epoch + slipped
    BY <1>1, <1>2, <1>s, <2>2, <2>3
  <2>5. fix \in Fix /\ fix # NoFix /\ fix.index = placed /\ fix.pos = s.stamp
    BY <1>1, <2>3 DEF Fix, NoFix
  <2> HIDE DEF counted, placed, fix
  <2>6. ~untimed => down
    BY <1>2
  <2>7. epoch <= s.epoch
    BY <1>1
  <2> QED
    BY <1>1, <1>s, <2>1, <2>2, <2>3, <2>4, <2>5, <2>6, <2>7 DEF Fix, NoFix, slipped
<1>3. CASE ~(origin = NoFix /\ (down \/ s.stamp > pos)) /\ s.stamp <= pos
  <2>1. at = [placed |-> index + 1, origin |-> NoFix, trusted |-> trusted]
    BY <1>3, Zenon DEF Place
  <2>2. ~down
    BY <1>3
  <2> QED BY <1>1, <1>s, <1>3, <2>1, <2>2 DEF Fix, NoFix, slipped
<1>4. CASE ~(origin = NoFix /\ (down \/ s.stamp > pos)) /\ ~(s.stamp <= pos)
  <2> DEFINE placed == AtLeast(index + 1, origin.index + s.stamp - origin.pos)
  <2>1. at = [placed |-> placed, origin |-> origin,
              trusted |-> [pos |-> s.stamp, index |-> placed]]
    BY <1>4, Zenon DEF Place
  <2>2. origin # NoFix /\ s.stamp > pos /\ ~down
    BY <1>1, <1>4
  <2>3. /\ placed \in Nat /\ index < placed /\ placed <= n + slipped
        /\ ~untimed => placed = n + slipped
    BY <1>1, <1>s, <2>2 DEF AtLeast, Fix
  <2> HIDE DEF placed
  <2> QED BY <1>1, <1>s, <2>1, <2>2, <2>3 DEF Fix, NoFix, slipped
<1> QED BY <1>2, <1>3, <1>4

(* A grab, with its frame, when it was read, its timestamp and whether it  *)
(* decodes.                                                                *)
GrabOf(n, now, s, decodes) ==
    LET at == Place(s.stamp, now)
    IN  /\ reader = "grab" /\ camera' = n /\ epoch' = s.epoch /\ faults' \in Nat
        /\ pos' = s.stamp
        /\ IF decodes THEN Received(at, s.stamp, n, now) ELSE Undecodable(at, n, now)
        /\ UNCHANGED <<held, late, taken, dropping, ended, stopped>>

LEMMA Grabbing ==
    ASSUME StreamTypeOK, Grab
    PROVE  \E n \in Nat, now \in Nat, decodes \in BOOLEAN : \E s \in Stamps(n) :
              /\ n > camera /\ now >= n /\ now >= latest /\ (down => now > latest)
              /\ GrabOf(n, now, s, decodes)
<1> USE StreamAssumption DEF StreamTypeOK
<1>1. PICK more \in 0..MaxGap, decodes \in BOOLEAN :
        \E s \in Stamps(camera + 1 + more), now \in ReadAt(camera + 1 + more) :
            GrabOf(camera + 1 + more, now, s, decodes)
  BY DEF Grab, GrabOf
<1> DEFINE n == camera + 1 + more
<1>2. n \in Nat /\ n > camera
  OBVIOUS
<1>3. PICK s \in Stamps(n), now \in ReadAt(n) : GrabOf(n, now, s, decodes)
  BY <1>1
<1> HIDE DEF n
<1>4. now \in Nat /\ now >= n /\ now >= latest /\ (down => now > latest)
  BY <1>2 DEF ReadAt
<1> QED BY <1>2, <1>3, <1>4

(* A grab keeps IInv: the frame is placed after the last one, and a gap    *)
(* upstream before one that does not decode ends before it.                *)
LEMMA GrabPreserves == ASSUME IInv, Grab, UNCHANGED watch PROVE IInv'
<1> USE StreamAssumption
<1>0. StreamTypeOK
  BY DEF IInv, Typed
<1>1. PICK n \in Nat, now \in Nat, decodes \in BOOLEAN : \E s \in Stamps(n) :
        /\ n > camera /\ now >= n /\ now >= latest /\ (down => now > latest)
        /\ GrabOf(n, now, s, decodes)
  BY <1>0, Grabbing
<1>2. PICK s \in Stamps(n) :
        /\ n > camera /\ now >= n /\ now >= latest /\ (down => now > latest)
        /\ GrabOf(n, now, s, decodes)
  BY <1>1
<1> DEFINE at == Place(s.stamp, now)
           slipped == Slipped(n, now)
<1>p. PlaceInv
  BY DEF IInv, Typed, PlaceInv
<1>3. /\ s.stamp \in Nat /\ s.epoch \in Nat /\ epoch <= s.epoch /\ s.epoch <= n
      /\ at.placed \in Nat /\ index < at.placed /\ at.placed <= n + slipped
      /\ at.origin \in Fix \cup {NoFix} /\ at.trusted \in Fix \cup {NoFix}
      /\ at.origin # NoFix => at.origin.index - at.origin.pos <= s.epoch + slipped
      /\ at.trusted # NoFix => at.trusted.index - at.trusted.pos <= s.epoch + slipped
      /\ ~untimed /\ (down \/ s.stamp > pos) =>
             /\ at.placed = n + slipped
             /\ at.origin # NoFix /\ at.origin.index - at.origin.pos = s.epoch + slipped
      /\ ~untimed /\ ~down /\ s.stamp <= pos => at.placed = index + 1
  BY <1>2, <1>p, Placing
<1>4. DueBetween(index, at.placed) \subseteq Nat
  BY <1>0, <1>3 DEF DueBetween, StreamTypeOK
<1>5. /\ reader = "grab" /\ camera' = n /\ epoch' = s.epoch /\ faults' \in Nat
      /\ pos' = s.stamp
      /\ IF decodes THEN Received(at, s.stamp, n, now) ELSE Undecodable(at, n, now)
      /\ UNCHANGED <<held, late, taken, dropping, ended, stopped>>
  BY <1>2 DEF GrabOf
<1>s. slipped \in Int /\ (~down => slipped = slip)
  BY <1>0 DEF Slipped, StreamTypeOK
<1> HIDE DEF at
<1> USE DEF IInv, watch
<1>6. CASE decodes
  <2>0. Received(at, s.stamp, n, now)
    BY <1>5, <1>6
  <2>1. untimed' \in BOOLEAN /\ (~untimed' => ~untimed /\ (down \/ ~(s.stamp <= pos)))
    BY <2>0, Zenon DEF Received
  <2>2. /\ index' = at.placed /\ latest' = now /\ frame' = n /\ slip' = slipped
        /\ ~down' /\ down' \in BOOLEAN
        /\ origin' = at.origin /\ trusted' = at.trusted
        /\ unseen' = unseen \cup DueBetween(index, at.placed)
    BY <2>0 DEF Received, Slipped
  <2>3. \/ hand' = at.placed /\ offered' = offered + 1 /\ reader' = "hand"
        \/ UNCHANGED <<hand, offered, reader>>
    BY <2>0 DEF Received
  <2> HIDE DEF slipped
  <2>4. Typed'
    <3>1. unseen' \subseteq Nat
      BY <1>4, <2>2, Zenon DEF Typed, StreamTypeOK
    <3>2. hand' \in Nat \cup {NoFrame} /\ offered' \in Nat /\ reader' \in {"grab", "reopen", "hand", "ended"}
      BY <1>3, <2>3 DEF Typed, StreamTypeOK
    <3> QED BY <1>3, <1>5, <1>s, <2>1, <2>2, <3>1, <3>2 DEF Typed, StreamTypeOK
  <2>5. ClocksAgree' /\ FixesBehind'
    BY <1>2, <1>3, <1>5, <1>s, <2>2 DEF ClocksAgree, FixesBehind, Typed, StreamTypeOK
  <2>6. TimedIsExact'
    BY <1>2, <1>3, <1>5, <1>s, <2>1, <2>2 DEF TimedIsExact, Typed, StreamTypeOK
  <2>7. FramesInOrder' /\ CandidatesPast' /\ FinishBounded'
    BY <1>2, <1>3, <1>5, <2>2, <2>3
       DEF FramesInOrder, CandidatesPast, FinishBounded, Typed, StreamTypeOK
  <2> QED BY <2>4, <2>5, <2>6, <2>7
<1>7. CASE ~decodes
  <2> HIDE DEF slipped
  <2>0. Undecodable(at, n, now)
    BY <1>5, <1>7
  <2>g. /\ down' = TRUE /\ reader' = "reopen" /\ origin' = NoFix /\ trusted' = NoFix
        /\ UNCHANGED <<slip, untimed, hand, offered>>
        /\ unseen' = unseen \/ unseen' = unseen \cup DueBetween(index, at.placed)
        /\ \/ UNCHANGED <<index, latest, frame>>
           \/ /\ ~down /\ at.placed > index + 1
              /\ index' = at.placed - 1 /\ latest' = now - 1 /\ frame' = n - 1
    BY <2>0 DEF Undecodable, Reconnect
  <2> USE <1>2, <1>3, <1>4, <1>5, <1>s, <2>g
  <2>1. Typed'
    <3>1. unseen' \subseteq Nat
      BY Zenon DEF Typed, StreamTypeOK
    <3>2. index' \in Nat /\ latest' \in Nat /\ frame' \in Nat
      BY DEF Typed, StreamTypeOK
    <3> QED BY <3>1, <3>2 DEF Typed, StreamTypeOK
  <2>2. ClocksAgree' /\ FixesBehind' /\ TimedIsExact'
    BY DEF ClocksAgree, FixesBehind, TimedIsExact, Typed, StreamTypeOK
  <2>3. FramesInOrder' /\ CandidatesPast' /\ FinishBounded'
    BY DEF FramesInOrder, CandidatesPast, FinishBounded, Typed, StreamTypeOK
  <2> QED BY <2>1, <2>2, <2>3
<1> QED BY <1>6, <1>7

(* The reader's other steps, the service's and those that change nothing.  *)
LEMMA ReaderPreserves ==
    ASSUME IInv, \/ (GrabFails \/ Reopen \/ HandOver \/ ReaderEnds) /\ UNCHANGED watch
                 \/ Finish \/ StopRun \/ UNCHANGED vars
    PROVE  IInv'
<1> USE StreamAssumption
<1> USE DEF IInv, Typed, StreamTypeOK, ClocksAgree, FixesBehind, TimedIsExact, FramesInOrder,
            CandidatesPast, FinishBounded, watch, clocks, placing, slot, stream
<1>1. CASE GrabFails /\ UNCHANGED watch
  BY <1>1 DEF GrabFails, Reconnect
<1>2. CASE Reopen /\ UNCHANGED watch
  BY <1>2 DEF Reopen
<1>3. CASE HandOver /\ UNCHANGED watch
  BY <1>3 DEF HandOver
<1>4. CASE ReaderEnds /\ UNCHANGED watch
  BY <1>4 DEF ReaderEnds
<1>5. CASE Finish
  BY <1>5 DEF Finish
<1>6. CASE StopRun
  BY <1>6 DEF StopRun, Stop
<1>7. CASE UNCHANGED vars
  BY <1>7 DEF vars
<1> QED BY <1>1, <1>2, <1>3, <1>4, <1>5, <1>6, <1>7
-----------------------------------------------------------------------------
(* Judging opens no Candidate. *)
LEMMA Judging ==
    ASSUME NEW cs \in [Spot -> Cand], NEW processed, NEW a, NEW b
    PROVE  /\ JudgeDue(cs, processed, a, b) \in [Spot -> Cand]
           /\ \A p \in Spot : JudgeDue(cs, processed, a, b)[p].first \in {0, cs[p].first}
<1> DEFINE js == JudgeDue(cs, processed, a, b)
<1>1. ASSUME NEW p \in Spot
      PROVE  js[p] \in Cand /\ js[p].first \in {0, cs[p].first}
  <2>1. js[p] \in {cs[p], [cs[p] EXCEPT !.state = "persisted"], NoCand}
    BY Zenon DEF JudgeDue
  <2> QED BY <2>1 DEF Cand, NoCand
<1>2. js = [p \in Spot |-> js[p]]
  BY Zenon DEF JudgeDue
<1> QED BY <1>1, <1>2, Zenon

(* The loop's steps keep IInv.  A finishing Run that goes on has a         *)
(* Candidate to judge or to hold for, and none of those was opened after   *)
(* the flag was read: its window is the bound.                             *)
LEMMA LoopPreserves == ASSUME IInv, LoopStep PROVE IInv'
<1> USE StreamAssumption
<1> USE DEF IInv, clocks, placing, slot, stream
<1>1. ASSUME NEW registers \in BOOLEAN, NEW seen, BaselineLook(registers, seen) PROVE IInv'
  <2>1. faults' \in Nat
    BY <1>1 DEF BaselineLook, Register, Typed, StreamTypeOK
  <2> QED
    BY <1>1, <2>1 DEF BaselineLook, Register, Typed, StreamTypeOK, ClocksAgree, FixesBehind,
                      TimedIsExact, FramesInOrder, CandidatesPast, FinishBounded
<1>2. ASSUME NEW registers \in BOOLEAN, NEW seen, NEW evidence,
             WatchLook(registers, seen, evidence)
      PROVE  IInv'
  <2> DEFINE judged == JudgeDue(cand, look, looked, lost)
  <2>1. /\ judged \in [Spot -> Cand]
        /\ \A p \in Spot : judged[p].first \in {0, cand[p].first}
    BY Judging DEF Typed
  <2>2. (~finishing) \in BOOLEAN /\ look \in Nat
    BY DEF Typed
  <2>3. cand' = Fold(judged, look, seen, ~finishing)
    BY <1>2 DEF WatchLook
  <2> HIDE DEF judged
  <2>4. /\ cand' \in [Spot -> Cand]
        /\ \A p \in Spot : \/ cand'[p].first = judged[p].first
                           \/ ~finishing /\ cand'[p].first = look
    <3> DEFINE fs == Fold(judged, look, seen, ~finishing)
    <3>1. ASSUME NEW p \in Spot
          PROVE  /\ fs[p] \in Cand
                 /\ fs[p].first = judged[p].first \/ (~finishing /\ fs[p].first = look)
      <4>1. \/ fs[p] \in {judged[p], [judged[p] EXCEPT !.seen = @ \cup {look}]}
            \/ ~finishing /\ fs[p] = [state |-> "open", first |-> look, seen |-> {look}]
        BY Zenon DEF Fold
      <4> QED BY <2>1, <2>2, <4>1 DEF Cand
    <3>2. fs = [p \in Spot |-> fs[p]]
      BY Zenon DEF Fold
    <3> QED BY <2>3, <3>1, <3>2, Zenon
  <2>5. /\ taken >= Baseline /\ finish'.read = finishing
        /\ finish'.from = IF finishing /\ ~finish.read THEN look ELSE finish.from
        /\ finish' \in [read : BOOLEAN, from : Nat \cup {NoFrame}]
    BY <1>2 DEF WatchLook, Typed
  <2>6. /\ UNCHANGED <<camera, epoch, placing, slot, offered, reader, ended, stopped, unseen,
                       look, finishing>>
        /\ loop' = "judge" /\ faults' \in Nat /\ UNCHANGED waiting
        /\ news'.persisted \subseteq Spot
    BY <1>2 DEF WatchLook, Register, Persisted, Typed, StreamTypeOK
  <2>7. Typed' /\ ClocksAgree' /\ FixesBehind' /\ TimedIsExact' /\ FramesInOrder' /\ FinishBounded'
    BY <2>4, <2>5, <2>6 DEF Typed, StreamTypeOK, ClocksAgree, FixesBehind, TimedIsExact,
                            FramesInOrder, FinishBounded
  <2>8. CandidatesPast'
    BY <2>1, <2>2, <2>4, <2>5, <2>6 DEF CandidatesPast, Typed, StreamTypeOK
  <2> QED BY <2>7, <2>8
<1>3. CASE JudgeLook
  <2> DEFINE cs == JudgeDue(cand, look + 1, looked, lost)
  <2>1. /\ cs \in [Spot -> Cand]
        /\ \A p \in Spot : cs[p].first \in {0, cand[p].first}
    BY Judging DEF Typed
  <2>2. \A p \in Spot : cs[p].state = "open" => cs[p].first + Window > look + 1
    <3> SUFFICES ASSUME NEW p \in Spot, cs[p].state = "open"
                 PROVE  cs[p].first + Window > look + 1
      OBVIOUS
    <3>1. cand[p].state = "open" /\ cand[p].first + Window > look + 1 /\ cs[p] = cand[p]
      BY DEF JudgeDue, NoCand, Typed, Cand
    <3> QED BY <3>1
  <2>3. cand' = cs /\ Announce(cs)
    BY <1>3 DEF JudgeLook
  <2>4. UNCHANGED <<clocks, placing, slot, offered, reader, ended, unseen, look, finishing, finish>>
        /\ loop' = "wait"
    BY <1>3 DEF JudgeLook
  <2> HIDE DEF cs
  <2>5. stopped' \in BOOLEAN
    BY <2>3, Zenon DEF Announce
  <2>a. waiting' \subseteq Spot /\ news'.persisted \subseteq Spot
    BY <1>3, <2>3 DEF JudgeLook, NoNews, Announce, Persisted, Typed
  <2>6. finish.read /\ ~stopped' => \E p \in Spot : cs[p].first + Window > look + 1
    <3>1. \/ stopped' \/ ~finish.read \/ Holding(waiting', cs)
          \/ \E p \in Spot : cs[p].state = "open"
      BY <2>3, Zenon DEF Announce
    <3> QED BY <2>2, <2>a, <3>1, Zenon DEF Holding
  <2>7. Typed' /\ ClocksAgree' /\ FixesBehind' /\ TimedIsExact' /\ FramesInOrder'
    BY <2>1, <2>3, <2>4, <2>5, <2>a DEF Typed, StreamTypeOK, ClocksAgree, FixesBehind, TimedIsExact,
                                  FramesInOrder
  <2>8. CandidatesPast'
    BY <2>1, <2>3, <2>4 DEF CandidatesPast, Typed, StreamTypeOK
  <2>9. FinishBounded'
    BY <2>1, <2>3, <2>4, <2>6, <2>8, WatchAssumption
       DEF CandidatesPast, FinishBounded, Typed, StreamTypeOK, Cand
  <2> QED BY <2>7, <2>8, <2>9
<1>4. CASE AskFrame
  <2>1. dropping' \in BOOLEAN
    BY <1>4 DEF AskFrame, Ask
  <2>2. taken < Baseline
    BY <1>4 DEF AskFrame, CandidatesPast
  <2> QED
    BY <1>4, <2>1, <2>2 DEF AskFrame, Ask, Typed, StreamTypeOK, ClocksAgree, FixesBehind,
                      TimedIsExact, FramesInOrder, CandidatesPast, FinishBounded
<1>5. CASE TakeFrame
  BY <1>5 DEF TakeFrame, Take, Typed, StreamTypeOK, ClocksAgree, FixesBehind, TimedIsExact,
              FramesInOrder, CandidatesPast, FinishBounded, Cand
<1>6. CASE EndLooks
  BY <1>6 DEF EndLooks, Typed, StreamTypeOK, ClocksAgree, FixesBehind, TimedIsExact,
              FramesInOrder, CandidatesPast, FinishBounded
<1>7. CASE Close
  <2>1. /\ cand' \in [Spot -> Cand]
        /\ \A p \in Spot : cand'[p].first \in {0, cand[p].first}
    BY <1>7, Judging DEF Close, PersistenceEnd, Typed
  <2> QED
    BY <1>7, <2>1 DEF Close, Typed, StreamTypeOK, ClocksAgree, FixesBehind, TimedIsExact,
                      FramesInOrder, CandidatesPast, FinishBounded
<1> QED BY <1>1, <1>2, <1>3, <1>4, <1>5, <1>6, <1>7, Zenon DEF LoopStep
-----------------------------------------------------------------------------
(* The two threads and the service together keep IInv. *)
THEOREM Inductive == Spec => []IInv
<1>1. IInv /\ [Next]_vars => IInv'
  BY GrabPreserves, ReaderPreserves, LoopPreserves, Zenon DEF Next, ReaderStep, Reads, Over
<1> QED BY InitEstablishes, <1>1, PTL DEF Spec

(* Whatever the camera's timestamps do, a frame is placed past its place   *)
(* by no more than the drops delayed the delivery, and by exactly that     *)
(* while every frame was timed, for every delay of delivery.               *)
THEOREM PlacesAreTrue == Spec => []PlacedByTime
<1>1. IInv => PlacedByTime
  BY DEF IInv, ClocksAgree, TimedIsExact, PlacedByTime
<1> QED BY Inductive, <1>1, PTL

(* A finished Run stops within one window of the Look that read the flag,  *)
(* for every window, stride and number of places.                          *)
THEOREM FinishesInTime == Spec => []FinishBounded
<1>1. IInv => FinishBounded
  BY DEF IInv
<1> QED BY Inductive, <1>1, PTL
-----------------------------------------------------------------------------
(* The lists of due frames that were not looked at are apart from one      *)
(* another and from what is on its way.                                    *)
CountedApart ==
    /\ looked \subseteq Nat /\ lost \subseteq Nat
    /\ \A i \in unseen \cup late : i <= index
    /\ \A i \in looked \cup lost : i <= look
    /\ \A i \in unseen : i \notin looked \cup lost \cup late \cup {look, held, hand}
    /\ \A i \in late : /\ i \notin looked \cup lost \cup {look}
                       /\ held # NoFrame => i < held
                       /\ hand # NoFrame => i < hand

(* What the loop has taken, and what is on its way to it, was offered.     *)
OfferedFirst ==
    /\ taken < offered
    /\ held # NoFrame \/ hand # NoFrame => taken + 1 < offered
    /\ held # NoFrame /\ hand # NoFrame => taken + 2 < offered
    /\ reader = "hand" => hand = index

(* Past the baseline no due frame is missing; and with its last frame in   *)
(* the slot none after that one is.                                        *)
DueKept ==
    ~stopped =>
        /\ taken >= Baseline =>
              \A i \in Baseline..index :
                  LookedAt(i) /\ i > look => i \in unseen \cup late \cup {held, hand}
        /\ taken = Baseline - 1 /\ held # NoFrame =>
              \A i \in Baseline..index :
                  LookedAt(i) /\ i > held => i \in unseen \cup late \cup {hand}

DueInv == CountedApart /\ OfferedFirst /\ DueKept

(* The reader's steps keep DueInv: what a gap holds is unseen, what is due *)
(* is in hand, and past the baseline every frame is due by its place.      *)
LEMMA GrabCounts == ASSUME IInv, DueInv, Grab, UNCHANGED watch PROVE DueInv'
<1> USE StreamAssumption
<1>0. StreamTypeOK
  BY DEF IInv, Typed
<1>1. PICK n \in Nat, now \in Nat, decodes \in BOOLEAN : \E s \in Stamps(n) :
        /\ n > camera /\ now >= n /\ now >= latest /\ (down => now > latest)
        /\ GrabOf(n, now, s, decodes)
  BY <1>0, Grabbing
<1>a. PICK s \in Stamps(n) :
        /\ n > camera /\ now >= n /\ now >= latest /\ (down => now > latest)
        /\ GrabOf(n, now, s, decodes)
  BY <1>1
<1> DEFINE at == Place(s.stamp, now)
<1>2. at.placed \in Nat /\ index < at.placed
  BY <1>a, Placing DEF IInv, Typed, PlaceInv
<1>3. /\ reader = "grab" /\ hand = NoFrame
      /\ UNCHANGED <<held, late, taken, dropping, ended, stopped, look, looked, lost>>
  BY <1>a DEF IInv, FramesInOrder, watch, GrabOf
<1>4. IF decodes THEN Received(at, s.stamp, n, now) ELSE Undecodable(at, n, now)
  BY <1>a DEF GrabOf
<1> HIDE DEF at
<1>5. \A i : i \in DueBetween(index, at.placed)
              <=> i \in Nat /\ index < i /\ i < at.placed /\ LookedAt(i)
  BY <1>2 DEF DueBetween, IInv, Typed, StreamTypeOK
<1>6. CASE decodes
  <2>1. Received(at, s.stamp, n, now)
    BY <1>4, <1>6
  <2>2. index' = at.placed /\ unseen' = unseen \cup DueBetween(index, at.placed)
    BY <2>1 DEF Received
  <2>3. IF LookedAt(IF offered < Baseline THEN offered ELSE at.placed)
        THEN hand' = at.placed /\ offered' = offered + 1 /\ reader' = "hand"
        ELSE UNCHANGED <<hand, offered, reader>>
    BY <2>1 DEF Received, Due
  <2> USE <1>2, <1>3, <1>5, <2>2, <2>3 DEF DueInv, IInv, Typed, StreamTypeOK, FramesInOrder
  <2>4. CountedApart'
    BY DEF CountedApart
  <2>5. OfferedFirst'
    BY DEF OfferedFirst
  <2>6. DueKept'
    BY DEF DueKept, OfferedFirst, CountedApart
  <2> QED BY <2>4, <2>5, <2>6
<1>7. CASE ~decodes
  <2>1. Undecodable(at, n, now)
    BY <1>4, <1>7
  <2>2. /\ UNCHANGED <<hand, offered>> /\ reader' = "reopen"
        /\ \/ UNCHANGED <<unseen, index>>
           \/ index' = at.placed - 1 /\ unseen' = unseen \cup DueBetween(index, at.placed)
    BY <2>1 DEF Undecodable, Reconnect
  <2> USE <1>2, <1>3, <1>5, <2>2 DEF DueInv, IInv, Typed, StreamTypeOK, FramesInOrder
  <2>3. OfferedFirst'
    BY DEF OfferedFirst
  <2>4. CASE UNCHANGED <<unseen, index>>
    BY <2>3, <2>4 DEF CountedApart, DueKept
  <2>5. CASE index' = at.placed - 1 /\ unseen' = unseen \cup DueBetween(index, at.placed)
    <3>1. CountedApart'
      BY <2>5 DEF CountedApart
    <3>2. DueKept'
      BY <2>5 DEF DueKept
    <3> QED BY <2>3, <3>1, <3>2
  <2> QED BY <2>2, <2>4, <2>5
<1> QED BY <1>6, <1>7

(* What HandOver replaces is late; the other steps lose nothing either.    *)
LEMMA OthersCount ==
    ASSUME IInv, DueInv, Next \/ UNCHANGED vars, ~(Grab /\ UNCHANGED watch)
    PROVE  DueInv'
<1> USE StreamAssumption
<1> USE DEF DueInv, CountedApart, OfferedFirst, DueKept, IInv, Typed, StreamTypeOK,
            FramesInOrder, clocks, placing, slot, stream, watch
<1>1. CASE (GrabFails \/ Reopen \/ ReaderEnds) /\ UNCHANGED watch
  <2>1. /\ UNCHANGED <<index, slot, offered, stopped, unseen, look, looked, lost>>
        /\ reader' # "hand"
    BY <1>1 DEF GrabFails, Reconnect, Reopen, ReaderEnds
  <2> QED BY <2>1
<1>2. CASE HandOver /\ UNCHANGED watch
  <2>1. /\ held' = hand /\ hand' = NoFrame /\ hand \in Nat /\ hand = index /\ reader' = "grab"
        /\ UNCHANGED <<index, taken, offered, stopped, unseen, look, looked, lost>>
        /\ \/ UNCHANGED late /\ (~stopped => held = NoFrame)
           \/ late' = late \cup {held} /\ held # NoFrame
    BY <1>2 DEF HandOver
  <2>2. CountedApart'
    <3>1. \A i \in unseen' \cup late' : i <= index'
      BY <2>1
    <3>2. \A i \in unseen' : i \notin looked' \cup lost' \cup late' \cup {look', held', hand'}
      BY <2>1
    <3>3. ASSUME NEW i \in late' PROVE i \notin looked' \cup lost' \cup {look'} /\ i < held'
      <4>1. CASE i \in late
        BY <2>1, <4>1
      <4>2. CASE i = held /\ held # NoFrame
        BY <2>1, <4>2
      <4> QED BY <2>1, <4>1, <4>2
    <3> QED BY <2>1, <3>1, <3>2, <3>3
  <2>3. OfferedFirst'
    BY <2>1
  <2>4. DueKept'
    BY <2>1
  <2> QED BY <2>2, <2>3, <2>4
<1>3. CASE Finish \/ StopRun \/ Over \/ UNCHANGED vars
  <2>1. /\ UNCHANGED <<index, slot, offered, reader, unseen, look, looked, lost>>
        /\ ~stopped' => ~stopped
    BY <1>3 DEF Finish, StopRun, Stop, Over, vars
  <2> QED BY <2>1
<1>4. ASSUME NEW registers \in BOOLEAN, NEW seen, BaselineLook(registers, seen) PROVE DueInv'
  <2>1. UNCHANGED <<index, slot, offered, reader, stopped, unseen, look, looked, lost>>
    BY <1>4 DEF BaselineLook, Register
  <2> QED BY <2>1
<1>5. ASSUME NEW registers \in BOOLEAN, NEW seen, NEW evidence,
             WatchLook(registers, seen, evidence)
      PROVE  DueInv'
  <2>1. /\ UNCHANGED <<index, slot, offered, reader, stopped, unseen, look>>
        /\ looked' \in {looked, looked \cup {look}} /\ lost' \in {lost, lost \cup {look}}
    BY <1>5 DEF WatchLook, Register
  <2>2. \A i \in looked' \cup lost' : i = look \/ i \in looked \cup lost
    BY <2>1
  <2>3. CountedApart'
    <3>1. looked' \subseteq Nat /\ lost' \subseteq Nat
      BY <2>1
    <3>2. \A i \in looked' \cup lost' : i <= look'
      BY <2>1, <2>2
    <3>3. \A i \in unseen' : i \notin looked' \cup lost' \cup late' \cup {look', held', hand'}
      BY <2>1, <2>2
    <3>4. \A i \in late' : i \notin looked' \cup lost' \cup {look'}
      BY <2>1, <2>2
    <3> QED BY <2>1, <3>1, <3>2, <3>3, <3>4
  <2> QED BY <2>1, <2>3
<1>6. CASE JudgeLook
  <2>1. ~stopped' => ~stopped
    BY <1>6, Zenon DEF JudgeLook, Announce
  <2>2. UNCHANGED <<index, slot, offered, reader, unseen, look, looked, lost>>
    BY <1>6 DEF JudgeLook
  <2> QED BY <2>1, <2>2
<1>7. CASE AskFrame
  <2>1. UNCHANGED <<index, hand, held, late, taken, offered, reader, stopped, unseen, look,
                    looked, lost>>
    BY <1>7 DEF AskFrame, Ask
  <2> QED BY <2>1
<1>8. CASE TakeFrame
  <2>1. /\ held # NoFrame /\ held' = NoFrame /\ look' = held /\ taken' = taken + 1
        /\ UNCHANGED <<index, hand, late, offered, reader, stopped, unseen, looked, lost>>
    BY <1>8 DEF TakeFrame, Take
  <2>2. CountedApart'
    <3>1. held \in Nat /\ look < held
      BY <2>1
    <3>2. /\ looked' \subseteq Nat /\ lost' \subseteq Nat
          /\ \A i \in unseen' \cup late' : i <= index'
      BY <2>1
    <3>3. \A i \in looked' \cup lost' : i <= look'
      <4>1. \A i \in looked \cup lost : i \in Nat /\ i <= look
        OBVIOUS
      <4> QED BY <2>1, <3>1, <4>1
    <3>4. \A i \in unseen' : i \notin looked' \cup lost' \cup late' \cup {look', held', hand'}
      <4>1. \A i \in unseen : i \notin looked \cup lost \cup late \cup {held, hand} /\ i # NoFrame
        OBVIOUS
      <4> QED BY <2>1, <4>1
    <3>5. ASSUME NEW i \in late'
          PROVE  i \notin looked' \cup lost' \cup {look'} /\ (hand' # NoFrame => i < hand')
      <4>1. i \in late /\ i \in Nat /\ i < held /\ i \notin looked \cup lost /\ (hand # NoFrame => i < hand)
        BY <2>1
      <4> QED BY <2>1, <3>1, <4>1
    <3> QED BY <2>1, <3>2, <3>3, <3>4, <3>5
  <2>3. OfferedFirst'
    BY <2>1
  <2>4. DueKept'
    BY <2>1
  <2> QED BY <2>2, <2>3, <2>4
<1>9. CASE EndLooks \/ Close
  <2>1. /\ UNCHANGED <<index, slot, offered, reader, unseen, look, looked, lost>>
        /\ ~stopped' => ~stopped
    BY <1>9 DEF EndLooks, Close
  <2> QED BY <2>1
<1> QED
  BY <1>1, <1>2, <1>3, <1>4, <1>5, <1>6, <1>7, <1>8, <1>9, Zenon
     DEF Next, LoopStep, ReaderStep, Reads

(* The lists stay apart and complete. *)
LEMMA DueInductive == Spec => []DueInv
<1>1. Init => DueInv
  BY StreamAssumption DEF Init, StreamInit, DueInv, CountedApart, OfferedFirst, DueKept
<1>2. IInv /\ DueInv /\ [Next]_vars => DueInv'
  <2> SUFFICES ASSUME IInv, DueInv, [Next]_vars PROVE DueInv'
    OBVIOUS
  <2>1. CASE Grab /\ UNCHANGED watch
    BY <2>1, GrabCounts
  <2>2. CASE ~(Grab /\ UNCHANGED watch)
    BY <2>2, OthersCount
  <2> QED BY <2>1, <2>2
<1> QED BY Inductive, <1>1, <1>2, PTL DEF Spec

(* Every due frame the reader passed is accounted for once, whatever is    *)
(* dropped, lost upstream, untimed, undecodable or late.                   *)
THEOREM DueFramesAreCounted == Spec => []DueCountedOnce
<1>1. IInv /\ DueInv => DueCountedOnce
  <2> SUFFICES ASSUME IInv, DueInv PROVE DueCountedOnce
    OBVIOUS
  <2> USE DEF IInv, Typed, StreamTypeOK, FramesInOrder, DueInv, CountedApart
  <2> DEFINE passing == ({held, hand} \cup (IF loop = "look" THEN {look} ELSE {})) \ {NoFrame}
  <2>1. unseen \cap (looked \cup lost \cup late \cup passing) = {}
    OBVIOUS
  <2>2. late \cap (looked \cup lost \cup passing) = {}
    <3>1. ASSUME NEW i \in late PROVE i \notin looked \cup lost \cup passing
      OBVIOUS
    <3> QED BY <3>1, Zenon
  <2>3. ASSUME ~stopped, NEW i \in Baseline..index, LookedAt(i), taken >= Baseline, i > look
        PROVE  i \in unseen \cup late \cup passing
    BY <2>3, StreamAssumption DEF DueKept
  <2> QED BY <2>1, <2>2, <2>3, Zenon DEF DueCountedOnce
<1> QED BY Inductive, DueInductive, <1>1, PTL
-----------------------------------------------------------------------------
(* Of finitely many places one was sighted first. *)
LEMMA FirstSighted ==
    ASSUME NEW places, IsFiniteSet(places), places # {}, NEW first \in [places -> Nat]
    PROVE  \E p \in places : \A q \in places : first[p] <= first[q]
<1> DEFINE Before(p) == {q \in places : first[q] < first[p]}
           T == {Before(p) : p \in places}
<1>1. T \subseteq FiniteSubsetsOf(places) /\ T # {}
  <2>1. ASSUME NEW p \in places PROVE Before(p) \in FiniteSubsetsOf(places)
    <3>1. Before(p) \in SUBSET places OBVIOUS
    <3> HIDE DEF Before
    <3> QED BY <3>1, FS_Subset DEF FiniteSubsetsOf
  <2> HIDE DEF Before
  <2> QED BY <2>1, Zenon
<1>2. IsWellFoundedOn(StrictSubsetOrdering(places), FiniteSubsetsOf(places))
  BY FS_StrictSubsetOrderingWellFounded
<1>3. PICK least \in T : \A t \in T : <<t, least>> \notin StrictSubsetOrdering(places)
  BY <1>1, <1>2, WFMin
<1>4. PICK p \in places : least = Before(p)
  OBVIOUS
<1>5. ASSUME NEW q \in places, first[q] < first[p] PROVE FALSE
  <2>1. Before(q) \subseteq Before(p) /\ q \in Before(p) /\ q \notin Before(q)
    BY <1>5
  <2>2. Before(q) \in T /\ Before(q) \in SUBSET places /\ Before(p) \in SUBSET places
    OBVIOUS
  <2>3. <<Before(q), Before(p)>> \in StrictSubsetOrdering(places)
    BY <2>1, <2>2 DEF StrictSubsetOrdering
  <2> QED BY <1>3, <1>4, <2>2, <2>3
<1> QED BY <1>5

(* Each place once, in the order they were sighted. *)
Ordered(s, places, first) ==
    /\ s \in [1..Cardinality(places) -> places]
    /\ \A i, j \in DOMAIN s : i < j => s[i] # s[j]
    /\ \A i, j \in DOMAIN s : i < j => first[s[i]] <= first[s[j]]

(* Finitely many places can be put in that order. *)
LEMMA CanBeOrdered ==
    ASSUME NEW places, IsFiniteSet(places), NEW first \in [places -> Nat]
    PROVE  \E s : Ordered(s, places, first)
<1> DEFINE Unordered == {P \in SUBSET places : ~ \E s : Ordered(s, P, first)}
<1> SUFFICES ASSUME Unordered # {} PROVE FALSE
  OBVIOUS
<1>1. Unordered \subseteq FiniteSubsetsOf(places)
  BY FS_Subset DEF FiniteSubsetsOf
<1>2. IsWellFoundedOn(StrictSubsetOrdering(places), FiniteSubsetsOf(places))
  BY FS_StrictSubsetOrderingWellFounded
<1>3. PICK P \in Unordered : \A t \in Unordered : <<t, P>> \notin StrictSubsetOrdering(places)
  BY <1>1, <1>2, WFMin
<1>4. P \in SUBSET places /\ IsFiniteSet(P) /\ Cardinality(P) \in Nat
  BY <1>3, FS_Subset, FS_CardinalityType
<1>5. P # {}
  <2>1. ASSUME P = {} PROVE FALSE
    <3>1. Cardinality(P) = 0 BY <2>1, FS_EmptySet
    <3>2. Ordered(<<>>, P, first) BY <2>1, <3>1 DEF Ordered
    <3> QED BY <1>3, <3>2
  <2> QED BY <2>1
<1>6. PICK p \in P : \A q \in P : first[p] <= first[q]
  <2> DEFINE of == [q \in P |-> first[q]]
  <2>1. of \in [P -> Nat] BY <1>4
  <2>2. \E p \in P : \A q \in P : of[p] <= of[q]
    <3> HIDE DEF of
    <3> QED BY <1>4, <1>5, <2>1, FirstSighted
  <2> QED BY <2>2
<1> DEFINE R == P \ {p}
<1>7. IsFiniteSet(R) /\ Cardinality(R) = Cardinality(P) - 1 /\ R \in SUBSET places
  BY <1>4, <1>6, FS_RemoveElement
<1>8. R \notin Unordered
  <2>1. <<R, P>> \in StrictSubsetOrdering(places) BY <1>4, <1>6 DEF StrictSubsetOrdering
  <2> QED BY <1>3, <2>1
<1>9. PICK s : Ordered(s, R, first)
  BY <1>7, <1>8
<1> DEFINE n == Cardinality(R)
           t == [i \in 1..n + 1 |-> IF i = 1 THEN p ELSE s[i - 1]]
<1>10. n \in Nat /\ s \in [1..n -> R] /\ Cardinality(P) = n + 1
  <2>1. n \in Nat BY <1>7, FS_CardinalityType
  <2>2. s \in [1..n -> R] BY <1>9 DEF Ordered
  <2>3. n = Cardinality(P) - 1 BY <1>7
  <2> HIDE DEF n, R
  <2> QED BY <1>4, <2>1, <2>2, <2>3
<1>11. /\ \A i, j \in 1..n : i < j => s[i] # s[j]
       /\ \A i, j \in 1..n : i < j => first[s[i]] <= first[s[j]]
  BY <1>9, <1>10 DEF Ordered
<1>12. \A q \in P : first[q] \in Nat
  BY <1>4
<1> HIDE DEF n
<1>13. Ordered(t, P, first)
  <2>1. t \in [1..n + 1 -> P] /\ t[1] = p /\ \A i \in 2..n + 1 : t[i] = s[i - 1] /\ i - 1 \in 1..n
    BY <1>6, <1>10
  <2> HIDE DEF t
  <2>2. ASSUME NEW i \in 1..n + 1, NEW j \in 1..n + 1, i < j
        PROVE  t[i] # t[j] /\ first[t[i]] <= first[t[j]]
    <3>1. j \in 2..n + 1 /\ t[j] = s[j - 1] /\ s[j - 1] \in R
      BY <1>10, <2>1, <2>2
    <3>2. CASE i = 1
      BY <1>6, <2>1, <3>1, <3>2
    <3>3. CASE i \in 2..n + 1
      <4>1. i - 1 \in 1..n /\ j - 1 \in 1..n /\ i - 1 < j - 1
        BY <1>10, <2>1, <2>2, <3>1, <3>3
      <4> QED BY <1>11, <2>1, <3>1, <3>3, <4>1
    <3> QED BY <1>10, <3>2, <3>3
  <2> QED BY <1>10, <2>1, <2>2 DEF Ordered
<1> QED BY <1>3, <1>13

(* What _Announcer announces of a Look: each ready mark once. *)
LEMMA ReadyOnce ==
    ASSUME IInv, NEW ready \in SUBSET Spot
    PROVE  /\ InOrder(ready) \in Seq(ready)
           /\ \A i, j \in DOMAIN InOrder(ready) : i # j => InOrder(ready)[i] # InOrder(ready)[j]
<1> DEFINE first == [p \in ready |-> cand[p].first]
<1>1. IsFiniteSet(ready) /\ Cardinality(ready) \in Nat
  BY WatchAssumption, FS_Subset, FS_CardinalityType
<1>2. first \in [ready -> Nat]
  BY DEF IInv, Typed, Cand
<1>3. \E s : Ordered(s, ready, first)
  <2> HIDE DEF first
  <2> QED BY <1>1, <1>2, CanBeOrdered
<1>4. \E s \in [1..Cardinality(ready) -> ready] :
        /\ \A i, j \in DOMAIN s : i < j => s[i] # s[j]
        /\ \A i, j \in DOMAIN s : i < j => cand[s[i]].first <= cand[s[j]].first
  BY <1>3 DEF Ordered
<1>5. /\ InOrder(ready) \in [1..Cardinality(ready) -> ready]
      /\ \A i, j \in DOMAIN InOrder(ready) : i < j => InOrder(ready)[i] # InOrder(ready)[j]
  BY <1>4 DEF InOrder
<1> HIDE DEF first
<1> QED BY <1>1, <1>5

(* What was announced has persisted, once and for all, and neither waits   *)
(* nor is news; what waits or is news has persisted too.                   *)
AnnounceInv ==
    /\ announced \in Seq(Spot) /\ changed \subseteq Spot /\ news.corroborating \subseteq changed
    /\ \A i \in DOMAIN announced :
          /\ announced[i] \in changed \ (waiting \cup news.persisted)
          /\ cand[announced[i]].state = "persisted"
    /\ \A i, j \in DOMAIN announced : i # j => announced[i] # announced[j]
    /\ \A p \in waiting \cup news.persisted : cand[p].state = "persisted"

(* Judging takes back no verdict, and neither does folding. *)
LEMMA VerdictsStay ==
    ASSUME NEW cs \in [Spot -> Cand], NEW p \in Spot, cs[p].state = "persisted"
    PROVE  /\ \A processed, a, b : JudgeDue(cs, processed, a, b)[p] = cs[p]
           /\ \A i, seen, opening : Fold(cs, i, seen, opening)[p].state = "persisted"
<1>1. ASSUME NEW processed, NEW a, NEW b PROVE JudgeDue(cs, processed, a, b)[p] = cs[p]
  BY DEF JudgeDue
<1>2. ASSUME NEW i, NEW seen, NEW opening PROVE Fold(cs, i, seen, opening)[p].state = "persisted"
  <2>1. Fold(cs, i, seen, opening)[p] \in {cs[p], [cs[p] EXCEPT !.seen = @ \cup {i}]}
    BY DEF Fold
  <2> QED BY <2>1 DEF Cand
<1> QED BY <1>1, <1>2

(* A Look's news persisted just now, so was not announced before. *)
LEMMA LookAnnounces ==
    ASSUME IInv, AnnounceInv, NEW registers \in BOOLEAN, NEW seen \in SUBSET Spot,
           NEW evidence \in SUBSET seen, WatchLook(registers, seen, evidence)
    PROVE  AnnounceInv'
<1> DEFINE judged == JudgeDue(cand, look, looked, lost)
<1>1. /\ cand' = Fold(judged, look, seen, ~finishing)
      /\ news' = [persisted |-> Persisted(cand, judged), corroborating |-> evidence]
      /\ changed' = changed \cup evidence /\ UNCHANGED <<waiting, announced>>
  BY DEF WatchLook
<1>2. cand \in [Spot -> Cand] /\ judged \in [Spot -> Cand] /\ waiting \subseteq Spot
  BY Judging DEF IInv, Typed
<1>3. \A p \in Spot : cand[p].state = "persisted" => judged[p].state = "persisted"
  BY <1>2, VerdictsStay
<1>4. \A p \in Spot : judged[p].state = "persisted" => cand'[p].state = "persisted"
  BY <1>1, <1>2, VerdictsStay
<1>5. news'.corroborating = evidence /\ news'.persisted = Persisted(cand, judged)
  BY <1>1
<1>6. \A p \in Persisted(cand, judged) :
        p \in Spot /\ cand[p].state # "persisted" /\ judged[p].state = "persisted"
  BY DEF Persisted
<1> HIDE DEF judged
<1>7. \A i \in DOMAIN announced : announced[i] \in Spot
  BY DEF AnnounceInv
<1> QED BY <1>1, <1>2, <1>3, <1>4, <1>5, <1>6, <1>7 DEF AnnounceInv

(* What is ready was waiting or is new, so each of it is announced for the *)
(* first time, and waits no longer.                                        *)
LEMMA JudgeAnnounces == ASSUME IInv, AnnounceInv, JudgeLook PROVE AnnounceInv'
<1> DEFINE cs == JudgeDue(cand, look + 1, looked, lost)
           new == news.persisted \cup Persisted(cand, cs)
           ready == (waiting \cap news.corroborating) \cup (new \cap changed)
           told == InOrder(ready)
<1>1. /\ cand' = cs /\ UNCHANGED changed /\ news' = NoNews
      /\ announced' = announced \o told /\ waiting' = (waiting \cup new) \ ready
  BY DEF JudgeLook, Announce
<1>2. cand \in [Spot -> Cand] /\ waiting \subseteq Spot /\ news.persisted \subseteq Spot
  BY DEF IInv, Typed
<1>3. \A p \in Spot : cand[p].state = "persisted" => cs[p].state = "persisted"
  BY <1>2, VerdictsStay
<1>4. \A p \in new : /\ p \in Spot /\ cs[p].state = "persisted"
                     /\ p \in news.persisted \/ cand[p].state # "persisted"
  BY <1>2, <1>3 DEF Persisted, AnnounceInv
<1> HIDE DEF cs, new
<1>5. ready \subseteq Spot /\ ready \subseteq changed /\ ready \subseteq waiting \cup new
  BY <1>2, <1>4 DEF AnnounceInv
<1> HIDE DEF ready
<1>6. told \in Seq(ready) /\ \A i, j \in DOMAIN told : i # j => told[i] # told[j]
  BY <1>5, ReadyOnce
<1> HIDE DEF told
<1>7. \A k \in DOMAIN told : told[k] \in ready
  BY <1>6
<1>8. \A i \in DOMAIN announced : /\ announced[i] \notin ready \cup waiting \cup new
                                  /\ announced[i] \in changed /\ announced[i] \in Spot
                                  /\ cs[announced[i]].state = "persisted"
  BY <1>3, <1>4, <1>5 DEF AnnounceInv
<1>9. announced \in Seq(Spot) /\ told \in Seq(Spot)
  BY <1>5, <1>6 DEF AnnounceInv
<1>10. /\ announced \o told \in Seq(Spot)
       /\ DOMAIN (announced \o told) = 1..Len(announced) + Len(told)
       /\ \A i \in DOMAIN (announced \o told) :
            \/ i \in DOMAIN announced /\ (announced \o told)[i] = announced[i]
            \/ /\ i - Len(announced) \in DOMAIN told /\ i \notin DOMAIN announced
               /\ (announced \o told)[i] = told[i - Len(announced)]
  BY <1>9
<1>11. \A i, j \in DOMAIN (announced \o told) :
         i # j => (announced \o told)[i] # (announced \o told)[j]
  <2> TAKE i, j \in DOMAIN (announced \o told)
  <2> HAVE i # j
  <2>1. i \in Int /\ j \in Int /\ Len(announced) \in Int BY <1>9, <1>10
  <2>2. CASE i \in DOMAIN announced /\ j \in DOMAIN announced
    BY <1>10, <2>2 DEF AnnounceInv
  <2>3. CASE i \notin DOMAIN announced /\ j \notin DOMAIN announced
    <3>1. i - Len(announced) # j - Len(announced) BY <2>1
    <3> QED BY <1>6, <1>10, <2>3, <3>1
  <2>4. CASE (i \in DOMAIN announced) # (j \in DOMAIN announced)
    BY <1>7, <1>8, <1>10, <2>4
  <2> QED BY <2>2, <2>3, <2>4
<1>12. \A i \in DOMAIN announced' : /\ announced'[i] \in changed' \ (waiting' \cup news'.persisted)
                                    /\ cand'[announced'[i]].state = "persisted"
  <2> TAKE i \in DOMAIN announced'
  <2>1. news'.persisted = {} BY <1>1 DEF NoNews
  <2>2. CASE i \in DOMAIN announced
    BY <1>1, <1>8, <1>10, <2>1, <2>2
  <2>3. CASE i \notin DOMAIN announced
    <3>1. announced'[i] \in ready BY <1>1, <1>7, <1>10, <2>3
    <3>2. cs[announced'[i]].state = "persisted"
      BY <1>2, <1>3, <1>4, <1>5, <3>1 DEF AnnounceInv
    <3> QED BY <1>1, <1>5, <2>1, <3>1, <3>2
  <2> QED BY <2>2, <2>3
<1>13. \A p \in waiting' \cup news'.persisted : cand'[p].state = "persisted"
  BY <1>1, <1>2, <1>3, <1>4 DEF AnnounceInv, NoNews
<1>14. changed' \subseteq Spot /\ news'.corroborating \subseteq changed'
  BY <1>1 DEF AnnounceInv, NoNews
<1> QED BY <1>1, <1>10, <1>11, <1>12, <1>13, <1>14 DEF AnnounceInv

(* No mark is announced twice, nor without Change Evidence, however often  *)
(* it is seen again, lost or closed meanwhile.                             *)
THEOREM AnnouncesOnce == Spec => []AnnouncedOnce
<1>1. Init => AnnounceInv
  BY DEF Init, AnnounceInv, NoNews
<1>2. IInv /\ AnnounceInv /\ [Next]_vars => AnnounceInv'
  <2> SUFFICES ASSUME IInv, AnnounceInv, [Next]_vars PROVE AnnounceInv'
    OBVIOUS
  <2>1. ASSUME NEW registers \in BOOLEAN, NEW seen \in Detections(registers),
               NEW evidence \in ChangeEvidence(StripPreExisting(seen)),
               WatchLook(registers, StripPreExisting(seen), evidence)
        PROVE  AnnounceInv'
    <3>1. StripPreExisting(seen) \in SUBSET Spot /\ evidence \in SUBSET StripPreExisting(seen)
      BY <2>1 DEF Detections, ChangeEvidence, StripPreExisting
    <3> QED BY <2>1, <3>1, LookAnnounces
  <2>2. CASE JudgeLook
    BY <2>2, JudgeAnnounces
  <2>3. CASE Close
    <3>1. cand' = JudgeDue(cand, look + 1, looked, lost)
          /\ UNCHANGED <<changed, news, waiting, announced>>
      BY <2>3 DEF Close, PersistenceEnd
    <3>2. \A p \in Spot : cand[p].state = "persisted" => cand'[p].state = "persisted"
      BY <3>1, VerdictsStay DEF IInv, Typed
    <3>3. waiting \cup news.persisted \subseteq Spot /\ \A i \in DOMAIN announced : announced[i] \in Spot
      BY DEF IInv, Typed, AnnounceInv
    <3> QED BY <3>1, <3>2, <3>3 DEF AnnounceInv
  <2>4. CASE UNCHANGED <<cand, changed, news, waiting, announced>>
    BY <2>4 DEF AnnounceInv
  <2>5. \/ \E registers \in BOOLEAN : \E seen : BaselineLook(registers, seen)
        \/ AskFrame \/ TakeFrame \/ EndLooks \/ ReaderStep \/ Finish \/ StopRun \/ Over
        \/ UNCHANGED vars
        => UNCHANGED <<cand, changed, news, waiting, announced>>
    BY DEF BaselineLook, AskFrame, TakeFrame, EndLooks, ReaderStep, Finish, StopRun, Over, vars,
           watch
  <2> QED BY <2>1, <2>2, <2>3, <2>4, <2>5, Zenon DEF Next, LoopStep
<1>3. AnnounceInv => AnnouncedOnce
  BY DEF AnnounceInv, AnnouncedOnce
<1> QED BY Inductive, <1>1, <1>2, <1>3, PTL DEF Spec
-----------------------------------------------------------------------------
(* _judge's verdict on a window's frames: looked at, lost, unseen, still   *)
(* to come, and those the mark was seen on.                                *)
Verdict(S, L, U, R, Q) ==
    /\ Cardinality(S) > 0
    /\ 2 * Cardinality(S) >= Cardinality(S) + Cardinality(L) + Cardinality(U) + Cardinality(R)
    /\ 2 * Cardinality(Q) >= Cardinality(S) + Cardinality(R)

(* Frames of those to come that have been met are fewer by as many. *)
LEMMA MetAreFewer ==
    ASSUME NEW R, IsFiniteSet(R), NEW R2 \in SUBSET R, NEW X \in SUBSET (R \ R2)
    PROVE  /\ IsFiniteSet(X) /\ IsFiniteSet(R2)
           /\ Cardinality(X) + Cardinality(R2) <= Cardinality(R)
<1>1. X \in SUBSET R /\ X \cup R2 \in SUBSET R /\ X \cap R2 = {} OBVIOUS
<1>2. IsFiniteSet(X) /\ IsFiniteSet(R2) BY <1>1, FS_Subset
<1>3. Cardinality(X \cup R2) = Cardinality(X) + Cardinality(R2) - Cardinality(X \cap R2)
  BY <1>2, FS_Union
<1>4. Cardinality(X \cap R2) = 0 BY <1>1, FS_EmptySet
<1>5. Cardinality(X) \in Nat /\ Cardinality(R2) \in Nat BY <1>2, FS_CardinalityType
<1>6. Cardinality(X \cup R2) <= Cardinality(R) BY <1>1, FS_Subset
<1> QED BY <1>2, <1>3, <1>4, <1>5, <1>6

LEMMA JoinedAreMore ==
    ASSUME NEW T, IsFiniteSet(T), NEW X, IsFiniteSet(X)
    PROVE  /\ Cardinality(T \cup X) <= Cardinality(T) + Cardinality(X)
           /\ Cardinality(T) <= Cardinality(T \cup X) /\ Cardinality(T \cup X) \in Nat
<1>1. /\ IsFiniteSet(T \cup X) /\ IsFiniteSet(T \cap X)
      /\ Cardinality(T \cup X) = Cardinality(T) + Cardinality(X) - Cardinality(T \cap X)
  BY FS_Union, FS_Intersection
<1>2. T \in SUBSET (T \cup X) OBVIOUS
<1>3. Cardinality(T) <= Cardinality(T \cup X) BY <1>1, <1>2, FS_Subset
<1>4. Cardinality(T) \in Nat /\ Cardinality(X) \in Nat /\ Cardinality(T \cap X) \in Nat
      /\ Cardinality(T \cup X) \in Nat
  BY <1>1, FS_CardinalityType
<1> QED BY <1>1, <1>3, <1>4

In(c, frames) == {i \in frames : c.first <= i /\ i < c.first + Window}
ToCome(c, n, missed) == {i \in n..c.first + Window - 1 : LookedAt(i)} \ missed

(* _judge after n frames, with the frames the Run looked at, lost and      *)
(* missed.                                                                 *)
JudgedOn(c, n, lookedAt, lostAt, missed) ==
    Verdict(In(c, lookedAt), In(c, lostAt), In(c, missed), ToCome(c, n, missed), In(c, c.seen))

(* A window holds finitely many frames. *)
LEMMA WindowsFinite ==
    ASSUME NEW c \in Cand, NEW frames \in SUBSET Nat
    PROVE  IsFiniteSet(In(c, frames))
<1>0. c.first \in Nat /\ c.first + Window - 1 \in Int BY WatchAssumption DEF Cand
<1>1. IsFiniteSet(c.first..c.first + Window - 1) BY <1>0, FS_Interval
<1>2. In(c, frames) \in SUBSET (c.first..c.first + Window - 1)
  <2> SUFFICES ASSUME NEW i \in In(c, frames) PROVE i \in c.first..c.first + Window - 1
    OBVIOUS
  <2>1. i \in Nat /\ c.first <= i /\ i < c.first + Window BY DEF In
  <2> QED BY <1>0, <2>1, WatchAssumption
<1> QED BY <1>1, <1>2, FS_Subset

(* The verdict stands when frames of those to come were looked at, lost or *)
(* unseen, others never came, and the mark was seen on more.               *)
LEMMA JudgedStands ==
    ASSUME NEW c \in Cand, NEW d \in Cand, d.first = c.first, c.seen \subseteq d.seen,
           NEW n \in Nat, NEW m \in Nat, n <= m,
           NEW a \in SUBSET Nat, NEW b \in SUBSET Nat, NEW u \in SUBSET Nat,
           NEW a2 \in SUBSET Nat, NEW b2 \in SUBSET Nat, NEW u2 \in SUBSET Nat,
           a \subseteq a2, b \subseteq b2, u \subseteq u2, JudgedOn(c, n, a, b, u),
           \A i \in (a2 \ a) \cup (b2 \ b) \cup (u2 \ u) :
               i >= n /\ LookedAt(i) /\ i \notin u /\ (i < m \/ i \in u2),
           (a2 = a /\ b2 = b) \/ (a2 = a /\ u2 = u) \/ (b2 = b /\ u2 = u)
    PROVE  JudgedOn(d, m, a2, b2, u2)
<1> DEFINE X == (a2 \ a) \cup (b2 \ b) \cup (u2 \ u)
           S == In(c, a)
           L == In(c, b)
           U == In(c, u)
           R == ToCome(c, n, u)
           Q == In(c, c.seen)
           S2 == In(d, a2)
           L2 == In(d, b2)
           U2 == In(d, u2)
           R2 == ToCome(d, m, u2)
           Q2 == In(d, d.seen)
           X2 == In(c, X)
<1>1. c.first \in Nat /\ d.seen \in SUBSET Nat /\ Window \in Nat
  BY WatchAssumption DEF Cand
<1>2. IsFiniteSet(S) /\ IsFiniteSet(L) /\ IsFiniteSet(U) /\ IsFiniteSet(Q2)
  BY <1>1, WindowsFinite
<1>3. IsFiniteSet(R)
  <2>0. c.first + Window - 1 \in Int BY <1>1
  <2>1. IsFiniteSet(n..c.first + Window - 1) BY <2>0, FS_Interval
  <2>2. R \in SUBSET (n..c.first + Window - 1) BY DEF ToCome
  <2> QED BY <2>1, <2>2, FS_Subset
<1>4. Q \subseteq Q2 BY DEF In
<1>5. /\ X \in SUBSET Nat
      /\ \/ a2 = a \cup X /\ b2 = b /\ u2 = u
         \/ a2 = a /\ b2 = b \cup X /\ u2 = u
         \/ a2 = a /\ b2 = b /\ u2 = u \cup X
  OBVIOUS
<1>6. R2 \subseteq R BY <1>1, <1>5 DEF ToCome
<1>7. X2 \subseteq R \ R2
  <2> SUFFICES ASSUME NEW i \in X2 PROVE i \in R \ R2 OBVIOUS
  <2>1. i \in X /\ c.first <= i /\ i < c.first + Window BY DEF In
  <2>2. i \in Nat /\ n <= i /\ LookedAt(i) /\ i \notin u /\ (i < m \/ i \in u2) BY <2>1
  <2> QED BY <1>1, <2>1, <2>2 DEF ToCome
<1>8. \/ S2 = S \cup X2 /\ L2 = L /\ U2 = U
      \/ S2 = S /\ L2 = L \cup X2 /\ U2 = U
      \/ S2 = S /\ L2 = L /\ U2 = U \cup X2
  BY <1>5 DEF In
<1>9. Verdict(S, L, U, R, Q) BY DEF JudgedOn
<1> HIDE DEF S, L, U, R, Q, S2, L2, U2, R2, Q2, X2
<1>10. /\ IsFiniteSet(X2) /\ IsFiniteSet(R2)
       /\ Cardinality(X2) + Cardinality(R2) <= Cardinality(R)
  BY <1>3, <1>6, <1>7, MetAreFewer
<1>11. Cardinality(Q) <= Cardinality(Q2) /\ IsFiniteSet(Q)
  BY <1>2, <1>4, FS_Subset
<1>12. /\ Cardinality(S) \in Nat /\ Cardinality(L) \in Nat /\ Cardinality(U) \in Nat
       /\ Cardinality(R) \in Nat /\ Cardinality(Q) \in Nat /\ Cardinality(Q2) \in Nat
       /\ Cardinality(X2) \in Nat /\ Cardinality(R2) \in Nat
  BY <1>2, <1>3, <1>10, <1>11, FS_CardinalityType
<1>13. ASSUME NEW T, IsFiniteSet(T)
       PROVE  /\ Cardinality(T \cup X2) <= Cardinality(T) + Cardinality(X2)
              /\ Cardinality(T) <= Cardinality(T \cup X2) /\ Cardinality(T \cup X2) \in Nat
  BY <1>10, <1>13, JoinedAreMore
<1>14. Verdict(S2, L2, U2, R2, Q2)
  <2>1. CASE S2 = S \cup X2 /\ L2 = L /\ U2 = U
    BY <1>2, <1>9, <1>10, <1>11, <1>12, <1>13, <2>1 DEF Verdict
  <2>2. CASE S2 = S /\ L2 = L \cup X2 /\ U2 = U
    BY <1>2, <1>9, <1>10, <1>11, <1>12, <1>13, <2>2 DEF Verdict
  <2>3. CASE S2 = S /\ L2 = L /\ U2 = U \cup X2
    BY <1>2, <1>9, <1>10, <1>11, <1>12, <1>13, <2>3 DEF Verdict
  <2> QED BY <1>8, <2>1, <2>2, <2>3
<1> QED BY <1>14 DEF JudgedOn, S2, L2, U2, R2, Q2

(* The loop takes due frames only, past the baseline. *)
TakenDue ==
    /\ taken >= Baseline => LookedAt(look)
    /\ held # NoFrame /\ taken + 1 >= Baseline => LookedAt(held)
    /\ hand # NoFrame /\ offered - 1 >= Baseline => LookedAt(hand)

(* The frames that have been processed. *)
Processed == IF loop = "look" THEN look ELSE look + 1

(* What has persisted still would, were it judged now. *)
VerdictsHold ==
    \A p \in Spot : cand[p].state = "persisted" =>
        JudgedOn(cand[p], Processed, looked, lost, unseen)

VerdictInv == TakenDue /\ VerdictsHold

(* The Stream hands the loop due frames, past the baseline. *)
LEMMA TakesDue ==
    ASSUME IInv, DueInv, TakenDue, [Next]_vars PROVE TakenDue'
<1> USE StreamAssumption DEF IInv, Typed, StreamTypeOK, FramesInOrder, DueInv, OfferedFirst,
        TakenDue
<1>1. CASE ReaderStep /\ Grab
  <2>1. PICK placed \in Nat :
          /\ UNCHANGED <<held, taken, look>>
          /\ \/ Due(placed) /\ hand' = placed /\ offered' = offered + 1
             \/ UNCHANGED <<hand, offered>>
    <3>1. PICK n \in Nat, now \in Nat, decodes \in BOOLEAN : \E s \in Stamps(n) :
            /\ n > camera /\ now >= n /\ now >= latest /\ (down => now > latest)
            /\ GrabOf(n, now, s, decodes)
      BY <1>1, Grabbing
    <3>2. PICK s \in Stamps(n) :
            /\ n > camera /\ now >= n /\ now >= latest /\ (down => now > latest)
            /\ GrabOf(n, now, s, decodes)
      BY <3>1
    <3>4. PlaceInv BY DEF PlaceInv
    <3>5. Place(s.stamp, now).placed \in Nat BY <3>2, <3>4, Placing
    <3> DEFINE placed == Place(s.stamp, now).placed
    <3>6. \/ Due(placed) /\ hand' = placed /\ offered' = offered + 1
          \/ UNCHANGED <<hand, offered>>
      BY <3>2 DEF GrabOf, Received, Undecodable
    <3>7. UNCHANGED <<held, taken, look>> BY <1>1, <3>2 DEF GrabOf, ReaderStep, watch
    <3> HIDE DEF placed
    <3>8. placed \in Nat BY <3>5 DEF placed
    <3> QED BY <3>6, <3>7, <3>8
  <2> QED BY <2>1 DEF Due
<1>2. CASE ReaderStep /\ HandOver
  <2>1. /\ held' = hand /\ hand' = NoFrame /\ hand # NoFrame
        /\ UNCHANGED <<taken, offered, look>>
    BY <1>2 DEF ReaderStep, HandOver, watch
  <2> QED BY <2>1
<1>3. CASE TakeFrame
  <2>1. /\ held # NoFrame /\ held' = NoFrame /\ look' = held /\ taken' = taken + 1
        /\ UNCHANGED <<hand, offered>>
    BY <1>3 DEF TakeFrame, Take
  <2> QED BY <2>1
<1>4. CASE UNCHANGED <<look, held, hand, taken, offered>>
  BY <1>4
<1>5. ASSUME NEW registers \in BOOLEAN, NEW seen, NEW evidence,
             BaselineLook(registers, seen) \/ WatchLook(registers, seen, evidence)
      PROVE  UNCHANGED <<look, held, hand, taken, offered>>
  BY <1>5 DEF BaselineLook, WatchLook, Register, slot
<1>6. \/ JudgeLook \/ AskFrame \/ EndLooks \/ Close \/ Finish \/ StopRun \/ Over
      \/ (ReaderStep /\ (GrabFails \/ Reopen \/ ReaderEnds))
      \/ UNCHANGED vars
      => UNCHANGED <<look, held, hand, taken, offered>>
  BY DEF JudgeLook, AskFrame, Ask, EndLooks, Close, Finish, StopRun, Stop, Over, ReaderStep,
         GrabFails, Reconnect, Reopen, ReaderEnds, slot, placing, clocks, stream, watch, vars
<1> HIDE DEF IInv, Typed, StreamTypeOK, FramesInOrder, DueInv, OfferedFirst, TakenDue
<1> QED BY <1>1, <1>2, <1>3, <1>4, <1>5, <1>6, Zenon DEF Next, LoopStep, ReaderStep, Reads

(* Judging adds verdicts that hold when they are given. *)
LEMMA JudgingHolds ==
    ASSUME cand \in [Spot -> Cand], NEW n, NEW p \in Spot,
           JudgeDue(cand, n, looked, lost)[p].state = "persisted",
           cand[p].state = "persisted" => JudgedOn(cand[p], n, looked, lost, unseen)
    PROVE  JudgedOn(JudgeDue(cand, n, looked, lost)[p], n, looked, lost, unseen)
<1> DEFINE c == cand[p]
           j == JudgeDue(cand, n, looked, lost)[p]
<1>1. \/ j = c /\ c.state = "persisted"
      \/ j = [c EXCEPT !.state = "persisted"] /\ Judged(c, n, looked, lost)
  BY DEF JudgeDue, NoCand
<1>2. c \in Cand OBVIOUS
<1>3. CASE j = c /\ c.state = "persisted"
  BY <1>3
<1>4. CASE j = [c EXCEPT !.state = "persisted"] /\ Judged(c, n, looked, lost)
  <2>1. JudgedOn(c, n, looked, lost, unseen)
    BY <1>4 DEF Judged, JudgedOn, Verdict, InWindow, Remaining, In, ToCome
  <2>2. j.first = c.first /\ j.seen = c.seen
    BY <1>2, <1>4 DEF Cand
  <2> QED BY <2>1, <2>2 DEF JudgedOn, In, ToCome
<1> QED BY <1>1, <1>3, <1>4

(* A frame the reader finds missing was to come for every verdict. *)
LEMMA GrabKeepsVerdicts ==
    ASSUME IInv, DueInv, VerdictsHold, Grab, UNCHANGED watch PROVE VerdictsHold'
<1> USE StreamAssumption
<1>1. PICK X \in SUBSET Nat :
        unseen' = unseen \cup X /\ \A i \in X : index < i /\ LookedAt(i)
  <2>1. PICK n \in Nat, now \in Nat, decodes \in BOOLEAN : \E s \in Stamps(n) :
          /\ n > camera /\ now >= n /\ now >= latest /\ (down => now > latest)
          /\ GrabOf(n, now, s, decodes)
    BY Grabbing DEF IInv, Typed
  <2>2. PICK s \in Stamps(n) :
          /\ n > camera /\ now >= n /\ now >= latest /\ (down => now > latest)
          /\ GrabOf(n, now, s, decodes)
    BY <2>1
  <2> DEFINE placed == Place(s.stamp, now).placed
  <2>4. placed \in Nat BY <2>2, Placing DEF IInv, Typed, PlaceInv
  <2>5. unseen' = unseen \cup DueBetween(index, placed) \/ unseen' = unseen \cup {}
    BY <2>2 DEF GrabOf, Received, Undecodable
  <2> HIDE DEF placed
  <2>6. \A i \in DueBetween(index, placed) : i \in Nat /\ index < i /\ LookedAt(i)
    BY <2>4 DEF DueBetween, IInv, Typed, StreamTypeOK
  <2>7. CASE unseen' = unseen \cup {}
    <3> WITNESS {} \in SUBSET Nat
    <3> QED BY <2>7
  <2>8. CASE unseen' = unseen \cup DueBetween(index, placed)
    <3>1. DueBetween(index, placed) \in SUBSET Nat BY <2>6
    <3> QED BY <2>6, <2>8, <3>1
  <2> QED BY <2>5, <2>7, <2>8
<1>2. UNCHANGED <<cand, loop, look, looked, lost>> BY DEF watch
<1>3. Processed \in Nat /\ Processed' = Processed /\ Processed <= index + 1
  BY <1>2 DEF Processed, IInv, Typed, StreamTypeOK, FramesInOrder
<1>4. looked \in SUBSET Nat /\ lost \in SUBSET Nat /\ unseen \in SUBSET Nat
      /\ \A i \in unseen : i <= index
  BY DEF IInv, Typed, StreamTypeOK, DueInv, CountedApart
<1>5. index \in Nat /\ cand \in [Spot -> Cand] BY DEF IInv, Typed, StreamTypeOK
<1>6. \A i \in X : i >= Processed /\ LookedAt(i) /\ i \notin unseen /\ i \in unseen'
  BY <1>1, <1>3, <1>4, <1>5
<1> HIDE DEF Processed
<1> SUFFICES ASSUME NEW p \in Spot, cand[p].state = "persisted"
             PROVE  JudgedOn(cand[p], Processed, looked, lost, unseen')
  BY <1>2, <1>3 DEF VerdictsHold
<1>7. JudgedOn(cand[p], Processed, looked, lost, unseen) /\ cand[p] \in Cand
  BY <1>5 DEF VerdictsHold
<1>8. /\ unseen' \in SUBSET Nat /\ unseen \subseteq unseen'
      /\ \A i \in (looked \ looked) \cup (lost \ lost) \cup (unseen' \ unseen) : i \in X
  BY <1>1, <1>4
<1>9. Processed <= Processed BY <1>3
<1> QED BY <1>3, <1>4, <1>6, <1>7, <1>8, <1>9, JudgedStands

(* A Look was to come, and has now been looked at or lost; what it judges  *)
(* it judges before it is counted.                                         *)
LEMMA LookKeepsVerdicts ==
    ASSUME IInv, DueInv, VerdictInv, NEW registers \in BOOLEAN, NEW seen, NEW evidence,
           WatchLook(registers, seen, evidence)
    PROVE  VerdictsHold'
<1> DEFINE judged == JudgeDue(cand, look, looked, lost)
<1>1. /\ cand' = Fold(judged, look, seen, ~finishing) /\ UNCHANGED <<look, unseen>>
      /\ loop = "look" /\ loop' = "judge" /\ taken >= Baseline
      /\ \/ looked' = looked \cup {look} /\ lost' = lost
         \/ looked' = looked /\ lost' = lost \cup {look}
  BY DEF WatchLook, Register
<1>2. look \in Nat /\ look + 1 \in Nat /\ looked \in SUBSET Nat /\ lost \in SUBSET Nat
      /\ unseen \in SUBSET Nat /\ look \notin unseen /\ cand \in [Spot -> Cand]
  BY DEF IInv, Typed, StreamTypeOK, DueInv, CountedApart
<1>3. LookedAt(look) BY <1>1 DEF VerdictInv, TakenDue
<1>4. judged \in [Spot -> Cand] BY <1>2, Judging
<1>5. \A p \in Spot : judged[p].state = "persisted" =>
        JudgedOn(judged[p], look, looked, lost, unseen)
  BY <1>1, <1>2, JudgingHolds DEF VerdictInv, VerdictsHold, Processed
<1> SUFFICES ASSUME NEW p \in Spot, cand'[p].state = "persisted"
             PROVE  JudgedOn(cand'[p], look + 1, looked', lost', unseen')
  BY <1>1 DEF VerdictsHold, Processed
<1> HIDE DEF judged
<1>6. /\ cand'[p] \in Cand /\ judged[p] \in Cand /\ judged[p].state = "persisted"
      /\ cand'[p].first = judged[p].first /\ judged[p].seen \subseteq cand'[p].seen
  <2>1. \/ cand'[p] \in {judged[p], [judged[p] EXCEPT !.seen = @ \cup {look}]}
        \/ cand'[p] = [state |-> "open", first |-> look, seen |-> {look}]
    BY <1>1 DEF Fold
  <2> QED BY <1>2, <1>4, <2>1 DEF Cand
<1>7. JudgedOn(judged[p], look, looked, lost, unseen) BY <1>5, <1>6
<1>8. /\ looked' \in SUBSET Nat /\ lost' \in SUBSET Nat /\ unseen' = unseen
      /\ looked \subseteq looked' /\ lost \subseteq lost'
      /\ \A i \in (looked' \ looked) \cup (lost' \ lost) \cup (unseen' \ unseen) : i = look
      /\ looked' = looked \/ lost' = lost
  BY <1>1, <1>2
<1> QED BY <1>2, <1>3, <1>6, <1>7, <1>8, JudgedStands

(* The other steps meet no frame; what passes unmet only makes fewer to    *)
(* come.                                                                   *)
LEMMA OthersKeepVerdicts ==
    ASSUME IInv, DueInv, VerdictsHold, Processed' \in Nat, Processed <= Processed',
           UNCHANGED <<looked, lost, unseen>>,
           \/ UNCHANGED cand
           \/ cand' = JudgeDue(cand, look + 1, looked, lost) /\ Processed = look + 1
    PROVE  VerdictsHold'
<1>1. cand \in [Spot -> Cand] /\ Processed \in Nat
      /\ looked \in SUBSET Nat /\ lost \in SUBSET Nat /\ unseen \in SUBSET Nat
  BY DEF IInv, Typed, StreamTypeOK, DueInv, CountedApart, Processed
<1> SUFFICES ASSUME NEW p \in Spot, cand'[p].state = "persisted"
             PROVE  JudgedOn(cand'[p], Processed', looked, lost, unseen)
  BY DEF VerdictsHold
<1>2. JudgedOn(cand'[p], Processed, looked, lost, unseen) /\ cand'[p] \in Cand
  <2>1. CASE UNCHANGED cand BY <1>1, <2>1 DEF VerdictsHold
  <2>2. CASE cand' = JudgeDue(cand, look + 1, looked, lost) /\ Processed = look + 1
    <3>1. cand' \in [Spot -> Cand] BY <1>1, <2>2, Judging
    <3>2. cand[p].state = "persisted" => JudgedOn(cand[p], look + 1, looked, lost, unseen)
      BY <2>2 DEF VerdictsHold
    <3>3. JudgedOn(JudgeDue(cand, look + 1, looked, lost)[p], look + 1, looked, lost, unseen)
      BY <1>1, <2>2, <3>2, JudgingHolds
    <3> QED BY <2>2, <3>1, <3>3
  <2> QED BY <2>1, <2>2
<1> HIDE DEF Processed
<1> QED BY <1>1, <1>2, JudgedStands

(* Persistence.end's assertion holds: no window's end reverses an early    *)
(* verdict, whatever is lost, missed or late after it was given.           *)
THEOREM EarlyVerdictsStand == Spec => []EarlyVerdictStands
<1>1. Init => VerdictInv
  BY StreamAssumption
     DEF Init, StreamInit, VerdictInv, TakenDue, VerdictsHold, NoCand
<1>2. IInv /\ DueInv /\ VerdictInv /\ [Next]_vars => VerdictInv'
  <2> SUFFICES ASSUME IInv, DueInv, VerdictInv, [Next]_vars PROVE VerdictInv'
    OBVIOUS
  <2>1. TakenDue' BY TakesDue DEF VerdictInv
  <2>2. VerdictsHold'
    <3>1. CASE Grab /\ UNCHANGED watch
      BY <3>1, GrabKeepsVerdicts DEF VerdictInv
    <3>2. ASSUME NEW registers \in BOOLEAN, NEW seen, NEW evidence,
                 WatchLook(registers, seen, evidence)
          PROVE  VerdictsHold'
      BY <3>2, LookKeepsVerdicts
    <3> DEFINE Passes == /\ Processed' \in Nat /\ Processed <= Processed'
                         /\ UNCHANGED <<looked, lost, unseen>>
                         /\ \/ UNCHANGED cand
                            \/ /\ cand' = JudgeDue(cand, look + 1, looked, lost)
                               /\ Processed = look + 1
    <3>3. look \in Nat BY DEF IInv, Typed
    <3>4. ASSUME NEW registers \in BOOLEAN, NEW seen, BaselineLook(registers, seen)
          PROVE  Passes
      BY <3>3, <3>4 DEF BaselineLook, Register, Processed
    <3>5. JudgeLook => Passes
      BY <3>3 DEF JudgeLook, Processed
    <3>6. TakeFrame => Passes
      BY <3>3 DEF TakeFrame, Take, Processed, IInv, Typed, StreamTypeOK, FramesInOrder
    <3>7. AskFrame \/ EndLooks => Passes
      BY <3>3 DEF AskFrame, Ask, EndLooks, Processed
    <3>8. Close => Passes
      BY <3>3 DEF Close, PersistenceEnd, Processed, stream
    <3>9. \/ Finish \/ StopRun \/ Over \/ UNCHANGED vars
          \/ ReaderStep /\ (GrabFails \/ Reopen \/ HandOver \/ ReaderEnds)
          => Passes
      BY <3>3 DEF Finish, StopRun, Stop, Over, vars, watch, stream, ReaderStep, GrabFails,
                  Reconnect, Reopen, HandOver, ReaderEnds, Processed
    <3>10. Passes => VerdictsHold'
      BY OthersKeepVerdicts, Zenon DEF VerdictInv
    <3> HIDE DEF Passes
    <3> QED
      BY <3>1, <3>2, <3>4, <3>5, <3>6, <3>7, <3>8, <3>9, <3>10, Zenon
         DEF Next, LoopStep, ReaderStep, Reads
  <2> QED BY <2>1, <2>2 DEF VerdictInv
<1>3. IInv /\ DueInv /\ VerdictInv => EarlyVerdictStands
  <2> SUFFICES ASSUME IInv, DueInv, VerdictInv, NEW p \in Spot, cand[p].state = "persisted"
               PROVE  Judged(cand[p], look + 1, looked, lost)
    BY DEF EarlyVerdictStands
  <2>1. JudgedOn(cand[p], Processed, looked, lost, unseen) BY DEF VerdictInv, VerdictsHold
  <2>2. /\ Processed \in Nat /\ look + 1 \in Nat /\ Processed <= look + 1 /\ cand[p] \in Cand
        /\ looked \in SUBSET Nat /\ lost \in SUBSET Nat /\ unseen \in SUBSET Nat
    BY DEF IInv, Typed, StreamTypeOK, DueInv, CountedApart, Processed
  <2> HIDE DEF Processed
  <2>3. JudgedOn(cand[p], look + 1, looked, lost, unseen) BY <2>1, <2>2, JudgedStands
  <2>4. InWindow(cand[p], looked) \in Nat /\ InWindow(cand[p], lost) \in Nat
        /\ InWindow(cand[p], unseen) \in Nat
    BY <2>2, WindowsFinite, FS_CardinalityType DEF InWindow, In
  <2> QED
    BY <2>3, <2>4 DEF Judged, JudgedOn, Verdict, InWindow, Remaining, In, ToCome
<1> QED BY Inductive, DueInductive, <1>1, <1>2, <1>3, PTL DEF Spec

-----------------------------------------------------------------------------
(* The tools that measure the pipeline: Scoring's parameters and state are *)
(* apart from those of the pipeline.                                       *)

(* A set of numbers that is not empty has a least one. *)
LEMMA LeastNat == ASSUME NEW T, T \subseteq Nat, T # {} PROVE \E x \in T : \A y \in T : x <= y
<1>1. PICK x \in T : \A y \in T : ~(<<y, x>> \in OpToRel(<, Nat))
  BY NatLessThanWellFounded, WFMin
<1>2. \A y \in T : ~(y < x) BY <1>1 DEF OpToRel
<1> QED BY <1>2

(* A bounded one has a greatest. *)
LEMMA MaxNat ==
    ASSUME NEW T, T \subseteq Nat, T # {}, NEW n \in Nat, \A x \in T : x <= n
    PROVE  Max(T) \in T /\ \A y \in T : y <= Max(T)
<1> DEFINE U == {k \in Nat : \E x \in T : k = n - x}
<1>1. U \subseteq Nat /\ U # {}
  <2>1. PICK x \in T : TRUE OBVIOUS
  <2>2. x \in Nat /\ x <= n BY <2>1
  <2>3. n - x \in U BY <2>2
  <2> QED BY <2>3
<1>2. PICK k \in U : \A l \in U : k <= l BY <1>1, LeastNat
<1>3. PICK x \in T : k = n - x BY <1>2
<1>4. \A y \in T : x >= y
  <2> SUFFICES ASSUME NEW y \in T PROVE x >= y OBVIOUS
  <2>1. y \in Nat /\ y <= n /\ x \in Nat BY <1>3
  <2>2. n - y \in U BY <2>1
  <2>3. n - x <= n - y BY <1>2, <1>3, <2>2
  <2> QED BY <2>1, <2>3
<1>5. Max(T) \in T /\ \A y \in T : Max(T) >= y BY <1>4 DEF Max
<1> QED BY <1>5

(* match pairs no mark twice, only marks within reach, and as many as can  *)
(* be paired.                                                              *)
LEMMA MatchIsLargest ==
    ASSUME NEW t, NEW labels, IsFiniteSet(labels),
           NEW f, NEW dets, IsFiniteSet(dets)
    PROVE  /\ Match(t, labels, f, dets) \in Matchings(t, labels, f, dets)
           /\ Cardinality(Match(t, labels, f, dets))
                = Max({Cardinality(ps) : ps \in Matchings(t, labels, f, dets)})
<1> DEFINE all  == Matchings(t, labels, f, dets)
           N    == Cardinality(dets \X labels)
           most == Max({Cardinality(ps) : ps \in all})
           full == {ps \in all : Cardinality(ps) = most}
<1>1. IsFiniteSet(dets \X labels) /\ N \in Nat BY FS_Product, FS_CardinalityType
<1>2. ASSUME NEW ps \in all
      PROVE  IsFiniteSet(ps) /\ Cardinality(ps) \in Nat /\ Cardinality(ps) <= N
  <2>1. ps \subseteq dets \X labels BY DEF Matchings
  <2> QED BY <1>1, <2>1, FS_Subset, FS_CardinalityType
<1>3. {} \in all BY DEF Matchings
<1>4. most \in {Cardinality(ps) : ps \in all}
  <2> DEFINE C == {Cardinality(ps) : ps \in all}
  <2>1. C \subseteq Nat /\ C # {} /\ \A x \in C : x <= N BY <1>2, <1>3
  <2> HIDE DEF C
  <2>2. Max(C) \in C BY <1>1, <2>1, MaxNat
  <2> QED BY <2>2 DEF C
<1>5. full # {} BY <1>4
<1>6. ASSUME NEW ps \in full PROVE TotalDistance(t, f, ps) \in Nat
  <2> DEFINE steps == ps \X (1..Tolerance)
             near  == {s \in steps : s[2] <= Distance(f[s[1][1]], t[s[1][2]])}
  <2>1. IsFiniteSet(1..Tolerance) BY ScoringAssumption, FS_Interval
  <2>2. IsFiniteSet(steps) BY <1>2, <2>1, FS_Product
  <2>3. near \subseteq steps OBVIOUS
  <2> HIDE DEF steps
  <2>4. IsFiniteSet(near) BY <2>2, <2>3, FS_Subset
  <2>5. Cardinality(near) \in Nat BY <2>4, FS_CardinalityType
  <2> QED BY <2>5 DEF TotalDistance, steps
<1>7. \E ps \in full : \A qs \in full : TotalDistance(t, f, ps) <= TotalDistance(t, f, qs)
  <2> DEFINE D == {TotalDistance(t, f, ps) : ps \in full}
  <2>1. D \subseteq Nat /\ D # {} BY <1>5, <1>6
  <2>2. PICK d \in D : \A e \in D : d <= e
    <3> HIDE DEF D
    <3> QED BY <2>1, LeastNat
  <2>3. PICK ps \in full : d = TotalDistance(t, f, ps) OBVIOUS
  <2>4. \A qs \in full : TotalDistance(t, f, qs) \in D OBVIOUS
  <2> QED BY <2>2, <2>3, <2>4
<1>8. Match(t, labels, f, dets)
        = CHOOSE ps \in full :
            \A qs \in full : TotalDistance(t, f, ps) <= TotalDistance(t, f, qs)
  BY DEF Match
<1> HIDE DEF full, all, most
<1>9. Match(t, labels, f, dets) \in full BY <1>7, <1>8
<1> QED BY <1>9 DEF full, most, all

(* Division by a variable, as the solver needs it. *)
LEMMA DivFact ==
    ASSUME NEW n \in Int, NEW m \in Nat \ {0}
    PROVE  n \div m \in Int /\ m * (n \div m) <= n /\ n < m * ((n \div m) + 1)
OBVIOUS

(* What is left over. *)
LEMMA ModFact ==
    ASSUME NEW n \in Int, NEW m \in Nat \ {0}
    PROVE  n % m \in 0..m - 1 /\ n = m * (n \div m) + (n % m)
OBVIOUS

(* Of a multiple, nothing is. *)
LEMMA ModOfMultiple ==
    ASSUME NEW k \in Int, NEW m \in Nat \ {0}
    PROVE  (m * k) % m = 0
<1>1. m * k \in Int OBVIOUS
<1> DEFINE q == (m * k) \div m
           r == (m * k) % m
<1>2. q \in Int /\ r \in 0..m - 1 /\ m * k = m * q + r BY <1>1, ModFact, DivFact
<1> HIDE DEF q, r
<1>3. m * (k - q) = r BY <1>2
<1>4. CASE k - q >= 1
  <2>1. m * (k - q) >= m BY <1>2, <1>4
  <2> QED BY <1>2, <1>3, <2>1
<1>5. CASE k - q <= -1
  <2>1. m * (k - q) <= -m BY <1>2, <1>5
  <2> QED BY <1>2, <1>3, <2>1
<1>6. CASE k - q = 0 BY <1>2, <1>3, <1>6 DEF r
<1> QED BY <1>2, <1>4, <1>5, <1>6

(* A common factor cancels. *)
LEMMA Cancel ==
    ASSUME NEW a \in Int, NEW b \in Int, NEW m \in Nat \ {0}, m * a < m * b
    PROVE  a < b
OBVIOUS

(* And may be put in. *)
LEMMA Scale ==
    ASSUME NEW a \in Int, NEW b \in Int, NEW m \in Nat \ {0}, a <= b
    PROVE  m * a <= m * b
OBVIOUS

(* The first Look at or past a frame is the first of them all. *)
LEMMA FirstLookIsFirst ==
    ASSUME NEW first \in Nat, NEW stride \in Nat \ {0}
    PROVE  /\ FirstLook(first, stride) \in Nat /\ FirstLook(first, stride) >= first
           /\ FirstLook(first, stride) % stride = 0
           /\ \A i \in Nat : i >= first /\ i % stride = 0 => FirstLook(first, stride) <= i
<1> DEFINE q == (first + stride - 1) \div stride
<1>1. first + stride - 1 \in Int OBVIOUS
<1>2. q \in Int /\ stride * q <= first + stride - 1 /\ first + stride - 1 < stride * (q + 1)
  BY <1>1, DivFact
<1>3. FirstLook(first, stride) = stride * q BY <1>2 DEF FirstLook
<1> HIDE DEF q
<1>4. stride * (q + 1) = stride * q + stride BY <1>2
<1>5. stride * q \in Int BY <1>2
<1>6. stride * q >= first BY <1>2, <1>4, <1>5
<1>7. ASSUME NEW i \in Nat, i >= first, i % stride = 0 PROVE stride * q <= i
  <2> DEFINE k == i \div stride
  <2>1. k \in Int /\ i = stride * k BY <1>7, ModFact, DivFact
  <2> HIDE DEF k
  <2>2. CASE q <= k BY <1>2, <2>1, <2>2, Scale
  <2>3. CASE q >= k + 1
    <3>1. stride * (k + 1) <= stride * q BY <1>2, <2>1, <2>3, Scale
    <3>2. stride * (k + 1) = stride * k + stride BY <2>1
    <3> QED BY <1>2, <1>5, <1>7, <2>1, <3>1, <3>2
  <2> QED BY <1>2, <2>1, <2>2, <2>3
<1>8. (stride * q) % stride = 0 BY <1>2, ModOfMultiple
<1> QED BY <1>3, <1>5, <1>6, <1>7, <1>8

(* Later frames are not printed earlier. *)
LEMMA PrintedGrows ==
    ASSUME NEW i \in Nat, NEW k \in Nat, i <= k
    PROVE  Printed(i) \in Int /\ Printed(k) \in Int /\ Printed(i) <= Printed(k)
<1>1. Start \in Nat /\ Fps \in Nat \ {0} /\ 2 * Fps \in Nat \ {0} BY ScoringAssumption
<1> DEFINE m == 2 * Fps
           a == (200 * i + Fps) \div m
           b == (200 * k + Fps) \div m
<1>2. 200 * i + Fps \in Int /\ 200 * k + Fps \in Int /\ 200 * i + Fps <= 200 * k + Fps BY <1>1
<1>3. a \in Int /\ m * a <= 200 * i + Fps BY <1>1, <1>2, DivFact
<1>4. b \in Int /\ 200 * k + Fps < m * (b + 1) BY <1>1, <1>2, DivFact
<1>5. Printed(i) = Start + a /\ Printed(k) = Start + b BY DEF Printed
<1>6. m \in Nat \ {0} BY <1>1
<1> HIDE DEF m, a, b
<1>7. m * a < m * (b + 1) BY <1>1, <1>2, <1>3, <1>4, <1>6
<1>8. a < b + 1 BY <1>3, <1>4, <1>6, <1>7, Cancel
<1> QED BY <1>1, <1>3, <1>4, <1>5, <1>8

(* first_moved_index is the first frame printed at the time or later. *)
LEMMA FirstMovedIsFirst ==
    ASSUME NEW at \in Start..End
    PROVE  /\ FirstMoved(at) \in Nat
           /\ \A i \in Nat : Printed(i) >= at <=> i >= FirstMoved(at)
<1>1. Start \in Nat /\ End \in Nat /\ Fps \in Nat \ {0} /\ 2 * Fps \in Nat \ {0} /\ at \in Nat
  BY ScoringAssumption
<1> DEFINE n   == (at - Start - 1) * Fps
           q   == n \div 100
           low == Max({0, q})
           S   == {i \in low..low + Fps : Printed(i) >= at}
<1>2. n \in Int BY <1>1
<1>3. q \in Int /\ 100 * q <= n /\ n < 100 * (q + 1) BY <1>2
<1>4. FirstMoved(at) = Min(S) BY DEF FirstMoved
<1>5. low \in Nat /\ low >= q /\ (low = 0 \/ low = q)
  <2> HIDE DEF q
  <2>1. \E x \in {0, q} : \A y \in {0, q} : x >= y BY <1>3
  <2>2. low \in {0, q} /\ \A y \in {0, q} : low >= y BY <2>1 DEF Max
  <2> QED BY <1>3, <2>2
<1> HIDE DEF q, low
<1>6. ASSUME NEW i \in Nat, i < low PROVE Printed(i) < at
  <2> DEFINE m == 2 * Fps
             a == (200 * i + Fps) \div m
  <2>1. low = q BY <1>5, <1>6
  <2>2. 200 * i + Fps \in Int /\ m \in Nat \ {0} BY <1>1
  <2>3. a \in Int /\ m * a <= 200 * i + Fps BY <2>2, DivFact
  <2>4. Printed(i) = Start + a BY DEF Printed
  <2>5. 2 * n = m * (at - Start - 1) BY <1>1
  <2>6. m * (at - Start) = m * (at - Start - 1) + m BY <1>1
  <2>7. 200 * i + 200 <= 2 * n BY <1>2, <1>3, <1>5, <1>6, <2>1
  <2>8. 200 * i + Fps < m * (at - Start)
    <3> DEFINE z == m * (at - Start - 1)
    <3>1. z \in Int BY <1>1
    <3> HIDE DEF z
    <3> QED BY <1>1, <1>2, <2>5, <2>6, <2>7, <3>1 DEF z
  <2>9. m * a < m * (at - Start)
    <3>1. m * a \in Int /\ m * (at - Start) \in Int BY <1>1, <2>3
    <3> QED BY <2>2, <2>3, <2>8, <3>1
  <2> HIDE DEF a, m
  <2>10. a < at - Start BY <1>1, <2>2, <2>3, <2>9, Cancel
  <2> QED BY <1>1, <2>3, <2>4, <2>10
<1>7. Printed(low + Fps) >= at
  <2> DEFINE m == 2 * Fps
             k == low + Fps
             a == (200 * k + Fps) \div m
  <2>1. k \in Nat /\ 200 * k + Fps \in Int /\ m \in Nat \ {0} BY <1>1, <1>5
  <2>2. a \in Int /\ 200 * k + Fps < m * (a + 1) BY <2>1, DivFact
  <2>3. Printed(k) = Start + a BY DEF Printed
  <2>4. 2 * n = m * (at - Start - 1) BY <1>1
  <2>5. m * (at - Start) = m * (at - Start - 1) + m BY <1>1
  <2>6. 200 * k + 200 > 2 * n + 200 * Fps BY <1>1, <1>2, <1>3, <1>5
  <2>7. m * (at - Start) < 200 * k + Fps + 1
    <3> DEFINE z == m * (at - Start - 1)
    <3>1. z \in Int BY <1>1
    <3> HIDE DEF z
    <3> QED BY <1>1, <1>2, <2>1, <2>4, <2>5, <2>6, <3>1 DEF z
  <2>8. m * (at - Start) < m * (a + 1)
    <3>1. m * (a + 1) \in Int /\ m * (at - Start) \in Int BY <1>1, <2>2
    <3> QED BY <2>1, <2>2, <2>7, <3>1
  <2> HIDE DEF a, m
  <2>9. at - Start < a + 1 BY <1>1, <2>1, <2>2, <2>8, Cancel
  <2> QED BY <1>1, <2>2, <2>3, <2>9
<1>8. low + Fps \in S BY <1>1, <1>5, <1>7
<1>9. S \subseteq Nat BY <1>1, <1>5
<1>10. \E x \in S : \A y \in S : x <= y
  <2> HIDE DEF S
  <2> QED BY <1>8, <1>9, LeastNat
<1>11. Min(S) \in S /\ \A y \in S : Min(S) <= y BY <1>10 DEF Min
<1> DEFINE first == Min(S)
<1>12. first \in Nat /\ Printed(first) >= at /\ first <= low + Fps BY <1>8, <1>9, <1>11
<1>13. ASSUME NEW i \in Nat, i < first PROVE Printed(i) < at
  <2>1. CASE i < low BY <1>6, <2>1
  <2>2. CASE i >= low
    <3>1. i \in low..low + Fps BY <1>1, <1>5, <1>12, <1>13, <2>2
    <3>2. i \notin S BY <1>9, <1>11, <1>12, <1>13
    <3>3. Printed(i) \in Int BY PrintedGrows
    <3> QED BY <1>1, <3>1, <3>2, <3>3
  <2> QED BY <1>5, <2>1, <2>2
<1> HIDE DEF first
<1>14. ASSUME NEW i \in Nat PROVE Printed(i) >= at <=> i >= first
  <2>1. CASE i < first
    <3>1. Printed(i) \in Int BY PrintedGrows
    <3> QED BY <1>1, <1>12, <1>13, <2>1, <3>1
  <2>2. CASE i >= first
    <3>1. /\ Printed(first) \in Int /\ Printed(i) \in Int
          /\ Printed(first) <= Printed(i)
      BY <1>12, <2>2, PrintedGrows
    <3> QED BY <1>1, <1>12, <2>2, <3>1
  <2> QED BY <1>12, <2>1, <2>2
<1> QED BY <1>4, <1>12, <1>14 DEF first

(* refuse_move refuses exactly the moves that show nothing or spoil the    *)
(* baseline.                                                               *)
LEMMA MoveJudged ==
    ASSUME NEW at \in Start..End, NEW stride \in Strides
    PROVE  LET moved == {i \in 0..FramesUntilEnd - 1 : Printed(i) >= at}
               looks == {i \in moved : i < BaselineCount \/ i % stride = 0}
           IN  RefuseMove(at, stride) <=> looks = {} \/ \E i \in moved : i < BaselineCount
<1> DEFINE first == FirstMoved(at)
           next  == FirstLook(first, stride)
           moved == {i \in 0..FramesUntilEnd - 1 : Printed(i) >= at}
           looks == {i \in moved : i < BaselineCount \/ i % stride = 0}
<1>1. BaselineCount \in Nat /\ stride \in Nat \ {0}
  <2>1. {1, BaselineFrames} \subseteq Nat /\ \A x \in {1, BaselineFrames} : x <= 1 + BaselineFrames
    BY ScoringAssumption
  <2>2. BaselineCount \in {1, BaselineFrames}
    BY <2>1, MaxNat, ScoringAssumption DEF BaselineCount
  <2> QED BY <2>1, <2>2, ScoringAssumption
<1>2. FramesUntilEnd \in Int
  <2>1. (End - Start) * Fps \in Int BY ScoringAssumption
  <2> QED BY <2>1 DEF FramesUntilEnd
<1>3. first \in Nat /\ \A i \in Nat : Printed(i) >= at <=> i >= first BY FirstMovedIsFirst
<1>4. /\ next \in Nat /\ next >= first /\ next % stride = 0
      /\ \A i \in Nat : i >= first /\ i % stride = 0 => next <= i
  <2> HIDE DEF first
  <2> QED BY <1>1, <1>3, FirstLookIsFirst
<1>5. RefuseMove(at, stride) <=> first < BaselineCount \/ next >= FramesUntilEnd
  BY DEF RefuseMove
<1>6. \A i : i \in moved <=> i \in Nat /\ i < FramesUntilEnd /\ i >= first BY <1>2, <1>3
<1> HIDE DEF first, next, moved
<1>7. ASSUME first < BaselineCount PROVE looks = {} \/ \E i \in moved : i < BaselineCount
  <2>1. CASE first < FramesUntilEnd BY <1>3, <1>6, <1>7, <2>1
  <2>2. CASE first >= FramesUntilEnd
    <3>1. moved = {} BY <1>2, <1>3, <1>6, <2>2
    <3> QED BY <3>1
  <2> QED BY <1>2, <1>3, <2>1, <2>2
<1>8. ASSUME first >= BaselineCount, next >= FramesUntilEnd PROVE looks = {}
  BY <1>1, <1>2, <1>3, <1>4, <1>6, <1>8
<1>9. ASSUME first >= BaselineCount, next < FramesUntilEnd
      PROVE  looks # {} /\ ~\E i \in moved : i < BaselineCount
  <2>1. next \in looks BY <1>4, <1>6, <1>9
  <2>2. ~\E i \in moved : i < BaselineCount BY <1>1, <1>3, <1>6, <1>9
  <2> QED BY <2>1, <2>2
<1>10. RefuseMove(at, stride) <=> looks = {} \/ \E i \in moved : i < BaselineCount
  BY <1>1, <1>2, <1>3, <1>4, <1>5, <1>7, <1>8, <1>9
<1> QED BY <1>10 DEF moved

-----------------------------------------------------------------------------
(* What the three properties rest on, phase by phase: the derived labels   *)
(* are as many as the Board gained and those unpaired, a truth is finite,  *)
(* every result is the score of some list of marks against it as some      *)
(* frame places it, and a verdict is compare's of the three results.       *)
Results == {Score(found, d) : found \in Marks, d \in Placement}

TruthIsFinite == IsFiniteSet(DOMAIN derived) /\ IsFiniteSet(DOMAIN truth)

LabelsCounted ==
    phase \in {"derived", "corrected"} => Cardinality(DOMAIN derived) = grown + unpaired

ResultsAreScores ==
    /\ scored \in Seq(Results)
    /\ phase \notin {"loaded", "ruled"} => scored = <<>>

VerdictIsCompared ==
    verdict = "pass" =>
        /\ phase = "ruled" /\ Len(scored) = 3
        /\ Lost(scored[1], scored[2], scored[3]) = {}
        /\ Added(scored[1], scored[2], scored[3]) = {}
        /\ notes = Scoped(scored[1], scored[3])

MoveIsJudged ==
    phase = "moving" =>
        \E at \in Start..End, stride \in Strides :
            move = [at |-> at, stride |-> stride, refused |-> RefuseMove(at, stride)]

ToolInv ==
    /\ TruthIsFinite /\ LabelsCounted /\ UnpairedIsTold
    /\ ResultsAreScores /\ VerdictIsCompared /\ MoveIsJudged

(* A list of marks is finite. *)
LEMMA MarksFinite ==
    ASSUME NEW s \in Marks
    PROVE  IsFiniteSet(DOMAIN s) /\ Len(s) \in Nat /\ Cardinality(DOMAIN s) = Len(s)
<1>1. PICK n \in 0..MaxMarks : s \in [1..n -> Position] BY DEF Marks
<1>2. n \in Nat /\ DOMAIN s = 1..n BY <1>1, ScoringAssumption
<1>3. s \in Seq(Position) BY <1>1, <1>2
<1>4. Len(s) = n BY <1>2, <1>3
<1>5. IsFiniteSet(1..n) /\ Cardinality(1..n) = n
  <2>1. IsFiniteSet(1..n) /\ Cardinality(1..n) = IF 1 > n THEN 0 ELSE n - 1 + 1
    BY <1>2, FS_Interval
  <2> QED BY <1>2, <2>1
<1> QED BY <1>2, <1>4, <1>5

(* A finite set less a part of it. *)
LEMMA PartTaken ==
    ASSUME NEW S, NEW T, IsFiniteSet(S), T \subseteq S
    PROVE  IsFiniteSet(S \ T) /\ Cardinality(S \ T) = Cardinality(S) - Cardinality(T)
<1>1. S \cap T = T OBVIOUS
<1>2. IsFiniteSet(S \ T) /\ Cardinality(S \ T) = Cardinality(S) - Cardinality(S \cap T)
  BY FS_Difference
<1> QED BY <1>1, <1>2

(* A matching takes as many marks of one side as of the other. *)
LEMMA SidesAgree ==
    ASSUME NEW t, NEW labels, IsFiniteSet(labels), NEW f, NEW dets, IsFiniteSet(dets),
           NEW ps \in Matchings(t, labels, f, dets)
    PROVE  LET L == {p[1] : p \in ps}
               R == {p[2] : p \in ps}
           IN  /\ L \subseteq dets /\ R \subseteq labels
               /\ IsFiniteSet(L) /\ IsFiniteSet(R) /\ Cardinality(L) = Cardinality(R)
<1> DEFINE L == {p[1] : p \in ps}
           R == {p[2] : p \in ps}
<1>1. ps \subseteq dets \X labels /\ \A a, b \in ps : a # b => a[1] # b[1] /\ a[2] # b[2]
  BY DEF Matchings
<1>2. L \subseteq dets /\ R \subseteq labels BY <1>1
<1>3. IsFiniteSet(L) /\ IsFiniteSet(R) BY <1>2, FS_Subset
<1> DEFINE of == [i \in L |-> CHOOSE p \in ps : p[1] = i]
           g  == [i \in L |-> of[i][2]]
<1>4. \A i \in L : of[i] \in ps /\ of[i][1] = i OBVIOUS
<1>5. \A p \in ps : of[p[1]] = p BY <1>1, <1>4
<1> HIDE DEF of
<1>6. g \in [L -> R] BY <1>4
<1>7. \A i, k \in L : g[i] = g[k] => i = k BY <1>1, <1>4
<1>8. \A k \in R : \E i \in L : g[i] = k
  <2> SUFFICES ASSUME NEW k \in R PROVE \E i \in L : g[i] = k OBVIOUS
  <2>1. PICK p \in ps : p[2] = k OBVIOUS
  <2>2. p[1] \in L /\ g[p[1]] = k BY <1>5, <2>1
  <2> QED BY <2>2
<1>9. g \in Bijection(L, R)
  <2> HIDE DEF g, L, R
  <2>1. g \in Injection(L, R) BY <1>6, <1>7 DEF Injection, IsInjective
  <2>2. g \in Surjection(L, R) BY <1>6, <1>8 DEF Surjection
  <2> QED BY <2>1, <2>2 DEF Bijection
<1>10. ExistsBijection(L, R) BY <1>9 DEF ExistsBijection
<1>11. Cardinality(L) = Cardinality(R)
  <2> HIDE DEF L, R
  <2> QED BY <1>3, <1>10, FS_Bijection
<1> QED BY <1>2, <1>3, <1>11

(* Before anything was derived there is no truth and no result. *)
LEMMA ToolStarts == ToolInit => ToolInv
<1> SUFFICES ASSUME ToolInit PROVE ToolInv OBVIOUS
<1>1. DOMAIN derived = {} /\ DOMAIN truth = {} BY DEF ToolInit
<1>2. IsFiniteSet({}) BY FS_EmptySet
<1>3. TruthIsFinite BY <1>1, <1>2 DEF TruthIsFinite
<1>4. <<>> \in Seq(Results) OBVIOUS
<1> QED BY <1>3, <1>4
        DEF ToolInit, ToolInv, LabelsCounted, UnpairedIsTold,
            ResultsAreScores, VerdictIsCompared, MoveIsJudged

(* The derivation deducts as many marks as before-marks found a pair. *)
LEMMA DerivePreserves ==
    ASSUME ToolInv,
           NEW before \in Marks, NEW after \in Marks, NEW off,
           NEW fit \in {{}} \cup {{d} : d \in Offset},
           Derive(before, after, off, fit)
    PROVE  ToolInv'
<1> DEFINE pairs == MatchAll(Shifted(before, off), after)
           again == UNION {MatchAll(Shifted(before, d), after) : d \in fit}
           kept  == IF fit # {} /\ KeepRefit(pairs, again) THEN again ELSE pairs
           pre   == {p[1] : p \in kept}
           post  == {p[2] : p \in kept}
<1>1. /\ phase = "start" /\ phase' = "derived" /\ export' = after /\ preLines' = pre
      /\ derived' = [i \in DOMAIN after \ pre |-> after[i]]
      /\ unpaired' = Cardinality(DOMAIN before \ post) /\ grown' = Len(after) - Len(before)
      /\ UNCHANGED <<truth, preTruth, scored, causes, verdict, notes, move>>
  BY DEF Derive
<1>2. \E d : kept = MatchAll(Shifted(before, d), after)
  <2>1. CASE kept = pairs BY <2>1
  <2>2. CASE kept # pairs
    <3>1. kept = again /\ fit # {} BY <2>2
    <3>2. PICK d \in Offset : fit = {d} BY <3>1
    <3>3. again = MatchAll(Shifted(before, d), after) BY <3>2
    <3> QED BY <3>1, <3>3
  <2> QED BY <2>1, <2>2
<1>3. PICK d : kept = MatchAll(Shifted(before, d), after) BY <1>2
<1>4. /\ IsFiniteSet(DOMAIN before) /\ Cardinality(DOMAIN before) = Len(before)
      /\ IsFiniteSet(DOMAIN after) /\ Cardinality(DOMAIN after) = Len(after)
      /\ Len(before) \in Nat /\ Len(after) \in Nat
  BY MarksFinite
<1>5. kept \in Matchings(Shifted(before, d), DOMAIN before, after, DOMAIN after)
  <2>1. DOMAIN Shifted(before, d) = DOMAIN before BY DEF Shifted
  <2>2. kept = Match(Shifted(before, d), DOMAIN before, after, DOMAIN after)
    BY <1>3, <2>1 DEF MatchAll
  <2> HIDE DEF kept
  <2> QED BY <1>4, <2>2, MatchIsLargest
<1> HIDE DEF kept
<1>6. /\ pre \subseteq DOMAIN after /\ post \subseteq DOMAIN before
      /\ IsFiniteSet(pre) /\ IsFiniteSet(post) /\ Cardinality(pre) = Cardinality(post)
  BY <1>4, <1>5, SidesAgree
<1> HIDE DEF pre, post
<1>7. IsFiniteSet(DOMAIN after \ pre)
      /\ Cardinality(DOMAIN after \ pre) = Len(after) - Cardinality(pre)
  BY <1>4, <1>6, PartTaken
<1>8. Cardinality(DOMAIN before \ post) = Len(before) - Cardinality(post)
  BY <1>4, <1>6, PartTaken
<1>9. DOMAIN derived' = DOMAIN after \ pre BY <1>1
<1>10. Cardinality(pre) \in Nat BY <1>6, FS_CardinalityType
<1>11. LabelsCounted' BY <1>1, <1>4, <1>6, <1>7, <1>8, <1>9, <1>10 DEF LabelsCounted
<1>12. TruthIsFinite' BY <1>1, <1>7, <1>9 DEF ToolInv, TruthIsFinite
<1>13. scored = <<>> /\ scored' = <<>> /\ verdict # "pass" /\ verdict' # "pass"
  BY <1>1 DEF ToolInv, ResultsAreScores, VerdictIsCompared
<1>14. ResultsAreScores' BY <1>13 DEF ResultsAreScores
<1> QED BY <1>1, <1>11, <1>12, <1>13, <1>14
        DEF ToolInv, UnpairedIsTold, VerdictIsCompared, MoveIsJudged

(* A correction by hand moves a label. *)
LEMMA CorrectPreserves ==
    ASSUME ToolInv, NEW i, NEW p, Correct(i, p) PROVE ToolInv'
<1>1. /\ phase = "derived" /\ phase' = "corrected" /\ derived' = [derived EXCEPT ![i] = p]
      /\ UNCHANGED <<export, preLines, unpaired, grown, truth, preTruth, scored, causes, verdict,
                     notes, move>>
  BY DEF Correct
<1>2. DOMAIN derived' = DOMAIN derived BY <1>1
<1>3. TruthIsFinite' BY <1>1, <1>2 DEF ToolInv, TruthIsFinite
<1>4. LabelsCounted' BY <1>1, <1>2 DEF ToolInv, LabelsCounted
<1>5. scored = <<>> /\ scored' = <<>> /\ verdict # "pass" /\ verdict' # "pass"
  BY <1>1 DEF ToolInv, ResultsAreScores, VerdictIsCompared
<1>6. ResultsAreScores' BY <1>5 DEF ResultsAreScores
<1> QED BY <1>1, <1>3, <1>4, <1>5, <1>6
        DEF ToolInv, UnpairedIsTold, VerdictIsCompared, MoveIsJudged

(* The truth loaded is the derived one. *)
LEMMA LoadTruthPreserves == ASSUME ToolInv, LoadTruth PROVE ToolInv'
<1>1. /\ phase \in {"derived", "corrected"} /\ phase' = "loaded" /\ truth' = derived
      /\ derived' = <<>>
      /\ UNCHANGED <<unpaired, grown, scored, causes, verdict, notes, move>>
  BY DEF LoadTruth
<1>2. DOMAIN derived' = {} BY <1>1
<1>3. TruthIsFinite' BY <1>1, <1>2, FS_EmptySet DEF ToolInv, TruthIsFinite
<1>4. UnpairedIsTold' BY <1>1 DEF ToolInv, LabelsCounted, UnpairedIsTold
<1>5. scored = <<>> /\ scored' = <<>> /\ verdict # "pass" /\ verdict' # "pass"
  BY <1>1 DEF ToolInv, ResultsAreScores, VerdictIsCompared
<1>6. ResultsAreScores' BY <1>5 DEF ResultsAreScores
<1> QED BY <1>1, <1>3, <1>4, <1>5, <1>6
        DEF ToolInv, LabelsCounted, VerdictIsCompared, MoveIsJudged

(* A result is a score against the truth loaded, which stays. *)
LEMMA ScoreRunPreserves ==
    ASSUME ToolInv, NEW found \in Marks, NEW d \in Placement, ScoreRun(found, d) PROVE ToolInv'
<1>1. /\ phase = "loaded" /\ scored' = Append(scored, Score(found, d))
      /\ UNCHANGED <<phase, export, preLines, derived, truth, verdict, notes, move>>
  BY DEF ScoreRun
<1>2. TruthIsFinite' BY <1>1 DEF ToolInv, TruthIsFinite
<1>3. Results' = Results BY <1>1 DEF Results, Score
<1>4. Score(found, d) \in Results /\ scored \in Seq(Results)
  BY DEF Results, ToolInv, ResultsAreScores
<1>5. scored' \in Seq(Results) /\ scored' # <<>>
  <2> HIDE DEF Results
  <2> QED BY <1>1, <1>4
<1>6. ResultsAreScores' BY <1>1, <1>3, <1>5 DEF ResultsAreScores
<1>7. verdict' # "pass" BY <1>1 DEF ToolInv, VerdictIsCompared
<1> QED BY <1>1, <1>2, <1>5, <1>6, <1>7
        DEF ToolInv, LabelsCounted, UnpairedIsTold, VerdictIsCompared, MoveIsJudged

(* A pass says that nothing was lost and nothing added, and notes the      *)
(* changes of scope.                                                       *)
LEMMA ComparePreserves ==
    ASSUME ToolInv, NEW was, NEW now, NEW across, Compare(was, now, across) PROVE ToolInv'
<1>1. /\ phase = "loaded" /\ phase' = "ruled" /\ Len(scored) = 3
      /\ UNCHANGED <<export, preLines, derived, unpaired, grown, truth, preTruth, scored, causes,
                     move>>
  BY DEF Compare, Bench
<1>2. verdict' = "pass" => /\ Lost(scored[1], scored[2], scored[3]) = {}
                           /\ Added(scored[1], scored[2], scored[3]) = {}
                           /\ notes' = Scoped(scored[1], scored[3])
  BY DEF Compare
<1>3. TruthIsFinite' BY <1>1 DEF ToolInv, TruthIsFinite
<1>4. Results' = Results BY <1>1 DEF Results, Score
<1>5. ResultsAreScores' BY <1>1, <1>4 DEF ToolInv, ResultsAreScores
<1>6. /\ Lost(scored[1], scored[2], scored[3])' = Lost(scored[1], scored[2], scored[3])
      /\ Added(scored[1], scored[2], scored[3])' = Added(scored[1], scored[2], scored[3])
      /\ Scoped(scored[1], scored[3])' = Scoped(scored[1], scored[3])
  BY <1>1 DEF Lost, Added, Scoped, Outcome, Found, FalsePositives, Claimed, At
<1>7. VerdictIsCompared' BY <1>1, <1>2, <1>6 DEF VerdictIsCompared
<1> QED BY <1>1, <1>3, <1>5, <1>7
        DEF ToolInv, LabelsCounted, UnpairedIsTold, MoveIsJudged

(* A move carries the answer of refuse_move. *)
LEMMA MoveBoardPreserves ==
    ASSUME ToolInv, NEW at \in Start..End, NEW stride \in Strides, MoveBoard(at, stride)
    PROVE  ToolInv'
<1>1. /\ phase = "start" /\ phase' = "moving"
      /\ move' = [at |-> at, stride |-> stride, refused |-> RefuseMove(at, stride)]
      /\ UNCHANGED <<export, preLines, derived, unpaired, grown, truth, preTruth, scored, causes,
                     verdict, notes>>
  BY DEF MoveBoard
<1>2. TruthIsFinite' BY <1>1 DEF ToolInv, TruthIsFinite
<1>3. MoveIsJudged' BY <1>1 DEF MoveIsJudged
<1>4. scored = <<>> /\ scored' = <<>> /\ verdict # "pass" /\ verdict' # "pass"
  BY <1>1 DEF ToolInv, ResultsAreScores, VerdictIsCompared
<1>5. ResultsAreScores' BY <1>4 DEF ResultsAreScores
<1> QED BY <1>1, <1>2, <1>3, <1>4, <1>5
        DEF ToolInv, LabelsCounted, UnpairedIsTold, VerdictIsCompared

(* A refused export leaves nothing behind. *)
LEMMA RefuseExportPreserves == ASSUME ToolInv, RefuseExport PROVE ToolInv'
<1>1. /\ phase = "start" /\ phase' = "refused"
      /\ UNCHANGED <<export, preLines, derived, unpaired, grown, truth, preTruth, scored, causes,
                     verdict, notes, move>>
  BY DEF RefuseExport
<1>2. TruthIsFinite' BY <1>1 DEF ToolInv, TruthIsFinite
<1>3. scored = <<>> /\ scored' = <<>> /\ verdict # "pass" /\ verdict' # "pass"
  BY <1>1 DEF ToolInv, ResultsAreScores, VerdictIsCompared
<1>4. ResultsAreScores' BY <1>3 DEF ResultsAreScores
<1> QED BY <1>1, <1>2, <1>3, <1>4
        DEF ToolInv, LabelsCounted, UnpairedIsTold, VerdictIsCompared, MoveIsJudged

(* A step that changes nothing keeps it all. *)
LEMMA ToolStutters == ASSUME ToolInv, UNCHANGED toolVars PROVE ToolInv'
<1>1. Results' = Results BY DEF toolVars, Results, Score
<1>2. /\ Lost(scored[1], scored[2], scored[3])' = Lost(scored[1], scored[2], scored[3])
      /\ Added(scored[1], scored[2], scored[3])' = Added(scored[1], scored[2], scored[3])
      /\ Scoped(scored[1], scored[3])' = Scoped(scored[1], scored[3])
  BY DEF toolVars, Lost, Added, Scoped, Outcome, Found, FalsePositives, Claimed, At
<1>3. ResultsAreScores' BY <1>1 DEF toolVars, ToolInv, ResultsAreScores
<1>4. VerdictIsCompared' BY <1>2 DEF toolVars, ToolInv, VerdictIsCompared
<1> QED BY <1>3, <1>4
        DEF toolVars, ToolInv, TruthIsFinite, LabelsCounted, UnpairedIsTold, MoveIsJudged

(* ToolInv holds of every reachable state. *)
THEOREM ToolInductive == ToolSpec => []ToolInv
<1>1. ASSUME ToolInv, [ToolNext]_toolVars PROVE ToolInv'
  <2>1. CASE UNCHANGED toolVars BY <1>1, <2>1, ToolStutters
  <2>2. CASE \E before, after \in Marks, off \in Offset, fit \in {{}} \cup {{d} : d \in Offset} :
                Derive(before, after, off, fit)
    BY <1>1, <2>2, DerivePreserves
  <2>3. CASE RefuseExport BY <1>1, <2>3, RefuseExportPreserves
  <2>4. CASE LoadTruth BY <1>1, <2>4, LoadTruthPreserves
  <2>5. CASE \E i \in 1..MaxMarks, p \in Position : Correct(i, p)
    BY <1>1, <2>5, CorrectPreserves
  <2>6. CASE \E found \in Marks, d \in Placement : ScoreRun(found, d)
    BY <1>1, <2>6, ScoreRunPreserves
  <2>7. CASE \E was, now \in Strides, across \in BOOLEAN : Compare(was, now, across)
    BY <1>1, <2>7, ComparePreserves
  <2>8. CASE \E at \in Start..End, stride \in Strides : MoveBoard(at, stride)
    BY <1>1, <2>8, MoveBoardPreserves
  <2>9. CASE Done BY <1>1, <2>9, ToolStutters DEF Done
  <2> QED BY <1>1, <2>1, <2>2, <2>3, <2>4, <2>5, <2>6, <2>7, <2>8, <2>9 DEF ToolNext
<1> QED BY <1>1, ToolStarts, PTL DEF ToolSpec

(* A derived truth holds as many labels too many as it says it may, for    *)
(* every pair of exports, registration and refit (derive_new_holes).       *)
THEOREM UnpairedAreTold == ToolSpec => []UnpairedIsTold
<1>1. ToolInv => UnpairedIsTold BY DEF ToolInv
<1> QED BY <1>1, ToolInductive, PTL

(* A result's pairs are a matching of the truth in its own scope. *)
LEMMA ResultIsMatched ==
    ASSUME ToolInv, NEW r \in Results
    PROVE  /\ IsFiniteSet(DOMAIN r.found)
           /\ r.pairs \in Matchings(r.truth, DOMAIN r.truth \ r.out, r.found, DOMAIN r.found)
<1>1. PICK found \in Marks, d \in Placement : r = Score(found, d) BY DEF Results
<1> DEFINE placed  == Shifted(truth, d)
           inScope == DOMAIN placed \ OutOfScope(placed)
<1>2. /\ r.found = found /\ r.truth = placed /\ DOMAIN r.truth \ r.out = inScope
      /\ r.pairs = Match(placed, inScope, found, DOMAIN found)
  BY <1>1 DEF Score
<1>3. IsFiniteSet(DOMAIN found) BY MarksFinite
<1>4. DOMAIN placed = DOMAIN truth BY DEF Shifted
<1> HIDE DEF placed
<1>5. IsFiniteSet(inScope) BY <1>4, FS_Difference DEF ToolInv, TruthIsFinite
<1> HIDE DEF inScope
<1> QED BY <1>2, <1>3, <1>5, MatchIsLargest

(* A change that passes finds what the reference finds both ways, or notes *)
(* that it left the scope, and has no more false positives than it, but    *)
(* for those the shifted one shows (compare).                              *)
THEOREM PassesNoWorse == ToolSpec => []PassIsNoWorse
<1>1. ASSUME ToolInv PROVE PassIsNoWorse
  <2> SUFFICES ASSUME verdict = "pass" PROVE PassIsNoWorse BY DEF PassIsNoWorse
  <2> DEFINE a == scored[1]
             b == scored[2]
             c == scored[3]
             noise == {i \in FalsePositives(c) :
                          \E k \in FalsePositives(b) : Near(c.found[i], b.found[k])}
             S == FalsePositives(c) \ noise
             T == FalsePositives(a)
  <2>1. a \in Results /\ b \in Results /\ c \in Results
    <3>1. scored \in Seq(Results) /\ Len(scored) = 3
      BY <1>1 DEF ToolInv, ResultsAreScores, VerdictIsCompared
    <3> HIDE DEF Results
    <3> QED BY <3>1
  <2>2. Lost(a, b, c) = {} /\ Added(a, b, c) = {} /\ notes = Scoped(a, c)
    BY <1>1 DEF ToolInv, VerdictIsCompared
  <2> HIDE DEF a, b, c
  <2>a. ASSUME NEW r \in Results, NEW j, Found(r, j) PROVE Outcome(r, j) = "TP"
    <3>1. PICK p \in r.pairs : p[2] = j BY <2>a DEF Found
    <3>2. r.pairs \in Matchings(r.truth, DOMAIN r.truth \ r.out, r.found, DOMAIN r.found)
      BY <1>1, <2>a, ResultIsMatched
    <3>3. j \notin r.out BY <3>1, <3>2 DEF Matchings
    <3> QED BY <2>a, <3>3 DEF Outcome
  <2>3. ASSUME NEW j \in DOMAIN truth, Found(a, j), Found(b, j) PROVE Found(c, j) \/ j \in notes
    <3>1. Outcome(a, j) = "TP" /\ Outcome(b, j) = "TP"
      <4> HIDE DEF Results
      <4> QED BY <2>1, <2>3, <2>a
    <3>2. CASE Outcome(c, j) = "out of scope" BY <2>2, <3>1, <3>2 DEF Scoped
    <3>3. CASE Outcome(c, j) = "TP" BY <3>3 DEF Outcome
    <3>4. CASE Outcome(c, j) = "FN" BY <2>2, <3>1, <3>4 DEF Lost
    <3> QED BY <3>2, <3>3, <3>4 DEF Outcome
  <2>4. IsFiniteSet(FalsePositives(c)) /\ IsFiniteSet(T)
    <3>1. IsFiniteSet(DOMAIN c.found) /\ IsFiniteSet(DOMAIN a.found) BY <1>1, <2>1, ResultIsMatched
    <3> QED BY <3>1, FS_Difference DEF FalsePositives
  <2> DEFINE F     == FalsePositives(c)
             pairs == Match(At(a, T), T, At(c, F), F)
  <2>5. pairs \in Matchings(At(a, T), T, At(c, F), F)
    <3> HIDE DEF T
    <3> QED BY <2>4, MatchIsLargest
  <2>6. \A i \in S : \E p \in pairs : p[1] = i BY <2>2 DEF Added
  <2>7. pairs \subseteq FalsePositives(c) \X T BY <2>5 DEF Matchings
  <2>8. \A p, q \in pairs : p # q => p[2] # q[2] BY <2>5 DEF Matchings
  <2> HIDE DEF pairs, S, T
  <2> DEFINE of == [i \in S |-> CHOOSE p \in pairs : p[1] = i]
             g  == [i \in S |-> of[i][2]]
  <2>9. \A i \in S : of[i] \in pairs /\ of[i][1] = i BY <2>6
  <2> HIDE DEF of
  <2>10. g \in [S -> T] BY <2>7, <2>9
  <2>11. \A i, k \in S : g[i] = g[k] => i = k BY <2>8, <2>9
  <2>12. g \in Injection(S, T)
    <3> HIDE DEF g
    <3> QED BY <2>10, <2>11 DEF Injection, IsInjective
  <2>13. Cardinality(S) <= Cardinality(T) BY <2>4, <2>12, FS_Injection
  <2> QED BY <2>3, <2>13 DEF PassIsNoWorse, S, T, a, b, c
<1> QED BY <1>1, ToolInductive, PTL

(* refuse_move refuses a move exactly when it would spoil the baseline or  *)
(* show in no frame the Run looks at, for every frame rate, stride and     *)
(* time.                                                                   *)
THEOREM MovesReach == ToolSpec => []MoveReaches
<1>1. ASSUME ToolInv PROVE MoveReaches
  <2> SUFFICES ASSUME phase = "moving" PROVE MoveReaches BY DEF MoveReaches
  <2>1. PICK at \in Start..End, stride \in Strides :
            move = [at |-> at, stride |-> stride, refused |-> RefuseMove(at, stride)]
    BY <1>1 DEF ToolInv, MoveIsJudged
  <2>2. move.at = at /\ move.stride = stride /\ move.refused = RefuseMove(at, stride) BY <2>1
  <2> QED BY <2>2, MoveJudged DEF MoveReaches
<1> QED BY <1>1, ToolInductive, PTL

=============================================================================
