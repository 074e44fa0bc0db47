------------------------------ MODULE Scoring ------------------------------
(***************************************************************************)
(* The tools that measure the vision pipeline: evaluate.py derives the     *)
(* truth of a recording from photographs before and after it and scores a  *)
(* Run against it, and regression.py rules on two scored results.          *)
(* Positions are points of a line, in template px; a list of marks is kept *)
(* from left to right.  The registration of a photograph is an offset.     *)
(***************************************************************************)
EXTENDS Integers, Sequences, FiniteSets, FiniteSetsExt

CONSTANTS
    Position,     \* an interval of positions
    Sheets,       \* positions within some Target Sheet's bound
    Placement,    \* how differently Runs' own baseline frames place one truth
    MaxMarks,     \* bound: marks of a list
    StartMarks,   \* the marks the Run found on the Board at its start
    Offset,       \* how wrong a photograph's registration may be
    Tolerance,    \* MATCH_TOLERANCE_TPL
    MinRefitPairs, MoveMax, ErrorLimit,   \* MIN_REFIT_PAIRS, MOVE_MM, LIMIT_MM
    Fps, BaselineFrames, Strides, Start, End    \* a Recording's and a Run's, times in 0.01 s

ASSUME ScoringAssumption ==
    /\ Position \subseteq Int /\ Placement \subseteq Int /\ Offset \subseteq Int
    /\ MaxMarks \in Nat /\ Tolerance \in Nat /\ Fps \in Nat \ {0} /\ Strides \subseteq Nat \ {0}
    /\ BaselineFrames \in Nat /\ Start \in Nat /\ End \in Nat

VARIABLES
    phase,
    export,      \* the after export's lines
    preLines,    \* pre-existing-export-lines, in board.source.txt
    derived,     \* board.new.txt: the after export's lines that are new
    unpaired,    \* before-marks-without-a-counterpart, in it too
    grown,       \* how many more marks the after export has than the before one
    truth,       \* the truth as loaded, and the pre-existing marks beside it
    preTruth,
    scored,      \* the results of the bench, by name
    causes,      \* the attribution of the last scored Run's false positives
    verdict,
    notes,       \* what compare reports of the truth's scope, and does not fail
    move

toolVars == <<phase, export, preLines, derived, unpaired, grown, truth, preTruth, scored, causes,
              verdict, notes, move>>

Marks == {s \in UNION {[1..n -> Position] : n \in 0..MaxMarks} :
              \A i \in 1..Len(s) - 1 : s[i] <= s[i + 1]}

Distance(a, b) == IF a < b THEN b - a ELSE a - b
Near(a, b) == Distance(a, b) <= Tolerance
PlacesOf(s, idx) == {s[i] : i \in idx}

ToolInit ==
    /\ phase = "start" /\ export = <<>> /\ preLines = {} /\ derived = <<>>
    /\ unpaired = 0 /\ grown = 0
    /\ truth = <<>> /\ preTruth = {} /\ scored = <<>> /\ causes = {}
    /\ verdict = "none" /\ notes = {} /\ move = [at |-> 0, stride |-> 1, refused |-> FALSE]

-----------------------------------------------------------------------------
(* Mutant: two marks may pair with one label. *)
MatchingsShared(t, labels, f, dets) ==
    {ps \in SUBSET {e \in dets \X labels : Near(f[e[1]], t[e[2]])} :
        \A a, b \in ps : a # b => a[1] # b[1]}

(* match, of the marks of `labels` and `dets`, as pairs <<det, label>>: as *)
(* many pairs within reach as there can be, and of those the nearest.      *)
Matchings(t, labels, f, dets) ==
    {ps \in SUBSET {e \in dets \X labels : Near(f[e[1]], t[e[2]])} :
        \A a, b \in ps : a # b => a[1] # b[1] /\ a[2] # b[2]}

(* The sum of their distances: a step counts for each px between a pair. *)
TotalDistance(t, f, ps) ==
    Cardinality({s \in ps \X (1..Tolerance) : s[2] <= Distance(f[s[1][1]], t[s[1][2]])})

Match(t, labels, f, dets) ==
    LET all  == Matchings(t, labels, f, dets)
        most == Max({Cardinality(ps) : ps \in all})
        full == {ps \in all : Cardinality(ps) = most}
    IN  CHOOSE ps \in full : \A qs \in full : TotalDistance(t, f, ps) <= TotalDistance(t, f, qs)

MatchAll(t, f) == Match(t, DOMAIN t, f, DOMAIN f)

(* refit_on_matched_marks: the fit may find any offset, or be refused.     *)
(* `fit` is the set of the offset found.                                   *)
Refits(pairs) == {{}} \cup IF Cardinality(pairs) < MinRefitPairs THEN {} ELSE {{d} : d \in Offset}

KeepRefit(pairs, refit) == Cardinality(refit) > Cardinality(pairs) \/ refit = pairs

Shifted(s, d) == [i \in DOMAIN s |-> s[i] + d]

(* derive_new_holes and write_derived: the after labels minus those that   *)
(* pair with one before, by the first registration or the refit, and how   *)
(* many of those before found no pair.                                     *)
Derive(before, after, off, fit) ==
    LET pairs == MatchAll(Shifted(before, off), after)
        again == UNION {MatchAll(Shifted(before, d), after) : d \in fit}
        kept  == IF fit # {} /\ KeepRefit(pairs, again) THEN again ELSE pairs
        pre   == {p[1] : p \in kept}
    IN  /\ phase = "start" /\ fit \in Refits(pairs) /\ phase' = "derived"
        /\ export' = after /\ preLines' = pre
        /\ derived' = [i \in DOMAIN after \ pre |-> after[i]]
        /\ unpaired' = Cardinality(DOMAIN before \ {p[2] : p \in kept})
        /\ grown' = Len(after) - Len(before)
        /\ UNCHANGED <<truth, preTruth, scored, causes, verdict, notes, move>>

(* read_export: a damaged line is refused, and nothing is written. *)
RefuseExport ==
    /\ phase = "start" /\ phase' = "refused"
    /\ UNCHANGED <<export, preLines, derived, unpaired, grown, truth, preTruth, scored, causes,
                   verdict, notes, move>>

(* Someone corrects a label of the derived file by hand. *)
Correct(i, p) ==
    /\ phase = "derived" /\ i \in DOMAIN derived /\ phase' = "corrected"
    /\ derived' = [derived EXCEPT ![i] = p]
    /\ UNCHANGED <<export, preLines, unpaired, grown, truth, preTruth, scored, causes, verdict,
                   notes, move>>

(* pre_existing_labels: the export's lines by the numbers recorded. *)
PreExisting == PlacesOf(export, preLines)

(* load_truth: the derived file wins over the raw exports beside it, and   *)
(* `unpaired` is warned of.                                                *)
LoadTruth ==
    /\ phase \in {"derived", "corrected"} /\ phase' = "loaded"
    /\ truth' = derived /\ preTruth' = PreExisting
    /\ export' = <<>> /\ preLines' = {} /\ derived' = <<>>
    /\ UNCHANGED <<unpaired, grown, scored, causes, verdict, notes, move>>

-----------------------------------------------------------------------------
(* off_sheet, of a truth as a Run places it. *)
OutOfScope(t) == {j \in DOMAIN t : t[j] \notin Sheets}

(* truth_in_template and score: the truth is placed through the Run's own  *)
(* baseline frame, off by d, and what of it is out of scope is matched     *)
(* against the detections left over.                                       *)
Score(found, d) ==
    LET placed == Shifted(truth, d)
        out    == OutOfScope(placed)
        pairs  == Match(placed, DOMAIN placed \ out, found, DOMAIN found)
        left   == DOMAIN found \ {p[1] : p \in pairs}
    IN  [truth |-> placed, out |-> out, found |-> found, pairs |-> pairs,
         outside |-> Match(placed, out, found, left)]

Claimed(r) == {p[1] : p \in r.pairs \cup r.outside}
FalsePositives(r) == DOMAIN r.found \ Claimed(r)
Found(r, j) == \E p \in r.pairs : p[2] = j
Outcome(r, j) == IF j \in r.out THEN "out of scope" ELSE IF Found(r, j) THEN "TP" ELSE "FN"

(* attribute: by the nearest Baseline Mark. *)
Attribute(r) ==
    {<<i, IF \E b \in StartMarks : Near(r.found[i], b) THEN "displacement"
          ELSE IF \A b \in StartMarks : Distance(r.found[i], b) > 2 * Tolerance THEN "detector"
          ELSE "unknown">> : i \in FalsePositives(r)}

Bench == <<"reference", "shifted", "new">>

(* score_recording, for the next result of the bench: the reference, the   *)
(* reference with its canvas shifted, and the new one.                     *)
ScoreRun(found, d) ==
    LET r == Score(found, d)
        n == Len(scored) + 1
    IN  /\ phase = "loaded" /\ n <= Len(Bench)
        /\ scored' = Append(scored, r)
        /\ causes' = Attribute(r) /\ preTruth' = {} /\ unpaired' = 0 /\ grown' = 0
        /\ UNCHANGED <<phase, export, preLines, derived, truth, verdict, notes, move>>

Error(r, j) == LET p == CHOOSE p \in r.pairs : p[2] = j IN r.found[p[1]] - r.truth[j]
Moved(a, b, j) == Distance(Error(a, j), Error(b, j)) > MoveMax
OverLimit(r, j) == Distance(Error(r, j), 0) >= ErrorLimit
At(r, idx) == [i \in idx |-> r.found[i]]

(* Truth in one's scope and not in the other's is noted, and not ruled on. *)
Scoped(ref, new) ==
    {j \in DOMAIN truth : /\ "out of scope" \in {Outcome(ref, j), Outcome(new, j)}
                          /\ Outcome(ref, j) # Outcome(new, j)}

(* compare's failing findings, those the shifted reference shows left out. *)
Lost(ref, shifted, new) ==
    {j \in DOMAIN truth : /\ Outcome(ref, j) = "TP" /\ Outcome(new, j) = "FN"
                          /\ Outcome(shifted, j) = "TP"}

Displaced(ref, shifted, new) ==
    {j \in DOMAIN truth : Outcome(ref, j) = "TP" /\ Outcome(new, j) = "TP" /\
        \/ Moved(ref, new, j) /\ ~(Outcome(shifted, j) = "TP" /\ Moved(ref, shifted, j))
        \/ OverLimit(new, j) /\ ~(Outcome(shifted, j) = "TP" /\ OverLimit(shifted, j))}

(* Mutant: any false positive of the reference near by will do. *)
AddedUnpaired(ref, shifted, new) ==
    {i \in FalsePositives(new) :
        \A r \in {ref, shifted} : \A k \in FalsePositives(r) : ~Near(new.found[i], r.found[k])}

Added(ref, shifted, new) ==
    LET pairs == Match(At(ref, FalsePositives(ref)), FalsePositives(ref),
                       At(new, FalsePositives(new)), FalsePositives(new))
    IN  {i \in FalsePositives(new) \ {p[1] : p \in pairs} :
            \A k \in FalsePositives(shifted) : ~Near(new.found[i], shifted.found[k])}

(* Results at two strides are compared only across strides, from stride 1. *)
Comparable(was, now, across) == was = now \/ (across /\ was = 1)

(* compare, of results run at the strides `was` and `now`. *)
Compare(was, now, across) ==
    /\ phase = "loaded" /\ Len(scored) = Len(Bench) /\ phase' = "ruled"
    /\ LET a == scored[1]  b == scored[2]  c == scored[3]
       IN  /\ verdict' = IF /\ Comparable(was, now, across) /\ Lost(a, b, c) = {}
                             /\ Displaced(a, b, c) = {} /\ Added(a, b, c) = {}
                          THEN "pass" ELSE "fail"
           /\ notes' = IF Comparable(was, now, across) THEN Scoped(a, c) ELSE {}
    /\ UNCHANGED <<export, preLines, derived, unpaired, grown, truth, preTruth, scored, causes,
                   move>>

-----------------------------------------------------------------------------
(* A frame's time as printed, to 0.01 s, and the frames before the end.    *)
Printed(i) == Start + (200 * i + Fps) \div (2 * Fps)
FramesUntilEnd == ((End - Start) * Fps) \div 100

(* first_moved_index: stepped up from 0.01 s before `at`. *)
FirstMoved(at) ==
    LET low == Max({0, ((at - Start - 1) * Fps) \div 100})
    IN  Min({i \in low..low + Fps : Printed(i) >= at})

(* The first Look at or past a frame: rounded up to the stride. *)
FirstLook(first, stride) == ((first + stride - 1) \div stride) * stride

(* As process counts them. *)
BaselineCount == Max({1, BaselineFrames})

(* Mutant: rounded down. *)
RefuseMoveEarly(at, stride) ==
    FirstMoved(at) < BaselineCount \/ (FirstMoved(at) \div stride) * stride >= FramesUntilEnd

(* refuse_move: inside the baseline, or past the last Look. *)
RefuseMove(at, stride) ==
    FirstMoved(at) < BaselineCount \/ FirstLook(FirstMoved(at), stride) >= FramesUntilEnd

(* A move of some pixel. *)
MoveBoard(at, stride) ==
    /\ phase = "start" /\ phase' = "moving"
    /\ move' = [at |-> at, stride |-> stride, refused |-> RefuseMove(at, stride)]
    /\ UNCHANGED <<export, preLines, derived, unpaired, grown, truth, preTruth, scored, causes,
                   verdict, notes>>

Done == phase \in {"refused", "ruled", "moving"} /\ UNCHANGED toolVars

ToolNext ==
    \/ \E before, after \in Marks, off \in Offset, fit \in {{}} \cup {{d} : d \in Offset} :
          Derive(before, after, off, fit)
    \/ RefuseExport \/ LoadTruth
    \/ \E i \in 1..MaxMarks, p \in Position : Correct(i, p)
    \/ \E found \in Marks, d \in Placement : ScoreRun(found, d)
    \/ \E was, now \in Strides, across \in BOOLEAN : Compare(was, now, across)
    \/ \E at \in Start..End, stride \in Strides : MoveBoard(at, stride)
    \/ Done

ToolSpec == ToolInit /\ [][ToolNext]_toolVars

-----------------------------------------------------------------------------
(* How far a derived truth can be trusted: it holds as many labels as the  *)
(* Board gained, and beyond those exactly as many as before-marks found no *)
(* pair, which is what the warning says recall is understated by, whatever *)
(* the registration or the refit paired (derive_new_holes, load_truth).    *)
UnpairedIsTold ==
    phase = "loaded" /\ scored = <<>> => Cardinality(DOMAIN truth) = grown + unpaired

(* A change the bench passes is no worse than the reference: what the      *)
(* reference finds, shifted too, the change finds, or the loss is noted as *)
(* a change of scope; and it has no more false positives than the          *)
(* reference, but for those the shifted one shows (compare).               *)
PassIsNoWorse ==
    verdict = "pass" =>
        LET a == scored[1]  b == scored[2]  c == scored[3]
            noise == {i \in FalsePositives(c) :
                         \E k \in FalsePositives(b) : Near(c.found[i], b.found[k])}
        IN  /\ \A j \in DOMAIN truth : Found(a, j) /\ Found(b, j) => Found(c, j) \/ j \in notes
            /\ Cardinality(FalsePositives(c) \ noise) <= Cardinality(FalsePositives(a))

(* A move that is not refused moves no frame of the baseline and some      *)
(* frame the Run looks at, from the first frame printed at its time or     *)
(* later (first_moved_index, refuse_move).                                 *)
MoveReaches ==
    phase = "moving" =>
        LET moved == {i \in 0..FramesUntilEnd - 1 : Printed(i) >= move.at}
            looks == {i \in moved : i < BaselineCount \/ i % move.stride = 0}
        IN  move.refused <=> looks = {} \/ \E i \in moved : i < BaselineCount
=============================================================================
