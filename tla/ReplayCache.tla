---------------------------- MODULE ReplayCache ----------------------------
(***************************************************************************)
(* The backend's replay copies: services/recordings.py with the requests   *)
(* of routers/recordings.py that play them, the deletion of a Session that *)
(* removes them, and the camera sync loop that cleans them up.  A part of  *)
(* a Session's recording is fetched once into a file; a part's lock keeps  *)
(* its download and its deletion apart, a mark keeps what is being played  *)
(* from being pruned.                                                      *)
(***************************************************************************)
EXTENDS Integers, FiniteSets

CONSTANTS
    Part,          \* the parts the Sessions' recordings are offered in
    Session,       \* the Sessions they are of
    Player,        \* the threads that handle a player's requests
    Deleter,       \* the thread that handles the deletion of a Session
    Cleaner,       \* the camera sync thread, that cleans the cache
    Entry,         \* the [Lock, users] lists _locks can hold
    NoPart, NoSession, NoThread, NoEntry,
    Owner,         \* which Session recorded a part
    Budget,        \* replay_cache_max_gb, in parts
    Scenarios      \* the sets of what may go wrong together: "crash", "slow"

Thread == Player \cup {Deleter, Cleaner}

ASSUME OwnerAssumption == Owner \in [Part -> Session]
ASSUME ThreadAssumption ==
    Deleter \notin Player /\ Cleaner \notin Player /\ Deleter # Cleaner /\ NoThread \notin Thread
ASSUME NoneAssumption == NoPart \notin Part /\ NoSession \notin Session /\ NoEntry \notin Entry
ASSUME BudgetAssumption == Budget \in Nat
ASSUME ScenariosAssumption == Scenarios \subseteq SUBSET {"crash", "slow"}

VARIABLES
    exists,        \* the Sessions in the database
    copies,        \* the parts with a finished copy
    partial,       \* the parts with a half-written one
    old,           \* the parts recorded over a day ago
    inUse,         \* the parts whose mark in _in_use has not run out
    locks,         \* _locks: each part's entry, while someone uses it
    users,         \* how many threads use an entry
    holder,        \* who holds its Lock
    pc,            \* where each thread is
    part,          \* the part it works on
    mine,          \* the entry it took
    attempt,       \* the attempts it has made, of two
    answer,        \* its last answer
    expired, kept, total,  \* what its pruning found, and the total it works with
    deleting,      \* the Session whose video is being deleted
    looked,        \* the parts that were locked when the deletion looked
    todo,          \* the parts whose copies it has left to delete
    interrupted,   \* the Sessions whose deletion a crash cut short
    scenario       \* what may go wrong, the same from beginning to end

files == <<copies, partial>>
times == <<old, scenario>>
registry == <<locks, users, holder>>
pruning == <<expired, kept, total>>
deletion == <<deleting, looked, todo, interrupted>>
vars == <<exists, files, times, inUse, registry, pc, part, mine, attempt, answer, pruning, deletion>>

PlayerSteps == {"enter", "wait", "check", "mark", "look", "prune", "fetch", "download",
                "rescan", "prune again", "leave", "serve"}

(* What each variable holds: files, locks and threads stay within what the  *)
(* code can make of them, and no entry has fewer users than none.          *)
TypeOK ==
    /\ exists \subseteq Session /\ scenario \in Scenarios
    /\ copies \subseteq Part /\ partial \subseteq Part /\ old \subseteq Part /\ inUse \subseteq Part
    /\ locks \in [Part -> Entry \cup {NoEntry}]
    /\ users \in [Entry -> Nat] /\ holder \in [Entry -> Thread \cup {NoThread}]
    /\ pc \in [Thread -> PlayerSteps \cup {"idle", "look up", "list", "next", "unlink"}]
    /\ part \in [Thread -> Part \cup {NoPart}] /\ mine \in [Thread -> Entry \cup {NoEntry}]
    /\ attempt \in [Player -> 0..2]
    /\ answer \in [Player -> {"none", "file", "withdrawn", "unavailable", "lost"}]
    /\ expired \in [Thread -> SUBSET Part] /\ kept \in [Thread -> SUBSET Part]
    /\ total \in [Thread -> Nat]
    /\ deleting \in Session \cup {NoSession} /\ looked \subseteq Part /\ todo \subseteq Part
    /\ interrupted \subseteq Session

Init ==
    /\ scenario \in Scenarios
    /\ exists = Session /\ copies = {} /\ partial = {} /\ old = {} /\ inUse = {}
    /\ locks = [p \in Part |-> NoEntry] /\ users = [e \in Entry |-> 0]
    /\ holder = [e \in Entry |-> NoThread]
    /\ pc = [t \in Thread |-> "idle"] /\ part = [t \in Thread |-> NoPart]
    /\ mine = [t \in Thread |-> NoEntry]
    /\ attempt = [t \in Player |-> 0] /\ answer = [t \in Player |-> "none"]
    /\ expired = [t \in Thread |-> {}] /\ kept = [t \in Thread |-> {}]
    /\ total = [t \in Thread |-> 0]
    /\ deleting = NoSession /\ looked = {} /\ todo = {} /\ interrupted = {}

Goto(t, label) == pc' = [pc EXCEPT ![t] = label]

-----------------------------------------------------------------------------
(* _part_lock.  An entry that _locks no longer has, and nobody took, is    *)
(* free to stand for a new one; which of them does is immaterial.          *)
Unused(e) ==
    /\ \A p \in Part : locks[p] # e
    /\ \A t \in Thread : mine[t] # e

Enters(t) ==
    /\ pc[t] = "enter"
    /\ \E e \in Entry :
        /\ IF locks[part[t]] # NoEntry THEN e = locks[part[t]]
           ELSE Unused(e) /\ e = CHOOSE f \in Entry : Unused(f)
        /\ locks' = [locks EXCEPT ![part[t]] = e]
        /\ users' = [users EXCEPT ![e] = users[e] + 1]
        /\ mine' = [mine EXCEPT ![t] = e]
    /\ Goto(t, "wait")
    /\ UNCHANGED <<exists, files, times, inUse, holder, part, attempt, answer, pruning, deletion>>

Acquires(t) ==
    /\ pc[t] = "wait" /\ holder[mine[t]] = NoThread
    /\ holder' = [holder EXCEPT ![mine[t]] = t]
    /\ Goto(t, IF t = Deleter THEN "unlink" ELSE "check")
    /\ UNCHANGED <<exists, files, times, inUse, locks, users, part, mine, attempt, answer,
                   pruning, deletion>>

(* The entry is dropped when its last user leaves. *)
LeftBy(t) ==
    /\ users' = [users EXCEPT ![mine[t]] = users[mine[t]] - 1]
    /\ locks' = IF users[mine[t]] = 1 /\ locks[part[t]] = mine[t]
                THEN [locks EXCEPT ![part[t]] = NoEntry] ELSE locks

(* The lock is released; the deletion goes on to its next copy, a request  *)
(* serves its file or is answered.                                         *)
Leaves(t) ==
    /\ pc[t] = "leave"
    /\ holder' = [holder EXCEPT ![mine[t]] = NoThread]
    /\ LeftBy(t)
    /\ mine' = [mine EXCEPT ![t] = NoEntry]
    /\ \/ /\ t = Deleter /\ Goto(t, "next")
          /\ part' = [part EXCEPT ![t] = NoPart] /\ UNCHANGED attempt
       \/ t # Deleter /\ answer[t] = "none" /\ Goto(t, "serve") /\ UNCHANGED <<part, attempt>>
       \/ /\ t # Deleter /\ answer[t] # "none" /\ Goto(t, "idle")
          /\ part' = [part EXCEPT ![t] = NoPart] /\ attempt' = [attempt EXCEPT ![t] = 0]
    /\ UNCHANGED <<exists, files, times, inUse, answer, pruning, deletion>>

-----------------------------------------------------------------------------
(* recording_video: the part is one the Session lists, and the request's   *)
(* database connection is given back before the part is asked for.         *)
Asks(t, p) ==
    /\ pc[t] = "idle" /\ Owner[p] \in exists
    /\ part' = [part EXCEPT ![t] = p] /\ attempt' = [attempt EXCEPT ![t] = 1]
    /\ answer' = [answer EXCEPT ![t] = "none"] /\ Goto(t, "enter")
    /\ UNCHANGED <<exists, files, times, inUse, registry, mine, pruning, deletion>>

(* Mutant: what was allowed when the request came is allowed. *)
ChecksNothing(t) ==
    /\ pc[t] = "check" /\ Goto(t, "mark")
    /\ UNCHANGED <<exists, files, times, inUse, registry, part, mine, attempt, answer, pruning, deletion>>

(* still_allowed *)
Checks(t) ==
    /\ pc[t] = "check"
    /\ \/ Owner[part[t]] \in exists /\ Goto(t, "mark") /\ UNCHANGED answer
       \/ /\ Owner[part[t]] \notin exists /\ Goto(t, "leave")
          /\ answer' = [answer EXCEPT ![t] = "withdrawn"]
    /\ UNCHANGED <<exists, files, times, inUse, registry, part, mine, attempt, pruning, deletion>>

(* Mutant: the copy is not marked. *)
MarksNothing(t) ==
    /\ pc[t] = "mark" /\ Goto(t, "look")
    /\ UNCHANGED <<exists, files, times, inUse, registry, part, mine, attempt, answer, pruning, deletion>>

(* _mark_in_use, before the copy is looked for *)
Marks(t) ==
    /\ pc[t] = "mark" /\ Goto(t, "look") /\ inUse' = inUse \cup {part[t]}
    /\ UNCHANGED <<exists, files, times, registry, part, mine, attempt, answer, pruning, deletion>>

(* What _prune_cache reads of the folder. *)
Scanned(t) ==
    /\ expired' = [expired EXCEPT ![t] = copies \cap old]
    /\ kept' = [kept EXCEPT ![t] = copies \ old]
    /\ total' = [total EXCEPT ![t] = Cardinality(copies \ old)]

Looks(t) ==
    /\ pc[t] = "look"
    /\ \/ part[t] \in copies /\ Goto(t, "leave") /\ UNCHANGED pruning
       \/ part[t] \notin copies /\ Goto(t, "prune") /\ Scanned(t)
    /\ UNCHANGED <<exists, files, times, inUse, registry, part, mine, attempt, answer, deletion>>

(* open_recording: the download begins, unless MediaMTX does not answer. *)
Fetches(t) ==
    /\ pc[t] = "fetch"
    /\ \/ /\ partial' = partial \cup {part[t]} /\ Goto(t, "download") /\ UNCHANGED answer
       \/ /\ Goto(t, "leave") /\ answer' = [answer EXCEPT ![t] = "unavailable"]
          /\ UNCHANGED partial
    /\ UNCHANGED <<exists, copies, times, inUse, registry, part, mine, attempt, pruning, deletion>>

(* Mutant: a failed download leaves without giving up the part's lock. *)
DownloadsThrow(t) ==
    /\ pc[t] = "download" /\ partial' = partial \ {part[t]}
    /\ \/ /\ part[t] \in partial /\ copies' = copies \cup {part[t]}
          /\ Goto(t, "rescan") /\ UNCHANGED answer
       \/ /\ Goto(t, "idle") /\ answer' = [answer EXCEPT ![t] = "unavailable"]
          /\ UNCHANGED copies
       \/ part[t] \notin partial /\ Goto(t, "leave") /\ UNCHANGED <<copies, answer>>
    /\ UNCHANGED <<exists, times, inUse, registry, part, mine, attempt, pruning, deletion>>

(* The download is complete and takes its name, or fails and is removed.   *)
Downloads(t) ==
    /\ pc[t] = "download" /\ partial' = partial \ {part[t]}
    /\ \/ /\ part[t] \in partial /\ copies' = copies \cup {part[t]}
          /\ Goto(t, "rescan") /\ UNCHANGED answer
       \/ /\ Goto(t, "leave") /\ answer' = [answer EXCEPT ![t] = "unavailable"]
          /\ UNCHANGED copies
       \/ part[t] \notin partial /\ Goto(t, "leave") /\ UNCHANGED <<copies, answer>>
    /\ UNCHANGED <<exists, times, inUse, registry, part, mine, attempt, pruning, deletion>>

(* The limit is kept with the new copy in. *)
Rescans(t) ==
    /\ pc[t] = "rescan" /\ Goto(t, "prune again") /\ Scanned(t)
    /\ UNCHANGED <<exists, files, times, inUse, registry, part, mine, attempt, answer, deletion>>

(* file_response: one more fetch is allowed when the file is gone. *)
Serves(t) ==
    /\ pc[t] = "serve"
    /\ \/ /\ part[t] \in copies \/ attempt[t] = 2
          /\ answer' = [answer EXCEPT ![t] = IF part[t] \in copies THEN "file" ELSE "lost"]
          /\ attempt' = [attempt EXCEPT ![t] = 0] /\ part' = [part EXCEPT ![t] = NoPart]
          /\ Goto(t, "idle")
       \/ /\ part[t] \notin copies /\ attempt[t] = 1
          /\ attempt' = [attempt EXCEPT ![t] = 2] /\ Goto(t, "enter") /\ UNCHANGED <<part, answer>>
    /\ UNCHANGED <<exists, files, times, inUse, registry, mine, pruning, deletion>>

-----------------------------------------------------------------------------
(* The steps of _prune_cache, in whichever thread it runs. *)
Prunes(t) == pc[t] \in {"prune", "prune again"}

(* _unlink_unless_in_use *)
UnlinkedUnlessInUse(p) == copies' = IF p \in inUse THEN copies ELSE copies \ {p}

PrunesExpired(t) ==
    /\ Prunes(t)
    /\ \E p \in expired[t] :
        /\ UnlinkedUnlessInUse(p)
        /\ expired' = [expired EXCEPT ![t] = expired[t] \ {p}]
    /\ UNCHANGED <<exists, partial, times, inUse, registry, pc, part, mine, attempt, answer,
                   kept, total, deletion>>

(* The copies beyond the limit; the order they were last played in is not  *)
(* kept.                                                                   *)
PrunesOverLimit(t) ==
    /\ Prunes(t) /\ expired[t] = {} /\ total[t] > Budget
    /\ \E p \in kept[t] :
        /\ UnlinkedUnlessInUse(p)
        /\ kept' = [kept EXCEPT ![t] = kept[t] \ {p}]
        /\ total' = [total EXCEPT ![t] = IF p \in inUse THEN total[t] ELSE total[t] - 1]
    /\ UNCHANGED <<exists, partial, times, inUse, registry, pc, part, mine, attempt, answer,
                   expired, deletion>>

EndsPruning(t) ==
    /\ Prunes(t) /\ expired[t] = {} /\ (total[t] <= Budget \/ kept[t] = {})
    /\ kept' = [kept EXCEPT ![t] = {}] /\ total' = [total EXCEPT ![t] = 0]
    /\ Goto(t, IF t = Cleaner THEN "idle" ELSE IF pc[t] = "prune" THEN "fetch" ELSE "leave")
    /\ UNCHANGED <<exists, files, times, inUse, registry, part, mine, attempt, answer, expired, deletion>>

(* clean_cache *)
Cleans ==
    /\ pc[Cleaner] = "idle" /\ Scanned(Cleaner) /\ Goto(Cleaner, "prune")
    /\ UNCHANGED <<exists, files, times, inUse, registry, part, mine, attempt, answer, deletion>>

(* A .part file nothing has written to for an hour is abandoned. *)
Abandoned(p) == \A t \in Thread : part[t] = p => pc[t] # "download" \/ "slow" \in scenario

PrunesAbandoned(t) ==
    /\ Prunes(t)
    /\ \E p \in partial : Abandoned(p) /\ partial' = partial \ {p}
    /\ UNCHANGED <<exists, copies, times, inUse, registry, pc, part, mine, attempt, answer,
                   pruning, deletion>>

-----------------------------------------------------------------------------
(* DELETE /sessions/{id}: the deletion commits, then delete_session_video. *)
Deletes(s) ==
    /\ pc[Deleter] = "idle" /\ s \in exists
    /\ exists' = exists \ {s} /\ deleting' = s /\ Goto(Deleter, "look up")
    /\ UNCHANGED <<files, times, inUse, registry, part, mine, attempt, answer, pruning,
                   looked, todo, interrupted>>

(* The parts in use are read before the folder: a download that is in      *)
(* neither list has seen the deletion.                                     *)
LooksUp ==
    /\ pc[Deleter] = "look up" /\ looked' = {p \in Part : locks[p] # NoEntry}
    /\ Goto(Deleter, "list")
    /\ UNCHANGED <<exists, files, times, inUse, registry, part, mine, attempt, answer, pruning,
                   deleting, todo, interrupted>>

Lists ==
    /\ pc[Deleter] = "list"
    /\ todo' = {p \in looked \cup copies \cup partial : Owner[p] = deleting}
    /\ looked' = {} /\ Goto(Deleter, "next")
    /\ UNCHANGED <<exists, files, times, inUse, registry, part, mine, attempt, answer, pruning,
                   deleting, interrupted>>

TakesNext ==
    /\ pc[Deleter] = "next"
    /\ \/ \E p \in todo :
            /\ todo' = todo \ {p} /\ part' = [part EXCEPT ![Deleter] = p]
            /\ Goto(Deleter, "enter") /\ UNCHANGED deleting
       \/ /\ todo = {} /\ deleting' = NoSession /\ Goto(Deleter, "idle")
          /\ UNCHANGED <<todo, part>>
    /\ UNCHANGED <<exists, files, times, inUse, registry, mine, attempt, answer, pruning,
                   looked, interrupted>>

Unlinks ==
    /\ pc[Deleter] = "unlink"
    /\ copies' = copies \ {part[Deleter]} /\ partial' = partial \ {part[Deleter]}
    /\ Goto(Deleter, "leave")
    /\ UNCHANGED <<exists, times, inUse, registry, part, mine, attempt, answer, pruning, deletion>>

-----------------------------------------------------------------------------
(* A day passes since the part was recorded. *)
Ages(p) ==
    /\ p \notin old /\ old' = old \cup {p}
    /\ UNCHANGED <<scenario, exists, files, inUse, registry, pc, part, mine, attempt, answer, pruning, deletion>>

(* Fifteen minutes pass since the part was last asked for.  No request     *)
(* that marked it takes that long, unless its download does.               *)
Outlasted(p) ==
    \A t \in Player : part[t] = p =>
        pc[t] \in {"enter", "wait", "check", "mark"} \/ "slow" \in scenario

RunsOut(p) ==
    /\ p \in inUse /\ Outlasted(p) /\ inUse' = inUse \ {p}
    /\ UNCHANGED <<exists, files, times, registry, pc, part, mine, attempt, answer, pruning, deletion>>

(* The backend restarts: its files are all that is left. *)
Restarts ==
    /\ "crash" \in scenario
    /\ interrupted' = interrupted \cup ({deleting} \ {NoSession})
    /\ inUse' = {} /\ locks' = [p \in Part |-> NoEntry] /\ users' = [e \in Entry |-> 0]
    /\ holder' = [e \in Entry |-> NoThread]
    /\ pc' = [t \in Thread |-> "idle"] /\ part' = [t \in Thread |-> NoPart]
    /\ mine' = [t \in Thread |-> NoEntry]
    /\ attempt' = [t \in Player |-> 0] /\ answer' = [t \in Player |-> "none"]
    /\ expired' = [t \in Thread |-> {}] /\ kept' = [t \in Thread |-> {}]
    /\ total' = [t \in Thread |-> 0]
    /\ deleting' = NoSession /\ looked' = {} /\ todo' = {}
    /\ UNCHANGED <<exists, files, times>>

-----------------------------------------------------------------------------
Plays(t) ==
    Checks(t) \/ Marks(t) \/ Looks(t) \/ Fetches(t) \/ Downloads(t) \/ Rescans(t) \/ Serves(t)

PrunesOn(t) == PrunesExpired(t) \/ PrunesOverLimit(t) \/ EndsPruning(t) \/ PrunesAbandoned(t)

DeletesOn == LooksUp \/ Lists \/ TakesNext \/ Unlinks

Next ==
    \/ \E t \in Player, p \in Part : Asks(t, p)
    \/ \E t \in Player : Plays(t)
    \/ \E t \in Thread : Enters(t) \/ Acquires(t) \/ Leaves(t) \/ PrunesOn(t)
    \/ Cleans \/ DeletesOn
    \/ \E s \in Session : Deletes(s)
    \/ \E p \in Part : Ages(p) \/ RunsOut(p)
    \/ Restarts

Spec == Init /\ [][Next]_vars

(* Threads go on; the camera sync loop cleans every CACHE_CLEAN_INTERVAL_S.*)
FairSpec ==
    /\ Spec
    /\ \A t \in Player : WF_vars(Plays(t))
    /\ \A t \in Thread : WF_vars(Enters(t)) /\ WF_vars(Acquires(t)) /\ WF_vars(Leaves(t))
    /\ \A t \in Thread : WF_vars(PrunesOn(t))
    /\ WF_vars(Cleans) /\ WF_vars(DeletesOn)

-----------------------------------------------------------------------------
Inside(t) == mine[t] # NoEntry /\ holder[mine[t]] = t

(* A part is fetched, served and deleted by one thread at a time, although *)
(* its lock is made when it is asked for and dropped when it is not.       *)
OneAtATime == \A s, t \in Thread : Inside(s) /\ Inside(t) /\ part[s] = part[t] => s = t

(* Once a Session is deleted nothing of its video is left, nor comes back: *)
(* no request that was allowed before it leaves a copy behind.             *)
GoneOnceDeleted ==
    \A p \in Part : Owner[p] \notin exists \cup interrupted \cup {deleting} =>
        p \notin copies \cup partial

(* No player is told its recording is not available because the cache was  *)
(* cleaned: what it asked for stays until it is served, unless a download  *)
(* outlasts the mark that keeps it.                                        *)
NeverLost == "slow" \notin scenario => \A t \in Player : answer[t] # "lost"

(* Deleting a Session ends, although it waits for downloads of its parts.  *)
DeletionEnds == deleting # NoSession ~> deleting = NoSession

=============================================================================
