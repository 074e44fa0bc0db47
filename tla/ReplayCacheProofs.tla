------------------------- MODULE ReplayCacheProofs -------------------------
(***************************************************************************)
(* Nothing of a deleted Session's video is left in the replay cache, a     *)
(* part is worked on by one thread at a time, and a copy stays until it is *)
(* served: for any number of parts, Sessions, players and entries, whether *)
(* or not the backend restarts.                                            *)
(*                                                                         *)
(* None is inductive.  That a part has one lock rests on an entry staying  *)
(* in _locks while anybody has taken it, and so on its count of users      *)
(* being right; that nothing comes back rests on every request that was    *)
(* still allowed being seen by the deletion, through its lock or through   *)
(* the file it left; that nothing is lost rests on the mark outlasting the *)
(* request, and on the lock keeping the deletion away until it is served.  *)
(***************************************************************************)
EXTENDS ReplayCache, FiniteSetTheorems, TLAPS

(* Where a request or the deletion has a part's lock. *)
Held == {"check", "mark", "look", "prune", "fetch", "download", "rescan", "prune again",
         "unlink", "leave"}

(* Where a request has been allowed, and may leave a copy. *)
Allowed == {"mark", "look", "prune", "fetch", "download", "rescan", "prune again"}

Locker == Thread \ {Cleaner}

Labels == PlayerSteps \cup {"idle", "look up", "list", "next", "unlink"}

WellFormed ==
    /\ pc \in [Thread -> Labels] /\ part \in [Thread -> Part \cup {NoPart}]
    /\ mine \in [Thread -> Entry \cup {NoEntry}]
    /\ locks \in [Part -> Entry \cup {NoEntry}]
    /\ holder \in [Entry -> Thread \cup {NoThread}] /\ users \in [Entry -> Int]
    /\ pc[Cleaner] \in {"idle", "prune"} /\ mine[Cleaner] = NoEntry
    /\ pc[Deleter] \in {"idle", "look up", "list", "next", "enter", "wait", "unlink", "leave"}
    /\ \A t \in Player : pc[t] \in PlayerSteps \cup {"idle"}
    /\ \A t \in Locker : pc[t] \in Held \cup {"enter", "wait", "serve"} => part[t] \in Part

(* The threads that have taken an entry. *)
UsersOf(e) == {t \in Thread : mine[t] = e}

(* A part's entry is the one its threads took, and counts them. *)
Locking ==
    /\ \A t \in Locker : mine[t] # NoEntry <=> pc[t] \in Held \cup {"wait"}
    /\ \A t \in Locker : mine[t] # NoEntry => locks[part[t]] = mine[t]
    /\ \A p, q \in Part : locks[p] = locks[q] /\ locks[p] # NoEntry => p = q
    /\ \A t \in Locker : pc[t] \in Held => holder[mine[t]] = t

Counted == \A e \in Entry : IsFiniteSet(UsersOf(e)) /\ users[e] = Cardinality(UsersOf(e))

LockInv == WellFormed /\ Locking /\ Counted

-----------------------------------------------------------------------------
NoRequest(p) == \A t \in Player : part[t] = p => pc[t] \notin Allowed

(* Nothing of a part is there, and no request will bring it back. *)
Clear(p) == p \notin copies \cup partial /\ NoRequest(p)

(* What the deletion under way has still to come to. *)
Awaited(p) ==
    /\ deleting = Owner[p]
    /\ \/ pc[Deleter] = "look up"
       \/ pc[Deleter] = "list" /\ (p \in looked \/ NoRequest(p))
       \/ pc[Deleter] \in {"next", "enter", "wait", "unlink", "leave"} /\ p \in todo
       \/ pc[Deleter] \in {"enter", "wait", "unlink"} /\ part[Deleter] = p

Gone == \A p \in Part : Owner[p] \notin exists \cup interrupted => Awaited(p) \/ Clear(p)

(* There are files of parts only, and only they are looked up. *)
FilesOK == copies \cup partial \cup looked \cup todo \subseteq Part

(* A deletion is of a Session that no longer exists, while it lasts. *)
Deleting ==
    /\ deleting = NoSession <=> pc[Deleter] = "idle"
    /\ exists \subseteq Session /\ interrupted \cap exists = {}
    /\ deleting \notin exists

IInv == LockInv /\ FilesOK /\ Gone /\ Deleting

-----------------------------------------------------------------------------
(* The initial states satisfy it: nobody has taken a lock. *)
LEMMA InitOK == Init => IInv
<1> SUFFICES ASSUME Init PROVE IInv OBVIOUS
<1>1. WellFormed
  <2>1. Player \subseteq Thread /\ Cleaner \in Thread /\ Deleter \in Thread
        /\ Locker \subseteq Thread
    BY DEF Thread, Locker
  <2>2. /\ pc \in [Thread -> Labels] /\ part \in [Thread -> Part \cup {NoPart}]
        /\ mine \in [Thread -> Entry \cup {NoEntry}]
        /\ locks \in [Part -> Entry \cup {NoEntry}]
        /\ holder \in [Entry -> Thread \cup {NoThread}] /\ users \in [Entry -> Int]
    BY DEF Init, Labels
  <2>3. \A t \in Thread : pc[t] = "idle" /\ mine[t] = NoEntry BY DEF Init
  <2> QED BY <2>1, <2>2, <2>3 DEF Init, WellFormed, Held
<1>2. Locking BY NoneAssumption DEF Init, Locking, Locker, Held
<1>3. Counted
  <2>1. \A e \in Entry : UsersOf(e) = {} BY NoneAssumption DEF Init, UsersOf
  <2> QED BY <2>1, FS_EmptySet DEF Init, Counted
<1>4. Gone BY OwnerAssumption DEF Init, Gone
<1>5. Deleting BY NoneAssumption, ThreadAssumption DEF Init, Deleting, Thread
<1>6. FilesOK BY DEF Init, FilesOK
<1> QED BY <1>1, <1>2, <1>3, <1>4, <1>5, <1>6 DEF IInv, LockInv

(* A part's lock keeps two threads apart. *)
LEMMA Exclusive ==
  ASSUME LockInv, NEW s \in Locker, NEW t \in Locker, part[s] = part[t],
         pc[s] \in Held, pc[t] \in Held
  PROVE  s = t
<1>1. mine[s] # NoEntry /\ mine[t] # NoEntry BY DEF LockInv, Locking
<1>2. mine[s] = mine[t] BY <1>1 DEF LockInv, Locking
<1> QED BY <1>2 DEF LockInv, Locking

-----------------------------------------------------------------------------
(* The locks.  Most steps take and release none. *)

DeleterSteps == {"idle", "look up", "list", "next", "enter", "wait", "unlink", "leave"}

(* The labels a thread may be at. *)
LabelsOf(t) == IF t = Cleaner THEN {"idle", "prune"}
               ELSE IF t = Deleter THEN DeleterSteps ELSE PlayerSteps \cup {"idle"}

LEMMA Threads ==
    /\ Cleaner \in Thread /\ Deleter \in Locker /\ Player \subseteq Locker /\ Locker \subseteq Thread
    /\ Cleaner \notin Locker /\ Deleter \notin Player
    /\ Locker = Player \cup {Deleter} /\ Thread = Locker \cup {Cleaner}
BY ThreadAssumption DEF Thread, Locker

LEMMA StandsStill ==
  ASSUME LockInv, UNCHANGED <<registry, mine, pc, part>>
  PROVE  LockInv'
<1>1. locks' = locks /\ users' = users /\ holder' = holder BY DEF registry
<1>2. WellFormed' BY <1>1 DEF LockInv, WellFormed
<1>3. Locking' BY <1>1 DEF LockInv, Locking
<1>4. Counted' BY <1>1 DEF LockInv, Counted, UsersOf
<1> QED BY <1>2, <1>3, <1>4 DEF LockInv

LEMMA Moves ==
  ASSUME LockInv, NEW t \in Thread, NEW label \in LabelsOf(t), Goto(t, label),
         UNCHANGED <<registry, mine>>,
         part' \in [Thread -> Part \cup {NoPart}],
         \A s \in Thread \ {t} : part'[s] = part[s],
         \/ t = Cleaner
         \/ pc[t] \in Held /\ label \in Held /\ part'[t] = part[t]
         \/ pc[t] \notin Held \cup {"wait"} /\ label \notin Held \cup {"wait"}
            /\ (label \in {"enter", "serve"} => part'[t] \in Part)
  PROVE  LockInv'
<1>1. locks' = locks /\ users' = users /\ holder' = holder /\ mine' = mine BY DEF registry
<1>2. pc \in [Thread -> Labels] /\ pc'[t] = label /\ \A s \in Thread \ {t} : pc'[s] = pc[s]
  BY DEF LockInv, WellFormed, Goto
<1>3. label \in Labels BY DEF LabelsOf, DeleterSteps, Labels, PlayerSteps
<1>4. WellFormed'
  <2>1. pc' \in [Thread -> Labels] BY <1>2, <1>3 DEF Goto
  <2>2. pc'[Cleaner] \in {"idle", "prune"}
    BY <1>2, Threads DEF LockInv, WellFormed, LabelsOf
  <2>3. pc'[Deleter] \in DeleterSteps
    BY <1>2, Threads DEF LockInv, WellFormed, LabelsOf, DeleterSteps
  <2>4. \A s \in Player : pc'[s] \in PlayerSteps \cup {"idle"}
    <3> TAKE s \in Player
    <3>1. s \in Thread /\ s # Cleaner /\ s # Deleter BY Threads
    <3>2. pc[s] \in PlayerSteps \cup {"idle"} BY DEF LockInv, WellFormed
    <3>3. CASE s = t BY <1>2, <3>1, <3>3 DEF LabelsOf
    <3>4. CASE s # t BY <1>2, <3>1, <3>2, <3>4
    <3> QED BY <3>3, <3>4
  <2>5. \A s \in Locker : pc'[s] \in Held \cup {"enter", "wait", "serve"} => part'[s] \in Part
    <3> TAKE s \in Locker
    <3>1. s \in Thread /\ s # Cleaner BY Threads
    <3>2. pc[s] \in Held \cup {"enter", "wait", "serve"} => part[s] \in Part
      BY DEF LockInv, WellFormed
    <3>3. CASE s = t BY <1>2, <3>1, <3>2, <3>3
    <3>4. CASE s # t BY <1>2, <3>1, <3>2, <3>4
    <3> QED BY <3>3, <3>4
  <2> QED
    BY <1>1, <2>1, <2>2, <2>3, <2>4, <2>5 DEF LockInv, WellFormed, DeleterSteps
<1>5. \A s \in Locker : /\ pc'[s] \in Held <=> pc[s] \in Held
                        /\ pc'[s] = "wait" <=> pc[s] = "wait"
                        /\ pc[s] \in Held \cup {"wait"} => part'[s] = part[s]
  BY <1>2, Threads DEF Held
<1>6. Locking' BY <1>1, <1>5 DEF LockInv, Locking
<1>7. Counted' BY <1>1 DEF LockInv, Counted, UsersOf
<1> QED BY <1>4, <1>6, <1>7 DEF LockInv

LEMMA LabelsOK ==
  ASSUME NEW t \in Thread
  PROVE  /\ t \in Player => LabelsOf(t) = PlayerSteps \cup {"idle"}
         /\ t = Deleter => LabelsOf(t) = DeleterSteps
         /\ t = Cleaner => LabelsOf(t) = {"idle", "prune"}
BY ThreadAssumption DEF LabelsOf

LEMMA PlayerMoves ==
  ASSUME LockInv, NEW t \in Player,
         Checks(t) \/ Marks(t) \/ Looks(t) \/ Fetches(t) \/ Downloads(t) \/ Rescans(t)
  PROVE  LockInv'
<1>1. PICK label \in Held \ {"unlink"} : Goto(t, label)
  BY DEF Checks, Marks, Looks, Fetches, Downloads, Rescans, Held
<1>2. pc[t] \in Held /\ UNCHANGED <<registry, mine, part>>
  BY DEF Checks, Marks, Looks, Fetches, Downloads, Rescans, Held, deletion
<1>3. t \in Thread /\ label \in LabelsOf(t)
  BY <1>1, Threads, LabelsOK DEF Held, PlayerSteps
<1> QED BY <1>1, <1>2, <1>3, Moves DEF LockInv, WellFormed

LEMMA AsksOK == ASSUME LockInv, NEW t \in Player, NEW p \in Part, Asks(t, p) PROVE LockInv'
<1>1. t \in Thread /\ "enter" \in LabelsOf(t) BY Threads, LabelsOK DEF PlayerSteps
<1>2. part' \in [Thread -> Part \cup {NoPart}] /\ part'[t] = p
      /\ \A s \in Thread \ {t} : part'[s] = part[s]
  BY <1>1 DEF Asks, LockInv, WellFormed
<1>3. pc[t] = "idle" /\ Goto(t, "enter") /\ UNCHANGED <<registry, mine>>
  BY DEF Asks, deletion
<1> QED BY <1>1, <1>2, <1>3, Moves DEF LockInv, WellFormed, Held

LEMMA ServesOK == ASSUME LockInv, NEW t \in Player, Serves(t) PROVE LockInv'
<1>1. t \in Thread /\ {"idle", "enter"} \subseteq LabelsOf(t)
  BY Threads, LabelsOK DEF PlayerSteps
<1>2. pc[t] = "serve" /\ UNCHANGED <<registry, mine>> BY DEF Serves, deletion
<1>3. CASE Goto(t, "idle") /\ part' = [part EXCEPT ![t] = NoPart]
  <2>1. part' \in [Thread -> Part \cup {NoPart}]
        /\ \A s \in Thread \ {t} : part'[s] = part[s]
    BY <1>1, <1>3 DEF LockInv, WellFormed
  <2> QED BY <1>1, <1>2, <1>3, <2>1, Moves DEF LockInv, WellFormed, Held
<1>4. CASE Goto(t, "enter") /\ part' = part
  <2>1. part[t] \in Part BY <1>2, Threads DEF LockInv, WellFormed
  <2> QED BY <1>1, <1>2, <1>4, <2>1, Moves DEF LockInv, WellFormed, Held
<1> QED BY <1>3, <1>4 DEF Serves

LEMMA PrunesOK == ASSUME LockInv, NEW t \in Thread, PrunesOn(t) PROVE LockInv'
<1>1. CASE PrunesExpired(t) \/ PrunesOverLimit(t) \/ PrunesAbandoned(t)
  BY <1>1, StandsStill
  DEF PrunesExpired, PrunesOverLimit, PrunesAbandoned, deletion, LockInv, WellFormed
<1>2. CASE EndsPruning(t)
  <2>1. UNCHANGED <<registry, mine, part>> BY <1>2 DEF EndsPruning, deletion
  <2>2. CASE t = Cleaner
    <3>1. Goto(t, "idle") /\ "idle" \in LabelsOf(t)
      BY <1>2, <2>2, LabelsOK DEF EndsPruning
    <3> QED BY <2>1, <2>2, <3>1, Moves DEF LockInv, WellFormed
  <2>3. CASE t # Cleaner
    <3>1. t \in Player
      BY <1>2, <2>3, Threads DEF EndsPruning, Prunes, LockInv, WellFormed
    <3>2. PICK label \in {"fetch", "leave"} : Goto(t, label) BY <1>2, <2>3 DEF EndsPruning
    <3>3. label \in LabelsOf(t) /\ label \in Held /\ pc[t] \in Held
      BY <1>2, <3>1, <3>2, LabelsOK DEF PlayerSteps, Held, EndsPruning, Prunes
    <3> QED BY <2>1, <3>2, <3>3, Moves DEF LockInv, WellFormed
  <2> QED BY <2>2, <2>3
<1> QED BY <1>1, <1>2 DEF PrunesOn

LEMMA CleansOK == ASSUME LockInv, Cleans PROVE LockInv'
<1>1. Goto(Cleaner, "prune") /\ "prune" \in LabelsOf(Cleaner)
      /\ UNCHANGED <<registry, mine, part>>
  BY Threads, LabelsOK DEF Cleans, deletion
<1> QED BY <1>1, Threads, Moves DEF LockInv, WellFormed

LEMMA DeletesOK ==
  ASSUME LockInv, FilesOK, DeletesOn \/ \E s \in Session : Deletes(s) PROVE LockInv'
<1>1. Deleter \in Thread /\ LabelsOf(Deleter) = DeleterSteps BY Threads, LabelsOK
<1>2. WellFormed BY DEF LockInv
<1>3. CASE LooksUp \/ \E s \in Session : Deletes(s)
  <2>1. PICK label \in {"look up", "list"} : Goto(Deleter, label)
    BY <1>3 DEF LooksUp, Deletes
  <2>2. pc[Deleter] \in {"idle", "look up"} /\ UNCHANGED <<registry, mine, part>>
    BY <1>3 DEF LooksUp, Deletes, deletion
  <2>3. label \in DeleterSteps /\ label \notin Held \cup {"wait", "enter", "serve"}
        /\ pc[Deleter] \notin Held \cup {"wait"}
    BY <2>1, <2>2 DEF DeleterSteps, Held
  <2> QED BY <1>1, <1>2, <2>1, <2>2, <2>3, Moves DEF WellFormed
<1>4. CASE Lists
  <2>1. Goto(Deleter, "next") /\ UNCHANGED <<registry, mine, part>> /\ pc[Deleter] = "list"
    BY <1>4 DEF Lists
  <2>2. "next" \in DeleterSteps /\ "next" \notin Held \cup {"wait", "enter", "serve"}
        /\ "list" \notin Held \cup {"wait"}
    BY DEF DeleterSteps, Held
  <2> QED BY <1>1, <1>2, <2>1, <2>2, Moves DEF WellFormed
<1>5. CASE Unlinks
  <2>1. Goto(Deleter, "leave") /\ pc[Deleter] = "unlink" /\ UNCHANGED <<registry, mine, part>>
    BY <1>5 DEF Unlinks, deletion
  <2> QED BY <1>1, <1>2, <2>1, Moves DEF WellFormed, DeleterSteps, Held
<1>6. CASE TakesNext
  <2>1. pc[Deleter] = "next" /\ UNCHANGED <<registry, mine>>
        /\ "next" \notin Held \cup {"wait"}
    BY <1>2, <1>6 DEF TakesNext, WellFormed, Held
  <2>2. CASE \E p \in todo : part' = [part EXCEPT ![Deleter] = p] /\ Goto(Deleter, "enter")
    <3>1. PICK p \in todo : part' = [part EXCEPT ![Deleter] = p] /\ Goto(Deleter, "enter")
      BY <2>2
    <3>2. part' \in [Thread -> Part \cup {NoPart}] /\ part'[Deleter] \in Part
          /\ \A s \in Thread \ {Deleter} : part'[s] = part[s]
      BY <1>1, <1>2, <3>1 DEF WellFormed, FilesOK
    <3>3. "enter" \in DeleterSteps /\ "enter" \notin Held \cup {"wait"}
      BY DEF DeleterSteps, Held
    <3> QED BY <1>1, <2>1, <3>1, <3>2, <3>3, Moves
  <2>3. CASE part' = part /\ Goto(Deleter, "idle")
    <3>1. "idle" \in DeleterSteps /\ "idle" \notin Held \cup {"wait"}
      BY DEF DeleterSteps, Held
    <3> QED BY <1>1, <1>2, <2>1, <2>3, <3>1, Moves DEF WellFormed
  <2> QED BY <1>6, <2>2, <2>3 DEF TakesNext
<1> QED BY <1>3, <1>4, <1>5, <1>6 DEF DeletesOn

-----------------------------------------------------------------------------
(* The locks, where they are taken and released. *)

(* A thread that takes an entry becomes one more of its users. *)
LEMMA EntersOK == ASSUME LockInv, NEW t \in Thread, Enters(t) PROVE LockInv'
<1>1. t \in Locker /\ pc[t] = "enter" /\ part[t] \in Part /\ mine[t] = NoEntry
  BY Threads DEF Enters, LockInv, WellFormed, Locking, Held
<1>2. PICK e \in Entry :
        /\ locks[part[t]] # NoEntry => e = locks[part[t]]
        /\ locks[part[t]] = NoEntry => Unused(e)
        /\ locks' = [locks EXCEPT ![part[t]] = e]
        /\ users' = [users EXCEPT ![e] = users[e] + 1]
        /\ mine' = [mine EXCEPT ![t] = e]
  BY DEF Enters
<1>3. pc' = [pc EXCEPT ![t] = "wait"] /\ part' = part /\ holder' = holder
  BY DEF Enters, Goto
<1>4. e # NoEntry BY NoneAssumption
<1>5. WellFormed'
  <2>1. /\ pc' \in [Thread -> Labels] /\ mine' \in [Thread -> Entry \cup {NoEntry}]
        /\ locks' \in [Part -> Entry \cup {NoEntry}] /\ users' \in [Entry -> Int]
    <3>1. "wait" \in Labels BY DEF Labels, PlayerSteps
    <3>2. pc \in [Thread -> Labels] /\ mine \in [Thread -> Entry \cup {NoEntry}]
          /\ locks \in [Part -> Entry \cup {NoEntry}] /\ users \in [Entry -> Int]
      BY DEF LockInv, WellFormed
    <3>3. pc' \in [Thread -> Labels] BY <1>3, <3>1, <3>2
    <3>4. mine' \in [Thread -> Entry \cup {NoEntry}] BY <1>2, <3>2
    <3>5. locks' \in [Part -> Entry \cup {NoEntry}] BY <1>2, <3>2
    <3>6. users[e] + 1 \in Int BY <3>2
    <3>7. users' \in [Entry -> Int] BY <1>2, <3>2, <3>6
    <3> QED BY <3>3, <3>4, <3>5, <3>7
  <2>2. pc'[Cleaner] \in {"idle", "prune"} /\ mine'[Cleaner] = NoEntry
    BY <1>1, <1>2, <1>3, Threads DEF LockInv, WellFormed
  <2>3. /\ pc'[Deleter] \in DeleterSteps
        /\ \A s \in Player : pc'[s] \in PlayerSteps \cup {"idle"}
    BY <1>1, <1>3, Threads DEF LockInv, WellFormed, DeleterSteps, PlayerSteps
  <2>4. \A s \in Locker : pc'[s] \in Held \cup {"enter", "wait", "serve"} => part'[s] \in Part
    BY <1>1, <1>3, Threads DEF LockInv, WellFormed
  <2> QED BY <1>3, <2>1, <2>2, <2>3, <2>4 DEF LockInv, WellFormed, DeleterSteps
<1>6. \A s \in Thread : mine'[s] = IF s = t THEN e ELSE mine[s]
  BY <1>1, <1>2, Threads DEF LockInv, WellFormed
<1>7. \A s \in Thread : pc'[s] = IF s = t THEN "wait" ELSE pc[s]
  BY <1>1, <1>3, Threads DEF LockInv, WellFormed
<1>8. \A p \in Part : locks'[p] = IF p = part[t] THEN e ELSE locks[p]
  BY <1>1, <1>2 DEF LockInv, WellFormed
<1>9. Locking'
  <2>1. \A s \in Locker : mine'[s] # NoEntry <=> pc'[s] \in Held \cup {"wait"}
    BY <1>4, <1>6, <1>7, Threads DEF LockInv, Locking
  <2>2. \A s \in Locker : mine'[s] # NoEntry => locks'[part'[s]] = mine'[s]
    <3> SUFFICES ASSUME NEW s \in Locker, mine'[s] # NoEntry PROVE locks'[part[s]] = mine'[s]
      BY <1>3
    <3>1. CASE s = t BY <1>1, <1>6, <1>8, <3>1, Threads
    <3>2. CASE s # t
      <4>1. mine'[s] = mine[s] /\ mine[s] # NoEntry BY <1>6, <3>2, Threads
      <4>2. locks[part[s]] = mine[s] BY <4>1 DEF LockInv, Locking
      <4>3. part[s] \in Part
        BY <4>1 DEF LockInv, Locking, WellFormed
      <4>4. CASE part[s] = part[t] BY <1>2, <1>8, <4>1, <4>2, <4>3, <4>4
      <4>5. CASE part[s] # part[t] BY <1>8, <4>1, <4>2, <4>3, <4>5
      <4> QED BY <4>4, <4>5
    <3> QED BY <3>1, <3>2
  <2>3. \A p, q \in Part : locks'[p] = locks'[q] /\ locks'[p] # NoEntry => p = q
    BY <1>1, <1>2, <1>8 DEF LockInv, Locking, Unused
  <2>4. \A s \in Locker : pc'[s] \in Held => holder'[mine'[s]] = s
    <3> SUFFICES ASSUME NEW s \in Locker, pc'[s] \in Held PROVE holder'[mine'[s]] = s OBVIOUS
    <3>1. s \in Thread /\ s # t BY <1>7, Threads DEF Held
    <3> QED BY <1>3, <1>6, <1>7, <3>1 DEF LockInv, Locking
  <2> QED BY <2>1, <2>2, <2>3, <2>4 DEF Locking
<1>10. Counted'
  <2> SUFFICES ASSUME NEW f \in Entry
               PROVE  IsFiniteSet(UsersOf(f)') /\ users'[f] = Cardinality(UsersOf(f)')
    BY DEF Counted
  <2>1. IsFiniteSet(UsersOf(f)) /\ users[f] = Cardinality(UsersOf(f)) BY DEF LockInv, Counted
  <2>2. CASE f = e
    <3>1. UsersOf(f)' = UsersOf(f) \cup {t} /\ t \notin UsersOf(f)
      BY <1>1, <1>4, <1>6, <2>2, Threads DEF UsersOf
    <3>2. users'[f] = users[f] + 1 BY <1>2, <2>2 DEF LockInv, WellFormed
    <3> QED BY <2>1, <3>1, <3>2, FS_AddElement
  <2>3. CASE f # e
    <3>1. UsersOf(f)' = UsersOf(f) BY <1>1, <1>6, <2>3, NoneAssumption, Threads DEF UsersOf
    <3>2. users'[f] = users[f] BY <1>2, <2>3 DEF LockInv, WellFormed
    <3> QED BY <2>1, <3>1, <3>2
  <2> QED BY <2>2, <2>3
<1> QED BY <1>5, <1>9, <1>10 DEF LockInv

LEMMA AcquiresOK == ASSUME LockInv, NEW t \in Thread, Acquires(t) PROVE LockInv'
<1>1. t \in Locker /\ pc[t] = "wait" /\ mine[t] # NoEntry /\ mine[t] \in Entry
  BY Threads DEF Acquires, LockInv, WellFormed, Locking
<1>2. PICK label \in {"unlink", "check"} :
        /\ pc' = [pc EXCEPT ![t] = label]
        /\ t = Deleter => label = "unlink"
        /\ t # Deleter => label = "check"
  BY DEF Acquires, Goto
<1>3. /\ UNCHANGED <<locks, users, part, mine>>
      /\ holder' = [holder EXCEPT ![mine[t]] = t] /\ holder[mine[t]] = NoThread
  BY DEF Acquires
<1>4. label \in Held /\ label \in Labels BY <1>2 DEF Held, Labels, PlayerSteps
<1>5. \A s \in Thread : pc'[s] = IF s = t THEN label ELSE pc[s]
  BY <1>2 DEF LockInv, WellFormed
<1>6. WellFormed'
  <2>1. pc' \in [Thread -> Labels] /\ holder' \in [Entry -> Thread \cup {NoThread}]
    BY <1>1, <1>2, <1>3, <1>4 DEF LockInv, WellFormed
  <2>2. pc'[Cleaner] \in {"idle", "prune"} BY <1>1, <1>5, Threads DEF LockInv, WellFormed
  <2>3. pc'[Deleter] \in DeleterSteps
    BY <1>2, <1>5, Threads DEF LockInv, WellFormed, DeleterSteps
  <2>4. \A s \in Player : pc'[s] \in PlayerSteps \cup {"idle"}
    BY <1>2, <1>5, Threads DEF LockInv, WellFormed, PlayerSteps
  <2>5. \A s \in Locker : pc'[s] \in Held \cup {"enter", "wait", "serve"} => part'[s] \in Part
    BY <1>1, <1>3, <1>5, Threads DEF LockInv, WellFormed
  <2> QED BY <1>3, <2>1, <2>2, <2>3, <2>4, <2>5 DEF LockInv, WellFormed, DeleterSteps
<1>7. Locking'
  <2>1. \A s \in Locker : mine'[s] # NoEntry <=> pc'[s] \in Held \cup {"wait"}
    BY <1>1, <1>3, <1>4, <1>5, Threads DEF LockInv, Locking
  <2>2. \A s \in Locker : pc'[s] \in Held => holder'[mine'[s]] = s
    <3> SUFFICES ASSUME NEW s \in Locker, pc'[s] \in Held PROVE holder'[mine[s]] = s
      BY <1>3
    <3>1. CASE s = t BY <1>1, <1>3, <3>1 DEF LockInv, WellFormed
    <3>2. CASE s # t
      <4>1. pc[s] \in Held BY <1>5, <3>2, Threads
      <4>2. holder[mine[s]] = s BY <4>1 DEF LockInv, Locking
      <4>3. s # NoThread BY ThreadAssumption, Threads
      <4>4. mine[s] # mine[t] BY <1>3, <4>2, <4>3
      <4>5. mine[s] # NoEntry /\ s \in Thread BY <4>1, Threads DEF LockInv, Locking
      <4>6. mine[s] \in Entry BY <4>5 DEF LockInv, WellFormed
      <4> QED BY <1>1, <1>3, <4>2, <4>4, <4>6 DEF LockInv, WellFormed
    <3> QED BY <3>1, <3>2
  <2> QED BY <1>3, <2>1, <2>2 DEF LockInv, Locking
<1>8. Counted' BY <1>3 DEF LockInv, Counted, UsersOf
<1> QED BY <1>6, <1>7, <1>8 DEF LockInv

(* The last user alone takes the entry out of _locks: whoever still waits  *)
(* for it, or comes to, finds the same one.                                *)
LEMMA LeavesOK == ASSUME LockInv, NEW t \in Thread, Leaves(t) PROVE LockInv'
<1>1. t \in Locker /\ pc[t] = "leave" /\ mine[t] # NoEntry /\ mine[t] \in Entry
      /\ part[t] \in Part /\ locks[part[t]] = mine[t] /\ holder[mine[t]] = t
  BY Threads DEF Leaves, LockInv, WellFormed, Locking, Held
<1>2. /\ holder' = [holder EXCEPT ![mine[t]] = NoThread]
      /\ users' = [users EXCEPT ![mine[t]] = users[mine[t]] - 1]
      /\ locks' = IF users[mine[t]] = 1 THEN [locks EXCEPT ![part[t]] = NoEntry] ELSE locks
      /\ mine' = [mine EXCEPT ![t] = NoEntry]
  BY <1>1 DEF Leaves, LeftBy
<1>3. PICK label \in {"next", "serve", "idle"} :
        /\ pc' = [pc EXCEPT ![t] = label]
        /\ t = Deleter => label = "next"
        /\ t # Deleter => label # "next"
        /\ label = "serve" => part' = part
        /\ part' = part \/ part' = [part EXCEPT ![t] = NoPart]
  BY DEF Leaves, Goto
<1>4. label \notin Held \cup {"wait", "enter"} /\ label \in Labels
  BY <1>3 DEF Held, Labels, PlayerSteps
<1>5. \A s \in Thread : /\ pc'[s] = IF s = t THEN label ELSE pc[s]
                        /\ mine'[s] = IF s = t THEN NoEntry ELSE mine[s]
                        /\ s # t => part'[s] = part[s]
  BY <1>2, <1>3 DEF LockInv, WellFormed
<1>6. IsFiniteSet(UsersOf(mine[t])) /\ users[mine[t]] = Cardinality(UsersOf(mine[t]))
      /\ t \in UsersOf(mine[t])
  BY <1>1 DEF LockInv, Counted, UsersOf
<1>7. ASSUME users[mine[t]] = 1, NEW s \in Thread, mine[s] = mine[t] PROVE s = t
  <2>1. s \in UsersOf(mine[t]) BY <1>7 DEF UsersOf
  <2>2. PICK x : UsersOf(mine[t]) = {x} BY <1>6, <1>7, FS_Singleton
  <2> QED BY <1>6, <2>1, <2>2
<1>8. WellFormed'
  <2>1. pc' \in [Thread -> Labels] /\ mine' \in [Thread -> Entry \cup {NoEntry}]
    BY <1>2, <1>3, <1>4 DEF LockInv, WellFormed
  <2>2. part' \in [Thread -> Part \cup {NoPart}]
        /\ locks' \in [Part -> Entry \cup {NoEntry}]
        /\ holder' \in [Entry -> Thread \cup {NoThread}]
    BY <1>2, <1>3 DEF LockInv, WellFormed
  <2>3. users' \in [Entry -> Int]
    <3>1. users \in [Entry -> Int] BY DEF LockInv, WellFormed
    <3>2. users[mine[t]] - 1 \in Int BY <1>1, <3>1
    <3> QED BY <1>2, <3>1, <3>2
  <2>4. pc'[Cleaner] \in {"idle", "prune"} /\ mine'[Cleaner] = NoEntry
    BY <1>1, <1>5, Threads DEF LockInv, WellFormed
  <2>5. pc'[Deleter] \in DeleterSteps
    BY <1>3, <1>5, Threads DEF LockInv, WellFormed, DeleterSteps
  <2>6. \A s \in Player : pc'[s] \in PlayerSteps \cup {"idle"}
    <3> TAKE s \in Player
    <3>1. s \in Thread /\ s # Deleter /\ pc[s] \in PlayerSteps \cup {"idle"}
      BY Threads DEF LockInv, WellFormed
    <3> QED BY <1>3, <1>5, <3>1 DEF PlayerSteps
  <2>7. \A s \in Locker : pc'[s] \in Held \cup {"enter", "wait", "serve"} => part'[s] \in Part
    BY <1>1, <1>3, <1>4, <1>5, Threads DEF LockInv, WellFormed
  <2> QED BY <2>1, <2>2, <2>3, <2>4, <2>5, <2>6, <2>7 DEF WellFormed, DeleterSteps
<1>9. Locking'
  <2>1. \A s \in Locker : mine'[s] # NoEntry <=> pc'[s] \in Held \cup {"wait"}
    BY <1>4, <1>5, Threads DEF LockInv, Locking
  <2>2. \A s \in Locker : mine'[s] # NoEntry => locks'[part'[s]] = mine'[s]
    <3> SUFFICES ASSUME NEW s \in Locker, mine'[s] # NoEntry PROVE locks'[part'[s]] = mine'[s]
      OBVIOUS
    <3>1. s \in Thread /\ s # t /\ mine'[s] = mine[s] /\ part'[s] = part[s] /\ mine[s] # NoEntry
      BY <1>5, Threads
    <3>2. locks[part[s]] = mine[s] /\ part[s] \in Part
      BY <3>1 DEF LockInv, Locking, WellFormed
    <3>3. CASE users[mine[t]] = 1
      <4>1. mine[s] # mine[t] BY <1>7, <3>1, <3>3
      <4>2. part[s] # part[t] BY <1>1, <3>2, <4>1
      <4> QED BY <1>2, <3>1, <3>2, <3>3, <4>2 DEF LockInv, WellFormed
    <3>4. CASE users[mine[t]] # 1 BY <1>2, <3>1, <3>2, <3>4
    <3> QED BY <3>3, <3>4
  <2>3. \A p \in Part : locks'[p] = locks[p] \/ locks'[p] = NoEntry
    BY <1>2 DEF LockInv, WellFormed
  <2>4. \A p, q \in Part : locks'[p] = locks'[q] /\ locks'[p] # NoEntry => p = q
    BY <2>3 DEF LockInv, Locking
  <2>5. \A s \in Locker : pc'[s] \in Held => holder'[mine'[s]] = s
    <3> SUFFICES ASSUME NEW s \in Locker, pc'[s] \in Held PROVE holder'[mine'[s]] = s
      OBVIOUS
    <3>1. s \in Thread /\ s # t /\ mine'[s] = mine[s] /\ pc[s] \in Held
      BY <1>4, <1>5, Threads
    <3>2. holder[mine[s]] = s /\ mine[s] \in Entry
      BY <3>1 DEF LockInv, Locking, WellFormed
    <3>3. mine[s] # mine[t] BY <1>1, <3>1, <3>2
    <3> QED BY <1>2, <3>1, <3>2, <3>3 DEF LockInv, WellFormed
  <2> QED BY <2>1, <2>2, <2>4, <2>5 DEF Locking
<1>10. Counted'
  <2> SUFFICES ASSUME NEW f \in Entry
               PROVE  IsFiniteSet(UsersOf(f)') /\ users'[f] = Cardinality(UsersOf(f)')
    BY DEF Counted
  <2>1. CASE f = mine[t]
    <3>1. UsersOf(f)' = UsersOf(f) \ {t}
      BY <1>1, <1>5, <2>1, NoneAssumption, Threads DEF UsersOf
    <3>2. users'[f] = users[f] - 1 BY <1>2, <2>1 DEF LockInv, WellFormed
    <3> QED BY <1>6, <2>1, <3>1, <3>2, FS_RemoveElement
  <2>2. CASE f # mine[t]
    <3>1. UsersOf(f)' = UsersOf(f) BY <1>5, <2>2, NoneAssumption DEF UsersOf
    <3>2. users'[f] = users[f] BY <1>2, <2>2 DEF LockInv, WellFormed
    <3> QED BY <3>1, <3>2 DEF LockInv, Counted
  <2> QED BY <2>1, <2>2
<1> QED BY <1>8, <1>9, <1>10 DEF LockInv

LEMMA RestartsOK == ASSUME Restarts PROVE LockInv'
<1>1. WellFormed'
  <2>1. /\ pc' \in [Thread -> Labels] /\ part' \in [Thread -> Part \cup {NoPart}]
        /\ mine' \in [Thread -> Entry \cup {NoEntry}]
        /\ locks' \in [Part -> Entry \cup {NoEntry}]
        /\ holder' \in [Entry -> Thread \cup {NoThread}] /\ users' \in [Entry -> Int]
    BY DEF Restarts, Labels
  <2>2. \A t \in Thread : pc'[t] = "idle" /\ mine'[t] = NoEntry BY DEF Restarts
  <2> QED BY <2>1, <2>2, Threads DEF WellFormed, Held
<1>2. Locking' BY Threads DEF Restarts, Locking, Held
<1>3. Counted'
  <2>1. \A e \in Entry : UsersOf(e)' = {} BY NoneAssumption DEF Restarts, UsersOf
  <2>2. \A e \in Entry : users'[e] = 0 BY DEF Restarts
  <2> QED BY <2>1, <2>2, FS_EmptySet DEF Counted
<1> QED BY <1>1, <1>2, <1>3 DEF LockInv

(* Every step keeps the locks. *)
LEMMA LocksOK == ASSUME LockInv, FilesOK, [Next]_vars PROVE LockInv'
<1>1. CASE \E t \in Player : Plays(t) BY <1>1, PlayerMoves, ServesOK DEF Plays
<1>2. CASE \E t \in Thread : Enters(t) \/ Acquires(t) \/ Leaves(t) \/ PrunesOn(t)
  BY <1>2, EntersOK, AcquiresOK, LeavesOK, PrunesOK
<1>3. CASE \E p \in Part : Ages(p) \/ RunsOut(p)
  BY <1>3, StandsStill DEF Ages, RunsOut
<1>4. CASE UNCHANGED vars BY <1>4, StandsStill DEF vars
<1> QED
  BY <1>1, <1>2, <1>3, <1>4, AsksOK, CleansOK, DeletesOK, RestartsOK DEF Next

-----------------------------------------------------------------------------
(* What is left of a deleted Session's video. *)

(* A step that ends no deletion's step: the deletion still comes to what it *)
(* came to, and nothing is brought back that no request was allowed.        *)
LEMMA Harmless ==
  ASSUME IInv, UNCHANGED <<exists, interrupted, deleting, looked, todo>>,
         \A p \in Part : Owner[p] \notin exists /\ NoRequest(p) =>
            NoRequest(p)' /\ (p \in copies' \cup partial' => p \in copies \cup partial),
         \/ pc'[Deleter] = pc[Deleter] /\ part'[Deleter] = part[Deleter]
         \/ {pc[Deleter], pc'[Deleter]} \subseteq {"enter", "wait", "unlink"}
            /\ part'[Deleter] = part[Deleter]
         \/ pc[Deleter] = "leave" /\ pc'[Deleter] = "next"
  PROVE  Gone'
<1> SUFFICES ASSUME NEW p \in Part, Owner[p] \notin exists \cup interrupted
             PROVE  Awaited(p)' \/ Clear(p)'
  BY DEF Gone
<1>1. Awaited(p) \/ Clear(p) BY DEF IInv, Gone
<1>2. CASE Clear(p) BY <1>2 DEF Clear
<1>3. CASE Awaited(p)
  <2>1. NoRequest(p) => NoRequest(p)' OBVIOUS
  <2> QED BY <1>3, <2>1 DEF Awaited
<1> QED BY <1>1, <1>2, <1>3

(* What each thread's step does to its own place and part, and to no other. *)
LEMMA OthersStay ==
  ASSUME IInv, NEW t \in Thread, NEW label, Goto(t, label)
  PROVE  pc'[t] = label /\ \A s \in Thread \ {t} : pc'[s] = pc[s]
BY DEF Goto, IInv, LockInv, WellFormed

(* The steps of the requests: a copy is made by a request that was allowed *)
(* while its Session existed, and not withdrawn since.                     *)
LEMMA RequestsLeaveNothing ==
  ASSUME IInv, NEW t \in Player,
         Checks(t) \/ Marks(t) \/ Looks(t) \/ Fetches(t) \/ Downloads(t) \/ Rescans(t)
  PROVE  Gone'
<1>1. t \in Thread /\ t # Deleter /\ Deleter \in Thread BY Threads
<1>2. UNCHANGED <<exists, interrupted, deleting, looked, todo, part>>
  BY DEF Checks, Marks, Looks, Fetches, Downloads, Rescans, deletion
<1>3. PICK label \in Held : Goto(t, label)
  BY DEF Checks, Marks, Looks, Fetches, Downloads, Rescans, Held
<1>4. pc'[t] = label /\ \A s \in Thread \ {t} : pc'[s] = pc[s] BY <1>1, <1>3, OthersStay
<1>5. pc[t] = "check" => label = "leave" \/ Owner[part[t]] \in exists
  BY <1>1, <1>4 DEF Checks, Marks, Looks, Fetches, Downloads, Rescans, Goto, IInv, LockInv,
                    WellFormed
<1>6. pc[t] \in Allowed \cup {"check"}
  BY DEF Checks, Marks, Looks, Fetches, Downloads, Rescans, Allowed
<1>7. copies' \cup partial' \subseteq
         copies \cup partial \cup (IF pc[t] \in Allowed THEN {part[t]} ELSE {})
  BY DEF Checks, Marks, Looks, Fetches, Downloads, Rescans, Allowed, files
<1>8. ASSUME NEW p \in Part, Owner[p] \notin exists, NoRequest(p)
      PROVE  NoRequest(p)' /\ (p \in copies' \cup partial' => p \in copies \cup partial)
  <2>1. part[t] = p => pc[t] = "check" BY <1>6, <1>8 DEF NoRequest
  <2>2. part[t] = p => label = "leave" BY <1>5, <1>8, <2>1
  <2>3. NoRequest(p)'
    BY <1>1, <1>2, <1>4, <1>8, <2>2, Threads DEF NoRequest, Allowed
  <2>4. part[t] = p => pc[t] \notin Allowed BY <2>1 DEF Allowed
  <2> QED BY <1>7, <2>3, <2>4
<1> QED BY <1>1, <1>2, <1>4, <1>8, Harmless

\* The steps that leave every request where it is, allowed or not, or end it.
LEMMA NoneAllowed ==
  ASSUME IInv, NEW t \in Thread, NEW label, Goto(t, label),
         t # Deleter, t \in Player => label \notin Allowed \/ (pc[t] \in Allowed /\ part'[t] = part[t]),
         \A s \in Thread \ {t} : part'[s] = part[s],
         copies' \cup partial' \subseteq copies \cup partial,
         UNCHANGED <<exists, interrupted, deleting, looked, todo>>
  PROVE  Gone'
<1>1. pc'[t] = label /\ \A s \in Thread \ {t} : pc'[s] = pc[s] BY OthersStay
<1>2. \A p \in Part : NoRequest(p) => NoRequest(p)'
  BY <1>1, Threads DEF NoRequest
<1>3. pc'[Deleter] = pc[Deleter] /\ part'[Deleter] = part[Deleter] BY <1>1, Threads
<1> QED BY <1>2, <1>3, Harmless

\* The steps that move no thread.
LEMMA NobodyMoves ==
  ASSUME IInv, UNCHANGED <<pc, part, exists, interrupted, deleting, looked, todo>>,
         copies' \cup partial' \subseteq copies \cup partial
  PROVE  Gone'
<1>1. \A p \in Part : NoRequest(p) => NoRequest(p)' BY DEF NoRequest
<1> QED BY <1>1, Harmless

LEMMA PlayersLeaveNothing ==
  ASSUME IInv, NEW t \in Player,
         Serves(t) \/ \E p \in Part : Asks(t, p)
  PROVE  Gone'
<1>1. t \in Thread /\ t # Deleter BY Threads
<1>2. PICK label \in {"idle", "enter"} : Goto(t, label) BY DEF Serves, Asks
<1>3. /\ UNCHANGED <<exists, interrupted, deleting, looked, todo>>
      /\ copies' \cup partial' \subseteq copies \cup partial
      /\ \A s \in Thread \ {t} : part'[s] = part[s]
  BY <1>1 DEF Serves, Asks, files, deletion, IInv, LockInv, WellFormed
<1> QED BY <1>1, <1>2, <1>3, NoneAllowed DEF Allowed

LEMMA PruningLeavesNothing ==
  ASSUME IInv, Cleans \/ \E t \in Thread : PrunesOn(t) PROVE Gone'
<1>1. CASE Cleans
  <2>1. Goto(Cleaner, "prune") /\ UNCHANGED <<part, files, exists, deletion>> BY <1>1 DEF Cleans
  <2> QED BY <2>1, Threads, NoneAllowed DEF files, deletion
<1>2. CASE \E t \in Thread : PrunesExpired(t) \/ PrunesOverLimit(t) \/ PrunesAbandoned(t)
  <2>1. UNCHANGED <<pc, part, exists, deletion>>
    BY <1>2 DEF PrunesExpired, PrunesOverLimit, PrunesAbandoned
  <2>2. copies' \cup partial' \subseteq copies \cup partial
    BY <1>2 DEF PrunesExpired, PrunesOverLimit, PrunesAbandoned, UnlinkedUnlessInUse
  <2> QED BY <2>1, <2>2, NobodyMoves DEF deletion
<1>3. CASE \E t \in Thread : EndsPruning(t)
  <2>1. PICK t \in Thread : EndsPruning(t) BY <1>3
  <2>2. pc[t] \in {"prune", "prune again"} /\ t # Deleter
    BY <2>1, Threads DEF EndsPruning, Prunes, IInv, LockInv, WellFormed
  <2>3. PICK label : Goto(t, label) BY <2>1 DEF EndsPruning
  <2>4. UNCHANGED <<part, files, exists, deletion>> BY <2>1 DEF EndsPruning
  <2> QED BY <2>2, <2>3, <2>4, NoneAllowed DEF files, deletion, Allowed
<1> QED BY <1>1, <1>2, <1>3 DEF PrunesOn

LEMMA LocksLeaveNothing ==
  ASSUME IInv, NEW t \in Thread, Enters(t) \/ Acquires(t) \/ Leaves(t) PROVE Gone'
<1>1. UNCHANGED <<files, exists, deletion>> BY DEF Enters, Acquires, Leaves
<1>2. PICK label \in {"wait", "unlink", "check", "next", "serve", "idle"} : Goto(t, label)
  BY DEF Enters, Acquires, Leaves
<1>3. pc'[t] = label /\ \A s \in Thread \ {t} : pc'[s] = pc[s] BY <1>2, OthersStay
<1>4. label \notin Allowed BY DEF Allowed
<1>5. \A s \in Thread \ {t} : part'[s] = part[s]
  BY DEF Enters, Acquires, Leaves, IInv, LockInv, WellFormed
<1>6. CASE t # Deleter
  BY <1>1, <1>2, <1>4, <1>5, <1>6, NoneAllowed DEF files, deletion
<1>7. CASE t = Deleter
  <2>1. \A p \in Part : NoRequest(p) => NoRequest(p)'
    BY <1>3, <1>5, <1>7, Threads DEF NoRequest
  <2>2. \/ {pc[Deleter], pc'[Deleter]} \subseteq {"enter", "wait", "unlink"}
           /\ part'[Deleter] = part[Deleter]
        \/ pc[Deleter] = "leave" /\ pc'[Deleter] = "next"
    <3>1. CASE Enters(t)
      <4>1. Goto(t, "wait") /\ pc[t] = "enter" /\ part' = part BY <3>1 DEF Enters
      <4>2. pc'[t] = "wait" BY <4>1, OthersStay
      <4> QED BY <1>7, <4>1, <4>2
    <3>2. CASE Acquires(t)
      <4>1. Goto(t, "unlink") /\ pc[t] = "wait" /\ part' = part BY <1>7, <3>2 DEF Acquires
      <4>2. pc'[t] = "unlink" BY <4>1, OthersStay
      <4> QED BY <1>7, <4>1, <4>2
    <3>3. CASE Leaves(t)
      <4>1. Goto(t, "next") /\ pc[t] = "leave" BY <1>7, <3>3 DEF Leaves
      <4>2. pc'[t] = "next" BY <4>1, OthersStay
      <4> QED BY <1>7, <4>1, <4>2
    <3> QED BY <3>1, <3>2, <3>3
  <2> QED BY <1>1, <2>1, <2>2, Harmless DEF files, deletion
<1> QED BY <1>6, <1>7

(* The steps of the deletion. *)
LEMMA DeletionComesToAll ==
  ASSUME IInv, DeletesOn \/ \E s \in Session : Deletes(s) PROVE Gone'
<1>1. Deleter \in Thread /\ Deleter \notin Player BY Threads
<1>2. ASSUME NEW label, Goto(Deleter, label), \A s \in Player : part'[s] = part[s]
      PROVE  pc'[Deleter] = label /\ \A p \in Part : NoRequest(p)' <=> NoRequest(p)
  BY <1>1, <1>2, OthersStay, Threads DEF NoRequest
<1>3. CASE \E s \in Session : Deletes(s)
  <2>1. PICK s \in Session : Deletes(s) BY <1>3
  <2>2. /\ pc[Deleter] = "idle" /\ exists' = exists \ {s} /\ deleting' = s
        /\ Goto(Deleter, "look up") /\ UNCHANGED <<files, part, interrupted>>
    BY <2>1 DEF Deletes
  <2>3. pc'[Deleter] = "look up" /\ \A p \in Part : NoRequest(p)' <=> NoRequest(p)
    BY <1>2, <2>2
  <2> SUFFICES ASSUME NEW p \in Part, Owner[p] \notin exists' \cup interrupted'
               PROVE  Awaited(p)' \/ Clear(p)'
    BY DEF Gone
  <2>4. CASE Owner[p] = s BY <2>2, <2>3, <2>4 DEF Awaited
  <2>5. CASE Owner[p] # s
    <3>1. Awaited(p) \/ Clear(p) BY <2>2, <2>5 DEF IInv, Gone
    <3>2. ~Awaited(p) BY <2>2 DEF Awaited
    <3> QED BY <2>2, <2>3, <3>1, <3>2 DEF Clear, files
  <2> QED BY <2>4, <2>5
<1>4. CASE LooksUp
  <2>1. /\ pc[Deleter] = "look up" /\ looked' = {p \in Part : locks[p] # NoEntry}
        /\ Goto(Deleter, "list") /\ UNCHANGED <<files, part, exists, deleting, interrupted>>
    BY <1>4 DEF LooksUp
  <2>2. pc'[Deleter] = "list" /\ \A p \in Part : NoRequest(p)' <=> NoRequest(p)
    BY <1>2, <2>1
  <2> SUFFICES ASSUME NEW p \in Part, Owner[p] \notin exists \cup interrupted
               PROVE  Awaited(p)' \/ Clear(p)'
    BY <2>1 DEF Gone
  <2>3. Awaited(p) \/ Clear(p) BY DEF IInv, Gone
  <2>4. CASE Clear(p) BY <2>1, <2>2, <2>4 DEF Clear, files
  <2>5. CASE Awaited(p)
    <3>1. NoRequest(p) \/ locks[p] # NoEntry
      <4> SUFFICES ASSUME NEW t \in Player, part[t] = p, pc[t] \in Allowed
                   PROVE  locks[p] # NoEntry
        BY DEF NoRequest
      <4>1. t \in Locker /\ pc[t] \in Held BY Threads DEF Allowed, Held
      <4> QED BY <4>1 DEF IInv, LockInv, Locking
    <3> QED BY <2>1, <2>2, <2>5, <3>1 DEF Awaited
  <2> QED BY <2>3, <2>4, <2>5
<1>5. CASE Lists
  <2>1. /\ pc[Deleter] = "list" /\ Goto(Deleter, "next")
        /\ todo' = {p \in looked \cup copies \cup partial : Owner[p] = deleting}
        /\ UNCHANGED <<files, part, exists, deleting, interrupted>>
    BY <1>5 DEF Lists
  <2>2. pc'[Deleter] = "next" /\ \A p \in Part : NoRequest(p)' <=> NoRequest(p)
    BY <1>2, <2>1
  <2> SUFFICES ASSUME NEW p \in Part, Owner[p] \notin exists \cup interrupted
               PROVE  Awaited(p)' \/ Clear(p)'
    BY <2>1 DEF Gone
  <2>3. Awaited(p) \/ Clear(p) BY DEF IInv, Gone
  <2>4. CASE Clear(p) BY <2>1, <2>2, <2>4 DEF Clear, files
  <2>5. CASE Awaited(p)
    <3>1. deleting = Owner[p] /\ (p \in looked \/ NoRequest(p)) BY <2>1, <2>5 DEF Awaited
    <3>2. CASE p \in looked \cup copies \cup partial BY <2>1, <2>2, <3>1, <3>2 DEF Awaited
    <3>3. CASE p \notin looked \cup copies \cup partial
      BY <2>1, <2>2, <3>1, <3>3 DEF Clear, files
    <3> QED BY <3>2, <3>3
  <2> QED BY <2>3, <2>4, <2>5
<1>6. CASE TakesNext
  <2>1. pc[Deleter] = "next" /\ UNCHANGED <<files, exists, interrupted>>
    BY <1>6 DEF TakesNext, deletion
  <2>2. PICK label : Goto(Deleter, label) BY <1>6 DEF TakesNext
  <2>3. \A s \in Player : part'[s] = part[s]
    BY <1>1, <1>6, Threads DEF TakesNext, IInv, LockInv, WellFormed
  <2>4. pc'[Deleter] = label /\ \A p \in Part : NoRequest(p)' <=> NoRequest(p)
    BY <1>2, <2>2, <2>3
  <2> SUFFICES ASSUME NEW p \in Part, Owner[p] \notin exists \cup interrupted
               PROVE  Awaited(p)' \/ Clear(p)'
    BY <2>1 DEF Gone
  <2>5. Awaited(p) \/ Clear(p) BY DEF IInv, Gone
  <2>6. CASE Clear(p) BY <2>1, <2>4, <2>6 DEF Clear, files
  <2>7. CASE Awaited(p)
    <3>1. deleting = Owner[p] /\ p \in todo BY <2>1, <2>7 DEF Awaited
    <3>2. PICK q \in todo : /\ todo' = todo \ {q} /\ part' = [part EXCEPT ![Deleter] = q]
                            /\ Goto(Deleter, "enter") /\ deleting' = deleting
      BY <1>6, <3>1 DEF TakesNext
    <3>3. pc'[Deleter] = "enter" /\ part'[Deleter] = q
      BY <1>1, <3>2, OthersStay DEF IInv, LockInv, WellFormed
    <3> QED BY <3>1, <3>2, <3>3 DEF Awaited
  <2> QED BY <2>5, <2>6, <2>7
<1>7. CASE Unlinks
  <2>1. /\ pc[Deleter] = "unlink" /\ Goto(Deleter, "leave")
        /\ copies' = copies \ {part[Deleter]} /\ partial' = partial \ {part[Deleter]}
        /\ UNCHANGED <<part, exists, deletion>>
    BY <1>7 DEF Unlinks
  <2>2. pc'[Deleter] = "leave" /\ \A p \in Part : NoRequest(p)' <=> NoRequest(p)
    BY <1>2, <2>1
  <2> SUFFICES ASSUME NEW p \in Part, Owner[p] \notin exists \cup interrupted
               PROVE  Awaited(p)' \/ Clear(p)'
    BY <2>1 DEF Gone, deletion
  <2>3. Awaited(p) \/ Clear(p) BY DEF IInv, Gone
  <2>4. CASE Clear(p) BY <2>1, <2>2, <2>4 DEF Clear
  <2>5. CASE Awaited(p) /\ p \in todo BY <2>1, <2>2, <2>5 DEF Awaited, deletion
  <2>6. CASE part[Deleter] = p
    <3>1. NoRequest(p)
      <4> SUFFICES ASSUME NEW t \in Player, part[t] = p, pc[t] \in Allowed PROVE FALSE
        BY DEF NoRequest
      <4>1. pc[t] \in Held /\ pc[Deleter] \in Held BY <2>1 DEF Allowed, Held
      <4>2. t = Deleter BY <2>6, <4>1, Threads, Exclusive DEF IInv
      <4> QED BY <1>1, <4>2
    <3> QED BY <2>1, <2>2, <2>6, <3>1 DEF Clear
  <2> QED BY <2>1, <2>3, <2>4, <2>5, <2>6 DEF Awaited
<1> QED BY <1>3, <1>4, <1>5, <1>6, <1>7 DEF DeletesOn

\* A deletion that a restart cuts short is one of the interrupted.
LEMMA RestartLeavesNothing == ASSUME IInv, Restarts PROVE Gone'
<1> SUFFICES ASSUME NEW p \in Part, Owner[p] \notin exists' \cup interrupted'
             PROVE  Clear(p)'
  BY DEF Gone
<1>1. UNCHANGED <<exists, files>> /\ interrupted' = interrupted \cup ({deleting} \ {NoSession})
      /\ \A t \in Thread : pc'[t] = "idle"
  BY DEF Restarts
<1>2. Owner[p] # NoSession BY OwnerAssumption, NoneAssumption
<1>3. ~Awaited(p) BY <1>1, <1>2 DEF Awaited
<1>4. Clear(p) BY <1>1, <1>3 DEF IInv, Gone
<1>5. NoRequest(p)' BY <1>1, Threads DEF NoRequest, Allowed
<1> QED BY <1>1, <1>4, <1>5 DEF Clear, files

LEMMA GoneOK == ASSUME IInv, [Next]_vars PROVE Gone'
<1>1. CASE \E t \in Player : Plays(t) BY <1>1, RequestsLeaveNothing, PlayersLeaveNothing DEF Plays
<1>2. CASE \E t \in Thread : Enters(t) \/ Acquires(t) \/ Leaves(t) \/ PrunesOn(t)
  BY <1>2, LocksLeaveNothing, PruningLeavesNothing
<1>3. CASE \E p \in Part : Ages(p) \/ RunsOut(p)
  BY <1>3, NobodyMoves DEF Ages, RunsOut, files, deletion
<1>4. CASE UNCHANGED vars BY <1>4, NobodyMoves DEF vars, files, deletion
<1>5. CASE \E t \in Player, p \in Part : Asks(t, p) BY <1>5, PlayersLeaveNothing
<1>6. CASE Cleans BY <1>6, PruningLeavesNothing
<1>7. CASE DeletesOn \/ \E s \in Session : Deletes(s) BY <1>7, DeletionComesToAll
<1>8. CASE Restarts BY <1>8, RestartLeavesNothing
<1> QED
  BY <1>1, <1>2, <1>3, <1>4, <1>5, <1>6, <1>7, <1>8 DEF Next

-----------------------------------------------------------------------------
(* The files and the deletion's own bookkeeping. *)

LEMMA FilesStay == ASSUME IInv, [Next]_vars PROVE FilesOK'
<1>1. CASE \E t \in Player : Plays(t)
  <2>1. PICK t \in Player : Plays(t) BY <1>1
  <2>2. UNCHANGED <<looked, todo>>
    BY <2>1 DEF Plays, Checks, Marks, Looks, Fetches, Downloads, Rescans, Serves, deletion
  <2>3. copies' \cup partial' \subseteq
           copies \cup partial \cup (IF pc[t] \in {"fetch", "download"} THEN {part[t]} ELSE {})
    BY <2>1 DEF Plays, Checks, Marks, Looks, Fetches, Downloads, Rescans, Serves, files
  <2>4. pc[t] \in {"fetch", "download"} => part[t] \in Part
    BY Threads DEF IInv, LockInv, WellFormed, Held
  <2> QED BY <2>2, <2>3, <2>4 DEF FilesOK, IInv
<1>2. CASE \E t \in Thread : PrunesOn(t)
  BY <1>2 DEF PrunesOn, PrunesExpired, PrunesOverLimit, PrunesAbandoned, EndsPruning,
              UnlinkedUnlessInUse, FilesOK, IInv, files, deletion
<1>3. CASE \E t \in Thread : Enters(t) \/ Acquires(t) \/ Leaves(t)
  BY <1>3 DEF Enters, Acquires, Leaves, FilesOK, IInv, files, deletion
<1>4. CASE DeletesOn
  BY <1>4 DEF DeletesOn, LooksUp, Lists, TakesNext, Unlinks, FilesOK, IInv, files, deletion
<1>5. CASE \E s \in Session : Deletes(s) BY <1>5 DEF Deletes, FilesOK, IInv, files
<1>6. CASE \E p \in Part : Ages(p) \/ RunsOut(p)
  BY <1>6 DEF Ages, RunsOut, FilesOK, IInv, files, deletion
<1>7. CASE Restarts BY <1>7 DEF Restarts, FilesOK, IInv, files
<1>8. CASE Cleans \/ \E t \in Player, p \in Part : Asks(t, p)
  BY <1>8 DEF Cleans, Asks, FilesOK, IInv, files, deletion
<1>9. CASE UNCHANGED vars BY <1>9 DEF vars, FilesOK, IInv, files, deletion
<1> QED
  BY <1>1, <1>2, <1>3, <1>4, <1>5, <1>6, <1>7, <1>8, <1>9 DEF Next

\* A step of another thread, or of the deletion between its beginning and its end.
LEMMA DeletionGoesOn ==
  ASSUME IInv, UNCHANGED <<exists, deleting, interrupted>>,
         pc'[Deleter] = "idle" <=> pc[Deleter] = "idle"
  PROVE  Deleting'
BY DEF IInv, Deleting

LEMMA DeletingOK == ASSUME IInv, [Next]_vars PROVE Deleting'
<1>1. Deleter \in Thread /\ Deleter \notin Player /\ Deleter # Cleaner BY Threads
<1>2. ASSUME NEW t \in Thread, NEW label, Goto(t, label), UNCHANGED <<exists, deleting, interrupted>>,
             t = Deleter => pc[t] # "idle" /\ label # "idle"
      PROVE  Deleting'
  <2>1. pc'[t] = label /\ \A s \in Thread \ {t} : pc'[s] = pc[s] BY <1>2, OthersStay
  <2> QED BY <1>1, <1>2, <2>1, DeletionGoesOn
<1>3. CASE \E t \in Player : Plays(t)
  <2>1. PICK t \in Player : Plays(t) BY <1>3
  <2>2. PICK label : Goto(t, label)
    BY <2>1 DEF Plays, Checks, Marks, Looks, Fetches, Downloads, Rescans, Serves
  <2>3. UNCHANGED <<exists, deleting, interrupted>>
    BY <2>1 DEF Plays, Checks, Marks, Looks, Fetches, Downloads, Rescans, Serves, deletion
  <2> QED BY <1>1, <1>2, <2>2, <2>3, Threads
<1>4. CASE \E t \in Player, p \in Part : Asks(t, p)
  BY <1>1, <1>2, <1>4, Threads DEF Asks, deletion
<1>5. CASE Cleans BY <1>1, <1>2, <1>5, Threads DEF Cleans, deletion
<1>6. CASE \E t \in Thread : PrunesOn(t)
  <2>1. CASE \E t \in Thread : PrunesExpired(t) \/ PrunesOverLimit(t) \/ PrunesAbandoned(t)
    BY <2>1, DeletionGoesOn DEF PrunesExpired, PrunesOverLimit, PrunesAbandoned, deletion
  <2>2. CASE \E t \in Thread : EndsPruning(t)
    <3>1. PICK t \in Thread : EndsPruning(t) BY <2>2
    <3>2. t # Deleter BY <3>1 DEF EndsPruning, Prunes, IInv, LockInv, WellFormed
    <3>3. PICK label : Goto(t, label) BY <3>1 DEF EndsPruning
    <3>4. UNCHANGED <<exists, deleting, interrupted>> BY <3>1 DEF EndsPruning, deletion
    <3> QED BY <1>2, <3>2, <3>3, <3>4
  <2> QED BY <1>6, <2>1, <2>2 DEF PrunesOn
<1>7. CASE \E t \in Thread : Enters(t) \/ Acquires(t) \/ Leaves(t)
  <2>1. PICK t \in Thread : Enters(t) \/ Acquires(t) \/ Leaves(t) BY <1>7
  <2>2. PICK label : Goto(t, label) /\ (t = Deleter => label # "idle") /\ pc[t] # "idle"
    BY <2>1 DEF Enters, Acquires, Leaves
  <2>3. UNCHANGED <<exists, deleting, interrupted>>
    BY <2>1 DEF Enters, Acquires, Leaves, deletion
  <2> QED BY <1>2, <2>2, <2>3
<1>8. CASE LooksUp \/ Lists \/ Unlinks
  <2>1. PICK label : Goto(Deleter, label) /\ label # "idle" /\ pc[Deleter] # "idle"
    BY <1>8 DEF LooksUp, Lists, Unlinks
  <2>2. UNCHANGED <<exists, deleting, interrupted>>
    BY <1>8 DEF LooksUp, Lists, Unlinks, deletion
  <2> QED BY <1>1, <1>2, <2>1, <2>2
<1>9. CASE TakesNext
  <2>1. pc[Deleter] = "next" /\ UNCHANGED <<exists, interrupted>> BY <1>9 DEF TakesNext
  <2>2. CASE Goto(Deleter, "enter") /\ deleting' = deleting BY <1>1, <1>2, <2>1, <2>2
  <2>3. CASE Goto(Deleter, "idle") /\ deleting' = NoSession
    <3>1. pc'[Deleter] = "idle" BY <1>1, <2>3, OthersStay
    <3> QED BY <2>1, <2>3, <3>1, NoneAssumption DEF IInv, Deleting
  <2> QED BY <1>9, <2>2, <2>3 DEF TakesNext
<1>10. CASE \E s \in Session : Deletes(s)
  <2>1. PICK s \in Session : Deletes(s) BY <1>10
  <2>2. exists' = exists \ {s} /\ deleting' = s /\ interrupted' = interrupted
        /\ Goto(Deleter, "look up")
    BY <2>1 DEF Deletes
  <2>3. pc'[Deleter] = "look up" BY <1>1, <2>2, OthersStay
  <2> QED BY <2>2, <2>3, NoneAssumption DEF IInv, Deleting
<1>11. CASE \E p \in Part : Ages(p) \/ RunsOut(p)
  BY <1>11, DeletionGoesOn DEF Ages, RunsOut, deletion
<1>12. CASE Restarts
  <2>1. /\ pc'[Deleter] = "idle" /\ deleting' = NoSession /\ exists' = exists
        /\ interrupted' = interrupted \cup ({deleting} \ {NoSession})
    BY <1>1, <1>12 DEF Restarts
  <2> QED BY <2>1, NoneAssumption DEF IInv, Deleting
<1>13. CASE UNCHANGED vars BY <1>13, DeletionGoesOn DEF vars, deletion
<1> QED
  BY <1>3, <1>4, <1>5, <1>6, <1>7, <1>8, <1>9, <1>10, <1>11, <1>12, <1>13
  DEF Next, DeletesOn

-----------------------------------------------------------------------------
(* The locks, the files and the deletion: the inductive invariant of the   *)
(* replay cache.                                                           *)
THEOREM Inductive == Spec => []IInv
<1>1. Init => IInv BY InitOK
<1>2. IInv /\ [Next]_vars => IInv' BY LocksOK, FilesStay, GoneOK, DeletingOK DEF IInv
<1> QED BY <1>1, <1>2, PTL DEF Spec

(* A part is fetched, served and deleted by one thread at a time, although *)
(* its lock is made when somebody asks for it and dropped by the last to   *)
(* leave (_part_lock).                                                     *)
THEOREM PartsAreApart == Spec => []OneAtATime
<1>1. IInv => OneAtATime
  <2> SUFFICES ASSUME IInv, NEW s \in Thread, NEW t \in Thread,
                      Inside(s), Inside(t), part[s] = part[t]
               PROVE  s = t
    BY DEF OneAtATime
  <2>1. s \in Locker /\ t \in Locker BY Threads DEF Inside, IInv, LockInv, WellFormed
  <2>2. mine[s] = mine[t] BY <2>1 DEF Inside, IInv, LockInv, Locking
  <2> QED BY <2>2 DEF Inside
<1> QED BY <1>1, Inductive, PTL

(* Once a Session is deleted nothing of its video is left in the cache or  *)
(* comes back to it, whatever was being fetched, pruned or served when the *)
(* deletion came (delete_session_video, still_allowed).                    *)
THEOREM DeletedIsGone == Spec => []GoneOnceDeleted
<1>1. IInv => GoneOnceDeleted
  BY DEF IInv, Gone, Awaited, Clear, GoneOnceDeleted
<1> QED BY <1>1, Inductive, PTL

-----------------------------------------------------------------------------
(* What a player asked for stays until it is served. *)

(* Where a request has marked its part. *)
Marked == {"look", "prune", "fetch", "download", "rescan", "prune again", "serve"}

(* Where it leaves with a file to serve. *)
Settled(t) == pc[t] = "leave" /\ answer[t] = "none"

(* A request that marked its part keeps the mark, its half-written copy and *)
(* then its copy, until it lets the lock go; after that only the deletion  *)
(* of the Session takes the copy, and a second attempt is withdrawn.       *)
Secured(t) ==
    /\ pc[t] \in Marked \/ Settled(t) => part[t] \in inUse
    /\ pc[t] = "download" => part[t] \in partial
    /\ pc[t] \in {"rescan", "prune again"} \/ Settled(t) => part[t] \in copies
    /\ pc[t] = "serve" => part[t] \in copies \/ Owner[part[t]] \notin exists
    /\ attempt[t] = 2 => /\ Owner[part[t]] \notin exists
                         /\ \/ pc[t] \in {"enter", "wait", "check"}
                            \/ pc[t] = "leave" /\ answer[t] # "none"
    /\ answer[t] # "lost"

(* A deletion unlinks parts of its own Session only. *)
OfDeleted ==
    /\ pc[Deleter] \in {"next", "enter", "wait", "unlink", "leave"} =>
         \A p \in todo : Owner[p] = deleting
    /\ pc[Deleter] \in {"enter", "wait", "unlink", "leave"} => Owner[part[Deleter]] = deleting

Answers ==
    /\ attempt \in [Player -> 0..2]
    /\ answer \in [Player -> {"none", "file", "withdrawn", "unavailable", "lost"}]

ServeInv ==
    /\ Answers /\ OfDeleted
    /\ "slow" \notin scenario => \A t \in Player : Secured(t)

(* The part of a request the step is not of: its copy goes only when it has *)
(* no mark, or to the deletion.                                            *)
LEMMA Bystander ==
  ASSUME IInv, OfDeleted, NEW t \in Player, Secured(t),
         pc'[t] = pc[t], part'[t] = part[t], attempt'[t] = attempt[t], answer'[t] = answer[t],
         exists' \subseteq exists,
         pc[t] \in Marked \/ Settled(t) => (part[t] \in inUse => part[t] \in inUse'),
         pc[t] = "download" => (part[t] \in partial => part[t] \in partial'),
         \A p \in copies \ copies' : p \notin inUse \/ (pc[Deleter] = "unlink" /\ part[Deleter] = p)
  PROVE  Secured(t)'
<1>1. Settled(t)' <=> Settled(t) BY DEF Settled
<1>2. t \in Locker /\ Deleter \in Locker /\ t # Deleter BY Threads
<1>3. ASSUME pc[t] \in {"rescan", "prune again", "serve"} \/ Settled(t), part[t] \in copies,
             part[t] \notin copies'
      PROVE  pc[t] = "serve" /\ Owner[part[t]] \notin exists
  <2>1. part[t] \in inUse BY <1>3 DEF Secured, Marked
  <2>2. pc[Deleter] = "unlink" /\ part[Deleter] = part[t] BY <1>3, <2>1
  <2>3. pc[t] \notin Held BY <1>2, <2>2, Exclusive DEF IInv, Held
  <2>4. pc[t] = "serve" BY <1>3, <2>3 DEF Held, Settled
  <2> QED BY <2>2, <2>4 DEF OfDeleted, IInv, Deleting
<1>4. pc[t] \in {"rescan", "prune again"} \/ Settled(t) => part[t] \in copies'
  BY <1>3 DEF Secured, Settled
<1>5. pc[t] = "serve" => part[t] \in copies' \/ Owner[part[t]] \notin exists'
  BY <1>3 DEF Secured
<1> QED BY <1>1, <1>4, <1>5 DEF Secured, Marked

(* The steps of another thread's request, or of no request. *)
LEMMA Unaffected ==
  ASSUME IInv, OfDeleted, NEW t \in Player, Secured(t), NEW a \in Thread, a # t, NEW label,
         Goto(a, label), \A s \in Thread \ {a} : part'[s] = part[s],
         attempt'[t] = attempt[t], answer'[t] = answer[t],
         exists' \subseteq exists, inUse \subseteq inUse',
         \A p \in partial \ partial' : pc[a] \in Held /\ a \in Locker /\ part[a] = p,
         \A p \in copies \ copies' : pc[Deleter] = "unlink" /\ part[Deleter] = p
  PROVE  Secured(t)'
<1>1. t \in Locker /\ t \in Thread BY Threads
<1>2. pc'[t] = pc[t] /\ part'[t] = part[t] BY <1>1, OthersStay
<1>3. pc[t] = "download" /\ part[t] \in partial => part[t] \in partial'
  BY <1>1, Exclusive DEF IInv, Held
<1> QED BY <1>2, <1>3, Bystander

(* A step of the request itself. *)
LEMMA OwnStep ==
  ASSUME IInv, NEW t \in Player, Answers, Secured(t),
         Checks(t) \/ Marks(t) \/ Looks(t) \/ Fetches(t) \/ Downloads(t) \/ Rescans(t)
  PROVE  Secured(t)'
<1>1. t \in Thread BY Threads
<1>2. \A label : Goto(t, label) => pc'[t] = label BY <1>1, OthersStay
<1>3. CASE Checks(t)
  BY <1>2, <1>3 DEF Checks, Secured, Marked, Settled, Answers, files
<1>4. CASE Marks(t)
  BY <1>2, <1>4 DEF Marks, Secured, Marked, Settled, files
<1>5. CASE Looks(t)
  BY <1>2, <1>5 DEF Looks, Secured, Marked, Settled, files
<1>6. CASE Fetches(t)
  BY <1>2, <1>6 DEF Fetches, Secured, Marked, Settled, Answers
<1>7. CASE Downloads(t)
  BY <1>2, <1>7 DEF Downloads, Secured, Marked, Settled, Answers
<1>8. CASE Rescans(t)
  BY <1>2, <1>8 DEF Rescans, Secured, Marked, Settled, files
<1> QED BY <1>3, <1>4, <1>5, <1>6, <1>7, <1>8

LEMMA RequestsKeepTheirs ==
  ASSUME IInv, ServeInv, "slow" \notin scenario, NEW a \in Player,
         Checks(a) \/ Marks(a) \/ Looks(a) \/ Fetches(a) \/ Downloads(a) \/ Rescans(a),
         NEW t \in Player
  PROVE  Secured(t)'
<1>1. Secured(t) /\ Answers /\ OfDeleted BY DEF ServeInv
<1>2. CASE t = a BY <1>1, <1>2, OwnStep
<1>3. CASE t # a
  <2>1. PICK label : Goto(a, label)
    BY DEF Checks, Marks, Looks, Fetches, Downloads, Rescans
  <2>2. a \in Thread /\ a \in Locker BY Threads
  <2>3. /\ UNCHANGED <<part, attempt, exists>> /\ inUse \subseteq inUse' /\ copies \subseteq copies'
    BY DEF Checks, Marks, Looks, Fetches, Downloads, Rescans, files
  <2>4. answer'[t] = answer[t]
    BY <1>1, <1>3 DEF Answers, Checks, Marks, Looks, Fetches, Downloads, Rescans
  <2>5. \A p \in partial \ partial' : pc[a] \in Held /\ part[a] = p
    BY DEF Checks, Marks, Looks, Fetches, Downloads, Rescans, files, Held
  <2> QED BY <1>1, <1>3, <2>1, <2>2, <2>3, <2>4, <2>5, Unaffected
<1> QED BY <1>2, <1>3

\* It is asked, and it is served: a file, or once more if its Session is gone.
LEMMA ServedItsFile ==
  ASSUME IInv, ServeInv, "slow" \notin scenario, NEW a \in Player,
         Serves(a) \/ \E p \in Part : Asks(a, p), NEW t \in Player
  PROVE  Secured(t)'
<1>1. Secured(t) /\ Answers /\ OfDeleted BY DEF ServeInv
<1>2. a \in Thread BY Threads
<1>3. UNCHANGED <<copies, partial, exists, inUse>> BY DEF Serves, Asks, files
<1>4. CASE t = a
  <2>1. \A label : Goto(t, label) => pc'[t] = label BY <1>2, <1>4, OthersStay
  <2>2. part \in [Thread -> Part \cup {NoPart}] BY DEF IInv, LockInv, WellFormed
  <2>3. ASSUME pc'[t] \in {"idle", "enter"}, attempt'[t] # 2, answer'[t] # "lost"
        PROVE  Secured(t)'
    <3>1. pc'[t] \notin Marked /\ ~Settled(t)' BY <2>3 DEF Marked, Settled
    <3> QED BY <2>3, <3>1 DEF Secured
  <2>4. CASE Serves(a)
    <3>1. pc[t] = "serve" BY <1>4, <2>4 DEF Serves
    <3>2. attempt[t] # 2 BY <1>1, <3>1 DEF Secured
    <3>3. CASE Goto(t, "idle")
      <4>1. part[t] \in copies /\ attempt'[t] # 2 /\ answer'[t] = "file" /\ pc'[t] = "idle"
        BY <1>1, <1>4, <2>1, <2>4, <3>2, <3>3 DEF Serves, Answers
      <4> QED BY <2>3, <4>1
    <3>4. CASE Goto(t, "enter") /\ part[t] \notin copies /\ part' = part /\ answer' = answer
      <4>1. pc'[t] = "enter" /\ part'[t] = part[t] BY <2>1, <3>4
      <4>2. Owner[part[t]] \notin exists BY <1>1, <3>1, <3>4 DEF Secured
      <4>3. ~Settled(t)' BY <4>1 DEF Settled
      <4> QED BY <1>1, <1>3, <3>4, <4>1, <4>2, <4>3 DEF Secured, Marked
    <3> QED BY <1>4, <2>4, <3>3, <3>4 DEF Serves
  <2>5. CASE \E p \in Part : Asks(a, p)
    <3>1. pc'[t] = "enter" /\ attempt'[t] # 2 /\ answer'[t] = "none"
      BY <1>1, <1>4, <2>1, <2>5 DEF Asks, Answers
    <3> QED BY <2>3, <3>1
  <2> QED BY <2>4, <2>5
<1>5. CASE t # a
  <2>1. PICK label : Goto(a, label) BY DEF Serves, Asks
  <2>2. attempt'[t] = attempt[t] /\ answer'[t] = answer[t]
    BY <1>1, <1>5 DEF Serves, Asks, Answers
  <2>3. \A s \in Thread \ {a} : part'[s] = part[s]
    BY <1>2 DEF Serves, Asks, IInv, LockInv, WellFormed
  <2> QED BY <1>1, <1>2, <1>3, <1>5, <2>1, <2>2, <2>3, Unaffected
<1> QED BY <1>4, <1>5

\* Taking and releasing a lock; a request that leaves with a file serves it.
LEMMA LocksKeepTheirs ==
  ASSUME IInv, ServeInv, "slow" \notin scenario, NEW a \in Thread,
         Enters(a) \/ Acquires(a) \/ Leaves(a), NEW t \in Player
  PROVE  Secured(t)'
<1>1. Secured(t) /\ Answers /\ OfDeleted BY DEF ServeInv
<1>2. UNCHANGED <<copies, partial, exists, inUse, answer>>
  BY DEF Enters, Acquires, Leaves, files
<1>3. PICK label : Goto(a, label) BY DEF Enters, Acquires, Leaves
<1>4. CASE t = a
  <2>1. \A l : Goto(t, l) => pc'[t] = l BY <1>4, OthersStay
  <2>2. part \in [Thread -> Part \cup {NoPart}] BY DEF IInv, LockInv, WellFormed
  <2>3. t # Deleter BY Threads
  <2>4. CASE Enters(a)
    BY <1>1, <1>2, <1>4, <2>1, <2>4 DEF Enters, Secured, Marked, Settled
  <2>5. CASE Acquires(a)
    BY <1>1, <1>2, <1>4, <2>1, <2>3, <2>5 DEF Acquires, Secured, Marked, Settled
  <2>6. CASE Leaves(a)
    <3>1. pc[t] = "leave" BY <1>4, <2>6 DEF Leaves
    <3>2. CASE answer[t] = "none"
      <4>1. Goto(t, "serve") /\ UNCHANGED <<part, attempt>>
        BY <1>4, <2>3, <2>6, <3>2 DEF Leaves
      <4>2. pc'[t] = "serve" /\ part'[t] = part[t] /\ Settled(t) /\ ~Settled(t)'
        BY <2>1, <3>1, <3>2, <4>1 DEF Settled
      <4>3. part[t] \in inUse /\ part[t] \in copies /\ attempt[t] # 2
        BY <1>1, <3>1, <3>2, <4>2 DEF Secured
      <4> QED BY <1>1, <1>2, <4>1, <4>2, <4>3 DEF Secured, Marked
    <3>3. CASE answer[t] # "none"
      <4>1. Goto(t, "idle") /\ attempt' = [attempt EXCEPT ![t] = 0]
        BY <1>4, <2>3, <2>6, <3>3 DEF Leaves
      <4>2. pc'[t] = "idle" /\ attempt'[t] # 2 /\ ~Settled(t)'
        BY <1>1, <2>1, <4>1 DEF Settled, Answers
      <4> QED BY <1>1, <1>2, <4>2 DEF Secured, Marked
    <3> QED BY <3>2, <3>3
  <2> QED BY <2>4, <2>5, <2>6
<1>5. CASE t # a
  <2>1. attempt'[t] = attempt[t] BY <1>1, <1>5 DEF Enters, Acquires, Leaves, Answers
  <2>2. \A s \in Thread \ {a} : part'[s] = part[s]
    BY DEF Enters, Acquires, Leaves, IInv, LockInv, WellFormed
  <2> QED BY <1>1, <1>2, <1>3, <1>5, <2>1, <2>2, Unaffected
<1> QED BY <1>4, <1>5

\* Pruning takes no copy that is marked and no download that goes on.
LEMMA PruningKeepsTheirs ==
  ASSUME IInv, ServeInv, "slow" \notin scenario,
         Cleans \/ \E a \in Thread : PrunesOn(a), NEW t \in Player
  PROVE  Secured(t)'
<1>1. Secured(t) /\ Answers /\ OfDeleted BY DEF ServeInv
<1>2. t \in Thread /\ t # Cleaner BY Threads, ThreadAssumption
<1>3. CASE Cleans
  <2>1. Goto(Cleaner, "prune") /\ UNCHANGED <<copies, partial, exists, inUse, answer, attempt, part>>
    BY <1>3 DEF Cleans, files
  <2> QED BY <1>1, <1>2, <2>1, Threads, Unaffected
<1>4. CASE \E a \in Thread : PrunesExpired(a) \/ PrunesOverLimit(a)
  <2>1. UNCHANGED <<partial, exists, inUse, answer, attempt, pc, part>>
    BY <1>4 DEF PrunesExpired, PrunesOverLimit
  <2>2. \A p \in copies \ copies' : p \notin inUse
    BY <1>4 DEF PrunesExpired, PrunesOverLimit, UnlinkedUnlessInUse
  <2> QED BY <1>1, <2>1, <2>2, Bystander
<1>5. CASE \E a \in Thread : PrunesAbandoned(a)
  <2>1. UNCHANGED <<copies, exists, inUse, answer, attempt, pc, part>>
    BY <1>5 DEF PrunesAbandoned
  <2>2. pc[t] = "download" /\ part[t] \in partial => part[t] \in partial'
    BY <1>2, <1>5 DEF PrunesAbandoned, Abandoned
  <2> QED BY <1>1, <2>1, <2>2, Bystander
<1>6. CASE \E a \in Thread : EndsPruning(a)
  <2>1. PICK a \in Thread : EndsPruning(a) BY <1>6
  <2>2. UNCHANGED <<copies, partial, exists, inUse, answer, attempt, part>>
    BY <2>1 DEF EndsPruning, files
  <2>3. PICK label : Goto(a, label) /\ (a # Cleaner => label = IF pc[a] = "prune" THEN "fetch" ELSE "leave")
    BY <2>1 DEF EndsPruning
  <2>4. CASE t # a BY <1>1, <2>2, <2>3, <2>4, Unaffected
  <2>5. CASE t = a
    <3>1. pc'[t] = label BY <2>3, <2>5, OthersStay
    <3>2. \/ pc[t] = "prune" /\ label = "fetch"
          \/ pc[t] = "prune again" /\ label = "leave"
      BY <1>2, <2>1, <2>3, <2>5 DEF EndsPruning, Prunes
    <3> QED BY <1>1, <2>2, <3>1, <3>2 DEF Secured, Marked, Settled
  <2> QED BY <2>4, <2>5
<1> QED BY <1>3, <1>4, <1>5, <1>6 DEF PrunesOn

\* The deletion unlinks only what its own Session recorded.
LEMMA DeletionKeepsTheirs ==
  ASSUME IInv, ServeInv, "slow" \notin scenario,
         DeletesOn \/ \E s \in Session : Deletes(s), NEW t \in Player
  PROVE  Secured(t)'
<1>1. Secured(t) /\ Answers /\ OfDeleted BY DEF ServeInv
<1>2. t # Deleter /\ Deleter \in Thread /\ Deleter \in Locker BY Threads
<1>3. PICK label : Goto(Deleter, label)
  BY DEF DeletesOn, LooksUp, Lists, TakesNext, Unlinks, Deletes
<1>4. UNCHANGED <<inUse, answer, attempt>> /\ exists' \subseteq exists
  BY DEF DeletesOn, LooksUp, Lists, TakesNext, Unlinks, Deletes
<1>5. \A s \in Thread \ {Deleter} : part'[s] = part[s]
  BY <1>2 DEF DeletesOn, LooksUp, Lists, TakesNext, Unlinks, Deletes, IInv, LockInv, WellFormed
<1>6. \A p \in (copies \ copies') \cup (partial \ partial') :
         pc[Deleter] = "unlink" /\ part[Deleter] = p
  BY DEF DeletesOn, LooksUp, Lists, TakesNext, Unlinks, Deletes, files
<1>7. \A p \in partial \ partial' : pc[Deleter] \in Held /\ part[Deleter] = p
  BY <1>6 DEF Held
<1> QED BY <1>1, <1>2, <1>3, <1>4, <1>5, <1>6, <1>7, Unaffected

\* A mark runs out only when no request that made it is under way.
LEMMA TimeKeepsTheirs ==
  ASSUME IInv, ServeInv, "slow" \notin scenario, NEW t \in Player,
         UNCHANGED vars \/ \E p \in Part : Ages(p) \/ RunsOut(p)
  PROVE  Secured(t)'
<1>1. Secured(t) /\ OfDeleted BY DEF ServeInv
<1>2. UNCHANGED <<copies, partial, exists, answer, attempt, pc, part>>
  BY DEF Ages, RunsOut, vars, files
<1>3. pc[t] \in Marked \/ Settled(t) => (part[t] \in inUse => part[t] \in inUse')
  BY DEF Ages, RunsOut, Outlasted, vars, Marked, Settled
<1> QED BY <1>1, <1>2, <1>3, Bystander

LEMMA RestartKeepsTheirs ==
  ASSUME Restarts, NEW t \in Player PROVE Secured(t)'
<1>1. pc'[t] = "idle" /\ attempt'[t] = 0 /\ answer'[t] = "none" BY Threads DEF Restarts
<1> QED BY <1>1 DEF Secured, Marked, Settled

-----------------------------------------------------------------------------
LEMMA AnswersOK == ASSUME ServeInv, [Next]_vars PROVE Answers'
<1>1. Answers BY DEF ServeInv
<1>2. CASE \E t \in Player : Plays(t)
  <2>1. PICK t \in Player : Plays(t) BY <1>2
  <2>2. \/ attempt' = attempt
        \/ attempt' = [attempt EXCEPT ![t] = 0]
        \/ attempt' = [attempt EXCEPT ![t] = 2]
    BY <2>1 DEF Plays, Checks, Marks, Looks, Fetches, Downloads, Rescans, Serves
  <2>3. \/ answer' = answer
        \/ \E v \in {"file", "withdrawn", "unavailable", "lost"} : answer' = [answer EXCEPT ![t] = v]
    <3>1. CASE Serves(t) BY <3>1 DEF Serves
    <3>2. CASE ~Serves(t)
      BY <2>1, <3>2 DEF Plays, Checks, Marks, Looks, Fetches, Downloads, Rescans
    <3> QED BY <3>1, <3>2
  <2>4. attempt' \in [Player -> 0..2] BY <1>1, <2>2 DEF Answers
  <2>5. answer' \in [Player -> {"none", "file", "withdrawn", "unavailable", "lost"}]
    BY <1>1, <2>3 DEF Answers
  <2> QED BY <2>4, <2>5 DEF Answers
<1>3. CASE \E t \in Thread : Enters(t) \/ Acquires(t) \/ Leaves(t)
  BY <1>1, <1>3 DEF Answers, Enters, Acquires, Leaves
<1>4. CASE Restarts BY <1>4 DEF Answers, Restarts
<1>5. CASE \E t \in Player, p \in Part : Asks(t, p) BY <1>1, <1>5 DEF Answers, Asks
<1>6. CASE UNCHANGED <<attempt, answer>> BY <1>1, <1>6 DEF Answers
<1> QED BY <1>2, <1>3, <1>4, <1>5, <1>6
  DEF Next, vars, PrunesOn, PrunesExpired, PrunesOverLimit, EndsPruning, PrunesAbandoned, Cleans,
      DeletesOn, LooksUp, Lists, TakesNext, Unlinks, Deletes, Ages, RunsOut

LEMMA OfDeletedOK == ASSUME IInv, ServeInv, [Next]_vars PROVE OfDeleted'
<1>1. OfDeleted BY DEF ServeInv
<1>2. Deleter \in Thread /\ Deleter \notin Player /\ Deleter # Cleaner BY Threads
<1>3. part \in [Thread -> Part \cup {NoPart}] /\ pc \in [Thread -> Labels]
      /\ pc[Deleter] \notin {"prune", "prune again"}
  BY DEF IInv, LockInv, WellFormed
<1>4. ASSUME pc'[Deleter] = pc[Deleter], part'[Deleter] = part[Deleter], UNCHANGED <<todo, deleting>>
      PROVE  OfDeleted'
  BY <1>1, <1>4 DEF OfDeleted
<1>5. ASSUME NEW a \in Thread, a # Deleter, NEW label, Goto(a, label), NEW v,
             part' = part \/ part' = [part EXCEPT ![a] = v], UNCHANGED <<todo, deleting>>
      PROVE  OfDeleted'
  <2>1. pc'[Deleter] = pc[Deleter] /\ part'[Deleter] = part[Deleter]
    BY <1>2, <1>3, <1>5 DEF Goto
  <2> QED BY <1>4, <1>5, <2>1
<1>6. CASE \E t \in Player : Plays(t) \/ \E p \in Part : Asks(t, p)
  <2>1. PICK t \in Player : Plays(t) \/ \E p \in Part : Asks(t, p) BY <1>6
  <2>2. UNCHANGED <<todo, deleting>> /\ (\E label : Goto(t, label))
        /\ \E v : part' = part \/ part' = [part EXCEPT ![t] = v]
    BY <2>1 DEF Plays, Checks, Marks, Looks, Fetches, Downloads, Rescans, Serves, Asks, deletion
  <2> QED BY <1>2, <1>5, <2>1, <2>2, Threads
<1>7. CASE \E t \in Thread : Enters(t) \/ Acquires(t) \/ Leaves(t)
  <2>1. PICK t \in Thread : Enters(t) \/ Acquires(t) \/ Leaves(t) BY <1>7
  <2>2. UNCHANGED <<todo, deleting>> /\ (\E label : Goto(t, label))
        /\ \E v : part' = part \/ part' = [part EXCEPT ![t] = v]
    BY <2>1 DEF Enters, Acquires, Leaves, deletion
  <2>3. CASE t = Deleter
    <3>1. CASE Enters(t) BY <1>1, <1>2, <1>3, <2>2, <2>3, <3>1 DEF Enters, Goto, OfDeleted
    <3>2. CASE Acquires(t) BY <1>1, <1>2, <1>3, <2>2, <2>3, <3>2 DEF Acquires, Goto, OfDeleted
    <3>3. CASE Leaves(t) BY <1>1, <1>2, <1>3, <2>2, <2>3, <3>3 DEF Leaves, Goto, OfDeleted
    <3> QED BY <2>1, <3>1, <3>2, <3>3
  <2> QED BY <1>5, <2>1, <2>2, <2>3
<1>8. CASE \E t \in Thread : PrunesOn(t)
  <2>1. CASE \E t \in Thread : PrunesExpired(t) \/ PrunesOverLimit(t) \/ PrunesAbandoned(t)
    BY <1>4, <2>1 DEF PrunesExpired, PrunesOverLimit, PrunesAbandoned, deletion
  <2>2. CASE \E t \in Thread : EndsPruning(t)
    <3>1. PICK t \in Thread : EndsPruning(t) BY <2>2
    <3>2. t # Deleter /\ part' = part /\ UNCHANGED <<todo, deleting>> /\ \E label : Goto(t, label)
      BY <1>3, <3>1 DEF EndsPruning, Prunes, deletion
    <3> QED BY <1>5, <3>1, <3>2
  <2> QED BY <1>8, <2>1, <2>2 DEF PrunesOn
<1>9. CASE Cleans BY <1>2, <1>5, <1>9, Threads DEF Cleans, deletion
<1>10. CASE LooksUp BY <1>2, <1>3, <1>10 DEF LooksUp, Goto, OfDeleted
<1>11. CASE Lists BY <1>2, <1>3, <1>11 DEF Lists, Goto, OfDeleted
<1>12. CASE TakesNext BY <1>1, <1>2, <1>3, <1>12 DEF TakesNext, Goto, OfDeleted
<1>13. CASE Unlinks BY <1>1, <1>2, <1>3, <1>13 DEF Unlinks, Goto, OfDeleted, deletion
<1>14. CASE \E s \in Session : Deletes(s) BY <1>2, <1>3, <1>14 DEF Deletes, Goto, OfDeleted
<1>15. CASE Restarts BY <1>2, <1>15 DEF Restarts, OfDeleted
<1>16. CASE UNCHANGED vars \/ \E p \in Part : Ages(p) \/ RunsOut(p)
  BY <1>4, <1>16 DEF vars, Ages, RunsOut, deletion
<1> QED
  BY <1>6, <1>7, <1>8, <1>9, <1>10, <1>11, <1>12, <1>13, <1>14, <1>15, <1>16
  DEF Next, DeletesOn

LEMMA ServeInductive == ASSUME IInv, ServeInv, [Next]_vars PROVE ServeInv'
<1>1. scenario' = scenario
  BY DEF Next, vars, times, Plays, Checks, Marks, Looks, Fetches, Downloads, Rescans, Serves, Asks,
         Enters, Acquires, Leaves, PrunesOn, PrunesExpired, PrunesOverLimit, EndsPruning,
         PrunesAbandoned, Cleans, DeletesOn, LooksUp, Lists, TakesNext, Unlinks, Deletes, Ages,
         RunsOut, Restarts
<1>2. ASSUME "slow" \notin scenario, NEW t \in Player PROVE Secured(t)'
  <2>1. CASE \E a \in Player : Plays(a)
    BY <1>2, <2>1, RequestsKeepTheirs, ServedItsFile DEF Plays
  <2>2. CASE \E a \in Thread : Enters(a) \/ Acquires(a) \/ Leaves(a) \/ PrunesOn(a)
    BY <1>2, <2>2, LocksKeepTheirs, PruningKeepsTheirs
  <2>3. CASE \E a \in Player, p \in Part : Asks(a, p) BY <1>2, <2>3, ServedItsFile
  <2>4. CASE Cleans BY <1>2, <2>4, PruningKeepsTheirs
  <2>5. CASE DeletesOn \/ \E s \in Session : Deletes(s) BY <1>2, <2>5, DeletionKeepsTheirs
  <2>6. CASE UNCHANGED vars \/ \E p \in Part : Ages(p) \/ RunsOut(p)
    BY <1>2, <2>6, TimeKeepsTheirs
  <2>7. CASE Restarts BY <1>2, <2>7, RestartKeepsTheirs
  <2> QED BY <2>1, <2>2, <2>3, <2>4, <2>5, <2>6, <2>7 DEF Next
<1> QED BY <1>1, <1>2, AnswersOK, OfDeletedOK DEF ServeInv

(* No player is told its recording is not available because the cache was  *)
(* cleaned under it, for any budget and any number of players: only the    *)
(* deletion of its Session takes a copy between its fetch and its serving, *)
(* and then the second attempt is withdrawn (file_response, _prune_cache). *)
THEOREM NoneIsLost == Spec => []NeverLost
<1>1. Init => ServeInv
  <2> SUFFICES ASSUME Init PROVE ServeInv OBVIOUS
  <2>1. \A t \in Player : pc[t] = "idle" /\ attempt[t] # 2 /\ answer[t] = "none"
    BY Threads DEF Init
  <2>2. pc[Deleter] = "idle" BY Threads DEF Init
  <2>3. Answers BY DEF Init, Answers
  <2>4. OfDeleted BY <2>2 DEF OfDeleted
  <2>5. ASSUME NEW t \in Player PROVE Secured(t)
    <3>1. pc[t] \notin Marked /\ ~Settled(t) BY <2>1 DEF Marked, Settled
    <3> QED BY <2>1, <3>1 DEF Secured
  <2> QED BY <2>3, <2>4, <2>5 DEF ServeInv
<1>2. IInv /\ ServeInv /\ [Next]_vars => ServeInv' BY ServeInductive
<1>3. ServeInv => NeverLost BY DEF ServeInv, NeverLost, Secured
<1> QED BY <1>1, <1>2, <1>3, Inductive, PTL DEF Spec

=============================================================================
