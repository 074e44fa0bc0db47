--------------------------- MODULE ComposerProofs ---------------------------
(***************************************************************************)
(* What `up` promises about a Detection Service it gave up on, and what an *)
(* `up` or a `release` that returns zero leaves behind, for any number of  *)
(* composers, commands and launches, and every fault at once.              *)
(*                                                                         *)
(* FailedStartIsEnded alone is not inductive: that a start which timed out *)
(* is ended rests on where in its command a composer can remember a launch *)
(* at all, on the launch having become a process before the signal, and on *)
(* no other composer being given a launch somebody remembers.              *)
(*                                                                         *)
(* UpIsComplete and ReleaseIsWhole rest on what an undisturbed command has *)
(* done of its work wherever it is, whatever it found when it began.       *)
(***************************************************************************)
EXTENDS Composer, TLAPS

Fields == {"cmd", "at", "stage", "left", "listing", "fine", "launch", "todo"}

(* The places of up alone. *)
UpPlaces == {"ready", "compose", "video", "detection", "await"}

(* Only up comes past its release directories, so only up starts a         *)
(* Detection Service.                                                      *)
UpOnly(r) == r.stage = "ready" \/ r.at \in UpPlaces => r.cmd.op = "up"

(* A launch is remembered while it is waited for and ended, and after that. *)
Remembers(r) ==
  /\ r.launch \subseteq Launches
  /\ r.launch # {} => r.at \in {"await", "signal", "drain", "idle"}
  /\ r.launch # {} /\ r.at # "idle" => r.cmd.op = "up"

(* What has become of a remembered launch, by where its composer is. *)
Settled(r, svc) ==
  /\ r.at \in {"signal", "drain"} => \A i \in r.launch : svc[i] # "spawning"
  /\ r.at = "idle" => \A i \in r.launch : svc[i] = "free"

(* The inductive invariant. *)
IInv ==
  /\ service \in [Launches -> {"free", "spawning", "starting", "on", "ending"}]
  /\ DOMAIN run = Composers /\ DOMAIN result = Composers
  /\ run = [c \in Composers |-> run[c]]
  /\ \A c \in Composers :
       /\ DOMAIN run[c] = Fields /\ UpOnly(run[c])
       /\ Remembers(run[c]) /\ Settled(run[c], service)
       /\ result[c] = "failed" => At(c, "idle")

-----------------------------------------------------------------------------
LEMMA NotRunningShape ==
  /\ DOMAIN NotRunning = Fields
  /\ NotRunning.at = "idle" /\ NotRunning.launch = {} /\ NotRunning.stage = "none"
BY DEF NotRunning, Fields

(* The initial states satisfy it: nothing is running or remembered. *)
LEMMA InitOK == Init => IInv
<1> SUFFICES ASSUME Init PROVE IInv OBVIOUS
<1>1. service \in [Launches -> {"free", "spawning", "starting", "on", "ending"}] BY DEF Init
<1>2. DOMAIN run = Composers /\ DOMAIN result = Composers /\ run = [c \in Composers |-> run[c]]
  BY DEF Init
<1>3. \A c \in Composers : run[c] = NotRunning /\ result[c] = "none" BY DEF Init
<1> QED
  BY <1>1, <1>2, <1>3, NotRunningShape DEF IInv, UpOnly, UpPlaces, Remembers, Settled, At

(* What another composer's step leaves the services of remembered launches. *)
Kept(c) ==
  /\ service' \in [Launches -> {"free", "spawning", "starting", "on", "ending"}]
  /\ \A d \in Composers \ {c} : \A i \in run[d].launch :
       /\ service[i] = "free" => service'[i] = "free"
       /\ service[i] # "spawning" => service'[i] # "spawning"

(* A step of c that changes its own record alone, and the services of no   *)
(* launch that another composer remembers except towards their end.        *)
LEMMA OwnStep ==
  ASSUME IInv, NEW c \in Composers, NEW r, run' = [run EXCEPT ![c] = r],
         DOMAIN r = Fields, UpOnly(r), Remembers(r), Settled(r, service'),
         DOMAIN result' = Composers,
         \A d \in Composers \ {c} : result'[d] = result[d],
         result'[c] = "failed" => r.at = "idle",
         Kept(c)
  PROVE  IInv'
<1>1. DOMAIN run' = Composers /\ run' = [d \in Composers |-> run'[d]] /\ run'[c] = r
      /\ \A d \in Composers \ {c} : run'[d] = run[d]
  BY DEF IInv
<1>2. \A d \in Composers \ {c} : DOMAIN run[d] = Fields /\ UpOnly(run[d]) /\ Remembers(run[d])
      /\ Settled(run[d], service) /\ (result[d] = "failed" => At(d, "idle"))
  BY DEF IInv
<1>3. \A d \in Composers \ {c} : Settled(run[d], service')
  BY <1>2 DEF Settled, Kept
<1>4. \A d \in Composers :
       /\ DOMAIN run'[d] = Fields /\ UpOnly(run[d])'
       /\ Remembers(run[d])' /\ Settled(run'[d], service')
       /\ result'[d] = "failed" => At(d, "idle")'
  <2> TAKE d \in Composers
  <2>1. CASE d = c BY <2>1, <1>1 DEF UpOnly, Remembers, Settled, At
  <2>2. CASE d # c BY <2>2, <1>1, <1>2, <1>3 DEF UpOnly, Remembers, Settled, At
  <2> QED BY <2>1, <2>2
<1> QED BY <1>1, <1>4 DEF IInv, Kept

LEMMA KeptUnchanged ==
  ASSUME IInv, NEW c \in Composers, UNCHANGED service PROVE Kept(c)
BY DEF IInv, Kept

(* A command begins with nothing remembered. *)
LEMMA BeginsOK ==
  ASSUME IInv, NEW c \in Composers, NEW cmd, NEW rest, Begins(c, cmd, rest), Kept(c)
  PROVE  IInv'
<1> PICK r : r = [NotRunning EXCEPT !.cmd = cmd, !.at = Entry(cmd.op), !.left = EnvOrder,
                    !.stage = IF cmd.op = "build" THEN "build" ELSE "releases",
                    !.todo = rest]
  OBVIOUS
<1>1. run' = [run EXCEPT ![c] = r] /\ result' = [result EXCEPT ![c] = "none"] BY DEF Begins
<1>2. DOMAIN r = Fields /\ r.launch = {} /\ r.at = Entry(cmd.op)
      /\ r.stage \in {"build", "releases"}
  BY NotRunningShape DEF Fields
<1>3. r.at \in {"check", "releases", "terminate"} BY <1>2 DEF Entry
<1>4. UpOnly(r) /\ Remembers(r) /\ Settled(r, service')
  BY <1>2, <1>3 DEF UpOnly, UpPlaces, Remembers, Settled
<1>5. DOMAIN result' = Composers /\ (result'[c] = "failed" => r.at = "idle")
      /\ \A d \in Composers \ {c} : result'[d] = result[d]
  BY <1>1 DEF IInv
<1> QED BY <1>1, <1>2, <1>4, <1>5, OwnStep

(* A command returns: with nothing remembered, or with a failure once what *)
(* it remembers is free.                                                   *)
LEMMA ReturnsOK ==
  ASSUME IInv, NEW c \in Composers, NEW how, Returns(c, how), Kept(c),
         \A i \in run[c].launch : service'[i] = "free"
  PROVE  IInv'
<1>1. CASE how = "ok" /\ run[c].todo # <<>>
  BY <1>1, BeginsOK DEF Returns
<1>2. CASE ~(how = "ok" /\ run[c].todo # <<>>)
  <2> PICK r : r = IF how = "ok" THEN [NotRunning EXCEPT !.cmd = run[c].cmd]
                   ELSE [NotRunning EXCEPT !.launch = run[c].launch]
    OBVIOUS
  <2>1. run' = [run EXCEPT ![c] = r] /\ result' = [result EXCEPT ![c] = how]
    BY <1>2 DEF Returns
  <2>2. DOMAIN r = Fields /\ r.launch \subseteq run[c].launch /\ r.at = "idle" /\ r.stage = "none"
    BY NotRunningShape DEF Fields
  <2>3. UpOnly(r) /\ Remembers(r) /\ Settled(r, service')
    BY <2>2 DEF UpOnly, UpPlaces, Remembers, Settled, IInv
  <2>4. DOMAIN result' = Composers /\ (result'[c] = "failed" => r.at = "idle")
        /\ \A d \in Composers \ {c} : result'[d] = result[d]
    BY <2>1, <2>2 DEF IInv
  <2> QED BY <2>1, <2>2, <2>3, <2>4, OwnStep
<1> QED BY <1>1, <1>2

(* Where the steps of c that end without returning leave its record. *)
Onward(c, r) ==
  /\ DOMAIN r = Fields /\ UpOnly(r) /\ Remembers(r) /\ Settled(r, service')
  /\ r.at # "idle"

LEMMA OnwardOK ==
  ASSUME IInv, NEW c \in Composers, NEW r, run' = [run EXCEPT ![c] = r], Onward(c, r),
         result' = result, ~At(c, "idle"), Kept(c)
  PROVE  IInv'
<1>1. DOMAIN result' = Composers /\ result'[c] # "failed" BY DEF IInv
<1> QED BY <1>1, OwnStep DEF Onward

(* The steps that go on with nothing remembered. *)
LEMMA GoesOn ==
  ASSUME IInv, NEW c \in Composers, NEW r, run' = [run EXCEPT ![c] = r],
         result' = result, Kept(c), ~At(c, "idle"),
         DOMAIN r = Fields, r.launch = {}, r.at # "idle", r.cmd = run[c].cmd,
         r.stage = run[c].stage \/ Cmd(c).op = "up",
         r.at \in UpPlaces => Cmd(c).op = "up"
  PROVE  IInv'
<1>1. UpOnly(run[c]) BY DEF IInv
<1>2. Onward(c, r) BY <1>1 DEF Onward, UpOnly, Remembers, Settled, Cmd
<1> QED BY <1>2, OnwardOK

LEMMA GoOK ==
  ASSUME IInv, NEW c \in Composers, NEW place, Go(c, place), result' = result, Kept(c),
         ~At(c, "idle"), run[c].launch = {}, place # "idle",
         place \in UpPlaces => Cmd(c).op = "up"
  PROVE  IInv'
<1> PICK r : r = [run[c] EXCEPT !.at = place] OBVIOUS
<1>1. run' = [run EXCEPT ![c] = r] BY DEF Go
<1>2. DOMAIN r = Fields /\ r.at = place /\ r.launch = {} /\ r.stage = run[c].stage
      /\ r.cmd = run[c].cmd
  BY DEF IInv, Fields
<1> QED BY <1>1, <1>2, GoesOn

(* The same with the loop of environments moved on. *)
LEMMA LeftOK ==
  ASSUME IInv, NEW c \in Composers, NEW place, NEW left,
         run' = [run EXCEPT ![c].left = left, ![c].at = place], result' = result, Kept(c),
         ~At(c, "idle"), run[c].launch = {}, place # "idle", place \notin UpPlaces
  PROVE  IInv'
<1> PICK r : r = [run[c] EXCEPT !.left = left, !.at = place] OBVIOUS
<1>1. run' = [run EXCEPT ![c] = r] BY DEF IInv
<1>2. DOMAIN r = Fields /\ r.at = place /\ r.launch = {} /\ r.stage = run[c].stage
      /\ r.cmd = run[c].cmd
  BY DEF IInv, Fields
<1> QED BY <1>1, <1>2, GoesOn

(* Where a composer neither waits for a launch nor ends one. *)
LEMMA NothingRemembered ==
  ASSUME IInv, NEW c \in Composers,
         run[c].at \notin {"await", "signal", "drain", "idle"}
  PROVE  run[c].launch = {} /\ ~At(c, "idle")
BY DEF IInv, Remembers, At

(* After, in the stages it is asked in. *)
LEMMA AfterOK ==
  ASSUME IInv, NEW c \in Composers
  PROVE  After(c) # "idle" /\ (After(c) \in UpPlaces => Cmd(c).op = "up")
BY DEF IInv, UpOnly, UpPlaces, After, Cmd

LEMMA NextBuildOK ==
  ASSUME IInv, NEW c \in Composers, NextBuild(c), Kept(c),
         run[c].at \notin {"await", "signal", "drain", "idle"}
  PROVE  IInv'
<1>1. run[c].launch = {} /\ ~At(c, "idle") BY NothingRemembered
<1>2. CASE Len(run[c].left) > 1
  <2> PICK left : left = Tail(run[c].left) OBVIOUS
  <2>1. run' = [run EXCEPT ![c].left = left, ![c].at = "clear"] /\ result' = result
    BY <1>2 DEF NextBuild, ghosts
  <2>2. "clear" # "idle" /\ "clear" \notin UpPlaces BY DEF UpPlaces
  <2> QED BY <1>1, <2>1, <2>2, LeftOK
<1>3. CASE ~(Len(run[c].left) > 1) /\ run[c].stage = "build"
  BY <1>1, <1>3, ReturnsOK DEF NextBuild
<1>4. CASE ~(Len(run[c].left) > 1) /\ run[c].stage # "build"
  <2> PICK place : place = After(c) OBVIOUS
  <2>1. Go(c, place) /\ result' = result BY <1>4 DEF NextBuild, ghosts
  <2>2. place # "idle" /\ (place \in UpPlaces => Cmd(c).op = "up") BY AfterOK
  <2> QED BY <1>1, <2>1, <2>2, GoOK
<1> QED BY <1>2, <1>3, <1>4

-----------------------------------------------------------------------------
(* The steps of up, build and release that touch no launch. *)

LEMMA PlainSteps ==
  ASSUME IInv, NEW c \in Composers,
         \/ Check(c) \/ StopOther(c) \/ EnsureReleases(c) \/ Clear(c) \/ Publish(c)
         \/ SyncRuntimeAssets(c) \/ Rehydrate(c) \/ FetchImages(c) \/ StartVideo(c)
         \/ PreparePps(c) \/ LaunchPps(c) \/ AttachedStarts(c) \/ AttachedEnds(c) \/ Terminate(c)
         \/ StopVideo(c) \/ StopEnv(c) \/ RemoveRelease(c) \/ ComposeUp(c)
  PROVE  IInv'
<1>1. UNCHANGED service
  BY DEF Check, StopOther, EnsureReleases, Clear, Publish, SyncRuntimeAssets, Rehydrate,
         FetchImages, StartVideo, PreparePps, LaunchPps, AttachedStarts, AttachedEnds, Terminate,
         StopVideo, StopEnv, RemoveRelease, ComposeUp, processes, disk
<1>2. Kept(c) BY <1>1, KeptUnchanged
<1>3. run[c].at \notin {"await", "signal", "drain", "idle"}
  BY DEF Check, StopOther, EnsureReleases, Clear, Publish, SyncRuntimeAssets, Rehydrate,
         FetchImages, StartVideo, PreparePps, LaunchPps, AttachedStarts, AttachedEnds, Terminate,
         StopVideo, StopEnv, RemoveRelease, ComposeUp, At
<1>4. run[c].launch = {} /\ ~At(c, "idle") BY <1>3, NothingRemembered
<1>5. ASSUME NEW how, Returns(c, how) PROVE IInv'
  BY <1>2, <1>4, <1>5, ReturnsOK
<1>6. ASSUME NEW place, Go(c, place), UNCHANGED ghosts, place # "idle",
             place \in UpPlaces => Cmd(c).op = "up"
      PROVE  IInv'
  BY <1>2, <1>4, <1>6, GoOK DEF ghosts
<1>7. ASSUME NextBuild(c) PROVE IInv'
  BY <1>2, <1>3, <1>7, NextBuildOK
<1>8. run[c].at \in UpPlaces => Cmd(c).op = "up" BY DEF IInv, UpOnly, Cmd
<1>9. CASE Check(c)
  <2>1. (\E place \in {"clear", "other"} : Go(c, place) /\ UNCHANGED ghosts)
        \/ Returns(c, "failed")
    BY <1>9 DEF Check
  <2> QED BY <2>1, <1>5, <1>6 DEF UpPlaces
<1>10. CASE StopOther(c) BY <1>10, <1>6 DEF StopOther, UpPlaces
<1>11. CASE EnsureReleases(c)
  <2>1. (\E place : place = IF Built THEN After(c) ELSE "clear") OBVIOUS
  <2>2. PICK place : place = IF Built THEN After(c) ELSE "clear" BY <2>1
  <2>3. place # "idle" /\ (place \in UpPlaces => Cmd(c).op = "up")
    BY <2>2, AfterOK DEF UpPlaces
  <2> QED BY <1>11, <2>2, <2>3, <1>6 DEF EnsureReleases
<1>12. CASE Clear(c) BY <1>12, <1>6 DEF Clear, UpPlaces
<1>13. CASE Publish(c) BY <1>13, <1>5, <1>6 DEF Publish, UpPlaces
<1>14. CASE SyncRuntimeAssets(c) BY <1>14, <1>5, <1>6 DEF SyncRuntimeAssets, UpPlaces
<1>15. CASE Rehydrate(c) BY <1>15, <1>5, <1>6, <1>7 DEF Rehydrate, UpPlaces
<1>16. CASE FetchImages(c) BY <1>16, <1>5, <1>7 DEF FetchImages
<1>17. CASE ComposeUp(c) BY <1>17, <1>5, <1>6, <1>8 DEF ComposeUp, At, UpPlaces
<1>18. CASE StartVideo(c) BY <1>18, <1>6, <1>8 DEF StartVideo, At, UpPlaces
<1>19. CASE PreparePps(c) BY <1>19, <1>5, <1>6 DEF PreparePps, UpPlaces
<1>20. CASE LaunchPps(c) BY <1>20, <1>5, <1>6 DEF LaunchPps, UpPlaces
<1>21. CASE AttachedEnds(c) BY <1>21, <1>5 DEF AttachedEnds
<1>26. CASE AttachedStarts(c) BY <1>26, <1>5, <1>6 DEF AttachedStarts, UpPlaces
<1>22. CASE StopVideo(c) BY <1>22, <1>6 DEF StopVideo, UpPlaces
<1>23. CASE StopEnv(c) BY <1>23, <1>5, <1>6 DEF StopEnv, UpPlaces
<1>24. CASE RemoveRelease(c) BY <1>24, <1>5 DEF RemoveRelease
<1>25. CASE Terminate(c) BY <1>25, <1>6 DEF Terminate, UpPlaces
<1> QED
  BY <1>9, <1>10, <1>11, <1>12, <1>13, <1>14, <1>15, <1>16, <1>17, <1>18, <1>19, <1>20,
     <1>21, <1>22, <1>23, <1>24, <1>25, <1>26

(* The steps that pack, and the one that readies up's own environment. *)
LEMMA RecordSteps ==
  ASSUME IInv, NEW c \in Composers,
         \/ EnsureReady(c) \/ Validate(c) \/ ClearPackage(c) \/ OpenTar(c)
         \/ AddFiles(c) \/ ExportImages(c)
  PROVE  IInv'
<1>1. UNCHANGED service
  BY DEF EnsureReady, Validate, ClearPackage, OpenTar, AddFiles, ExportImages, processes
<1>2. Kept(c) BY <1>1, KeptUnchanged
<1>3. run[c].at \in {"ready", "validate", "package", "tar", "add", "export"}
  BY DEF EnsureReady, Validate, ClearPackage, OpenTar, AddFiles, ExportImages, At
<1>4. run[c].launch = {} /\ ~At(c, "idle") BY <1>3, NothingRemembered
<1>5. ASSUME NEW how, Returns(c, how) PROVE IInv'
  BY <1>2, <1>4, <1>5, ReturnsOK
<1>6. DOMAIN run[c] = Fields /\ DOMAIN run = Composers /\ run = [d \in Composers |-> run[d]]
  BY DEF IInv
<1>7. ASSUME NEW r, run' = [run EXCEPT ![c] = r], UNCHANGED ghosts,
             DOMAIN r = Fields, r.launch = run[c].launch, r.cmd = run[c].cmd,
             r.stage = run[c].stage,
             r.at \in {"package", "tar", "add", "export"}
      PROVE  IInv'
  <2>1. result' = result BY <1>7 DEF ghosts
  <2> QED BY <1>2, <1>4, <1>7, <2>1, GoesOn DEF UpPlaces
<1>8. CASE EnsureReady(c)
  <2>1. Cmd(c).op = "up" BY <1>8 DEF EnsureReady, At, IInv, UpOnly, UpPlaces, Cmd
  <2>2. ASSUME NEW place, place \in {"fetch", "fill"}, UNCHANGED ghosts,
               run' = [run EXCEPT ![c].stage = "ready", ![c].left = <<Cmd(c).env>>,
                                  ![c].at = place]
        PROVE  IInv'
    <3> PICK r : r = [run[c] EXCEPT !.stage = "ready", !.left = <<Cmd(c).env>>, !.at = place]
      OBVIOUS
    <3>1. run' = [run EXCEPT ![c] = r] BY <2>2, <1>6
    <3>2. DOMAIN r = Fields /\ r.launch = {} /\ r.cmd = run[c].cmd /\ r.at = place
      BY <1>4, <1>6 DEF Fields
    <3>3. result' = result BY <2>2 DEF ghosts
    <3> QED BY <1>2, <1>4, <2>1, <2>2, <3>1, <3>2, <3>3, GoesOn DEF UpPlaces
  <2> QED BY <1>5, <1>8, <2>2 DEF EnsureReady
<1>9. CASE Validate(c)
  <2>1. ASSUME UNCHANGED ghosts,
               run' = [run EXCEPT ![c].at = "package", ![c].left = EnvOrder]
        PROVE  IInv'
    <3> PICK r : r = [run[c] EXCEPT !.at = "package", !.left = EnvOrder] OBVIOUS
    <3>1. run' = [run EXCEPT ![c] = r] BY <2>1, <1>6
    <3>2. DOMAIN r = Fields /\ r.launch = run[c].launch /\ r.cmd = run[c].cmd
          /\ r.at = "package" /\ r.stage = run[c].stage
      BY <1>6 DEF Fields
    <3> QED BY <1>7, <2>1, <3>1, <3>2
  <2> QED BY <1>5, <1>9, <2>1 DEF Validate
<1>10. CASE ClearPackage(c)
  BY <1>2, <1>4, <1>10, GoOK DEF ClearPackage, UpPlaces, ghosts
<1>11. ASSUME NEW ok, NextPackage(c, ok), UNCHANGED ghosts PROVE IInv'
  <2> PICK r : r = [run[c] EXCEPT !.fine = @ /\ ok, !.left = Tail(@),
                      !.at = IF Len(run[c].left) > 1 THEN "package" ELSE "export"]
    OBVIOUS
  <2>1. run' = [run EXCEPT ![c] = r] BY <1>6, <1>11 DEF NextPackage
  <2>2. DOMAIN r = Fields /\ r.launch = run[c].launch /\ r.cmd = run[c].cmd
        /\ r.at \in {"package", "export"} /\ r.stage = run[c].stage
    BY <1>6 DEF Fields
  <2> QED BY <1>7, <1>11, <2>1, <2>2
<1>12. CASE OpenTar(c)
  <2>1. ASSUME NEW files, UNCHANGED ghosts,
               run' = [run EXCEPT ![c].listing = files, ![c].at = "add"]
        PROVE  IInv'
    <3> PICK r : r = [run[c] EXCEPT !.listing = files, !.at = "add"] OBVIOUS
    <3>1. run' = [run EXCEPT ![c] = r] BY <2>1, <1>6
    <3>2. DOMAIN r = Fields /\ r.launch = run[c].launch /\ r.cmd = run[c].cmd
          /\ r.at = "add" /\ r.stage = run[c].stage
      BY <1>6 DEF Fields
    <3> QED BY <1>7, <2>1, <3>1, <3>2
  <2> QED BY <1>11, <1>12, <2>1 DEF OpenTar
<1>13. CASE AddFiles(c) BY <1>11, <1>13 DEF AddFiles
<1>14. CASE ExportImages(c) BY <1>5, <1>14 DEF ExportImages
<1> QED BY <1>8, <1>9, <1>10, <1>12, <1>13, <1>14

-----------------------------------------------------------------------------
(* The steps that start a Detection Service, wait for it and end it. *)

LEMMA RunDetectionOK ==
  ASSUME IInv, NEW c \in Composers, RunDetection(c) PROVE IInv'
<1>1. Cmd(c).op = "up" /\ run[c].launch = {} /\ ~At(c, "idle")
  BY NothingRemembered DEF RunDetection, At, IInv, UpOnly, UpPlaces, Cmd
<1>2. CASE UNCHANGED service
  <2>1. Kept(c) BY <1>2, KeptUnchanged
  <2>2. ASSUME Go(c, "pps"), UNCHANGED ghosts PROVE IInv'
    BY <1>1, <2>1, <2>2, GoOK DEF ghosts, UpPlaces
  <2>3. ASSUME Returns(c, "failed") PROVE IInv'
    BY <1>1, <2>1, <2>3, ReturnsOK
  <2>4. ASSUME NEW i \in FreeLaunches, service' = [service EXCEPT ![i] = "spawning"] PROVE FALSE
    BY <1>2, <2>4 DEF FreeLaunches, IInv
  <2> QED BY <2>2, <2>3, <2>4 DEF RunDetection
<1>3. CASE ~UNCHANGED service
  <2>1. PICK i \in FreeLaunches :
          /\ service' = [service EXCEPT ![i] = "spawning"]
          /\ run' = [run EXCEPT ![c].launch = {i}, ![c].at = "await"]
          /\ UNCHANGED ghosts
    BY <1>3 DEF RunDetection
  <2>2. i \in Launches /\ \A d \in Composers : i \notin run[d].launch
    BY <2>1 DEF FreeLaunches
  <2>3. Kept(c) BY <2>1, <2>2 DEF Kept, IInv, Remembers
  <2> PICK r : r = [run[c] EXCEPT !.launch = {i}, !.at = "await"] OBVIOUS
  <2>4. run' = [run EXCEPT ![c] = r] /\ result' = result BY <2>1 DEF IInv, ghosts
  <2>5. DOMAIN r = Fields /\ r.launch = {i} /\ r.at = "await" /\ r.cmd.op = "up"
    BY <1>1 DEF IInv, Fields, Cmd
  <2>6. Onward(c, r) BY <2>2, <2>5 DEF Onward, UpOnly, Remembers, Settled
  <2> QED BY <1>1, <2>3, <2>4, <2>6, OnwardOK
<1> QED BY <1>2, <1>3

\* An answer ends the wait; the deadline passes only once the launch is a
\* process, so the signal that follows finds it.
LEMMA AwaitDetectionOK ==
  ASSUME IInv, NEW c \in Composers, AwaitDetection(c) PROVE IInv'
<1>1. UNCHANGED service /\ result' = result BY DEF AwaitDetection, processes, ghosts
<1>2. Kept(c) BY <1>1, KeptUnchanged
<1>3. ~At(c, "idle") /\ Cmd(c).op = "up" /\ run[c].launch \subseteq Launches
  BY DEF AwaitDetection, At, IInv, UpOnly, UpPlaces, Remembers, Cmd
<1>4. CASE run' = [run EXCEPT ![c].launch = {}, ![c].at = "pps"]
  <2> PICK r : r = [run[c] EXCEPT !.launch = {}, !.at = "pps"] OBVIOUS
  <2>1. run' = [run EXCEPT ![c] = r] BY <1>4 DEF IInv
  <2>2. DOMAIN r = Fields /\ r.launch = {} /\ r.at = "pps" /\ r.cmd = run[c].cmd
    BY DEF IInv, Fields
  <2> QED BY <1>1, <1>2, <1>3, <2>1, <2>2, GoesOn DEF UpPlaces
<1>5. CASE Go(c, "signal") /\ \A i \in run[c].launch : service[i] # "spawning"
  <2> PICK r : r = [run[c] EXCEPT !.at = "signal"] OBVIOUS
  <2>1. run' = [run EXCEPT ![c] = r] BY <1>5 DEF Go
  <2>2. DOMAIN r = Fields /\ r.launch = run[c].launch /\ r.at = "signal" /\ r.cmd.op = "up"
    BY <1>3 DEF IInv, Fields, Cmd
  <2>3. Onward(c, r)
    BY <1>1, <1>3, <1>5, <2>2 DEF Onward, UpOnly, Remembers, Settled
  <2> QED BY <1>1, <1>2, <1>3, <2>1, <2>3, OnwardOK
<1> QED BY <1>4, <1>5 DEF AwaitDetection

\* A step of any kind that only brings services nearer their end.
LEMMA EndingKeeps ==
  ASSUME IInv, NEW c \in Composers,
         service' \in [Launches -> {"free", "spawning", "starting", "on", "ending"}],
         \A i \in Launches : /\ service[i] = "free" => service'[i] = "free"
                             /\ service[i] # "spawning" => service'[i] # "spawning"
  PROVE  Kept(c)
BY DEF IInv, Kept, Remembers

LEMMA SignalDetectionOK ==
  ASSUME IInv, NEW c \in Composers, SignalDetection(c) PROVE IInv'
<1>1. /\ service' \in [Launches -> {"free", "spawning", "starting", "on", "ending"}]
      /\ \A i \in Launches : /\ service[i] = "free" => service'[i] = "free"
                             /\ service[i] # "spawning" => service'[i] # "spawning"
  BY DEF SignalDetection, IInv
<1>2. Kept(c) /\ result' = result BY <1>1, EndingKeeps DEF SignalDetection, ghosts
<1> PICK r : r = [run[c] EXCEPT !.at = "drain"] OBVIOUS
<1>3. run' = [run EXCEPT ![c] = r] BY DEF SignalDetection, Go
<1>4. DOMAIN r = Fields /\ r.launch = run[c].launch /\ r.at = "drain"
      /\ r.cmd = run[c].cmd /\ r.stage = run[c].stage
  BY DEF IInv, Fields
<1>5. run[c].at = "signal" /\ ~At(c, "idle") BY DEF SignalDetection, At
<1>6. UpOnly(run[c]) /\ Remembers(run[c]) /\ Settled(run[c], service) BY DEF IInv
<1>7. Onward(c, r)
  BY <1>1, <1>4, <1>5, <1>6 DEF Onward, UpOnly, UpPlaces, Remembers, Settled
<1> QED BY <1>2, <1>3, <1>5, <1>7, OnwardOK

\* After it no launch is left that was a process before it: none that `up`
\* still remembers.
LEMMA EndDetectionOK ==
  ASSUME IInv, NEW c \in Composers, EndDetection(c) PROVE IInv'
<1>1. /\ service' \in [Launches -> {"free", "spawning", "starting", "on", "ending"}]
      /\ \A i \in Launches : /\ service[i] = "free" => service'[i] = "free"
                             /\ service[i] # "spawning" => service'[i] = "free"
  BY DEF EndDetection, Seen, IInv
<1>2. Kept(c) BY <1>1, EndingKeeps
<1>3. run[c].at = "drain" /\ ~At(c, "idle") BY DEF EndDetection, At
<1>4. Remembers(run[c]) /\ Settled(run[c], service) BY DEF IInv
<1>5. CASE Cmd(c).op = "up"
  <2>1. \A i \in run[c].launch : service'[i] = "free"
    BY <1>1, <1>3, <1>4 DEF Remembers, Settled
  <2>2. Returns(c, "failed") BY <1>5 DEF EndDetection
  <2> QED BY <1>2, <2>1, <2>2, ReturnsOK
<1>6. CASE Cmd(c).op # "up"
  <2>1. run[c].launch = {} BY <1>3, <1>4, <1>6 DEF Remembers, Cmd
  <2>2. Go(c, "stopVideo") /\ result' = result BY <1>6 DEF EndDetection, ghosts
  <2> QED BY <1>2, <1>3, <2>1, <2>2, GoOK DEF UpPlaces
<1> QED BY <1>5, <1>6

-----------------------------------------------------------------------------
(* The steps of nobody's command, and the beginning and the interruption of *)
(* one.                                                                     *)

LEMMA ServiceOK ==
  ASSUME IInv, UNCHANGED <<run, result>>,
         service' \in [Launches -> {"free", "spawning", "starting", "on", "ending"}],
         \A i \in Launches : /\ service[i] = "free" => service'[i] = "free"
                             /\ service[i] # "spawning" => service'[i] # "spawning"
  PROVE  IInv'
<1>1. \A c \in Composers : Settled(run[c], service')
  BY DEF IInv, Settled, Remembers
<1> QED BY <1>1 DEF IInv, UpOnly, Remembers, At

LEMMA ServiceStepOK == ASSUME IInv, ServiceStep PROVE IInv'
<1>1. PICK i \in Launches, next \in {"starting", "on", "free"} :
        /\ service[i] \in {"spawning", "starting", "ending"}
        /\ service' = [service EXCEPT ![i] = next]
  BY DEF ServiceStep
<1> QED BY <1>1, ServiceOK DEF ServiceStep, ghosts, IInv

LEMMA PpsStepOK == ASSUME IInv, PpsStep PROVE IInv'
BY ServiceOK DEF PpsStep, ghosts, IInv

LEMMA ExitsOK == ASSUME IInv, Exits PROVE IInv'
<1>1. service' = service \/ \E i \in Seen : service' = [service EXCEPT ![i] = "free"]
  BY DEF Exits
<1> QED BY <1>1, ServiceOK DEF Exits, Seen, IInv

LEMMA AskedOK ==
  ASSUME IInv, Press \/ \E c \in Terminals : Type(c) PROVE IInv'
<1>1. PICK c, cmd, rest : c \in Composers /\ Begins(c, cmd, rest) /\ UNCHANGED service
  BY DEF Press, Type, Composers, processes
<1> QED BY <1>1, BeginsOK, KeptUnchanged

LEMMA InterruptOK ==
  ASSUME IInv, NEW c \in Composers, Interrupt(c) PROVE IInv'
<1>1. run' = [run EXCEPT ![c] = NotRunning] /\ UNCHANGED service
      /\ result' = [result EXCEPT ![c] = "interrupted"]
  BY DEF Interrupt, processes
<1> PICK r : r = NotRunning OBVIOUS
<1>2. Kept(c) BY <1>1, KeptUnchanged
<1>3. DOMAIN r = Fields /\ UpOnly(r) /\ Remembers(r) /\ Settled(r, service')
  BY NotRunningShape DEF UpOnly, UpPlaces, Remembers, Settled
<1>4. DOMAIN result' = Composers /\ (result'[c] = "failed" => r.at = "idle")
      /\ \A d \in Composers \ {c} : result'[d] = result[d]
  BY <1>1 DEF IInv
<1>5. run' = [run EXCEPT ![c] = r] BY <1>1
<1> QED BY <1>2, <1>3, <1>4, <1>5, OwnStep

LEMMA StutterOK == ASSUME IInv, UNCHANGED vars PROVE IInv'
BY ServiceOK DEF vars, processes, ghosts, IInv

(* Every step of the composers keeps it. *)
LEMMA NextOK == ASSUME IInv, [Next]_vars PROVE IInv'
<1>1. CASE \E c \in Composers : Step(c)
  BY <1>1, PlainSteps, RecordSteps, RunDetectionOK, AwaitDetectionOK, SignalDetectionOK,
     EndDetectionOK DEF Step
<1>2. CASE \E c \in Terminals : Type(c) \/ Interrupt(c)
  BY <1>2, AskedOK, InterruptOK DEF Composers
<1> QED
  BY <1>1, <1>2, AskedOK, ServiceStepOK, PpsStepOK, ExitsOK, StutterOK DEF Next

-----------------------------------------------------------------------------
(* Who remembers a launch, where, and what may have become of it: the      *)
(* inductive invariant of the composers' commands.                         *)
THEOREM Inductive == Spec => []IInv
<1>1. Init => IInv BY InitOK
<1>2. IInv /\ [Next]_vars => IInv' BY NextOK
<1> QED BY <1>1, <1>2, PTL DEF Spec

(* A Detection Service that did not answer in time is ended before `up`    *)
(* returns its failure, and never comes up afterwards, whatever other      *)
(* commands run, fail or are interrupted beside it (run_detection and its  *)
(* _end).                                                                  *)
THEOREM TimedOutIsEnded == Spec => []FailedStartIsEnded
<1>1. IInv => FailedStartIsEnded BY DEF IInv, FailedStartIsEnded, Settled, At
<1> QED BY <1>1, Inductive, PTL

-----------------------------------------------------------------------------
(* What a command that returns zero promises, when nothing else touched the *)
(* machine since it began.  Nothing is known of what it found there, so    *)
(* everything rests on what its own steps have done by each place.         *)

(* The places where the directories of the environments are filled, and    *)
(* where they are packed.                                                  *)
Loading == {"clear", "fill", "sync", "fetch"}
Packs == {"package", "tar", "add"}

(* The places of up past its containers. *)
Started == {"video", "detection", "await", "pps", "launch"}

(* Which command is where, and in which of its loops. *)
Shaped(r) ==
  LET op == r.cmd.op IN
  /\ r.fine \in BOOLEAN
  /\ r.at # "idle" => /\ r.cmd \in CommandType
                      /\ r.stage \in {"build", "releases", "ready"}
                      /\ r.stage = "build" <=> op = "build"
                      /\ r.stage = "ready" => op = "up"
  /\ r.at \in {"check", "other", "releases"} => r.stage # "ready" /\ r.left = EnvOrder
  /\ r.at = "check" => op \in {"up", "build"}
  /\ r.at = "releases" => op \in {"up", "release"}
  /\ r.at \in Loading => /\ op \in {"up", "build", "release"}
                         /\ r.stage = "ready" => r.at # "clear" /\ r.left = <<r.cmd.env>>
                         /\ r.stage # "ready" => r.left \in {EnvOrder, <<"prod">>}
  /\ r.at \in UpPlaces \union {"other", "pps", "launch", "attached", "serving"}
       => op = "up"
  /\ r.at \in {"attached", "serving"} => ~r.cmd.detached
  /\ r.at \in Packs \union {"validate", "export"} => op = "release"
  /\ r.at \in Packs => r.left \in {EnvOrder, <<"prod">>}
  /\ r.at \in {"terminate", "stopVideo", "stopEnv", "remove"} => op \notin {"up", "release"}
  /\ r.at \in {"signal", "drain"} => op # "release"

(* A release directory an environment can be started from. *)
Ready(e) == "dll" \in release[e] /\ (source => "assets" \in release[e])

Filled(r) ==
  /\ r.at = "sync" => source /\ "dll" \in release[Head(r.left)]
  /\ r.at = "fetch" /\ source => "dll" \in release[Head(r.left)]
  /\ r.at \in Loading /\ r.stage = "releases" /\ r.left = <<"prod">> /\ source
       => "dll" \in release["dev"]
  /\ r.at = "fill" /\ r.stage = "ready" => source
  /\ r.at = "fetch" /\ r.stage = "ready" => Ready(r.cmd.env)
  /\ r.at = "ready" /\ source => Built
  /\ r.at \in Started \union {"compose"} => Ready(r.cmd.env)

Serving(r) ==
  /\ r.at \in Started => containers[r.cmd.env] = "running"
  /\ r.at \in {"pps", "launch"} /\ r.cmd.detection => Answering

(* A package that holds what its directory does. *)
Whole(e) == package[e] = {"tar"} \union (release[e] \ {"dir"})

Packed(r) ==
  /\ r.at \in Packs \union {"export"} => Built
  /\ r.at = "add" => r.listing = release[Head(r.left)] \ {"dir"}
  /\ r.at \in Packs /\ r.left = <<"prod">> /\ r.fine => Whole("dev")
  /\ r.at = "export" /\ r.fine => Whole("dev") /\ Whole("prod")

Going(r) == Shaped(r) /\ Filled(r) /\ Serving(r) /\ Packed(r)

(* What is there when it has returned zero. *)
Done(cmd) ==
  /\ cmd.op = "up" /\ cmd.detached =>
       /\ cmd.env \in Env /\ Ready(cmd.env)
       /\ containers[cmd.env] = "running" /\ Launched(cmd.env)
       /\ cmd.detection => Answering
  /\ cmd.op = "release" => Built /\ Whole("dev") /\ Whole("prod") /\ exported = Images

Alone(c) == \A o \in Composers \ {c} : At(o, "idle")

Undisturbed ==
  \A c \in Composers : quiet[c] =>
    /\ Alone(c) /\ Going(run[c])
    /\ At(c, "idle") /\ result[c] = "ok" => Done(run[c].cmd)

(* Directories, packages and containers are the environments', and there   *)
(* are no images but those the compose files name.                         *)
Maps ==
  /\ containers = [e \in Env |-> containers[e]] /\ release = [e \in Env |-> release[e]]
  /\ package = [e \in Env |-> package[e]] /\ pps = [e \in Env |-> pps[e]]

Stocked == images \union cache \union exported \subseteq Images

Queued ==
  /\ quiet \in [Composers -> BOOLEAN]
  /\ \A c \in Composers : run[c].todo \in Seq(CommandType)

QInv == Maps /\ Stocked /\ Queued /\ Undisturbed

-----------------------------------------------------------------------------
LEMMA NotRunningGoes ==
  ASSUME NEW r, r.at = "idle", r.fine = TRUE PROVE Going(r)
BY DEF Going, Shaped, Filled, Serving, Packed, Loading, Packs, Started, UpPlaces

(* A step of a command that goes on, with nobody else at work if it is     *)
(* undisturbed.                                                            *)
LEMMA StepsOn ==
  ASSUME IInv, QInv, NEW c \in Composers, NEW r, run' = [run EXCEPT ![c] = r],
         UNCHANGED <<quiet, result>>, ~At(c, "idle"), r.at # "idle",
         r.todo = run[c].todo, quiet[c] => Going(r)', Maps', Stocked'
  PROVE  QInv'
<1>1. \A d \in Composers : run'[d] = IF d = c THEN r ELSE run[d] BY DEF IInv
<1>2. Queued' BY <1>1 DEF QInv, Queued
<1>3. ASSUME NEW d \in Composers, quiet[d] PROVE d = c /\ Alone(c)'
  <2>1. Alone(d) BY <1>3 DEF QInv, Undisturbed
  <2>2. d = c BY <2>1 DEF Alone
  <2> QED BY <1>1, <2>1, <2>2 DEF Alone, At
<1>4. Going(r)' => Going(run[c])'
  <2>1. run'[c] = r BY <1>1
  <2> QED BY <2>1 DEF Going, Shaped, Filled, Serving, Packed
<1>5. Undisturbed' BY <1>1, <1>3, <1>4 DEF Undisturbed, At
<1> QED BY <1>2, <1>5 DEF QInv

(* A command begins: of the machine it finds nothing is known. *)
LEMMA BeginsAfresh ==
  ASSUME IInv, QInv, NEW c \in Composers, NEW cmd \in CommandType,
         NEW rest \in Seq(CommandType), Begins(c, cmd, rest), Maps', Stocked'
  PROVE  QInv'
<1> PICK r : r = [NotRunning EXCEPT !.cmd = cmd, !.at = Entry(cmd.op), !.left = EnvOrder,
                    !.stage = IF cmd.op = "build" THEN "build" ELSE "releases",
                    !.todo = rest]
  OBVIOUS
<1>1. /\ run' = [run EXCEPT ![c] = r] /\ result' = [result EXCEPT ![c] = "none"]
      /\ quiet' = [d \in Composers |-> d = c /\ \A o \in Composers \ {c} : At(o, "idle")]
  BY DEF Begins
<1>2. /\ r.at = Entry(cmd.op) /\ r.left = EnvOrder /\ r.cmd = cmd /\ r.todo = rest
      /\ r.stage = IF cmd.op = "build" THEN "build" ELSE "releases"
      /\ r.fine = TRUE
  BY DEF NotRunning
<1>3. cmd.op \in {"up", "stop", "kill", "build", "release"} BY DEF CommandType
<1>4. /\ cmd.op \in {"up", "build"} => r.at = "check"
      /\ cmd.op = "release" => r.at = "releases"
      /\ cmd.op \in {"stop", "kill"} => r.at = "terminate"
  BY <1>2 DEF Entry
<1>5. r.at \in {"check", "releases", "terminate"} BY <1>3, <1>4
<1>6. Going(r)'
  <2>1. r.fine \in BOOLEAN BY <1>2
  <2>2. r.at # "idle" /\ r.at \notin Loading \union Packs \union UpPlaces
        /\ r.at \notin {"other", "pps", "launch", "attached", "serving", "validate", "export", "stopVideo",
                        "stopEnv", "remove", "signal", "drain"}
    BY <1>5 DEF Loading, Packs, UpPlaces
  <2>3. /\ r.stage = "build" <=> cmd.op = "build"
        /\ r.stage \in {"build", "releases"}
    BY <1>2
  <2>4. r.at = "terminate" => cmd.op \notin {"up", "release"} BY <1>4
  <2>5. (r.at = "check" => cmd.op \in {"up", "build"})
        /\ (r.at = "releases" => cmd.op \in {"up", "release"})
    BY <1>3, <1>4
  <2>6. Shaped(r)' BY <1>2, <2>1, <2>2, <2>3, <2>4, <2>5 DEF Shaped
  <2>7. Filled(r)' /\ Serving(r)' /\ Packed(r)'
    BY <1>5 DEF Filled, Serving, Packed, Loading, Packs, Started
  <2> QED BY <2>6, <2>7 DEF Going
<1>7. \A d \in Composers : run'[d] = IF d = c THEN r ELSE run[d] BY <1>1 DEF IInv
<1>8. Queued'
  <2>1. quiet' \in [Composers -> BOOLEAN] BY <1>1
  <2> QED BY <1>2, <1>7, <2>1 DEF QInv, Queued
<1>9. Undisturbed'
  <2> SUFFICES ASSUME NEW d \in Composers, quiet'[d]
               PROVE  /\ Alone(d)' /\ Going(run[d])'
                      /\ At(d, "idle")' /\ result'[d] = "ok" => Done(run[d].cmd)'
    BY DEF Undisturbed
  <2>1. d = c /\ \A o \in Composers \ {c} : At(o, "idle") BY <1>1
  <2>2. run'[d] = r /\ Alone(d)' BY <1>7, <2>1 DEF Alone, At
  <2>3. Going(run[d])' BY <1>6, <2>2 DEF Going, Shaped, Filled, Serving, Packed
  <2> QED BY <1>5, <2>2, <2>3 DEF At
<1> QED BY <1>8, <1>9 DEF QInv

(* A command returns. *)
LEMMA ReturnsDone ==
  ASSUME IInv, QInv, NEW c \in Composers, NEW how, Returns(c, how), ~At(c, "idle"),
         Maps', Stocked',
         \A cmd : cmd = run[c].cmd /\ how = "ok" /\ quiet[c] => Done(cmd)'
  PROVE  QInv'
<1>1. CASE how = "ok" /\ run[c].todo # <<>>
  <2>1. run[c].todo \in Seq(CommandType) BY DEF QInv, Queued
  <2>2. PICK next, rest : next = Head(run[c].todo) /\ rest = Tail(run[c].todo) OBVIOUS
  <2>3. next \in CommandType /\ rest \in Seq(CommandType) BY <1>1, <2>1, <2>2
  <2>4. Begins(c, next, rest) BY <1>1, <2>2 DEF Returns
  <2> QED BY <2>3, <2>4, BeginsAfresh
<1>2. CASE ~(how = "ok" /\ run[c].todo # <<>>)
  <2> PICK r : r = IF how = "ok" THEN [NotRunning EXCEPT !.cmd = run[c].cmd]
                   ELSE [NotRunning EXCEPT !.launch = run[c].launch]
    OBVIOUS
  <2>1. run' = [run EXCEPT ![c] = r] /\ result' = [result EXCEPT ![c] = how]
        /\ quiet' = [quiet EXCEPT ![c] = @ /\ how = "ok"]
    BY <1>2 DEF Returns
  <2>2. r.at = "idle" /\ r.fine = TRUE /\ r.todo = <<>> /\ (how = "ok" => r.cmd = run[c].cmd)
    BY DEF NotRunning
  <2>3. \A d \in Composers : run'[d] = IF d = c THEN r ELSE run[d] BY <2>1 DEF IInv
  <2>4. quiet \in [Composers -> BOOLEAN] BY DEF QInv, Queued
  <2>5. quiet' \in [Composers -> BOOLEAN] /\ (quiet'[c] => quiet[c] /\ how = "ok")
        /\ \A d \in Composers \ {c} : quiet'[d] = quiet[d]
    BY <2>1, <2>4
  <2>6. <<>> \in Seq(CommandType) OBVIOUS
  <2>7. Queued' BY <2>2, <2>3, <2>5, <2>6 DEF QInv, Queued
  <2>8. ASSUME NEW d \in Composers, quiet'[d] PROVE d = c /\ Alone(c)'
    <3>1. Alone(d) BY <2>5, <2>8 DEF QInv, Undisturbed
    <3>2. d = c BY <3>1 DEF Alone
    <3> QED BY <2>3, <3>1, <3>2 DEF Alone, At
  <2>9. run'[c] = r BY <2>3
  <2>10. Going(run[c])' BY <2>2, <2>9, NotRunningGoes
    DEF Going, Shaped, Filled, Serving, Packed, Loading, Packs, Started, UpPlaces
  <2>11. quiet'[c] => Done(run[c].cmd)'
    <3>1. quiet'[c] => Done(r.cmd)' BY <2>2, <2>5
    <3> QED BY <2>9, <3>1 DEF Done
  <2> QED BY <2>7, <2>8, <2>10, <2>11 DEF QInv, Undisturbed
<1> QED BY <1>1, <1>2

(* One that failed promises nothing. *)
LEMMA ReturnsFailed ==
  ASSUME IInv, QInv, NEW c \in Composers, Returns(c, "failed"), ~At(c, "idle"), Maps', Stocked'
  PROVE  QInv'
BY ReturnsDone

(* What Go changes of a record: the place. *)
Moved(r, s, place) ==
  /\ r.at = place /\ r.cmd = s.cmd /\ r.todo = s.todo /\ r.stage = s.stage
  /\ r.left = s.left /\ r.listing = s.listing /\ r.fine = s.fine

LEMMA GoMoves ==
  ASSUME IInv, NEW c \in Composers, NEW place, Go(c, place)
  PROVE  \E r : run' = [run EXCEPT ![c] = r] /\ Moved(r, run[c], place)
<1> PICK r : r = [run[c] EXCEPT !.at = place] OBVIOUS
<1>1. run' = [run EXCEPT ![c] = r] BY DEF Go
<1>2. Moved(r, run[c], place) BY DEF IInv, Fields, Moved
<1> QED BY <1>1, <1>2

(* A step that goes on to another place. *)
LEMMA GoesTo ==
  ASSUME IInv, QInv, NEW c \in Composers, NEW place, Go(c, place), UNCHANGED <<quiet, result>>,
         ~At(c, "idle"), place # "idle", Maps', Stocked',
         \A r : Moved(r, run[c], place) /\ quiet[c] => Going(r)'
  PROVE  QInv'
<1>1. PICK r : run' = [run EXCEPT ![c] = r] /\ Moved(r, run[c], place) BY GoMoves
<1> QED BY <1>1, StepsOn DEF Moved

-----------------------------------------------------------------------------
LEMMA MapsOK == ASSUME Maps, [Next]_vars PROVE Maps'
<1>1. CASE UNCHANGED <<containers, release, package, pps>> BY <1>1 DEF Maps
<1>3. ASSUME NEW e, NEW has, pps' = [pps EXCEPT ![e] = has], UNCHANGED <<containers, release, package>>
      PROVE  Maps'
  BY <1>3 DEF Maps
<1>2. ASSUME NEW c \in Composers, Step(c) PROVE Maps'
  <2>1. CASE Clear(c) BY <2>1 DEF Clear, Maps, processes
  <2>2. CASE Publish(c) BY <2>2 DEF Publish, Maps, processes
  <2>3. CASE SyncRuntimeAssets(c) BY <2>3 DEF SyncRuntimeAssets, Maps, processes
  <2>4. CASE Rehydrate(c) BY <2>4 DEF Rehydrate, Maps, processes
  <2>5. CASE EnsureReady(c) BY <2>5 DEF EnsureReady, Maps, processes
  <2>6. CASE RemoveRelease(c) BY <2>6 DEF RemoveRelease, Maps, processes
  <2>7. CASE ClearPackage(c) BY <2>7 DEF ClearPackage, Maps, processes
  <2>8. CASE OpenTar(c) BY <2>8 DEF OpenTar, Maps, processes
  <2>9. CASE AddFiles(c) BY <2>9 DEF AddFiles, Maps, processes
  <2>10. CASE StopOther(c) BY <2>10 DEF StopOther, Maps, disk
  <2>11. CASE ComposeUp(c) BY <2>11 DEF ComposeUp, Maps, disk
  <2>12. CASE StopEnv(c) BY <2>12 DEF StopEnv, Maps, disk
  <2>13. CASE PreparePps(c) \/ LaunchPps(c) \/ AttachedStarts(c) \/ Terminate(c)
    <3>1. /\ UNCHANGED <<containers, release, package>>
          /\ pps' = pps \/ \E e, has : pps' = [pps EXCEPT ![e] = has]
      BY <2>13 DEF PreparePps, LaunchPps, AttachedStarts, Terminate, Pkill, disk
    <3> QED BY <1>1, <1>3, <3>1
  <2> QED
    BY <1>1, <1>2, <2>1, <2>2, <2>3, <2>4, <2>5, <2>6, <2>7, <2>8, <2>9, <2>10, <2>11, <2>12, <2>13
    DEF Step, Check, EnsureReleases, FetchImages, StartVideo, RunDetection, AwaitDetection,
        SignalDetection, EndDetection, AttachedEnds, StopVideo,
        Validate, ExportImages, processes, disk
<1>4. CASE PpsStep \/ Exits \/ \E c \in Terminals : Interrupt(c)
  <2>1. /\ UNCHANGED <<containers, release, package>>
        /\ pps' = pps \/ \E e, has : pps' = [pps EXCEPT ![e] = has]
    BY <1>4 DEF PpsStep, Exits, Interrupt, disk
  <2> QED BY <1>1, <1>3, <2>1
<1> QED
  BY <1>1, <1>2, <1>4 DEF Next, Press, ServiceStep, Type, vars, processes, disk

LEMMA StockedOK == ASSUME Stocked, [Next]_vars PROVE Stocked'
<1>1. CASE UNCHANGED <<images, cache, exported>> BY <1>1 DEF Stocked
<1>2. ASSUME NEW ok, PrepareImages(ok), UNCHANGED exported PROVE Stocked'
  BY <1>2 DEF PrepareImages, Stocked
<1>3. ASSUME NEW c \in Composers, Step(c) PROVE Stocked'
  <2>1. CASE FetchImages(c) BY <1>1, <1>2, <2>1 DEF FetchImages
  <2>2. CASE Validate(c) BY <1>1, <1>2, <2>2 DEF Validate
  <2>3. CASE ExportImages(c)
    <3>1. PICK saved \in SUBSET images : exported' = exported \union cache \union saved
      BY <2>3 DEF ExportImages
    <3> QED BY <2>3, <3>1 DEF ExportImages, Stocked
  <2> QED
    BY <1>1, <1>3, <2>1, <2>2, <2>3
    DEF Step, Check, StopOther, EnsureReleases, Clear, Publish, SyncRuntimeAssets, Rehydrate,
        EnsureReady, ComposeUp, StartVideo, RunDetection, AwaitDetection, SignalDetection,
        EndDetection, PreparePps, LaunchPps, AttachedStarts, AttachedEnds, Terminate, StopVideo, StopEnv,
        RemoveRelease, ClearPackage, OpenTar, AddFiles, disk
<1> QED
  BY <1>1, <1>3 DEF Next, Press, ServiceStep, PpsStep, Exits, Type, Interrupt, vars, disk

-----------------------------------------------------------------------------
(* The release directories. *)

LEMMA Lefts ==
  /\ Len(EnvOrder) = 2 /\ Head(EnvOrder) = "dev" /\ Tail(EnvOrder) = <<"prod">>
  /\ EnvOrder # <<"prod">>
  /\ \A e : Len(<<e>>) = 1 /\ Head(<<e>>) = e /\ Tail(<<e>>) = <<>>
BY DEF EnvOrder

LEMMA CheckDone ==
  ASSUME IInv, QInv, NEW c \in Composers, Check(c), Maps', Stocked' PROVE QInv'
<1>1. ~At(c, "idle") BY DEF Check, At
<1>2. CASE Go(c, IF Cmd(c).op = "build" THEN "clear" ELSE "other") /\ UNCHANGED ghosts
  <2> PICK place : place = IF Cmd(c).op = "build" THEN "clear" ELSE "other" OBVIOUS
  <2>1. ASSUME NEW r, Moved(r, run[c], place), quiet[c] PROVE Going(r)'
    <3>1. Going(run[c]) /\ run[c].at = "check" BY <2>1 DEF QInv, Undisturbed, Check, At
    <3>2. Shaped(r)' BY <2>1, <3>1 DEF Going, Shaped, Moved, Cmd, Loading, Packs, UpPlaces
    <3>3. Filled(r)' BY <2>1, <3>1, Lefts DEF Going, Shaped, Filled, Moved, Cmd, Loading, Started
    <3>4. Serving(r)' /\ Packed(r)' BY <2>1 DEF Serving, Packed, Moved, Packs, Started
    <3> QED BY <3>2, <3>3, <3>4 DEF Going
  <2> QED BY <1>1, <1>2, <2>1, GoesTo DEF ghosts
<1> QED BY <1>1, <1>2, ReturnsFailed DEF Check

LEMMA StopOtherDone ==
  ASSUME IInv, QInv, NEW c \in Composers, StopOther(c), Maps', Stocked' PROVE QInv'
<1>1. ~At(c, "idle") BY DEF StopOther, At
<1>2. ASSUME NEW r, Moved(r, run[c], "releases"), quiet[c] PROVE Going(r)'
  <2>1. Going(run[c]) /\ run[c].at = "other" BY <1>2 DEF QInv, Undisturbed, StopOther, At
  <2>2. Shaped(r)' BY <1>2, <2>1 DEF Going, Shaped, Moved, Loading, Packs, UpPlaces
  <2>3. Filled(r)' /\ Serving(r)' /\ Packed(r)'
    BY <1>2 DEF Filled, Moved, Loading, Started, Serving, Packed, Packs
  <2> QED BY <2>2, <2>3 DEF Going
<1> QED BY <1>1, <1>2, GoesTo DEF StopOther, ghosts

LEMMA EnsureReleasesDone ==
  ASSUME IInv, QInv, NEW c \in Composers, EnsureReleases(c), Maps', Stocked' PROVE QInv'
<1>1. ~At(c, "idle") BY DEF EnsureReleases, At
<1> PICK place : place = IF Built THEN After(c) ELSE "clear" OBVIOUS
<1>2. Go(c, place) /\ UNCHANGED <<quiet, result, release, source>>
  BY DEF EnsureReleases, ghosts, disk
<1>3. place # "idle" BY AfterOK
<1>4. ASSUME NEW r, Moved(r, run[c], place), quiet[c] PROVE Going(r)'
  <2>1. Going(run[c]) /\ run[c].at = "releases" BY <1>4 DEF QInv, Undisturbed, EnsureReleases, At
  <2>2. /\ run[c].stage = "releases" /\ Cmd(c).op \in {"up", "release"} /\ run[c].left = EnvOrder
        /\ run[c].cmd \in CommandType /\ run[c].fine \in BOOLEAN
    BY <2>1 DEF Going, Shaped, Cmd
  <2>3. \/ place = "clear"
        \/ place = "ready" /\ Cmd(c).op = "up" /\ Built
        \/ place = "validate" /\ Cmd(c).op = "release"
    BY <2>2 DEF After
  <2>4. Shaped(r)' BY <1>4, <2>2, <2>3 DEF Shaped, Moved, Loading, Packs, UpPlaces, Cmd
  <2>5. Filled(r)'
    BY <1>2, <1>4, <2>2, <2>3, Lefts DEF Filled, Moved, Loading, Started, Built
  <2>6. Serving(r)' /\ Packed(r)'
    BY <1>4, <2>3 DEF Serving, Packed, Moved, Packs, Started
  <2> QED BY <2>4, <2>5, <2>6 DEF Going
<1> QED BY <1>1, <1>2, <1>3, <1>4, GoesTo

(* What is known of a directory that is being filled. *)
LEMMA Fills ==
  ASSUME QInv, NEW c \in Composers, quiet[c], run[c].at \in Loading
  PROVE  /\ Going(run[c]) /\ Building(c) \in Env /\ Cmd(c).op \in {"up", "build", "release"}
         /\ run[c].left \in {EnvOrder, <<"prod">>, <<Cmd(c).env>>}
         /\ run[c].left = <<"prod">> => Building(c) = "prod"
         /\ run[c].stage = "ready" => Building(c) = Cmd(c).env /\ run[c].left = <<Cmd(c).env>>
         /\ run[c].stage # "ready" => run[c].left \in {EnvOrder, <<"prod">>}
<1>1. Going(run[c]) BY DEF QInv, Undisturbed
<1>2. /\ run[c].at # "idle"
      /\ run[c].cmd \in CommandType /\ Cmd(c).op \in {"up", "build", "release"}
      /\ run[c].stage = "ready" => run[c].left = <<Cmd(c).env>>
      /\ run[c].stage # "ready" => run[c].left \in {EnvOrder, <<"prod">>}
  BY <1>1 DEF Going, Shaped, Cmd, Loading
<1>3. Cmd(c).env \in Env BY <1>2 DEF CommandType, Cmd
<1> QED BY <1>1, <1>2, <1>3, Lefts DEF Building, Env

LEMMA ClearDone ==
  ASSUME IInv, QInv, NEW c \in Composers, Clear(c), Maps', Stocked' PROVE QInv'
<1>1. ~At(c, "idle") /\ run[c].at = "clear" BY DEF Clear, At
<1>2. release' = [release EXCEPT ![Building(c)] = {}] /\ UNCHANGED <<quiet, result, source>>
      /\ Go(c, "fill")
  BY DEF Clear, ghosts
<1>3. ASSUME NEW r, Moved(r, run[c], "fill"), quiet[c] PROVE Going(r)'
  <2>1. Going(run[c]) /\ Building(c) \in Env /\ (run[c].left = <<"prod">> => Building(c) = "prod")
    BY <1>1, <1>3, Fills DEF Loading
  <2>2. Shaped(r)' BY <1>1, <1>3, <2>1 DEF Going, Shaped, Moved, Loading, Packs, UpPlaces
  <2>3. run[c].stage # "ready" BY <1>1, <2>1 DEF Going, Shaped, Loading
  <2>4. run[c].stage = "releases" /\ run[c].left = <<"prod">> /\ source => "dll" \in release'["dev"]
    <3>1. run[c].stage = "releases" /\ run[c].left = <<"prod">> /\ source => "dll" \in release["dev"]
      BY <1>1, <2>1 DEF Going, Filled, Loading
    <3> QED BY <1>2, <2>1, <3>1 DEF QInv, Maps, Env
  <2>5. Filled(r)' BY <1>2, <1>3, <2>3, <2>4 DEF Filled, Moved, Started
  <2>6. Serving(r)' /\ Packed(r)' BY <1>3 DEF Serving, Packed, Moved, Packs, Started
  <2> QED BY <2>2, <2>5, <2>6 DEF Going
<1> QED BY <1>1, <1>2, <1>3, GoesTo

LEMMA PublishDone ==
  ASSUME IInv, QInv, NEW c \in Composers, Publish(c), Maps', Stocked' PROVE QInv'
<1>1. ~At(c, "idle") /\ run[c].at = "fill" /\ source BY DEF Publish, At
<1>2. CASE /\ release' = [release EXCEPT ![Building(c)] = @ \union {"dir", "dll"}]
           /\ Go(c, "sync") /\ UNCHANGED ghosts
  <2>1. ASSUME NEW r, Moved(r, run[c], "sync"), quiet[c] PROVE Going(r)'
    <3>1. Going(run[c]) /\ Building(c) \in Env BY <1>1, <2>1, Fills DEF Loading
    <3>2. Shaped(r)' BY <1>1, <2>1, <3>1 DEF Going, Shaped, Moved, Loading, Packs, UpPlaces
    <3>3. release \in [Env -> {release[e] : e \in Env}] BY DEF QInv, Maps
    <3>4. "dll" \in release'[Building(c)] /\ \A e \in Env : release[e] \subseteq release'[e]
      BY <1>2, <3>1, <3>3
    <3>5. source' = source /\ Head(r.left) = Building(c) BY <1>2, <2>1 DEF ghosts, Moved, Building
    <3>6. run[c].stage = "releases" /\ run[c].left = <<"prod">> => "dll" \in release["dev"]
      BY <1>1, <3>1 DEF Going, Filled, Loading
    <3>7. Filled(r)' BY <1>1, <2>1, <3>4, <3>5, <3>6 DEF Filled, Moved, Started, Env
    <3>8. Serving(r)' /\ Packed(r)' BY <2>1 DEF Serving, Packed, Moved, Packs, Started
    <3> QED BY <3>2, <3>7, <3>8 DEF Going
  <2> QED BY <1>1, <1>2, <2>1, GoesTo DEF ghosts
<1> QED BY <1>1, <1>2, ReturnsFailed DEF Publish

LEMMA SyncDone ==
  ASSUME IInv, QInv, NEW c \in Composers, SyncRuntimeAssets(c), Maps', Stocked' PROVE QInv'
<1>1. ~At(c, "idle") /\ run[c].at = "sync" BY DEF SyncRuntimeAssets, At
<1>2. CASE /\ release' = [release EXCEPT ![Building(c)] = @ \union {"assets"}]
           /\ Go(c, "fetch") /\ UNCHANGED ghosts
  <2>1. ASSUME NEW r, Moved(r, run[c], "fetch"), quiet[c] PROVE Going(r)'
    <3>1. Going(run[c]) /\ Building(c) \in Env
          /\ (run[c].stage = "ready" => Building(c) = run[c].cmd.env)
      BY <1>1, <2>1, Fills DEF Loading, Cmd
    <3>2. Shaped(r)' BY <1>1, <2>1, <3>1 DEF Going, Shaped, Moved, Loading, Packs, UpPlaces
    <3>3. release \in [Env -> {release[e] : e \in Env}] BY DEF QInv, Maps
    <3>4. "assets" \in release'[Building(c)] /\ \A e \in Env : release[e] \subseteq release'[e]
      BY <1>2, <3>1, <3>3
    <3>5. source' = source /\ Head(r.left) = Building(c) BY <1>2, <2>1 DEF ghosts, Moved, Building
    <3>6. "dll" \in release[Building(c)] BY <1>1, <3>1 DEF Going, Filled, Building
    <3>7. run[c].stage = "releases" /\ run[c].left = <<"prod">> /\ source => "dll" \in release["dev"]
      BY <1>1, <3>1 DEF Going, Filled, Loading
    <3>8. Filled(r)'
      BY <1>1, <2>1, <3>1, <3>4, <3>5, <3>6, <3>7 DEF Filled, Moved, Started, Env, Ready
    <3>9. Serving(r)' /\ Packed(r)' BY <2>1 DEF Serving, Packed, Moved, Packs, Started
    <3> QED BY <3>2, <3>8, <3>9 DEF Going
  <2> QED BY <1>1, <1>2, <2>1, GoesTo DEF ghosts
<1> QED BY <1>1, <1>2, ReturnsFailed DEF SyncRuntimeAssets

(* The next environment, or what comes after both. *)
LEMMA NextBuildDone ==
  ASSUME IInv, QInv, NEW c \in Composers, NextBuild(c), Maps', Stocked', source' = source,
         \/ run[c].at = "fetch" /\ release' = release
         \/ run[c].at = "fill" /\ ~source /\ run[c].stage # "build"
  PROVE  QInv'
<1>1. ~At(c, "idle") /\ run[c].at \in Loading BY DEF At, Loading
<1>2. quiet[c] => run[c].at = "fetch" \/ run[c].stage = "releases"
  <2> SUFFICES ASSUME quiet[c], run[c].at = "fill", ~source, run[c].stage # "build"
               PROVE  run[c].stage = "releases"
    OBVIOUS
  <2>1. Going(run[c]) BY DEF QInv, Undisturbed
  <2> QED BY <2>1 DEF Going, Filled, Shaped
<1>3. CASE Len(run[c].left) > 1
  <2> PICK left : left = Tail(run[c].left) OBVIOUS
  <2> PICK r : r = [run[c] EXCEPT !.left = left, !.at = "clear"] OBVIOUS
  <2>1. run' = [run EXCEPT ![c] = r] /\ UNCHANGED <<quiet, result>>
    BY <1>3 DEF NextBuild, ghosts, IInv
  <2>2. r.at = "clear" /\ r.left = left /\ r.stage = run[c].stage /\ r.cmd = run[c].cmd
        /\ r.todo = run[c].todo /\ r.fine = run[c].fine
    BY DEF IInv, Fields
  <2>3. ASSUME quiet[c] PROVE Going(r)'
    <3>1. Going(run[c]) /\ run[c].left \in {EnvOrder, <<"prod">>, <<Cmd(c).env>>}
          /\ (run[c].stage = "ready" => run[c].left = <<Cmd(c).env>>)
      BY <1>1, <2>3, Fills
    <3>2. run[c].left = EnvOrder /\ left = <<"prod">> BY <1>3, <3>1, Lefts
    <3>3. run[c].stage # "ready" BY <3>1, <3>2, Lefts
    <3>4. Shaped(r)'
      BY <1>1, <2>2, <3>1, <3>2, <3>3 DEF Going, Shaped, Loading, Packs, UpPlaces
    <3>5. source => "dll" \in release'["dev"]
      BY <3>1, <3>2, Lefts DEF Going, Filled
    <3>6. Filled(r)' BY <2>2, <3>5 DEF Filled, Started
    <3>7. Serving(r)' /\ Packed(r)' BY <2>2 DEF Serving, Packed, Packs, Started
    <3> QED BY <3>4, <3>6, <3>7 DEF Going
  <2> QED BY <1>1, <2>1, <2>2, <2>3, StepsOn
<1>4. CASE ~(Len(run[c].left) > 1) /\ run[c].stage = "build"
  <2>1. Returns(c, "ok") BY <1>4 DEF NextBuild
  <2>2. quiet[c] => run[c].cmd.op = "build"
    BY <1>1, <1>4 DEF QInv, Undisturbed, Going, Shaped, At
  <2> QED BY <1>1, <2>1, <2>2, ReturnsDone DEF Done
<1>5. CASE ~(Len(run[c].left) > 1) /\ run[c].stage # "build"
  <2> PICK place : place = After(c) OBVIOUS
  <2>1. Go(c, place) /\ UNCHANGED <<quiet, result>> /\ place # "idle"
    BY <1>5, AfterOK DEF NextBuild, ghosts
  <2>2. ASSUME NEW r, Moved(r, run[c], place), quiet[c] PROVE Going(r)'
    <3>1. /\ Going(run[c]) /\ Cmd(c).op \in {"up", "build", "release"}
          /\ run[c].stage # "ready" => run[c].left \in {EnvOrder, <<"prod">>}
      BY <1>1, <2>2, Fills
    <3>2. /\ run[c].cmd \in CommandType /\ run[c].fine \in BOOLEAN
          /\ run[c].stage \in {"build", "releases", "ready"}
          /\ run[c].stage = "build" <=> Cmd(c).op = "build"
          /\ run[c].stage = "ready" => Cmd(c).op = "up"
      BY <1>1, <3>1 DEF Going, Shaped, At, Cmd
    <3>3. CASE run[c].stage = "ready"
      <4>1. place = "compose" /\ run[c].at = "fetch" /\ release' = release
        BY <1>2, <2>2, <3>3 DEF After
      <4>2. Shaped(r)'
        BY <2>2, <3>2, <3>3, <4>1 DEF Shaped, Moved, Cmd, Loading, Packs, UpPlaces
      <4>3. r.at = "compose" /\ r.cmd = run[c].cmd BY <2>2, <4>1 DEF Moved
      <4>4. Ready(r.cmd.env)' BY <4>1, <4>3, <3>1, <3>3 DEF Ready, Going, Filled
      <4>5. Filled(r)' BY <4>3, <4>4 DEF Filled, Loading
      <4>6. Serving(r)' /\ Packed(r)' BY <4>3 DEF Serving, Packed, Packs, Started
      <4> QED BY <4>2, <4>5, <4>6 DEF Going
    <3>4. CASE run[c].stage = "releases"
      <4>1. \/ place = "ready" /\ Cmd(c).op = "up"
            \/ place = "validate" /\ Cmd(c).op = "release"
        BY <3>1, <3>2, <3>4 DEF After
      <4>2. run[c].left = <<"prod">>
        <5>1. Len(EnvOrder) > 1 BY Lefts
        <5> QED BY <1>5, <3>1, <3>4, <5>1
      <4>3. source => "dll" \in release'["dev"] /\ "dll" \in release'["prod"]
        BY <1>1, <3>1, <3>4, <4>2, Lefts DEF Going, Filled
      <4>4. source => Built' BY <4>3 DEF Built, Env
      <4>5. Shaped(r)'
        BY <2>2, <3>2, <3>4, <4>1 DEF Shaped, Moved, Cmd, Loading, Packs, UpPlaces
      <4>6. Filled(r)' BY <2>2, <4>1, <4>4 DEF Filled, Moved, Loading, Started
      <4>7. Serving(r)' /\ Packed(r)' BY <2>2, <4>1 DEF Serving, Packed, Moved, Packs, Started
      <4> QED BY <4>5, <4>6, <4>7 DEF Going
    <3> QED BY <1>5, <3>2, <3>3, <3>4
  <2> QED BY <1>1, <2>1, <2>2, GoesTo
<1> QED BY <1>3, <1>4, <1>5

LEMMA RehydrateDone ==
  ASSUME IInv, QInv, NEW c \in Composers, Rehydrate(c), Maps', Stocked' PROVE QInv'
<1>1. ~At(c, "idle") /\ run[c].at = "fill" /\ ~source BY DEF Rehydrate, At
<1>2. CASE run[c].stage = "build" /\ Go(c, "fetch") /\ UNCHANGED ghosts
  <2>1. ASSUME NEW r, Moved(r, run[c], "fetch"), quiet[c] PROVE Going(r)'
    <3>1. Going(run[c]) BY <2>1 DEF QInv, Undisturbed
    <3>2. Shaped(r)' BY <1>1, <2>1, <3>1 DEF Going, Shaped, Moved, Loading, Packs, UpPlaces
    <3>3. source' = source BY <1>2 DEF ghosts
    <3>4. Filled(r)' BY <1>1, <1>2, <2>1, <3>3 DEF Filled, Moved, Started
    <3>5. Serving(r)' /\ Packed(r)' BY <2>1 DEF Serving, Packed, Moved, Packs, Started
    <3> QED BY <3>2, <3>4, <3>5 DEF Going
  <2> QED BY <1>1, <1>2, <2>1, GoesTo DEF ghosts
<1>3. CASE run[c].stage # "build" /\ NextBuild(c)
  <2>1. source' = source BY <1>3 DEF NextBuild, Returns, ghosts
  <2> QED BY <1>1, <1>3, <2>1, NextBuildDone
<1>4. CASE Returns(c, "failed") BY <1>1, <1>4, ReturnsFailed
<1> QED BY <1>2, <1>3, <1>4 DEF Rehydrate

LEMMA FetchImagesDone ==
  ASSUME IInv, QInv, NEW c \in Composers, FetchImages(c), Maps', Stocked' PROVE QInv'
<1>1. ~At(c, "idle") /\ run[c].at = "fetch" /\ release' = release BY DEF FetchImages, At
<1>2. CASE NextBuild(c)
  <2>1. source' = source BY <1>2 DEF NextBuild, Returns, ghosts
  <2> QED BY <1>1, <1>2, <2>1, NextBuildDone
<1> QED BY <1>1, <1>2, ReturnsFailed DEF FetchImages

LEMMA EnsureReadyDone ==
  ASSUME IInv, QInv, NEW c \in Composers, EnsureReady(c), Maps', Stocked' PROVE QInv'
<1>1. ~At(c, "idle") /\ run[c].at = "ready" BY DEF EnsureReady, At
<1> PICK e : e = Cmd(c).env OBVIOUS
<1> PICK has : has = IF "dll" \in release[e] \/ "tar" \notin package[e] THEN release[e]
                     ELSE Extracted(e)
  OBVIOUS
<1>2. ASSUME NEW place \in {"fetch", "fill"}, UNCHANGED ghosts,
             run' = [run EXCEPT ![c].stage = "ready", ![c].left = <<e>>, ![c].at = place],
             place = "fill" => source,
             place = "fetch" => "dll" \in has /\ release' = [release EXCEPT ![e] = Readied(e, has)]
      PROVE  QInv'
  <2> PICK r : r = [run[c] EXCEPT !.stage = "ready", !.left = <<e>>, !.at = place] OBVIOUS
  <2>1. run' = [run EXCEPT ![c] = r] /\ UNCHANGED <<quiet, result, source>>
    BY <1>2 DEF ghosts, IInv
  <2>2. r.at = place /\ r.left = <<e>> /\ r.stage = "ready" /\ r.cmd = run[c].cmd
        /\ r.todo = run[c].todo /\ r.fine = run[c].fine
    BY DEF IInv, Fields
  <2>3. ASSUME quiet[c] PROVE Going(r)'
    <3>1. Going(run[c]) BY <2>3 DEF QInv, Undisturbed
    <3>2. run[c].cmd \in CommandType /\ run[c].fine \in BOOLEAN /\ Cmd(c).op = "up"
      BY <1>1, <3>1 DEF Going, Shaped, UpPlaces, Cmd
    <3>3. e \in Env BY <3>2 DEF CommandType, Cmd
    <3>4. Shaped(r)' BY <1>2, <2>2, <3>2 DEF Shaped, Loading, Packs, UpPlaces, Cmd
    <3>5. place = "fetch" => "dll" \in release'[e] /\ (source => "assets" \in release'[e])
      <4> SUFFICES ASSUME place = "fetch"
                   PROVE  "dll" \in release'[e] /\ (source => "assets" \in release'[e])
        OBVIOUS
      <4>1. source => "dll" \in release[e] BY <1>1, <3>1, <3>3 DEF Going, Filled, Built
      <4>2. release'[e] = Readied(e, has) /\ "dll" \in has BY <1>2, <3>3 DEF QInv, Maps
      <4> QED BY <4>1, <4>2 DEF Readied
    <3>6. Head(r.left) = e /\ r.cmd.env = e BY <2>2, Lefts DEF Cmd
    <3>7. Filled(r)' BY <1>2, <2>1, <2>2, <3>5, <3>6 DEF Filled, Ready, Started
    <3>8. Serving(r)' /\ Packed(r)' BY <1>2, <2>2 DEF Serving, Packed, Packs, Started
    <3> QED BY <3>4, <3>7, <3>8 DEF Going
  <2> QED BY <1>1, <1>2, <2>1, <2>2, <2>3, StepsOn
<1>3. \/ /\ "dll" \in has /\ release' = [release EXCEPT ![e] = Readied(e, has)] /\ UNCHANGED ghosts
         /\ run' = [run EXCEPT ![c].stage = "ready", ![c].left = <<e>>, ![c].at = "fetch"]
      \/ /\ source /\ UNCHANGED ghosts
         /\ run' = [run EXCEPT ![c].stage = "ready", ![c].left = <<e>>, ![c].at = "fill"]
      \/ Returns(c, "failed")
  BY DEF EnsureReady
<1> QED BY <1>1, <1>2, <1>3, ReturnsFailed

-----------------------------------------------------------------------------
(* up past its directories. *)

LEMMA ComposeUpDone ==
  ASSUME IInv, QInv, NEW c \in Composers, ComposeUp(c), Maps', Stocked' PROVE QInv'
<1>1. ~At(c, "idle") /\ run[c].at = "compose" /\ release' = release BY DEF ComposeUp, At, disk
<1>2. CASE /\ containers' = [containers EXCEPT ![Cmd(c).env] = "running"]
           /\ Go(c, "video") /\ UNCHANGED ghosts
  <2>1. ASSUME NEW r, Moved(r, run[c], "video"), quiet[c] PROVE Going(r)'
    <3>1. Going(run[c]) BY <2>1 DEF QInv, Undisturbed
    <3>2. Shaped(r)' BY <1>1, <2>1, <3>1 DEF Going, Shaped, Moved, Loading, Packs, UpPlaces
    <3>3. r.cmd.env = Cmd(c).env /\ r.cmd.env \in Env
      BY <1>1, <2>1, <3>1 DEF Going, Shaped, Moved, Cmd, CommandType
    <3>4. Ready(r.cmd.env)' BY <1>1, <1>2, <3>1, <3>3 DEF Going, Filled, Ready, Cmd, ghosts
    <3>5. containers'[r.cmd.env] = "running" BY <1>2, <3>3 DEF QInv, Maps
    <3>6. Filled(r)' /\ Serving(r)' /\ Packed(r)'
      BY <2>1, <3>4, <3>5 DEF Filled, Serving, Packed, Moved, Loading, Packs, Started
    <3> QED BY <3>2, <3>6 DEF Going
  <2> QED BY <1>1, <1>2, <2>1, GoesTo DEF ghosts
<1> QED BY <1>1, <1>2, ReturnsFailed DEF ComposeUp

\* From one of its places to the next, on the same machine.
LEMMA UpGoesOn ==
  ASSUME QInv, NEW c \in Composers, quiet[c], NEW r,
         r.cmd = run[c].cmd, r.fine = run[c].fine, r.stage = run[c].stage,
         run[c].at \in Started, r.at \in Started,
         UNCHANGED <<release, containers, source>>,
         r.at \in {"pps", "launch"} /\ Cmd(c).detection => Answering'
  PROVE  Going(r)'
<1>1. Going(run[c]) BY DEF QInv, Undisturbed
<1>2. Cmd(c).op = "up" /\ run[c].cmd \in CommandType
  BY <1>1 DEF Going, Shaped, Started, UpPlaces, Cmd
<1>3. Shaped(r)' BY <1>1, <1>2 DEF Going, Shaped, Loading, Packs, Started, UpPlaces, Cmd
<1>4. Ready(r.cmd.env)' BY <1>1 DEF Going, Filled, Ready
<1>5. Filled(r)' BY <1>4 DEF Filled, Loading, Started
<1>6. Serving(r)' /\ Packed(r)'
  BY <1>1 DEF Going, Serving, Packed, Packs, Started, Cmd
<1> QED BY <1>3, <1>5, <1>6 DEF Going

LEMMA StartVideoDone ==
  ASSUME IInv, QInv, NEW c \in Composers, StartVideo(c), Maps', Stocked' PROVE QInv'
<1>1. ~At(c, "idle") /\ run[c].at = "video" /\ Go(c, "detection")
      /\ UNCHANGED <<release, containers, source, quiet, result>>
  BY DEF StartVideo, At, disk, ghosts
<1>2. ASSUME NEW r, Moved(r, run[c], "detection"), quiet[c] PROVE Going(r)'
  BY <1>1, <1>2, UpGoesOn DEF Moved, Started
<1> QED BY <1>1, <1>2, GoesTo

LEMMA RunDetectionDone ==
  ASSUME IInv, QInv, NEW c \in Composers, RunDetection(c), Maps', Stocked' PROVE QInv'
<1>1. ~At(c, "idle") /\ run[c].at = "detection" /\ UNCHANGED <<release, containers>>
  BY DEF RunDetection, At, disk
<1>2. CASE (~Cmd(c).detection \/ Answering) /\ Go(c, "pps") /\ UNCHANGED <<service, ghosts>>
  <2>1. ASSUME NEW r, Moved(r, run[c], "pps"), quiet[c] PROVE Going(r)'
    <3>1. Cmd(c).detection => Answering' BY <1>2 DEF Answering
    <3> QED BY <1>1, <1>2, <2>1, <3>1, UpGoesOn DEF Moved, Started, ghosts
  <2> QED BY <1>1, <1>2, <2>1, GoesTo DEF ghosts
<1>3. CASE \E i \in FreeLaunches :
             run' = [run EXCEPT ![c].launch = {i}, ![c].at = "await"] /\ UNCHANGED ghosts
  <2>1. PICK i \in FreeLaunches : run' = [run EXCEPT ![c].launch = {i}, ![c].at = "await"]
    BY <1>3
  <2> PICK r : r = [run[c] EXCEPT !.launch = {i}, !.at = "await"] OBVIOUS
  <2>2. run' = [run EXCEPT ![c] = r] /\ UNCHANGED <<quiet, result, source>>
    BY <1>3, <2>1 DEF IInv, ghosts
  <2>3. r.at = "await" /\ r.cmd = run[c].cmd /\ r.fine = run[c].fine /\ r.stage = run[c].stage
        /\ r.todo = run[c].todo
    BY DEF IInv, Fields
  <2>4. quiet[c] => Going(r)' BY <1>1, <2>2, <2>3, UpGoesOn DEF Started
  <2> QED BY <1>1, <2>2, <2>3, <2>4, StepsOn
<1> QED BY <1>1, <1>2, <1>3, ReturnsFailed DEF RunDetection

\* A place where nothing is promised yet, or any more.
LEMMA NothingPromised ==
  ASSUME QInv, NEW c \in Composers, quiet[c], NEW r, ~At(c, "idle"),
         r.cmd = run[c].cmd, r.fine = run[c].fine, r.stage = run[c].stage,
         \/ r.at \in {"signal", "drain"} /\ Cmd(c).op # "release"
         \/ r.at \in {"stopVideo", "stopEnv", "remove"} /\ Cmd(c).op \notin {"up", "release"}
         \/ r.at \in {"attached", "serving"} /\ Cmd(c).op = "up" /\ ~Cmd(c).detached
  PROVE  Going(r)'
<1>1. Going(run[c]) BY DEF QInv, Undisturbed
<1>2. Shaped(r)' BY <1>1 DEF Going, Shaped, At, Cmd, Loading, Packs, UpPlaces
<1>3. Filled(r)' /\ Serving(r)' /\ Packed(r)'
  BY DEF Filled, Serving, Packed, Loading, Packs, Started
<1> QED BY <1>2, <1>3 DEF Going

LEMMA AwaitDetectionDone ==
  ASSUME IInv, QInv, NEW c \in Composers, AwaitDetection(c), Maps', Stocked' PROVE QInv'
<1>1. ~At(c, "idle") /\ run[c].at = "await"
      /\ UNCHANGED <<release, containers, source, quiet, result, service>>
  BY DEF AwaitDetection, At, disk, processes, ghosts
<1>2. CASE Answering /\ run' = [run EXCEPT ![c].launch = {}, ![c].at = "pps"]
  <2> PICK r : r = [run[c] EXCEPT !.launch = {}, !.at = "pps"] OBVIOUS
  <2>1. run' = [run EXCEPT ![c] = r] BY <1>2 DEF IInv
  <2>2. r.at = "pps" /\ r.cmd = run[c].cmd /\ r.fine = run[c].fine /\ r.stage = run[c].stage
        /\ r.todo = run[c].todo
    BY DEF IInv, Fields
  <2>3. Answering' BY <1>1, <1>2 DEF Answering
  <2>4. quiet[c] => Going(r)' BY <1>1, <2>2, <2>3, UpGoesOn DEF Started
  <2> QED BY <1>1, <2>1, <2>2, <2>4, StepsOn
<1>3. CASE Go(c, "signal")
  <2>1. Cmd(c).op # "release" BY <1>1 DEF IInv, UpOnly, UpPlaces, Cmd
  <2>2. ASSUME NEW r, Moved(r, run[c], "signal"), quiet[c] PROVE Going(r)'
    BY <1>1, <2>1, <2>2, NothingPromised DEF Moved
  <2> QED BY <1>1, <1>3, <2>2, GoesTo
<1> QED BY <1>2, <1>3 DEF AwaitDetection

LEMMA SignalDetectionDone ==
  ASSUME IInv, QInv, NEW c \in Composers, SignalDetection(c), Maps', Stocked' PROVE QInv'
<1>1. ~At(c, "idle") /\ run[c].at = "signal" /\ Go(c, "drain") /\ UNCHANGED <<quiet, result>>
  BY DEF SignalDetection, At, ghosts
<1>2. ASSUME NEW r, Moved(r, run[c], "drain"), quiet[c] PROVE Going(r)'
  <2>1. Cmd(c).op # "release" BY <1>1, <1>2 DEF QInv, Undisturbed, Going, Shaped, Cmd
  <2> QED BY <1>1, <1>2, <2>1, NothingPromised DEF Moved
<1> QED BY <1>1, <1>2, GoesTo

LEMMA EndDetectionDone ==
  ASSUME IInv, QInv, NEW c \in Composers, EndDetection(c), Maps', Stocked' PROVE QInv'
<1>1. ~At(c, "idle") /\ run[c].at = "drain" BY DEF EndDetection, At
<1>2. CASE Cmd(c).op = "up" BY <1>1, <1>2, ReturnsFailed DEF EndDetection
<1>3. CASE Cmd(c).op # "up"
  <2>1. Go(c, "stopVideo") /\ UNCHANGED <<quiet, result>> BY <1>3 DEF EndDetection, ghosts
  <2>2. ASSUME NEW r, Moved(r, run[c], "stopVideo"), quiet[c] PROVE Going(r)'
    <3>1. Cmd(c).op # "release" BY <1>1, <2>2 DEF QInv, Undisturbed, Going, Shaped, Cmd
    <3> QED BY <1>1, <1>3, <2>2, <3>1, NothingPromised DEF Moved
  <2> QED BY <1>1, <2>1, <2>2, GoesTo
<1> QED BY <1>2, <1>3

LEMMA PreparePpsDone ==
  ASSUME IInv, QInv, NEW c \in Composers, PreparePps(c), Maps', Stocked' PROVE QInv'
<1>1. ~At(c, "idle") /\ run[c].at = "pps" /\ UNCHANGED <<release, containers, service>>
  BY DEF PreparePps, At, disk
<1>2. quiet[c] => "dll" \in release[Cmd(c).env] /\ (Cmd(c).detection => Answering)
  BY <1>1 DEF QInv, Undisturbed, Going, Filled, Serving, Ready, Started, Cmd
<1>3. CASE "dll" \notin release[Cmd(c).env]
  <2>1. PICK how : Returns(c, how) BY <1>3 DEF PreparePps
  <2> QED BY <1>1, <1>2, <1>3, <2>1, ReturnsDone
<1>4. CASE "dll" \in release[Cmd(c).env]
  <2>1. Go(c, "launch") /\ UNCHANGED ghosts BY <1>4 DEF PreparePps
  <2>2. ASSUME NEW r, Moved(r, run[c], "launch"), quiet[c] PROVE Going(r)'
    <3>1. Cmd(c).detection => Answering' BY <1>1, <1>2, <2>2 DEF Answering
    <3> QED BY <1>1, <2>1, <2>2, <3>1, UpGoesOn DEF Moved, Started, ghosts
  <2> QED BY <1>1, <2>1, <2>2, GoesTo DEF ghosts
<1> QED BY <1>3, <1>4

\* `up -d` returns zero.
LEMMA LaunchPpsDone ==
  ASSUME IInv, QInv, NEW c \in Composers, LaunchPps(c), Maps', Stocked' PROVE QInv'
<1>1. ~At(c, "idle") /\ run[c].at = "launch" /\ UNCHANGED <<release, containers, service>>
  BY DEF LaunchPps, At, disk
<1>2. quiet[c] => /\ Ready(Cmd(c).env) /\ (Cmd(c).detection => Answering)
                  /\ containers[Cmd(c).env] = "running" /\ Cmd(c).op = "up"
  BY <1>1 DEF QInv, Undisturbed, Going, Shaped, Filled, Serving, Started, Cmd
<1>3. CASE Cmd(c).detached
  <2>1. Returns(c, "ok") BY <1>3 DEF LaunchPps
  <2>2. source' = source BY <2>1 DEF Returns
  <2>3. ASSUME NEW cmd, cmd = run[c].cmd, quiet[c] PROVE Done(cmd)'
    <3>1. cmd.env = Cmd(c).env /\ cmd.op = "up" /\ cmd.detection = Cmd(c).detection
      BY <1>2, <2>3 DEF Cmd
    <3>2. Ready(cmd.env)' BY <1>1, <1>2, <2>2, <2>3, <3>1 DEF Ready
    <3>3. cmd.env \in Env /\ Launched(cmd.env)'
      <4>1. cmd.env \in Env
        BY <1>1, <2>3 DEF QInv, Undisturbed, Going, Shaped, CommandType
      <4>2. PICK opens \in {"opening", "lost"} :
              pps' = [pps EXCEPT ![cmd.env] = pps[cmd.env] \union {opens}]
        BY <1>3, <3>1 DEF LaunchPps
      <4>3. opens \in pps'[cmd.env] BY <4>1, <4>2 DEF QInv, Maps
      <4> QED BY <4>1, <4>3 DEF Launched
    <3>4. containers'[cmd.env] = "running" BY <1>1, <1>2, <2>3, <3>1
    <3>5. cmd.detection => Answering' BY <1>1, <1>2, <2>3, <3>1 DEF Answering
    <3> QED BY <3>1, <3>2, <3>3, <3>4, <3>5 DEF Done
  <2> QED BY <1>1, <2>1, <2>3, ReturnsDone
<1>4. CASE ~Cmd(c).detached
  <2>1. Go(c, "attached") /\ UNCHANGED ghosts BY <1>4 DEF LaunchPps
  <2>2. ASSUME NEW r, Moved(r, run[c], "attached"), quiet[c] PROVE Going(r)'
    BY <1>1, <1>2, <1>4, <2>2, NothingPromised DEF Moved
  <2> QED BY <1>1, <2>1, <2>2, GoesTo DEF ghosts
<1> QED BY <1>3, <1>4

LEMMA AttachedStartsDone ==
  ASSUME IInv, QInv, NEW c \in Composers, AttachedStarts(c), Maps', Stocked' PROVE QInv'
<1>1. ~At(c, "idle") /\ run[c].at = "attached" BY DEF AttachedStarts, At
<1>2. CASE Go(c, "serving") /\ UNCHANGED ghosts
  <2>1. ASSUME NEW r, Moved(r, run[c], "serving"), quiet[c] PROVE Going(r)'
    <3>1. Cmd(c).op = "up" /\ ~Cmd(c).detached
      BY <1>1, <2>1 DEF QInv, Undisturbed, Going, Shaped, Cmd
    <3> QED BY <1>1, <2>1, <3>1, NothingPromised DEF Moved
  <2> QED BY <1>1, <1>2, <2>1, GoesTo DEF ghosts
<1> QED BY <1>1, <1>2, ReturnsFailed DEF AttachedStarts

LEMMA AttachedEndsDone ==
  ASSUME IInv, QInv, NEW c \in Composers, AttachedEnds(c), Maps', Stocked' PROVE QInv'
<1>1. ~At(c, "idle") /\ run[c].at = "serving" BY DEF AttachedEnds, At
<1>2. PICK how : Returns(c, how) BY DEF AttachedEnds
<1>3. ASSUME NEW cmd, cmd = run[c].cmd, quiet[c] PROVE Done(cmd)'
  <2>1. cmd.op = "up" /\ ~cmd.detached
    BY <1>1, <1>3 DEF QInv, Undisturbed, Going, Shaped
  <2> QED BY <2>1 DEF Done
<1> QED BY <1>1, <1>2, <1>3, ReturnsDone

(* stop and kill. *)
LEMMA StoppingDone ==
  ASSUME IInv, QInv, NEW c \in Composers, Maps', Stocked',
         Terminate(c) \/ StopVideo(c) \/ StopEnv(c) \/ RemoveRelease(c)
  PROVE  QInv'
<1>1. ~At(c, "idle") /\ run[c].at \in {"terminate", "stopVideo", "stopEnv", "remove"}
  BY DEF Terminate, StopVideo, StopEnv, RemoveRelease, At
<1>2. quiet[c] => Cmd(c).op \notin {"up", "release"}
  BY <1>1 DEF QInv, Undisturbed, Going, Shaped, Cmd
<1>3. ASSUME NEW place \in {"signal", "stopEnv", "remove"}, Go(c, place), UNCHANGED ghosts
      PROVE  QInv'
  <2>1. ASSUME NEW r, Moved(r, run[c], place), quiet[c] PROVE Going(r)'
    BY <1>1, <1>2, <1>3, <2>1, NothingPromised DEF Moved
  <2> QED BY <1>1, <1>3, <2>1, GoesTo DEF ghosts
<1>4. ASSUME Returns(c, "ok") PROVE QInv'
  <2>1. ASSUME NEW cmd, cmd = run[c].cmd, quiet[c] PROVE Done(cmd)'
    BY <1>2, <2>1 DEF Done, Cmd
  <2> QED BY <1>1, <1>4, <2>1, ReturnsDone
<1> QED BY <1>3, <1>4 DEF Terminate, StopVideo, StopEnv, RemoveRelease

-----------------------------------------------------------------------------
(* release. *)

LEMMA ValidateDone ==
  ASSUME IInv, QInv, NEW c \in Composers, Validate(c), Maps', Stocked' PROVE QInv'
<1>1. ~At(c, "idle") /\ run[c].at = "validate" /\ release' = release BY DEF Validate, At
<1>2. CASE /\ Built /\ UNCHANGED ghosts
           /\ run' = [run EXCEPT ![c].at = "package", ![c].left = EnvOrder]
  <2> PICK r : r = [run[c] EXCEPT !.at = "package", !.left = EnvOrder] OBVIOUS
  <2>1. run' = [run EXCEPT ![c] = r] /\ UNCHANGED <<quiet, result>> BY <1>2 DEF IInv, ghosts
  <2>2. r.at = "package" /\ r.left = EnvOrder /\ r.cmd = run[c].cmd /\ r.fine = run[c].fine
        /\ r.stage = run[c].stage /\ r.todo = run[c].todo
    BY DEF IInv, Fields
  <2>3. ASSUME quiet[c] PROVE Going(r)'
    <3>1. Going(run[c]) BY <2>3 DEF QInv, Undisturbed
    <3>2. Shaped(r)' BY <1>1, <2>2, <3>1 DEF Going, Shaped, Loading, Packs, UpPlaces
    <3>3. Built' BY <1>1, <1>2 DEF Built
    <3>4. Packed(r)' BY <2>2, <3>3, Lefts DEF Packed
    <3>5. Filled(r)' /\ Serving(r)' BY <2>2 DEF Filled, Serving, Loading, Started
    <3> QED BY <3>2, <3>4, <3>5 DEF Going
  <2> QED BY <1>1, <2>1, <2>2, <2>3, StepsOn
<1> QED BY <1>1, <1>2, ReturnsFailed DEF Validate

(* What is known of an environment that is being packed. *)
LEMMA Packing ==
  ASSUME QInv, NEW c \in Composers, quiet[c], run[c].at \in Packs
  PROVE  /\ Going(run[c]) /\ Built /\ run[c].left \in {EnvOrder, <<"prod">>}
         /\ run[c].left = EnvOrder => Building(c) = "dev"
         /\ run[c].left = <<"prod">> => Building(c) = "prod"
         /\ run[c].left = <<"prod">> /\ run[c].fine => Whole("dev")
         /\ run[c].fine \in BOOLEAN /\ Cmd(c).op = "release"
<1>1. Going(run[c]) BY DEF QInv, Undisturbed
<1>2. run[c].left \in {EnvOrder, <<"prod">>} /\ run[c].fine \in BOOLEAN /\ Cmd(c).op = "release"
  BY <1>1 DEF Going, Shaped, Cmd
<1>3. Built /\ (run[c].left = <<"prod">> /\ run[c].fine => Whole("dev"))
  BY <1>1 DEF Going, Packed
<1> QED BY <1>1, <1>2, <1>3, Lefts DEF Building

LEMMA ClearPackageDone ==
  ASSUME IInv, QInv, NEW c \in Composers, ClearPackage(c), Maps', Stocked' PROVE QInv'
<1>1. ~At(c, "idle") /\ run[c].at = "package" /\ Go(c, "tar")
      /\ UNCHANGED <<quiet, result, release>>
      /\ package' = [package EXCEPT ![Building(c)] = {}]
  BY DEF ClearPackage, At, ghosts
<1>2. ASSUME NEW r, Moved(r, run[c], "tar"), quiet[c] PROVE Going(r)'
  <2>1. /\ Going(run[c]) /\ Built /\ run[c].left \in {EnvOrder, <<"prod">>}
        /\ run[c].left = <<"prod">> => Building(c) = "prod"
        /\ run[c].left = <<"prod">> /\ run[c].fine => Whole("dev")
    BY <1>1, <1>2, Packing DEF Packs
  <2>2. Shaped(r)' BY <1>1, <1>2, <2>1 DEF Going, Shaped, Moved, Loading, Packs, UpPlaces
  <2>3. run[c].left = <<"prod">> /\ run[c].fine => Whole("dev")'
    <3>1. run[c].left = <<"prod">> => package'["dev"] = package["dev"]
      BY <1>1, <2>1 DEF QInv, Maps, Env
    <3> QED BY <1>1, <2>1, <3>1 DEF Whole
  <2>4. Built' BY <1>1, <2>1 DEF Built
  <2>5. Packed(r)' BY <1>2, <2>3, <2>4 DEF Packed, Moved
  <2>6. Filled(r)' /\ Serving(r)' BY <1>2 DEF Filled, Serving, Moved, Loading, Started
  <2> QED BY <2>2, <2>5, <2>6 DEF Going
<1> QED BY <1>1, <1>2, GoesTo

(* The outcome is kept over both environments. *)
LEMMA NextPackageDone ==
  ASSUME IInv, QInv, NEW c \in Composers, NEW ok \in BOOLEAN, NextPackage(c, ok), UNCHANGED ghosts,
         run[c].at \in Packs, release' = release, Maps', Stocked',
         \A e \in Env : e # Building(c) => package'[e] = package[e],
         quiet[c] /\ ok => \A e : e = Building(c) => Whole(e)'
  PROVE  QInv'
<1> PICK e : e = Building(c) OBVIOUS
<1> PICK r : r = [run[c] EXCEPT !.fine = @ /\ ok, !.left = Tail(@),
                    !.at = IF Len(run[c].left) > 1 THEN "package" ELSE "export"]
  OBVIOUS
<1>1. run' = [run EXCEPT ![c] = r] /\ UNCHANGED <<quiet, result>>
  BY DEF IInv, NextPackage, ghosts
<1>2. /\ r.at = IF Len(run[c].left) > 1 THEN "package" ELSE "export"
      /\ r.left = Tail(run[c].left) /\ r.cmd = run[c].cmd /\ r.fine = (run[c].fine /\ ok)
      /\ r.stage = run[c].stage /\ r.todo = run[c].todo
  BY DEF IInv, Fields
<1>3. ASSUME quiet[c] PROVE Going(r)'
  <2>1. /\ Going(run[c]) /\ Built /\ run[c].left \in {EnvOrder, <<"prod">>}
        /\ run[c].left = EnvOrder => e = "dev"
        /\ run[c].left = <<"prod">> => e = "prod"
        /\ run[c].left = <<"prod">> /\ run[c].fine => Whole("dev")
        /\ run[c].fine \in BOOLEAN /\ Cmd(c).op = "release"
    BY <1>3, Packing
  <2>2. /\ run[c].left = EnvOrder => r.at = "package" /\ r.left = <<"prod">>
        /\ run[c].left = <<"prod">> => r.at = "export" /\ r.left = <<>>
    <3>1. Len(EnvOrder) > 1 /\ ~(Len(<<"prod">>) > 1) BY Lefts
    <3> QED BY <1>2, <3>1, Lefts
  <2>3. r.at \in {"package", "export"} /\ r.fine \in BOOLEAN /\ (r.fine => run[c].fine /\ ok)
    BY <1>2, <2>1, <2>2
  <2>4. Shaped(r)'
    <3>1. run[c].cmd \in CommandType /\ run[c].stage \in {"build", "releases", "ready"}
          /\ (run[c].stage = "build" <=> run[c].cmd.op = "build")
          /\ (run[c].stage = "ready" => run[c].cmd.op = "up")
      BY <2>1 DEF Going, Shaped, Packs
    <3> QED BY <1>2, <2>1, <2>2, <2>3, <3>1 DEF Shaped, Loading, Packs, UpPlaces, Cmd
  <2>5. r.fine => Whole(e)' BY <1>3, <2>3 DEF Whole
  <2>6. run[c].left = <<"prod">> /\ r.fine => Whole("dev")'
    BY <2>1, <2>3 DEF Whole, Env
  <2>7. Built' BY <2>1 DEF Built
  <2>8. Packed(r)'
    <3>1. CASE run[c].left = EnvOrder BY <2>1, <2>2, <2>5, <2>7, <3>1 DEF Packed
    <3>2. CASE run[c].left = <<"prod">>
      BY <2>1, <2>2, <2>5, <2>6, <2>7, <3>2 DEF Packed, Packs
    <3> QED BY <2>1, <3>1, <3>2
  <2>9. Filled(r)' /\ Serving(r)' BY <2>3 DEF Filled, Serving, Loading, Started
  <2> QED BY <2>4, <2>8, <2>9 DEF Going
<1>4. ~At(c, "idle") BY DEF At, Packs
<1>5. r.at # "idle" BY <1>2
<1> QED BY <1>1, <1>2, <1>3, <1>4, <1>5, StepsOn

LEMMA OpenTarDone ==
  ASSUME IInv, QInv, NEW c \in Composers, OpenTar(c), Maps', Stocked' PROVE QInv'
<1>1. ~At(c, "idle") /\ run[c].at = "tar" /\ release' = release /\ UNCHANGED ghosts
  BY DEF OpenTar, At
<1>2. CASE /\ package' = [package EXCEPT ![Building(c)] = {"tar"}]
           /\ run' = [run EXCEPT ![c].listing = release[Building(c)] \ {"dir"}, ![c].at = "add"]
  <2> PICK files : files = release[Building(c)] \ {"dir"} OBVIOUS
  <2> PICK r : r = [run[c] EXCEPT !.listing = files, !.at = "add"] OBVIOUS
  <2>1. run' = [run EXCEPT ![c] = r] /\ UNCHANGED <<quiet, result>> BY <1>1, <1>2 DEF IInv, ghosts
  <2>2. r.at = "add" /\ r.listing = files /\ r.left = run[c].left /\ r.cmd = run[c].cmd
        /\ r.fine = run[c].fine /\ r.stage = run[c].stage /\ r.todo = run[c].todo
    BY DEF IInv, Fields
  <2>3. ASSUME quiet[c] PROVE Going(r)'
    <3>1. /\ Going(run[c]) /\ Built /\ run[c].left \in {EnvOrder, <<"prod">>}
          /\ run[c].left = <<"prod">> => Building(c) = "prod"
          /\ run[c].left = <<"prod">> /\ run[c].fine => Whole("dev")
      BY <1>1, <2>3, Packing DEF Packs
    <3>2. Shaped(r)' BY <1>1, <2>2, <3>1 DEF Going, Shaped, Loading, Packs, UpPlaces
    <3>3. run[c].left = <<"prod">> /\ run[c].fine => Whole("dev")'
      <4>1. run[c].left = <<"prod">> => package'["dev"] = package["dev"]
        BY <1>2, <3>1 DEF QInv, Maps, Env
      <4> QED BY <1>1, <3>1, <4>1 DEF Whole
    <3>4. Built' /\ r.listing = release'[Head(r.left)] \ {"dir"}
      BY <1>1, <2>2, <3>1 DEF Built, Building
    <3>5. Packed(r)' BY <2>2, <3>3, <3>4 DEF Packed
    <3>6. Filled(r)' /\ Serving(r)' BY <2>2 DEF Filled, Serving, Loading, Started
    <3> QED BY <3>2, <3>5, <3>6 DEF Going
  <2> QED BY <1>1, <2>1, <2>2, <2>3, StepsOn
<1>3. CASE NextPackage(c, FALSE) /\ package' = package
  BY <1>1, <1>3, NextPackageDone DEF Packs
<1> QED BY <1>2, <1>3 DEF OpenTar

LEMMA AddFilesDone ==
  ASSUME IInv, QInv, NEW c \in Composers, AddFiles(c), Maps', Stocked' PROVE QInv'
<1>1. ~At(c, "idle") /\ run[c].at = "add" /\ release' = release /\ UNCHANGED ghosts
  BY DEF AddFiles, At
<1>2. PICK added : /\ package' = [package EXCEPT ![Building(c)] = {"tar"} \union added]
                   /\ NextPackage(c, added = run[c].listing)
  BY DEF AddFiles
<1> PICK ok : ok = (added = run[c].listing) OBVIOUS
<1>3. ok \in BOOLEAN /\ NextPackage(c, ok) BY <1>2
<1>4. \A e \in Env : e # Building(c) => package'[e] = package[e] BY <1>2 DEF QInv, Maps
<1>5. ASSUME quiet[c], ok, NEW e, e = Building(c) PROVE Whole(e)'
  <2>1. /\ Going(run[c]) /\ run[c].left \in {EnvOrder, <<"prod">>}
        /\ run[c].left = EnvOrder => Building(c) = "dev"
        /\ run[c].left = <<"prod">> => Building(c) = "prod"
    BY <1>1, <1>5, Packing DEF Packs
  <2>2. e \in Env BY <1>5, <2>1 DEF Env
  <2>3. package'[e] = {"tar"} \union added BY <1>2, <1>5, <2>2 DEF QInv, Maps
  <2>4. added = release[e] \ {"dir"} BY <1>1, <1>5, <2>1 DEF Going, Packed, Building
  <2> QED BY <1>1, <2>3, <2>4 DEF Whole
<1> QED BY <1>1, <1>3, <1>4, <1>5, NextPackageDone DEF Packs

LEMMA ExportImagesDone ==
  ASSUME IInv, QInv, NEW c \in Composers, ExportImages(c), Maps', Stocked' PROVE QInv'
<1>1. ~At(c, "idle") /\ run[c].at = "export" /\ UNCHANGED <<release, package>>
  BY DEF ExportImages, At
<1>2. PICK saved, how : /\ exported' = exported \union cache \union saved
                        /\ Returns(c, how)
                        /\ how = IF run[c].fine /\ cache \union saved = Images THEN "ok" ELSE "failed"
  BY DEF ExportImages
<1>3. ASSUME NEW cmd, cmd = run[c].cmd, how = "ok", quiet[c] PROVE Done(cmd)'
  <2>1. Going(run[c]) BY <1>3 DEF QInv, Undisturbed
  <2>2. cmd.op = "release" BY <1>1, <1>3, <2>1 DEF Going, Shaped
  <2>3. run[c].fine /\ cache \union saved = Images BY <1>2, <1>3
  <2>4. Built /\ Whole("dev") /\ Whole("prod") BY <1>1, <2>1, <2>3 DEF Going, Packed
  <2>5. Built' /\ Whole("dev")' /\ Whole("prod")' BY <1>1, <2>4 DEF Built, Whole
  <2>6. exported' = Images BY <1>2, <2>3 DEF QInv, Stocked
  <2> QED BY <2>2, <2>5, <2>6 DEF Done
<1> QED BY <1>1, <1>2, <1>3, ReturnsDone

-----------------------------------------------------------------------------
(* The machine's own steps, and the beginning and the interruption of a    *)
(* command.                                                                *)

\* A Detection Service that answers goes on answering, until it exits.
LEMMA ServiceStepDone == ASSUME IInv, QInv, ServiceStep, Maps', Stocked' PROVE QInv'
<1>1. UNCHANGED <<containers, pps, release, package, images, cache, exported, run, result, quiet, source>>
  BY DEF ServiceStep, disk, ghosts
<1>2. Answering => Answering'
  <2> SUFFICES ASSUME NEW i \in Launches, service[i] = "on" PROVE service'[i] = "on"
    BY DEF Answering
  <2> QED BY DEF ServiceStep, IInv
<1>3. Queued' BY <1>1 DEF QInv, Queued
<1>4. ASSUME NEW c \in Composers, quiet[c]
      PROVE  /\ Alone(c)' /\ Going(run[c])'
             /\ At(c, "idle") /\ result[c] = "ok" => Done(run[c].cmd)'
  <2>1. /\ Alone(c) /\ Going(run[c])
        /\ At(c, "idle") /\ result[c] = "ok" => Done(run[c].cmd)
    BY <1>4 DEF QInv, Undisturbed
  <2>2. Alone(c)' BY <1>1, <2>1 DEF Alone, At
  <2>3. Shaped(run[c])' /\ Filled(run[c])' /\ Packed(run[c])'
    BY <1>1, <2>1 DEF Going, Shaped, Filled, Packed, Ready, Built, Whole
  <2>4. Serving(run[c])' BY <1>1, <1>2, <2>1 DEF Going, Serving
  <2>5. At(c, "idle") /\ result[c] = "ok" => Done(run[c].cmd)'
    BY <1>1, <1>2, <2>1 DEF Done, Ready, Built, Whole, Launched
  <2> QED BY <2>2, <2>3, <2>4, <2>5 DEF Going
<1> QED BY <1>1, <1>3, <1>4 DEF QInv, Undisturbed, At

\* One that was launched opens, comes up or is lost, unless it exits.
LEMMA PpsStepDone == ASSUME IInv, QInv, PpsStep, Maps', Stocked' PROVE QInv'
<1>1. UNCHANGED <<containers, service, release, package, images, cache, exported, run, result,
                  quiet, source>>
  BY DEF PpsStep, disk, ghosts
<1>2. \A e \in Env : Launched(e) => Launched(e)'
  <2> SUFFICES ASSUME NEW e \in Env, Launched(e) PROVE Launched(e)' OBVIOUS
  <2>1. \/ pps'[e] = pps[e]
        \/ pps'[e] = pps[e] \ {"ending"}
        \/ \E next \in {"on", "lost"} : pps'[e] = (pps[e] \ {"opening"}) \union {next}
    BY DEF PpsStep, QInv, Maps
  <2> QED BY <2>1 DEF Launched
<1>3. Queued' BY <1>1 DEF QInv, Queued
<1>4. ASSUME NEW c \in Composers, quiet[c]
      PROVE  /\ Alone(c)' /\ Going(run[c])'
             /\ At(c, "idle") /\ result[c] = "ok" => Done(run[c].cmd)'
  <2>1. /\ Alone(c) /\ Going(run[c])
        /\ At(c, "idle") /\ result[c] = "ok" => Done(run[c].cmd)
    BY <1>4 DEF QInv, Undisturbed
  <2>2. Alone(c)' BY <1>1, <2>1 DEF Alone, At
  <2>3. Shaped(run[c])' /\ Filled(run[c])' /\ Packed(run[c])'
    BY <1>1, <2>1 DEF Going, Shaped, Filled, Packed, Ready, Built, Whole
  <2>4. Serving(run[c])' BY <1>1, <2>1 DEF Going, Serving, Answering
  <2>5. At(c, "idle") /\ result[c] = "ok" => Done(run[c].cmd)'
    BY <1>1, <1>2, <2>1 DEF Done, Ready, Built, Whole, Answering
  <2> QED BY <2>2, <2>3, <2>4, <2>5 DEF Going
<1> QED BY <1>1, <1>3, <1>4 DEF QInv, Undisturbed, At

LEMMA ExitsDone == ASSUME QInv, Exits, Maps', Stocked' PROVE QInv'
<1>1. quiet' = [c \in Composers |-> FALSE] /\ run' = run BY DEF Exits
<1>2. Queued' BY <1>1 DEF QInv, Queued
<1>3. Undisturbed' BY <1>1 DEF Undisturbed
<1> QED BY <1>2, <1>3 DEF QInv

LEMMA CommandsTyped ==
  ASSUME NEW op \in {"up", "stop", "kill", "build", "release"}, NEW e \in Env
  PROVE  Command(op, e) \in CommandType
BY DEF Command, CommandType

LEMMA AskedDone ==
  ASSUME IInv, QInv, Press \/ \E c \in Terminals : Type(c), Maps', Stocked' PROVE QInv'
<1>1. <<>> \in Seq(CommandType) /\ \A cmd \in CommandType : <<cmd>> \in Seq(CommandType)
  OBVIOUS
<1>2. CASE Press
  <2>1. PICK e \in Env : \/ Begins(Dashboard, Command("stop", e), <<Command("up", e)>>)
                         \/ \E b \in {"build", "up", "stop", "kill"} :
                              Begins(Dashboard, Command(b, e), <<>>)
    BY <1>2 DEF Press
  <2>2. Dashboard \in Composers BY DEF Composers
  <2>3. CASE Begins(Dashboard, Command("stop", e), <<Command("up", e)>>)
    <3> PICK cmd, rest : cmd = Command("stop", e) /\ rest = <<Command("up", e)>> OBVIOUS
    <3>1. cmd \in CommandType /\ rest \in Seq(CommandType) BY <1>1, CommandsTyped
    <3> QED BY <2>2, <2>3, <3>1, BeginsAfresh
  <2>4. CASE \E b \in {"build", "up", "stop", "kill"} : Begins(Dashboard, Command(b, e), <<>>)
    <3>1. PICK b \in {"build", "up", "stop", "kill"} : Begins(Dashboard, Command(b, e), <<>>)
      BY <2>4
    <3> PICK cmd : cmd = Command(b, e) OBVIOUS
    <3>2. cmd \in CommandType BY <3>1, CommandsTyped
    <3> QED BY <1>1, <2>2, <3>1, <3>2, BeginsAfresh
  <2> QED BY <2>1, <2>3, <2>4
<1>3. CASE \E c \in Terminals : Type(c)
  <2>1. PICK c \in Terminals, cmd \in Commands : Begins(c, cmd, <<>>) BY <1>3 DEF Type
  <2>2. c \in Composers /\ cmd \in CommandType BY ComposerAssumption DEF Composers
  <2> QED BY <1>1, <2>1, <2>2, BeginsAfresh
<1> QED BY <1>2, <1>3

LEMMA InterruptDone ==
  ASSUME IInv, QInv, NEW c \in Composers, Interrupt(c), Maps', Stocked' PROVE QInv'
<1>1. /\ run' = [run EXCEPT ![c] = NotRunning] /\ ~At(c, "idle")
      /\ quiet' = [quiet EXCEPT ![c] = FALSE]
  BY DEF Interrupt
<1>2. quiet \in [Composers -> BOOLEAN] BY DEF QInv, Queued
<1>3. \A d \in Composers : ~quiet'[d]
  <2> SUFFICES ASSUME NEW d \in Composers, quiet'[d] PROVE FALSE OBVIOUS
  <2>1. d # c /\ quiet[d] BY <1>1, <1>2
  <2>2. Alone(d) BY <2>1 DEF QInv, Undisturbed
  <2> QED BY <1>1, <2>1, <2>2 DEF Alone
<1>4. Queued'
  <2>1. quiet' \in [Composers -> BOOLEAN] BY <1>1, <1>2
  <2>2. NotRunning.todo = <<>> /\ <<>> \in Seq(CommandType) BY DEF NotRunning
  <2>3. \A d \in Composers : run'[d] = IF d = c THEN NotRunning ELSE run[d] BY <1>1 DEF IInv
  <2> QED BY <2>1, <2>2, <2>3 DEF QInv, Queued
<1> QED BY <1>3, <1>4 DEF QInv, Undisturbed

LEMMA StutterDone == ASSUME QInv, UNCHANGED vars PROVE QInv'
<1>1. UNCHANGED <<containers, pps, video, service, release, package, images, cache, exported, run,
                  result, quiet, source>>
  BY DEF vars, processes, disk, ghosts
<1>2. Maps' /\ Stocked' /\ Queued' BY <1>1 DEF QInv, Maps, Stocked, Queued
<1>3. Undisturbed'
  BY <1>1 DEF QInv, Undisturbed, Alone, At, Going, Shaped, Filled, Serving, Packed, Done, Ready,
              Built, Whole, Answering, Launched
<1> QED BY <1>2, <1>3 DEF QInv

LEMMA QuietOK == ASSUME IInv, QInv, [Next]_vars PROVE QInv'
<1>1. Maps' /\ Stocked' BY MapsOK, StockedOK DEF QInv
<1>2. ASSUME NEW c \in Composers, Step(c) PROVE QInv'
  BY <1>1, <1>2, CheckDone, StopOtherDone, EnsureReleasesDone, ClearDone, PublishDone, SyncDone,
     RehydrateDone, FetchImagesDone, EnsureReadyDone, ComposeUpDone, StartVideoDone,
     RunDetectionDone, AwaitDetectionDone, SignalDetectionDone, EndDetectionDone, PreparePpsDone,
     LaunchPpsDone, AttachedStartsDone, AttachedEndsDone, StoppingDone, ValidateDone, ClearPackageDone, OpenTarDone,
     AddFilesDone, ExportImagesDone
  DEF Step
<1>3. CASE \E c \in Terminals : Type(c) \/ Interrupt(c)
  BY <1>1, <1>3, AskedDone, InterruptDone DEF Composers
<1> QED BY <1>1, <1>2, <1>3, AskedDone, ServiceStepDone, PpsStepDone, ExitsDone, StutterDone DEF Next

LEMMA InitQuiet == Init => QInv
<1> SUFFICES ASSUME Init PROVE QInv OBVIOUS
<1>1. Maps /\ Stocked BY DEF Init, Maps, Stocked
<1>2. NotRunning.todo = <<>> /\ <<>> \in Seq(CommandType) BY DEF NotRunning
<1>3. Queued BY <1>2 DEF Init, Queued
<1>4. Undisturbed BY DEF Init, Undisturbed
<1> QED BY <1>1, <1>3, <1>4 DEF QInv

LEMMA QuietInductive == Spec => []QInv
<1>1. Init => QInv BY InitQuiet
<1>2. IInv /\ QInv /\ [Next]_vars => QInv' BY QuietOK
<1> QED BY <1>1, <1>2, Inductive, PTL DEF Spec

(* An `up -d` that nothing else disturbs and that returns zero leaves its  *)
(* containers running, its release directory whole, what it launched from  *)
(* there opening, up or failed unseen, and a Detection Service answering   *)
(* that was asked for; for any commands before it, any number of composers *)
(* and every fault, whatever release directories, packages and processes   *)
(* it found, one that still holds the port included (ComposerApp.up,       *)
(* ensure_environment_ready, run_detection, run_packetprocessing).         *)
THEOREM UpsAreComplete == Spec => []UpIsComplete
<1>1. IInv /\ QInv => UpIsComplete
  <2> SUFFICES ASSUME QInv, NEW c \in Composers, Returned(c, "up", "ok"), Cmd(c).detached
               PROVE  LET e == Cmd(c).env IN
                      /\ containers[e] = "running" /\ Launched(e)
                      /\ "dll" \in release[e]
                      /\ source => "assets" \in release[e]
                      /\ Cmd(c).detection => Answering
    BY DEF UpIsComplete
  <2>1. Done(run[c].cmd) BY DEF QInv, Undisturbed, Returned
  <2> QED BY <2>1 DEF Done, Ready, Returned, Cmd
<1> QED BY <1>1, Inductive, QuietInductive, PTL

(* An undisturbed release that returns zero has packed both environments   *)
(* as they were built, binary included, and every image the compose files  *)
(* name lies beside them, whatever an earlier release left there           *)
(* (create_release, NextPackage, ExportImages).                            *)
THEOREM ReleasesAreWhole == Spec => []ReleaseIsWhole
<1>1. QInv => ReleaseIsWhole
  <2> SUFFICES ASSUME QInv, NEW c \in Composers, Returned(c, "release", "ok")
               PROVE  /\ \A e \in Env : package[e] = {"tar"} \union (release[e] \ {"dir"})
                                        /\ "dll" \in package[e]
                      /\ exported = Images
    BY DEF ReleaseIsWhole
  <2>1. Done(run[c].cmd) BY DEF QInv, Undisturbed, Returned
  <2>2. Built /\ Whole("dev") /\ Whole("prod") /\ exported = Images
    BY <2>1 DEF Done, Returned, Cmd
  <2> QED BY <2>2 DEF Built, Whole, Env
<1> QED BY <1>1, QuietInductive, PTL

=============================================================================
