------------------------------ MODULE Composer ------------------------------
(***************************************************************************)
(* The composer: the commands that build, start, stop, kill and package    *)
(* the two environments (src/Composer_cli/).  A command is a sequence of   *)
(* docker, dotnet and process calls, and nothing locks the machine they    *)
(* change: the dashboard runs one operation of its own at a time, but a    *)
(* terminal may run another command beside it, a command may be interrupted *)
(* between any two calls, and most calls may fail.  Each action below is   *)
(* one call, or the calls between which nothing else is looked at.         *)
(*                                                                         *)
(* A directory is the set of what it holds ("dir" when it exists at all),  *)
(* the containers of an environment are one thing, and a started Detection *)
(* Service is one of Launches.  The POSIX branches are modelled.           *)
(***************************************************************************)
EXTENDS Naturals, Sequences, FiniteSets

CONSTANTS Dashboard,  \* the process of the graphical front end
          Terminals,  \* the processes a terminal starts
          Commands,   \* the commands a terminal may be given
          Images,     \* the docker images the compose files name
          Launches,   \* names for started Detection Services
          MaxAsked,   \* bound: operations asked of the composers
          Faults      \* what may go wrong

Composers == Terminals \union {Dashboard}
Env == {"dev", "prod"}
EnvOrder == <<"dev", "prod">>
Parts == {"dll", "assets"}
Calls == {"tools", "compose", "publish", "images", "tar", "export", "video",
          "problem", "terminal", "exit", "interrupt"}

\* What can be typed: a command, its environment and its flags.
CommandType == [op : {"up", "stop", "kill", "build", "release"}, env : Env, detached : BOOLEAN,
                mediamtx : BOOLEAN, detection : BOOLEAN, skip : BOOLEAN]

ASSUME ComposerAssumption ==
  /\ Dashboard \notin Terminals
  /\ Commands \subseteq CommandType
  /\ MaxAsked \in Nat
  /\ Faults \subseteq Calls

VARIABLES
  source,      \* whether this is a source checkout: never changes
  containers,  \* per environment: none, stopped or running
  pps,         \* per environment, its PacketProcessingServices: one opening, on, ending;
               \* lost marks that the last one launched never came up
  video,       \* whether MediaMTX runs
  service,     \* per launch: free, spawning, starting, on, ending
  release,     \* per environment: the release directory
  package,     \* per environment: what its tarball under deploy/ holds
  images,      \* the images docker has
  cache,       \* the image tarballs in the cache directory
  exported,    \* the image tarballs under deploy/
  run,         \* per composer: the command it runs and where it is in it
  result,      \* per composer: how its last command returned
  quiet,       \* per composer: nothing else touched the machine since it began
  asked,       \* how many operations were asked for
  quickBuild   \* the dashboard shows Quick Build alone

processes == <<containers, pps, video, service>>
disk == <<release, package, images, cache, exported>>
ghosts == <<result, quiet, quickBuild, asked, source>>
vars == <<processes, disk, run, ghosts>>

Command(op, e) == [op |-> op, env |-> e, detached |-> TRUE, mediamtx |-> FALSE,
                   detection |-> FALSE, skip |-> FALSE]

NotRunning == [cmd |-> Command("none", "dev"), at |-> "idle", stage |-> "none",
               left |-> <<>>, listing |-> {}, fine |-> TRUE, launch |-> {},
               todo |-> <<>>]

Other(e) == CHOOSE o \in Env : o # e
Built == \A e \in Env : "dll" \in release[e]
At(c, place) == run[c].at = place
Cmd(c) == run[c].cmd
Go(c, place) == run' = [run EXCEPT ![c].at = place]

-----------------------------------------------------------------------------
(* Starting and returning                                                  *)

\* up and build look for docker and dotnet first, release for the builds, and
\* stop and kill begin with PacketProcessingService.
Entry(op) == CASE op \in {"up", "build"} -> "check"
               [] op = "release" -> "releases"
               [] OTHER -> "terminate"

Begins(c, cmd, rest) ==
  /\ run' = [run EXCEPT ![c] =
       [NotRunning EXCEPT !.cmd = cmd, !.at = Entry(cmd.op), !.left = EnvOrder,
          !.stage = IF cmd.op = "build" THEN "build" ELSE "releases",
          !.todo = rest]]
  /\ result' = [result EXCEPT ![c] = "none"]
  /\ quiet' = [d \in Composers |->
                 d = c /\ \A o \in Composers \ {c} : At(o, "idle")]

\* The command returns.  run_sequence goes on with the next one only after a
\* zero; otherwise the operation is over, and the dashboard draws its buttons
\* again by what is on the disk now.
Returns(c, how) ==
  IF how = "ok" /\ run[c].todo # <<>>
  THEN /\ Begins(c, Head(run[c].todo), Tail(run[c].todo))
       /\ UNCHANGED <<quickBuild, asked, source>>
  ELSE /\ run' = [run EXCEPT ![c] =
            IF how = "ok" THEN [NotRunning EXCEPT !.cmd = run[c].cmd]
            ELSE [NotRunning EXCEPT !.launch = run[c].launch]]
       /\ result' = [result EXCEPT ![c] = how]
       /\ quiet' = [quiet EXCEPT ![c] = @ /\ how = "ok"]
       /\ quickBuild' = IF c = Dashboard
                        THEN \E e \in Env : "dll" \notin release'[e]
                        ELSE quickBuild
       /\ UNCHANGED <<asked, source>>

\* A button of the dashboard.  The buttons are those of its last drawing.
Press ==
  /\ At(Dashboard, "idle")
  /\ asked < MaxAsked /\ asked' = asked + 1
  /\ \E e \in Env, b \in IF quickBuild THEN {"build"}
                         ELSE {"up", "stop", "restart", "kill"} :
       IF b = "restart"
       THEN Begins(Dashboard, Command("stop", e), <<Command("up", e)>>)
       ELSE Begins(Dashboard, Command(b, e), <<>>)
  /\ UNCHANGED <<processes, disk, quickBuild, source>>

Type(c) ==
  /\ At(c, "idle")
  /\ asked < MaxAsked /\ asked' = asked + 1
  /\ \E cmd \in Commands : Begins(c, cmd, <<>>)
  /\ UNCHANGED <<processes, disk, quickBuild, source>>

\* What SIGTERM or Ctrl-C leaves: one that serves shuts down before it ends.
Signalled(has) == IF "on" \in has THEN (has \ {"on"}) \union {"ending"} ELSE has

\* A command typed in a terminal is ended (Ctrl-C): what it did so far stays,
\* but for a PacketProcessingService attached to it.
Interrupt(c) ==
  /\ "interrupt" \in Faults /\ ~At(c, "idle")
  /\ pps' = IF At(c, "serving") THEN [pps EXCEPT ![Cmd(c).env] = Signalled(@)] ELSE pps
  /\ run' = [run EXCEPT ![c] = NotRunning]
  /\ result' = [result EXCEPT ![c] = "interrupted"]
  /\ quiet' = [quiet EXCEPT ![c] = FALSE]
  /\ UNCHANGED <<containers, video, service, disk, quickBuild, asked, source>>

-----------------------------------------------------------------------------
(* up and build: the release directories and the images                    *)

Check(c) ==
  /\ At(c, "check")
  /\ UNCHANGED <<processes, disk>>
  /\ \/ /\ Go(c, IF Cmd(c).op = "build" THEN "clear" ELSE "other")
        /\ UNCHANGED ghosts
     \/ "tools" \in Faults /\ Returns(c, "failed")

\* up stops the other environment's containers; that this failed is not seen.
StopOther(c) ==
  LET o == Other(Cmd(c).env) IN
  /\ At(c, "other") /\ Go(c, "releases")
  /\ \/ /\ containers[o] = "running"
        /\ containers' = [containers EXCEPT ![o] = "stopped"]
     \/ (containers[o] # "running" \/ "compose" \in Faults) /\ UNCHANGED containers
  /\ UNCHANGED <<pps, video, service, disk, ghosts>>

\* Where the command goes once the stage's environments are done: release
\* packages them, up readies its own and then starts its containers.
After(c) == IF run[c].stage = "ready" THEN "compose"
            ELSE IF Cmd(c).op = "up" THEN "ready" ELSE "validate"

EnsureReleases(c) ==
  /\ At(c, "releases")
  /\ Go(c, IF Built THEN After(c) ELSE "clear")
  /\ UNCHANGED <<processes, disk, ghosts>>

Building(c) == Head(run[c].left)

\* The loop over the environments goes on, or its caller does.
NextBuild(c) ==
  IF Len(run[c].left) > 1
  THEN /\ run' = [run EXCEPT ![c].left = Tail(@), ![c].at = "clear"]
       /\ UNCHANGED ghosts
  ELSE IF run[c].stage = "build" THEN Returns(c, "ok")
  ELSE Go(c, After(c)) /\ UNCHANGED ghosts

Clear(c) ==
  /\ At(c, "clear") /\ Go(c, "fill")
  /\ release' = [release EXCEPT ![Building(c)] = {}]
  /\ UNCHANGED <<processes, package, images, cache, exported, ghosts>>

\* dotnet publish into the release directory; the runtime assets follow.
Publish(c) ==
  LET e == Building(c) IN
  /\ At(c, "fill") /\ source
  /\ \/ /\ release' = [release EXCEPT ![e] = @ \union {"dir", "dll"}]
        /\ Go(c, "sync") /\ UNCHANGED ghosts
     \/ /\ "publish" \in Faults
        /\ release' = [release EXCEPT ![e] = @ \union {"dir"}]
        /\ Returns(c, "failed")
  /\ UNCHANGED <<processes, package, images, cache, exported>>

SyncRuntimeAssets(c) ==
  LET e == Building(c) IN
  /\ At(c, "sync")
  /\ IF "dir" \in release[e]
     THEN /\ release' = [release EXCEPT ![e] = @ \union {"assets"}]
          /\ Go(c, "fetch") /\ UNCHANGED ghosts
     ELSE UNCHANGED release /\ Returns(c, "failed")
  /\ UNCHANGED <<processes, package, images, cache, exported>>

\* What a tarball leaves in a release directory: everything it holds.
Extracted(e) == {"dir"} \union (package[e] \ {"tar"})

\* Without the source the directory is filled from the package.  A package
\* without a binary in it counts as filled; an extraction that fails leaves
\* any part of it.
Rehydrate(c) ==
  LET e == Building(c) IN
  /\ At(c, "fill") /\ ~source
  /\ IF "tar" \in package[e]
     THEN \/ /\ release' = [release EXCEPT ![e] = Extracted(e)]
             /\ IF run[c].stage = "build" THEN Go(c, "fetch") /\ UNCHANGED ghosts
                ELSE NextBuild(c)
          \/ /\ "tar" \in Faults
             /\ \E part \in SUBSET Extracted(e) : release' = [release EXCEPT ![e] = {"dir"} \union part]
             /\ Returns(c, "failed")
     ELSE UNCHANGED release /\ Returns(c, "failed")
  /\ UNCHANGED <<processes, package, images, cache, exported>>

\* Docker comes to have the missing images, loaded from a tarball, built or
\* pulled, and what it has is saved to the cache where that works; one image
\* that cannot be had fails the call.
PrepareImages(ok) ==
  \E got \in SUBSET (Images \ images) :
    /\ ok <=> images \union got = Images
    /\ ok \/ "images" \in Faults
    /\ images' = images \union got
    /\ \E saved \in IF "images" \in Faults THEN SUBSET (images \union got)
                    ELSE {images \union got} :
         cache' = cache \union saved

FetchImages(c) ==
  /\ At(c, "fetch")
  /\ UNCHANGED <<processes, release, package, exported>>
  /\ \/ Cmd(c).skip /\ UNCHANGED <<images, cache>> /\ NextBuild(c)
     \/ ~Cmd(c).skip /\ PrepareImages(TRUE) /\ NextBuild(c)
     \/ ~Cmd(c).skip /\ PrepareImages(FALSE) /\ Returns(c, "failed")

(* Mutant of Readied: a release directory with a binary is taken as whole. *)
ReadiedUnsynced(e, has) == has

\* A binary that was there is given the assets it lacks, where there is a
\* source to copy them from; one just taken from the package is taken as whole.
Readied(e, has) ==
  IF source /\ "dll" \in release[e] THEN has \union {"assets"} ELSE has

\* ensure_environment_ready: the environment that is to start gets its binary
\* back from its package or by a build, or only the assets it lacks.
EnsureReady(c) ==
  LET e    == Cmd(c).env
      has  == IF "dll" \in release[e] \/ "tar" \notin package[e] THEN release[e]
              ELSE Extracted(e)
      goes(place) == run' = [run EXCEPT ![c].stage = "ready", ![c].left = <<e>>,
                                        ![c].at = place]
  IN /\ At(c, "ready")
     /\ \/ /\ "dll" \in has
           /\ release' = [release EXCEPT ![e] = Readied(e, has)]
           /\ goes("fetch") /\ UNCHANGED ghosts
        \/ /\ "dll" \notin release[e] /\ "tar" \in package[e] /\ "tar" \in Faults
           /\ \E part \in SUBSET Extracted(e) : release' = [release EXCEPT ![e] = {"dir"} \union part]
           /\ Returns(c, "failed")
        \/ /\ "dll" \notin has /\ source
           /\ release' = [release EXCEPT ![e] = has]
           /\ goes("fill") /\ UNCHANGED ghosts
        \/ /\ "dll" \notin has /\ ~source
           /\ release' = [release EXCEPT ![e] = has]
           /\ Returns(c, "failed")
     /\ UNCHANGED <<processes, package, images, cache, exported>>

-----------------------------------------------------------------------------
(* up: the containers, MediaMTX, the Detection Service, PacketProcessing    *)

\* docker compose up --pull never: every image must be there.
ComposeUp(c) ==
  LET e == Cmd(c).env IN
  /\ At(c, "compose")
  /\ UNCHANGED <<pps, video, service, disk>>
  /\ \/ /\ images = Images
        /\ containers' = [containers EXCEPT ![e] = "running"]
        /\ Go(c, "video") /\ UNCHANGED ghosts
     \/ /\ images # Images \/ "compose" \in Faults
        /\ \E left \in {containers[e], "running"} :
             containers' = [containers EXCEPT ![e] = left]
        /\ Returns(c, "failed")

StartVideo(c) ==
  /\ At(c, "video") /\ Go(c, "detection")
  /\ \/ Cmd(c).mediamtx /\ video' = TRUE
     \/ (~Cmd(c).mediamtx \/ "video" \in Faults) /\ UNCHANGED video
  /\ UNCHANGED <<containers, pps, service, disk, ghosts>>

Answering == \E i \in Launches : service[i] = "on"

\* The launches no command remembers and no process has.
FreeLaunches == {i \in Launches : service[i] = "free"
                                  /\ \A c \in Composers : i \notin run[c].launch}

\* run_detection: nothing to do when it already answers; otherwise it is
\* opened in a window of its own and waited for.
RunDetection(c) ==
  /\ At(c, "detection")
  /\ UNCHANGED <<containers, pps, video, disk>>
  /\ \/ /\ ~Cmd(c).detection \/ Answering
        /\ Go(c, "pps") /\ UNCHANGED <<service, ghosts>>
     \/ /\ Cmd(c).detection /\ ~Answering /\ "problem" \in Faults
        /\ Returns(c, "failed") /\ UNCHANGED service
     \/ /\ Cmd(c).detection /\ ~Answering
        /\ \E i \in FreeLaunches :
             /\ service' = [service EXCEPT ![i] = "spawning"]
             /\ run' = [run EXCEPT ![c].launch = {i}, ![c].at = "await"]
        /\ UNCHANGED ghosts

(* Mutant of AwaitDetection: up gives up without ending what it started. *)
AwaitDetectionGivesUp(c) ==
  /\ At(c, "await")
  /\ UNCHANGED <<processes, disk>>
  /\ \/ /\ Answering /\ run' = [run EXCEPT ![c].launch = {}, ![c].at = "pps"]
        /\ UNCHANGED ghosts
     \/ /\ ~Answering /\ \A i \in run[c].launch : service[i] # "spawning"
        /\ Returns(c, "failed")

\* The polls: one is answered, or the deadline passes after one that was not.
\* A minute has passed by then, so its own process exists or has ended.
AwaitDetection(c) ==
  /\ At(c, "await")
  /\ \/ Answering /\ run' = [run EXCEPT ![c].launch = {}, ![c].at = "pps"]
     \/ /\ ~Answering /\ \A i \in run[c].launch : service[i] # "spawning"
        /\ Go(c, "signal")
  /\ UNCHANGED <<processes, disk, ghosts>>

Seen == {i \in Launches : service[i] \in {"starting", "on", "ending"}}

\* _end, first half: SIGTERM to every process pgrep finds.  One that serves
\* drains its posts before it ends.
SignalDetection(c) ==
  /\ At(c, "signal") /\ Go(c, "drain")
  /\ service' = [i \in Launches |->
       IF service[i] = "starting" THEN "free"
       ELSE IF service[i] = "on" THEN "ending" ELSE service[i]]
  /\ UNCHANGED <<containers, pps, video, disk, ghosts>>

\* _end, second half: none is left, or the ten seconds are over and every one
\* found then is killed.  It ends a start that timed out, and is the second
\* step of stop and kill.
EndDetection(c) ==
  /\ At(c, "drain")
  /\ UNCHANGED <<containers, pps, video, disk>>
  /\ service' = [i \in Launches |-> IF i \in Seen THEN "free" ELSE service[i]]
  /\ IF Cmd(c).op = "up" THEN Returns(c, "failed")
     ELSE Go(c, "stopVideo") /\ UNCHANGED ghosts

\* pkill -f the binary's path sends SIGTERM and waits for nothing.  One that is
\* still opening may be found or not.
Pkill(e) ==
  \E missed \in {{}, {"opening"}} :
    pps' = [pps EXCEPT ![e] = Signalled(@ \ ({"opening", "lost"} \ missed))]

\* run_packetprocessing up to the launch: without the binary a detached up
\* still returns zero.  A detached one first tells the process that runs to end.
PreparePps(c) ==
  LET e == Cmd(c).env IN
  /\ At(c, "pps")
  /\ UNCHANGED <<containers, video, service, disk>>
  /\ IF "dll" \notin release[e]
     THEN /\ pps' = [pps EXCEPT ![e] = @ \ {"lost"}]
          /\ Returns(c, IF Cmd(c).detached THEN "ok" ELSE "failed")
     ELSE /\ IF Cmd(c).detached THEN Pkill(e) ELSE UNCHANGED pps
          /\ Go(c, "launch") /\ UNCHANGED ghosts

\* A terminal is told to start it, and whether one opened is not looked at; an
\* attached up starts it itself.
LaunchPps(c) ==
  LET e == Cmd(c).env IN
  /\ At(c, "launch")
  /\ UNCHANGED <<containers, video, service, disk>>
  /\ IF Cmd(c).detached
     THEN /\ \E opens \in {"opening"} \union (IF "terminal" \in Faults THEN {"lost"} ELSE {}) :
               pps' = [pps EXCEPT ![e] = @ \union {opens}]
          /\ Returns(c, "ok")
     ELSE Go(c, "attached") /\ UNCHANGED <<pps, ghosts>>

\* A process can serve when none holds its port, and the binary is there.
CanServe(e) == pps[e] \intersect {"on", "ending"} = {} /\ "dll" \in release[e]

\* The process of an attached up comes to serve, or exits.
AttachedStarts(c) ==
  LET e == Cmd(c).env IN
  /\ At(c, "attached")
  /\ UNCHANGED <<containers, video, service, disk>>
  /\ \/ /\ CanServe(e) /\ pps' = [pps EXCEPT ![e] = @ \union {"on"}]
        /\ Go(c, "serving") /\ UNCHANGED ghosts
     \/ (~CanServe(e) \/ "exit" \in Faults) /\ UNCHANGED pps /\ Returns(c, "failed")

\* An attached up returns what PacketProcessingService exits with.
AttachedEnds(c) ==
  /\ At(c, "serving") /\ "on" \notin pps[Cmd(c).env]
  /\ UNCHANGED <<processes, disk>>
  /\ \E how \in {"ok", "failed"} : Returns(c, how)

-----------------------------------------------------------------------------
(* stop and kill                                                           *)

\* terminate_packetprocessing looks for the process by the path of a binary
\* that must still be there.
Terminate(c) ==
  LET e == Cmd(c).env IN
  /\ At(c, "terminate") /\ Go(c, "signal")
  /\ IF "dll" \in release[e] THEN Pkill(e) ELSE UNCHANGED pps
  /\ UNCHANGED <<containers, video, service, disk, ghosts>>

StopVideo(c) ==
  /\ At(c, "stopVideo") /\ Go(c, "stopEnv")
  /\ video' = FALSE
  /\ UNCHANGED <<containers, pps, service, disk, ghosts>>

\* compose stop, and for kill also rm; that one failed is not seen.
StopEnv(c) ==
  LET e == Cmd(c).env IN
  /\ At(c, "stopEnv")
  /\ UNCHANGED <<pps, video, service, disk>>
  /\ \/ containers' = [containers EXCEPT ![e] =
          IF Cmd(c).op = "kill" THEN "none"
          ELSE IF @ = "running" THEN "stopped" ELSE @]
     \/ "compose" \in Faults /\ UNCHANGED containers
  /\ IF Cmd(c).op = "kill" THEN Go(c, "remove") /\ UNCHANGED ghosts
     ELSE Returns(c, "ok")

RemoveRelease(c) ==
  /\ At(c, "remove")
  /\ release' = [release EXCEPT ![Cmd(c).env] = {}]
  /\ Returns(c, "ok")
  /\ UNCHANGED <<processes, package, images, cache, exported>>

-----------------------------------------------------------------------------
(* release: the packages                                                   *)

\* create_release up to the first package: both binaries, then the images.
Validate(c) ==
  /\ At(c, "validate")
  /\ UNCHANGED <<processes, release, package, exported>>
  /\ \/ ~Built /\ Returns(c, "failed") /\ UNCHANGED <<images, cache>>
     \/ /\ Built
        /\ \/ Cmd(c).skip /\ UNCHANGED <<images, cache>>
           \/ ~Cmd(c).skip /\ PrepareImages(TRUE)
        /\ run' = [run EXCEPT ![c].at = "package", ![c].left = EnvOrder]
        /\ UNCHANGED ghosts
     \/ Built /\ ~Cmd(c).skip /\ PrepareImages(FALSE) /\ Returns(c, "failed")

ClearPackage(c) ==
  /\ At(c, "package") /\ Go(c, "tar")
  /\ package' = [package EXCEPT ![Building(c)] = {}]
  /\ UNCHANGED <<processes, release, images, cache, exported, ghosts>>

(* Mutant of NextPackage: the last environment alone decides the outcome. *)
NextPackageForgets(c, ok) ==
  run' = [run EXCEPT ![c].fine = ok, ![c].left = Tail(@),
                     ![c].at = IF Len(run[c].left) > 1 THEN "package" ELSE "export"]

\* One environment failed or was packed; either way the next one follows.
NextPackage(c, ok) ==
  run' = [run EXCEPT ![c].fine = @ /\ ok, ![c].left = Tail(@),
                     ![c].at = IF Len(run[c].left) > 1 THEN "package" ELSE "export"]

\* The tarball is opened and the directory listed ...
OpenTar(c) ==
  LET e == Building(c) IN
  /\ At(c, "tar")
  /\ IF "dir" \in release[e]
     THEN /\ package' = [package EXCEPT ![e] = {"tar"}]
          /\ run' = [run EXCEPT ![c].listing = release[e] \ {"dir"}, ![c].at = "add"]
     ELSE NextPackage(c, FALSE) /\ UNCHANGED package
  /\ UNCHANGED <<processes, release, images, cache, exported, ghosts>>

\* ... and the files added.  One that is gone by now, or that cannot be
\* written, ends it with what was added so far.
AddFiles(c) ==
  LET e == Building(c) listing == run[c].listing IN
  /\ At(c, "add")
  /\ \E added \in SUBSET (listing \intersect release[e]) :
       /\ added = listing \/ "tar" \in Faults \/ ~(listing \subseteq release[e])
       /\ package' = [package EXCEPT ![e] = {"tar"} \union added]
       /\ NextPackage(c, added = listing)
  /\ UNCHANGED <<processes, release, images, cache, exported, ghosts>>

\* The image tarballs are copied from the cache, or else saved from docker.
ExportImages(c) ==
  /\ At(c, "export")
  /\ UNCHANGED <<processes, release, package, images, cache>>
  /\ \E saved \in IF Cmd(c).skip THEN {{}}
                  ELSE IF "export" \in Faults THEN SUBSET images ELSE {images} :
       /\ exported' = exported \union cache \union saved
       /\ Returns(c, IF run[c].fine /\ cache \union saved = Images
                     THEN "ok" ELSE "failed")

-----------------------------------------------------------------------------
(* The processes the composer starts                                       *)

ServiceStep ==
  /\ \E i \in Launches, next \in {"starting", "on", "free"} :
       /\ \/ service[i] = "spawning" /\ next = "starting"
          \/ service[i] = "starting" /\ ~Answering /\ next = "on"
          \/ service[i] = "starting" /\ Answering /\ next = "free"
          \/ service[i] = "ending" /\ next = "free"
       /\ service' = [service EXCEPT ![i] = next]
  /\ UNCHANGED <<containers, pps, video, disk, run, ghosts>>

\* A PacketProcessingService that was told to end does; one that opens serves,
\* or exits when its port is still held.
PpsStep ==
  /\ \E e \in Env :
       \/ "ending" \in pps[e] /\ pps' = [pps EXCEPT ![e] = @ \ {"ending"}]
       \/ /\ "opening" \in pps[e]
          /\ pps' = [pps EXCEPT ![e] =
                       (@ \ {"opening"}) \union {IF CanServe(e) THEN "on" ELSE "lost"}]
  /\ UNCHANGED <<containers, video, service, disk, run, ghosts>>

\* One ends by itself: nothing supervises or restarts it.
Exits ==
  /\ "exit" \in Faults
  /\ \/ /\ \E e \in Env, one \in {"opening", "on"} :
             one \in pps[e] /\ pps' = [pps EXCEPT ![e] = @ \ {one}]
        /\ UNCHANGED service
     \/ /\ \E i \in Seen : service' = [service EXCEPT ![i] = "free"]
        /\ UNCHANGED pps
  /\ quiet' = [c \in Composers |-> FALSE]
  /\ UNCHANGED <<containers, video, disk, run, result, quickBuild, asked, source>>

-----------------------------------------------------------------------------
\* A machine on which nothing runs yet: a fresh install of a package, or a
\* source checkout, fresh or built.
Init ==
  /\ source \in BOOLEAN
  /\ containers = [e \in Env |-> "none"]
  /\ pps = [e \in Env |-> {}] /\ video = FALSE
  /\ service = [i \in Launches |-> "free"]
  /\ \E has \in {{}, IF source THEN {"dir"} \union Parts ELSE {}} :
       release = [e \in Env |-> has]
  /\ package = [e \in Env |-> IF source THEN {} ELSE Parts \union {"tar"}]
  /\ images = {} /\ cache = {}
  /\ exported = IF source THEN {} ELSE Images
  /\ run = [c \in Composers |-> NotRunning]
  /\ result = [c \in Composers |-> "none"]
  /\ quiet = [c \in Composers |-> FALSE]
  /\ quickBuild = ~Built /\ asked = 0

Step(c) ==
  \/ Check(c) \/ StopOther(c) \/ EnsureReleases(c) \/ Clear(c)
  \/ Publish(c) \/ SyncRuntimeAssets(c) \/ Rehydrate(c) \/ FetchImages(c)
  \/ EnsureReady(c) \/ ComposeUp(c) \/ StartVideo(c) \/ RunDetection(c)
  \/ AwaitDetection(c) \/ SignalDetection(c) \/ EndDetection(c) \/ PreparePps(c)
  \/ LaunchPps(c) \/ AttachedStarts(c) \/ AttachedEnds(c) \/ Terminate(c) \/ StopVideo(c) \/ StopEnv(c)
  \/ RemoveRelease(c) \/ Validate(c) \/ ClearPackage(c) \/ OpenTar(c)
  \/ AddFiles(c) \/ ExportImages(c)

Next ==
  \/ Press \/ ServiceStep \/ PpsStep \/ Exits
  \/ \E c \in Terminals : Type(c) \/ Interrupt(c)
  \/ \E c \in Composers : Step(c)

Spec == Init /\ [][Next]_vars

-----------------------------------------------------------------------------
(* Properties                                                              *)

\* The command a composer ran last was `op`, returned `how`, and nothing else
\* touched the machine from its beginning to now.
Returned(c, op, how) ==
  At(c, "idle") /\ Cmd(c).op = op /\ result[c] = how /\ quiet[c]

\* PacketProcessingService was launched by the last up: it opens or serves, or
\* never came up, which up does not look at: no terminal opened, or the one told
\* to end still held the port.
Launched(e) == pps[e] \intersect {"opening", "on", "lost"} # {}

\* Whatever earlier commands failed, raced or were interrupted and left behind
\* (a release directory without its assets or removed under a running process,
\* an empty package, a half-started Detection Service), an `up -d` that runs
\* undisturbed and returns zero leaves its containers running, a whole release
\* directory and PacketProcessingService launched from it, though not always
\* up, and a Detection Service that answers if one was asked for.
UpIsComplete ==
  \A c \in Composers :
    Returned(c, "up", "ok") /\ Cmd(c).detached =>
      LET e == Cmd(c).env IN
      /\ containers[e] = "running" /\ Launched(e)
      /\ "dll" \in release[e]
      /\ source => "assets" \in release[e]
      /\ Cmd(c).detection => Answering

\* A Detection Service that did not answer in time is ended before `up`
\* returns its failure: it never comes up afterwards and never takes the port
\* of a retry, whatever other composers do meanwhile.
FailedStartIsEnded ==
  \A c \in Composers :
    result[c] = "failed" => \A i \in run[c].launch : service[i] = "free"

\* An undisturbed release that returns zero has packed both environments as
\* they were built, and every image lies beside them, even where an earlier
\* one failed halfway and left truncated tarballs.
ReleaseIsWhole ==
  \A c \in Composers :
    Returned(c, "release", "ok") =>
      /\ \A e \in Env : package[e] = {"tar"} \union (release[e] \ {"dir"})
                        /\ "dll" \in package[e]
      /\ exported = Images

=============================================================================
