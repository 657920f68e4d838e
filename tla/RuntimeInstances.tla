--------------------------- MODULE RuntimeInstances ---------------------------
(***************************************************************************)
(* The installed daemon's processes, the runtime state file by which they  *)
(* are found, and the start and stop commands.  Boot and shutdown are two  *)
(* threads of one process: a shutdown request is answered as soon as the   *)
(* pump exists, while the boot still has its last publication to write.    *)
(* Publishing is one step (a temporary file renamed into place); the       *)
(* daemon's own variables follow in a second one.                          *)
(***************************************************************************)
EXTENDS Naturals

CONSTANTS
    MaxInstances,  \* daemon processes ever spawned (bound)
    MaxCommands,   \* commands the user gives (bound)
    MaxFaults      \* killed processes and failing operations (bound)

ASSUME RuntimeConstants == MaxInstances \in Nat /\ MaxCommands \in Nat /\ MaxFaults \in Nat

Instances == 1 .. MaxInstances
NoFile    == [instance |-> 0, phase |-> "none"]   \* no runtime state file

VARIABLES
    daemon,        \* the processes
    stateFile,     \* run/runtime-v1.json: the instance and phase it names
    command,       \* the command being executed
    commands,      \* commands given so far
    faults,        \* faults so far
    files,         \* what is installed
    strayed        \* history: the file misled a command, or may mislead one

Items == {"release", "user_launcher", "hook_launcher", "hooks", "manifest", "secrets"}
NoItem  == 0
Partial == 1   \* of the release directory only
Whole   == 2   \* of the release directory; any other item is there if not 0

Boots  == {"unborn", "spawned", "bound", "recovering", "pumping", "announced", "done",
           "failed", "exited"}
Shuts  == {"none", "begun", "published", "draining", "closed", "checked", "over"}
Phases == {"starting", "ready", "stopping"}

DaemonRow == [boot: Boots, shut: Shuts, phase: Phases, accepted: BOOLEAN]

RuntimeInit ==
    /\ daemon = [d \in Instances |->
            [boot |-> "unborn", shut |-> "none", phase |-> "starting", accepted |-> FALSE]]
    /\ stateFile = NoFile
    /\ commands = 0
    /\ faults = 0
    /\ strayed = FALSE

Alive(d) == daemon[d].boot \notin {"unborn", "exited"}

(***************************************************************************)
(* From listen() until server.close().                                     *)
(***************************************************************************)
Listening(d) ==
    /\ daemon[d].boot \in {"bound", "recovering", "pumping", "announced", "done"}
    /\ daemon[d].shut \in {"none", "begun", "published", "draining"}

Unannounced(d) == daemon[d].boot \in {"spawned", "bound"}

(***************************************************************************)
(* The status route answers 503 until the pump exists.                     *)
(***************************************************************************)
StatusAnswers(d) == Listening(d) /\ daemon[d].boot \in {"pumping", "announced", "done"}

(***************************************************************************)
(* Manifest, release and secrets are there and belong together.            *)
(***************************************************************************)
InstallationVerified ==
    /\ files["release"] = Whole
    /\ files["manifest"] # NoItem
    /\ files["secrets"] = files["manifest"]

-----------------------------------------------------------------------------
(* The daemon *)

Fault == faults < MaxFaults /\ faults' = faults + 1

SetBoot(d, step) == daemon' = [daemon EXCEPT ![d].boot = step]
SetShut(d, step) == daemon' = [daemon EXCEPT ![d].shut = step]

VerifyAndBind(d) ==
    /\ daemon[d].boot = "spawned"
    /\ SetBoot(d, IF InstallationVerified THEN "bound" ELSE "exited")
    /\ UNCHANGED <<stateFile, faults, strayed>>

PublishStarting(d) ==
    /\ daemon[d].boot = "bound"
    /\ stateFile' = [instance |-> d, phase |-> "starting"]
    /\ SetBoot(d, "recovering")
    /\ UNCHANGED <<faults, strayed>>

RecoverAndPump(d) ==
    /\ daemon[d].boot = "recovering"
    /\ SetBoot(d, "pumping")
    /\ UNCHANGED <<stateFile, faults, strayed>>

(***************************************************************************)
(* A shutdown may have begun, and even removed the file, before the write  *)
(* that was under way reaches it.                                          *)
(***************************************************************************)
PublishReady(d) ==
    /\ daemon[d].boot = "pumping"
    /\ stateFile' = [instance |-> d, phase |-> "ready"]
    /\ SetBoot(d, "announced")
    /\ strayed' = (strayed \/ daemon[d].shut \in {"closed", "checked", "over"})
    /\ UNCHANGED faults

FinishBoot(d) ==
    /\ daemon[d].boot = "announced"
    /\ daemon' = [daemon EXCEPT ![d].boot = "done", ![d].phase = "ready"]
    /\ UNCHANGED <<stateFile, faults, strayed>>

(***************************************************************************)
(* A boot that throws cleans up in reverse and removes the file if it is   *)
(* its own.                                                                *)
(***************************************************************************)
BootThrows(d) ==
    /\ daemon[d].boot \in {"spawned", "bound", "recovering", "pumping"}
    /\ Fault
    /\ daemon' = [daemon EXCEPT ![d].boot = "failed",
                                ![d].shut = IF @ = "none" THEN "closed" ELSE @]
    /\ UNCHANGED <<stateFile, strayed>>

(***************************************************************************)
(* A signal; main() listens to them only once the boot is over.            *)
(***************************************************************************)
Signal(d) ==
    /\ daemon[d].boot = "done" /\ daemon[d].shut = "none"
    /\ Fault
    /\ SetShut(d, "begun")
    /\ UNCHANGED <<stateFile, strayed>>

PublishStopping(d) ==
    /\ daemon[d].shut = "begun"
    /\ \/ /\ stateFile' = [instance |-> d, phase |-> "stopping"]
          /\ UNCHANGED faults
       \/ /\ Fault
          /\ UNCHANGED stateFile
    /\ SetShut(d, "published")
    /\ UNCHANGED strayed

StopPump(d) ==
    /\ daemon[d].shut = "published"
    /\ daemon' = [daemon EXCEPT ![d].shut = "draining", ![d].phase = "stopping"]
    /\ UNCHANGED <<stateFile, faults, strayed>>

(***************************************************************************)
(* The cycle has ended or the grace period has: server and database close. *)
(***************************************************************************)
CloseServer(d) ==
    /\ daemon[d].shut = "draining"
    /\ SetShut(d, "closed")
    /\ UNCHANGED <<stateFile, faults, strayed>>

CheckOwner(d) ==
    /\ daemon[d].shut = "closed"
    /\ SetShut(d, IF stateFile.instance = d THEN "checked" ELSE "over")
    /\ UNCHANGED <<stateFile, faults, strayed>>

RemoveOwned(d) ==
    /\ daemon[d].shut = "checked"
    /\ \/ stateFile' = NoFile /\ UNCHANGED faults
       \/ Fault /\ UNCHANGED stateFile
    /\ SetShut(d, "over")
    /\ UNCHANGED strayed

Exit(d) ==
    /\ daemon[d].shut = "over" /\ daemon[d].boot \in {"done", "failed"}
    /\ SetBoot(d, "exited")
    /\ UNCHANGED <<stateFile, faults, strayed>>

Kill(d) ==
    /\ Alive(d)
    /\ Fault
    /\ daemon' = [daemon EXCEPT ![d].boot = "exited", ![d].shut = "over"]
    /\ UNCHANGED <<stateFile, strayed>>

DaemonStep ==
    /\ \E d \in Instances :
        \/ VerifyAndBind(d) \/ PublishStarting(d) \/ RecoverAndPump(d) \/ PublishReady(d)
        \/ FinishBoot(d) \/ BootThrows(d) \/ Signal(d) \/ PublishStopping(d) \/ StopPump(d)
        \/ CloseServer(d) \/ CheckOwner(d) \/ RemoveOwned(d) \/ Exit(d) \/ Kill(d)
    /\ UNCHANGED <<command, commands, files>>

-----------------------------------------------------------------------------
(* Commands: one at a time, each a sequence of reads, requests and writes *)

(***************************************************************************)
(* step: where the command is; seen: the state file as it last read it;    *)
(* before: the items when it began; index: how many of its file operations *)
(* it has done.                                                            *)
(***************************************************************************)
Idle == [name |-> "none", step |-> "idle", seen |-> NoFile,
         before |-> [i \in Items |-> NoItem], index |-> 0]

CommandInit == command = Idle

Begin(name, step) ==
    /\ command = Idle
    /\ commands < MaxCommands
    /\ commands' = commands + 1
    /\ command' = [Idle EXCEPT !.name = name, !.step = step, !.before = files]

(***************************************************************************)
(* The command returns, successfully or not: nothing is left of it.        *)
(***************************************************************************)
Return == command' = Idle

Goto(step) == command' = [command EXCEPT !.step = step]
At(step)   == command.step = step

(* Mutant: an instance that does not answer is taken for dead. *)
ProbeByStatusOnly(seen) ==
    IF seen = NoFile THEN "stopped"
    ELSE IF ~InstallationVerified THEN "repair_needed"
    ELSE IF StatusAnswers(seen.instance) THEN "running" ELSE "stale"

Probe(seen) ==
    IF seen = NoFile THEN "stopped"
    ELSE IF ~InstallationVerified THEN "repair_needed"
    ELSE IF StatusAnswers(seen.instance) /\ daemon[seen.instance].phase = seen.phase
         THEN "running"
    ELSE IF Alive(seen.instance) THEN "repair_needed" ELSE "stale"

(***************************************************************************)
(* What a command decides on may leave out a daemon that is only booting.  *)
(***************************************************************************)
Decide(step) ==
    /\ command' = [command EXCEPT !.step = step, !.seen = stateFile]
    /\ strayed' = (strayed \/ \E d \in Instances : Unannounced(d))

BeginStart ==
    /\ Begin("start", "probe")
    /\ InstallationVerified
    /\ UNCHANGED <<daemon, stateFile, faults, files, strayed>>

BeginStop ==
    /\ Begin("stop", "probe")
    /\ UNCHANGED <<daemon, stateFile, faults, files, strayed>>

ReadFile ==
    /\ At("probe")
    /\ Decide("ask")
    /\ UNCHANGED <<daemon, stateFile, commands, faults, files>>

(***************************************************************************)
(* start: refused while a daemon runs or cannot be told; a stale file is   *)
(* removed if it still names the instance that was seen.                   *)
(***************************************************************************)
DecideStart ==
    /\ command.name = "start" /\ At("ask")
    /\ CASE Probe(command.seen) = "stopped" -> Goto("spawn")
         [] Probe(command.seen) = "stale"   -> Goto("unlink")
         [] OTHER                           -> Return
    /\ UNCHANGED <<daemon, stateFile, commands, faults, files, strayed>>

CheckStale ==
    /\ At("unlink")
    /\ IF stateFile = NoFile THEN Goto("spawn")
       ELSE IF stateFile.instance = command.seen.instance THEN Goto("unlinking")
       ELSE Return
    /\ UNCHANGED <<daemon, stateFile, commands, faults, files, strayed>>

RemoveStale ==
    /\ At("unlinking")
    /\ stateFile' = NoFile
    /\ Goto("spawn")
    /\ UNCHANGED <<daemon, commands, faults, files, strayed>>

Spawn ==
    /\ At("spawn")
    /\ \E d \in Instances :
        /\ daemon[d].boot = "unborn"
        /\ \A p \in 1 .. d - 1 : daemon[p].boot # "unborn"
        /\ SetBoot(d, "spawned")
    /\ Goto("await")
    /\ UNCHANGED <<stateFile, commands, faults, files, strayed>>

(***************************************************************************)
(* uninstall stops the runtime first: success lets it go on, failure makes *)
(* it put the hooks back.                                                  *)
(***************************************************************************)
StopEnds(success) ==
    IF command.name = "uninstall" THEN Goto(IF success THEN "check" ELSE "rehook")
    ELSE Return

(***************************************************************************)
(* stop: a running daemon only; uninstall tolerates that there is none.    *)
(***************************************************************************)
DecideStop ==
    /\ command.name # "start" /\ At("ask")
    /\ CASE Probe(command.seen) = "running" -> Goto("post")
         [] Probe(command.seen) = "stopped" -> StopEnds(TRUE)
         [] OTHER                           -> StopEnds(FALSE)
    /\ UNCHANGED <<daemon, stateFile, commands, faults, files, strayed>>

(***************************************************************************)
(* The shutdown request: for exactly this instance, once.                  *)
(***************************************************************************)
PostShutdown ==
    LET d == command.seen.instance IN
    /\ At("post")
    /\ \/ /\ Listening(d) /\ ~daemon[d].accepted
          /\ daemon' = [daemon EXCEPT ![d].accepted = TRUE,
                                      ![d].shut = IF @ = "none" THEN "begun" ELSE @]
          /\ Goto("await")
       \/ /\ ~Listening(d) \/ daemon[d].accepted
          /\ StopEnds(FALSE)
          /\ UNCHANGED daemon
    /\ UNCHANGED <<stateFile, commands, faults, files, strayed>>

(***************************************************************************)
(* waitFor: reads and asks again until it sees what it expects, something  *)
(* needs repair, or its time is up.                                        *)
(***************************************************************************)
AwaitRead ==
    /\ At("await")
    /\ command' = [command EXCEPT !.step = "await_ask", !.seen = stateFile]
    /\ UNCHANGED <<daemon, stateFile, commands, faults, files, strayed>>

AwaitTimesOut ==
    /\ At("await")
    /\ StopEnds(FALSE)
    /\ UNCHANGED <<daemon, stateFile, commands, faults, files, strayed>>

AwaitStart ==
    /\ command.name = "start" /\ At("await_ask")
    /\ IF Probe(command.seen) \in {"running", "repair_needed"} THEN Return ELSE Goto("await")
    /\ UNCHANGED <<daemon, stateFile, commands, faults, files, strayed>>

AwaitStop ==
    /\ command.name # "start" /\ At("await_ask")
    /\ CASE Probe(command.seen) = "stopped"       -> StopEnds(TRUE)
         [] Probe(command.seen) = "repair_needed" -> StopEnds(FALSE)
         [] OTHER                                 -> Goto("await")
    /\ UNCHANGED <<daemon, stateFile, commands, faults, files, strayed>>

(***************************************************************************)
(* The user or the system ends the command's process.                      *)
(***************************************************************************)
Interrupt ==
    /\ command # Idle
    /\ Fault
    /\ Return
    /\ UNCHANGED <<daemon, stateFile, commands, files, strayed>>

RuntimeStep ==
    \/ DaemonStep
    \/ BeginStart \/ BeginStop \/ ReadFile \/ DecideStart \/ CheckStale \/ RemoveStale \/ Spawn
    \/ DecideStop \/ PostShutdown \/ AwaitRead \/ AwaitTimesOut \/ AwaitStart \/ AwaitStop
    \/ Interrupt

-----------------------------------------------------------------------------
(***************************************************************************)
(* The state file is the only lock there is.  It keeps two daemons from    *)
(* serving one database, and a serving daemon from losing its installation *)
(* under its feet, through crashes, failed and interrupted commands and    *)
(* shutdowns racing boots, except where it is known to mislead: a command  *)
(* decided while a daemon was booting and had not published itself (a      *)
(* start repeated after a timeout), or a daemon published itself after its *)
(* own shutdown had removed the file.                                      *)
(***************************************************************************)
OneDaemonServes ==
    strayed \/ \A d \in Instances : Listening(d) =>
        /\ \A e \in Instances : Listening(e) => d = e
        /\ InstallationVerified

=============================================================================
