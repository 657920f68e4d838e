----------------------------- MODULE Installation -----------------------------
(***************************************************************************)
(* The installer: what is on disk, the commands that put it there and take *)
(* it away, the rollback of a failed installation, and the hooks commands. *)
(* A file operation is one step; it may fail, and the command may be ended *)
(* before the next.  Directories, access lists and the user's data are     *)
(* left out.                                                               *)
(***************************************************************************)
EXTENDS RuntimeInstances, Sequences

VARIABLE
    stranded       \* history: hooks were set without their launcher, or not taken back with it

installationVars == <<daemon, stateFile, command, commands, faults, files, strayed, stranded>>

InstallationTypeOK ==
    /\ daemon \in [Instances -> DaemonRow]
    /\ stateFile \in [instance: Instances \cup {0}, phase: Phases \cup {"none"}]
    /\ files \in [Items -> Nat]
    /\ commands \in 0 .. MaxCommands /\ faults \in 0 .. MaxFaults
    /\ strayed \in BOOLEAN /\ stranded \in BOOLEAN

InstallationInit ==
    /\ RuntimeInit
    /\ CommandInit
    /\ files = [i \in Items |-> NoItem]
    /\ stranded = FALSE

Put(item, value) == files' = [files EXCEPT ![item] = value]
Restore(item)    == Put(item, command.before[item])

(***************************************************************************)
(* Credentials get a new identity unless there are some; the manifest      *)
(* records whose it is.                                                    *)
(***************************************************************************)
Installed(item) ==
    CASE item = "secrets"  -> IF files[item] = NoItem THEN commands ELSE files[item]
      [] item = "manifest" -> files["secrets"]
      [] OTHER             -> Whole

(* Mutant: the hooks are installed before what they launch. *)
HooksBeforeLaunchers == <<"release", "secrets", "hooks", "user_launcher", "hook_launcher",
                          "manifest">>

InstallOrder   == <<"release", "secrets", "user_launcher", "hook_launcher", "hooks", "manifest">>
RollbackOrder  == <<"hooks", "user_launcher", "hook_launcher", "manifest", "secrets", "release">>
UninstallOrder == <<"user_launcher", "hook_launcher", "release", "manifest", "secrets">>

NextOf(order) == order[command.index + 1]

AtItem(step, order) == At(step) /\ command.index < Len(order)

Proceed(step, order) ==
    command' = IF command.index + 1 = Len(order) THEN Idle
               ELSE [command EXCEPT !.step = step, !.index = @ + 1]

-----------------------------------------------------------------------------
(* install *)

BeginInstall ==
    /\ Begin("install", "install")
    /\ UNCHANGED <<daemon, stateFile, faults, files, strayed, stranded>>

(***************************************************************************)
(* The release is staged, verified and renamed into place; one that is     *)
(* there already must verify.                                              *)
(***************************************************************************)
InstallItem ==
    /\ AtItem("install", InstallOrder)
    /\ NextOf(InstallOrder) = "release" => files["release"] # Partial
    /\ Put(NextOf(InstallOrder), Installed(NextOf(InstallOrder)))
    /\ Proceed("install", InstallOrder)
    /\ UNCHANGED <<daemon, stateFile, commands, faults, strayed, stranded>>

(***************************************************************************)
(* Any step may throw before it has changed anything.                      *)
(***************************************************************************)
InstallThrows ==
    /\ AtItem("install", InstallOrder)
    /\ \/ Fault
       \/ /\ NextOf(InstallOrder) = "release" /\ files["release"] = Partial
          /\ UNCHANGED faults
    /\ command' = [command EXCEPT !.step = "rollback", !.index = 0]
    /\ UNCHANGED <<daemon, stateFile, commands, files, strayed, stranded>>

(***************************************************************************)
(* The snapshots are written back; settings only if they were changed, and *)
(* the release is removed only if it was created.  What fails is skipped;  *)
(* of a release, some files may be gone by then.                           *)
(***************************************************************************)
RollBackItem ==
    /\ AtItem("rollback", RollbackOrder)
    /\ \/ Restore(NextOf(RollbackOrder)) /\ UNCHANGED <<faults, stranded>>
       \/ /\ Fault /\ UNCHANGED files
          /\ stranded' = (stranded \/ NextOf(RollbackOrder) = "hooks")
       \/ /\ NextOf(RollbackOrder) = "release"
          /\ files["release"] # command.before["release"]
          /\ Fault
          /\ Put("release", Partial)
          /\ UNCHANGED stranded
    /\ Proceed("rollback", RollbackOrder)
    /\ UNCHANGED <<daemon, stateFile, commands, strayed>>

-----------------------------------------------------------------------------
(* uninstall *)

BeginUninstall ==
    /\ Begin("uninstall", "unhook")
    /\ InstallationVerified
    /\ UNCHANGED <<daemon, stateFile, faults, files, strayed, stranded>>

Unhook ==
    /\ At("unhook")
    /\ Put("hooks", NoItem)
    /\ Goto("probe")
    /\ UNCHANGED <<daemon, stateFile, commands, faults, strayed, stranded>>

Rehook ==
    /\ At("rehook")
    /\ \/ Restore("hooks") /\ UNCHANGED faults
       \/ Fault /\ UNCHANGED files
    /\ Return
    /\ UNCHANGED <<daemon, stateFile, commands, strayed, stranded>>

(***************************************************************************)
(* Nothing is removed while a runtime state file is there.                 *)
(***************************************************************************)
CheckNoState ==
    /\ At("check")
    /\ IF stateFile = NoFile
       THEN Decide("remove")
       ELSE Return /\ UNCHANGED strayed
    /\ UNCHANGED <<daemon, stateFile, commands, faults, files, stranded>>

(***************************************************************************)
(* A release is a tree, removed file by file.                              *)
(***************************************************************************)
RemoveItem ==
    /\ AtItem("remove", UninstallOrder)
    /\ \/ /\ NextOf(UninstallOrder) = "release" /\ files["release"] = Whole
          /\ Put("release", Partial)
          /\ UNCHANGED command
       \/ /\ NextOf(UninstallOrder) = "release" => files["release"] = Partial
          /\ Put(NextOf(UninstallOrder), NoItem)
          /\ Proceed("remove", UninstallOrder)
    /\ UNCHANGED <<daemon, stateFile, commands, faults, strayed, stranded>>

RemoveThrows ==
    /\ At("remove")
    /\ Fault
    /\ Return
    /\ UNCHANGED <<daemon, stateFile, commands, files, strayed, stranded>>

-----------------------------------------------------------------------------
(* hooks install, hooks remove *)

(***************************************************************************)
(* Both verify manifest, release and credentials, and neither looks at the *)
(* launcher.                                                               *)
(***************************************************************************)
SetHooks(present) ==
    /\ command = Idle
    /\ commands < MaxCommands
    /\ commands' = commands + 1
    /\ InstallationVerified
    /\ files["hooks"] # present
    /\ Put("hooks", present)
    /\ stranded' = (stranded \/ (present = Whole /\ files["hook_launcher"] = NoItem))
    /\ UNCHANGED <<daemon, stateFile, command, faults, strayed>>

InstallationNext ==
    \/ RuntimeStep /\ UNCHANGED stranded
    \/ BeginInstall \/ InstallItem \/ InstallThrows \/ RollBackItem
    \/ BeginUninstall \/ Unhook \/ Rehook \/ CheckNoState \/ RemoveItem \/ RemoveThrows
    \/ \E present \in {NoItem, Whole} : SetHooks(present)

InstallationSpec == InstallationInit /\ [][InstallationNext]_installationVars

-----------------------------------------------------------------------------
(***************************************************************************)
(* The agent's settings never name a launcher that is not there, however   *)
(* installation, rollback and removal fail or are cut short: a hook that   *)
(* cannot be launched fails loudly in the user's session.  The two ways    *)
(* there are a rollback that cannot restore the settings, and the hooks    *)
(* command run on what an interrupted removal left.                        *)
(***************************************************************************)
HooksHaveTheirLauncher ==
    stranded \/ (files["hooks"] # NoItem => files["hook_launcher"] # NoItem)

=============================================================================
