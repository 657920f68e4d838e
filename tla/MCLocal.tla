-------------------------------- MODULE MCLocal --------------------------------
(***************************************************************************)
(* The four local parts that share no state - the settings service, the    *)
(* installed runtime, hook delivery, the viewer - checked in one run: the  *)
(* first state picks the part that moves, and the others stay as they are. *)
(***************************************************************************)
EXTENDS LocalSettings, Installation, HookDelivery, Viewer, TLC

CONSTANT Parts   \* the parts to exercise

VARIABLE part

NoDelay        == [r \in Receipts |-> 0]
InsertionOrder == {[r \in Receipts |-> r]}
OffOrOn        == {<<FALSE, NoProvider>>} \cup ({TRUE} \X Providers)

Payload(session, hook, id, body) ==
    [session |-> session, workspace |-> "w1", hook |-> hook, id |-> id, body |-> body]

(***************************************************************************)
(* A session resumed and ended; a prompt delivered twice with one id and   *)
(* different bodies; a tool hook.                                          *)
(***************************************************************************)
SessionPayloads == {Payload("s1", "SessionStart", None, "resume"),
                    Payload("s1", "SessionEnd", None, "logout")}
MixedPayloads   == {Payload("s1", "SessionStart", None, "resume"),
                    Payload("s1", "UserPromptSubmit", "p1", "a"),
                    Payload("s1", "UserPromptSubmit", "p1", "b"),
                    Payload("s1", "PreToolUse", "t1", "a")}

Symmetry == Permutations(ReplayRuns) \cup Permutations(Questions)

Settings     == control
Runtime      == installationVars
Delivered    == <<lifecycleVars, deliveryVars>>
Shown        == viewerVars
localVars    == <<part, Settings, Runtime, Delivered, Shown>>

LocalInit == /\ part \in Parts
             /\ SettingsInit /\ InstallationInit /\ DeliveryInit /\ ViewerInit

LocalNext ==
    /\ UNCHANGED part
    /\ \/ part = "settings" /\ SettingsStep     /\ UNCHANGED <<Runtime, Delivered, Shown>>
       \/ part = "runtime"  /\ InstallationNext /\ UNCHANGED <<Settings, Delivered, Shown>>
       \/ part = "delivery" /\ DeliveryNext     /\ UNCHANGED <<Settings, Runtime, Shown>>
       \/ part = "viewer"   /\ ViewerNext       /\ UNCHANGED <<Settings, Runtime, Delivered>>

LocalSpec == LocalInit /\ [][LocalNext]_localVars

=============================================================================
