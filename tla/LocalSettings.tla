------------------------------ MODULE LocalSettings ------------------------------
(***************************************************************************)
(* The local settings service: one row with a revision, an api key that    *)
(* only lives in memory, and the browser tabs that edit them.  A provider  *)
(* is abstracted to its identity (endpoint, model, revision).              *)
(***************************************************************************)
EXTENDS Naturals

CONSTANTS
    Providers,         \* configured provider identities
    NoProvider,        \* the null provider, and the absent secret
    Clients,           \* browser tabs with a settings form
    Replacements,      \* <<externalAiEnabled, provider>> a client may save
    MaxRevisions       \* bound on settings revisions

VARIABLES
    settings,     \* the local_settings row
    secret,       \* the in-memory api key: the provider it was loaded for
    form          \* the settings each client last read

control == <<settings, secret, form>>

ASSUME SettingsAssumption ==
    /\ MaxRevisions \in Nat \ {0}
    /\ NoProvider \notin Providers
    /\ Replacements \subseteq BOOLEAN \X (Providers \cup {NoProvider})

SettingsRow == [revision: Nat, enabled: BOOLEAN, provider: Providers \cup {NoProvider}]

SettingsTypeOK ==
    /\ settings \in SettingsRow
    /\ secret \in Providers \cup {NoProvider}
    /\ form \in [Clients -> SettingsRow]

(***************************************************************************)
(* The row the migration inserts: external analysis disabled.              *)
(***************************************************************************)
FirstSettings == [revision |-> 1, enabled |-> FALSE, provider |-> NoProvider]

SettingsInit ==
    /\ settings = FirstSettings
    /\ secret = NoProvider
    /\ form = [c \in Clients |-> FirstSettings]

Off == [provider |-> NoProvider, secret |-> NoProvider]

(***************************************************************************)
(* What the pump's stages ask the service: a provider and its key, or off. *)
(***************************************************************************)
Options == IF settings.enabled /\ settings.provider # NoProvider /\ secret # NoProvider
           THEN [provider |-> settings.provider, secret |-> secret]
           ELSE Off

Load(c) ==
    /\ form[c] # settings
    /\ form' = [form EXCEPT ![c] = settings]
    /\ UNCHANGED <<settings, secret>>

(* Mutant: the secret survives a change of provider. *)
SecretAfterSwitch(enabled, provider) == IF enabled THEN secret ELSE NoProvider

(***************************************************************************)
(* The secret survives an update only under the same, enabled provider.    *)
(***************************************************************************)
SecretAfter(enabled, provider) ==
    IF ~enabled \/ provider = NoProvider \/ provider # settings.provider
    THEN NoProvider ELSE secret

(* Mutant: the expected revision is not compared. *)
SwapUnchecked(c) == form[c].revision <= settings.revision

(***************************************************************************)
(* compareAndSwap: the replacement is taken only against the revision it   *)
(* was edited from; the reply refreshes the client's form.                 *)
(***************************************************************************)
SwapAccepted(c) == form[c].revision = settings.revision

Save(c, enabled, provider) ==
    /\ settings.revision < MaxRevisions
    /\ SwapAccepted(c)
    /\ settings' = [revision |-> settings.revision + 1,
                    enabled |-> enabled, provider |-> provider]
    /\ secret' = SecretAfter(enabled, provider)
    /\ form' = [form EXCEPT ![c] = settings']

LoadSecret ==
    /\ settings.enabled /\ settings.provider \notin {NoProvider, secret}
    /\ secret' = settings.provider
    /\ UNCHANGED <<settings, form>>

ClearSecret ==
    /\ secret # NoProvider
    /\ secret' = NoProvider
    /\ UNCHANGED <<settings, form>>

SettingsStep ==
    \/ \E c \in Clients : Load(c)
    \/ \E c \in Clients, new \in Replacements : Save(c, new[1], new[2])
    \/ LoadSecret
    \/ ClearSecret

SettingsSpec == SettingsInit /\ [][SettingsStep]_control

(***************************************************************************)
(* The settings a client replaces are the very ones it was looking at, not *)
(* only their number, and it then looks at what it wrote: of two clients   *)
(* that edit the same settings one is refused, and no update is undone by  *)
(* somebody who has not seen it.                                           *)
(***************************************************************************)
UpdatesAreNotLost ==
    [][settings' # settings =>
         \E c \in Clients : form[c] = settings /\ form'[c] = settings']_control

=============================================================================
