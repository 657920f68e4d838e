--------------------------------- MODULE Viewer ---------------------------------
(***************************************************************************)
(* The replay viewer in the browser: what it shows of the selected run is  *)
(* fetched piece by piece, every piece an await during which the user may  *)
(* select another run, delete one, answer a moment or disconnect.  A view  *)
(* is numbered by loadRequestRef; what arrives for an earlier view is      *)
(* dropped.  A response is read by the daemon in one step and arrives in a *)
(* later one; any request may fail.  Pagination, artifacts and the focus   *)
(* on an evidence section are left out.                                    *)
(***************************************************************************)
EXTENDS MomentInteractions

CONSTANTS
    MaxViews,        \* values loadRequestRef takes (bound)
    MaxConnections,  \* connections made (bound)
    MaxDrops,        \* requests that fail (bound)
    MaxEvents        \* views, interactions, failures and deletions together (bound)

VARIABLES
    view,      \* what the viewer shows
    load,      \* loadRun, by view
    record,    \* recordMomentInteractionAction, by interaction
    card,      \* the answer form of each question: the save under way, the save that failed
    lists,     \* the run lists and deletions under way, and what for
    drops

viewerVars == <<daemonVars, view, load, record, card, lists, drops>>

Views    == 1 .. MaxViews
Nothing  == Unanswered              \* no run
NoShot   == [run |-> Nothing, seen |-> {}]
NoCard   == [pending |-> 0, failed |-> 0]
NoLoad   == [run |-> Nothing, step |-> "none", seen |-> {}, build |-> "none", buildSeen |-> {}]
NoRecord == [step |-> "idle", try |-> 0, view |-> 0, connection |-> 0, seen |-> {}]
NoList   == [purpose |-> "none", connection |-> 0, run |-> Nothing]

ASSUME ViewerConstants == /\ MaxViews \in Nat \ {0} /\ MaxConnections \in Nat
                           /\ MaxDrops \in Nat /\ MaxEvents \in Nat

ViewerInit ==
    /\ InteractionInit
    /\ view = [number |-> 0, connection |-> 0, connected |-> FALSE, selected |-> Nothing,
               replay |-> Nothing, moments |-> Nothing, ready |-> FALSE,
               interactions |-> NoShot, build |-> NoShot]
    /\ load = [n \in Views |-> NoLoad]
    /\ record = [i \in Interactions |-> NoRecord]
    /\ card = [q \in Questions |-> NoCard]
    /\ lists = {}
    /\ drops = 0

Started == {i \in Interactions : asked[i] # NoAsk}

MoreEvents ==
    view.number + Cardinality(Started) + drops + Cardinality(ReplayRuns \ known) < MaxEvents

Drop == drops < MaxDrops /\ MoreEvents /\ drops' = drops + 1

Shot(r, seen) == [run |-> r, seen |-> seen]

(* Mutant: what was fetched for an earlier view is shown. *)
AnyView(n) == n > 0

(***************************************************************************)
(* loadRequestRef.current === requestNumber                                *)
(***************************************************************************)
IsCurrent(n) == n = view.number

(* Mutant: the later response wins. *)
PreferLater(current, next) == next

(***************************************************************************)
(* Rows are only appended, so more of them is newer.                       *)
(***************************************************************************)
PreferNewer(current, next) ==
    IF current.run # next.run \/ Cardinality(next.seen) >= Cardinality(current.seen)
    THEN next ELSE current

-----------------------------------------------------------------------------
(* A view begins and ends *)

(***************************************************************************)
(* Selecting a run keeps the replay of the last one until the new one is   *)
(* here, and nothing else of it.                                           *)
(***************************************************************************)
StartLoad(r) ==
    /\ view.number < MaxViews /\ MoreEvents
    /\ view' = [view EXCEPT !.number = @ + 1, !.moments = Nothing, !.ready = FALSE,
                            !.interactions = NoShot, !.build = NoShot]
    /\ load' = [load EXCEPT ![view.number + 1] = [NoLoad EXCEPT !.run = r, !.step = "replay"]]
    /\ card' = [q \in Questions |-> NoCard]

ClearView(connected) ==
    /\ view.number < MaxViews /\ MoreEvents
    /\ view' = [view EXCEPT !.number = @ + 1, !.connected = connected, !.selected = Nothing,
                            !.replay = Nothing, !.moments = Nothing, !.ready = FALSE,
                            !.interactions = NoShot, !.build = NoShot]
    /\ card' = [q \in Questions |-> NoCard]

SelectRun(r) ==
    /\ view.connected
    /\ StartLoad(r)
    /\ UNCHANGED <<daemonVars, record, lists, drops>>

(***************************************************************************)
(* The token, and with it the client, is replaced; the run list comes next.*)
(***************************************************************************)
Connect ==
    /\ ~view.connected /\ view.connection < MaxConnections
    /\ view' = [view EXCEPT !.connected = TRUE, !.connection = @ + 1]
    /\ lists' = lists \cup {[NoList EXCEPT !.purpose = "connect",
                                          !.connection = view.connection + 1]}
    /\ UNCHANGED <<daemonVars, load, record, card, drops>>

Disconnect ==
    /\ view.connected
    /\ ClearView(FALSE)
    /\ UNCHANGED <<daemonVars, load, record, lists, drops>>

(***************************************************************************)
(* The list loads its first run.  After a connection nothing checks that   *)
(* the connection is still there; after a deletion it is checked, and the  *)
(* load happens only if the selected run was deleted, which is when the    *)
(* list is kept here.                                                      *)
(***************************************************************************)
ReceiveList(l) ==
    LET stillThere == view.connected /\ view.connection = l.connection IN
    /\ l.purpose \in {"connect", "deleted"}
    /\ IF (l.purpose = "connect" \/ stillThere) /\ known # {}
       THEN \E r \in known : StartLoad(r)
       ELSE UNCHANGED <<view, load, card>>
    /\ lists' = lists \ {l}
    /\ UNCHANGED <<daemonVars, record, drops>>

LoseList(l) ==
    /\ Drop
    /\ lists' = lists \ {l}
    /\ UNCHANGED <<daemonVars, view, load, record, card>>

-----------------------------------------------------------------------------
(* loadRun *)

LoadStep(n, step) == load' = [load EXCEPT ![n].step = step]
EndLoad(n)        == load' = [load EXCEPT ![n] =
                        IF @.build = "none" THEN NoLoad ELSE [@ EXCEPT !.step = "none", !.seen = {}]]
EndBuild(n)       == load' = [load EXCEPT ![n] =
                        IF @.step = "none" THEN NoLoad
                        ELSE [@ EXCEPT !.build = "none", !.buildSeen = {}]]

OnlyLoads == UNCHANGED <<daemonVars, record, card, lists>>

(***************************************************************************)
(* The build replay is fetched beside the rest.                            *)
(***************************************************************************)
ReceiveReplay(n) ==
    LET r == load[n].run IN
    /\ load[n].step = "replay"
    /\ IF ~IsCurrent(n) THEN EndLoad(n) /\ UNCHANGED view
       ELSE IF r \in known
       THEN /\ view' = [view EXCEPT !.replay = r, !.selected = r]
            /\ load' = [load EXCEPT ![n].step = "moments", ![n].build = "asked"]
       ELSE /\ view' = [view EXCEPT !.replay = Nothing]
            /\ EndLoad(n)
    /\ OnlyLoads /\ UNCHANGED drops

ReceiveMoments(n) ==
    LET r == load[n].run IN
    /\ load[n].step = "moments"
    /\ IF IsCurrent(n) /\ r \in known
       THEN /\ view' = [view EXCEPT !.moments = r]
            /\ LoadStep(n, "state")
       ELSE EndLoad(n) /\ UNCHANGED view
    /\ OnlyLoads /\ UNCHANGED drops

ReadInteractions(n) ==
    /\ load[n].step = "state"
    /\ IF load[n].run \in known
       THEN load' = [load EXCEPT ![n].step = "response", ![n].seen = Recorded(load[n].run)]
       ELSE EndLoad(n)
    /\ OnlyLoads /\ UNCHANGED <<view, drops>>

ReceiveInteractions(n) ==
    /\ load[n].step = "response"
    /\ view' = IF IsCurrent(n)
               THEN [view EXCEPT !.interactions = Shot(load[n].run, load[n].seen), !.ready = TRUE]
               ELSE view
    /\ EndLoad(n)
    /\ OnlyLoads /\ UNCHANGED drops

ReadBuildReplay(n) ==
    /\ load[n].build = "asked"
    /\ IF load[n].run \in known
       THEN load' = [load EXCEPT ![n].build = "response", ![n].buildSeen = Recorded(load[n].run)]
       ELSE EndBuild(n)
    /\ OnlyLoads /\ UNCHANGED <<view, drops>>

(***************************************************************************)
(* Whatever is shown by now is replaced.                                   *)
(***************************************************************************)
ReceiveBuildReplay(n) ==
    /\ load[n].build = "response"
    /\ view' = IF IsCurrent(n)
               THEN [view EXCEPT !.build = Shot(load[n].run, load[n].buildSeen)]
               ELSE view
    /\ EndBuild(n)
    /\ OnlyLoads /\ UNCHANGED drops

(***************************************************************************)
(* A request of the load fails: nothing more is fetched after it.          *)
(***************************************************************************)
LoseLoad(n) ==
    /\ Drop
    /\ \/ /\ load[n].step \in {"replay", "moments", "state"}
          /\ view' = IF IsCurrent(n) /\ load[n].step = "replay"
                     THEN [view EXCEPT !.replay = Nothing] ELSE view
          /\ EndLoad(n)
       \/ /\ load[n].build = "asked"
          /\ view' = IF IsCurrent(n) THEN [view EXCEPT !.build = NoShot] ELSE view
          /\ EndBuild(n)
    /\ OnlyLoads

LoadRun == \E n \in Views :
    \/ ReceiveReplay(n) \/ ReceiveMoments(n) \/ ReadInteractions(n) \/ ReceiveInteractions(n)
    \/ ReadBuildReplay(n) \/ ReceiveBuildReplay(n) \/ LoseLoad(n)

-----------------------------------------------------------------------------
(* recordMomentInteractionAction *)

Send(i, t) ==
    /\ record' = [record EXCEPT ![i] = [step |-> "posted", try |-> t, view |-> view.number,
                                        connection |-> view.connection, seen |-> {}]]
    /\ call' = [call EXCEPT ![i][t] = "arrived"]
    /\ card' = [card EXCEPT ![asked'[i].question].pending = i]

CanAnswer(q) == view.connected /\ view.moments # Nothing /\ card[q].pending = 0

Submit(i, q) ==
    /\ CanAnswer(q) /\ view.ready /\ MoreEvents
    /\ asked[i] = NoAsk
    /\ 1 .. i - 1 \subseteq Started
    /\ asked' = [asked EXCEPT ![i] = [run |-> view.moments, question |-> q]]
    /\ Send(i, 1)
    /\ UNCHANGED <<known, interaction, recordedAt, view, load, lists, drops>>

(***************************************************************************)
(* "Retry save" repeats the request that failed last, with its id.         *)
(***************************************************************************)
RetrySave(q) ==
    LET i == card[q].failed IN
    /\ CanAnswer(q)
    /\ i # 0
    /\ record[i].try < MaxTries
    /\ UNCHANGED asked
    /\ Send(i, record[i].try + 1)
    /\ UNCHANGED <<known, interaction, recordedAt, view, load, lists, drops>>

EndRecord(i)        == record' = [record EXCEPT ![i] = [NoRecord EXCEPT !.try = record[i].try]]
RecordStep(i, step) == record' = [record EXCEPT ![i].step = step]
SameView(i)         == view.connection = record[i].connection /\ IsCurrent(record[i].view)

(***************************************************************************)
(* The form is told, unless it is gone with its view.                      *)
(***************************************************************************)
TellCard(i, failed) ==
    card' = [q \in Questions |->
        IF card[q].pending = i /\ IsCurrent(record[i].view)
        THEN [pending |-> 0, failed |-> failed] ELSE card[q]]

OnlyRecords == UNCHANGED <<daemonVars, load, lists>>

ReceiveReceipt(i) ==
    LET phase == call[i][record[i].try] IN
    /\ record[i].step = "posted"
    /\ \/ /\ phase = "accepted"
          /\ RecordStep(i, "refresh")
          /\ UNCHANGED card
       \/ /\ phase = "refused"
          /\ EndRecord(i)
          /\ TellCard(i, i)
    /\ OnlyRecords /\ UNCHANGED <<view, drops>>

ReadRefresh(i) ==
    LET r == asked[i].run IN
    /\ record[i].step \in {"refresh", "rebuild"}
    /\ IF r \in known
       THEN /\ record' = [record EXCEPT ![i].step = IF @ = "refresh" THEN "refreshed" ELSE "rebuilt",
                                        ![i].seen = Recorded(r)]
            /\ UNCHANGED card
       ELSE /\ EndRecord(i)
            /\ TellCard(i, IF record[i].step = "refresh" THEN i ELSE 0)
    /\ OnlyRecords /\ UNCHANGED <<view, drops>>

(***************************************************************************)
(* The refreshed state is shown if the view is still the one that asked;   *)
(* then the build replay is fetched too.                                   *)
(***************************************************************************)
ReceiveRefresh(i) ==
    LET next == Shot(asked[i].run, record[i].seen) IN
    /\ record[i].step = "refreshed"
    /\ IF SameView(i)
       THEN /\ view' = [view EXCEPT !.interactions = PreferNewer(@, next), !.ready = TRUE]
            /\ RecordStep(i, "rebuild")
            /\ UNCHANGED card
       ELSE /\ EndRecord(i)
            /\ TellCard(i, 0)
            /\ UNCHANGED view
    /\ OnlyRecords /\ UNCHANGED drops

ReceiveRebuilt(i) ==
    LET next == Shot(asked[i].run, record[i].seen) IN
    /\ record[i].step = "rebuilt"
    /\ view' = IF SameView(i) THEN [view EXCEPT !.build = PreferNewer(@, next)] ELSE view
    /\ EndRecord(i)
    /\ TellCard(i, 0)
    /\ OnlyRecords /\ UNCHANGED drops

(***************************************************************************)
(* The request fails in the browser; the daemon may still work on it.  A   *)
(* build replay that fails does not make the save fail.                    *)
(***************************************************************************)
LoseRecord(i) ==
    /\ record[i].step \in {"posted", "refresh", "rebuild"}
    /\ Drop
    /\ EndRecord(i)
    /\ TellCard(i, IF record[i].step = "rebuild" THEN 0 ELSE i)
    /\ OnlyRecords /\ UNCHANGED view

RecordAction ==
    \/ \E i \in Interactions, q \in Questions : Submit(i, q)
    \/ \E q \in Questions : RetrySave(q)
    \/ \E i \in Interactions : \/ ReceiveReceipt(i) \/ ReadRefresh(i) \/ ReceiveRefresh(i)
                               \/ ReceiveRebuilt(i) \/ LoseRecord(i)

-----------------------------------------------------------------------------
(* Deletion *)

(***************************************************************************)
(* The settings panel deletes the selected run, or what the retention      *)
(* policy selects.  When the answer comes, the handler that was current at *)
(* the click decides whether the selected run is deleted; if it is not,    *)
(* the answer changes nothing but the list of runs.  Nothing waits for the *)
(* answer or for a list before the next click.                             *)
(***************************************************************************)
DeleteRun(r) ==
    /\ view.connected /\ MoreEvents
    /\ DeleteKnownRun(r)
    /\ lists' = IF view.selected # r THEN lists
                ELSE lists \cup {[purpose |-> "deleting", connection |-> view.connection,
                                  run |-> r]}
    /\ UNCHANGED <<view, load, record, card, drops>>

HandleRunsDeleted(l) ==
    /\ l.purpose = "deleting"
    /\ ClearView(view.connected)
    /\ lists' = (lists \ {l}) \cup
          (IF view.connected
           THEN {[l EXCEPT !.purpose = "deleted", !.connection = view.connection]} ELSE {})
    /\ UNCHANGED <<daemonVars, load, record, drops>>

(***************************************************************************)
(* Another tab deletes the run, or applies the retention policy.           *)
(***************************************************************************)
DeleteElsewhere(r) ==
    /\ MoreEvents
    /\ DeleteKnownRun(r)
    /\ UNCHANGED <<view, load, record, card, lists, drops>>

ViewerNext ==
    \/ DaemonAnswers /\ UNCHANGED <<view, load, record, card, lists, drops>>
    \/ \E r \in ReplayRuns : \/ r \in known /\ SelectRun(r)
                            \/ DeleteRun(r) \/ DeleteElsewhere(r)
    \/ Connect \/ Disconnect
    \/ \E l \in lists : ReceiveList(l) \/ LoseList(l) \/ HandleRunsDeleted(l)
    \/ LoadRun \/ RecordAction

ViewerSpec == ViewerInit /\ [][ViewerNext]_viewerVars

-----------------------------------------------------------------------------
(***************************************************************************)
(* What is shown side by side is about one run, the selected one, whatever *)
(* order responses arrive in: otherwise an answer would be given to a      *)
(* moment of another run than the one on the screen.  The final manifest,  *)
(* which loadArtifact shows whatever was selected meanwhile                *)
(* (App.tsx:1411-1421), is outside the model.                              *)
(***************************************************************************)
ShownTogether ==
    /\ view.replay \in {Nothing, view.selected}
    /\ view.moments \in {Nothing, view.replay}
    /\ view.interactions.run \in {Nothing, view.moments}
    /\ view.build.run \in {Nothing, view.replay}
    /\ view.ready => view.interactions.run = view.moments

(***************************************************************************)
(* Within one view recorded answers do not disappear from the screen again *)
(* because an earlier response was slower.                                 *)
(***************************************************************************)
AnswersStayShown ==
    [][view'.number = view.number /\ view'.interactions.run = view.interactions.run =>
          view.interactions.seen \subseteq view'.interactions.seen]_viewerVars

(***************************************************************************)
(* The same of the build replay, as preferNewerBuildReplay and its test    *)
(* say.                                                                    *)
(***************************************************************************)
BuildReplayStaysNewest ==
    [][view'.number = view.number /\ view'.build.run = view.build.run =>
          view.build.seen \subseteq view'.build.seen]_viewerVars

=============================================================================
