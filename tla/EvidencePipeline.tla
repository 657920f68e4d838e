---------------------------- MODULE EvidencePipeline ----------------------------
(***************************************************************************)
(* The daemon's serialized pump and startup recovery over one SQLite       *)
(* file: lifecycle, normalization, Git baseline, Git reconciliation,       *)
(* finalization and classification, with ingress accepting receipts in     *)
(* between and the process crashing anywhere.                              *)
(*                                                                         *)
(* One step is one SQLite transaction or the listing that opens a stage.   *)
(* The lifecycle and normalization stages never yield to the event loop,   *)
(* so no request is served while they run; the other stages await Git or   *)
(* the artifact store.  Everything but `process` state survives a crash.   *)
(***************************************************************************)
EXTENDS Lifecycle, Sequences, FiniteSetsExt

CONSTANTS
    LifecycleBatch, NormalizationBatch,       \* 100 in the code
    BaselineBatch, ReconciliationBatch,       \* 25 in the code
    FinalizationBatch, RecoveryBatch,         \* 25 in the code
    ClassificationBatch,                      \* 25 in the code
    MaxCrashes                                \* crashes of the daemon (bound)

ASSUME PipelineConstants ==
    /\ {LifecycleBatch, NormalizationBatch, BaselineBatch, ReconciliationBatch,
        FinalizationBatch, RecoveryBatch, ClassificationBatch} \subseteq Nat \ {0}
    /\ MaxCrashes \in Nat

VARIABLES
    normalization,    \* receipt_event_normalizations.outcome
    events,           \* events of each run in sequence order
    baseline,         \* git_baselines.outcome of each run
    reconciliation,   \* git_reconciliations.outcome, by the receipt of the trigger event
    gaps,             \* evidence_gaps of each run, also task_runs.evidence_gap_count
    finalization,     \* run_finalizations
    classified,       \* runs whose change classification is linked
    stage,            \* process: what the daemon is doing
    batch,            \* process: ids listed by the stage and not yet worked off
    preflight,        \* process: what finalization read before its transaction
    cutoff,           \* process: startedAt, the staleness cutoff of recovery
    crashes

rowVars     == <<normalization, events, baseline, reconciliation, gaps,
                 finalization, classified>>
processVars == <<stage, batch, preflight, cutoff>>
vars        == <<lifecycleVars, rowVars, processVars, crashes>>

-----------------------------------------------------------------------------
(* Rows *)

NoReceipt == 0   \* a trigger event is named by the receipt it was normalized from

TriggerHooks == {"PostToolBatch"} \cup StopHooks
StopEvents   == {"run.stop_observed", "run.stop_failed"}

EventsOfHook == [h \in HookNames |->
    CASE h = "UserPromptSubmit" -> <<"run.started", "user.prompt_submitted">>
      [] h = "PreToolUse"       -> <<"tool.requested">>
      [] h = "PostToolBatch"    -> <<"tool.batch_completed">>
      [] h = "Stop"             -> <<"run.stop_observed", "run.finalization_started">>
      [] h = "StopFailure"      -> <<"run.stop_failed", "run.finalization_started">>
      [] OTHER                  -> <<>>]   \* conversation events carry no run

TerminalEvent == [v \in Terminal |->
    CASE v = "Completed" -> "run.completed" [] v = "Partial" -> "run.partial"
      [] v = "Failed" -> "run.failed" [] OTHER -> "run.abandoned"]

EventTypes == {"run.started", "user.prompt_submitted", "tool.requested",
               "tool.batch_completed", "run.stop_observed", "run.stop_failed",
               "run.finalization_started", "snapshot.baseline_captured",
               "git.diff_computed", "snapshot.final_captured",
               "run.completed", "run.partial", "run.failed", "run.abandoned"}
Event(type, r) == [type |-> type, by |-> r]
EventRow       == [type: EventTypes, by: Receipts \cup {NoReceipt}]

FinalizationDiagnostics ==
    {"baseline_missing", "baseline_partial", "final_reconciliation_missing",
     "final_reconciliation_partial", "manifest_unavailable", "existing_evidence_gaps",
     "source_stop_failure", "stale_capturing_recovered", "stale_finalizing_recovered"}

Outcomes == {None, "captured", "partial"}

FinalizationRow == [status: Terminal \cup {None}, mode: {None, "normal", "recovery"},
                    diagnostic: FinalizationDiagnostics \cup {None},
                    trigger: Receipts \cup {NoReceipt}, reconciled: BOOLEAN,
                    manifest: BOOLEAN, finalizedAt: Nat]
NoFinalization  == [status |-> None, mode |-> None, diagnostic |-> None,
                    trigger |-> NoReceipt, reconciled |-> FALSE,
                    manifest |-> FALSE, finalizedAt |-> 0]

PreflightRow == [run: Receipts \cup {NoRun}, trigger: Receipts \cup {NoReceipt},
                 reconciled: BOOLEAN, manifest: BOOLEAN]
NoPreflight  == [run |-> NoRun, trigger |-> NoReceipt,
                 reconciled |-> FALSE, manifest |-> FALSE]

Stages == {"down", "starting", "recovery", "lifecycle", "normalization", "baseline",
           "reconciliation", "finalization", "classification", "idle"}

TypeOK ==
    /\ LifecycleTypeOK
    /\ normalization \in [Receipts -> {None, "normalized", "skipped", "failed"}]
    /\ events \in [Receipts -> Seq(EventRow)]
    /\ baseline \in [Receipts -> Outcomes]
    /\ reconciliation \in [Receipts -> Outcomes]
    /\ gaps \in [Receipts -> Nat]
    /\ finalization \in [Receipts -> FinalizationRow]
    /\ classified \subseteq Receipts
    /\ stage \in Stages
    /\ batch \subseteq Receipts
    /\ preflight \in PreflightRow
    /\ cutoff \in Nat
    /\ crashes \in 0 .. MaxCrashes

Init ==
    /\ LifecycleInit
    /\ normalization = [r \in Receipts |-> None]
    /\ events = [q \in Receipts |-> <<>>]
    /\ baseline = [q \in Receipts |-> None]
    /\ reconciliation = [r \in Receipts |-> None]
    /\ gaps = [q \in Receipts |-> 0]
    /\ finalization = [q \in Receipts |-> NoFinalization]
    /\ classified = {}
    /\ stage = "down"
    /\ batch = {}
    /\ preflight = NoPreflight
    /\ cutoff = 0
    /\ crashes = 0

-----------------------------------------------------------------------------
(* What each stage lists, and in which order                               *)

Runs == {q \in Receipts : run[q].status # None}

Resolved == {r \in Receipts : resolution[r].outcome # None}

Finalized == {q \in Runs : finalization[q].status # None}

ConversationOf(q) == conversation[run[q].session]

PendingTriggers ==
    {r \in Receipts : /\ normalization[r] = "normalized"
                      /\ receipt[r].hook \in TriggerHooks
                      /\ reconciliation[r] = None}

StaleRuns == {q \in Runs : /\ run[q].status \in Active
                           /\ ConversationOf(q).lastObserved < cutoff}

Eligible(s) ==
    CASE s = "lifecycle"      -> Pending
      [] s = "normalization"  -> {r \in Resolved : normalization[r] = None}
      [] s = "baseline"       -> {q \in Runs : baseline[q] = None}
      [] s = "reconciliation" -> PendingTriggers
      [] s = "finalization"   -> {q \in Runs : /\ run[q].status = "Finalizing"
                                               /\ finalization[q].status = None}
      [] s = "classification" -> Finalized \ classified
      [] s = "recovery"       -> StaleRuns
      [] OTHER                -> {}

(* Mutant: every stage lists one row. *)
LimitOne(s) == 1

Limit(s) ==
    CASE s = "lifecycle"      -> LifecycleBatch
      [] s = "normalization"  -> NormalizationBatch
      [] s = "baseline"       -> BaselineBatch
      [] s = "reconciliation" -> ReconciliationBatch
      [] s = "finalization"   -> FinalizationBatch
      [] s = "classification" -> ClassificationBatch
      [] OTHER                -> RecoveryBatch

(***************************************************************************)
(* The ORDER BY of each listing: created_at, then the random receipt id;   *)
(* resolved_at, then the random receipt id; ingested_at of a trigger,      *)
(* which is the created_at of its receipt, then its sequence in the run;   *)
(* finalized_at; last_observed_at or started_at, then the run number       *)
(* within a conversation.  Rows that tie on a random conversation, run or  *)
(* event id come in any order.                                             *)
(***************************************************************************)
EarlierRun(i, j) == run[i].session = run[j].session /\ run[i].number < run[j].number

Sequence(r) == Min({k \in DOMAIN events[resolution[r].run] : events[resolution[r].run][k].by = r})

EarlierEvent(i, j) == resolution[i].run = resolution[j].run /\ Sequence(i) < Sequence(j)

Precedes(s, i, j) ==
    CASE s = "lifecycle"      -> Before(i, j)
      [] s = "normalization"  -> \/ resolution[i].resolvedAt < resolution[j].resolvedAt
                                 \/ /\ resolution[i].resolvedAt = resolution[j].resolvedAt
                                    /\ idRank[i] < idRank[j]
      [] s = "reconciliation" -> \/ receipt[i].createdAt < receipt[j].createdAt
                                 \/ /\ receipt[i].createdAt = receipt[j].createdAt
                                    /\ EarlierEvent(i, j)
      [] s = "classification" -> finalization[i].finalizedAt < finalization[j].finalizedAt
      [] s = "recovery"       ->
            \/ ConversationOf(i).lastObserved < ConversationOf(j).lastObserved
            \/ EarlierRun(i, j)
      [] OTHER                ->
            \/ receipt[i].receivedAt < receipt[j].receivedAt
            \/ receipt[i].receivedAt = receipt[j].receivedAt /\ EarlierRun(i, j)

IsListing(T, s) ==
    /\ T \subseteq Eligible(s)
    /\ Cardinality(T) <= Limit(s)
    /\ T = Eligible(s) \/ Cardinality(T) = Limit(s)
    /\ \A i \in T, j \in Eligible(s) \ T : ~Precedes(s, j, i)

(* Mutant: the listing comes unordered. *)
IsAnyInBatch(s, i) == stage = s /\ i \in batch

IsNextInBatch(s, i) ==
    /\ stage = s
    /\ i \in batch
    /\ \A j \in batch : ~Precedes(s, j, i)

(* Mutants: finalization runs before normalization; it does not run at all. *)
SealingFirst == [starting |-> "recovery", recovery |-> "lifecycle",
                 lifecycle |-> "finalization", finalization |-> "normalization",
                 normalization |-> "baseline", baseline |-> "reconciliation",
                 reconciliation |-> "classification",
                 classification |-> "idle", idle |-> "lifecycle"]
NeverSealing == [starting |-> "recovery", recovery |-> "lifecycle",
                 lifecycle |-> "normalization", normalization |-> "baseline",
                 baseline |-> "reconciliation", reconciliation |-> "classification",
                 classification |-> "idle", idle |-> "lifecycle"]

NextStage == [starting |-> "recovery", recovery |-> "lifecycle",
              lifecycle |-> "normalization", normalization |-> "baseline",
              baseline |-> "reconciliation", reconciliation |-> "finalization",
              finalization |-> "classification",
              classification |-> "idle", idle |-> "lifecycle"]

-----------------------------------------------------------------------------
(* The process *)

(***************************************************************************)
(* Startup reads the clock before it listens.  The cutoff lies after every *)
(* created_at the previous process wrote.                                  *)
(***************************************************************************)
Boot ==
    /\ stage = "down"
    /\ stage' = "starting"
    /\ cutoff' = createdClock + 1
    /\ createdClock' = createdClock + 1
    /\ UNCHANGED <<receipt, resolution, conversation, run, idRank, resolvedClock,
                   failures, rowVars, batch, preflight, crashes>>

(***************************************************************************)
(* The stage in progress has nothing left; the next one takes its listing. *)
(***************************************************************************)
Advance ==
    /\ stage \in DOMAIN NextStage
    /\ batch = {}
    /\ stage' = NextStage[stage]
    /\ \E T \in SUBSET Eligible(NextStage[stage]) :
        /\ IsListing(T, NextStage[stage])
        /\ batch' = T
    /\ cutoff' = IF stage = "recovery" THEN 0 ELSE cutoff
    /\ UNCHANGED <<lifecycleVars, rowVars, preflight, crashes>>

(***************************************************************************)
(* The whole database survives; a graceful stop is a crash that happens    *)
(* between two transactions of the pump.                                   *)
(***************************************************************************)
Crash ==
    /\ stage # "down"
    /\ crashes < MaxCrashes
    /\ crashes' = crashes + 1
    /\ stage' = "down"
    /\ batch' = {}
    /\ preflight' = NoPreflight
    /\ cutoff' = 0
    /\ UNCHANGED <<lifecycleVars, rowVars>>

(***************************************************************************)
(* An exception that escapes a stage ends the stage, and the cycle goes on *)
(* with the next one; during recovery it ends the process.                 *)
(***************************************************************************)
StageThrows ==
    /\ batch # {}
    /\ failures < MaxFailures
    /\ failures' = failures + 1
    /\ batch' = {}
    /\ preflight' = NoPreflight
    /\ IF stage = "recovery"
       THEN stage' = "down" /\ cutoff' = 0
       ELSE UNCHANGED <<stage, cutoff>>
    /\ UNCHANGED <<receipt, resolution, conversation, run, idRank, createdClock,
                   resolvedClock, rowVars, crashes>>

Ingress ==
    /\ stage \notin {"down", "lifecycle", "normalization"}
    /\ AcceptAny
    /\ UNCHANGED <<rowVars, processVars, crashes>>

WorkedOff(i) == batch' = batch \ {i}

-----------------------------------------------------------------------------
(* Rows that several stages write *)

AppendEvents(q, types, r) ==
    [events EXCEPT ![q] = @ \o [i \in 1 .. Len(types) |-> Event(types[i], r)]]

(***************************************************************************)
(* Reconcile Git at the trigger normalized from receipt r: partial when    *)
(* the baseline is absent or partial or the observation fails, and then    *)
(* with one more evidence gap.  The file events are folded into the        *)
(* summary event.                                                          *)
(***************************************************************************)
PersistReconciliation(r, observed) ==
    LET q == resolution[r].run
        outcome == IF baseline[q] = "captured" /\ observed THEN "captured" ELSE "partial" IN
    /\ reconciliation' = [reconciliation EXCEPT ![r] = outcome]
    /\ events' = AppendEvents(q, <<"git.diff_computed">>, r)
    /\ gaps' = [gaps EXCEPT ![q] = IF outcome = "partial" THEN @ + 1 ELSE @]

Reconciled(r) == r # NoReceipt /\ reconciliation[r] # None

StopIndices(q) == {i \in DOMAIN events[q] : events[q][i].type \in StopEvents}

(* Mutant: the first Stop instead of the last. *)
FirstStop(q) == IF StopIndices(q) = {} THEN NoReceipt
                ELSE events[q][Min(StopIndices(q))].by

LatestStop(q) == IF StopIndices(q) = {} THEN NoReceipt
                 ELSE events[q][Max(StopIndices(q))].by

(* Mutants: the gap of a faulty verdict is not recorded; it overwrites the count. *)
SealWithoutGap(q, expected, row, lastEvents) ==
    /\ TransitionToTerminal(q, expected, row.status)
    /\ events' = AppendEvents(q, lastEvents, NoReceipt)
    /\ finalization' = [finalization EXCEPT ![q] = row]
    /\ UNCHANGED gaps
SealResettingGaps(q, expected, row, lastEvents) ==
    /\ TransitionToTerminal(q, expected, row.status)
    /\ events' = AppendEvents(q, lastEvents, NoReceipt)
    /\ finalization' = [finalization EXCEPT ![q] = row]
    /\ gaps' = [gaps EXCEPT ![q] = IF row.diagnostic # None THEN 1 ELSE @]

(***************************************************************************)
(* The terminal transaction: terminal event, at most one new gap and only  *)
(* if the run has none, terminal status and the finalization row.          *)
(***************************************************************************)
Seal(q, expected, row, lastEvents) ==
    /\ TransitionToTerminal(q, expected, row.status)
    /\ events' = AppendEvents(q, lastEvents, NoReceipt)
    /\ gaps' = [gaps EXCEPT ![q] = IF row.diagnostic # None /\ @ = 0 THEN 1 ELSE @]
    /\ finalization' = [finalization EXCEPT ![q] = row]

Now == Cardinality(Finalized) + 1

-----------------------------------------------------------------------------
(* The stages *)

ResolveReceipt(r) ==
    /\ IsNextInBatch("lifecycle", r)
    /\ Resolve(r)
    /\ WorkedOff(r)
    /\ UNCHANGED <<rowVars, stage, preflight, cutoff, crashes>>

(***************************************************************************)
(* A failed resolution is skipped; an exception rolls the events back and  *)
(* is recorded as failed, never to be tried again.                         *)
(***************************************************************************)
NormalizeReceipt(r) ==
    /\ IsNextInBatch("normalization", r)
    /\ \/ /\ resolution[r].outcome = "failed"
          /\ normalization' = [normalization EXCEPT ![r] = "skipped"]
          /\ UNCHANGED <<events, failures>>
       \/ /\ resolution[r].outcome # "failed"
          /\ normalization' = [normalization EXCEPT ![r] = "normalized"]
          /\ events' = IF resolution[r].run = NoRun THEN events
                       ELSE AppendEvents(resolution[r].run, EventsOfHook[receipt[r].hook], r)
          /\ UNCHANGED failures
       \/ /\ failures < MaxFailures
          /\ failures' = failures + 1
          /\ normalization' = [normalization EXCEPT ![r] = "failed"]
          /\ UNCHANGED events
    /\ WorkedOff(r)
    /\ UNCHANGED <<receipt, resolution, conversation, run, idRank, createdClock,
                   resolvedClock, baseline, reconciliation, gaps, finalization,
                   classified, stage, preflight, cutoff, crashes>>

CaptureBaseline(q) ==
    /\ IsNextInBatch("baseline", q)
    /\ \E observed \in BOOLEAN :
        /\ baseline' = [baseline EXCEPT ![q] = IF observed THEN "captured" ELSE "partial"]
        /\ gaps' = [gaps EXCEPT ![q] = IF observed THEN @ ELSE @ + 1]
    /\ events' = AppendEvents(q, <<"snapshot.baseline_captured">>, NoReceipt)
    /\ WorkedOff(q)
    /\ UNCHANGED <<lifecycleVars, normalization, reconciliation, finalization,
                   classified, stage, preflight, cutoff, crashes>>

ReconcileTrigger(r) ==
    /\ IsNextInBatch("reconciliation", r)
    /\ \E observed \in BOOLEAN : PersistReconciliation(r, observed)
    /\ WorkedOff(r)
    /\ UNCHANGED <<lifecycleVars, normalization, baseline, finalization, classified,
                   stage, preflight, cutoff, crashes>>

(* Mutant: the final reconciliation is announced but not written. *)
PreflightWithoutReconciliation(q) ==
    /\ stage \in {"finalization", "recovery"}
    /\ IsNextInBatch(stage, q)
    /\ preflight = NoPreflight
    /\ run[q].status = "Finalizing"
    /\ preflight' = [run |-> q, trigger |-> LatestStop(q),
                     reconciled |-> TRUE, manifest |-> FALSE]
    /\ UNCHANGED <<lifecycleVars, rowVars, stage, batch, cutoff, crashes>>

(***************************************************************************)
(* Outside the terminal transaction finalization reads the latest Stop     *)
(* event, reconciles it if nobody has, and stores the final manifest,      *)
(* which may turn out to be unavailable.                                   *)
(***************************************************************************)
PreparePreflight(q) ==
    LET trigger == LatestStop(q) IN
    /\ stage \in {"finalization", "recovery"}
    /\ IsNextInBatch(stage, q)
    /\ preflight = NoPreflight
    /\ run[q].status = "Finalizing"
    /\ \/ /\ trigger = NoReceipt
          /\ preflight' = [NoPreflight EXCEPT !.run = q]
          /\ UNCHANGED <<reconciliation, events, gaps>>
       \/ /\ trigger # NoReceipt
          /\ IF reconciliation[trigger] = None
             THEN \E observed \in BOOLEAN : PersistReconciliation(trigger, observed)
             ELSE UNCHANGED <<reconciliation, events, gaps>>
          /\ \E stored \in BOOLEAN :
                preflight' = [run |-> q, trigger |-> trigger,
                              reconciled |-> TRUE, manifest |-> stored]
    /\ UNCHANGED <<lifecycleVars, normalization, baseline, finalization, classified,
                   stage, batch, cutoff, crashes>>

(***************************************************************************)
(* The first fault found decides.  A captured reconciliation always has a  *)
(* fingerprint, so final_fingerprint_missing does not occur.               *)
(***************************************************************************)
NormalDiagnostic(q) ==
    IF preflight.trigger # NoReceipt /\ receipt[preflight.trigger].hook = "StopFailure"
    THEN "source_stop_failure"
    ELSE IF baseline[q] = None THEN "baseline_missing"
    ELSE IF baseline[q] = "partial" THEN "baseline_partial"
    ELSE IF ~preflight.reconciled THEN "final_reconciliation_missing"
    ELSE IF reconciliation[preflight.trigger] = "partial" THEN "final_reconciliation_partial"
    ELSE IF ~preflight.manifest THEN "manifest_unavailable"
    ELSE IF gaps[q] > 0 THEN "existing_evidence_gaps" ELSE None

Verdict(diagnostic) ==
    CASE diagnostic = None -> "Completed"
      [] diagnostic = "source_stop_failure" -> "Failed"
      [] OTHER -> "Partial"

PersistFinalization(q) ==
    LET recovery   == stage = "recovery"
        diagnostic == IF recovery THEN "stale_finalizing_recovered" ELSE NormalDiagnostic(q)
        verdict    == Verdict(diagnostic) IN
    /\ preflight.run = q
    /\ finalization[q].status = None
    /\ recovery => q \in StaleRuns
    /\ preflight.trigger = LatestStop(q)
    /\ preflight.reconciled = Reconciled(preflight.trigger)
    /\ Seal(q, "Finalizing",
            [status |-> verdict, mode |-> IF recovery THEN "recovery" ELSE "normal",
             diagnostic |-> diagnostic, trigger |-> preflight.trigger,
             reconciled |-> preflight.reconciled, manifest |-> preflight.manifest,
             finalizedAt |-> Now],
            (IF preflight.reconciled THEN <<"snapshot.final_captured">> ELSE <<>>)
                \o <<TerminalEvent[verdict]>>)
    /\ preflight' = NoPreflight
    /\ WorkedOff(q)
    /\ UNCHANGED <<receipt, resolution, conversation, idRank, createdClock, resolvedClock,
                   failures, normalization, baseline, reconciliation, classified,
                   stage, cutoff, crashes>>

(* Mutant: the abandoned run gets no terminal event. *)
RecoverWithoutEvent(q) ==
    /\ IsNextInBatch("recovery", q)
    /\ q \in StaleRuns
    /\ Seal(q, "Capturing",
            [NoFinalization EXCEPT !.status = "Abandoned", !.mode = "recovery",
                                   !.diagnostic = "stale_capturing_recovered",
                                   !.finalizedAt = Now], <<>>)
    /\ WorkedOff(q)
    /\ UNCHANGED <<receipt, resolution, conversation, idRank, createdClock, resolvedClock,
                   failures, normalization, baseline, reconciliation, classified,
                   stage, preflight, cutoff, crashes>>

RecoverCapturing(q) ==
    /\ IsNextInBatch("recovery", q)
    /\ q \in StaleRuns
    /\ StopIndices(q) = {}
    /\ Seal(q, "Capturing",
            [NoFinalization EXCEPT !.status = "Abandoned", !.mode = "recovery",
                                   !.diagnostic = "stale_capturing_recovered",
                                   !.finalizedAt = Now],
            <<TerminalEvent["Abandoned"]>>)
    /\ WorkedOff(q)
    /\ UNCHANGED <<receipt, resolution, conversation, idRank, createdClock, resolvedClock,
                   failures, normalization, baseline, reconciliation, classified,
                   stage, preflight, cutoff, crashes>>

-----------------------------------------------------------------------------
(***************************************************************************)
(* What run_finalizations.getByRun checks on every read; a row that fails  *)
(* it is reported as corrupt (invalid_persisted_row).                      *)
(***************************************************************************)
TerminalIndices(q) ==
    {i \in DOMAIN events[q] : events[q][i].type \in {TerminalEvent[v] : v \in Terminal}}

Readable(q) ==
    LET row == finalization[q] IN
    /\ run[q].status = row.status
    /\ row.status = "Completed" <=> gaps[q] = 0
    /\ row.trigger = LatestStop(q)
    /\ \E i \in TerminalIndices(q) : events[q][i].type = TerminalEvent[row.status]

(***************************************************************************)
(* Classification reads the finalization of each listed run.  An           *)
(* unreadable one throws, and the rest of the listing is not looked at.    *)
(***************************************************************************)
ClassifyRun(q) ==
    /\ IsNextInBatch("classification", q)
    /\ \/ /\ Readable(q)
          /\ classified' = classified \cup {q}
          /\ WorkedOff(q)
       \/ /\ ~Readable(q)
          /\ batch' = {}
          /\ UNCHANGED classified
    /\ UNCHANGED <<lifecycleVars, normalization, events, baseline, reconciliation, gaps,
                   finalization, stage, preflight, cutoff, crashes>>

Work ==
    \/ Advance
    \/ \E i \in batch :
        \/ ResolveReceipt(i) \/ NormalizeReceipt(i)
        \/ CaptureBaseline(i) \/ ReconcileTrigger(i)
        \/ PreparePreflight(i) \/ PersistFinalization(i) \/ RecoverCapturing(i)
        \/ ClassifyRun(i)

Next == Boot \/ Work \/ Ingress \/ Crash \/ StageThrows

Safety == Init /\ [][Next]_vars

(***************************************************************************)
(* The pump loops until the process ends, and somebody starts the daemon   *)
(* again after a crash.  Exactly one of the two can happen in any state.   *)
(***************************************************************************)
Spec == Safety /\ WF_vars(Boot \/ Work)
-----------------------------------------------------------------------------
(* Safety *)

(***************************************************************************)
(* recoverCapturing throws on a Capturing run that has a Stop event, which *)
(* would keep the daemon from ever starting again.  The Stop leaves        *)
(* Capturing in an earlier transaction than its event, so no crash point   *)
(* may show the event without the transition.                              *)
(***************************************************************************)
CapturingHasNoStop ==
    \A q \in Runs : run[q].status = "Capturing" => StopIndices(q) = {}

(***************************************************************************)
(* What finalization read before its awaits still holds when its           *)
(* transaction runs, so the re-checks that would throw there (status,      *)
(* Stop boundary, reconciliation, staleness) never do.                     *)
(***************************************************************************)
PreflightStillCurrent ==
    LET q == preflight.run IN
    q # NoRun =>
        /\ run[q].status = "Finalizing"
        /\ finalization[q].status = None
        /\ preflight.trigger = LatestStop(q)
        /\ preflight.reconciled = Reconciled(preflight.trigger)
        /\ stage = "recovery" => q \in StaleRuns

(***************************************************************************)
(* A run is sealed once: it has a terminal event exactly if it has a       *)
(* finalization row, never two, and it carries that row's verdict.  Runs   *)
(* abandoned by a prompt or a session end have neither.                    *)
(***************************************************************************)
SealedOnce ==
    \A q \in Runs :
        /\ Cardinality(TerminalIndices(q)) = IF finalization[q].status = None THEN 0 ELSE 1
        /\ finalization[q].status # None =>
              /\ run[q].status = finalization[q].status
              /\ \A i \in TerminalIndices(q) :
                    events[q][i].type = TerminalEvent[finalization[q].status]

(***************************************************************************)
(* Once recovery is through its listing no stale run is left active, so    *)
(* the pump never mixes activity into a run of an earlier process (as long *)
(* as the stale runs fit into one recovery batch).                         *)
(***************************************************************************)
RecoveryIsComplete ==
    stage = "recovery" /\ batch = {} => StaleRuns = {}

(***************************************************************************)
(* Every finalization can be read back (getByRun): no gap, Stop or status  *)
(* arrives after the verdict that contradicts it.                          *)
(***************************************************************************)
FinalizationsReadable == \A q \in Finalized : Readable(q)

(***************************************************************************)
(* A normal verdict is the answer to the last Stop the run was given:      *)
(* its trigger is the Stop receipt resolved last, and the run failed       *)
(* exactly if that receipt reported a failure.                             *)
(***************************************************************************)
StopReceiptsOf(q) == {r \in Resolved : /\ receipt[r].hook \in StopHooks
                                       /\ resolution[r].run = q}

VerdictAnswersLastStop ==
    \A q \in Finalized : finalization[q].mode = "normal" =>
        LET t == finalization[q].trigger IN
        /\ t \in StopReceiptsOf(q)
        /\ \A r \in StopReceiptsOf(q) : resolution[r].resolvedAt <= resolution[t].resolvedAt
        /\ run[q].status = "Failed" <=> receipt[t].hook = "StopFailure"

(***************************************************************************)
(* Within a run the events of the hooks stand in the order in which their  *)
(* receipts were resolved, and so in the order of the journal, up to       *)
(* receipts resolved within one millisecond: whatever batches, crashes and *)
(* failed normalizations come between, no receipt overtakes an older one   *)
(* that was resolved before it.                                            *)
(***************************************************************************)
IsSourceEvent(e) == \E h \in HookNames : \E i \in DOMAIN EventsOfHook[h] :
                        EventsOfHook[h][i] = e.type

EventsFollowResolution ==
    \A q \in Runs : \A i, j \in DOMAIN events[q] :
        (i < j /\ IsSourceEvent(events[q][i]) /\ IsSourceEvent(events[q][j])) =>
            LET a == events[q][i].by
                b == events[q][j].by
            IN  \/ resolution[a].resolvedAt = resolution[b].resolvedAt
                \/ /\ resolution[a].resolvedAt < resolution[b].resolvedAt
                   /\ receipt[a].createdAt <= receipt[b].createdAt

(***************************************************************************)
(* "Run ordering follows durable receipt processing order": the lifecycle  *)
(* processor takes an older receipt first, so its events come first.  The  *)
(* code does not keep this for receipts it resolves in one millisecond.    *)
(***************************************************************************)
EventsFollowProcessingOrder ==
    \A q \in Runs : \A i, j \in DOMAIN events[q] :
        (i < j /\ IsSourceEvent(events[q][i]) /\ IsSourceEvent(events[q][j]))
            => receipt[events[q][i].by].createdAt <= receipt[events[q][j].by].createdAt

(***************************************************************************)
(* Source activity stops at the verdict: only derived events may follow    *)
(* the terminal one.                                                       *)
(***************************************************************************)
NoSourceEventAfterSeal ==
    \A q \in Finalized : \A i \in TerminalIndices(q), j \in DOMAIN events[q] :
        i < j => ~IsSourceEvent(events[q][j])

-----------------------------------------------------------------------------
(* Action properties *)

(***************************************************************************)
(* Finalization rows are immutable, evidence gaps are never withdrawn and  *)
(* run events are only appended: across crashes, retries and late stages.  *)
(***************************************************************************)
EvidenceOnlyGrows ==
    [][\A q \in Receipts :
        /\ finalization[q].status # None => finalization'[q] = finalization[q]
        /\ gaps'[q] >= gaps[q]
        /\ Len(events'[q]) >= Len(events[q])
        /\ SubSeq(events'[q], 1, Len(events[q])) = events[q]]_vars

-----------------------------------------------------------------------------
(* Liveness *)

(***************************************************************************)
(* Every stopped run gets its verdict, whatever crashes and stage failures *)
(* happen on the way.                                                      *)
(***************************************************************************)
EveryStopGetsAVerdict ==
    \A q \in Receipts : run[q].status = "Finalizing" ~> run[q].status \in Terminal

(***************************************************************************)
(* The journal is a queue that drains: every accepted receipt gets its     *)
(* resolution, however many newer ones keep arriving and wherever the      *)
(* daemon crashes.                                                         *)
(***************************************************************************)
EveryReceiptResolved ==
    \A r \in Receipts : receipt[r].status = "pending" ~> resolution[r].outcome # None
=============================================================================
