------------------------------- MODULE Lifecycle -------------------------------
(***************************************************************************)
(* The ingress journal and the lifecycle processor of the OwnLoop daemon:  *)
(* hook receipts become Agent Conversations and Task Runs.                 *)
(*                                                                         *)
(* Every receipt is worked off in one SQLite transaction, so one step of   *)
(* Resolve is the whole transaction: workspace, conversation, run,         *)
(* resolution row and receipt status move together.  A crash between two   *)
(* transactions leaves exactly the state between two steps.                *)
(***************************************************************************)
EXTENDS Naturals, FiniteSets

CONSTANTS
    MaxReceipts,   \* receipts the hook adapter delivers (bound)
    Sessions,      \* Claude Code session ids
    Workspaces,    \* canonical workspace paths
    Hooks,         \* the hook events that occur, a subset of HookNames
    ClockSteps,    \* how far the millisecond clock moves between two readings
    Delay,         \* how long before the journal write the adapter stamped each hook
    IdOrders,      \* the ways the random receipt ids may sort
    MaxFailures    \* unexpected exceptions (bound)

(***************************************************************************)
(* PreToolUse stands for PreToolUse, PostToolUse and PostToolUseFailure,   *)
(* which the processor treats alike.                                       *)
(***************************************************************************)
HookNames == {"SessionStart", "UserPromptSubmit", "PreToolUse", "PostToolBatch",
              "Stop", "StopFailure", "SessionEnd"}
ToolHooks == {"PreToolUse", "PostToolBatch"}
StopHooks == {"Stop", "StopFailure"}

Receipts == 1 .. MaxReceipts   \* a receipt is named by its place in the journal
NoRun    == 0                  \* a run is named by the prompt that started it
None     == "none"

ASSUME LifecycleConstants ==
    /\ MaxReceipts \in Nat
    /\ MaxFailures \in Nat
    /\ Hooks \subseteq HookNames
    /\ ClockSteps \subseteq Nat
    /\ Delay \in [Receipts -> Nat]
    /\ IdOrders \subseteq [Receipts -> Receipts]
    /\ \A order \in IdOrders : \A a, b \in Receipts : order[a] = order[b] => a = b
    /\ None \notin Sessions /\ None \notin Workspaces

VARIABLES
    receipt,        \* ingress_receipts
    resolution,     \* receipt_lifecycle_resolutions
    conversation,   \* agent_conversations, one per session
    run,            \* task_runs
    idRank,         \* the rank of each receipt's random id, fixed for good
    createdClock,   \* last created_at written to the journal
    resolvedClock,  \* last resolved_at written to a resolution
    failures        \* exceptions so far

lifecycleVars == <<receipt, resolution, conversation, run, idRank,
                   createdClock, resolvedClock, failures>>

-----------------------------------------------------------------------------
(* Rows *)

Terminal  == {"Completed", "Partial", "Failed", "Abandoned"}
Active    == {"Capturing", "Finalizing"}
RunStatus == Active \cup Terminal

Diagnostics == {"conversation_workspace_conflict", "conversation_ended",
                "no_active_run", "lifecycle_processing_failed"}

ReceiptRow == [session: Sessions \cup {None}, workspace: Workspaces \cup {None},
               hook: HookNames \cup {None}, receivedAt: Nat, createdAt: Nat,
               status: {None, "pending", "processed", "failed"}]
ResolutionRow == [outcome: {None, "applied", "associated", "failed"},
                  diagnostic: Diagnostics \cup {None},
                  run: Receipts \cup {NoRun}, resolvedAt: Nat]
ConversationRow == [status: {None, "Active", "Ended"},
                    workspace: Workspaces \cup {None}, lastObserved: Nat]
RunRow == [status: RunStatus \cup {None}, session: Sessions \cup {None},
           number: Nat, stopReason: {None, "stop", "error", "superseded", "ended"}]

LifecycleTypeOK ==
    /\ receipt \in [Receipts -> ReceiptRow]
    /\ resolution \in [Receipts -> ResolutionRow]
    /\ conversation \in [Sessions -> ConversationRow]
    /\ run \in [Receipts -> RunRow]
    /\ idRank \in [Receipts -> Receipts]
    /\ createdClock \in Nat
    /\ resolvedClock \in Nat
    /\ failures \in 0 .. MaxFailures

LifecycleInit ==
    /\ receipt = [r \in Receipts |->
            [session |-> None, workspace |-> None, hook |-> None,
             receivedAt |-> 0, createdAt |-> 0, status |-> None]]
    /\ resolution = [r \in Receipts |->
            [outcome |-> None, diagnostic |-> None, run |-> NoRun, resolvedAt |-> 0]]
    /\ conversation = [s \in Sessions |->
            [status |-> None, workspace |-> None, lastObserved |-> 0]]
    /\ run = [q \in Receipts |->
            [status |-> None, session |-> None, number |-> 0, stopReason |-> None]]
    /\ idRank \in IdOrders
    /\ createdClock = 0
    /\ resolvedClock = 0
    /\ failures = 0

-----------------------------------------------------------------------------
(* Queries *)

(***************************************************************************)
(* ORDER BY created_at ASC, receipt_id ASC.                                *)
(***************************************************************************)
Before(a, b) ==
    \/ receipt[a].createdAt < receipt[b].createdAt
    \/ /\ receipt[a].createdAt = receipt[b].createdAt
       /\ idRank[a] < idRank[b]

Pending == {r \in Receipts : receipt[r].status = "pending"}

OldestPending(r) == /\ r \in Pending
                    /\ \A p \in Pending \ {r} : Before(r, p)

RunsOf(s)     == {q \in Receipts : run[q].status # None /\ run[q].session = s}
ActiveRuns(s) == {q \in RunsOf(s) : run[q].status \in Active}

(* Mutant: the lookup forgets which statuses are active. *)
IsLatestOfAny(q, s) == q \in RunsOf(s) /\ \A p \in RunsOf(s) : run[p].number <= run[q].number

(* Mutant: the lookup sorts ascending. *)
IsOldestActive(q, s) == q \in ActiveRuns(s) /\ \A p \in ActiveRuns(s) : run[q].number <= run[p].number

IsLatestActive(q, s) == /\ q \in ActiveRuns(s)
                        /\ \A p \in ActiveRuns(s) : run[p].number <= run[q].number

IsNextNumber(n, s) == /\ \A q \in RunsOf(s) : run[q].number < n
                      /\ n = 1 \/ \E q \in RunsOf(s) : run[q].number = n - 1

(* Mutant: the update matches no row. *)
AbandonNothing(s, reason) == run

(***************************************************************************)
(* UPDATE task_runs SET status = 'Abandoned' WHERE status = 'Capturing'.   *)
(***************************************************************************)
AbandonCapturing(s, reason) ==
    [q \in Receipts |->
        IF q \in RunsOf(s) /\ run[q].status = "Capturing"
        THEN [run[q] EXCEPT !.status = "Abandoned", !.stopReason = reason]
        ELSE run[q]]

(* Mutant: the status is left behind. *)
RecordStopOnly(q, hook) == [run EXCEPT ![q].stopReason = "stop"]

(***************************************************************************)
(* A reported failure overwrites the reason; 'stop' only fills a null.     *)
(***************************************************************************)
TransitionToFinalizing(q, hook) ==
    [run EXCEPT ![q].status = "Finalizing",
                ![q].stopReason = IF hook = "StopFailure" THEN "error"
                                  ELSE IF @ = None THEN "stop" ELSE @]

-----------------------------------------------------------------------------
(* Ingress *)

(***************************************************************************)
(* An authenticated hook request that is not a duplicate is journalled as  *)
(* pending.  A duplicate delivery inserts nothing and is a stutter here.   *)
(* received_at was stamped by the adapter's process, created_at by ours.   *)
(***************************************************************************)
StampedAt(r, t) == IF Delay[r] < t THEN t - Delay[r] ELSE 0

Accept(r, s, w, h, d) ==
    /\ receipt[r].status = None
    /\ \A p \in 1 .. r - 1 : receipt[p].status # None
    /\ receipt' = [receipt EXCEPT ![r] =
            [session |-> s, workspace |-> w, hook |-> h,
             receivedAt |-> StampedAt(r, createdClock + d),
             createdAt |-> createdClock + d, status |-> "pending"]]
    /\ createdClock' = createdClock + d
    /\ UNCHANGED <<resolution, conversation, run, idRank, resolvedClock, failures>>

AcceptAny ==
    \E r \in Receipts, s \in Sessions, w \in Workspaces, h \in Hooks, d \in ClockSteps :
        Accept(r, s, w, h, d)

-----------------------------------------------------------------------------
(* The lifecycle transaction of receipt r, resolved_at moving d *)

RecordResolution(r, d, outcome, diagnostic, q) ==
    /\ resolution' = [resolution EXCEPT ![r] =
            [outcome |-> outcome, diagnostic |-> diagnostic, run |-> q,
             resolvedAt |-> resolvedClock + d]]
    /\ resolvedClock' = resolvedClock + d
    /\ receipt' = [receipt EXCEPT ![r].status =
            IF outcome = "failed" THEN "failed" ELSE "processed"]
    /\ UNCHANGED <<idRank, createdClock>>

SessionOf(r) == receipt[r].session

WorkspaceConflict(r) ==
    /\ conversation[SessionOf(r)].status # None
    /\ conversation[SessionOf(r)].workspace # receipt[r].workspace

RefusedAsEnded(r) ==
    /\ conversation[SessionOf(r)].status = "Ended"
    /\ receipt[r].hook \notin {"SessionStart", "SessionEnd"}

Admissible(r) == ~WorkspaceConflict(r) /\ ~RefusedAsEnded(r)

(***************************************************************************)
(* Insert, reactivate, end or touch: last_observed_at never moves back.    *)
(***************************************************************************)
ObserveConversation(r, status) ==
    conversation' = [conversation EXCEPT ![SessionOf(r)] =
        [status       |-> status,
         workspace    |-> receipt[r].workspace,
         lastObserved |-> IF @.lastObserved < receipt[r].receivedAt
                          THEN receipt[r].receivedAt ELSE @.lastObserved]]

RejectReceipt(r, d) ==
    /\ \/ /\ WorkspaceConflict(r)
          /\ RecordResolution(r, d, "failed", "conversation_workspace_conflict", NoRun)
       \/ /\ ~WorkspaceConflict(r)
          /\ RefusedAsEnded(r)
          /\ RecordResolution(r, d, "failed", "conversation_ended", NoRun)
    /\ UNCHANGED <<conversation, run, failures>>

StartSession(r, d) ==
    /\ receipt[r].hook = "SessionStart"
    /\ Admissible(r)
    /\ ObserveConversation(r, "Active")
    /\ RecordResolution(r, d,
            IF conversation[SessionOf(r)].status = "Active" THEN "associated" ELSE "applied",
            None, NoRun)
    /\ UNCHANGED <<run, failures>>

(***************************************************************************)
(* A prompt abandons what its conversation was capturing and starts the    *)
(* next run.                                                               *)
(***************************************************************************)
StartRun(r, d) ==
    LET s == SessionOf(r) IN
    /\ receipt[r].hook = "UserPromptSubmit"
    /\ Admissible(r)
    /\ ObserveConversation(r, "Active")
    /\ \E n \in Receipts :
        /\ IsNextNumber(n, s)
        /\ run' = [AbandonCapturing(s, "superseded") EXCEPT ![r] =
                [status |-> "Capturing", session |-> s, number |-> n, stopReason |-> None]]
    /\ RecordResolution(r, d, "applied", None, r)
    /\ UNCHANGED failures

JoinRun(r, d) ==
    /\ receipt[r].hook \in ToolHooks
    /\ Admissible(r)
    /\ ObserveConversation(r, "Active")
    /\ \E q \in Receipts : /\ IsLatestActive(q, SessionOf(r))
                           /\ RecordResolution(r, d, "associated", None, q)
    /\ UNCHANGED <<run, failures>>

(* Mutant: every Stop claims the transition. *)
StopRunAlwaysApplies(r, d) ==
    /\ receipt[r].hook \in StopHooks
    /\ Admissible(r)
    /\ ObserveConversation(r, "Active")
    /\ \E q \in Receipts :
        /\ IsLatestActive(q, SessionOf(r))
        /\ run' = TransitionToFinalizing(q, receipt[r].hook)
        /\ RecordResolution(r, d, "applied", None, q)
    /\ UNCHANGED failures

StopRun(r, d) ==
    /\ receipt[r].hook \in StopHooks
    /\ Admissible(r)
    /\ ObserveConversation(r, "Active")
    /\ \E q \in Receipts :
        /\ IsLatestActive(q, SessionOf(r))
        /\ run' = TransitionToFinalizing(q, receipt[r].hook)
        /\ RecordResolution(r, d,
                IF run[q].status = "Capturing" THEN "applied" ELSE "associated", None, q)
    /\ UNCHANGED failures

(* Mutant: activity of a conversation never seen before is not answered. *)
MissRunOfKnownSession(r, d) ==
    /\ receipt[r].hook \in ToolHooks \cup StopHooks
    /\ Admissible(r)
    /\ conversation[SessionOf(r)].status # None
    /\ ActiveRuns(SessionOf(r)) = {}
    /\ ObserveConversation(r, "Active")
    /\ RecordResolution(r, d, "failed", "no_active_run", NoRun)
    /\ UNCHANGED <<run, failures>>

(***************************************************************************)
(* Without an active run the receipt fails, but the conversation has been  *)
(* inserted or touched in the same transaction and stays so.               *)
(***************************************************************************)
MissRun(r, d) ==
    /\ receipt[r].hook \in ToolHooks \cup StopHooks
    /\ Admissible(r)
    /\ ActiveRuns(SessionOf(r)) = {}
    /\ ObserveConversation(r, "Active")
    /\ RecordResolution(r, d, "failed", "no_active_run", NoRun)
    /\ UNCHANGED <<run, failures>>

EndSession(r, d) ==
    LET s == SessionOf(r)
        alreadyEnded == conversation[s].status = "Ended" IN
    /\ receipt[r].hook = "SessionEnd"
    /\ Admissible(r)
    /\ ObserveConversation(r, "Ended")
    /\ run' = IF alreadyEnded THEN run ELSE AbandonCapturing(s, "ended")
    /\ RecordResolution(r, d, IF alreadyEnded THEN "associated" ELSE "applied", None, NoRun)
    /\ UNCHANGED failures

(***************************************************************************)
(* An unexpected exception rolls the transaction back; a second one only   *)
(* records that the receipt failed.                                        *)
(***************************************************************************)
FailReceipt(r, d) ==
    /\ failures < MaxFailures
    /\ failures' = failures + 1
    /\ RecordResolution(r, d, "failed", "lifecycle_processing_failed", NoRun)
    /\ UNCHANGED <<conversation, run>>

Resolve(r) ==
    /\ receipt[r].status = "pending"
    /\ \E d \in ClockSteps :
        \/ RejectReceipt(r, d)
        \/ StartSession(r, d)
        \/ StartRun(r, d)
        \/ JoinRun(r, d)
        \/ StopRun(r, d)
        \/ MissRun(r, d)
        \/ EndSession(r, d)
        \/ FailReceipt(r, d)

ResolveOldest == \E r \in Receipts : OldestPending(r) /\ Resolve(r)

-----------------------------------------------------------------------------
(* Mutant: the update does not compare the status. *)
TransitionUnchecked(q, expected, verdict) ==
    /\ run[q].status # None
    /\ run' = [run EXCEPT ![q].status = verdict]

(***************************************************************************)
(* Finalization and recovery move a run on with a compare-and-set on its   *)
(* status; they are the only other writers of task_runs.status.            *)
(***************************************************************************)
TransitionToTerminal(q, expected, verdict) ==
    /\ run[q].status = expected
    /\ run' = [run EXCEPT ![q].status = verdict]

SealRun ==
    /\ \E q \in Receipts :
        \/ \E verdict \in {"Completed", "Partial", "Failed"} :
               TransitionToTerminal(q, "Finalizing", verdict)
        \/ TransitionToTerminal(q, "Capturing", "Abandoned")
    /\ UNCHANGED <<receipt, resolution, conversation, idRank,
                   createdClock, resolvedClock, failures>>

LifecycleNext == AcceptAny \/ ResolveOldest \/ SealRun

LifecycleSafety == LifecycleInit /\ [][LifecycleNext]_lifecycleVars

-----------------------------------------------------------------------------
(* Properties *)

(***************************************************************************)
(* A conversation captures into one run at most, and that run is its       *)
(* newest: otherwise a tool receipt would be ambiguous (ADR-0008).  Stop,  *)
(* prompt, session end, reactivation and sealing all touch this.           *)
(***************************************************************************)
CapturesNewestRun ==
    \A s \in Sessions : \A q, p \in RunsOf(s) :
        run[q].status = "Capturing" => run[p].number <= run[q].number

(***************************************************************************)
(* Numbers order the runs of a conversation totally (UNIQUE in the table), *)
(* which is what makes "the latest active run" well defined.               *)
(***************************************************************************)
RunNumbersUnique ==
    \A s \in Sessions : \A q, p \in RunsOf(s) :
        run[q].number = run[p].number => q = p

(***************************************************************************)
(* An ended conversation captures nothing: SessionEnd abandons, and no     *)
(* later receipt may start or stop a run until SessionStart reactivates.   *)
(***************************************************************************)
EndedCapturesNothing ==
    \A s \in Sessions : conversation[s].status = "Ended" =>
        \A q \in RunsOf(s) : run[q].status # "Capturing"

(***************************************************************************)
(* A resolved receipt points into its own conversation, and a run leaves   *)
(* Capturing through a Stop for one receipt only: at most one Stop of a    *)
(* run is "applied", the rest are "associated".                            *)
(***************************************************************************)
OneStopApplies ==
    \A a, b \in Receipts :
        /\ resolution[a].run # NoRun =>
              run[resolution[a].run].session = receipt[a].session
        /\ (/\ receipt[a].hook \in StopHooks /\ resolution[a].outcome = "applied"
            /\ receipt[b].hook \in StopHooks /\ resolution[b].outcome = "applied"
            /\ resolution[a].run = resolution[b].run) => a = b

(***************************************************************************)
(* No receipt reaches into a settled run: a run's terminal status and its  *)
(* stop reason are final, whatever arrives late.                           *)
(***************************************************************************)
TerminalIsFinal ==
    [][\A q \in Receipts : run[q].status \in Terminal => run'[q] = run[q]]_lifecycleVars

(***************************************************************************)
(* Source activity joins the conversation's newest run only while that run *)
(* is active; a receipt never revives or feeds a run behind a capturing    *)
(* one.                                                                    *)
(***************************************************************************)
ActivityFollowsCapture ==
    [][\A r \in Receipts :
        (resolution[r].outcome = None /\ resolution'[r].run \notin {NoRun, r}) =>
            \A q \in RunsOf(receipt[r].session) :
                run[q].status = "Capturing" => resolution'[r].run = q]_lifecycleVars

-----------------------------------------------------------------------------
(* The run promise, kept by the rows of task_runs *)

CapturingRun(s) ==
    IF \E q \in RunsOf(s) : run[q].status = "Capturing"
    THEN CHOOSE q \in RunsOf(s) : run[q].status = "Capturing"
    ELSE NoRun

Promise == INSTANCE RunPromise WITH
    Runs      <- Receipts,
    Verdicts  <- {"Completed", "Partial", "Failed"},
    Abandoned <- "Abandoned",
    Undecided <- None,
    open      <- [s \in Sessions |-> CapturingRun(s)],
    closing   <- {q \in Receipts : run[q].status = "Finalizing"},
    verdict   <- [q \in Receipts |->
                     IF run[q].status \in Terminal THEN run[q].status ELSE None]

(***************************************************************************)
(* Every step of the processor keeps the promise or is invisible to it.    *)
(***************************************************************************)
KeepsRunPromise == Promise!Spec
=============================================================================
