# A verification development for OwnLoop

TLA+ models of the OwnLoop daemon and what surrounds it, model-checked with TLC
and, for the parts everything else rests on, proved with TLAPS.  Line numbers refer
to the source tree this directory accompanies; `PROJECT.json` maps every definition
to its lines, every property to a mutation of the code that breaks it, and every
hazard to the properties that would catch it.

## 1. The system

OwnLoop observes a coding agent.  The agent's hooks call a **launcher** and the **hook
adapter** (`tools/hook-adapter`), a fail-open command that posts each hook to a local
**daemon** (`apps/daemon`).  The daemon journals it (**ingress**), and a **pump** with one
loop of twelve stages turns the journal into Task Runs, their events, Git evidence, a
sealed verdict, and then into analysis documents: classification, verification evidence,
evidence graph, the input for a model provider, the provider's candidate moments, and
their validation.  A **web viewer** shows a run with its ownership moments and takes the
user's answers.  A **local installer** puts the files in place and starts and stops the
daemon, which it finds through one state file.

| Component | State it keeps | Operations | Interacts with | What is hard |
|---|---|---|---|---|
| ingress journal (`ingress/server.ts`, `ingress-receipts.ts`) | `ingress_receipts` | accept, deduplicate, refuse | adapter; lifecycle | arrives between any two awaits of the pump; repeated payloads; random ids |
| lifecycle (`lifecycle/processor.ts`, `task-runs.ts`, `conversations.ts`) | conversations, runs, resolutions | one handler per hook, rollback | ingress, normalization | any order of hooks, ended sessions, late stops |
| normalization (`normalization/processor.ts`) | events, normalizations | append a receipt's events | lifecycle, reconciliation | order of processing against order of ids |
| Git baseline, Git reconciliation | baselines, reconciliations, evidence gaps | observe, persist | events, finalization | awaits; batches that leave work behind |
| finalization (`finalization/processor.ts`, `run-finalizations.ts`) | finalizations, terminal events | preflight, seal, recover | all of the above, artifact store | check outside, write inside a transaction; crash recovery; reads that re-validate |
| pump and composition (`runtime/`) | the stage, the listing | cycle, stop, start, recover | every stage | failing stages, shutdown grace, restart |
| artifact store (`artifact-store/store.ts`) | objects on disk, `artifacts`, `run_artifacts` | put, link, read, collect, sweep | every stage from finalization on | file system and database are not one transaction |
| classification, verification, evidence graph, semantic input | artifacts per run | derive once per run | finalization, artifact store, settings | a run that cannot be read blocks the listing; limits; documents of another document |
| candidate generation | generation records | list, ask the provider, insert | settings, provider | awaits inside a call; abort; repeated and paid calls |
| candidate validation | validation reports | judge, rank, select | evidence graph | claims that another place's facts would confirm |
| moments and interactions | interactions, ownership records | project, record, replay | viewer, run deletion | repeated requests; a projection read before the transaction |
| local settings | one row with a revision, a secret in memory | compare-and-swap, load secret, delete run, retention | pump, artifact store | two tabs; deletion against running stages |
| runtime state file | one file | publish, remove if owned | installer, daemon | the only lock there is; boot and shutdown at once |
| local installer (`tools/local-installer`) | files, agent settings | install, uninstall, hooks, start, stop | state file, daemon | partial failure and rollback; interrupted commands |
| hook adapter | none | probe, deliver once, skip | ingress | timeout against a late acceptance |
| web viewer (`apps/web`) | what is on the screen | load, answer, retry, delete, connect | daemon routes | responses in any order |
| replay, enriched replay, diagnostics | none | read | all tables | pure projections |
| contracts, event model, ingress security, fixtures | none | parse, reduce, redact | all | pure functions |

What makes each of them correct is the content of section 4.

## 2. The modules

| Module | What it is |
|---|---|
| `Lifecycle` | the journal, the conversations, the runs and the lifecycle processor |
| `RunPromise` | abstract: what a session is promised about its runs |
| `EvidencePipeline` | EXTENDS `Lifecycle`: the pump with its first six stages and the listing of the seventh, startup recovery, failures, crashes |
| `ArtifactStore` | object files and metadata rows, written by the pump and collected by settings requests |
| `LocalSettings` | the settings row, the secret, the tabs that edit them |
| `ProviderCall` | one call of the generation adapter: attempts, back-off, deadline, abort, its log |
| `CallPromise` | abstract: what a call promises to the stage that makes it |
| `AnalysisStages` | EXTENDS `ProviderCall`, `LocalSettings`: the six analysis stages of the pump over sealed runs |
| `ChangeClassification`, `VerificationEvidence`, `EvidenceGraph`, `SemanticInput`, `Candidate`, `CandidateValidation` | the algorithms of those stages, each over the document of the one before |
| `RunContent` | EXTENDS them: what a run recorded, and the six documents made of it in order |
| `HookDelivery` | EXTENDS `Lifecycle`: launcher, adapter, ingress with deduplication, an agent that repeats itself |
| `RuntimeInstances` | daemon processes, the state file, start, stop and status |
| `Installation` | EXTENDS `RuntimeInstances`: install with rollback, uninstall, hooks |
| `MomentInteractions` | the daemon's side of answers to ownership moments |
| `AnswerPromise` | abstract: what is promised about answers |
| `Viewer` | EXTENDS `MomentInteractions`: the browser's side, one await at a time |
| `MCLifecycle`, `MCPipeline`, `MCArtifacts`, `MCAnalysis`, `MCContent`, `MCLocal` | constants and inputs for TLC; `MCLocal` puts the four local parts, which share no state, into one run |
| `LifecycleProofs`, `PipelineProofs`, `ArtifactStoreProofs`, `AnalysisProofs`, `ContentProofs`, `DocumentProofs`, `LocalProofs`, `ViewerProofs` | the theorems, section 5; `PipelineProofs` and `LocalProofs` also extend `LifecycleProofs`, and use its results under the pump and under delivery; `DocumentProofs` extends `ContentProofs` |

### Lifecycle

A table is a function from row names to records.  A receipt is named by its place in
the journal, a run by the prompt that started it, a conversation by its session.

- `Accept` is the ingress handler: the row gets `created_at` from the daemon's clock,
  `received_at` from the adapter's (`Delay` behind it), and a random id, of which only
  its rank among the others matters (`idRank`, chosen for good in the initial state).
- `StartSession`, `StartRun`, `JoinRun`, `StopRun`, `MissRun`, `EndSession` are the arms
  of `resolveRunAction`, each with the conversation update before it and the resolution
  after it, because they are one transaction.  `RejectReceipt` is a conversation
  conflict or an ended conversation; `FailReceipt` is the rollback and the second
  transaction of `markUnexpectedFailure`.
- `ResolveOldest` takes the oldest pending receipt: `created_at`, then id.
- `SealRun` is `transitionToTerminal`, as finalization and recovery call it.

`PreToolUse` stands for the three tool hooks the processor treats alike.  Workspace rows
are their names.  Receipts that were not prepared by ingress are left out: ingress
writes no other.

### EvidencePipeline

`stage` is where the pump is, `batch` what is left of the listing the stage took,
`preflight` what finalization has read outside its transaction, `cutoff` the start time
of the process.  One transaction is one step; between the steps of an asynchronous stage
a hook may be accepted, the process may end, or the stage may throw.  `lifecycle` and
`normalization` run synchronously, so no hook comes in between their transactions, but
the process may still end there.

- `Boot` reads the clock, listens and recovers stale runs; the pump starts after that.
- `Advance` takes the next stage's listing: eligible rows, in the ORDER BY of its query,
  up to its limit.  Ties on random run, conversation or event ids come in any order,
  ties on receipt ids in the order of `idRank`.
- `ResolveReceipt`, `NormalizeReceipt`, `CaptureBaseline`, `ReconcileTrigger`,
  `PreparePreflight`, `PersistFinalization`, `RecoverCapturing`, `ClassifyRun` are the
  stages.  `Readable` is what `RunFinalizationRepository` validates on every read;
  `ClassifyRun` gives the listing up when it does not hold.
- `Crash` keeps the tables and loses the process.  A graceful stop is a crash between
  two transactions, so it needs no action of its own.
- `StageThrows` is any exception of a stage: the pump goes on with the next one; during
  startup recovery the process ends.

Abstracted: event payloads; the file events of a reconciliation (folded into its
summary event); what Git answers (captured or not); the manifest (stored or not).
`final_fingerprint_missing` cannot occur, as a captured reconciliation always has a
fingerprint.  The stages after classification are `AnalysisStages`; the deletion of runs
is part of `ArtifactStore` and `AnalysisStages`, not of this module.

### ArtifactStore

The actors are the pump, which puts one content at a time, and settings requests, any
number of which may be in flight.  They share `objects` (files named by digest) and the
tables `artifacts` and `runArtifacts`, and nothing but the event loop serializes them.
What runs between two awaits is one step, so every file-system call and every transaction
is one; a caller of `putPreparedBytes` continues in the same turn of the loop until its
next file access, hence `TurnIsOver` in the guards of the requests.

- `StartPut`, `LinkObject` (`EEXIST` counts as success), `VerifyObject`,
  `PersistArtifact` are `#putPreparedStream`.  Derived contents (classification, evidence
  graph, semantic input) are linked to their run in the same transaction; the manifest
  and reports (verification, generation, validation) are linked by `LinkArtifact`, a
  later transaction.
- `DeleteRuns` is `deleteRun` and `applyRetention`: references cascade and the listing of
  unreferenced rows is taken before the first await.  `CheckObject`, `DeleteRow`,
  `CheckAgain`, `UnlinkObject` are the loop of the collection.
- `StageThrows`, `CollectionThrows` and `Crash` cut them short anywhere.

A content is the bytes of one artifact of one run: every artifact the daemon writes names
its run in its bytes, so no two runs share a digest.  Candidate generations are the one
kind whose bytes may differ between attempts; a retry of one is a different content.
The order of candidates with equal `created_at` is left open.  `sweepOrphanObjects`,
`unlinkArtifactFromRun` and `putPreparedStream` are called by tests only and left out,
as are sensitivities, which all callers give alike.

### LocalSettings, ProviderCall, AnalysisStages

`Save` is `compareAndSwap` with the revision the tab last read (`form`); a change of
provider drops the secret, which only memory holds.  `Options` is what a stage gets.

`ProviderCall` has one variable, the call: `TransportFails`, `ResponseArrives` and
`BackoffEnds` are the ends of its three kinds of await, `AddressesResolved` the check of
the resolved addresses before a post.  `RecordAccepted` is the schema of the attempt log:
what it refuses can never be inserted.  A delay is 0 or 1, as the schema asks no more.

`AnalysisStages` takes over where a run is sealed.  An artifact is a pair of run and role;
what a reader recomputes of its sources is reduced to the number of evidence rows recorded
after the seal (`late`), the one source that may still change.  A run of kind `unreadable` is one
whose classification throws for good: its finalization is refused (finding 1), or one
of its paths is (section 6).  `EnterNext` takes a
listing, `Working` one run of it; `Skip` and `Throw` are the two ways a run is not worked
on, and a `Throw` gives up the listing, as the code's loops have no `try` of their own.
`StartGeneration`, the call, and `FinishGeneration` are separate steps, between which
clients save settings, delete runs and stop the process.  `paid` is history and read by no
guard: the inputs and providers an answer came for, until the answer is lost.  `Stop` may end a call by its
signal; `Restart` may come before it has ended, which is the shutdown grace running out.

### RunContent and the algorithms

Six modules, each a pure function from documents to a document, `Refused` when the code
throws.  `RunContent` lets a run change files, run commands and end, and then applies them
in the order of the stages; the provider's claims are any phrases and citations.

- A path is what the classification rules can tell of it: segments, basename, extension,
  the patterns it matches and the irregular forms it has.  `ChangeFile` adds only what the
  reader of Git's status retains (`IsReadable`); the classifier asks for more
  (`IsCanonical`).  A status with a path the reader refuses retains no file, and the
  observation is partial, which is an ending of its own.  A command is the sequence of its tokens.  A text is the
  set of phrases in it the validator's patterns know, any other word being itself.
- Ids that are digests are the locators they are digests of; arrays the code sorts by
  digest are sets, or sequences in any one order.
- Sizes are counted in units (a node, an edge, an excerpt), as only their relation to the
  limits matters; the limits are constants.
- The predicates at the end of each module (`GraphIsValid` and the like) are what the
  contracts' schemas check beyond types.

`ShownMomentsAreTrue` is told from the rows of the run (`FileAt`, `CommandsAt`, `Ended`),
not from the facts the validator derives from the graph; a label is told from the file its
own place names (`LabelledAt`), because the file itself may be beyond the `MaxExpanded`
places the validator looks at.  `RowsAreLegal` and `RunFits` name what `DocumentsAreAccepted`
needs of the rows; TLC evaluates the first in `MCContent`.

### HookDelivery

EXTENDS `Lifecycle`, whose `Accept` becomes the insertion, and whose processor works the
journal off.  `Launch` probes, `Post` sends, `Receive` and `Handle` are the daemon,
`TimeOut` the adapter's clock; the answer of a request that timed out, or whose daemon
died, reaches nobody.  Every daemon has its own port, so a request meant for one is never
answered by the next.  Nothing retries; the agent may fire the same payload again.

### RuntimeInstances and Installation

A daemon has two threads: its boot (`spawned`, `bound`, `recovering`, `pumping`,
`announced`, `done`) and its shutdown, which a request may begin as soon as the pump
exists, while the boot still has its last publication to write.  Commands are executed one
at a time, each a sequence of reads, requests and file operations, and each may be
interrupted (`Interrupt`) between any two; a killed process leaves its file behind.
`Probe` is what a command concludes of file, process and status route.

`Installation` adds the six items on disk, and the three orders in which they are put
there, restored and removed.  A release is a tree and may be partly there; anything else
is there or not.  `strayed` and `stranded` are history and read by no guard: they mark the
behaviours the two invariants exclude, named in section 4.

### MomentInteractions and Viewer

An interaction has a random id which its retries repeat; `VerifyProjection` reads,
`RecordInteraction` is the transaction, `LatestAnswer` the order in which the code takes
the last one.  The clock is assumed to move between two interactions.

`Viewer` numbers its views as `loadRequestRef` does.  Every `await` of `loadRun` and of
`recordMomentInteractionAction` has two steps, the daemon reading and the browser
receiving, so that responses of two requests may cross.  Run lists and deletions are
under way in any number (`lists`), as nothing in the browser waits for one before the next
click.  `HandleRunsDeleted` decides with the selection at the time of the click.  An expired token, which disconnects, is left out.

## 3. The runs

| Run | Question | Bounds |
|---|---|---|
| `lifecycle` | which run a hook starts, joins, stops or leaves alone; does the processor implement `RunPromise` | 4 receipts, 1 session, 2 workspaces, 6 hooks, all receipts in one millisecond with ids in either order, every second one stamped late, 1 exception |
| `pipeline_steady` | verdicts, event order and readability without failures, and that nothing is late | 3 receipts, 5 hooks, every second one late, ids in either order, a clock that stands still or moves, a reconciliation batch that holds everything |
| `pipeline_crash` | recovery, re-checks, immutability, and liveness under a crash and an exception | 3 receipts, 1 crash, 1 exception, one reconciliation per cycle |
| `artifact_store` | which states files and tables can be left in, and is every wanted content kept | 2 runs, 3 contents (one of each kind), 2 requests, collections of 2 rows, 1 exception, 1 crash |
| `analysis` | what results rest on, what is paid twice, what can be recorded, is every run analysed | 2 runs (rich or unreadable evidence), 2 providers, 3 revisions, 2 attempts per call, 2 generation records, 1 late row per run, 1 restart |
| `content` | are all six documents accepted, and is what they say true, best and complete | every choice of at most 2 files, 2 commands, 2 claims, 3 of them together, from 4 files (one with a space at the end of its name; a fifth that the reader refuses), commands of every result, runs of every ending |
| `local` | settings, installed runtime, delivery and viewer, see section 2 | 2 tabs, 4 revisions; 2 daemons, 4 commands, 2 faults; 3 firings of 4 payloads, 2 losses; 2 runs, 2 questions, 2 interactions of 2 tries, 2 views, 2 connections, 4 events |
| `finding_*` | five disagreements, section 6 | as small as the trace allows |

Why the bounds are enough to be interesting: a run needs a prompt, a stop and one more
hook to be disturbed; the four receipts of `lifecycle` let a session have two runs,
one stopped and one capturing, and still receive a late hook; the three of the pipeline's
runs are one more than a batch takes.  Sessions share nothing but the journal, so one
is enough; the proofs hold for any number.  The exception may strike a lifecycle
transaction, a normalization, or any stage.  The batch limits of the code (100 receipts,
25 runs or triggers) are replaced by 1, 2 and 4, so that both a full batch and one that
leaves work behind occur.  `LifecycleBatch` and `NormalizationBatch` are equal, as in the
code, and `NoSourceEventAfterSeal` depends on that; `RecoveryBatch` holds all stale runs of
these bounds, so that what a larger number leaves behind occurs in no run.

In `artifact_store` the three kinds of content meet a crash or exception, a retry, and two
collections at once, each of them with a full batch or a partial one; `MaxRows` is the
number of contents plus exceptions plus crashes, which no behaviour reaches with another
insertion to come, so that bound never cuts anything off.  In `analysis` two runs let an
unreadable one stand before a readable one; two providers and three revisions let a tab
switch away and back during a call.  In `content` a conflict needs two items, a merge two
claims, and with one place for a moment (`MaxSelected`) two claims are one too many; the
limits of the provider's document are low enough that larger runs are cut.  In
`local` two daemons are one more than there should be, the fourth command can undo what
the first three did, a second view may be of the run of the first while responses for that
are under way, and the list of one connection may arrive during the next.

Every counter bounded is a constant with a name beginning with `Max`; the clocks' steps are
bounded by the receipts.  The pipeline and the analysis must never deadlock.  The other
runs end when all is delivered, put, answered or shown, hence `CHECK_DEADLOCK FALSE` there.
Symmetry is used in `lifecycle` (workspaces) and `local` (runs, questions), which check no
liveness.

## 4. The properties

`Lifecycle`: `CapturesNewestRun`, `OneStopApplies` (a resolved receipt
points into its own session and at most one Stop moves a run), `TerminalIsFinal`,
`ActivityFollowsCapture` (no receipt feeds a run behind the capturing one),
`EndedCapturesNothing` (an ended session has no capturing run, until it is resumed and
prompted again), `KeepsRunPromise`.  Each needs several hooks, mostly of runs in different states, to go
wrong.  `RunNumbersUnique`, which makes "the newest run" well defined, is proved
(`NumbersAreUnique`) and is no run's invariant.

`EvidencePipeline`: `CapturingHasNoStop` (the state in which recovery would refuse to
start the daemon), `PreflightStillCurrent` (what was read before the awaits holds in the
transaction), `SealedOnce`, `EvidenceOnlyGrows`, `FinalizationsReadable`,
`VerdictAnswersLastStop`, `NoSourceEventAfterSeal`, `EventsFollowResolution`, and the
liveness properties `EveryReceiptResolved` and `EveryStopGetsAVerdict`.

`EventsFollowResolution` is the order the code does keep: of two source events of a run,
either both receipts were resolved in the same millisecond, or the first was resolved
earlier and was journalled no later.  A batch is resolved in one loop, so the first case is
the ordinary one, and in it random ids decide; that the order of processing is kept as well
(`EventsFollowProcessingOrder`), as ADR-0009 says, is refuted in `finding_event_order`.
`VerdictAnswersLastStop` compares by that millisecond too: it says nothing of two stops
resolved in the same one.  `FinalizationsReadable` holds in `pipeline_steady` and not in
general: it needs that there is neither a crash (`finding_restart_stop`) nor a
reconciliation left behind, whose gap would come after the verdict (section 6).
`EveryStopGetsAVerdict` allows for one exception, not for a stage that throws for ever, and
`RecoveryIsComplete` (recovery leaves no run of an earlier process active) is a theorem and
no run's invariant: the bounds of the runs cannot exceed its batch.

`ArtifactStore`: `OnlyOverlapLosesContent` (a row without its object is the work of a
digest put between the deletion of its row and the unlinking of its object, and of
nothing else), `PutKeepsItsRow`, `OneRowPerContent`, `StrayObjectsHaveACause` (an object
without a row, which no request ever removes, was left by something cut short),
`ReferencesEndWithTheirRun`, and the liveness property `WantedContentIsKept`.
`ReferencedContentExists` is what the decision record promises; it is violated in
`finding_lost_content`.  The variables `overlapped` and `interrupted` are history.

`AnalysisStages`: `ResultsHaveTheirSources` (nothing survives what it was derived from,
whatever is deleted during a call), `OnlyLostAnswersAreBoughtAgain`
(the provider is never asked for an input it has answered, unless that answer was lost:
the process ended before it was recorded, or the schema refused the log of its attempts;
an answer that failed, and one of a deleted run, is no such answer), `SecretStaysWithItsProvider` (the secret of one provider never meets the
address of another), `AnswersCanBeRecorded` (the schema refuses no answer, but for two
kinds, see below), `KeepsCallPromise`, and the liveness property `RunsAreAnalysed`.

`RunContent`: `DocumentsAreAccepted` (no run is kept from its provider by a contract its own
documents break, but for one that keeps a path which is not canonical, section 6), `AnswersAreJudged` (no answer is paid for and then refused by the contract
of the report, or by the projection that reads it again), `ShownMomentsAreTrue`,
`NothingBetterIsHidden`, `TruncationIsAdmitted`.

`LocalSettings`: `UpdatesAreNotLost` (who replaces the settings was looking at them, although
the code compares their numbers only).  `HookDelivery`: `AcceptedIsJournalled`.
`RuntimeInstances`: `OneDaemonServes`, except after two kinds of behaviour the code cannot
tell from good ones (`strayed`): a command decided while another daemon was booting and
not yet in the file, and the last publication of a boot written after its own shutdown had
removed the file.  `Installation`: `HooksHaveTheirLauncher`, except after a rollback that
could not restore the settings and after a hooks command run on what an interrupted
removal left (`stranded`).  `Viewer`: `ShownTogether` (of the pieces modelled; the panel of the final
manifest is not among them), `AnswersStayShown`.
`MomentInteractions`: `KeepsAnswerPromise`.

Each module with variables also states a type invariant.  They hold in these runs and are
not part of them, because all of them are theorems: those of `Lifecycle`,
`EvidencePipeline`, `ArtifactStore`, `LocalSettings`, `AnalysisStages` (with `ProviderCall`),
`HookDelivery`, `Installation` (with `RuntimeInstances`) and `MomentInteractions`.
`Viewer` and `RunContent` state none; the forms of what they hold are part of their
inductive invariants.

### The refinements

`Lifecycle` implements `RunPromise` under the mapping at the end of the module: the open
run of a session is its Capturing run, the closing runs are the Finalizing ones, the
verdict is the terminal status.  A prompt is `Begin`, with the displaced run abandoned
in the same step; everything that does not move a run is a stutter.

`AnalysisStages` implements `CallPromise`: the posts of a call are its attempts and the one
under way, the question to stop is the pump's signal.  A back-off is a stutter; so is
everything the stages do around a call.

`Viewer`, through `MomentInteractions`, implements `AnswerPromise`: an interaction counts
once however often it is sent, the answer that stands is the one applied last, none is
taken for a run that is gone.

### Fairness

`WF_vars(Boot \/ Work)`: `Boot` is enabled only while no process runs and `Work` only
while one does.  The pump awaits one cycle after another until it is stopped
(`runtime/pump.ts:140-180`), every stage's work is finite, and Git and file access are
bounded by timeouts; for `Boot` it is assumed that somebody starts the daemon again.
No fairness is assumed of hooks, of crashes or of exceptions.  In `ArtifactStore` it is
`WF_vars(Pump)`, for the same reason, and `WF_vars(Collect(q))` for each request, as the
event loop resumes what awaits a file-system call.  In `AnalysisStages` it is
`WF_vars(PumpStep)`: a post ends because its transport arms a deadline, a back-off because
its timer fires.  None is assumed of clients, of restarts or of the seals.

## 5. The proofs

`LifecycleProofs` proves, for any number of receipts, sessions and workspaces and any
delays and id orders allowed by `LifecycleConstants`:

| Theorem | States |
|---|---|
| `LifecycleTypeCorrect` | `[]LifecycleTypeOK` |
| `NumbersAreUnique` | `[]RunNumbersUnique` |
| `OnlyNewestCaptures` | `[]CapturesNewestRun` |
| `EndedIsQuiet` | `[]EndedCapturesNothing`, for sessions ended and resumed any number of times |
| `StopsApplyOnce` | `[]OneStopApplies` |
| `TerminalRunsAreFinal` | `TerminalIsFinal` |
| `ActivityJoinsCapture` | `ActivityFollowsCapture` |
| `RunsKeepTheirPromise` | `KeepsRunPromise`, the refinement of `RunPromise` |

The argument has three layers.

1. `TypeInv` adds to the type invariant that an accepted receipt names a session and a
   workspace: the handlers look the conversation up by it.
2. None of the run invariants is inductive alone.  A new prompt takes the number after
   the highest, so it stays the newest only because numbers are unique; it may become
   the only capturing run only because the one before it was the newest, and the row it
   takes must be blank.  `RunInv` is the conjunction of `TypeInv`, `UnresolvedIsBlank`
   (a receipt not worked off has no resolution and has started no run),
   `RunNumbersUnique`, `CapturesNewestRun` and `EndedCapturesNothing`.  Instead of one
   case per action and conjunct, every resolution is shown to do one of two things:
   `Settles` (each run `KeepsCourse`: same session and number, Capturing only if it was,
   unchanged if terminal) or `Starts(r)` (one new run, the others of its session no
   longer capturing).  The invariant follows from these two.
3. `PointerInv` adds `PointsHome` for every receipt (its resolution points to a run of
   its own session, and if it is an applied Stop, that run is past Capturing), which is
   what makes a second applied Stop impossible.

The refinement adds to `RunInv` that a started run has a session (`PromiseInv`), and takes
the same two cases: `Starts(r)` is `Begin`, with the displaced run judged in the same step,
and `Settles` is a close, a verdict or a stutter.

`ArtifactStoreProofs` proves, for any number of runs, contents, requests, failures and
crashes and any batch, from `StoreConstants`:

| Theorem | States |
|---|---|
| `StoreTypeCorrect` | `[]TypeOK` |
| `ContentIsLostByOverlapOnly` | `[]OnlyOverlapLosesContent` |
| `RowsSurviveTheirPut` | `[]PutKeepsItsRow` |
| `DigestsAreUnique` | `[]OneRowPerContent` |
| `StrayObjectsAreExplained` | `[]StrayObjectsHaveACause` |
| `ReferencesOutliveCollections` | `ReferencesEndWithTheirRun` |

`OnlyOverlapLosesContent` is about two intervals: that of a put, from linking its object
to inserting its row, and that of a collection, from deleting the row to unlinking the
object.  `OverlapsAreRecorded` says that whenever the second is open for a digest that
has a row, or for which the first is open, the overlap was noticed, and that a verified
object is still there or was overlapped.  A collection finds its row by the id it read
before an await, so `ListingsAreTrue` (an id still means the content it was listed with)
and `IdsAreKeys` are needed, and `OneRowPerContent` so that the deleted row is the only
one of its digest.  `StoreInv` is the conjunction; most actions fall under `StoreFrame`,
the steps that leave rows and objects alone.  For stray objects one more fact is needed: a
collection that deletes a row without unlinking saw no object at its first look, and
`AbsencesWereOverlaps` says that this happens to a row still there only after an overlap.

`AnalysisProofs` is about settings, calls and stages.  For any number of clients, providers
and revisions it proves, from `SettingsAssumption`:

| Theorem | States |
|---|---|
| `SettingsTypeCorrect` | `[]SettingsTypeOK` |
| `SecretIsTheProvidersOwn` | `[]SecretFollowsProvider`, the half of `SecretStaysWithItsProvider` that is about the service |
| `NoUpdateIsLost` | `UpdatesAreNotLost` |

The code compares numbers, the property compares settings.  Between them stands
`FormsArePast`: no form has a higher number than the row, and one of the same number has
the same contents.  It is inductive with the type invariant alone, because a replacement
takes the next number and only its author reads it in the same step.

For any number of runs, clients, providers, revisions, generations, restarts and late rows
and any retry policy, it proves from the assumptions of `AnalysisStages` and the modules it
extends:

| Theorem | States |
|---|---|
| `AnalysisTypeCorrect` | `[]AnalysisTypeOK` |
| `ResultsKeepTheirSources` | `[]ResultsHaveTheirSources` |
| `AnswersAreNotBoughtTwice` | `[]OnlyLostAnswersAreBoughtAgain` |
| `KeysHaveOneAnswer` | one success per input and provider; nothing else answers the key of a call before its own answer is recorded |
| `ListingsGoByAge` | what is left of a listing is in its query's order, and nothing listed for validation has been validated |
| `OptionsCarryTheirOwnKey` | `[]SecretStaysWithItsProvider` |
| `CallsAreMadeUnderOptions` | a call belongs to the generation stage and to options that name a provider; generation rows name theirs |
| `AnswersAreRecordable` | `[]AnswersCanBeRecorded` |
| `CallsKeepTheirPromise` | `KeepsCallPromise`, the refinement of `CallPromise` |

`AnalysisInv` joins the invariants of the parts: `CallInv` (the log and the budget of a
call agree with its phase), the settings invariant, the pump's (the options of a batch
name a provider and its own key, or neither) and `CallsHaveOptions`.  The second theorem
on calls needs the last two: what was looked up before a call is the provider of the
options, and the pump, the only one who inserts, holds them until the call ends.

`TableRest` adds what is said of the tables and the listing.  `OldestLists` states what the
listing operator gives, from the fact that every rank below the size of a finite set of
numbers is taken by one of them.  Numbers of generations must be bounded for a new one to
be above all others, and each its own, or the report of one generation might be entered for
another; a number freed by a deletion may be given again, but never while a listing that
holds it is worked off.

For `AnswersAreNotBoughtTwice`, `PaidInv` says where an answer that came is: in a recorded
success of its key, with its deleted run, or still in the hands of the pump (`PaidIsKept`);
so the lookup before a call, which finds no success, finds nothing paid for and kept.  Each
way of losing one is a step that takes it out of `paid`, and there are two.

The first part of `LocalProofs` proves, for any number of firings, payloads, losses and daemon crashes,
from `DeliveryConstants`:

| Theorem | States |
|---|---|
| `DeliveryTypeCorrect` | `[]DeliveryTypeOK` |
| `DeliveredIsJournalled` | `[]AcceptedIsJournalled` |
| `DeliveryImplementsLifecycle` | every behaviour is one of `LifecycleSafety`, hence `KeepsRunPromise` |

`DeliveryInv` ties the three places a payload may be: what the adapter calls delivered was
answered 202, what was answered 202 is stored, and what is stored is a receipt, once per
identity.  The last theorem makes those of `LifecycleProofs` true of a journal filled by
hooks.

The second part proves, for any number of daemons, commands and faults, from
`RuntimeConstants`:

| Theorem | States |
|---|---|
| `InstallationTypeCorrect` | `[]InstallationTypeOK` |
| `TheFileIsALock` | `[]OneDaemonServes` |
| `HooksAreLaunched` | `[]HooksHaveTheirLauncher` |

The state file is no lock by itself: it is written after the port is bound, and read,
judged and removed in separate steps.  `FileIsALock`, the part of `RuntimeInv` that
`strayed` suspends, says why it still works as one: whoever published and has not
closed its server is in the file (`HoldersAreNamed`), a daemon not yet in the file is alone
(`NewcomersAreAlone`), a command past its probe knows the holder
(`CommandsKnowTheHolder`), and none changes files under a live daemon
(`InstallationStays`).  `HooksFollow` carries the order of installing, rolling back and
removing through every index of the three sequences, and says of the settings a rollback
would restore what it says of those in place.

`ViewerProofs` proves, for any number of views, runs, questions, interactions and tries
(at least one try: `MaxTries` is positive), from the assumptions of `MomentInteractions`
and `Viewer`:

| Theorem | States |
|---|---|
| `InteractionTypeCorrect` | `[]InteractionTypeOK` |
| `ShownAgrees` | `[]ShownTogether` |
| `AnswersKeepTheirPromise` | `KeepsAnswerPromise`, the refinement of `AnswerPromise` |
| `ShownAnswersStay` | `AnswersStayShown` |

`ViewerInv` is about what is under way: a load, a record or a failed card that still has
the number of the present view is for the run that view shows; what belongs to an older
view is dropped when it arrives.  The refinement also needs that no two rows have the same
time, or the latest answer would not exist.  `AnswersStayShown` compares lists by length, as
the code does; `SnapshotInv` adds why that is enough: all snapshots of a run, on the screen
and in responses under way, are versions of one list that only grows.

`PipelineProofs` is about the whole pump, for any number of receipts and sessions, any id
order and batches, and, unless the table names a hypothesis, any number of crashes and
exceptions:

| Theorem | Hypothesis | States |
|---|---|---|
| `PumpTypeCorrect` | | `[]TypeOK` |
| `PumpRunsTheLifecycle` | | each step is one of `Lifecycle`, reads the clock, or counts an exception |
| `PumpKeepsTheRuns` | | the run invariants of `LifecycleProofs` |
| `PumpKeepsRunPromise` | | `KeepsRunPromise`, the refinement of `RunPromise` |
| `CapturingRunsWereNotStopped` | | `[]CapturingHasNoStop` |
| `PreflightsStayCurrent` | | `[]PreflightStillCurrent` |
| `RunsAreSealedOnce` | | `[]SealedOnce` |
| `EvidenceAccumulates` | | `EvidenceOnlyGrows` |
| `SourceEventsFollowResolution` | | `[]EventsFollowResolution` |
| `RecoveryLeavesNoStaleRun` | `[]StaleRunsFit` | `[]RecoveryIsComplete` |
| `VerdictsAnswerTheLastStop` | `Undisturbed` | `[]VerdictAnswersLastStop` |
| `NothingFollowsTheVerdict` | `Undisturbed` | `[]NoSourceEventAfterSeal` |
| `FinalizationsStayReadable` | `Undisturbed`, `[]TriggersFit` | `[]FinalizationsReadable` |

The hypotheses are those under which the code keeps these properties; TLC breaks each
property without its own.  `Undisturbed`: no crash, no exception, and
`LifecycleBatch <= NormalizationBatch`, which are both 100 in the code; a crash between
resolving and normalizing is finding 1.  `StaleRunsFit` and `TriggersFit`: never more stale
runs, or pending triggers, than a batch takes (25), as the rest is left to a cycle that may
be too late.  They are stated of the behaviour and not of the constants, as no setting
bounds how many runs a crash leaves behind.

Two chains of invariants carry this.  `PipelineInv` is inductive: the lifecycle's
invariants, what a batch still holds (`BatchIsOldest`, without which a batch would not
resolve the oldest receipt, and `BatchIsStale`), where Stop events come from
(`StopEventsHaveReceipts`), that status, finalization row and terminal event belong
together (`SealInv`), and that a preflight is current (`PreflightInv`).  `OrderInv` adds
the order: no clock is behind what it stamped, what is normalized was resolved no later
than what is not, and source events follow that order.  Under `Undisturbed`, `SteadyInv`
adds `BacklogClears`: from startup on, each stage leaves nothing resolved but not
normalized to the Git stages and finalization, so that all Stops of a run are events when
its verdict is drawn (`StopsAreEvents`, `SealedAreDone`); `NothingIsLate` and
`GapsTellVerdicts` do the same for triggers and gaps.  TLC checked each of these
invariants first, `OrderInv` and `SteadyInv` also beyond the bounds of the runs (several
sessions, any id order, batches of one).

`ContentProofs`, with `DocumentProofs` for the second theorem, is about the six algorithms between the rows of a run and the moments
shown, for runs of any files, commands and endings and batches of any claims, from
`ContentAssumption`, `InputLimits`, `ValidationLimits`, `NoneIsNoScore` and `GraphLimits`:

| Theorem | Hypothesis | States |
|---|---|---|
| `ContentInvariant` | | rows are well formed, and each document is what its stage makes of the documents before it |
| `DocumentsOfARunAreAccepted` | `RowsAreLegal`, `RefusedIsNoDocument`, `[]RunFits` | `[]DocumentsAreAccepted` |
| `TruncationIsAlwaysAdmitted` | | `[]TruncationIsAdmitted` |
| `AnswersAreAlwaysJudged` | | `[]AnswersAreJudged` |
| `NothingBetterIsEverHidden` | | `[]NothingBetterIsHidden` |
| `ShownMomentsAreAlwaysTrue` | | `[]ShownMomentsAreTrue` |

`ContentInvariant` reduces them to facts about functions: a document that is there is the
value of an operator applied to those before it.  These operators fold over sequences and
sets.  Induction theorems that take an operator cannot be used, so induction is done in set
form: a set of numbers that holds 0 and the successor of each member holds all
(`NaturalSteps`), and likewise for prefixes of a sequence (`PrefixSteps`) and for subsets of
a finite set (`SubsetSteps`).  A recursive function is first shown to exist
(`LeftFoldExists`, `SetFoldExists`); then a property of its values is proved step by step,
each the invariant of a loop of the code:

- the reduction of the input (`Reductions`): what is dropped is counted, what must stay
  stays, and no summary is dropped while an excerpt is shown.  The input is accepted because
  its summaries are told apart by their order and place, and because the six kinds that come
  first (run, ending, limitations, gaps, artifacts, checks) fit among the summaries kept;
- the expansion of a citation: no more than `MaxExpanded` places, each of them evidence of
  the run, reached over edges that join two nodes that are there;
- facts: each family (a check, a change kind, a label) has one value, since two values are
  a conflict and reject the claim; so what a shown text asserts is what the rows say;
- ranking: ranks have no gap, a representative stands for itself, and what is cut off by
  `MaxSelected` scores no more than what is kept.

The hypotheses of `DocumentsOfARunAreAccepted` are the limits of the code's guarantee.
None is about the form of a path: what the classifier refuses of what the reader of Git's
status retains is told in the conclusion.  `RowsAreLegal`: a secret file shows no path, a tool result does not contradict itself, an
output appears once, and an exit code has 32 bits, which nothing in the extraction ensures.
`RunFits`: the graph is within its limits, beyond which the code refuses it on purpose, and
the checks are within the limit of summaries; with more checks than that, an excerpt could
be shown whose check has lost its summary, and the contract would refuse the input.
`RefusedIsNoDocument` says of the model value `Refused` that it is no document.  TLC finds
`RowsAreLegal` true of the rows of `content`; `RunFits`, tried as an invariant of that run,
holds in all its states.

Not proved, and left to TLC:

- Liveness (`EveryReceiptResolved`, `EveryStopGetsAVerdict`, `WantedContentIsKept`,
  `RunsAreAnalysed`), which rests on fairness and on which steps are enabled.
- What the findings refute (`ReferencedContentExists`, `BuildReplayStaysNewest`, ...).

## 6. Where the code and its documents disagree

1. `finding_restart_stop`: the daemon dies between resolving a Stop and normalizing it.
   Recovery seals the run without a trigger; the next cycle appends the Stop event; from
   then on the finalization cannot be read and classification fails first thing in every
   cycle.
2. `finding_lost_content`: a crash leaves an unreferenced row.  A collection deletes it
   and looks at the object again; meanwhile the stage puts the same bytes, finds the
   object there, and links a new row to its run; the collection then unlinks the object.
   ADR-0012 says referenced artifacts are never deleted.
3. `finding_lost_resume`: a session resumed, ended and resumed again with the same payload
   stays ended, because the second SessionStart has the identity of the first.  A repeated
   Stop or SessionEnd of the same content is lost in the same way.
4. `finding_stale_build_replay`: of two build replays on their way to the viewer, the
   load's own replaces a newer one; only the refresh after an answer compares them.
5. `finding_event_order`: receipts resolved within one millisecond, as those of one batch
   mostly are, are normalized in the order of their random ids.  A tool request is sequenced
   before the start of its run, where ADR-0009 promises processing order; a Stop and a
   StopFailure may be exchanged in the same way, and the verdict with them.

Each run gives the shortest trace.  Of the rest, met while modelling, no run checks:

- A file whose name begins or ends in a space, is not in normal form C, looks like `c:x` or
  is longer than 1024 characters is retained by the reader of Git's status
  (`status-parser.ts:54-71`) and by the table, and refused by the classifier
  (`change-classification/engine.ts:41-63`), which throws for its run in every cycle.
  ADR-0015:108 takes every retained path to be canonical.  `DocumentsAreAccepted` names this
  as the one refusal there is, and `content` has such a file.
- Finalization reconciles the last Stop only.  A reconciliation of an earlier trigger,
  postponed by the batch limit, adds a gap to a run sealed as Completed.  ADR-0013:268 says
  there is no such run, and no read of its finalization accepts it again.
- The evidence graph may have 8 MiB, and ADR-0017:276 expects several; the fingerprint of
  the builder's input, which contains the whole graph, refuses more than the 1 MiB meant for
  one hook payload (`FingerprintBytes`, which `RunFits` keeps to).
- A run displaced by a prompt is terminal without a finalization row, which ADR-0013:214
  calls corruption.
- A call aborted in its back-off, and one whose last response has no request id after an
  earlier one had, give an attempt log the schema refuses (`AbortedInBackoff`,
  `IdentityLost` in `AnalysisStages`): the generation is lost and the call made again.  So is
  a success whose artifact could not be stored, which the model leaves out.
- A batch keeps the options it took: a call may be posted after external analysis was
  switched off, while ADR-0027:148 says "Provider-disabled state performs no provider
  call."  Loading a secret takes no
  revision, so it may be loaded for a provider another tab has just set.
- A clock that moves backwards makes settings updates fail until it has caught up, and can
  hide a later answer behind an earlier one; two answers of one millisecond are ordered by
  random id.
- Decision moments cannot occur: nothing emits the events they must cite.  An honest claim
  about one of two labels of a file is rejected as conflicting.  Of two claims of one type
  and evidence only one is shown, also when they differ.
- While a daemon recovers, its status is `repair_needed`: `start` ends at once with a
  timeout, and given again it may spawn a second process, which excludes the behaviours
  `strayed` marks.  `stop` may report a timeout in the moment between the closing of the
  server and the removal of the file.
- A release removed in part is neither verified nor replaced: uninstall and install both
  refuse it.  A stale state file blocks uninstall, which by then has removed the hooks.
  `hooks install` does not look at the launcher.  Rolling back restores the agent's whole
  settings file, with what others changed in it meanwhile.
- The viewer takes a run list that arrives after another connection was made, and decides
  after a deletion with the selection at the time of the click.

## 7. Not modelled, and the plan

- Replay, enriched replay and diagnostics: projections of one read each, without state.
- Redaction and reduction of payloads, tokenizing of commands, parsing of `git status`
  (but for the paths it refuses) and of provider responses: pure functions of one text, whose result is an input here.
- The migration runner, configuration, package building, access lists, checksums.
- Rendering, pagination and artifacts in the viewer.  `loadArtifact` shows the manifest that
  arrives whatever was selected meanwhile (`App.tsx:1411-1421`), outside `ShownTogether`.
- The orphan sweep and streams of the artifact store, which only tests call.
- Exit codes outside 32 bits, which the extraction passes on and the contract refuses.

Of the properties above, the proofs leave liveness to TLC.  Worth proving next are the
hypotheses that are stated of a behaviour: `RunFits` from bounds on the files and commands
of a run, and `StaleRunsFit` and `TriggersFit` from a bound on the runs and hooks between
two cycles (no bound on sessions gives them: a session may have any number of runs waiting
for their verdict).
