----------------------------- MODULE AnalysisStages -----------------------------
(***************************************************************************)
(* The six analysis stages of the runtime pump over sealed runs, the local *)
(* settings they obey and the clients that change these, delete runs and   *)
(* stop the process meanwhile.  An artifact is abstracted to the fact that *)
(* it was linked; what a reader recomputes of its sources is abstracted to *)
(* the number of evidence rows recorded after the seal (late), the one     *)
(* source that may still change.                                           *)
(***************************************************************************)
EXTENDS ProviderCall, LocalSettings, FiniteSets, SequencesExt

CONSTANTS
    MaxRuns,           \* runs, numbered in the order they are finalized
    Kinds,             \* what the sealed evidence of a run may be
    Listing,           \* MAX_*_BATCH of the derived-artifact stages and validation
    GenerationBatch,   \* CANDIDATE_GENERATION_MAX_BATCH_RUNS
    MaxLate,           \* bound on evidence rows of a run recorded after its seal
    MaxGenerations,    \* bound on generation records
    MaxStops           \* bound on process restarts

Runs == 1..MaxRuns

NoGraph == MaxLate + 1

VARIABLES
    kind,         \* what the evidence of a run supports
    sealed,       \* runs 1..sealed are finalized
    gone,         \* runs deleted with everything recorded about them
    late,         \* evidence rows recorded after the seal
    linked,       \* <<run, role>> of the artifacts that never go stale
    graphAt,      \* value of late when the evidence graph was built
    generations,  \* candidate_generations rows
    worker,       \* the pump: stage, remaining work, options snapshot
    stops,        \* restarts so far
    paid          \* history: keys a successful answer came for, unless it was lost

evidence == <<kind, sealed, gone, late, linked, graphAt, generations>>
vars     == <<evidence, control, worker, stops, call, stopping, paid>>

ASSUME AnalysisAssumption ==
    /\ MaxRuns \in Nat /\ MaxLate \in Nat 
    /\ MaxGenerations \in Nat /\ MaxStops \in Nat
    /\ Listing \in Nat \ {0} /\ GenerationBatch \in Nat \ {0}
    /\ Kinds \subseteq {"rich", "poor", "unreadable"}

(***************************************************************************)
(* Roles of the deterministic artifacts a stage derives.                   *)
(***************************************************************************)
Roles == {"classification", "verification", "graph", "semantic"}

StageOrder == <<"sources", "classification", "verification", "evidence_graph",
                "semantic_input", "candidate_generation", "candidate_validation">>

GenerationRow ==
    [number: Nat, run: Runs, provider: Providers,
     status: {"succeeded", "aborted", "transport_failed", "provider_rejected",
              "invalid_response"},
     validated: BOOLEAN]

AnalysisTypeOK ==
    /\ kind \in [Runs -> {"rich", "poor", "unreadable"}]
    /\ sealed \in 0..MaxRuns /\ gone \subseteq 1..sealed
    /\ late \in [Runs -> 0..MaxLate]
    /\ linked \subseteq Runs \X Roles
    /\ graphAt \in [Runs -> 0..NoGraph]
    /\ \A g \in generations : g \in GenerationRow
    /\ SettingsTypeOK
    /\ worker.stage \in 1..Len(StageOrder) /\ worker.todo \in Seq(Nat)
    /\ call \in CallRecord /\ stopping \in BOOLEAN /\ stops \in 0..MaxStops
    /\ paid \subseteq Runs \X Providers

Resting == [stage |-> 1, todo |-> <<>>, opts |-> Off]

Init ==
    /\ kind \in [Runs -> Kinds]
    /\ sealed = 0 /\ gone = {} /\ late = [q \in Runs |-> 0]
    /\ linked = {} /\ graphAt = [q \in Runs |-> NoGraph]
    /\ generations = {}
    /\ SettingsInit
    /\ worker = Resting /\ stops = 0 /\ paid = {}
    /\ CallInit

-----------------------------------------------------------------------------
(***************************************************************************)
(* Readers.  Every read of a derived artifact recomputes it from its       *)
(* sources and throws if the result differs.                               *)
(***************************************************************************)
Live == (1..sealed) \ gone

Has(q, role) == <<q, role>> \in linked

ClassificationReadable(q) == kind[q] # "unreadable"

VerificationReadable(q) == ClassificationReadable(q) /\ Has(q, "classification")

GraphReadable(q) ==
    /\ Has(q, "classification") /\ Has(q, "verification")
    /\ VerificationReadable(q)
    /\ graphAt[q] = late[q]

EligibleSource(q) == Has(q, "graph") /\ GraphReadable(q) /\ kind[q] = "rich"

SemanticReadable(q) == Has(q, "semantic") /\ EligibleSource(q)

GenerationReadable(g) == SemanticReadable(g.run)

ValidationSource(g) ==
    g.status = "succeeded" /\ GenerationReadable(g) /\ GraphReadable(g.run)

(***************************************************************************)
(* The listings: the oldest finalized runs without a role, the oldest with *)
(* a semantic input (whether generated or not), the oldest succeeded       *)
(* generations without a validation.                                       *)
(***************************************************************************)
\* The i-th oldest is the one with i - 1 older ones.
Oldest(S, limit) ==
    [i \in 1..(IF Cardinality(S) < limit THEN Cardinality(S) ELSE limit) |->
        CHOOSE x \in S : Cardinality({y \in S : y < x}) = i - 1]

RunsWithout(role) == Oldest({q \in Live : ~Has(q, role)}, Listing)

SemanticInputRuns == Oldest({q \in Live : Has(q, "semantic")}, GenerationBatch)

Unvalidated ==
    Oldest({g.number : g \in {h \in generations :
                              h.status = "succeeded" /\ ~h.validated}}, Listing)

-----------------------------------------------------------------------------
(***************************************************************************)
(* deleteRun and applyRetention: every row of a run goes with it, at any   *)
(* await of the pump.  The runs of one retention request are deleted in    *)
(* one synchronous loop.                                                   *)
(***************************************************************************)
Cascade(runs) ==
    /\ linked' = {l \in linked : l[1] \notin runs}
    /\ graphAt' = [q \in Runs |-> IF q \in runs THEN NoGraph ELSE graphAt[q]]
    /\ generations' = {g \in generations : g.run \notin runs}

DeleteRun(q) ==
    /\ q \in Live
    /\ gone' = gone \cup {q}
    /\ Cascade({q})
    /\ UNCHANGED <<kind, sealed, late, control, worker, stops, call, stopping,
                   paid>>

(***************************************************************************)
(* The terminal runs that ended before a cutoff, the oldest first.         *)
(***************************************************************************)
RetentionEligible(cutoff) == {q \in Live : q <= cutoff}

ApplyRetention(cutoff) ==
    /\ RetentionEligible(cutoff) # {}
    /\ gone' = gone \cup RetentionEligible(cutoff)
    /\ Cascade(RetentionEligible(cutoff))
    /\ UNCHANGED <<kind, sealed, late, control, worker, stops, call, stopping,
                   paid>>

-----------------------------------------------------------------------------
(***************************************************************************)
(* The pump.                                                               *)
(***************************************************************************)
Stage == StageOrder[worker.stage]

Busy == call.phase # "idle"

(***************************************************************************)
(* What a stage lists and snapshots when it starts.  MaxGenerations bounds *)
(* the failures that are tried again in every cycle.                       *)
(***************************************************************************)
Work(stage) ==
    CASE stage = "classification" -> RunsWithout("classification")
      [] stage = "verification" -> RunsWithout("verification")
      [] stage = "evidence_graph" -> RunsWithout("graph")
      [] stage = "semantic_input" -> IF Options = Off THEN <<>> ELSE RunsWithout("semantic")
      [] stage = "candidate_generation" -> 
            IF Options = Off \/ Cardinality(generations) >= MaxGenerations THEN <<>>
            ELSE SemanticInputRuns
      [] stage = "candidate_validation" -> Unvalidated
      [] OTHER -> <<>>

Snapshot(stage) == IF stage = "candidate_generation" THEN Options ELSE Off

(***************************************************************************)
(* A stage that completed or failed is followed by the next one, or by the *)
(* next cycle; a fired signal skips what is left.                          *)
(***************************************************************************)
EnterNext ==
    LET next == IF worker.stage = Len(StageOrder) THEN 1 ELSE worker.stage + 1
    IN  worker' = [stage |-> next, todo |-> Work(StageOrder[next]),
                   opts |-> Snapshot(StageOrder[next])]

NextStage ==
    /\ worker.todo = <<>> /\ ~Busy /\ ~stopping
    /\ EnterNext
    /\ UNCHANGED <<evidence, control, stops, call, stopping, paid>>

(***************************************************************************)
(* The stages before classification, as far as they matter here: a run is  *)
(* sealed, or evidence of a sealed one is recorded late.                   *)
(***************************************************************************)
Seal ==
    /\ Stage = "sources" /\ ~stopping /\ sealed < MaxRuns
    /\ sealed' = sealed + 1
    /\ UNCHANGED <<kind, gone, late, linked, graphAt, generations, control, worker,
                   stops, call, stopping, paid>>

LateEvidence(q) ==
    /\ Stage = "sources" /\ ~stopping /\ q \in Live
    /\ late[q] < MaxLate
    /\ late' = [late EXCEPT ![q] = @ + 1]
    /\ UNCHANGED <<kind, sealed, gone, linked, graphAt, generations, control, worker,
                   stops, call, stopping, paid>>

Current == Head(worker.todo)

Done == worker' = [worker EXCEPT !.todo = Tail(@)]

(* Mutant: a stage that throws is tried again at once. *)
StageRetries == worker' = worker

(***************************************************************************)
(* A throw ends the stage for this cycle: the rest of its list waits.      *)
(***************************************************************************)
StageFails == worker' = [worker EXCEPT !.todo = <<>>]

Working(stage) == Stage = stage /\ worker.todo # <<>> /\ ~Busy

(***************************************************************************)
(* The triggers of run_artifacts: a deterministic role is linked to a      *)
(* finalized run, once.                                                    *)
(***************************************************************************)
LinkAllowed(q, role) == q \in Live /\ ~Has(q, role)

LinkRoles(roles) ==
    linked' = linked \cup {<<Current, role>> : role \in
                              {r \in roles : LinkAllowed(Current, r)}}

Skip == Done /\ UNCHANGED evidence

Throw == StageFails /\ UNCHANGED evidence

Derive(roles) ==
    /\ LinkRoles(roles)
    /\ Done
    /\ UNCHANGED <<kind, sealed, gone, late, generations>>

OnlyEvidence == UNCHANGED <<control, stops, call, stopping, paid>>

Classify ==
    /\ Working("classification")
    /\ IF Current \notin Live THEN Skip
       ELSE IF ~ClassificationReadable(Current) THEN Throw
       ELSE Derive({"classification"}) /\ UNCHANGED graphAt
    /\ OnlyEvidence

(***************************************************************************)
(* Extraction prepares a missing classification itself, then links its own *)
(* artifact and appends the derived events in one transaction.             *)
(***************************************************************************)
ExtractVerification ==
    /\ Working("verification")
    /\ IF Current \notin Live THEN Skip
       ELSE IF ~ClassificationReadable(Current) THEN Throw
       ELSE Derive({"classification", "verification"}) /\ UNCHANGED graphAt
    /\ OnlyEvidence

(***************************************************************************)
(* The graph stage prepares both sources if they are missing.              *)
(***************************************************************************)
BuildGraph ==
    /\ Working("evidence_graph")
    /\ IF Current \notin Live \/ ~ClassificationReadable(Current) THEN Throw
       ELSE /\ Derive({"classification", "verification", "graph"})
            /\ graphAt' = [graphAt EXCEPT ![Current] = late[Current]]
    /\ OnlyEvidence

(***************************************************************************)
(* No input without a graph, nor from one that supports none; a graph that *)
(* no longer matches its sources throws.                                   *)
(***************************************************************************)
PrepareSemantic ==
    /\ Working("semantic_input")
    /\ IF Current \notin Live \/ ~Has(Current, "graph") THEN Skip
       ELSE IF ~GraphReadable(Current) THEN Throw
       ELSE IF ~EligibleSource(Current) THEN Skip
       ELSE Derive({"semantic"}) /\ UNCHANGED graphAt
    /\ OnlyEvidence

-----------------------------------------------------------------------------
(***************************************************************************)
(* Candidate generation.  The key is the semantic input with the public    *)
(* provider configuration.                                                 *)
(***************************************************************************)
GenerationKey(q, provider) == <<q, provider>>

SucceededFor(q, provider) ==
    {g \in generations : /\ g.status = "succeeded"
                         /\ GenerationKey(g.run, g.provider) = GenerationKey(q, provider)}

(* Mutant: the lookup by key finds failures instead of successes. *)
GeneratedInBatch(q) ==
    \E g \in generations : g.run = q /\ g.status # "succeeded"

AlreadyGenerated(q) == SucceededFor(q, worker.opts.provider) # {}

StartGeneration ==
    /\ Working("candidate_generation")
    /\ \/ /\ Current \in Live /\ SemanticReadable(Current)
          /\ ~AlreadyGenerated(Current)
          /\ BeginCall(Options # Off)
          /\ UNCHANGED <<evidence, worker>>
       \/ /\ \/ Current \notin Live
             \/ Current \in Live /\ SemanticReadable(Current) /\ AlreadyGenerated(Current)
          /\ Skip /\ UNCHANGED <<call, stopping>>
       \/ /\ Current \in Live /\ ~SemanticReadable(Current)
          /\ Throw /\ UNCHANGED <<call, stopping>>
    /\ UNCHANGED <<control, stops, paid>>

(***************************************************************************)
(* A successful answer is paid for; it is lost when the schema refuses its *)
(* attempt log, or when the process ends before it is inserted.            *)
(***************************************************************************)
Succeeded == call.phase = "answered" /\ call.status = "succeeded"

CurrentKey == GenerationKey(Current, worker.opts.provider)

PayForAnswer == paid' = IF Succeeded' THEN paid \cup {CurrentKey} ELSE paid

LoseAnswer == paid' = IF Succeeded THEN paid \ {CurrentKey} ELSE paid

ProviderStep ==
    /\ CallStep(Options # Off)
    /\ PayForAnswer
    /\ UNCHANGED <<evidence, control, worker, stops>>

(* Mutant: only the key is checked, not the run and its input. *)
InsertUnchecked(q) == SucceededFor(q, worker.opts.provider) = {}

(***************************************************************************)
(* The triggers and keys of candidate_generations: the run's finalization  *)
(* and semantic input must still be there, and no success shares the key.  *)
(***************************************************************************)
InsertAllowed(q) ==
    /\ q \in Live /\ Has(q, "semantic")
    /\ call.status = "succeeded" => SucceededFor(q, worker.opts.provider) = {}

InsertGeneration(q) ==
    generations' = generations \cup
        {[number |-> 1 + Max({0} \cup {g.number : g \in generations}),
          run |-> q, provider |-> worker.opts.provider,
          status |-> call.status, validated |-> FALSE]}

AfterGeneration == IF call.status = "aborted" THEN StageFails ELSE Done

(***************************************************************************)
(* The record is parsed, then inserted.  A failure that cannot be inserted *)
(* is only reported, a success that cannot throws unless another one was   *)
(* inserted for its key; a recorded aborted result ends the batch.         *)
(***************************************************************************)
FinishGeneration ==
    /\ call.phase = "answered"
    /\ call' = NoCall
    /\ IF RecordAccepted /\ InsertAllowed(Current)
       THEN InsertGeneration(Current) /\ AfterGeneration
       ELSE /\ UNCHANGED generations
            /\ IF RecordAccepted /\ (call.status # "succeeded" \/ AlreadyGenerated(Current))
               THEN Done ELSE StageFails
    /\ IF RecordAccepted THEN UNCHANGED paid ELSE LoseAnswer
    /\ UNCHANGED <<kind, sealed, gone, late, linked, graphAt, control, stops, stopping>>

(***************************************************************************)
(* Validation reads the whole chain again and links its report.            *)
(***************************************************************************)
Validate ==
    /\ Working("candidate_validation")
    /\ LET found == {g \in generations : g.number = Current}
       IN  IF found = {} THEN Skip
           ELSE IF \E g \in found : ~ValidationSource(g) THEN Throw
           ELSE /\ generations' = {IF g \in found THEN [g EXCEPT !.validated = TRUE] ELSE g :
                                   g \in generations}
                /\ Done
                /\ UNCHANGED <<kind, sealed, gone, late, linked, graphAt>>
    /\ OnlyEvidence

-----------------------------------------------------------------------------
(***************************************************************************)
(* stop() aborts and waits for the cycle, but not for longer than its      *)
(* grace: the process may close its database and exit in any state, and so *)
(* may a crash.  The secret is only in memory.                             *)
(***************************************************************************)
Stop ==
    /\ ~stopping /\ stops < MaxStops
    /\ stopping' = TRUE
    /\ UNCHANGED <<evidence, control, worker, stops, call, paid>>

Restart ==
    /\ stops < MaxStops
    /\ stops' = stops + 1
    /\ stopping' = FALSE /\ call' = NoCall /\ worker' = Resting
    /\ secret' = NoProvider
    /\ LoseAnswer
    /\ UNCHANGED <<evidence, settings, form>>

PumpStep ==
    \/ NextStage \/ Classify \/ ExtractVerification \/ BuildGraph \/ PrepareSemantic
    \/ StartGeneration \/ ProviderStep \/ FinishGeneration \/ Validate

ClientStep ==
    \/ SettingsStep /\ UNCHANGED <<evidence, worker, stops, call, stopping, paid>>
    \/ \E q \in Runs : DeleteRun(q) \/ ApplyRetention(q)

Next ==
    \/ PumpStep \/ ClientStep
    \/ Seal \/ \E q \in Runs : LateEvidence(q)
    \/ Stop \/ Restart

(***************************************************************************)
(* The pump's loop runs as long as the process does; a post ends because   *)
(* its transport arms a deadline, a sleep because its timer fires.         *)
(***************************************************************************)
Spec == Init /\ [][Next]_vars /\ WF_vars(PumpStep)

-----------------------------------------------------------------------------
(***************************************************************************)
(* What the analysis stages must keep true.                                *)
(***************************************************************************)

(***************************************************************************)
(* Nothing survives without what it was derived from, whatever a client    *)
(* deletes while a call is under way: a generation has its run and its     *)
(* semantic input, the input its graph, the graph its two sources.         *)
(***************************************************************************)
ResultsHaveTheirSources ==
    /\ \A g \in generations : g.run \in Live /\ Has(g.run, "semantic")
    /\ \A q \in Runs :
          /\ Has(q, "semantic") => Has(q, "graph") /\ kind[q] = "rich"
          /\ Has(q, "graph") => /\ Has(q, "classification") /\ Has(q, "verification")
                                /\ graphAt[q] # NoGraph
          /\ q \in gone => \A role \in Roles : ~Has(q, role)

(***************************************************************************)
(* A successful answer of the provider that reached the process is bought  *)
(* again, for the same input and provider configuration, only if it was    *)
(* lost on the way to its record: its attempt log was refused              *)
(* (IdentityLost) or the process ended first.  Deleting runs, switching    *)
(* providers back and forth, failures of other runs and restarts cause no  *)
(* second call.  Answers that failed are asked for again by design.        *)
(***************************************************************************)
OnlyLostAnswersAreBoughtAgain ==
    call.phase \in {"resolving", "requesting", "backoff"} => CurrentKey \notin paid

(***************************************************************************)
(* A secret is held, and snapshotted into the options of a batch, only     *)
(* together with the provider it was loaded for.                           *)
(***************************************************************************)
SecretStaysWithItsProvider ==
    /\ secret \in {NoProvider, settings.provider}
    /\ worker.opts.secret = worker.opts.provider

(***************************************************************************)
(* Every answer but two kinds can be recorded: one aborted in its back-off *)
(* and one whose last response carried no identity after an earlier one    *)
(* did; the schema of the attempt log refuses these.                       *)
(***************************************************************************)
AbortedInBackoff == call.status = "aborted" /\ call.attempts # <<>>
                    /\ LastAttempt.outcome # "aborted"

IdentityLost == call.lastId = NoId /\ \E i \in DOMAIN call.attempts : call.attempts[i].id # NoId

AnswersCanBeRecorded ==
    call.phase = "answered" /\ ~AbortedInBackoff /\ ~IdentityLost => RecordAccepted

(***************************************************************************)
(* A provider call as its caller sees it.                                  *)
(***************************************************************************)
Promise == INSTANCE CallPromise WITH
    posts <- Len(call.attempts) + IF call.phase \in {"resolving", "requesting"} THEN 1 ELSE 0,
    answer <- IF call.status \in {"none", "succeeded", "aborted"} THEN call.status ELSE "failed",
    asked <- stopping

KeepsCallPromise == Promise!Spec

(***************************************************************************)
(* Every run that can be read gets its evidence graph, unless it is        *)
(* deleted, the process is stopped for good, or an older run that cannot   *)
(* be read stands before it in every listing.  A run one of whose own      *)
(* documents is refused for good counts as one that cannot be read.        *)
(***************************************************************************)
Obstructed(q) == \E p \in Live : p < q /\ kind[p] = "unreadable"

RunsAreAnalysed ==
    \A q \in Runs :
        (q \in Live /\ kind[q] # "unreadable")
            ~> (Has(q, "graph") \/ q \in gone \/ stopping \/ Obstructed(q))

=============================================================================
