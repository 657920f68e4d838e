------------------------------- MODULE RunContent -------------------------------
(***************************************************************************)
(* The contents of the analysis chain: what a run recorded (changed files, *)
(* tool results, gaps, how it ended), and what each stage makes of it:     *)
(* classification, verification evidence, evidence graph, semantic         *)
(* input, then the provider's candidates, their validation and the         *)
(* ownership moments shown.  The order of the stages and their failures    *)
(* are AnalysisStages's; here each stage runs once and its document is     *)
(* Refused when the code throws.                                           *)
(***************************************************************************)
EXTENDS SemanticInput, CandidateValidation

CONSTANTS
    FileChanges,    \* [changeKind, sensitivity, path]: what Git may show of a file
    Commands,       \* Bash results: [id, type, tool, command, response, error]
    Seals,          \* how a run ends: [status, diagnostic, baseline, final, manifest, gaps],
                    \*   each of its gaps [id, code]
    Proposals,      \* [type, text, importance, confidence, length, choices] of a candidate
    MaxItems, MaxBatch,   \* bounds: files and commands of a run, candidates of a batch,
    MaxWork               \*   and all of these together

ASSUME ContentAssumption ==
    /\ None \notin Nat /\ None \notin Seals /\ None # Refused
    /\ None \notin {"captured", "classification_unavailable", "classification_partial",
                    "source_observation_partial", "source_and_classification_partial"}
    /\ \A s \in Seals : /\ IsFiniteSet(s.gaps) /\ s.status \in RunStatuses
                        /\ \A g, h \in s.gaps : g.id = h.id => g = h
    /\ \A p \in Proposals : p.length \in Nat
    /\ \A c \in Commands :
           /\ DOMAIN c = {"id", "type", "tool", "command", "response", "error"} /\ IsBashResult(c)
           /\ IsFiniteSet(c.response.outputs) /\ IsFiniteSet(c.error)

VARIABLES
    files,       \* changed files the reconciliation will show, in order
    commands,    \* tool results, in order
    turnFiles,   \* the files of the reconciliation of an earlier turn, or None
    seal,        \* how the run ended, or None
    classification, verification, graph, input,   \* documents, None before their stage
    batch,       \* the candidates the provider returned
    report, moments

evidenceVars == <<files, commands, turnFiles, seal>>
vars == <<evidenceVars, classification, verification, graph, input, batch, report, moments>>

ContentInit ==
    /\ files = <<>> /\ commands = <<>> /\ turnFiles = None /\ seal = None
    /\ classification = None /\ verification = None /\ graph = None /\ input = None
    /\ batch = <<>> /\ report = None /\ moments = None

-----------------------------------------------------------------------------
(***************************************************************************)
(* The run's rows, as the stages read them.  Event identities: the run's   *)
(* start 1 and prompt 2, the end of a tool batch 3, the last Stop 4 and    *)
(* its sibling 7, the final snapshot 5, the terminal event 6, the          *)
(* summaries of the two reconciliations 8 and 9; in the i-th place, the    *)
(* tool result 10 * i, what is derived of it next to it, and the file      *)
(* event of reconciliation r, 10 * i + r + 2: no two are the same.         *)
(***************************************************************************)
Event(id, type)   == [id |-> id, type |-> type]
ToolEvent(i)      == [commands[i] EXCEPT !.id = 10 * i]
FileEvent(r, i)   == 10 * i + r + 2
SummaryEvent(r)   == 7 + r

Entry(r, i, f, attribution) ==
    [fileEvent |-> FileEvent(r, i), changeKind |-> f.changeKind, attribution |-> attribution,
     sensitivity |-> f.sensitivity, path |-> f.path]

\* What an observation can be attributed to, from the run's baseline.
Attribution(baseline, observed) ==
    IF observed = "partial" \/ baseline \notin {"clean", "dirty"} THEN "unavailable"
    ELSE IF baseline = "clean" THEN "run_relative" ELSE "observed_only"

ReconciliationOf(r, trigger, fs, observed) ==
    LET attribution == Attribution(seal.baseline, observed)
    IN  [attribution |-> attribution,
         outcome |-> IF attribution = "unavailable" THEN "partial" ELSE "captured",
         trigger |-> trigger, summary |-> SummaryEvent(r),
         entries |-> [i \in DOMAIN fs |-> Entry(r, i, fs[i], attribution)]]

Reconciliations ==
    (IF turnFiles = None THEN <<>>
     ELSE <<ReconciliationOf(1, 3, turnFiles, "captured")>>)
    \o (IF seal.final = None THEN <<>>
        ELSE <<ReconciliationOf(2, 4, files, seal.final)>>)

FinalReconciliation ==
    IF seal.final = None THEN None ELSE Reconciliations[Len(Reconciliations)]

FileEvents(rs) ==
    FlattenSeq([r \in DOMAIN rs |->
        <<Event(rs[r].trigger, IF rs[r].trigger = 3 THEN "tool.batch_completed"
                               ELSE IF seal.status = "Failed" THEN "run.stop_failed"
                               ELSE "run.stop_observed")>>
        \o [i \in DOMAIN rs[r].entries |->
               Event(rs[r].entries[i].fileEvent, "file.change_observed")]
        \o <<Event(rs[r].summary, "git.diff_computed")>>])

TerminalEventType(status) ==
    CASE status = "Completed" -> "run.completed" [] status = "Partial" -> "run.partial"
      [] status = "Failed" -> "run.failed" [] status = "Abandoned" -> "run.abandoned"

SourceEvents ==
    <<Event(1, "run.started"), Event(2, "user.prompt_submitted")>>
    \o [i \in DOMAIN commands |-> ToolEvent(i)]
    \o FileEvents(Reconciliations)
    \o (IF seal.final = None THEN <<>>
        ELSE <<Event(7, "run.finalization_started"), Event(5, "snapshot.final_captured")>>)
    \o <<Event(6, TerminalEventType(seal.status))>>

DerivedEvents(v) ==
    FlattenSeq([i \in DOMAIN v.observations |->
        <<Event(v.observations[i].commandEvent, "command.completed")>>
        \o (IF v.observations[i].verificationEvent = None THEN <<>>
            ELSE <<Event(v.observations[i].verificationEvent, "test.observed")>>)])

RunRecord(v) ==
    [status |-> seal.status, diagnostic |-> seal.diagnostic,
     events |-> SourceEvents \o DerivedEvents(v),
     groups |-> {<<1, 2>>} \cup (IF seal.final = None THEN {} ELSE {<<4, 7>>}),
     baseline |-> IF seal.baseline = None THEN None ELSE 1,
     reconciliations |-> Reconciliations,
     gaps |-> seal.gaps,
     trigger |-> IF seal.final = None THEN None ELSE 4,
     reconciliation |-> IF seal.final = None THEN None ELSE Len(Reconciliations),
     snapshot |-> IF seal.final = None THEN None ELSE 5,
     terminal |-> 6, manifest |-> seal.manifest]

-----------------------------------------------------------------------------
(***************************************************************************)
(* The run is recorded, then sealed.                                       *)
(***************************************************************************)
\* A file the reconciliation will retain.  An output of Git with a path it cannot
\* read retains no file at all, and the observation is partial.
ChangeFile(f) ==
    /\ seal = None /\ Len(files) + Len(commands) < MaxItems
    /\ IsReadable(f.path)
    /\ files' = Append(files, f)
    /\ UNCHANGED <<commands, turnFiles, seal, classification, verification, graph,
                   input, batch, report, moments>>

RunCommand(c) ==
    /\ seal = None /\ Len(files) + Len(commands) < MaxItems
    /\ commands' = Append(commands, c)
    /\ UNCHANGED <<files, turnFiles, seal, classification, verification, graph,
                   input, batch, report, moments>>

EndTurn ==
    /\ seal = None /\ turnFiles = None /\ files # <<>> /\ turnFiles' = files
    /\ UNCHANGED <<files, commands, seal, classification, verification, graph,
                   input, batch, report, moments>>

SealRun(s) ==
    /\ seal = None /\ seal' = s
    /\ UNCHANGED <<files, commands, turnFiles, classification, verification, graph,
                   input, batch, report, moments>>

(***************************************************************************)
(* The stages.                                                             *)
(***************************************************************************)
Made(document) == document \notin {None, Refused}

ClassifyChanges ==
    /\ seal # None /\ classification = None
    /\ classification' = Classify(FinalReconciliation)
    /\ UNCHANGED <<evidenceVars, verification, graph, input, batch, report, moments>>

ExtractEvidence ==
    /\ Made(classification) /\ verification = None
    /\ verification' = Extract(classification, SourceEvents)
    /\ UNCHANGED <<evidenceVars, classification, graph, input, batch, report, moments>>

BuildEvidenceGraph ==
    /\ Made(verification) /\ graph = None
    /\ graph' = BuildGraph(RunRecord(verification), classification, verification)
    /\ UNCHANGED <<evidenceVars, classification, verification, input, batch, report, moments>>

PrepareSemanticInput ==
    /\ Made(graph) /\ input = None
    /\ input' = PrepareInput(RunRecord(verification), graph, verification)
    /\ UNCHANGED <<evidenceVars, classification, verification, graph, batch, report, moments>>

\* A provider cites what it was shown, what does not suit the type of its
\* claim, or an identity that is none; places at which claims of one type
\* differ in nothing are enumerated once.
Foreign == Id("changed_file", <<9, 9, 9>>, "")
CitedKinds(type) ==
    CASE type = "change"   -> {"changed_file", "classification_label", "evidence_gap"}
      [] type = "decision" -> {"event", "run"}
      [] type = "risk"     -> {"evidence_gap", "verification_observation", "run"}
      [] type = "check"    -> {"changed_file", "verification_observation"}

Citations(type) ==
    LET places == {id \in {n.id : n \in graph.nodes} :
                      /\ id.kind \in CitedKinds(type)
                      /\ id.kind = "event" => id.at[1] \in {1, 2}}
        pairs  == {id \in places : id.kind \in {"changed_file", "verification_observation"}}
    IN  {{id} : id \in places} \cup {{a, b} : a, b \in pairs} \cup {{RunNode, Foreign}}

Proposed(p, cites) ==
    [type |-> p.type, text |-> p.text, importance |-> p.importance, confidence |-> p.confidence,
     length |-> p.length, cites |-> cites, interaction |-> AskedInteraction(p.type, p.choices)]

\* An answer the contract refuses is a failed call and brings no batch.
Propose(p, cites) ==
    /\ Made(input) /\ input.outcome # "unavailable" /\ report = None
    /\ Len(batch) < MaxBatch /\ Len(files) + Len(commands) + Len(batch) < MaxWork
    /\ BatchIsValid(Append(batch, Proposed(p, cites)))
    /\ batch' = Append(batch, Proposed(p, cites))
    /\ UNCHANGED <<evidenceVars, classification, verification, graph, input, report, moments>>

ValidateCandidates ==
    /\ batch # <<>> /\ report = None
    /\ report' = Report(batch, graph)
    /\ UNCHANGED <<evidenceVars, classification, verification, graph, input, batch, moments>>

ProjectMoments ==
    /\ Made(report) /\ moments = None
    /\ moments' = Project(report, batch, graph)
    /\ UNCHANGED <<evidenceVars, classification, verification, graph, input, batch, report>>

ContentNext ==
    \/ \E f \in FileChanges : ChangeFile(f)
    \/ \E c \in Commands : RunCommand(c)
    \/ EndTurn
    \/ \E s \in Seals : SealRun(s)
    \/ ClassifyChanges \/ ExtractEvidence \/ BuildEvidenceGraph \/ PrepareSemanticInput
    \/ Made(graph) /\ \E p \in Proposals : \E cites \in Citations(p.type) : Propose(p, cites)
    \/ ValidateCandidates \/ ProjectMoments

ContentSpec == ContentInit /\ [][ContentNext]_vars

-----------------------------------------------------------------------------
(***************************************************************************)
(* Whatever a run recorded, every stage before the provider produces a     *)
(* document its own contract accepts, so that the stages after it can read *)
(* it: the schemas of packages/contracts are checked on the way into every *)
(* artifact, and one refusal keeps a run from its moments for ever.  The   *)
(* only refusal is that of the classifier, and only of a run that keeps a  *)
(* file at the end whose path is not canonical (engine.ts:41-63).          *)
(***************************************************************************)
DocumentsAreAccepted ==
    /\ Refused \notin {verification, graph, input}
    /\ classification = Refused =>
           seal.final # None /\ \E i \in DOMAIN files : ~IsCanonical(files[i].path)

(***************************************************************************)
(* What that needs.  The rows: a secret file shows no path, a tool result  *)
(* does not contradict itself (source.ts:48-115), its exit code fits 32    *)
(* bits, and an output appears once.  The size of the run: its graph is    *)
(* within the limits, and its checks are within those of the summaries.    *)
(***************************************************************************)
RowsAreLegal ==
    /\ \A f \in FileChanges : f.sensitivity = "secret" => f.path = NoPath
    /\ \A c \in Commands :
           /\ AcceptedObservation(c) # Refused
           /\ ExitCodeOf(c.response) \in {None} \cup ((-MaxExitCode - 1)..MaxExitCode)
           /\ \A o, p \in c.response.outputs \cup c.error : o.field = p.field => o = p

RunFits ==
    /\ Made(verification) =>
           LET g == Graph(RunRecord(verification), classification, verification)
           IN  /\ Cardinality(g.nodes) <= MaxNodes /\ Cardinality(g.edges) <= MaxEdges
               /\ BytesOf(g.nodes, g.edges) <= FingerprintBytes
               /\ BytesOf(g.nodes, g.edges) <= GraphBytes
    /\ Made(graph) =>
           Cardinality({n \in graph.nodes : DropPriority(n.id) < 2})
             + Cardinality(graph.limitations) <= MaxSummaries

(***************************************************************************)
(* Whatever batch the provider returns, if its contract accepts it, the    *)
(* answer is judged and shown: the report the validator makes of it passes *)
(* the report's own contract, with ranks without a gap, representatives    *)
(* that stand for themselves and evidence cited or found but not both      *)
(* (validator.ts:787-955, candidate-validation.ts:237-492), and every item *)
(* selected agrees with the batch and the graph when the projection reads  *)
(* them again (projection.ts:92-145).  A refusal would pay for an answer   *)
(* and lose it.                                                            *)
(***************************************************************************)
AnswersAreJudged ==
    /\ report # None => ReportIsValid(Judgement(batch, graph))
    /\ Made(report) =>
           \A i \in ItemsWith(report.items, "valid_selected") :
               SelectedItemAgrees(report.items[i], batch, graph)

(***************************************************************************)
(* What the evidence itself says, told from the rows alone.                *)
(***************************************************************************)
FileAt(id) == IF id.at[1] = Len(Reconciliations) /\ seal.final # None
              THEN files[id.at[2]] ELSE turnFiles[id.at[2]]
FilesAt(ids)    == {FileAt(id) : id \in {id \in ids : id.kind = "changed_file"}}
CommandsAt(ids) ==
    {commands[id.at[1]] : id \in {id \in ids : id.kind = "verification_observation"}}

\* A label's place is that of a file of the last reconciliation.  The file itself
\* need not be among the evidence, which stops at MaxExpanded places.
LabelledAt(ids) == {files[id.at[1]] : id \in {id \in ids : id.kind = "classification_label"}}
HasLabel(f, l)  == IF l = "unknown" THEN MatchingRules(f.path) = {}
                   ELSE l \in {r.label : r \in MatchingRules(f.path)}

\* The command's own result: an exit code where it gave one.
Ended(c) ==
    IF c.type = "tool.failed" THEN "failed"
    ELSE IF c.response.form = "object" /\ 0 \in {c.response.camel, c.response.snake}
    THEN "passed" ELSE "open"

Holds(a, ids) ==
    CASE a[1] = "change_kind" ->
           FilesAt(ids) # {} /\ \A f \in FilesAt(ids) : f.changeKind = a[2]
      [] a[1] = "attribution" ->
           \E f \in {id \in ids : id.kind = "changed_file"} :
               a[2] = Reconciliations[f.at[1]].attribution
      [] a[1] = "classification_label" ->
           LabelledAt(ids) # {} /\ \A f \in LabelledAt(ids) : HasLabel(f, a[2])
      [] a[1] = "terminal_status" -> seal.status = a[2]
      [] a[1] = "evidence_gap" -> seal.gaps # {}
      [] a[1] = "decision_observed" -> FALSE
      [] a[1] = "source_partial" ->
           seal.final # "captured" \/ seal.baseline \notin {"clean", "dirty"} \/ ~seal.manifest \/ seal.gaps # {} \/ files # <<>>
           \/ turnFiles \notin {None, <<>>} \/ verification.outcome # "extracted"
      [] OTHER ->
           /\ \E c \in CommandsAt(ids) : Recognize(c.command).kind = a[1]
           /\ \A c \in CommandsAt(ids) : Recognize(c.command).kind = a[1] => Ended(c) = a[2]

(***************************************************************************)
(* A moment shown to the user says only what the run's own rows say at the *)
(* places it cites, whatever the provider claimed: every assertion in its  *)
(* text holds of the files and commands behind its evidence, of all of     *)
(* them that bear on it, and it promises nothing about what was not        *)
(* observed (validator.ts:668-738, projection.ts:89-147).                  *)
(***************************************************************************)
ShownMomentsAreTrue ==
    Made(moments) =>
        \A i \in DOMAIN moments.moments :
            LET m == moments.moments[i]
            IN  /\ \A a \in Assertions(m.candidate.text) : Holds(a, m.evidence)
                /\ Assertions(m.candidate.text) # {}
                /\ m.candidate.text \subseteq KnownPhrases

(***************************************************************************)
(* What the user is not shown is not better than what is: a valid          *)
(* candidate is left out only for one of the same type and evidence that   *)
(* is shown or ranked in its place, or because the list is full of         *)
(* candidates with at least its score (validator.ts:740-754, 825-850).     *)
(***************************************************************************)
NothingBetterIsHidden ==
    Made(report) =>
        LET items  == report.items
            valid  == {i \in DOMAIN items : items[i].decision # "rejected"}
            shown  == {i \in valid : items[i].rank # None}
            same(i, j) == /\ items[i].cited = items[j].cited
                          /\ batch[i].type = batch[j].type
        IN  /\ \A i, j \in shown : i # j => ~same(i, j)
            /\ \A i \in valid \ shown :
                   \/ \E j \in valid : /\ j # i /\ same(i, j) /\ items[j].representative = None
                                       /\ items[j].score.evidenceStrength
                                            >= items[i].score.evidenceStrength
                   \/ /\ Cardinality(shown) = MaxSelected
                      /\ \A j \in shown : Total(items[j].score) >= Total(items[i].score)

(***************************************************************************)
(* An input that does not say it was cut shows the provider every summary, *)
(* relation and excerpt the graph has; and one that was cut still says     *)
(* how the run ended and every gap (reducer.ts:564-704).  Told before the  *)
(* provider answers: the input does not change afterwards.                 *)
(***************************************************************************)
TruncationIsAdmitted ==
    (Made(input) /\ input.outcome # "unavailable" /\ batch = <<>>) =>
        LET kinds == {s.kind : s \in ToSet(input.content.summaries)}
        IN  /\ \/ "budget_truncated" \in input.limitations
               \/ /\ ToSet(input.content.summaries) = ToSet(Summaries(graph))
                  /\ Len(input.content.relations) = Len(Relations(graph))
                  /\ Len(input.content.excerpts) = Len(Excerpts(verification))
            /\ {"run", "finalization"} \subseteq kinds
            /\ seal.gaps # {} => "evidence_gap" \in kinds
=============================================================================
