----------------------------- MODULE EvidenceGraph -----------------------------
(***************************************************************************)
(* The evidence graph of a finalized run: one node for the run, each of    *)
(* its events, its baseline, reconciliations, changed files, gaps, seal    *)
(* and artifacts, and for what the classification and the verification     *)
(* derived from them, with the edges between them.  A node's identity is   *)
(* its locator (the code's is a digest of it); sorted arrays are sets.     *)
(***************************************************************************)
EXTENDS VerificationEvidence

CONSTANTS
    MaxNodes, MaxEdges,
    FingerprintBytes,   \* what the input fingerprint may canonicalize
    GraphBytes          \* what the graph artifact may hold

ASSUME GraphLimits == {MaxNodes, MaxEdges, FingerprintBytes, GraphBytes} \subseteq Nat

\* evidenceId: the locator, [kind, at: the numbers in it, sub: the names in it].
Id(kind, at, sub) == [kind |-> kind, at |-> at, sub |-> sub]
RunNode           == Id("run", <<>>, "")
EventNode(e)      == Id("event", <<e>>, "")
BaselineNode      == Id("baseline", <<>>, "")
ReconciliationNode(r)   == Id("reconciliation", <<r>>, "")
FileNode(r, i, e)       == Id("changed_file", <<r, i, e>>, "")
GapNode(g)              == Id("evidence_gap", <<g>>, "")
FinalizationNode        == Id("finalization", <<>>, "")
ArtifactNode(role)      == Id("artifact", <<>>, role)
EntryNode(i, e)         == Id("classification_entry", <<i, e>>, "")
LabelNode(i, label)     == Id("classification_label", <<i>>, label)
RuleNode(rule)          == Id("classification_rule", <<>>, rule)
CommandNode(i, e)       == Id("command_observation", <<i, e>>, "")
VerificationNode(i, k)  == Id("verification_observation", <<i>>, k)
TestFileNode(i, e)      == Id("test_file_change", <<i, e>>, "")

\* The elements of a set, one after the other.
InSomeOrder(S) == FoldSet(LAMBDA x, s : Append(s, x), <<>>, S)

Node(id, meta) == [id |-> id, meta |-> meta]
NoMeta         == [none |-> ""]

(***************************************************************************)
(* buildDeterministicEvidenceGraph, one operator for each loop: the nodes  *)
(* it adds and the edges it adds.                                          *)
(***************************************************************************)
RunNodes(run) ==
    {Node(RunNode, [terminalStatus |-> run.status]),
     Node(FinalizationNode, [terminalStatus |-> run.status, diagnostic |-> run.diagnostic])}
    \cup {Node(EventNode(e.id), [eventType |-> e.type]) : e \in ToSet(run.events)}
    \cup (IF run.baseline = None THEN {} ELSE {Node(BaselineNode, NoMeta)})
    \cup {Node(GapNode(g.id), [gapCode |-> g.code]) : g \in run.gaps}
    \cup {Node(ArtifactNode(role), [artifactKind |-> role]) :
            role \in {"classification", "verification"}
                     \cup (IF run.manifest THEN {"manifest"} ELSE {})}

\* A receipt's later events were normalized with its first one.
SiblingEdges(groups) ==
    UNION {{<<"normalized_with", EventNode(Head(g)), EventNode(e)>> : e \in ToSet(Tail(g))} :
              g \in groups \ {<<>>}}

RunEdges(run) ==
    {<<"run_contains", RunNode, EventNode(e.id)>> : e \in ToSet(run.events)}
    \cup SiblingEdges(run.groups)
    \cup {<<"run_contains", RunNode, FinalizationNode>>}
    \cup (IF run.baseline = None THEN {}
          ELSE {<<"run_contains", RunNode, BaselineNode>>,
                <<"baseline_recorded_by", BaselineNode, EventNode(run.baseline)>>})
    \cup {<<"run_has_gap", RunNode, GapNode(g.id)>> : g \in run.gaps}
    \cup {<<"run_materialized_artifact", RunNode, ArtifactNode(role)>> :
            role \in {"classification", "verification"}
                     \cup (IF run.manifest THEN {"manifest"} ELSE {})}

Files(run) ==
    UNION {{<<r, i, run.reconciliations[r].entries[i]>> :
              i \in DOMAIN run.reconciliations[r].entries} : r \in DOMAIN run.reconciliations}

FileNodes(run) ==
    {Node(ReconciliationNode(r), [attribution |-> run.reconciliations[r].attribution]) :
        r \in DOMAIN run.reconciliations}
    \cup {Node(FileNode(f[1], f[2], f[3].fileEvent),
               [changeKind |-> f[3].changeKind, attribution |-> f[3].attribution]) :
            f \in Files(run)}

FileEdges(run) ==
    (UNION {{<<"run_contains", RunNode, ReconciliationNode(r)>>,
             <<"reconciliation_triggered_by", ReconciliationNode(r),
               EventNode(run.reconciliations[r].trigger)>>,
             <<"reconciliation_summarized_by", ReconciliationNode(r),
               EventNode(run.reconciliations[r].summary)>>} : r \in DOMAIN run.reconciliations})
    \cup UNION {LET file == FileNode(f[1], f[2], f[3].fileEvent)
                IN  {<<"run_contains", RunNode, file>>,
                     <<"reconciliation_observed_file", ReconciliationNode(f[1]), file>>,
                     <<"changed_file_emitted_event", file, EventNode(f[3].fileEvent)>>}
                  : f \in Files(run)}

FinalizationEdges(run) ==
    {<<"finalization_triggered_by", FinalizationNode, EventNode(e)>> : e \in {run.trigger} \ {None}}
    \cup {<<"finalization_uses_reconciliation", FinalizationNode, ReconciliationNode(r)>> :
            r \in {run.reconciliation} \ {None}}
    \cup {<<"finalization_emitted_event", FinalizationNode, EventNode(e)>> :
            e \in {run.snapshot, run.terminal} \ {None}}
    \cup (IF run.manifest
          THEN {<<"finalization_materialized_artifact", FinalizationNode, ArtifactNode("manifest")>>}
          ELSE {})

Entries(classification) ==
    {<<i, classification.entries[i]>> : i \in DOMAIN classification.entries}
Labels(classification) ==
    UNION {{<<x[1], a>> : a \in x[2].labels} : x \in Entries(classification)}
Rules(classification) ==
    UNION {{<<x[1], x[2].label, e>> : e \in x[2].evidence} : x \in Labels(classification)}

ClassificationNodes(c) ==
    {Node(EntryNode(x[1], x[2].fileEvent), NoMeta) : x \in Entries(c)}
    \cup {Node(LabelNode(x[1], x[2].label), [label |-> x[2].label, confidence |-> x[2].confidence]) :
            x \in Labels(c)}
    \cup {Node(RuleNode(x[3].ruleId), [ruleId |-> x[3].ruleId, evidenceKind |-> x[3].kind]) :
            x \in Rules(c)}

\* The changed file of an entry is the one with its file event.
ClassificationEdges(run, c) ==
    {<<"run_contains", RunNode, EntryNode(x[1], x[2].fileEvent)>> : x \in Entries(c)}
    \cup (UNION {{<<"changed_file_classified_by", FileNode(f[1], f[2], f[3].fileEvent),
                    EntryNode(x[1], x[2].fileEvent)>> :
                    f \in {f \in Files(run) : f[3].fileEvent = x[2].fileEvent}} : x \in Entries(c)})
    \cup {<<"classification_assigned_label", EntryNode(x[1], c.entries[x[1]].fileEvent),
            LabelNode(x[1], x[2].label)>> : x \in Labels(c)}
    \cup {<<"classification_supported_by_rule", LabelNode(x[1], x[2]), RuleNode(x[3].ruleId)>> :
            x \in Rules(c)}

Observations(v) == {<<i, v.observations[i]>> : i \in DOMAIN v.observations}
Recognized(v)   == {x \in Observations(v) : x[2].verificationEvent # None}

VerificationNodes(v) ==
    {Node(CommandNode(x[1], x[2].sourceEvent),
          [verificationKind |-> x[2].kind, observedStatus |-> x[2].status]) : x \in Observations(v)}
    \cup {Node(VerificationNode(x[1], x[2].kind),
               [verificationKind |-> x[2].kind, observedStatus |-> x[2].status]) :
            x \in Recognized(v)}
    \cup {Node(TestFileNode(t.entry, t.fileEvent), [verificationKind |-> "test"]) :
            t \in v.testFileChanges}

VerificationEdges(v) ==
    (UNION {LET command == CommandNode(x[1], x[2].sourceEvent)
            IN  {<<"run_contains", RunNode, command>>,
                 <<"command_observed_from_event", command, EventNode(x[2].sourceEvent)>>,
                 <<"command_emitted_event", command, EventNode(x[2].commandEvent)>>}
              : x \in Observations(v)})
    \cup (UNION {LET check == VerificationNode(x[1], x[2].kind)
                 IN  {<<"command_has_verification", CommandNode(x[1], x[2].sourceEvent), check>>,
                      <<"verification_emitted_event", check, EventNode(x[2].verificationEvent)>>}
                   : x \in Recognized(v)})
    \cup UNION {LET change == TestFileNode(t.entry, t.fileEvent)
                IN  {<<"run_contains", RunNode, change>>,
                     <<"test_file_change_supported_by_classification", change,
                       EntryNode(t.entry, t.fileEvent)>>}
                  : t \in v.testFileChanges}

Limitations(run, c, v) ==
    {l \in {"diff_hunks_not_retained", "final_manifest_unavailable", "classification_partial",
            "classification_unavailable", "verification_partial", "verification_unavailable",
            "evidence_gaps_present"} :
        \/ l = "diff_hunks_not_retained" /\ Files(run) # {}
        \/ l = "final_manifest_unavailable" /\ ~run.manifest
        \/ l = "classification_partial" /\ c.outcome = "partial"
        \/ l = "classification_unavailable" /\ c.outcome = "unavailable"
        \/ l = "verification_partial" /\ v.outcome = "partial"
        \/ l = "verification_unavailable" /\ v.outcome = "unavailable"
        \/ l = "evidence_gaps_present" /\ run.gaps # {}}

(***************************************************************************)
(* The contract and the limits.  The fingerprint's input and the artifact  *)
(* are both dominated by the nodes and edges: a node and an edge take      *)
(* about the same number of bytes, the unit of both limits.                *)
(***************************************************************************)
Ids(nodes)    == {n.id : n \in nodes}
NodesOf(g, kind) == {n \in g.nodes : n.id.kind = kind}
BytesOf(nodes, edges) == Cardinality(nodes) + Cardinality(edges)

GraphIsValid(g) ==
    /\ Cardinality(g.nodes) <= MaxNodes /\ Cardinality(g.edges) <= MaxEdges
    /\ \/ g.outcome = "complete" /\ g.limitations = {}
       \/ g.outcome = "partial" /\ g.limitations # {}
    /\ Cardinality(Ids(g.nodes)) = Cardinality(g.nodes)
    /\ \A e \in g.edges : e[2] # e[3] /\ {e[2], e[3]} \subseteq Ids(g.nodes)

\* What the code looks up and throws on: an edge's end that is no node, a
\* file event of two changed files, an entry without its changed file.
SourcesAgree(run, c, nodes, edges) ==
    /\ \A e \in edges : e[2] # e[3] /\ {e[2], e[3]} \subseteq Ids(nodes)
    /\ Cardinality({f[3].fileEvent : f \in Files(run)}) = Cardinality(Files(run))
    /\ \A x \in Entries(c) : \E f \in Files(run) : f[3].fileEvent = x[2].fileEvent
    /\ Cardinality(Ids(nodes)) = Cardinality(nodes)

FitsFingerprint(nodes, edges) == BytesOf(nodes, edges) <= FingerprintBytes

(* Mutant: the test-file evidence is linked before its node is added. *)
NodesWithoutTestFiles(run, c, v) ==
    RunNodes(run) \cup FileNodes(run) \cup ClassificationNodes(c)
    \cup {n \in VerificationNodes(v) : n.id.kind # "test_file_change"}

GraphNodes(run, c, v) ==
    RunNodes(run) \cup FileNodes(run) \cup ClassificationNodes(c) \cup VerificationNodes(v)
GraphEdges(run, c, v) ==
    RunEdges(run) \cup FileEdges(run) \cup FinalizationEdges(run)
    \cup ClassificationEdges(run, c) \cup VerificationEdges(v)

Graph(run, c, v) ==
    LET limitations == Limitations(run, c, v)
    IN  [nodes |-> GraphNodes(run, c, v), edges |-> GraphEdges(run, c, v),
         limitations |-> limitations,
         outcome |-> IF limitations = {} THEN "complete" ELSE "partial"]

BuildGraph(run, c, v) ==
    LET g == Graph(run, c, v)
    IN  IF /\ SourcesAgree(run, c, g.nodes, g.edges)
           /\ FitsFingerprint(g.nodes, g.edges)
           /\ GraphIsValid(g) /\ BytesOf(g.nodes, g.edges) <= GraphBytes
        THEN g ELSE Refused
=============================================================================
