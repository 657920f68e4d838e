------------------------------ MODULE SemanticInput ------------------------------
(***************************************************************************)
(* The semantic input: what the provider may see of a run.  The evidence   *)
(* graph is cut down to summaries, relations and redacted excerpts of the  *)
(* outputs of recognized checks; what does not fit is dropped in chunks,   *)
(* relations first, and the document says that something is missing.       *)
(* Items of one kind are in no particular order (the code sorts them by a  *)
(* digest).                                                                *)
(***************************************************************************)
EXTENDS EvidenceGraph

CONSTANTS
    MaxSupport, MaxSummaries, MaxRelations, MaxExcerpts,
    InputBytes     \* what the artifact may hold, in the units of Weight

\* The run, its end, every limitation of a graph and a gap fit in the summaries.
ASSUME InputLimits ==
    {MaxSupport, MaxSummaries, MaxRelations, MaxExcerpts, InputBytes} \subseteq Nat
    /\ MaxSummaries >= 10

SummaryKinds ==
    <<"run", "finalization", "graph_limitation", "evidence_gap", "artifact",
      "verification_observation", "changed_file", "classification_entry",
      "classification_label", "classification_rule", "test_file_change">>

RelationTypes ==
    {"run_has_gap", "run_contains", "run_materialized_artifact",
     "finalization_uses_reconciliation", "finalization_materialized_artifact",
     "changed_file_classified_by", "classification_assigned_label",
     "classification_supported_by_rule", "command_has_verification",
     "test_file_change_supported_by_classification"}

Limited(n, bound) == IF n < bound THEN n ELSE bound
Prefix(s, n)      == SubSeq(s, 1, Limited(Len(s), n))

(***************************************************************************)
(* Summaries, relations and excerpts of a graph.                           *)
(***************************************************************************)
SupportingIds(id, g) ==
    {e[3] : e \in {e \in g.edges : e[2] = id}} \cup {e[2] : e \in {e \in g.edges : e[3] = id}}

Summary(node, g) ==
    [kind |-> node.id.kind, id |-> node.id, meta |-> node.meta,
     support |-> Limited(Cardinality(SupportingIds(node.id, g)), MaxSupport)]

SummariesOf(kind, g) ==
    IF kind = "graph_limitation"
    THEN {[kind |-> kind, id |-> RunNode, meta |-> [limitation |-> l], support |-> 0] :
            l \in g.limitations}
    ELSE {Summary(n, g) : n \in NodesOf(g, kind)}

Summaries(g) ==
    FlattenSeq([i \in DOMAIN SummaryKinds |-> InSomeOrder(SummariesOf(SummaryKinds[i], g))])

Relations(g) == InSomeOrder({e \in g.edges : e[1] \in RelationTypes})

\* The redaction replaces what must not leave the machine; an excerpt of
\* blanks is left out.
Redact(text) == IF text = "secret" THEN "redacted" ELSE text

Excerpts(v) ==
    LET outputs == UNION {{<<x, o>> : o \in x[2].outputs} : x \in Recognized(v)}
    IN  InSomeOrder({[id |-> VerificationNode(p[1][1], p[1][2].kind), kind |-> p[1][2].kind,
                   status |-> p[1][2].status, field |-> p[2].field, text |-> Redact(p[2].text),
                   sourceTruncated |-> p[2].truncated]
                    : p \in {p \in outputs : p[2].text # "blank"}})

(***************************************************************************)
(* The budget.  A summary weighs three and one for each supporting node, a *)
(* relation three, an excerpt eight.                                       *)
(***************************************************************************)
Weight(c) ==
    3 * Len(c.summaries) + FoldLeft(LAMBDA n, s : n + s.support, 0, c.summaries)
    + 3 * Len(c.relations) + 8 * Len(c.excerpts)

DropPriority(s) ==
    IF s.kind \in {"run", "finalization", "graph_limitation", "evidence_gap"} THEN 0
    ELSE IF s.kind \in {"artifact", "verification_observation"} THEN 1 ELSE 2

\* How many of n items go when the document weighs w: their share of the
\* excess, rounded up, and at least one.
ChunkOf(n, w) ==
    LET over == IF w > InputBytes THEN w - InputBytes ELSE 1
    IN  IF n * over <= w THEN 1 ELSE (n * over + w - 1) \div w

DropLast(s, n) == SubSeq(s, 1, Len(s) - Limited(n, Len(s)))

\* The last n summaries of a priority.
DropSummaries(s, priority, n) ==
    LET removable == {i \in DOMAIN s : DropPriority(s[i]) = priority}
        dropped   == {i \in removable : Cardinality({j \in removable : j > i}) < n}
        kept(i)   == i \notin dropped
    IN  [k \in 1..(Len(s) - Cardinality(dropped)) |->
            s[CHOOSE i \in DOMAIN s :
                kept(i) /\ Cardinality({j \in 1..i : kept(j)}) = k]]

Removable(c, priority) ==
    Cardinality({i \in DOMAIN c.summaries : DropPriority(c.summaries[i]) = priority})

DropSome(c) ==
    LET w == Weight(c)
        summariesOf(priority) ==
            LET n == ChunkOf(Removable(c, priority), w)
            IN  [c EXCEPT !.summaries = DropSummaries(@, priority, n),
                          !.droppedSummaries = @ + Limited(n, Removable(c, priority))]
    IN  IF c.relations # <<>>
        THEN LET n == ChunkOf(Len(c.relations), w)
             IN  [c EXCEPT !.relations = DropLast(@, n), !.droppedRelations = @ + n]
        ELSE IF c.excerpts # <<>>
        THEN LET n == ChunkOf(Len(c.excerpts), w)
             IN  [c EXCEPT !.excerpts = DropLast(@, n), !.droppedExcerpts = @ + n]
        ELSE IF Removable(c, 2) > 0 THEN summariesOf(2)
        ELSE IF Removable(c, 1) > 0 THEN summariesOf(1)
        ELSE c

Fits(c) == Weight(c) <= InputBytes

\* The loop's bound is the number of items and four.
Reduced(c) ==
    FoldLeft(LAMBDA x, i : IF Fits(x) THEN x ELSE DropSome(x), c,
             [i \in 1..(Len(c.summaries) + Len(c.relations) + Len(c.excerpts) + 4) |-> i])

(* Mutant: what the caps cut off before the loop is not counted. *)
FirstCutUncounted(g, v) ==
    [summaries |-> Prefix(Summaries(g), MaxSummaries),
     relations |-> Prefix(Relations(g), MaxRelations),
     excerpts  |-> Prefix(Excerpts(v), MaxExcerpts),
     droppedSummaries |-> 0, droppedRelations |-> 0, droppedExcerpts |-> 0]

FirstCut(g, v) ==
    LET summaries == Summaries(g)
        relations == Relations(g)
        excerpts  == Excerpts(v)
    IN  [summaries |-> Prefix(summaries, MaxSummaries),
         relations |-> Prefix(relations, MaxRelations),
         excerpts  |-> Prefix(excerpts, MaxExcerpts),
         droppedSummaries |-> Len(summaries) - Limited(Len(summaries), MaxSummaries),
         droppedRelations |-> Len(relations) - Limited(Len(relations), MaxRelations),
         droppedExcerpts  |-> Len(excerpts) - Limited(Len(excerpts), MaxExcerpts)]

Truncated(c) == c.droppedSummaries + c.droppedRelations + c.droppedExcerpts > 0

InputDocument(g, c) ==
    [outcome |-> IF g.outcome = "complete" /\ ~Truncated(c) THEN "ready" ELSE "partial",
     diagnostic |-> IF g.outcome = "complete"
                    THEN IF Truncated(c) THEN "budget_truncated" ELSE None
                    ELSE IF Truncated(c) THEN "source_partial_and_budget_truncated"
                    ELSE "source_partial",
     graphOutcome |-> g.outcome, limitations |-> g.limitations \cup
                        (IF Truncated(c) THEN {"budget_truncated"} ELSE {}),
     content |-> c]

(***************************************************************************)
(* The contract.                                                           *)
(***************************************************************************)
ExcerptIsValid(x, summaries) ==
    /\ x.text # "secret"
    /\ \E s \in summaries : /\ s.kind = "verification_observation" /\ s.id = x.id
                            /\ s.meta.verificationKind = x.kind
                            /\ s.meta.observedStatus = x.status

InputIsValid(d) ==
    LET summaries == ToSet(d.content.summaries)
        ofKind(k) == {s \in summaries : s.kind = k}
        truncated == "budget_truncated" \in d.limitations
    IN  /\ \/ /\ d.outcome = "ready" /\ d.diagnostic = None
              /\ d.graphOutcome = "complete" /\ d.limitations = {}
           \/ /\ d.outcome = "partial"
              /\ d.diagnostic = IF d.graphOutcome = "complete"
                                THEN "budget_truncated"
                                ELSE IF truncated THEN "source_partial_and_budget_truncated"
                                ELSE "source_partial"
              /\ d.graphOutcome = "complete" => truncated
        /\ truncated <=> Truncated(d.content)
        /\ Cardinality(summaries) = Len(d.content.summaries)
        /\ Cardinality(ofKind("run")) = 1 /\ Cardinality(ofKind("finalization")) = 1
        /\ \A r \in ofKind("run"), f \in ofKind("finalization") :
               r.id = RunNode /\ r.meta.terminalStatus = f.meta.terminalStatus
        /\ \A x \in ToSet(d.content.excerpts) : ExcerptIsValid(x, summaries)

(***************************************************************************)
(* prepareDeterministicSemanticAnalysisInput: a document, an unavailable   *)
(* one when the run's own summaries alone are too large, or Refused.       *)
(***************************************************************************)
Unavailable == [outcome |-> "unavailable", limitations |-> {"budget_truncated"}]

SourceIsOwned(run, g) ==
    /\ \A n \in NodesOf(g, "run") \cup NodesOf(g, "finalization") :
           n.meta.terminalStatus = run.status
    /\ \A n \in NodesOf(g, "verification_observation") : n.meta.verificationKind # "unknown"

PrepareInput(run, g, v) ==
    LET c == Reduced(FirstCut(g, v))
        d == InputDocument(g, c)
    IN  IF ~SourceIsOwned(run, g) THEN Refused
        ELSE IF ~Fits(c) THEN Unavailable
        ELSE IF InputIsValid(d) THEN d ELSE Refused
=============================================================================
