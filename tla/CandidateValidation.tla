--------------------------- MODULE CandidateValidation ---------------------------
(***************************************************************************)
(* Validation of the provider's candidate moments against the evidence     *)
(* graph, without a model: what a candidate's text asserts must follow     *)
(* from facts at the places it cites.  The valid ones are ranked, equal    *)
(* ones merged, and the best become the run's ownership moments.           *)
(* A candidate is [type, text, cites, importance, confidence, length]; its *)
(* text is the set of the phrases in it that the code's patterns know,     *)
(* with any other word standing for itself.  An assertion and a fact are   *)
(* pairs <<family, value>>; the family of a verification status is the     *)
(* kind of the check.                                                      *)
(***************************************************************************)
EXTENDS EvidenceGraph, Candidate

CONSTANTS MaxExpanded, MaxFacts, MaxSelected

ASSUME ValidationLimits == {MaxExpanded, MaxFacts, MaxSelected} \subseteq Nat

\* None, which stands for the code's null, is not the score of a candidate.
ASSUME NoneIsNoScore ==
    None \notin [evidenceStrength : Int, urgency : Int, completeness : Int, importance : Int,
                 confidence : Int, attention : Int]

LabelNames  == SupportedLabels \cup {"unknown"}
ChangeKinds == {"created", "modified", "deleted", "type_changed", "unmerged"}
RunStatuses == {"Completed", "Partial", "Abandoned", "Failed"}
Attributions == {"run_relative", "observed_only", "unavailable"}
DecisionTypes == {"agent.plan_observed", "agent.summary_observed"}

\* A phrase that says one thing: the run's status, an attribution.
RunIs(status)       == <<"run", status>>
AttributedAs(a)     == <<"attribution", a>>

AbsenceWords == {"no", "never", "without", "guaranteed", "safe"}
OutcomeWords == {"passed", "failed", "unknown"}
KnownPhrases ==
    {RunIs(s) : s \in RunStatuses} \cup {AttributedAs(a) : a \in Attributions}
    \cup {Phrase(w) : w \in ChangeKinds \cup LabelNames \cup Kinds \cup OutcomeWords
                            \cup {"evidence_gap", "plan_recorded", "source_partial"}}

(***************************************************************************)
(* What a text says.                                                       *)
(***************************************************************************)
ContainsUnsupportedAbsence(text) == text \cap {Phrase(w) : w \in AbsenceWords} # {}
MeaningfulUnknown(text)          == text \ KnownPhrases

Said(text, words) == {w \in words : Phrase(w) \in text}

\* Every kind of check in the text is said to have every outcome in it; "run
\* failed" holds the word failed, and "tests" is a check and a label.
CheckAssertions(text) ==
    LET kinds    == Said(text, Kinds) \cup (IF Phrase("tests") \in text THEN {"test"} ELSE {})
        outcomes == Said(text, OutcomeWords)
                    \cup (IF RunIs("Failed") \in text THEN {"failed"} ELSE {})
    IN  kinds \X outcomes

Assertions(text) ==
    {<<"change_kind", k>> : k \in Said(text, ChangeKinds)}
    \cup {<<"terminal_status", s>> : s \in {s \in RunStatuses : RunIs(s) \in text}}
    \cup {<<"attribution", a>> : a \in {a \in Attributions : AttributedAs(a) \in text}}
    \cup {<<"classification_label", l>> : l \in Said(text, LabelNames)}
    \cup CheckAssertions(text)
    \cup {<<"evidence_gap", "*">> : w \in Said(text, {"evidence_gap"})}
    \cup {<<"decision_observed", "*">> : w \in Said(text, {"plan_recorded"})}
    \cup {<<"source_partial", "true">> : w \in Said(text, {"source_partial"})}

(***************************************************************************)
(* What the graph knows at the cited nodes and those they expand to.       *)
(***************************************************************************)
Neighbours(ids, edges) ==
    {e[3] : e \in {e \in edges : e[2] \in ids}} \cup {e[2] : e \in {e \in edges : e[3] \in ids}}

ReachableFrom(id, g) ==
    FoldLeft(LAMBDA reached, n : reached \cup Neighbours(reached, g.edges), {id},
             [n \in 1..Cardinality(g.nodes) |-> n])
Connected(cites, g) == \A a, b \in cites : a = b \/ b \in ReachableFrom(a, g)

ExpansionTypes == {"changed_file_classified_by", "classification_assigned_label",
                   "command_has_verification", "test_file_change_supported_by_classification"}

Some(S, n) ==
    IF Cardinality(S) <= n THEN S ELSE {InSomeOrder(S)[i] : i \in 1..n}

(* Mutant: what is cited may be found again on the way back. *)
ExpandedBack(cites, g) ==
    LET edges == {e \in g.edges : e[1] \in ExpansionTypes}
    IN  FoldLeft(LAMBDA seen, n :
                   seen \cup Some(Neighbours(cites \cup seen, edges) \ seen,
                                  MaxExpanded - Cardinality(seen)),
                 {}, <<1, 2, 3>>)

\* Three steps from the cited nodes, and no more than MaxExpanded nodes.
Expanded(cites, g) ==
    LET edges == {e \in g.edges : e[1] \in ExpansionTypes}
    IN  FoldLeft(LAMBDA seen, n :
                   seen \cup Some(Neighbours(cites \cup seen, edges) \ (cites \cup seen),
                                  MaxExpanded - Cardinality(seen)),
                 {}, <<1, 2, 3>>)

Has(node, field) == field \in DOMAIN node.meta

FactsOf(node) ==
    {<<"terminal_status", node.meta[f]>> : f \in {"terminalStatus"} \cap DOMAIN node.meta}
    \cup {<<"change_kind", node.meta[f]>> : f \in {"changeKind"} \cap DOMAIN node.meta}
    \cup {<<"attribution", node.meta[f]>> : f \in {"attribution"} \cap DOMAIN node.meta}
    \cup {<<"classification_label", node.meta[f]>> : f \in {"label"} \cap DOMAIN node.meta}
    \cup {<<"evidence_gap", node.meta[f]>> : f \in {"gapCode"} \cap DOMAIN node.meta}
    \cup (IF Has(node, "verificationKind") /\ Has(node, "observedStatus")
          THEN {<<node.meta.verificationKind, node.meta.observedStatus>>} ELSE {})
    \cup {<<"decision_observed", t>> :
            t \in IF node.id.kind = "event" THEN {node.meta.eventType} \cap DecisionTypes ELSE {}}

NodesAt(ids, g) == {n \in g.nodes : n.id \in ids}

\* A fact and the nodes that show it.
Facts(ids, g) ==
    {[fact |-> f, ids |-> {n.id : n \in {n \in NodesAt(ids, g) : f \in FactsOf(n)}}] :
        f \in UNION {FactsOf(n) : n \in NodesAt(ids, g)}}
    \cup (IF g.outcome = "partial"
          THEN {[fact |-> <<"source_partial", "true">>, ids |-> {}]} ELSE {})

(***************************************************************************)
(* The checks of one candidate.                                            *)
(***************************************************************************)
ChangePlaces == {"changed_file", "classification_entry", "classification_label",
                 "test_file_change"}
RiskPlaces   == {"evidence_gap", "verification_observation", "run", "finalization"}
CitableKinds(type) ==
    CASE type = "change"   -> ChangePlaces
      [] type = "decision" -> {"event"}
      [] type = "risk"     -> RiskPlaces
      [] type = "check"    -> ChangePlaces \cup RiskPlaces \cup {"event"}

ShowsChange(n)   == n.id.kind = "changed_file"
ShowsDecision(n, g) ==
    n.id.kind = "event" /\ n.meta.eventType \in DecisionTypes
    /\ <<"run_contains", RunNode, n.id>> \in g.edges
ShowsRisk(n) ==
    \/ n.id.kind = "evidence_gap"
    \/ n.id.kind = "verification_observation" /\ n.meta.observedStatus # "passed"
    \/ n.id.kind \in {"run", "finalization"} /\ n.meta.terminalStatus # "Completed"

SupportsType(type, nodes, g) ==
    \E n \in nodes : \/ type \in {"change", "check"} /\ ShowsChange(n)
                     \/ type \in {"decision", "check"} /\ ShowsDecision(n, g)
                     \/ type \in {"risk", "check"} /\ ShowsRisk(n)

TypeHasAppropriateAssertion(type, families) ==
    CASE type = "change"   -> families \cap {"change_kind", "classification_label"} # {}
      [] type = "decision" -> "decision_observed" \in families
      [] type = "risk"     -> families \cap (Kinds \cup
                                  {"evidence_gap", "terminal_status", "source_partial"}) # {}
      [] type = "check"    -> families # {}

FactMatches(a, known) ==
    IF a[2] = "*" THEN \E f \in known : f[1] = a[1] ELSE a \in known

(* Mutant: only claims that contradict each other are a conflict. *)
ClaimsConflict(said, known) == \E a, b \in said : a[1] = b[1] /\ a # b

HasConflict(said, known) ==
    \E a \in said : \/ \E b \in said : a[1] = b[1] /\ a # b
                    \/ Cardinality({f \in known : f[1] = a[1]}) > 1

Reasons(c, g) ==
    LET ids      == {n.id : n \in g.nodes}
        support  == c.cites \cup Expanded(c.cites, g)
        nodes    == NodesAt(support, g)
        facts    == Facts(support, g)
        known    == {f.fact : f \in facts}
        said     == Assertions(c.text)
        families == {a[1] : a \in said}
        reason(name, holds) == IF holds THEN {name} ELSE {}
    IN  reason("missing_evidence", ~(c.cites \subseteq ids))
        \cup reason("unsupported_evidence_kind",
                    \E id \in c.cites \cap ids : id.kind \notin CitableKinds(c.type))
        \cup reason("disconnected_evidence", ~Connected(c.cites, g))
        \cup reason("evidence_limit_exceeded", Cardinality(facts) > MaxFacts)
        \cup reason("type_evidence_mismatch", ~SupportsType(c.type, nodes, g))
        \cup reason("unsupported_absence_claim", ContainsUnsupportedAbsence(c.text))
        \cup reason("unsupported_claim_language",
                    \/ said = {} \/ MeaningfulUnknown(c.text) # {}
                    \/ ~TypeHasAppropriateAssertion(c.type, families))
        \cup reason("deterministic_contradiction", \E a \in said : ~FactMatches(a, known))
        \cup reason("conflicting_evidence", HasConflict(said, known))

(***************************************************************************)
(* Ranking.                                                                *)
(***************************************************************************)
Signal == [low |-> 0, medium |-> 20, high |-> 40, critical |-> 60]
TypeOrder == [risk |-> 0, decision |-> 1, change |-> 2, check |-> 3]

Strength(f) ==
    CASE f[1] = "evidence_gap"         -> 400
      [] f[1] \in Kinds           -> IF f[2] = "passed" THEN 120 ELSE 300
      [] f[1] = "terminal_status"      -> 160
      [] f[1] = "decision_observed"    -> 260
      [] f[1] = "change_kind"          -> 220
      [] f[1] = "classification_label" -> 80
      [] f[1] = "attribution"          -> 40
      [] OTHER                         -> 0
Urgency(f) ==
    CASE f[1] = "evidence_gap" -> 300
      [] f[1] \in Kinds /\ f[2] # "passed" -> 250
      [] f[1] = "terminal_status" /\ f[2] # "Completed" -> 250
      [] OTHER -> 0

Least(a, b) == IF a < b THEN a ELSE b

Score(c, facts, g) ==
    LET known == {f.fact : f \in facts}
    IN  [evidenceStrength |-> MapThenSumSet(Strength, known), urgency |-> MapThenSumSet(Urgency, known),
         completeness |-> IF g.outcome = "partial" THEN -50 ELSE 0,
         importance |-> Signal[c.importance], confidence |-> Least(20, c.confidence \div 500),
         attention |-> Least(100, (c.length + 19) \div 20)]
Total(s) == s.evidenceStrength + s.urgency + s.completeness + s.importance + s.confidence
            - s.attention

Draft(c, g, index) ==
    LET expanded == Expanded(c.cites, g)
        facts    == Facts(c.cites \cup expanded, g)
        reasons  == Reasons(c, g)
    IN  [index |-> index, candidate |-> c, expanded |-> expanded, facts |-> Some(facts, MaxFacts),
         reasons |-> reasons,
         score |-> IF reasons = {} THEN Score(c, facts, g) ELSE None,
         signature |-> IF reasons = {} THEN <<c.type, c.cites, expanded, {f.fact : f \in facts}>>
                       ELSE None]

\* a comes before b in the lexicographic order of their keys.
Precedes(a, b) ==
    \E i \in DOMAIN a : a[i] < b[i] /\ \A j \in 1..(i - 1) : a[j] = b[j]

\* representative: the strongest of a group of drafts with one signature.
GroupKey(d) == <<-d.score.evidenceStrength, d.candidate.length, -d.score.importance,
                 -d.score.confidence, d.index>>
Representative(group) ==
    CHOOSE d \in group : \A e \in group \ {d} : Precedes(GroupKey(d), GroupKey(e))

(* Mutant: the ranking looks at the evidence before the total. *)
EvidenceKey(d) == <<-d.score.evidenceStrength, -Total(d.score), d.candidate.length,
                    TypeOrder[d.candidate.type], d.index>>

RankKey(d) == <<-Total(d.score), -d.score.evidenceStrength, d.candidate.length,
                TypeOrder[d.candidate.type], d.index>>

\* A draft's place in the report.
Item(d, drafts) ==
    LET valid    == {e \in drafts : e.reasons = {}}
        best(e)  == Representative({f \in valid : f.signature = e.signature})
        eligible == {e \in valid : best(e) = e}
        rank     == Cardinality({e \in eligible : e = d \/ Precedes(RankKey(e), RankKey(d))})
        item(decision, reasons, representative, r) ==
            [index |-> d.index, cited |-> d.candidate.cites, expanded |-> d.expanded,
             facts |-> d.facts, decision |-> decision, reasons |-> reasons,
             representative |-> representative, score |-> d.score, rank |-> r,
             fingerprint |-> d.candidate]
    IN  IF d.reasons # {} THEN item("rejected", d.reasons, None, None)
        ELSE IF best(d) # d
             THEN item("valid_unselected", {"duplicate_candidate"}, best(d).index, None)
        ELSE IF rank <= MaxSelected THEN item("valid_selected", {}, None, rank)
        ELSE item("valid_unselected", {"ranked_below_limit"}, None, None)

(***************************************************************************)
(* The report and its contract.                                            *)
(***************************************************************************)
ItemsWith(items, decision) == {i \in DOMAIN items : items[i].decision = decision}

ItemIsValid(i) ==
    /\ i.cited # {} /\ i.cited \cap i.expanded = {}
    /\ Cardinality(i.expanded) <= MaxExpanded
    /\ \A f \in i.facts : f.ids \subseteq i.cited \cup i.expanded
    /\ CASE i.decision = "rejected" ->
              /\ i.reasons # {} /\ i.score = None /\ i.rank = None /\ i.representative = None
              /\ i.reasons \cap {"duplicate_candidate", "ranked_below_limit"} = {}
         [] i.decision = "valid_selected" ->
              i.reasons = {} /\ i.score # None /\ i.rank # None /\ i.representative = None
         [] OTHER ->
              /\ i.score # None /\ i.rank = None /\ i.representative # i.index
              /\ i.reasons = IF i.representative = None THEN {"ranked_below_limit"}
                             ELSE {"duplicate_candidate"}

ReportIsValid(r) ==
    LET selected == ItemsWith(r.items, "valid_selected")
    IN  /\ \A k \in DOMAIN r.items :
              LET i == r.items[k]
              IN  /\ ItemIsValid(i) /\ i.index = k
                  /\ i.representative # None =>
                       /\ r.items[i.representative].decision # "rejected"
                       /\ r.items[i.representative].representative = None
        /\ {r.items[i].rank : i \in selected} = 1..Cardinality(selected)
        /\ Cardinality(selected) <= MaxSelected
        /\ r.partial <=> r.limitations # {}

Judgement(batch, g) ==
    LET drafts == [i \in DOMAIN batch |-> Draft(batch[i], g, i)]
    IN  [items |-> [i \in DOMAIN batch |-> Item(drafts[i], ToSet(drafts))],
         partial |-> g.outcome = "partial",
         limitations |-> IF g.outcome = "partial" THEN {"source_graph_partial"} ELSE {}]

Report(batch, g) ==
    LET judgement == Judgement(batch, g)
    IN  IF ReportIsValid(judgement) THEN judgement ELSE Refused

(***************************************************************************)
(* The ownership moments a client is shown: the selected candidates in     *)
(* their ranks, with the evidence that supports them.                      *)
(***************************************************************************)
Moment(item, batch) ==
    LET c == batch[item.index]
    IN  [candidate |-> c, expanded |-> item.expanded, facts |-> item.facts,
         evidence |-> c.cites \cup item.expanded \cup UNION {f.ids : f \in item.facts}]

SelectedItemAgrees(item, batch, g) ==
    /\ item.index \in DOMAIN batch /\ item.fingerprint = batch[item.index]
    /\ item.cited = batch[item.index].cites
    /\ Moment(item, batch).evidence \subseteq {n.id : n \in g.nodes}

Project(report, batch, g) ==
    LET selected == ItemsWith(report.items, "valid_selected")
        ranked   == [r \in 1..Cardinality(selected) |->
                        report.items[CHOOSE i \in selected : report.items[i].rank = r]]
    IN  IF \A i \in selected : SelectedItemAgrees(report.items[i], batch, g)
        THEN [partial |-> report.partial,
              moments |-> [r \in DOMAIN ranked |-> Moment(ranked[r], batch)]]
        ELSE Refused
=============================================================================
