----------------------------- MODULE DocumentProofs -----------------------------
(***************************************************************************)
(* The theorem that the documents made before the provider is asked are    *)
(* accepted by their contracts, for every run with legal rows.             *)
(***************************************************************************)
EXTENDS ContentProofs

-----------------------------------------------------------------------------
(***************************************************************************)
(* The documents of a run with legal rows, one after the other.  The rule  *)
(* table: what a rule says of itself.                                      *)
(***************************************************************************)
FullScore   == 10000
BasisPoints == 1 .. FullScore

KindOfRule(id) ==
    IF id \in {"authentication.path_segment", "configuration.infrastructure_segment",
               "database.path_segment", "documentation.path_segment",
               "public_api.path_segment", "ui.component_path"} THEN "path_segment"
    ELSE IF id \in {"configuration.exact_filename", "dependency.package_manifest",
                    "documentation.exact_filename"} THEN "exact_filename"
    ELSE IF id \in {"database.extension", "documentation.extension",
                    "ui.frontend_extension"} THEN "extension"
    ELSE IF id = "fallback.no_supported_rule" THEN "fallback" ELSE "path_pattern"

Described(rules) ==
    \A r \in rules : /\ r.label \in SupportedLabels /\ r.confidence \in BasisPoints
                     /\ r.kind = KindOfRule(r.ruleId) /\ r.kind # "fallback"

LEMMA JoinedAreDescribed == \A S, T : Described(S) /\ Described(T) => Described(S \cup T)
BY DEF Described

LEMMA ConfidencesAreBasisPoints ==
    /\ 6500 \in BasisPoints /\ 7000 \in BasisPoints /\ 7500 \in BasisPoints
    /\ 8500 \in BasisPoints /\ 9000 \in BasisPoints /\ 9500 \in BasisPoints
    /\ 9800 \in BasisPoints /\ 10000 \in BasisPoints
BY DEF BasisPoints, FullScore

LEMMA RulesAreDescribed == ASSUME NEW p PROVE Described(MatchingRules(p))
<1>1. Described(AuthenticationRules(p))
  BY ConfidencesAreBasisPoints DEF Described, AuthenticationRules, Rule, KindOfRule, SupportedLabels
<1>2. Described(BehaviorRules(p))
  BY ConfidencesAreBasisPoints DEF Described, BehaviorRules, Rule, KindOfRule, SupportedLabels
<1>3. Described(ConfigurationRules(p))
  BY ConfidencesAreBasisPoints DEF Described, ConfigurationRules, Rule, KindOfRule, SupportedLabels
<1>4. Described(DatabaseRules(p))
  BY ConfidencesAreBasisPoints DEF Described, DatabaseRules, Rule, KindOfRule, SupportedLabels
<1>5. Described(DependencyAndDocumentationRules(p))
  BY ConfidencesAreBasisPoints
     DEF Described, DependencyAndDocumentationRules, Rule, KindOfRule, SupportedLabels
<1>6. Described(ApiTestAndUiRules(p))
  BY ConfidencesAreBasisPoints DEF Described, ApiTestAndUiRules, Rule, KindOfRule, SupportedLabels
<1> QED
  BY <1>1, <1>2, <1>3, <1>4, <1>5, <1>6, JoinedAreDescribed DEF MatchingRules

LEMMA SameSize ==
    ASSUME NEW f, IsFiniteSet(DOMAIN f), \A x, y \in DOMAIN f : f[x] = f[y] => x = y
    PROVE  IsFiniteSet(Range(f)) /\ Cardinality(Range(f)) = Cardinality(DOMAIN f)
<1> DEFINE g == [x \in DOMAIN f |-> f[x]]
<1>1. g \in Injection(DOMAIN f, Range(f)) /\ g \in Surjection(DOMAIN f, Range(f))
  BY DEF Injection, IsInjective, Surjection, Range
<1> HIDE DEF g
<1>2. IsFiniteSet(Range(f))
  BY FiniteImage
<1> QED
  BY <1>1, <1>2, FS_Injection

LEMMA NineLabels == IsFiniteSet(SupportedLabels) /\ Cardinality(SupportedLabels) <= 9
<1> DEFINE name(i) == CASE i = 1 -> "ui" [] i = 2 -> "behavior" [] i = 3 -> "tests"
                        [] i = 4 -> "dependency" [] i = 5 -> "authentication_authorization"
                        [] i = 6 -> "public_api" [] i = 7 -> "database_migration"
                        [] i = 8 -> "configuration_infrastructure" [] OTHER -> "documentation"
           f == [i \in 1 .. 9 |-> name(i)]
<1>1. \A l \in SupportedLabels : \E i \in 1 .. 9 : l = name(i)
  <2>1. /\ name(1) = "ui" /\ name(2) = "behavior" /\ name(3) = "tests"
        /\ name(4) = "dependency" /\ name(5) = "authentication_authorization"
        /\ name(6) = "public_api" /\ name(7) = "database_migration"
        /\ name(8) = "configuration_infrastructure" /\ name(9) = "documentation"
    OBVIOUS
  <2> HIDE DEF name
  <2>2. /\ 1 \in 1 .. 9 /\ 2 \in 1 .. 9 /\ 3 \in 1 .. 9 /\ 4 \in 1 .. 9 /\ 5 \in 1 .. 9
        /\ 6 \in 1 .. 9 /\ 7 \in 1 .. 9 /\ 8 \in 1 .. 9 /\ 9 \in 1 .. 9
    OBVIOUS
  <2> QED BY <2>1, <2>2 DEF SupportedLabels
<1> HIDE DEF name
<1>2. SupportedLabels \subseteq Range(f) /\ DOMAIN f = 1 .. 9
  BY <1>1 DEF Range
<1> HIDE DEF f
<1>3. IsFiniteSet(1 .. 9) /\ Cardinality(1 .. 9) = 9
  <2>1. 1 \in Int /\ 9 \in Int
    OBVIOUS
  <2>2. IsFiniteSet(1 .. 9) /\ Cardinality(1 .. 9) = IF 1 > 9 THEN 0 ELSE 9 - 1 + 1
    BY <2>1, FS_Interval
  <2> QED BY <2>2
<1>4. IsFiniteSet(Range(f)) /\ Cardinality(Range(f)) <= 9
  BY <1>2, <1>3, FiniteImage
<1>5. IsFiniteSet(SupportedLabels) /\ Cardinality(SupportedLabels) <= Cardinality(Range(f))
  BY <1>2, <1>4, FS_Subset
<1>6. Cardinality(SupportedLabels) \in Nat /\ Cardinality(Range(f)) \in Nat
  BY <1>4, <1>5, FS_CardinalityType
<1> QED BY <1>4, <1>5, <1>6

\* The labels of a path are told apart by their names, and are those a document may have.
LabelsOf(p) == {a.label : a \in ClassifyPath(p)}

LEMMA PathLabels ==
    ASSUME NEW p
    PROVE  /\ \A a \in ClassifyPath(p) : LabelIsValid(a)
           /\ \A a, b \in ClassifyPath(p) : a.label = b.label => a = b
           /\ \A a \in ClassifyPath(p) : \A e \in a.evidence :
                  e = [ruleId |-> e.ruleId, kind |-> KindOfRule(e.ruleId)]
           /\ ClassifyPath(p) # {}
           /\ "unknown" \in LabelsOf(p) => LabelsOf(p) = {"unknown"}
           /\ LabelsOf(p) \subseteq SupportedLabels \/ LabelsOf(p) = {"unknown"}
<1> DEFINE rules == MatchingRules(p)
           labelled(l) == {r \in rules : r.label = l}
           scores(l) == {r.confidence : r \in labelled(l)}
           made(l) == [label |-> l, confidence |-> Max(scores(l)),
               evidence |-> {[ruleId |-> r.ruleId, kind |-> r.kind] : r \in labelled(l)}]
<1>1. CASE rules = {}
  <2>1. ClassifyPath(p) = {UnknownLabel}
    BY <1>1 DEF ClassifyPath
  <2>2. LabelIsValid(UnknownLabel)
    BY DEF LabelIsValid, UnknownLabel
  <2>3. /\ UnknownLabel.label = "unknown"
        /\ \A e \in UnknownLabel.evidence :
               e = [ruleId |-> e.ruleId, kind |-> KindOfRule(e.ruleId)]
    BY DEF UnknownLabel, KindOfRule
  <2>4. LabelsOf(p) = {"unknown"}
    BY <2>1, <2>3 DEF LabelsOf
  <2> QED BY <2>1, <2>2, <2>3, <2>4
<1>2. CASE rules # {}
  <2>1. ClassifyPath(p) = {made(l) : l \in {r.label : r \in rules}}
    BY <1>2 DEF ClassifyPath
  <2>2. Described(rules)
    BY RulesAreDescribed
  <2> HIDE DEF rules
  <2>3. ASSUME NEW a \in ClassifyPath(p)
        PROVE  /\ a = made(a.label) /\ a.label \in SupportedLabels /\ a.label # "unknown"
               /\ labelled(a.label) # {}
    <3>1. PICK r \in rules : a = made(r.label)
      <4> HIDE DEF made
      <4> QED BY <2>1
    <3>2. a.label = r.label
      BY <3>1
    <3>3. r \in labelled(r.label)
      OBVIOUS
    <3>4. r.label \in SupportedLabels /\ r.label # "unknown"
      BY <2>2 DEF Described, SupportedLabels
    <3> HIDE DEF made, labelled
    <3> QED BY <3>1, <3>2, <3>3, <3>4
  <2>4. ASSUME NEW a \in ClassifyPath(p)
        PROVE  /\ LabelIsValid(a)
               /\ \A e \in a.evidence : e = [ruleId |-> e.ruleId, kind |-> KindOfRule(e.ruleId)]
    <3> DEFINE l == a.label
               R == labelled(l)
    <3>1. a = made(l) /\ l # "unknown" /\ R # {}
      BY <2>3
    <3>2. \A r \in R : r \in rules
      OBVIOUS
    <3>3. scores(l) \in SUBSET BasisPoints /\ scores(l) # {}
      BY <2>2, <3>1, <3>2 DEF Described
    <3>4. Max(scores(l)) \in BasisPoints
      <4> DEFINE S == scores(l)
      <4> HIDE DEF S
      <4>1. FullScore \in Nat
        BY DEF FullScore
      <4>2. S \in SUBSET (1 .. FullScore) /\ S # {}
        BY <3>3 DEF BasisPoints, S
      <4>3. Max(S) \in S
        BY <4>1, <4>2, MaxIn
      <4> QED BY <3>3, <4>3 DEF S
    <3>5. a.confidence = Max(scores(l))
          /\ a.evidence = {[ruleId |-> r.ruleId, kind |-> r.kind] : r \in R}
      BY <3>1
    <3> HIDE DEF R, scores
    <3>6. a.confidence > 0
      <4>1. \A x \in BasisPoints : x > 0
        BY DEF BasisPoints, FullScore
      <4>2. a.confidence \in BasisPoints
        BY <3>4, <3>5
      <4> QED BY <4>1, <4>2
    <3>7. a.evidence # {}
      BY <3>1, <3>5
    <3>8. ASSUME NEW e \in a.evidence
          PROVE  e = [ruleId |-> e.ruleId, kind |-> KindOfRule(e.ruleId)] /\ e.kind # "fallback"
      <4>1. PICK r \in R : e = [ruleId |-> r.ruleId, kind |-> r.kind]
        BY <3>5
      <4>2. r.kind = KindOfRule(r.ruleId) /\ r.kind # "fallback"
        BY <2>2, <3>2 DEF Described
      <4> QED BY <4>1, <4>2
    <3> QED BY <3>1, <3>6, <3>7, <3>8 DEF LabelIsValid, l
  <2>5. \A a, b \in ClassifyPath(p) : a.label = b.label => a = b
    <3> HIDE DEF made, labelled
    <3> QED BY <2>3
  <2>6. ClassifyPath(p) # {}
    <3> HIDE DEF made
    <3> QED BY <1>2, <2>1
  <2>7. LabelsOf(p) \subseteq SupportedLabels /\ "unknown" \notin LabelsOf(p)
    <3> HIDE DEF made, labelled
    <3> QED BY <2>3 DEF LabelsOf
  <2> QED BY <2>4, <2>5, <2>6, <2>7
<1> QED BY <1>1, <1>2

LEMMA CountedLabels ==
    ASSUME NEW p
    PROVE  /\ Cardinality(LabelsOf(p)) = Cardinality(ClassifyPath(p))
           /\ Cardinality(LabelsOf(p)) \in 1 .. 10
           /\ "unknown" \in LabelsOf(p) => Cardinality(LabelsOf(p)) = 1
<1> DEFINE f == [a \in ClassifyPath(p) |-> a.label]
<1>1. Range(f) = LabelsOf(p) /\ DOMAIN f = ClassifyPath(p)
  BY DEF Range, LabelsOf
<1>2. \A x, y \in DOMAIN f : f[x] = f[y] => x = y
  BY PathLabels
<1> HIDE DEF f
<1>3. IsFiniteSet(LabelsOf(p)) /\ Cardinality(LabelsOf(p)) = Cardinality(ClassifyPath(p))
  BY <1>1, <1>2, FiniteLabels, SameSize
<1>4. Cardinality({"unknown"}) = 1
  BY FS_Singleton
<1>5. Cardinality(LabelsOf(p)) \in Nat /\ (Cardinality(LabelsOf(p)) = 0 <=> LabelsOf(p) = {})
  BY <1>3, FS_CardinalityType, FS_EmptySet
<1>6. LabelsOf(p) # {}
  BY PathLabels DEF LabelsOf
<1>7. LabelsOf(p) \subseteq SupportedLabels => Cardinality(LabelsOf(p)) <= 9
  <2>1. ASSUME LabelsOf(p) \subseteq SupportedLabels
        PROVE  Cardinality(LabelsOf(p)) <= 9
    <3>1. Cardinality(LabelsOf(p)) <= Cardinality(SupportedLabels)
      BY <2>1, NineLabels, FS_Subset
    <3>2. Cardinality(SupportedLabels) \in Nat
      BY NineLabels, FS_CardinalityType
    <3> QED BY <1>5, <3>1, <3>2, NineLabels
  <2> QED BY <2>1
<1>8. Cardinality(LabelsOf(p)) >= 1
  BY <1>5, <1>6
<1>9. LabelsOf(p) \subseteq SupportedLabels \/ LabelsOf(p) = {"unknown"}
  BY PathLabels
<1>10. Cardinality(LabelsOf(p)) \in 1 .. 10
  BY <1>4, <1>5, <1>7, <1>8, <1>9
<1>11. "unknown" \in LabelsOf(p) => LabelsOf(p) = {"unknown"}
  BY PathLabels
<1> QED BY <1>3, <1>4, <1>10, <1>11

LEMMA CountingUp == ASSUME NEW n \in Nat PROVE IsFiniteSet(1 .. n) /\ Cardinality(1 .. n) = n
<1>1. 1 \in Int /\ n \in Int
  OBVIOUS
<1>2. IsFiniteSet(1 .. n) /\ Cardinality(1 .. n) = IF 1 > n THEN 0 ELSE n - 1 + 1
  BY <1>1, FS_Interval
<1>3. (IF 1 > n THEN 0 ELSE n - 1 + 1) = n
  OBVIOUS
<1> QED BY <1>2, <1>3

LEMMA DistinctElements ==
    ASSUME NEW s, IsSequence(s), NEW f, DOMAIN f = DOMAIN s,
           \A i, j \in DOMAIN s : f[i] = f[j] => i = j
    PROVE  IsFiniteSet(Range(f)) /\ Cardinality(Range(f)) = Len(s)
<1>1. DOMAIN s = 1 .. Len(s) /\ Len(s) \in Nat
  BY SequenceElements
<1>2. IsFiniteSet(DOMAIN s) /\ Cardinality(DOMAIN s) = Len(s)
  BY <1>1, CountingUp
<1> QED BY <1>2, SameSize

(***************************************************************************)
(* What stands for a refusal is no document: every document has an         *)
(* outcome.                                                                *)
(***************************************************************************)
RefusedIsNoDocument == "outcome" \notin DOMAIN Refused

\* The entries the classification reads are those of the last reconciliation.
LEMMA EntriesToClassify ==
    ASSUME ContentInv, seal # None, FinalReconciliation # None
    PROVE  /\ IsSequence(FinalReconciliation.entries)
           /\ FinalReconciliation.outcome \in {"captured", "partial"}
           /\ DOMAIN FinalReconciliation.entries \subseteq DOMAIN files
           /\ \A i \in DOMAIN FinalReconciliation.entries :
                  /\ i \in Nat /\ files[i] \in FileChanges
                  /\ FinalReconciliation.entries[i].fileEvent = FileEvent(2, i)
                  /\ FinalReconciliation.entries[i].sensitivity = files[i].sensitivity
                  /\ FinalReconciliation.entries[i].path = files[i].path
<1> DEFINE rec == ReconciliationOf(2, 4, files, seal.final)
<1>1. RowsInv /\ FinalReconciliation = rec
  BY LastReconciliation DEF ContentInv
<1>2. rec.outcome \in {"captured", "partial"}
  BY DEF ReconciliationOf
<1>3. ASSUME NEW i \in DOMAIN rec.entries
      PROVE  i \in DOMAIN files /\ rec.entries[i] = Entry(2, i, files[i], Attribution(seal.baseline, seal.final))
  BY EntriesOfReconciliations
<1> HIDE DEF rec
<1>4. \A i \in DOMAIN files : i \in Nat /\ files[i] \in FileChanges
  BY <1>1 DEF RowsInv
<1>5. ASSUME NEW i \in DOMAIN rec.entries
      PROVE  /\ i \in DOMAIN files /\ i \in Nat /\ files[i] \in FileChanges
             /\ rec.entries[i].fileEvent = FileEvent(2, i)
             /\ rec.entries[i].sensitivity = files[i].sensitivity
             /\ rec.entries[i].path = files[i].path
  <2>1. \A a : /\ Entry(2, i, files[i], a).fileEvent = FileEvent(2, i)
               /\ Entry(2, i, files[i], a).sensitivity = files[i].sensitivity
               /\ Entry(2, i, files[i], a).path = files[i].path
    BY DEF Entry
  <2>2. i \in DOMAIN files /\ rec.entries[i] = Entry(2, i, files[i], Attribution(seal.baseline, seal.final))
    BY <1>3
  <2> QED BY <1>4, <2>1, <2>2
<1>6. IsSequence(rec.entries)
  BY <1>1, FinalEntries
<1> QED BY <1>1, <1>2, <1>5, <1>6

LEMMA ChangesAreClassified ==
    ASSUME ContentInv, seal # None, RowsAreLegal, RefusedIsNoDocument,
           seal.final # None => \A i \in DOMAIN files : IsCanonical(files[i].path)
    PROVE  Classify(FinalReconciliation) # Refused
<1> DEFINE rec == FinalReconciliation
           es  == IF rec = None THEN <<>> ELSE ClassifyEntries(rec.entries)
           d   == [outcome |-> IF rec = None THEN "unavailable"
                               ELSE IF rec.outcome = "captured" THEN "classified" ELSE "partial",
                   reconciled |-> ~(rec = None),
                   diagnostic |-> IF rec = None THEN "reconciliation_unavailable"
                                  ELSE IF rec.outcome = "partial" THEN "reconciliation_partial"
                                  ELSE None,
                   entries |-> es, aggregates |-> AggregateLabels(es)]
           legal == rec = None \/ \A i \in DOMAIN rec.entries : PathIsLegal(rec.entries[i])
<1>1. Classify(rec) = IF legal /\ ClassificationIsValid(d) THEN d ELSE Refused
  BY DEF Classify
<1>2. legal
  <2>1. ASSUME rec # None, NEW i \in DOMAIN rec.entries PROVE PathIsLegal(rec.entries[i])
    <3>1. /\ i \in DOMAIN files /\ files[i] \in FileChanges
          /\ rec.entries[i].sensitivity = files[i].sensitivity
          /\ rec.entries[i].path = files[i].path
      BY <2>1, EntriesToClassify
    <3>2. seal.final # None
      BY <2>1 DEF FinalReconciliation
    <3>3. IsCanonical(files[i].path)
      BY <3>1, <3>2
    <3> HIDE DEF rec
    <3> QED BY <3>1, <3>3 DEF RowsAreLegal, PathIsLegal
  <2> QED BY <2>1
<1>3. /\ IsSequence(es)
      /\ rec = None => es = <<>>
      /\ \A i \in DOMAIN es : /\ rec # None /\ i \in DOMAIN rec.entries
                              /\ es[i].fileEvent = rec.entries[i].fileEvent
                              /\ es[i].labels = ClassifyPath(rec.entries[i].path)
  <2>1. CASE rec = None
    <3>1. es = <<>>
      BY <2>1
    <3> QED BY <2>1, <3>1, ShortSequences
  <2>2. CASE rec # None
    <3>1. IsSequence(rec.entries)
      BY <2>2, EntriesToClassify
    <3>2. DOMAIN rec.entries = 1 .. Len(rec.entries) /\ Len(rec.entries) \in Nat
      BY <3>1, SequenceElements
    <3> HIDE DEF rec
    <3>3. es = [i \in 1 .. Len(rec.entries) |-> es[i]]
      BY <2>2, <3>2 DEF ClassifyEntries
    <3>4. \A i \in DOMAIN rec.entries : /\ es[i].fileEvent = rec.entries[i].fileEvent
                                        /\ es[i].labels = ClassifyPath(rec.entries[i].path)
      BY <2>2 DEF ClassifyEntries
    <3> HIDE DEF es
    <3>5. IsSequence(es) /\ DOMAIN es = DOMAIN rec.entries
      BY <3>2, <3>3, MappedIsSequence
    <3> QED BY <2>2, <3>4, <3>5
  <2> QED BY <2>1, <2>2
<1>4. /\ d.entries = es /\ d.aggregates = AggregateLabels(d.entries)
      /\ d.reconciled = ~(rec = None)
      /\ rec = None => d.outcome = "unavailable" /\ d.diagnostic = "reconciliation_unavailable"
      /\ rec # None /\ rec.outcome = "captured" => d.outcome = "classified" /\ d.diagnostic = None
      /\ rec # None /\ rec.outcome = "partial" =>
             d.outcome = "partial" /\ d.diagnostic = "reconciliation_partial"
      /\ "outcome" \in DOMAIN d
  OBVIOUS
<1>5. rec # None => rec.outcome \in {"captured", "partial"}
  BY EntriesToClassify
<1>6. ASSUME NEW i \in DOMAIN es PROVE EntryIsValid(es[i])
  <2> DEFINE p == rec.entries[i].path
  <2>1. es[i].labels = ClassifyPath(p) /\ {a.label : a \in es[i].labels} = LabelsOf(p)
    BY <1>3 DEF LabelsOf
  <2> HIDE DEF p, es
  <2> QED BY <2>1, PathLabels, CountedLabels DEF EntryIsValid
<1>7. Cardinality({es[i].fileEvent : i \in DOMAIN es}) = Len(es)
  <2> DEFINE f == [i \in DOMAIN es |-> es[i].fileEvent]
  <2>1. \A i \in DOMAIN es : es[i].fileEvent = 10 * i + 4 /\ i \in Nat
    <3> HIDE DEF es
    <3>1. ASSUME NEW i \in DOMAIN es PROVE es[i].fileEvent = 10 * i + 4 /\ i \in Nat
      <4>1. es[i].fileEvent = FileEvent(2, i) /\ i \in Nat
        BY <1>3, EntriesToClassify
      <4> QED BY <4>1 DEF FileEvent
    <3> QED BY <3>1
  <2> HIDE DEF es
  <2>2. {es[i].fileEvent : i \in DOMAIN es} = Range(f) /\ DOMAIN f = DOMAIN es
    BY DEF Range
  <2>3. \A i, j \in DOMAIN es : f[i] = f[j] => i = j
    BY <2>1
  <2> HIDE DEF f
  <2> QED BY <1>3, <2>2, <2>3, DistinctElements
<1> HIDE DEF d, es, rec, legal
<1>8. ClassificationIsValid(d)
  BY <1>3, <1>4, <1>5, <1>6, <1>7 DEF ClassificationIsValid
<1>9. Classify(rec) = d
  BY <1>1, <1>2, <1>8
<1> QED BY <1>4, <1>9 DEF RefusedIsNoDocument, rec

(***************************************************************************)
(* A command is recognized as a check of a family, or as nothing.          *)
(***************************************************************************)
IsRecognition(r) ==
    IF r.kind = "unknown" THEN r.ruleId = Unrecognized.ruleId /\ r.family = "unknown"
    ELSE r.kind \in Kinds /\ r.family # "unknown"

LEMMA NothingIsRecognition == IsRecognition(Unrecognized)
BY DEF IsRecognition, Unrecognized

LEMMA ScriptIsRecognition ==
    ASSUME NEW family, family # "unknown", NEW tokens
    PROVE  IsRecognition(PackageScript(family, tokens))
<1>1. "unknown" \notin Kinds
  BY DEF Kinds
<1>2. CASE PackageScript(family, tokens) = Unrecognized
  BY <1>2, NothingIsRecognition
<1>3. CASE PackageScript(family, tokens) # Unrecognized
  <2>1. /\ Head(tokens) \in Kinds
        /\ PackageScript(family, tokens)
             = [kind |-> Head(tokens), ruleId |-> <<"package_script", family>>, family |-> family]
    BY <1>3 DEF PackageScript
  <2> QED BY <1>1, <2>1 DEF IsRecognition
<1> QED BY <1>2, <1>3

LEMMA ToolIsRecognition ==
    ASSUME NEW wrapper, NEW tokens
    PROVE  IsRecognition(DirectTool(wrapper, tokens))
<1> DEFINE always == {<<t[2], t[1]>> : t \in {t \in AlwaysTools : t[1] = Head(tokens)}}
           withArgument == {<<t[3], t[4]>> : t \in {t \in ArgumentTools :
                              t[1] = Head(tokens) /\ t[2] \in ToSet(Tail(tokens))}}
           withSubcommand == {<<t[3], t[1]>> : t \in {t \in SubcommandTools :
                              IsPrefix(<<t[1], t[2]>>, tokens)}}
           found == IF tokens = <<>> THEN {} ELSE always \cup withArgument \cup withSubcommand
           IsTool(f) == f[1] \in Kinds /\ f[2] # "unknown"
<1>1. DirectTool(wrapper, tokens) =
         IF found = {} THEN Unrecognized
         ELSE LET f == CHOOSE f \in found : TRUE
              IN  [kind |-> f[1], ruleId |-> <<wrapper, f[2]>>, family |-> f[2]]
  BY DEF DirectTool
<1>2. \A f \in always : IsTool(f)
  BY DEF AlwaysTools, Kinds
<1>3. \A f \in withArgument : IsTool(f)
  BY DEF ArgumentTools, Kinds
<1>4. \A f \in withSubcommand : IsTool(f)
  <2>1. \A f \in withSubcommand : \E t \in SubcommandTools : f = <<t[3], t[1]>>
    <3> DEFINE P(t) == IsPrefix(<<t[1], t[2]>>, tokens)
    <3>1. withSubcommand = {<<t[3], t[1]>> : t \in {t \in SubcommandTools : P(t)}}
      OBVIOUS
    <3> HIDE DEF P, withSubcommand
    <3> QED BY <3>1
  <2>2. \A t \in SubcommandTools : t[3] \in Kinds /\ t[1] # "unknown"
    BY DEF SubcommandTools, Kinds
  <2> HIDE DEF withSubcommand
  <2>3. ASSUME NEW f \in withSubcommand PROVE IsTool(f)
    <3>1. PICK t \in SubcommandTools : f = <<t[3], t[1]>>
      BY <2>1
    <3> QED BY <2>2, <3>1
  <2> QED BY <2>3
<1> HIDE DEF always, withArgument, withSubcommand
<1>5. \A f \in found : f[1] \in Kinds /\ f[2] # "unknown"
  BY <1>2, <1>3, <1>4
<1> HIDE DEF found
<1>6. "unknown" \notin Kinds
  BY DEF Kinds
<1>7. CASE found = {}
  BY <1>1, <1>7, NothingIsRecognition
<1>8. CASE found # {}
  BY <1>1, <1>5, <1>6, <1>8 DEF IsRecognition
<1> QED BY <1>7, <1>8

LEMMA CommandsAreRecognized == ASSUME NEW tokens PROVE IsRecognition(Recognize(tokens))
<1>1. /\ \A t : IsRecognition(PackageScript("npm", t))
      /\ \A t : IsRecognition(PackageScript("pnpm", t))
      /\ \A t : IsRecognition(PackageScript("yarn", t))
      /\ \A t : IsRecognition(PackageScript("bun", t))
  BY ScriptIsRecognition
<1>2. \A w, t : IsRecognition(DirectTool(w, t))
  BY ToolIsRecognition
<1> QED BY <1>1, <1>2, NothingIsRecognition DEF Recognize

\* What is accepted of a legal command, at its place.
LEMMA LegalResults ==
    ASSUME ContentInv, RowsAreLegal, RefusedIsNoDocument, NEW i \in DOMAIN commands
    PROVE  LET s == AcceptedObservation(ToolEvent(i))
               o == Observation(s)
           IN  /\ i \in Nat /\ s # Refused
               /\ s.sourceEvent = 10 * i
               /\ o.sourceEvent = 10 * i /\ o.commandEvent = 10 * i + 1
               /\ o.verificationEvent = IF o.kind = "unknown" THEN None ELSE 10 * i + 2
               /\ ObservationIsValid(o)
<1> DEFINE c == commands[i]
           e == ToolEvent(i)
           s == AcceptedObservation(e)
           o == Observation(s)
<1>1. i \in Nat /\ c \in Commands
  BY DEF ContentInv, RowsInv
<1>2. /\ e.type = c.type /\ e.command = c.command /\ e.response = c.response
      /\ e.error = c.error /\ e.id = 10 * i
      /\ c.type \in {"tool.succeeded", "tool.failed"}
  BY <1>1, ContentAssumption DEF ToolEvent, IsBashResult
<1>3. /\ AcceptedObservation(c) # Refused
      /\ ExitCodeOf(c.response) \in {None} \cup ((-MaxExitCode - 1)..MaxExitCode)
      /\ \A x, y \in c.response.outputs \cup c.error : x.field = y.field => x = y
  BY <1>1 DEF RowsAreLegal
<1> HIDE DEF c, e
<1> DEFINE outcome == IF c.type = "tool.succeeded" THEN "succeeded" ELSE "failed"
           code == ExitCodeOf(c.response)
           shown == (IF c.response.form \in {"object", "text"} THEN c.response.outputs ELSE {})
                    \cup (IF outcome = "failed" THEN c.error ELSE {})
<1>4. /\ ~ResultConflicts(outcome, code)
      /\ ~(c.response.form = "object" /\ CodesConflict(c.response))
      /\ ~(outcome = "failed" /\ c.error = {})
  BY <1>3 DEF AcceptedObservation
<1>5. s = [sourceEvent |-> e.id, outcome |-> outcome, command |-> c.command,
           recognition |-> Recognize(c.command), exitCode |-> code,
           outputs |-> {ReduceOutput(x) : x \in shown},
           partial |-> c.command = None \/ ResponseIsPartial(c.response, outcome)]
  BY <1>2, <1>4 DEF AcceptedObservation
<1>6. \A x, y \in shown : x.field = y.field => x = y
  BY <1>3
<1> HIDE DEF code, shown, outcome
<1>7. /\ s.sourceEvent = 10 * i /\ s.outcome = outcome /\ s.exitCode = code
      /\ s.recognition = Recognize(c.command)
      /\ s.outputs = {ReduceOutput(x) : x \in shown}
      /\ "outcome" \in DOMAIN s
  BY <1>2, <1>5
<1> HIDE DEF s
<1>8. s # Refused
  BY <1>7 DEF RefusedIsNoDocument
<1>9. /\ o.sourceEvent = 10 * i /\ o.commandEvent = 10 * i + 1
      /\ o.kind = s.recognition.kind /\ o.ruleId = s.recognition.ruleId
      /\ o.family = s.recognition.family
      /\ o.outcome = outcome /\ o.exitCode = code /\ o.outputs = s.outputs
      /\ o.status = StatusOf(s)
      /\ o.verificationEvent = IF o.kind = "unknown" THEN None ELSE 10 * i + 2
  BY <1>7 DEF Observation, CommandEventOf, VerificationEventOf
<1> HIDE DEF o
<1>10. Cardinality({x.field : x \in o.outputs}) = Cardinality(o.outputs)
  <2> DEFINE f == [x \in o.outputs |-> x.field]
  <2>1. \A x : ReduceOutput(x).field = x.field
    BY DEF ReduceOutput
  <2>2. \A x, y \in o.outputs : x.field = y.field => x = y
    BY <1>6, <1>7, <1>9, <2>1
  <2>3. IsFiniteSet(o.outputs)
    BY <1>1, <1>2, <1>8, AcceptedOutputs, ContentAssumption DEF o, s
  <2>4. Range(f) = {x.field : x \in o.outputs} /\ DOMAIN f = o.outputs
    BY DEF Range
  <2>5. \A x, y \in DOMAIN f : f[x] = f[y] => x = y
    BY <2>2
  <2> HIDE DEF f
  <2> QED BY <2>3, <2>4, <2>5, SameSize
<1>11. IsRecognition(s.recognition)
  BY <1>7, CommandsAreRecognized
<1>12. o.kind # "unknown" => o.verificationEvent # None
  BY <1>1, <1>9, ContentAssumption
<1>13. outcome \in {"succeeded", "failed"} /\ (outcome = "failed" <=> c.type # "tool.succeeded")
  BY DEF outcome
<1>14. StatusOf(s) = IF o.kind = "unknown" THEN "unknown"
                     ELSE IF outcome = "failed" THEN "failed"
                     ELSE IF code = 0 THEN "passed" ELSE "observed_without_exit_code"
  BY <1>7, <1>9 DEF StatusOf
<1>15. o.exitCode = None \/ o.exitCode \in (-MaxExitCode - 1)..MaxExitCode
  BY <1>3, <1>9 DEF code
<1>16. ~ResultConflicts(o.outcome, o.exitCode)
  BY <1>4, <1>9
<1>17. IF o.kind = "unknown"
       THEN /\ o.ruleId = Unrecognized.ruleId /\ o.family = "unknown"
            /\ o.status = "unknown" /\ o.verificationEvent = None
       ELSE /\ o.family # "unknown" /\ o.verificationEvent # None
            /\ o.status = IF o.outcome = "failed" THEN "failed"
                          ELSE IF o.exitCode = 0 THEN "passed" ELSE "observed_without_exit_code"
  BY <1>9, <1>11, <1>12, <1>14 DEF IsRecognition
<1>18. ObservationIsValid(o)
  BY <1>10, <1>15, <1>16, <1>17 DEF ObservationIsValid
<1> QED BY <1>1, <1>7, <1>8, <1>9, <1>18 DEF o, s, e

LEMMA NoFilesWithoutReconciliation ==
    ASSUME ContentInv, Made(classification)
    PROVE  /\ classification.outcome \in {"classified", "partial", "unavailable"}
           /\ classification.outcome = "unavailable" => classification.entries = <<>>
<1>1. classification = Classify(FinalReconciliation) /\ Classify(FinalReconciliation) # Refused
  BY DEF ContentInv, ChainInv, Made
<1> DEFINE rec == FinalReconciliation
<1>2. /\ Classify(rec).outcome = IF rec = None THEN "unavailable"
                                 ELSE IF rec.outcome = "captured" THEN "classified" ELSE "partial"
      /\ rec = None => Classify(rec).entries = <<>>
  BY <1>1 DEF Classify
<1> HIDE DEF rec
<1> QED BY <1>1, <1>2 DEF rec

\* The events derived of the commands: one each, and a second of each recognized check.
LEMMA DerivedAreCounted ==
    ASSUME NEW obs, IsSequence(obs),
           \A i \in DOMAIN obs :
               /\ i \in Nat /\ obs[i].sourceEvent = 10 * i /\ obs[i].commandEvent = 10 * i + 1
               /\ obs[i].verificationEvent = IF obs[i].kind = "unknown" THEN None ELSE 10 * i + 2
    PROVE  /\ Cardinality({o.sourceEvent : o \in ToSet(obs)}) = Len(obs)
           /\ Cardinality({o.commandEvent : o \in ToSet(obs)}
                          \cup ({o.verificationEvent : o \in ToSet(obs)} \ {None}))
                = Len(obs) + Cardinality({i \in DOMAIN obs : obs[i].kind # "unknown"})
<1> DEFINE recognized == {i \in DOMAIN obs : obs[i].kind # "unknown"}
           source  == [i \in DOMAIN obs |-> obs[i].sourceEvent]
           first   == [i \in DOMAIN obs |-> obs[i].commandEvent]
           second  == [i \in recognized |-> obs[i].verificationEvent]
           A == {o.commandEvent : o \in ToSet(obs)}
           B == {o.verificationEvent : o \in ToSet(obs)} \ {None}
<1>1. \A o : o \in ToSet(obs) <=> \E i \in DOMAIN obs : o = obs[i]
  BY DEF ToSet
<1>2. {o.sourceEvent : o \in ToSet(obs)} = Range(source) /\ DOMAIN source = DOMAIN obs
  BY <1>1 DEF Range
<1>3. A = Range(first) /\ DOMAIN first = DOMAIN obs
  BY <1>1 DEF Range
<1>4. \A i \in DOMAIN obs : i \in recognized => obs[i].verificationEvent = 10 * i + 2
  OBVIOUS
<1>5. \A i \in DOMAIN obs : i \notin recognized => obs[i].verificationEvent = None
  OBVIOUS
<1>6. recognized \subseteq DOMAIN obs
  OBVIOUS
<1>7. \A x : x \in B <=> \E i \in DOMAIN obs : x = obs[i].verificationEvent /\ x # None
  BY <1>1
<1> HIDE DEF recognized, B
<1>8. B = Range(second) /\ DOMAIN second = recognized
  <2>1. \A i \in recognized : second[i] # None /\ second[i] = obs[i].verificationEvent
    BY <1>4, <1>6, ContentAssumption
  <2>2. DOMAIN second = recognized
    OBVIOUS
  <2> HIDE DEF second
  <2>3. \A x : x \in B <=> \E i \in recognized : x = second[i]
    BY <1>5, <1>6, <1>7, <2>1
  <2> QED BY <2>2, <2>3 DEF Range
<1>9. \A i, j \in DOMAIN obs : source[i] = source[j] => i = j
  OBVIOUS
<1>10. \A i, j \in DOMAIN obs : first[i] = first[j] => i = j
  OBVIOUS
<1>11. \A i, j \in recognized : second[i] = second[j] => i = j
  BY <1>4, <1>6
<1>12. \A i, j \in DOMAIN obs : j \in recognized => first[i] # second[j]
  BY <1>4
<1> HIDE DEF source, first, second, A
<1>13. Cardinality(Range(source)) = Len(obs)
  BY <1>2, <1>9, DistinctElements
<1>14. IsFiniteSet(A) /\ Cardinality(A) = Len(obs)
  BY <1>3, <1>10, DistinctElements
<1>15. IsFiniteSet(recognized)
  BY <1>6, SequenceElements, FS_Subset
<1>16. IsFiniteSet(B) /\ Cardinality(B) = Cardinality(recognized)
  BY <1>8, <1>11, <1>15, SameSize
<1>17. A \cap B = {}
  BY <1>3, <1>6, <1>8, <1>12 DEF Range
<1>18. Cardinality(A \cup B) = Len(obs) + Cardinality(recognized)
  <2>1. Cardinality(A \cup B) = Cardinality(A) + Cardinality(B) - Cardinality(A \cap B)
    BY <1>14, <1>16, FS_Union
  <2>2. Cardinality(A \cap B) = 0
    BY <1>17, FS_EmptySet
  <2>3. Cardinality(A) \in Nat /\ Cardinality(B) \in Nat
    BY <1>14, <1>16, FS_CardinalityType
  <2> QED BY <1>14, <1>16, <2>1, <2>2, <2>3
<1> QED BY <1>2, <1>13, <1>18 DEF A, B, recognized

LEMMA EvidenceIsExtracted ==
    ASSUME ContentInv, Made(classification), RowsAreLegal, RefusedIsNoDocument
    PROVE  Extract(classification, SourceEvents) # Refused
<1> DEFINE results  == BashResults(SourceEvents)
           accepted == [i \in DOMAIN results |-> AcceptedObservation(results[i])]
           obs      == [i \in DOMAIN accepted |-> Observation(accepted[i])]
           sourcePartial == \E i \in DOMAIN accepted : accepted[i].partial
           classPartial == classification.outcome = "partial"
           unavailable  == classification.outcome = "unavailable"
           d == [outcome |-> IF unavailable /\ accepted = <<>> THEN "unavailable"
                             ELSE IF sourcePartial \/ classPartial \/ unavailable THEN "partial"
                             ELSE "extracted",
                 diagnostic |-> IF unavailable THEN "classification_unavailable"
                                ELSE IF sourcePartial /\ classPartial
                                     THEN "source_and_classification_partial"
                                ELSE IF sourcePartial THEN "source_observation_partial"
                                ELSE IF classPartial THEN "classification_partial" ELSE None,
                 observations |-> obs,
                 testFileChanges |-> TestFileChanges(classification),
                 kinds |-> AggregateKinds(obs)]
<1>1. Extract(classification, SourceEvents)
        = IF Refused \in ToSet(accepted) \/ ~EvidenceIsValid(d) THEN Refused ELSE d
  BY DEF Extract
<1>2. RowsInv /\ seal # None
  BY ClassifiedDocument
<1>3. results = [i \in DOMAIN commands |-> ToolEvent(i)]
  BY <1>2, ResultsAreCommands
<1>4. /\ DOMAIN accepted = DOMAIN commands
      /\ \A i \in DOMAIN commands : accepted[i] = AcceptedObservation(ToolEvent(i))
  BY <1>3
<1>5. DOMAIN commands = 1 .. Len(commands) /\ Len(commands) \in Nat
  BY <1>2 DEF RowsInv
<1> HIDE DEF results
<1>6. accepted = [i \in 1 .. Len(commands) |-> accepted[i]]
  BY <1>4, <1>5
<1> HIDE DEF accepted
<1>7. /\ DOMAIN obs = DOMAIN commands /\ obs = [i \in 1 .. Len(commands) |-> obs[i]]
      /\ \A i \in DOMAIN commands : obs[i] = Observation(AcceptedObservation(ToolEvent(i)))
  BY <1>4, <1>5
<1>8. /\ d.observations = obs /\ d.kinds = AggregateKinds(d.observations)
      /\ d.testFileChanges = TestFileChanges(classification)
      /\ d.outcome = IF unavailable /\ accepted = <<>> THEN "unavailable"
                     ELSE IF sourcePartial \/ classPartial \/ unavailable THEN "partial"
                     ELSE "extracted"
      /\ d.diagnostic = IF unavailable THEN "classification_unavailable"
                        ELSE IF sourcePartial /\ classPartial
                             THEN "source_and_classification_partial"
                        ELSE IF sourcePartial THEN "source_observation_partial"
                        ELSE IF classPartial THEN "classification_partial" ELSE None
      /\ "outcome" \in DOMAIN d
  OBVIOUS
<1> HIDE DEF d, obs
<1>9. IsSequence(accepted) /\ Len(accepted) = Len(commands)
      /\ IsSequence(obs) /\ Len(obs) = Len(commands)
  BY <1>5, <1>6, <1>7, MappedIsSequence
<1>10. Refused \notin ToSet(accepted)
  <2>1. \A i \in DOMAIN commands : AcceptedObservation(ToolEvent(i)) # Refused
    BY LegalResults
  <2> QED BY <1>4, <2>1 DEF ToSet
<1>11. \A i \in DOMAIN obs :
          /\ i \in Nat /\ obs[i].sourceEvent = 10 * i /\ obs[i].commandEvent = 10 * i + 1
          /\ obs[i].verificationEvent = IF obs[i].kind = "unknown" THEN None ELSE 10 * i + 2
          /\ ObservationIsValid(obs[i])
  BY <1>7, LegalResults
<1>12. \/ d.outcome = "extracted" /\ d.diagnostic = None
       \/ d.outcome = "partial" /\ d.diagnostic # None
       \/ /\ d.outcome = "unavailable" /\ d.diagnostic = "classification_unavailable"
          /\ d.observations = <<>> /\ d.testFileChanges = {}
  <2>1. /\ "classification_unavailable" # None /\ "source_and_classification_partial" # None
        /\ "source_observation_partial" # None /\ "classification_partial" # None
    BY ContentAssumption
  <2>2. ASSUME unavailable, accepted = <<>>
        PROVE  d.observations = <<>> /\ d.testFileChanges = {}
    <3>1. obs = <<>>
      <4>1. Len(obs) = 0
        BY <1>9, <2>2
      <4> QED BY <1>9, <4>1, EmptySeq DEF IsSequence
    <3>2. classification.entries = <<>>
      BY <2>2, NoFilesWithoutReconciliation
    <3>3. TestFileChanges(classification) = {}
      BY <3>2 DEF TestFileChanges
    <3> QED BY <1>8, <3>1, <3>3
  <2>3. ~(unavailable /\ classPartial)
    OBVIOUS
  <2> HIDE DEF unavailable, classPartial, sourcePartial
  <2> QED BY <1>8, <2>1, <2>2, <2>3
<1>13. Cardinality({t.entry : t \in d.testFileChanges}) = Cardinality(d.testFileChanges)
  <2> DEFINE T == TestFileChanges(classification)
             f == [t \in T |-> t.entry]
  <2>1. IsFiniteSet(T)
    BY ClassifiedDocument, FiniteTestFileChanges
  <2>2. ASSUME NEW t \in T, NEW u \in T, t.entry = u.entry PROVE t = u
    <3> DEFINE E == classification.entries
               rules(i) == UNION {{x.ruleId : x \in a.evidence} :
                                    a \in {a \in E[i].labels : a.label = "tests"}}
               made(i) == [entry |-> i, fileEvent |-> E[i].fileEvent, ruleIds |-> rules(i)]
    <3>1. \A x \in T : \E i : x = made(i)
      BY DEF TestFileChanges
    <3> HIDE DEF rules
    <3>2. \A i : made(i).entry = i
      OBVIOUS
    <3> HIDE DEF made, T
    <3> QED BY <2>2, <3>1, <3>2
  <2> HIDE DEF T
  <2>3. {t.entry : t \in T} = Range(f) /\ DOMAIN f = T
    BY DEF Range
  <2>4. \A t, u \in DOMAIN f : f[t] = f[u] => t = u
    BY <2>2
  <2> HIDE DEF f
  <2> QED BY <1>8, <2>1, <2>3, <2>4, SameSize DEF T
<1>14. /\ Cardinality({o.sourceEvent : o \in ToSet(obs)}) = Len(obs)
       /\ Cardinality({o.commandEvent : o \in ToSet(obs)}
                      \cup ({o.verificationEvent : o \in ToSet(obs)} \ {None}))
            = Len(obs) + Cardinality({i \in DOMAIN obs : obs[i].kind # "unknown"})
  BY <1>9, <1>11, DerivedAreCounted
<1>15. \A o \in ToSet(obs) : ObservationIsValid(o)
  BY <1>11 DEF ToSet
<1> HIDE DEF unavailable, classPartial, sourcePartial
<1>16. EvidenceIsValid(d)
  BY <1>8, <1>12, <1>13, <1>14, <1>15 DEF EvidenceIsValid
<1>17. Extract(classification, SourceEvents) = d
  BY <1>1, <1>10, <1>16
<1> QED BY <1>8, <1>17 DEF RefusedIsNoDocument

-----------------------------------------------------------------------------
(***************************************************************************)
(* The graph of what the stages before it made is accepted.  First, which  *)
(* events a run has: those of its reconciliations, exactly.                *)
(***************************************************************************)
TriggerType(trigger) == IF trigger = 3 THEN "tool.batch_completed"
                        ELSE IF seal.status = "Failed" THEN "run.stop_failed"
                        ELSE "run.stop_observed"

LEMMA EventsOfReconciliations ==
    ASSUME RowsInv, seal # None
    PROVE  \A x : x \in ToSet(FileEvents(Reconciliations)) <=>
               \E r \in DOMAIN Reconciliations :
                  \/ x = Event(Reconciliations[r].trigger, TriggerType(Reconciliations[r].trigger))
                  \/ \E i \in DOMAIN Reconciliations[r].entries :
                        x = Event(Reconciliations[r].entries[i].fileEvent, "file.change_observed")
                  \/ x = Event(Reconciliations[r].summary, "git.diff_computed")
<1> DEFINE rs == Reconciliations
           type(r) == IF rs[r].trigger = 3 THEN "tool.batch_completed"
                      ELSE IF seal.status = "Failed" THEN "run.stop_failed"
                      ELSE "run.stop_observed"
           head(r) == <<Event(rs[r].trigger, type(r))>>
           body(r) == [i \in DOMAIN rs[r].entries |->
                          Event(rs[r].entries[i].fileEvent, "file.change_observed")]
           tail(r) == <<Event(rs[r].summary, "git.diff_computed")>>
           part == [r \in DOMAIN rs |-> head(r) \o body(r) \o tail(r)]
           n == Len(rs)
<1>1. IsSequence(rs) /\ \A r \in DOMAIN rs : IsSequence(rs[r].entries)
  BY ReconciledEntries
<1>2. FileEvents(rs) = FlattenSeq(part)
  BY DEF FileEvents
<1>3. n \in Nat /\ DOMAIN rs = 1 .. n
  BY <1>1, SequenceElements
<1>4. ASSUME NEW r \in DOMAIN rs
      PROVE  /\ IsSequence(head(r)) /\ IsSequence(body(r)) /\ IsSequence(tail(r))
             /\ ToSet(head(r)) = {Event(rs[r].trigger, type(r))}
             /\ ToSet(body(r)) = {Event(rs[r].entries[i].fileEvent, "file.change_observed") :
                                     i \in DOMAIN rs[r].entries}
             /\ ToSet(tail(r)) = {Event(rs[r].summary, "git.diff_computed")}
  <2>1. IsSequence(head(r)) /\ ToSet(head(r)) = {Event(rs[r].trigger, type(r))}
    BY ShortSequences
  <2>2. IsSequence(tail(r)) /\ ToSet(tail(r)) = {Event(rs[r].summary, "git.diff_computed")}
    BY ShortSequences
  <2>3. IsSequence(body(r))
    <3>1. DOMAIN rs[r].entries = 1 .. Len(rs[r].entries) /\ Len(rs[r].entries) \in Nat
      BY <1>1, SequenceElements
    <3>2. body(r) = [i \in 1 .. Len(rs[r].entries) |-> body(r)[i]]
      BY <3>1
    <3> HIDE DEF body, rs
    <3> QED BY <3>1, <3>2, MappedIsSequence
  <2>4. ToSet(body(r)) = {Event(rs[r].entries[i].fileEvent, "file.change_observed") :
                             i \in DOMAIN rs[r].entries}
    <3> HIDE DEF rs
    <3> QED BY DEF ToSet
  <2> HIDE DEF head, body, tail, type
  <2> QED BY <2>1, <2>2, <2>3, <2>4
<1> HIDE DEF head, body, tail, n
<1>5. ASSUME NEW r \in DOMAIN rs
      PROVE  /\ IsSequence(part[r])
             /\ ToSet(part[r]) = ToSet(head(r)) \cup ToSet(body(r)) \cup ToSet(tail(r))
  <2>1. part[r] = (head(r) \o body(r)) \o tail(r)
    OBVIOUS
  <2>2. IsSequence(head(r) \o body(r)) /\ ToSet(head(r) \o body(r)) = ToSet(head(r)) \cup ToSet(body(r))
    BY <1>4, JoinedIsSequence
  <2>3. IsSequence((head(r) \o body(r)) \o tail(r))
        /\ ToSet((head(r) \o body(r)) \o tail(r)) = ToSet(head(r) \o body(r)) \cup ToSet(tail(r))
    BY <1>4, <2>2, JoinedIsSequence
  <2> HIDE DEF part
  <2> QED BY <1>4, <2>1, <2>2, <2>3
<1>6. part = [r \in 1 .. n |-> part[r]]
  BY <1>3
<1>7. \A r : type(r) = TriggerType(rs[r].trigger)
  BY DEF TriggerType
<1> HIDE DEF part, rs, type
<1>8. Joinable(part, n)
  BY <1>3, <1>5, <1>6 DEF Joinable
<1>9. ToSet(FlattenSeq(part)) = UNION {ToSet(part[r]) : r \in 1 .. n}
  BY <1>8, JoinedSequences
<1> DEFINE Of(x, r) == \/ x = Event(rs[r].trigger, TriggerType(rs[r].trigger))
                       \/ \E i \in DOMAIN rs[r].entries :
                             x = Event(rs[r].entries[i].fileEvent, "file.change_observed")
                       \/ x = Event(rs[r].summary, "git.diff_computed")
<1>10. \A r \in DOMAIN rs : \A x : x \in ToSet(part[r]) <=> Of(x, r)
  BY <1>4, <1>5, <1>7
<1>11. \A x : x \in ToSet(FileEvents(rs)) <=> \E r \in DOMAIN rs : x \in ToSet(part[r])
  BY <1>2, <1>3, <1>9
<1>12. \A x : x \in ToSet(FileEvents(rs)) <=> \E r \in DOMAIN rs : Of(x, r)
  <2> HIDE DEF Of
  <2> QED BY <1>10, <1>11
<1> QED
  BY <1>12 DEF rs

\* The events derived of the observations of a document.
LEMMA EventsOfObservations ==
    ASSUME NEW v, IsSequence(v.observations)
    PROVE  \A x : x \in ToSet(DerivedEvents(v)) <=>
               \E i \in DOMAIN v.observations :
                  \/ x = Event(v.observations[i].commandEvent, "command.completed")
                  \/ /\ v.observations[i].verificationEvent # None
                     /\ x = Event(v.observations[i].verificationEvent, "test.observed")
<1> DEFINE obs == v.observations
           n == Len(obs)
           one(i) == <<Event(obs[i].commandEvent, "command.completed")>>
           two(i) == IF obs[i].verificationEvent = None THEN <<>>
                     ELSE <<Event(obs[i].verificationEvent, "test.observed")>>
           part == [i \in DOMAIN obs |-> one(i) \o two(i)]
<1>1. DerivedEvents(v) = FlattenSeq(part)
  BY DEF DerivedEvents
<1>2. n \in Nat /\ DOMAIN obs = 1 .. n
  BY SequenceElements
<1>3. \A i : /\ IsSequence(one(i))
             /\ ToSet(one(i)) = {Event(obs[i].commandEvent, "command.completed")}
  BY ShortSequences
<1>4. \A i : /\ IsSequence(two(i))
             /\ ToSet(two(i)) = IF obs[i].verificationEvent = None THEN {}
                                ELSE {Event(obs[i].verificationEvent, "test.observed")}
  BY ShortSequences
<1> HIDE DEF one, two, n, obs
<1>5. \A i \in 1 .. n : IsSequence(part[i]) /\ ToSet(part[i]) = ToSet(one(i)) \cup ToSet(two(i))
  <2>1. \A i \in 1 .. n : part[i] = one(i) \o two(i)
    BY <1>2
  <2> HIDE DEF part
  <2>2. \A i : /\ IsSequence(one(i) \o two(i))
               /\ ToSet(one(i) \o two(i)) = ToSet(one(i)) \cup ToSet(two(i))
    BY <1>3, <1>4, JoinedIsSequence
  <2> QED BY <2>1, <2>2
<1>6. part = [i \in 1 .. n |-> part[i]]
  BY <1>2
<1> HIDE DEF part
<1>7. Joinable(part, n)
  BY <1>2, <1>5, <1>6 DEF Joinable
<1>8. ToSet(FlattenSeq(part)) = UNION {ToSet(part[i]) : i \in 1 .. n}
  BY <1>7, JoinedSequences
<1>9. \A x : x \in ToSet(FlattenSeq(part)) <=> \E i \in DOMAIN obs : x \in ToSet(part[i])
  BY <1>2, <1>8
<1>10. \A i \in DOMAIN obs : \A x : x \in ToSet(part[i]) <=>
           \/ x = Event(obs[i].commandEvent, "command.completed")
           \/ /\ obs[i].verificationEvent # None
              /\ x = Event(obs[i].verificationEvent, "test.observed")
  BY <1>2, <1>3, <1>4, <1>5
<1> QED
  BY <1>1, <1>9, <1>10 DEF obs

(***************************************************************************)
(* Which of the two reconciliations stands at place r: its events tell.    *)
(***************************************************************************)
ReconciledAt(r) == IF r = Len(Reconciliations) /\ seal.final # None THEN 2 ELSE 1

LEMMA CountedReconciliations ==
    ASSUME RowsInv, seal # None
    PROVE  /\ Len(Reconciliations) \in 0 .. 2 /\ DOMAIN Reconciliations = 1 .. Len(Reconciliations)
           /\ Len(Reconciliations) = 2 => seal.final # None
           /\ seal.final # None => Len(Reconciliations) \in DOMAIN Reconciliations
<1> DEFINE a == IF turnFiles = None THEN <<>>
                ELSE <<ReconciliationOf(1, 3, turnFiles, "captured")>>
           b == IF seal.final = None THEN <<>>
                ELSE <<ReconciliationOf(2, 4, files, seal.final)>>
<1>1. Reconciliations = a \o b
  BY DEF Reconciliations
<1>2. IsSequence(a) /\ Len(a) \in {0, 1}
  BY ShortSequences
<1>3. IsSequence(b) /\ Len(b) = IF seal.final = None THEN 0 ELSE 1
  BY ShortSequences
<1> HIDE DEF a, b
<1>4. Len(Reconciliations) = Len(a) + Len(b)
  BY <1>1, <1>2, <1>3, JoinedIsSequence
<1>5. DOMAIN Reconciliations = 1 .. Len(Reconciliations)
  BY ReconciledEntries, SequenceElements
<1>6. seal.final # None => Len(Reconciliations) \in 1 .. Len(Reconciliations)
  BY <1>2, <1>3, <1>4
<1>7. Len(Reconciliations) \in 0 .. 2 /\ (Len(Reconciliations) = 2 => seal.final # None)
  <2> DEFINE k == Len(Reconciliations)
             m == Len(a)
             l == Len(b)
  <2>1. k = m + l /\ m \in {0, 1} /\ (seal.final = None => l = 0) /\ (seal.final # None => l = 1)
    BY <1>2, <1>3, <1>4
  <2> HIDE DEF k, m, l
  <2>2. k \in 0 .. 2 /\ (k = 2 => seal.final # None)
    BY <2>1
  <2> QED BY <2>2 DEF k
<1> QED BY <1>5, <1>6, <1>7

LEMMA DistinctReconciliations ==
    ASSUME RowsInv, seal # None,
           NEW r \in DOMAIN Reconciliations, NEW s \in DOMAIN Reconciliations,
           ReconciledAt(r) = ReconciledAt(s)
    PROVE  r = s
BY CountedReconciliations DEF ReconciledAt

LEMMA ReconciledPlaces ==
    ASSUME RowsInv, seal # None, NEW r \in DOMAIN Reconciliations
    PROVE  LET rec == Reconciliations[r]
               q   == ReconciledAt(r)
           IN  /\ q \in {1, 2} /\ rec.trigger = q + 2 /\ rec.summary = q + 7
               /\ \A i \in DOMAIN rec.entries :
                      i \in Nat \ {0} /\ rec.entries[i].fileEvent = 10 * i + q + 2
<1> DEFINE rec == Reconciliations[r]
           q   == ReconciledAt(r)
           fs  == IF q = 2 THEN files ELSE turnFiles
           seen == IF q = 2 THEN seal.final ELSE "captured"
<1>1. q \in {1, 2} /\ rec = ReconciliationOf(q, q + 2, fs, seen) /\ (q = 1 => turnFiles # None)
  BY PlacesOfReconciliations DEF ReconciledAt
<1>2. DOMAIN fs = 1 .. Len(fs) /\ Len(fs) \in Nat
  BY <1>1 DEF RowsInv
<1> HIDE DEF rec, q, fs, seen
<1>3. rec.trigger = q + 2 /\ rec.summary = q + 7
  BY <1>1 DEF ReconciliationOf, SummaryEvent
<1>4. ASSUME NEW i \in DOMAIN rec.entries
      PROVE  i \in Nat \ {0} /\ rec.entries[i].fileEvent = 10 * i + q + 2
  <2>1. i \in DOMAIN fs /\ rec.entries[i] = Entry(q, i, fs[i], Attribution(seal.baseline, seen))
    BY <1>1, EntriesOfReconciliations
  <2>2. rec.entries[i].fileEvent = 10 * i + q + 2
    BY <2>1 DEF Entry, FileEvent
  <2> QED BY <1>2, <2>1, <2>2
<1> QED BY <1>1, <1>3, <1>4 DEF rec, q

\* What the evidence stage made of the command at place i, and its events.
LEMMA ObservedEvents ==
    ASSUME ContentInv, Made(verification), RowsAreLegal, RefusedIsNoDocument
    PROVE  /\ DOMAIN verification.observations = DOMAIN commands
           /\ \A i \in DOMAIN commands :
                  LET o == verification.observations[i]
                  IN  /\ i \in Nat \ {0} /\ o.sourceEvent = 10 * i /\ o.commandEvent = 10 * i + 1
                      /\ o.verificationEvent = IF o.kind = "unknown" THEN None ELSE 10 * i + 2
<1>1. /\ RowsInv /\ DOMAIN verification.observations = DOMAIN commands
      /\ \A i \in DOMAIN commands :
             verification.observations[i] = Observation(AcceptedObservation(ToolEvent(i)))
  BY ObservedCommands
<1>2. \A i \in DOMAIN commands : i \in Nat \ {0}
  BY <1>1 DEF RowsInv
<1>3. ASSUME NEW i \in DOMAIN commands
      PROVE  LET o == Observation(AcceptedObservation(ToolEvent(i)))
             IN  /\ o.sourceEvent = 10 * i /\ o.commandEvent = 10 * i + 1
                 /\ o.verificationEvent = IF o.kind = "unknown" THEN None ELSE 10 * i + 2
  BY LegalResults
<1> QED BY <1>1, <1>2, <1>3

(***************************************************************************)
(* The identity of an event tells its place, and its place its type: no    *)
(* two events of a run have an identity in common.                         *)
(***************************************************************************)
TypeAt(i, d) ==
    IF i = 0
    THEN CASE d = 1 -> "run.started" [] d = 2 -> "user.prompt_submitted"
           [] d \in {3, 4} -> TriggerType(d) [] d = 5 -> "snapshot.final_captured"
           [] d = 6 -> TerminalEventType(seal.status) [] d = 7 -> "run.finalization_started"
           [] d \in {8, 9} -> "git.diff_computed"
    ELSE CASE d = 0 -> commands[i].type [] d = 1 -> "command.completed"
           [] d = 2 -> "test.observed" [] d \in {3, 4} -> "file.change_observed"

Placed(e) == \E i \in Nat, d \in 0 .. 9 : e.id = 10 * i + d /\ e.type = TypeAt(i, d)

LEMMA OnePlace ==
    ASSUME NEW e, NEW f, Placed(e), Placed(f), e.id = f.id
    PROVE  e.type = f.type
<1>1. PICK i \in Nat, d \in 0 .. 9 : e.id = 10 * i + d /\ e.type = TypeAt(i, d)
  BY DEF Placed
<1>2. PICK j \in Nat, c \in 0 .. 9 : f.id = 10 * j + c /\ f.type = TypeAt(j, c)
  BY DEF Placed
<1>3. 10 * i + d = 10 * j + c
  BY <1>1, <1>2
<1>4. i = j /\ d = c
  BY <1>3
<1> QED BY <1>1, <1>2, <1>4

LEMMA PlaceOf ==
    ASSUME NEW i \in Nat, NEW d \in 0 .. 9, NEW id, id = 10 * i + d
    PROVE  Placed(Event(id, TypeAt(i, d)))
<1>1. Event(id, TypeAt(i, d)).id = id /\ Event(id, TypeAt(i, d)).type = TypeAt(i, d)
  BY DEF Event
<1> HIDE DEF TypeAt
<1> QED BY <1>1 DEF Placed

\* The events of a run: those of its rows, and those derived of its commands.
LEMMA EventsOfTheRun ==
    ASSUME RowsInv, seal # None, NEW v, IsSequence(v.observations)
    PROVE  \A x : x \in ToSet(RunRecord(v).events) <=>
               \/ x \in {Event(1, "run.started"), Event(2, "user.prompt_submitted"),
                         Event(6, TerminalEventType(seal.status))}
               \/ \E i \in DOMAIN commands : x = ToolEvent(i)
               \/ x \in ToSet(FileEvents(Reconciliations))
               \/ /\ seal.final # None
                  /\ x \in {Event(7, "run.finalization_started"), Event(5, "snapshot.final_captured")}
               \/ x \in ToSet(DerivedEvents(v))
<1> DEFINE a == <<Event(1, "run.started"), Event(2, "user.prompt_submitted")>>
           c == [i \in DOMAIN commands |-> ToolEvent(i)]
           d == FileEvents(Reconciliations)
           e == IF seal.final = None THEN <<>>
                ELSE <<Event(7, "run.finalization_started"), Event(5, "snapshot.final_captured")>>
           z == <<Event(6, TerminalEventType(seal.status))>>
           w == DerivedEvents(v)
<1>1. RunRecord(v).events = a \o c \o d \o e \o z \o w
  <2>1. SourceEvents = a \o c \o d \o e \o z
    BY DEF SourceEvents
  <2> HIDE DEF a, c, d, e, z
  <2>2. RunRecord(v).events = SourceEvents \o w
    BY DEF RunRecord
  <2> QED BY <2>1, <2>2
<1>2. IsSequence(a) /\ ToSet(a) = {Event(1, "run.started"), Event(2, "user.prompt_submitted")}
  BY ShortSequences
<1>3. /\ IsSequence(e)
      /\ ToSet(e) = IF seal.final = None THEN {}
                    ELSE {Event(7, "run.finalization_started"), Event(5, "snapshot.final_captured")}
  <2>1. CASE seal.final = None
    BY <2>1, ShortSequences
  <2>2. CASE seal.final # None
    BY <2>2, ShortSequences
  <2> QED BY <2>1, <2>2
<1>4. IsSequence(z) /\ ToSet(z) = {Event(6, TerminalEventType(seal.status))}
  BY ShortSequences
<1>5. IsSequence(d) /\ IsSequence(w)
  BY ReconciliationEvents, DerivedEventsInOrder
<1>6. IsSequence(c) /\ ToSet(c) = {ToolEvent(i) : i \in DOMAIN commands}
  <2>1. DOMAIN commands = 1 .. Len(commands) /\ Len(commands) \in Nat
    BY DEF RowsInv
  <2>2. c = [i \in 1 .. Len(commands) |-> c[i]]
    BY <2>1
  <2>3. ToSet(c) = {ToolEvent(i) : i \in DOMAIN commands}
    BY DEF ToSet
  <2> HIDE DEF c
  <2> QED BY <2>1, <2>2, <2>3, MappedIsSequence
<1> HIDE DEF a, c, d, e, z, w
<1>7. IsSequence(a \o c) /\ ToSet(a \o c) = ToSet(a) \cup ToSet(c)
  BY <1>2, <1>6, JoinedIsSequence
<1>8. /\ IsSequence((a \o c) \o d)
      /\ ToSet((a \o c) \o d) = ToSet(a \o c) \cup ToSet(d)
  BY <1>5, <1>7, JoinedIsSequence
<1>9. /\ IsSequence(((a \o c) \o d) \o e)
      /\ ToSet(((a \o c) \o d) \o e) = ToSet((a \o c) \o d) \cup ToSet(e)
  BY <1>3, <1>8, JoinedIsSequence
<1>10. /\ IsSequence((((a \o c) \o d) \o e) \o z)
       /\ ToSet((((a \o c) \o d) \o e) \o z) = ToSet(((a \o c) \o d) \o e) \cup ToSet(z)
  BY <1>4, <1>9, JoinedIsSequence
<1>11. ToSet(((((a \o c) \o d) \o e) \o z) \o w) = ToSet((((a \o c) \o d) \o e) \o z) \cup ToSet(w)
  BY <1>5, <1>10, JoinedIsSequence
<1>12. ToSet(RunRecord(v).events)
         = ToSet(a) \cup ToSet(c) \cup ToSet(d) \cup ToSet(e) \cup ToSet(z) \cup ToSet(w)
  BY <1>1, <1>7, <1>8, <1>9, <1>10, <1>11
<1>13. \A x : /\ x \in ToSet(a) <=> x \in {Event(1, "run.started"), Event(2, "user.prompt_submitted")}
              /\ x \in ToSet(z) <=> x = Event(6, TerminalEventType(seal.status))
              /\ x \in ToSet(c) <=> \E i \in DOMAIN commands : x = ToolEvent(i)
              /\ x \in ToSet(e) <=>
                   /\ seal.final # None
                   /\ x \in {Event(7, "run.finalization_started"), Event(5, "snapshot.final_captured")}
  BY <1>2, <1>3, <1>4, <1>6
<1> QED BY <1>12, <1>13 DEF d, w

LEMMA EventsHavePlaces ==
    ASSUME ContentInv, Made(verification), RowsAreLegal, RefusedIsNoDocument
    PROVE  \A x \in ToSet(RunRecord(verification).events) : Placed(x)
<1>1. RowsInv /\ seal # None /\ IsSequence(verification.observations)
  BY ObservedCommands, ExtractedDocument
<1>2. /\ TypeAt(0, 1) = "run.started" /\ TypeAt(0, 2) = "user.prompt_submitted"
      /\ TypeAt(0, 3) = TriggerType(3) /\ TypeAt(0, 4) = TriggerType(4)
      /\ TypeAt(0, 5) = "snapshot.final_captured" /\ TypeAt(0, 6) = TerminalEventType(seal.status)
      /\ TypeAt(0, 7) = "run.finalization_started"
      /\ TypeAt(0, 8) = "git.diff_computed" /\ TypeAt(0, 9) = "git.diff_computed"
  BY DEF TypeAt
<1>3. \A i \in Nat \ {0} :
          /\ TypeAt(i, 0) = commands[i].type /\ TypeAt(i, 1) = "command.completed"
          /\ TypeAt(i, 2) = "test.observed"
          /\ TypeAt(i, 3) = "file.change_observed" /\ TypeAt(i, 4) = "file.change_observed"
  BY DEF TypeAt
<1> HIDE DEF TypeAt
<1>4. /\ Placed(Event(1, "run.started")) /\ Placed(Event(2, "user.prompt_submitted"))
      /\ Placed(Event(6, TerminalEventType(seal.status)))
      /\ Placed(Event(7, "run.finalization_started")) /\ Placed(Event(5, "snapshot.final_captured"))
  <2>1. ASSUME NEW d \in 0 .. 9 PROVE Placed(Event(d, TypeAt(0, d)))
    <3>1. d = 10 * 0 + d /\ 0 \in Nat
      OBVIOUS
    <3> QED BY <3>1, PlaceOf
  <2>2. 1 \in 0 .. 9 /\ 2 \in 0 .. 9 /\ 5 \in 0 .. 9 /\ 6 \in 0 .. 9 /\ 7 \in 0 .. 9
    OBVIOUS
  <2> QED BY <1>2, <2>1, <2>2
<1>5. ASSUME NEW i \in DOMAIN commands
      PROVE  Placed(ToolEvent(i))
  <2>1. i \in Nat \ {0} /\ commands[i] \in Commands
    BY <1>1 DEF RowsInv
  <2>2. ToolEvent(i).id = 10 * i /\ ToolEvent(i).type = commands[i].type
    BY <2>1, ContentAssumption DEF ToolEvent
  <2> QED BY <1>3, <2>1, <2>2 DEF Placed
<1>6. ASSUME NEW x \in ToSet(FileEvents(Reconciliations))
      PROVE  Placed(x)
  <2> DEFINE rs == Reconciliations
  <2>1. PICK r \in DOMAIN rs :
           \/ x = Event(rs[r].trigger, TriggerType(rs[r].trigger))
           \/ \E i \in DOMAIN rs[r].entries :
                 x = Event(rs[r].entries[i].fileEvent, "file.change_observed")
           \/ x = Event(rs[r].summary, "git.diff_computed")
    BY <1>1, EventsOfReconciliations
  <2> DEFINE q == ReconciledAt(r)
  <2>2. /\ q \in {1, 2} /\ rs[r].trigger = q + 2 /\ rs[r].summary = q + 7
        /\ \A i \in DOMAIN rs[r].entries :
               i \in Nat \ {0} /\ rs[r].entries[i].fileEvent = 10 * i + q + 2
    BY <1>1, ReconciledPlaces
  <2> HIDE DEF rs, q
  <2>3. CASE x = Event(rs[r].trigger, TriggerType(rs[r].trigger))
    <3>1. rs[r].trigger \in {3, 4}
      BY <2>2
    <3>2. Placed(Event(3, TypeAt(0, 3))) /\ Placed(Event(4, TypeAt(0, 4)))
      <4>1. 3 = 10 * 0 + 3 /\ 4 = 10 * 0 + 4 /\ 0 \in Nat /\ 3 \in 0 .. 9 /\ 4 \in 0 .. 9
        OBVIOUS
      <4> QED BY <4>1, PlaceOf
    <3> QED BY <1>2, <2>3, <3>1, <3>2
  <2>4. CASE x = Event(rs[r].summary, "git.diff_computed")
    <3>1. rs[r].summary \in {8, 9}
      BY <2>2
    <3>2. Placed(Event(8, TypeAt(0, 8))) /\ Placed(Event(9, TypeAt(0, 9)))
      <4>1. 8 = 10 * 0 + 8 /\ 9 = 10 * 0 + 9 /\ 0 \in Nat /\ 8 \in 0 .. 9 /\ 9 \in 0 .. 9
        OBVIOUS
      <4> QED BY <4>1, PlaceOf
    <3> QED BY <1>2, <2>4, <3>1, <3>2
  <2>5. CASE \E i \in DOMAIN rs[r].entries :
                x = Event(rs[r].entries[i].fileEvent, "file.change_observed")
    <3>1. PICK i \in DOMAIN rs[r].entries :
                x = Event(rs[r].entries[i].fileEvent, "file.change_observed")
      BY <2>5
    <3>2. i \in Nat \ {0} /\ q + 2 \in 0 .. 9 /\ rs[r].entries[i].fileEvent = 10 * i + (q + 2)
          /\ q + 2 \in {3, 4}
      BY <2>2
    <3>3. Placed(Event(rs[r].entries[i].fileEvent, TypeAt(i, q + 2)))
      BY <3>2, PlaceOf
    <3>4. TypeAt(i, q + 2) = "file.change_observed"
      BY <1>3, <3>2
    <3> QED BY <3>1, <3>3, <3>4
  <2> QED BY <2>1, <2>3, <2>4, <2>5
<1>7. ASSUME NEW x \in ToSet(DerivedEvents(verification))
      PROVE  Placed(x)
  <2> DEFINE obs == verification.observations
  <2>1. PICK i \in DOMAIN obs :
           \/ x = Event(obs[i].commandEvent, "command.completed")
           \/ /\ obs[i].verificationEvent # None
              /\ x = Event(obs[i].verificationEvent, "test.observed")
    BY <1>1, EventsOfObservations
  <2>2. /\ i \in Nat \ {0} /\ obs[i].commandEvent = 10 * i + 1
        /\ obs[i].verificationEvent # None => obs[i].verificationEvent = 10 * i + 2
    BY <2>1, ObservedEvents
  <2> HIDE DEF obs
  <2>3. Placed(Event(10 * i + 1, TypeAt(i, 1))) /\ Placed(Event(10 * i + 2, TypeAt(i, 2)))
    <3>1. i \in Nat /\ 1 \in 0 .. 9 /\ 2 \in 0 .. 9
      BY <2>2
    <3> QED BY <3>1, PlaceOf
  <2> QED BY <1>3, <2>1, <2>2, <2>3
<1> QED BY <1>1, <1>4, <1>5, <1>6, <1>7, EventsOfTheRun

(***************************************************************************)
(* The events that the graph's edges lead to are the run's.                *)
(***************************************************************************)
EventIds(run) == {e.id : e \in ToSet(run.events)}

LEMMA EventsAreThere ==
    ASSUME ContentInv, Made(verification), RowsAreLegal, RefusedIsNoDocument
    PROVE  LET ids == EventIds(RunRecord(verification))
               obs == verification.observations
               rs  == Reconciliations
           IN  /\ {1, 2, 6} \subseteq ids
               /\ seal.final # None => {4, 5, 7} \subseteq ids
               /\ \A i \in DOMAIN obs :
                      /\ obs[i].sourceEvent \in ids /\ obs[i].commandEvent \in ids
                      /\ obs[i].verificationEvent # None => obs[i].verificationEvent \in ids
               /\ \A r \in DOMAIN rs :
                      /\ rs[r].trigger \in ids /\ rs[r].summary \in ids
                      /\ \A i \in DOMAIN rs[r].entries : rs[r].entries[i].fileEvent \in ids
<1> DEFINE events == ToSet(RunRecord(verification).events)
           ids == EventIds(RunRecord(verification))
           obs == verification.observations
           rs  == Reconciliations
<1>1. RowsInv /\ seal # None /\ IsSequence(verification.observations)
  BY ObservedCommands, ExtractedDocument
<1>2. \A id, type : Event(id, type) \in events => id \in ids
  <2>1. \A id, type : Event(id, type).id = id
    BY DEF Event
  <2>2. \A e \in events : e.id \in ids
    BY DEF EventIds
  <2> HIDE DEF events, ids
  <2> QED BY <2>1, <2>2
<1>3. {1, 2, 6} \subseteq ids
  <2>1. /\ Event(1, "run.started") \in events /\ Event(2, "user.prompt_submitted") \in events
        /\ Event(6, TerminalEventType(seal.status)) \in events
    BY <1>1, EventsOfTheRun
  <2> HIDE DEF events, ids
  <2> QED BY <1>2, <2>1
<1>4. \A r \in DOMAIN rs :
          /\ rs[r].trigger \in ids /\ rs[r].summary \in ids
          /\ \A i \in DOMAIN rs[r].entries : rs[r].entries[i].fileEvent \in ids
  <2>1. \A x \in ToSet(FileEvents(rs)) : x \in events
    BY <1>1, EventsOfTheRun
  <2>2. \A r \in DOMAIN rs :
           /\ Event(rs[r].trigger, TriggerType(rs[r].trigger)) \in ToSet(FileEvents(rs))
           /\ \A i \in DOMAIN rs[r].entries :
                 Event(rs[r].entries[i].fileEvent, "file.change_observed") \in ToSet(FileEvents(rs))
           /\ Event(rs[r].summary, "git.diff_computed") \in ToSet(FileEvents(rs))
    BY <1>1, EventsOfReconciliations
  <2> HIDE DEF events, ids, rs
  <2> QED BY <1>2, <2>1, <2>2
<1>5. seal.final # None => {4, 5, 7} \subseteq ids
  <2> SUFFICES ASSUME seal.final # None PROVE {4, 5, 7} \subseteq ids
    OBVIOUS
  <2>1. /\ Event(7, "run.finalization_started") \in events
        /\ Event(5, "snapshot.final_captured") \in events
    BY <1>1, EventsOfTheRun
  <2>2. 4 \in ids
    <3>1. Len(rs) \in DOMAIN rs /\ ReconciledAt(Len(rs)) = 2
      BY <1>1, CountedReconciliations DEF ReconciledAt
    <3>2. rs[Len(rs)].trigger = 4
      BY <1>1, <3>1, ReconciledPlaces
    <3> HIDE DEF rs, ids
    <3> QED BY <1>4, <3>1, <3>2
  <2> HIDE DEF events, ids
  <2> QED BY <1>2, <2>1, <2>2
<1>6. \A i \in DOMAIN obs :
          /\ obs[i].sourceEvent \in ids /\ obs[i].commandEvent \in ids
          /\ obs[i].verificationEvent # None => obs[i].verificationEvent \in ids
  <2>1. \A x \in ToSet(DerivedEvents(verification)) : x \in events
    BY <1>1, EventsOfTheRun
  <2>2. \A i \in DOMAIN obs :
           /\ Event(obs[i].commandEvent, "command.completed") \in ToSet(DerivedEvents(verification))
           /\ obs[i].verificationEvent # None =>
                 Event(obs[i].verificationEvent, "test.observed") \in ToSet(DerivedEvents(verification))
    BY <1>1, EventsOfObservations
  <2>3. \A i \in DOMAIN obs : obs[i].sourceEvent \in ids
    <3>1. \A i \in DOMAIN commands : ToolEvent(i) \in events
      BY <1>1, EventsOfTheRun
    <3>2. \A i \in DOMAIN commands : ToolEvent(i).id = 10 * i
      BY <1>1, ContentAssumption DEF RowsInv, ToolEvent
    <3>3. \A i \in DOMAIN obs : i \in DOMAIN commands /\ obs[i].sourceEvent = 10 * i
      BY ObservedEvents
    <3>4. \A e \in events : e.id \in ids
      BY DEF EventIds
    <3> HIDE DEF events, ids, obs
    <3> QED BY <3>1, <3>2, <3>3, <3>4
  <2> HIDE DEF events, ids, obs
  <2> QED BY <1>2, <2>1, <2>2, <2>3
<1> QED BY <1>3, <1>4, <1>5, <1>6

(***************************************************************************)
(* What each node of a graph was made of.                                  *)
(***************************************************************************)
OfTheRun(n, run) ==
    \/ n = Node(RunNode, [terminalStatus |-> run.status])
    \/ n = Node(FinalizationNode, [terminalStatus |-> run.status, diagnostic |-> run.diagnostic])
OfAnEvent(n, run) ==
    \E e \in ToSet(run.events) : n = Node(EventNode(e.id), [eventType |-> e.type])
OfAGap(n, run) == \E g \in run.gaps : n = Node(GapNode(g.id), [gapCode |-> g.code])
OfARole(n)     == \E role : n = Node(ArtifactNode(role), [artifactKind |-> role])
OfAReconciliation(n, run) ==
    \E r : n = Node(ReconciliationNode(r), [attribution |-> run.reconciliations[r].attribution])
OfAFile(n, run) ==
    \E f \in Files(run) :
        n = Node(FileNode(f[1], f[2], f[3].fileEvent),
                 [changeKind |-> f[3].changeKind, attribution |-> f[3].attribution])
OfAnEntry(n, c) == \E x \in Entries(c) : n = Node(EntryNode(x[1], x[2].fileEvent), NoMeta)
OfALabel(n, c) ==
    \E x \in Labels(c) : n = Node(LabelNode(x[1], x[2].label),
                                  [label |-> x[2].label, confidence |-> x[2].confidence])
OfARule(n, c) ==
    \E x \in Rules(c) : n = Node(RuleNode(x[3].ruleId),
                                 [ruleId |-> x[3].ruleId, evidenceKind |-> x[3].kind])
OfACommand(n, v) ==
    \E x \in Observations(v) :
        n = Node(CommandNode(x[1], x[2].sourceEvent),
                 [verificationKind |-> x[2].kind, observedStatus |-> x[2].status])
OfACheck(n, v) ==
    \E x \in Recognized(v) :
        n = Node(VerificationNode(x[1], x[2].kind),
                 [verificationKind |-> x[2].kind, observedStatus |-> x[2].status])
OfATestFile(n, v) ==
    \E t \in v.testFileChanges : n = Node(TestFileNode(t.entry, t.fileEvent),
                                          [verificationKind |-> "test"])

LEMMA OriginOfANode ==
    ASSUME NEW run, NEW c, NEW v, NEW n \in GraphNodes(run, c, v)
    PROVE  \/ OfTheRun(n, run) \/ OfAnEvent(n, run) \/ n = Node(BaselineNode, NoMeta)
           \/ OfAGap(n, run) \/ OfARole(n) \/ OfAReconciliation(n, run) \/ OfAFile(n, run)
           \/ OfAnEntry(n, c) \/ OfALabel(n, c) \/ OfARule(n, c)
           \/ OfACommand(n, v) \/ OfACheck(n, v) \/ OfATestFile(n, v)
<1>1. n \in RunNodes(run) => \/ OfTheRun(n, run) \/ OfAnEvent(n, run)
                             \/ n = Node(BaselineNode, NoMeta) \/ OfAGap(n, run) \/ OfARole(n)
  <2> DEFINE A == {Node(EventNode(e.id), [eventType |-> e.type]) : e \in ToSet(run.events)}
             B == IF run.baseline = None THEN {} ELSE {Node(BaselineNode, NoMeta)}
             G == {Node(GapNode(g.id), [gapCode |-> g.code]) : g \in run.gaps}
             F == {Node(ArtifactNode(role), [artifactKind |-> role]) :
                     role \in {"classification", "verification"}
                              \cup (IF run.manifest THEN {"manifest"} ELSE {})}
             E == {Node(RunNode, [terminalStatus |-> run.status]),
                   Node(FinalizationNode, [terminalStatus |-> run.status,
                                           diagnostic |-> run.diagnostic])}
  <2>1. RunNodes(run) = E \cup A \cup B \cup G \cup F
    BY DEF RunNodes
  <2>2. (n \in A => OfAnEvent(n, run)) /\ (n \in G => OfAGap(n, run))
    BY DEF OfAnEvent, OfAGap
  <2>3. n \in B => n = Node(BaselineNode, NoMeta)
    OBVIOUS
  <2>4. n \in F => OfARole(n)
    BY DEF OfARole
  <2>5. n \in E => OfTheRun(n, run)
    BY DEF OfTheRun
  <2> HIDE DEF A, B, G, F, E
  <2> QED BY <2>1, <2>2, <2>3, <2>4, <2>5
<1>2. n \in FileNodes(run) => OfAReconciliation(n, run) \/ OfAFile(n, run)
  BY DEF FileNodes, OfAReconciliation, OfAFile
<1>3. n \in ClassificationNodes(c) => OfAnEntry(n, c) \/ OfALabel(n, c) \/ OfARule(n, c)
  BY DEF ClassificationNodes, OfAnEntry, OfALabel, OfARule
<1>4. n \in VerificationNodes(v) => OfACommand(n, v) \/ OfACheck(n, v) \/ OfATestFile(n, v)
  BY DEF VerificationNodes, OfACommand, OfACheck, OfATestFile
<1> QED BY <1>1, <1>2, <1>3, <1>4 DEF GraphNodes

\* The identities of nodes: their kinds, and the numbers and names in them.
LEMMA KindsOfNodes ==
    /\ RunNode.kind = "run" /\ FinalizationNode.kind = "finalization"
    /\ BaselineNode.kind = "baseline"
    /\ \A e : EventNode(e).kind = "event"
    /\ \A r : ReconciliationNode(r).kind = "reconciliation"
    /\ \A r, i, e : FileNode(r, i, e).kind = "changed_file"
    /\ \A g : GapNode(g).kind = "evidence_gap"
    /\ \A role : ArtifactNode(role).kind = "artifact"
    /\ \A i, e : EntryNode(i, e).kind = "classification_entry"
    /\ \A i, l : LabelNode(i, l).kind = "classification_label"
    /\ \A rule : RuleNode(rule).kind = "classification_rule"
    /\ \A i, e : CommandNode(i, e).kind = "command_observation"
    /\ \A i, k : VerificationNode(i, k).kind = "verification_observation"
    /\ \A i, e : TestFileNode(i, e).kind = "test_file_change"
<1>1. \A k, a, s : Id(k, a, s).kind = k
  BY DEF Id
<1> QED
  BY <1>1 DEF RunNode, FinalizationNode, BaselineNode, EventNode, ReconciliationNode, FileNode,
              GapNode, ArtifactNode, EntryNode, LabelNode, RuleNode, CommandNode,
              VerificationNode, TestFileNode

LEMMA PlacesInNodes ==
    /\ \A e, f : EventNode(e) = EventNode(f) => e = f
    /\ \A r, s : ReconciliationNode(r) = ReconciliationNode(s) => r = s
    /\ \A r, i, e, s, j, f : FileNode(r, i, e) = FileNode(s, j, f) => r = s /\ i = j
    /\ \A g, h : GapNode(g) = GapNode(h) => g = h
    /\ \A a, b : ArtifactNode(a) = ArtifactNode(b) => a = b
    /\ \A i, l, j, m : LabelNode(i, l) = LabelNode(j, m) => i = j /\ l = m
    /\ \A a, b : RuleNode(a) = RuleNode(b) => a = b
    /\ \A i, e, j, f : CommandNode(i, e) = CommandNode(j, f) => i = j
    /\ \A i, k, j, l : VerificationNode(i, k) = VerificationNode(j, l) => i = j
<1>1. \A k, a, s, l, b, t : Id(k, a, s) = Id(l, b, t) => k = l /\ a = b /\ s = t
  BY DEF Id
<1>2. \A x, y : <<x>> = <<y>> => x = y
  OBVIOUS
<1>3. \A x, y, u, w : <<x, y>> = <<u, w>> => x = u /\ y = w
  OBVIOUS
<1>4. \A x, y, z, u, w, t : <<x, y, z>> = <<u, w, t>> => x = u /\ y = w /\ z = t
  OBVIOUS
<1>5. \A e, f : EventNode(e) = EventNode(f) => e = f
  <2>1. \A e, f : EventNode(e) = EventNode(f) => <<e>> = <<f>>
    <3>1. \A e : EventNode(e).at = <<e>>
      BY DEF EventNode, Id
    <3> QED BY <3>1
  <2> QED BY <1>2, <2>1
<1>6. \A r, s : ReconciliationNode(r) = ReconciliationNode(s) => r = s
  <2>1. \A r, s : ReconciliationNode(r) = ReconciliationNode(s) => <<r>> = <<s>>
    <3>1. \A r : ReconciliationNode(r).at = <<r>>
      BY DEF ReconciliationNode, Id
    <3> QED BY <3>1
  <2> QED BY <1>2, <2>1
<1>7. \A r, i, e, s, j, f : FileNode(r, i, e) = FileNode(s, j, f) => r = s /\ i = j
  <2>1. \A r, i, e, s, j, f : FileNode(r, i, e) = FileNode(s, j, f) => <<r, i, e>> = <<s, j, f>>
    <3>1. \A r, i, e : FileNode(r, i, e).at = <<r, i, e>>
      BY DEF FileNode, Id
    <3> QED BY <3>1
  <2> QED BY <1>4, <2>1
<1>8. \A g, h : GapNode(g) = GapNode(h) => g = h
  <2>1. \A g, h : GapNode(g) = GapNode(h) => <<g>> = <<h>>
    <3>1. \A g : GapNode(g).at = <<g>>
      BY DEF GapNode, Id
    <3> QED BY <3>1
  <2> QED BY <1>2, <2>1
<1>9. /\ \A a, b : ArtifactNode(a) = ArtifactNode(b) => a = b
      /\ \A a, b : RuleNode(a) = RuleNode(b) => a = b
  BY <1>1 DEF ArtifactNode, RuleNode
<1>10. \A i, l, j, m : LabelNode(i, l) = LabelNode(j, m) => i = j /\ l = m
  BY <1>1, <1>2 DEF LabelNode
<1>11. \A i, e, j, f : CommandNode(i, e) = CommandNode(j, f) => i = j
  <2>1. \A i, e, j, f : CommandNode(i, e) = CommandNode(j, f) => <<i, e>> = <<j, f>>
    <3>1. \A i, e : CommandNode(i, e).at = <<i, e>>
      BY DEF CommandNode, Id
    <3> QED BY <3>1
  <2> QED BY <1>3, <2>1
<1>12. \A i, k, j, l : VerificationNode(i, k) = VerificationNode(j, l) => i = j
  BY <1>1, <1>2 DEF VerificationNode
<1> QED BY <1>5, <1>6, <1>7, <1>8, <1>9, <1>10, <1>11, <1>12

(***************************************************************************)
(* No two nodes of a graph have an identity in common, when no two events, *)
(* gaps or labels of an entry have.                                        *)
(***************************************************************************)
LEMMA NodesAreTold ==
    ASSUME NEW run, NEW c, NEW v,
           \A e, f \in ToSet(run.events) : e.id = f.id => e.type = f.type,
           \A g, h \in run.gaps : g.id = h.id => g = h,
           \A i \in DOMAIN c.entries : \E p : c.entries[i].labels = ClassifyPath(p),
           NEW m \in GraphNodes(run, c, v), NEW n \in GraphNodes(run, c, v), m.id = n.id
    PROVE  m = n
<1>1. \A id, meta : Node(id, meta).id = id
  BY DEF Node
<1>2. OfTheRun(m, run) /\ OfTheRun(n, run) => m = n
  <2>1. RunNode # FinalizationNode
    BY KindsOfNodes
  <2> QED BY <1>1, <2>1 DEF OfTheRun
<1>3. OfAnEvent(m, run) /\ OfAnEvent(n, run) => m = n
  BY <1>1, PlacesInNodes DEF OfAnEvent
<1>4. OfAGap(m, run) /\ OfAGap(n, run) => m = n
  BY <1>1, PlacesInNodes DEF OfAGap
<1>5. OfARole(m) /\ OfARole(n) => m = n
  BY <1>1, PlacesInNodes DEF OfARole
<1>6. OfAReconciliation(m, run) /\ OfAReconciliation(n, run) => m = n
  BY <1>1, PlacesInNodes DEF OfAReconciliation
<1>7. OfAFile(m, run) /\ OfAFile(n, run) => m = n
  <2>1. \A f \in Files(run) : f[3] = run.reconciliations[f[1]].entries[f[2]]
    BY DEF Files
  <2> QED BY <1>1, <2>1, PlacesInNodes DEF OfAFile
<1>8. OfAnEntry(m, c) /\ OfAnEntry(n, c) => m = n
  BY <1>1 DEF OfAnEntry
<1>9. OfALabel(m, c) /\ OfALabel(n, c) => m = n
  <2>1. \A x \in Labels(c) : x[1] \in DOMAIN c.entries /\ x[2] \in c.entries[x[1]].labels
    BY DEF Labels, Entries
  <2>2. \A i \in DOMAIN c.entries : \A a, b \in c.entries[i].labels : a.label = b.label => a = b
    BY PathLabels
  <2>3. \A x, y \in Labels(c) : x[1] = y[1] /\ x[2].label = y[2].label => x[2] = y[2]
    BY <2>1, <2>2
  <2> QED BY <1>1, <2>3, PlacesInNodes DEF OfALabel
<1>10. OfARule(m, c) /\ OfARule(n, c) => m = n
  <2>1. ASSUME NEW x \in Rules(c) PROVE x[3].kind = KindOfRule(x[3].ruleId)
    <3>1. \E y \in Labels(c) : x[3] \in y[2].evidence
      BY DEF Rules
    <3>2. PICK y \in Labels(c) : x[3] \in y[2].evidence
      BY <3>1
    <3>3. y[1] \in DOMAIN c.entries /\ y[2] \in c.entries[y[1]].labels
      BY DEF Labels, Entries
    <3>4. x[3] = [ruleId |-> x[3].ruleId, kind |-> KindOfRule(x[3].ruleId)]
      BY <3>2, <3>3, PathLabels
    <3> QED BY <3>4
  <2> QED BY <1>1, <2>1, PlacesInNodes DEF OfARule
<1>11. OfACommand(m, v) /\ OfACommand(n, v) => m = n
  <2>1. \A x \in Observations(v) : x[2] = v.observations[x[1]]
    BY DEF Observations
  <2> QED BY <1>1, <2>1, PlacesInNodes DEF OfACommand
<1>12. OfACheck(m, v) /\ OfACheck(n, v) => m = n
  <2>1. \A x \in Recognized(v) : x[2] = v.observations[x[1]]
    BY DEF Recognized, Observations
  <2> QED BY <1>1, <2>1, PlacesInNodes DEF OfACheck
<1>13. OfATestFile(m, v) /\ OfATestFile(n, v) => m = n
  BY <1>1 DEF OfATestFile
<1>14. ASSUME NEW x
       PROVE  /\ OfTheRun(x, run) => x.id.kind \in {"run", "finalization"}
              /\ OfAnEvent(x, run) => x.id.kind = "event"
              /\ x = Node(BaselineNode, NoMeta) => x.id.kind = "baseline"
              /\ OfAGap(x, run) => x.id.kind = "evidence_gap"
              /\ OfARole(x) => x.id.kind = "artifact"
              /\ OfAReconciliation(x, run) => x.id.kind = "reconciliation"
              /\ OfAFile(x, run) => x.id.kind = "changed_file"
              /\ OfAnEntry(x, c) => x.id.kind = "classification_entry"
              /\ OfALabel(x, c) => x.id.kind = "classification_label"
              /\ OfARule(x, c) => x.id.kind = "classification_rule"
              /\ OfACommand(x, v) => x.id.kind = "command_observation"
              /\ OfACheck(x, v) => x.id.kind = "verification_observation"
              /\ OfATestFile(x, v) => x.id.kind = "test_file_change"
  <2>1. OfTheRun(x, run) => x.id.kind \in {"run", "finalization"}
    BY <1>1, KindsOfNodes DEF OfTheRun
  <2>2. OfAnEvent(x, run) => x.id.kind = "event"
    BY <1>1, KindsOfNodes DEF OfAnEvent
  <2>3. x = Node(BaselineNode, NoMeta) => x.id.kind = "baseline"
    BY <1>1, KindsOfNodes
  <2>4. OfAGap(x, run) => x.id.kind = "evidence_gap"
    BY <1>1, KindsOfNodes DEF OfAGap
  <2>13. OfARole(x) => x.id.kind = "artifact"
    BY <1>1, KindsOfNodes DEF OfARole
  <2>5. OfAReconciliation(x, run) => x.id.kind = "reconciliation"
    BY <1>1, KindsOfNodes DEF OfAReconciliation
  <2>6. OfAFile(x, run) => x.id.kind = "changed_file"
    BY <1>1, KindsOfNodes DEF OfAFile
  <2>7. OfAnEntry(x, c) => x.id.kind = "classification_entry"
    BY <1>1, KindsOfNodes DEF OfAnEntry
  <2>8. OfALabel(x, c) => x.id.kind = "classification_label"
    BY <1>1, KindsOfNodes DEF OfALabel
  <2>9. OfARule(x, c) => x.id.kind = "classification_rule"
    BY <1>1, KindsOfNodes DEF OfARule
  <2>10. OfACommand(x, v) => x.id.kind = "command_observation"
    BY <1>1, KindsOfNodes DEF OfACommand
  <2>11. OfACheck(x, v) => x.id.kind = "verification_observation"
    BY <1>1, KindsOfNodes DEF OfACheck
  <2>12. OfATestFile(x, v) => x.id.kind = "test_file_change"
    BY <1>1, KindsOfNodes DEF OfATestFile
  <2> QED BY <2>1, <2>2, <2>3, <2>4, <2>5, <2>6, <2>7, <2>8, <2>9, <2>10, <2>11, <2>12,
            <2>13
<1>15. m.id.kind = n.id.kind
  OBVIOUS
<1>16. \/ OfTheRun(m, run) \/ OfAnEvent(m, run) \/ m = Node(BaselineNode, NoMeta)
       \/ OfAGap(m, run) \/ OfARole(m) \/ OfAReconciliation(m, run) \/ OfAFile(m, run)
       \/ OfAnEntry(m, c) \/ OfALabel(m, c) \/ OfARule(m, c)
       \/ OfACommand(m, v) \/ OfACheck(m, v) \/ OfATestFile(m, v)
  BY OriginOfANode
<1>17. \/ OfTheRun(n, run) \/ OfAnEvent(n, run) \/ n = Node(BaselineNode, NoMeta)
       \/ OfAGap(n, run) \/ OfARole(n) \/ OfAReconciliation(n, run) \/ OfAFile(n, run)
       \/ OfAnEntry(n, c) \/ OfALabel(n, c) \/ OfARule(n, c)
       \/ OfACommand(n, v) \/ OfACheck(n, v) \/ OfATestFile(n, v)
  BY OriginOfANode
<1> QED
  BY <1>2, <1>3, <1>4, <1>5, <1>6, <1>7, <1>8, <1>9, <1>10, <1>11, <1>12, <1>13, <1>14, <1>15,
     <1>16, <1>17

LEMMA NodesAreThere ==
    ASSUME NEW run, NEW c, NEW v
    PROVE  LET ids == Ids(GraphNodes(run, c, v))
           IN  /\ RunNode \in ids /\ FinalizationNode \in ids
               /\ \A e \in EventIds(run) : EventNode(e) \in ids
               /\ run.baseline # None => BaselineNode \in ids
               /\ \A g \in run.gaps : GapNode(g.id) \in ids
               /\ \A role \in {"classification", "verification"} : ArtifactNode(role) \in ids
               /\ run.manifest => ArtifactNode("manifest") \in ids
               /\ \A r \in DOMAIN run.reconciliations : ReconciliationNode(r) \in ids
               /\ \A f \in Files(run) : FileNode(f[1], f[2], f[3].fileEvent) \in ids
               /\ \A x \in Entries(c) : EntryNode(x[1], x[2].fileEvent) \in ids
               /\ \A x \in Labels(c) : LabelNode(x[1], x[2].label) \in ids
               /\ \A x \in Rules(c) : RuleNode(x[3].ruleId) \in ids
               /\ \A x \in Observations(v) : CommandNode(x[1], x[2].sourceEvent) \in ids
               /\ \A x \in Recognized(v) : VerificationNode(x[1], x[2].kind) \in ids
               /\ \A t \in v.testFileChanges : TestFileNode(t.entry, t.fileEvent) \in ids
<1> DEFINE nodes == GraphNodes(run, c, v)
           ids == Ids(nodes)
<1>1. \A id, meta : Node(id, meta) \in nodes => id \in ids
  <2>1. \A id, meta : Node(id, meta).id = id
    BY DEF Node
  <2> HIDE DEF nodes
  <2> QED BY <2>1 DEF Ids
<1>2. /\ \A n \in RunNodes(run) : n \in nodes
      /\ \A n \in FileNodes(run) : n \in nodes
      /\ \A n \in ClassificationNodes(c) : n \in nodes
      /\ \A n \in VerificationNodes(v) : n \in nodes
  BY DEF GraphNodes
<1> HIDE DEF nodes, ids
<1>3. /\ RunNode \in ids /\ FinalizationNode \in ids
      /\ \A e \in EventIds(run) : EventNode(e) \in ids
      /\ run.baseline # None => BaselineNode \in ids
      /\ \A g \in run.gaps : GapNode(g.id) \in ids
      /\ \A role \in {"classification", "verification"} : ArtifactNode(role) \in ids
      /\ run.manifest => ArtifactNode("manifest") \in ids
  <2> DEFINE A == {Node(EventNode(e.id), [eventType |-> e.type]) : e \in ToSet(run.events)}
             B == IF run.baseline = None THEN {} ELSE {Node(BaselineNode, NoMeta)}
             G == {Node(GapNode(g.id), [gapCode |-> g.code]) : g \in run.gaps}
             F == {Node(ArtifactNode(role), [artifactKind |-> role]) :
                     role \in {"classification", "verification"}
                              \cup (IF run.manifest THEN {"manifest"} ELSE {})}
             E == {Node(RunNode, [terminalStatus |-> run.status]),
                   Node(FinalizationNode, [terminalStatus |-> run.status,
                                           diagnostic |-> run.diagnostic])}
  <2>1. RunNodes(run) = E \cup A \cup B \cup G \cup F
    BY DEF RunNodes
  <2>2. \A e \in EventIds(run) : \E x \in ToSet(run.events) : x.id = e
    BY DEF EventIds
  <2>3. \A x \in ToSet(run.events) : Node(EventNode(x.id), [eventType |-> x.type]) \in A
    OBVIOUS
  <2>4. run.baseline # None => Node(BaselineNode, NoMeta) \in B
    OBVIOUS
  <2>5. \A g \in run.gaps : Node(GapNode(g.id), [gapCode |-> g.code]) \in G
    OBVIOUS
  <2>6. /\ \A role \in {"classification", "verification"} :
              Node(ArtifactNode(role), [artifactKind |-> role]) \in F
        /\ run.manifest => Node(ArtifactNode("manifest"), [artifactKind |-> "manifest"]) \in F
    OBVIOUS
  <2>7. /\ Node(RunNode, [terminalStatus |-> run.status]) \in E
        /\ Node(FinalizationNode, [terminalStatus |-> run.status,
                                   diagnostic |-> run.diagnostic]) \in E
    OBVIOUS
  <2> HIDE DEF A, B, G, F, E
  <2>8. \A x \in E \cup A \cup B \cup G \cup F : x \in nodes
    BY <1>2, <2>1
  <2>9. RunNode \in ids /\ FinalizationNode \in ids
    BY <1>1, <2>7, <2>8
  <2>10. \A e \in EventIds(run) : EventNode(e) \in ids
    BY <1>1, <2>2, <2>3, <2>8
  <2>11. (run.baseline # None => BaselineNode \in ids) /\ \A g \in run.gaps : GapNode(g.id) \in ids
    BY <1>1, <2>4, <2>5, <2>8
  <2>12. /\ \A role \in {"classification", "verification"} : ArtifactNode(role) \in ids
         /\ run.manifest => ArtifactNode("manifest") \in ids
    BY <1>1, <2>6, <2>8
  <2> QED BY <2>9, <2>10, <2>11, <2>12
<1>4. /\ \A r \in DOMAIN run.reconciliations : ReconciliationNode(r) \in ids
      /\ \A f \in Files(run) : FileNode(f[1], f[2], f[3].fileEvent) \in ids
  <2>1. \A r \in DOMAIN run.reconciliations :
            Node(ReconciliationNode(r), [attribution |-> run.reconciliations[r].attribution])
                \in FileNodes(run)
    BY DEF FileNodes
  <2>2. \A f \in Files(run) :
            Node(FileNode(f[1], f[2], f[3].fileEvent),
                 [changeKind |-> f[3].changeKind, attribution |-> f[3].attribution])
                \in FileNodes(run)
    BY DEF FileNodes
  <2> QED BY <1>1, <1>2, <2>1, <2>2
<1>5. /\ \A x \in Entries(c) : EntryNode(x[1], x[2].fileEvent) \in ids
      /\ \A x \in Labels(c) : LabelNode(x[1], x[2].label) \in ids
      /\ \A x \in Rules(c) : RuleNode(x[3].ruleId) \in ids
  <2>1. \A x \in Entries(c) : Node(EntryNode(x[1], x[2].fileEvent), NoMeta) \in ClassificationNodes(c)
    BY DEF ClassificationNodes
  <2>2. \A x \in Labels(c) :
            Node(LabelNode(x[1], x[2].label),
                 [label |-> x[2].label, confidence |-> x[2].confidence]) \in ClassificationNodes(c)
    BY DEF ClassificationNodes
  <2>3. \A x \in Rules(c) :
            Node(RuleNode(x[3].ruleId), [ruleId |-> x[3].ruleId, evidenceKind |-> x[3].kind])
                \in ClassificationNodes(c)
    BY DEF ClassificationNodes
  <2> QED BY <1>1, <1>2, <2>1, <2>2, <2>3
<1>6. /\ \A x \in Observations(v) : CommandNode(x[1], x[2].sourceEvent) \in ids
      /\ \A x \in Recognized(v) : VerificationNode(x[1], x[2].kind) \in ids
      /\ \A t \in v.testFileChanges : TestFileNode(t.entry, t.fileEvent) \in ids
  <2>1. \A x \in Observations(v) :
            Node(CommandNode(x[1], x[2].sourceEvent),
                 [verificationKind |-> x[2].kind, observedStatus |-> x[2].status])
                \in VerificationNodes(v)
    BY DEF VerificationNodes
  <2>2. \A x \in Recognized(v) :
            Node(VerificationNode(x[1], x[2].kind),
                 [verificationKind |-> x[2].kind, observedStatus |-> x[2].status])
                \in VerificationNodes(v)
    BY DEF VerificationNodes
  <2>3. \A t \in v.testFileChanges :
            Node(TestFileNode(t.entry, t.fileEvent), [verificationKind |-> "test"])
                \in VerificationNodes(v)
    BY DEF VerificationNodes
  <2> QED BY <1>1, <1>2, <2>1, <2>2, <2>3
<1> QED BY <1>3, <1>4, <1>5, <1>6 DEF ids, nodes

(***************************************************************************)
(* An edge joins two nodes.  What that takes of a run, a classification    *)
(* and a verification: the events, reconciliations and entries they name   *)
(* are there.                                                              *)
(***************************************************************************)
JoinsTwo(e, ids) == e[2] # e[3] /\ e[2] \in ids /\ e[3] \in ids

SourcesAreThere(run, c, v) ==
    LET events == EventIds(run)
        rs     == run.reconciliations
    IN  /\ \A x \in SiblingEdges(run.groups) :
               \E d, e \in events : d # e /\ x = <<"normalized_with", EventNode(d), EventNode(e)>>
        /\ {run.baseline, run.trigger, run.snapshot, run.terminal} \ {None} \subseteq events
        /\ {run.reconciliation} \ {None} \subseteq DOMAIN rs
        /\ \A r \in DOMAIN rs :
               /\ rs[r].trigger \in events /\ rs[r].summary \in events
               /\ \A i \in DOMAIN rs[r].entries : rs[r].entries[i].fileEvent \in events
        /\ \A i \in DOMAIN v.observations :
               /\ v.observations[i].sourceEvent \in events
               /\ v.observations[i].commandEvent \in events
               /\ v.observations[i].verificationEvent # None =>
                      v.observations[i].verificationEvent \in events
        /\ \A t \in v.testFileChanges : /\ t.entry \in DOMAIN c.entries
                                        /\ t.fileEvent = c.entries[t.entry].fileEvent

LEMMA RunEdgesJoinTwo ==
    ASSUME NEW run, NEW c, NEW v, SourcesAreThere(run, c, v), NEW e \in RunEdges(run)
    PROVE  JoinsTwo(e, Ids(GraphNodes(run, c, v)))
<1> DEFINE ids == Ids(GraphNodes(run, c, v))
           A == {<<"run_contains", RunNode, EventNode(x.id)>> : x \in ToSet(run.events)}
           B == IF run.baseline = None THEN {}
                ELSE {<<"run_contains", RunNode, BaselineNode>>,
                      <<"baseline_recorded_by", BaselineNode, EventNode(run.baseline)>>}
           G == {<<"run_has_gap", RunNode, GapNode(g.id)>> : g \in run.gaps}
           roles == {"classification", "verification"}
                    \cup (IF run.manifest THEN {"manifest"} ELSE {})
           F == {<<"run_materialized_artifact", RunNode, ArtifactNode(role)>> : role \in roles}
<1>1. RunEdges(run) = A \cup SiblingEdges(run.groups)
                        \cup {<<"run_contains", RunNode, FinalizationNode>>} \cup B \cup G \cup F
  BY DEF RunEdges
<1>2. /\ RunNode \in ids /\ FinalizationNode \in ids
      /\ \A x \in EventIds(run) : EventNode(x) \in ids
      /\ run.baseline # None => BaselineNode \in ids
      /\ \A g \in run.gaps : GapNode(g.id) \in ids
      /\ \A role \in {"classification", "verification"} : ArtifactNode(role) \in ids
      /\ run.manifest => ArtifactNode("manifest") \in ids
  BY NodesAreThere
<1>3. /\ \A x : RunNode # EventNode(x)
      /\ \A x : RunNode # GapNode(x)
      /\ \A x : RunNode # ArtifactNode(x)
      /\ \A x : BaselineNode # EventNode(x)
      /\ RunNode # BaselineNode /\ RunNode # FinalizationNode
  BY KindsOfNodes
<1> HIDE DEF ids
<1>4. \A t, a, b : a \in ids /\ b \in ids /\ a # b => JoinsTwo(<<t, a, b>>, ids)
  BY DEF JoinsTwo
<1>5. \A x \in A : JoinsTwo(x, ids)
  <2>1. \A x \in ToSet(run.events) : x.id \in EventIds(run)
    BY DEF EventIds
  <2> QED BY <1>2, <1>3, <1>4, <2>1
<1>6. \A x \in SiblingEdges(run.groups) : JoinsTwo(x, ids)
  <2>1. ASSUME NEW x \in SiblingEdges(run.groups) PROVE JoinsTwo(x, ids)
    <3>1. PICK d \in EventIds(run), f \in EventIds(run) :
             d # f /\ x = <<"normalized_with", EventNode(d), EventNode(f)>>
      BY <2>1 DEF SourcesAreThere
    <3>2. EventNode(d) # EventNode(f)
      BY <3>1, PlacesInNodes
    <3> QED BY <1>2, <1>4, <3>1, <3>2
  <2> QED BY <2>1
<1>7. JoinsTwo(<<"run_contains", RunNode, FinalizationNode>>, ids)
  BY <1>2, <1>3, <1>4
<1>8. \A x \in B : JoinsTwo(x, ids)
  <2>1. run.baseline # None => run.baseline \in EventIds(run)
    BY DEF SourcesAreThere
  <2> QED BY <1>2, <1>3, <1>4, <2>1
<1>9. \A x \in G : JoinsTwo(x, ids)
  BY <1>2, <1>3, <1>4
<1>10. \A x \in F : JoinsTwo(x, ids)
  <2>1. \A role \in roles : ArtifactNode(role) \in ids
    BY <1>2
  <2> HIDE DEF roles
  <2> QED BY <1>2, <1>3, <1>4, <2>1
<1> HIDE DEF A, B, G, F
<1> QED BY <1>1, <1>5, <1>6, <1>7, <1>8, <1>9, <1>10 DEF ids

LEMMA FileEdgesJoinTwo ==
    ASSUME NEW run, NEW c, NEW v, SourcesAreThere(run, c, v), NEW e \in FileEdges(run)
    PROVE  JoinsTwo(e, Ids(GraphNodes(run, c, v)))
<1> DEFINE ids == Ids(GraphNodes(run, c, v))
           rs == run.reconciliations
           of(r) == {<<"run_contains", RunNode, ReconciliationNode(r)>>,
            <<"reconciliation_triggered_by", ReconciliationNode(r),
              EventNode(run.reconciliations[r].trigger)>>,
            <<"reconciliation_summarized_by", ReconciliationNode(r),
              EventNode(run.reconciliations[r].summary)>>}
           by(f) == {<<"run_contains", RunNode, FileNode(f[1], f[2], f[3].fileEvent)>>,
                     <<"reconciliation_observed_file", ReconciliationNode(f[1]),
                       FileNode(f[1], f[2], f[3].fileEvent)>>,
                     <<"changed_file_emitted_event", FileNode(f[1], f[2], f[3].fileEvent),
                       EventNode(f[3].fileEvent)>>}
           U == UNION {of(r) : r \in DOMAIN run.reconciliations}
           W == UNION {by(f) : f \in Files(run)}
<1>1. FileEdges(run) = U \cup W
  BY DEF FileEdges
<1>2. /\ RunNode \in ids
      /\ \A x \in EventIds(run) : EventNode(x) \in ids
      /\ \A r \in DOMAIN run.reconciliations : ReconciliationNode(r) \in ids
      /\ \A f \in Files(run) : FileNode(f[1], f[2], f[3].fileEvent) \in ids
  BY NodesAreThere
<1>3. /\ \A x : RunNode # ReconciliationNode(x)
      /\ \A x, y : ReconciliationNode(x) # EventNode(y)
      /\ \A r, i, x : RunNode # FileNode(r, i, x)
      /\ \A r, i, x, s : ReconciliationNode(s) # FileNode(r, i, x)
      /\ \A r, i, x, y : FileNode(r, i, x) # EventNode(y)
  BY KindsOfNodes
<1> HIDE DEF ids
<1>4. \A t, a, b : a \in ids /\ b \in ids /\ a # b => JoinsTwo(<<t, a, b>>, ids)
  BY DEF JoinsTwo
<1>5. \A r \in DOMAIN rs : \A x \in of(r) : JoinsTwo(x, ids)
  <2>1. \A r \in DOMAIN rs : rs[r].trigger \in EventIds(run) /\ rs[r].summary \in EventIds(run)
    BY DEF SourcesAreThere
  <2> QED BY <1>2, <1>3, <1>4, <2>1
<1>6. \A f \in Files(run) : \A x \in by(f) : JoinsTwo(x, ids)
  <2>1. \A f \in Files(run) : f[1] \in DOMAIN rs /\ f[2] \in DOMAIN rs[f[1]].entries
                              /\ f[3] = rs[f[1]].entries[f[2]]
    BY DEF Files
  <2>2. \A f \in Files(run) : f[3].fileEvent \in EventIds(run)
    BY <2>1 DEF SourcesAreThere
  <2> QED BY <1>2, <1>3, <1>4, <2>1, <2>2
<1> HIDE DEF of, by
<1>7. (\A x \in U : JoinsTwo(x, ids)) /\ \A x \in W : JoinsTwo(x, ids)
  BY <1>5, <1>6
<1> HIDE DEF U, W
<1> QED BY <1>1, <1>7 DEF ids

LEMMA FinalizationEdgesJoinTwo ==
    ASSUME NEW run, NEW c, NEW v, SourcesAreThere(run, c, v), NEW e \in FinalizationEdges(run)
    PROVE  JoinsTwo(e, Ids(GraphNodes(run, c, v)))
<1> DEFINE ids == Ids(GraphNodes(run, c, v))
           A == {<<"finalization_triggered_by", FinalizationNode, EventNode(x)>> :
                    x \in {run.trigger} \ {None}}
           B == {<<"finalization_uses_reconciliation", FinalizationNode, ReconciliationNode(r)>> :
                    r \in {run.reconciliation} \ {None}}
           G == {<<"finalization_emitted_event", FinalizationNode, EventNode(x)>> :
                    x \in {run.snapshot, run.terminal} \ {None}}
           F == IF run.manifest
                THEN {<<"finalization_materialized_artifact", FinalizationNode,
                        ArtifactNode("manifest")>>}
                ELSE {}
<1>1. FinalizationEdges(run) = A \cup B \cup G \cup F
  BY DEF FinalizationEdges
<1>2. /\ FinalizationNode \in ids
      /\ \A x \in EventIds(run) : EventNode(x) \in ids
      /\ run.manifest => ArtifactNode("manifest") \in ids
      /\ \A r \in DOMAIN run.reconciliations : ReconciliationNode(r) \in ids
  BY NodesAreThere
<1>3. /\ \A x : FinalizationNode # EventNode(x)
      /\ \A x : FinalizationNode # ReconciliationNode(x)
      /\ \A x : FinalizationNode # ArtifactNode(x)
  BY KindsOfNodes
<1>4. /\ \A x \in {run.trigger} \ {None} : x \in EventIds(run)
      /\ \A x \in {run.snapshot, run.terminal} \ {None} : x \in EventIds(run)
      /\ \A r \in {run.reconciliation} \ {None} : r \in DOMAIN run.reconciliations
  BY DEF SourcesAreThere
<1> HIDE DEF ids
<1>5. \A t, a, b : a \in ids /\ b \in ids /\ a # b => JoinsTwo(<<t, a, b>>, ids)
  BY DEF JoinsTwo
<1>6. \A x \in A : JoinsTwo(x, ids)
  BY <1>2, <1>3, <1>4, <1>5
<1>7. \A x \in B : JoinsTwo(x, ids)
  BY <1>2, <1>3, <1>4, <1>5
<1>8. \A x \in G : JoinsTwo(x, ids)
  BY <1>2, <1>3, <1>4, <1>5
<1>9. \A x \in F : JoinsTwo(x, ids)
  BY <1>2, <1>3, <1>5
<1> HIDE DEF A, B, G, F
<1> QED BY <1>1, <1>6, <1>7, <1>8, <1>9 DEF ids

LEMMA ClassificationEdgesJoinTwo ==
    ASSUME NEW run, NEW c, NEW v, NEW e \in ClassificationEdges(run, c)
    PROVE  JoinsTwo(e, Ids(GraphNodes(run, c, v)))
<1> DEFINE ids == Ids(GraphNodes(run, c, v))
           U == {<<"run_contains", RunNode, EntryNode(x[1], x[2].fileEvent)>> : x \in Entries(c)}
           of(x) == {<<"changed_file_classified_by", FileNode(f[1], f[2], f[3].fileEvent),
                       EntryNode(x[1], x[2].fileEvent)>> :
                       f \in {f \in Files(run) : f[3].fileEvent = x[2].fileEvent}}
           V == UNION {of(x) : x \in Entries(c)}
           W == {<<"classification_assigned_label", EntryNode(x[1], c.entries[x[1]].fileEvent),
                   LabelNode(x[1], x[2].label)>> : x \in Labels(c)}
           Z == {<<"classification_supported_by_rule", LabelNode(x[1], x[2]),
                   RuleNode(x[3].ruleId)>> : x \in Rules(c)}
<1>1. ClassificationEdges(run, c) = U \cup V \cup W \cup Z
  BY DEF ClassificationEdges
<1>2. /\ RunNode \in ids
      /\ \A f \in Files(run) : FileNode(f[1], f[2], f[3].fileEvent) \in ids
      /\ \A x \in Entries(c) : EntryNode(x[1], x[2].fileEvent) \in ids
      /\ \A x \in Labels(c) : LabelNode(x[1], x[2].label) \in ids
      /\ \A x \in Rules(c) : RuleNode(x[3].ruleId) \in ids
  BY NodesAreThere
<1>3. /\ \A i, x : RunNode # EntryNode(i, x)
      /\ \A r, i, x, j, y : FileNode(r, i, x) # EntryNode(j, y)
      /\ \A i, x, j, l : EntryNode(i, x) # LabelNode(j, l)
      /\ \A i, l, r : LabelNode(i, l) # RuleNode(r)
  BY KindsOfNodes
<1> HIDE DEF ids
<1>4. \A t, a, b : a \in ids /\ b \in ids /\ a # b => JoinsTwo(<<t, a, b>>, ids)
  BY DEF JoinsTwo
<1>5. \A x \in U : JoinsTwo(x, ids)
  BY <1>2, <1>3, <1>4
<1>6. \A x \in V : JoinsTwo(x, ids)
  <2>1. \A x \in Entries(c) : \A y \in of(x) : JoinsTwo(y, ids)
    BY <1>2, <1>3, <1>4
  <2> HIDE DEF of
  <2> QED BY <2>1
<1>7. \A x \in W : JoinsTwo(x, ids)
  <2>1. \A x \in Labels(c) : EntryNode(x[1], c.entries[x[1]].fileEvent) \in ids
    <3>1. \A x \in Labels(c) : \E y \in Entries(c) : x[1] = y[1]
      BY DEF Labels
    <3>2. \A y \in Entries(c) : y[2] = c.entries[y[1]]
      BY DEF Entries
    <3> QED BY <1>2, <3>1, <3>2
  <2> QED BY <1>2, <1>3, <1>4, <2>1
<1>8. \A x \in Z : JoinsTwo(x, ids)
  <2>1. \A x \in Rules(c) : LabelNode(x[1], x[2]) \in ids
    <3>1. \A x \in Rules(c) : \E y \in Labels(c) : x[1] = y[1] /\ x[2] = y[2].label
      BY DEF Rules
    <3> QED BY <1>2, <3>1
  <2> QED BY <1>2, <1>3, <1>4, <2>1
<1> HIDE DEF U, V, W, Z
<1> QED BY <1>1, <1>5, <1>6, <1>7, <1>8 DEF ids

LEMMA VerificationEdgesJoinTwo ==
    ASSUME NEW run, NEW c, NEW v, SourcesAreThere(run, c, v), NEW e \in VerificationEdges(v)
    PROVE  JoinsTwo(e, Ids(GraphNodes(run, c, v)))
<1> DEFINE ids == Ids(GraphNodes(run, c, v))
           of(x) == {<<"run_contains", RunNode, CommandNode(x[1], x[2].sourceEvent)>>,
                <<"command_observed_from_event", CommandNode(x[1], x[2].sourceEvent),
                  EventNode(x[2].sourceEvent)>>,
                <<"command_emitted_event", CommandNode(x[1], x[2].sourceEvent),
                  EventNode(x[2].commandEvent)>>}
           check(x) == <<"command_has_verification", CommandNode(x[1], x[2].sourceEvent),
                         VerificationNode(x[1], x[2].kind)>>
           done(x) == <<"verification_emitted_event", VerificationNode(x[1], x[2].kind),
                        EventNode(x[2].verificationEvent)>>
           for(t) == {<<"run_contains", RunNode, TestFileNode(t.entry, t.fileEvent)>>,
                     <<"test_file_change_supported_by_classification",
                       TestFileNode(t.entry, t.fileEvent), EntryNode(t.entry, t.fileEvent)>>}
           U == UNION {of(x) : x \in Observations(v)}
           W == UNION {{check(x), done(x)} : x \in Recognized(v)}
           Z == UNION {for(t) : t \in v.testFileChanges}
<1>1. VerificationEdges(v) = U \cup W \cup Z
  BY DEF VerificationEdges
<1>2. /\ RunNode \in ids
      /\ \A x \in EventIds(run) : EventNode(x) \in ids
      /\ \A x \in Entries(c) : EntryNode(x[1], x[2].fileEvent) \in ids
      /\ \A x \in Observations(v) : CommandNode(x[1], x[2].sourceEvent) \in ids
      /\ \A x \in Recognized(v) : VerificationNode(x[1], x[2].kind) \in ids
      /\ \A t \in v.testFileChanges : TestFileNode(t.entry, t.fileEvent) \in ids
  BY NodesAreThere
<1>3. /\ \A i, x : RunNode # CommandNode(i, x)
      /\ \A i, x, y : CommandNode(i, x) # EventNode(y)
      /\ \A i, x, j, k : CommandNode(i, x) # VerificationNode(j, k)
      /\ \A i, k, y : VerificationNode(i, k) # EventNode(y)
      /\ \A i, x : RunNode # TestFileNode(i, x)
      /\ \A i, x, j, y : TestFileNode(i, x) # EntryNode(j, y)
  BY KindsOfNodes
<1>4. \A x \in Observations(v) : x[1] \in DOMAIN v.observations /\ x[2] = v.observations[x[1]]
  BY DEF Observations
<1>5. \A x \in Recognized(v) : x \in Observations(v) /\ x[2].verificationEvent # None
  BY DEF Recognized
<1>6. /\ \A x \in Observations(v) : /\ x[2].sourceEvent \in EventIds(run)
                                    /\ x[2].commandEvent \in EventIds(run)
      /\ \A x \in Recognized(v) : x[2].verificationEvent \in EventIds(run)
  BY <1>4, <1>5 DEF SourcesAreThere
<1>7. \A t \in v.testFileChanges : EntryNode(t.entry, t.fileEvent) \in ids
  <2>1. \A t \in v.testFileChanges : <<t.entry, c.entries[t.entry]>> \in Entries(c)
    BY DEF SourcesAreThere, Entries
  <2>2. \A t \in v.testFileChanges : t.fileEvent = c.entries[t.entry].fileEvent
    BY DEF SourcesAreThere
  <2> HIDE DEF ids
  <2>3. ASSUME NEW t \in v.testFileChanges PROVE EntryNode(t.entry, t.fileEvent) \in ids
    <3> DEFINE x == <<t.entry, c.entries[t.entry]>>
    <3>1. x \in Entries(c) /\ x[1] = t.entry /\ x[2] = c.entries[t.entry]
      BY <2>1
    <3> HIDE DEF x
    <3> QED BY <1>2, <2>2, <3>1
  <2> QED BY <2>3
<1> HIDE DEF ids
<1>8. \A t, a, b : a \in ids /\ b \in ids /\ a # b => JoinsTwo(<<t, a, b>>, ids)
  BY DEF JoinsTwo
<1>9. \A x \in Observations(v) : \A y \in of(x) : JoinsTwo(y, ids)
  BY <1>2, <1>3, <1>6, <1>8
<1>10. \A x \in Recognized(v) : JoinsTwo(check(x), ids) /\ JoinsTwo(done(x), ids)
  BY <1>2, <1>3, <1>5, <1>6, <1>8
<1>11. \A t \in v.testFileChanges : \A y \in for(t) : JoinsTwo(y, ids)
  BY <1>2, <1>3, <1>7, <1>8
<1> HIDE DEF of, check, done, for
<1>12. (\A x \in U : JoinsTwo(x, ids)) /\ (\A x \in W : JoinsTwo(x, ids))
       /\ \A x \in Z : JoinsTwo(x, ids)
  BY <1>9, <1>10, <1>11
<1> HIDE DEF U, W, Z
<1> QED BY <1>1, <1>12 DEF ids

LEMMA GraphEdgesJoinTwo ==
    ASSUME NEW run, NEW c, NEW v, SourcesAreThere(run, c, v), NEW e \in GraphEdges(run, c, v)
    PROVE  JoinsTwo(e, Ids(GraphNodes(run, c, v)))
BY RunEdgesJoinTwo, FileEdgesJoinTwo, FinalizationEdgesJoinTwo, ClassificationEdgesJoinTwo,
   VerificationEdgesJoinTwo DEF GraphEdges

-----------------------------------------------------------------------------
(***************************************************************************)
(* What a run and its documents name is there, no file event is of two     *)
(* files, and every entry has its file.                                    *)
(***************************************************************************)
LEMMA NamedSourcesAreThere ==
    ASSUME ContentInv, Made(verification), RowsAreLegal, RefusedIsNoDocument
    PROVE  SourcesAreThere(RunRecord(verification), classification, verification)
<1> DEFINE run == RunRecord(verification)
           events == EventIds(run)
           rs == run.reconciliations
           obs == verification.observations
<1>1. /\ RowsInv /\ seal # None /\ Made(classification)
      /\ verification = Extract(classification, SourceEvents) /\ verification # Refused
  BY ObservedCommands DEF ContentInv, ChainInv, Made
<1>2. /\ {1, 2, 6} \subseteq events
      /\ seal.final # None => {4, 5, 7} \subseteq events
      /\ \A i \in DOMAIN obs :
             /\ obs[i].sourceEvent \in events /\ obs[i].commandEvent \in events
             /\ obs[i].verificationEvent # None => obs[i].verificationEvent \in events
      /\ \A r \in DOMAIN Reconciliations :
             /\ Reconciliations[r].trigger \in events /\ Reconciliations[r].summary \in events
             /\ \A i \in DOMAIN Reconciliations[r].entries :
                    Reconciliations[r].entries[i].fileEvent \in events
  BY EventsAreThere
<1>3. /\ rs = Reconciliations
      /\ run.groups = {<<1, 2>>} \cup (IF seal.final = None THEN {} ELSE {<<4, 7>>})
      /\ run.baseline = IF seal.baseline = None THEN None ELSE 1
      /\ run.trigger = IF seal.final = None THEN None ELSE 4
      /\ run.reconciliation = IF seal.final = None THEN None ELSE Len(Reconciliations)
      /\ run.snapshot = IF seal.final = None THEN None ELSE 5
      /\ run.terminal = 6
  BY DEF RunRecord
<1> HIDE DEF run, events
<1>4. \A x \in SiblingEdges(run.groups) :
          \E d, e \in events : d # e /\ x = <<"normalized_with", EventNode(d), EventNode(e)>>
  <2> DEFINE of(g) == {<<"normalized_with", EventNode(Head(g)), EventNode(e)>> : e \in ToSet(Tail(g))}
  <2>1. SiblingEdges(run.groups) = UNION {of(g) : g \in run.groups \ {<<>>}}
    BY DEF SiblingEdges
  <2>2. \A a, b : Head(<<a, b>>) = a /\ ToSet(Tail(<<a, b>>)) = {b}
    <3>1. \A a, b : Head(<<a, b>>) = a /\ Tail(<<a, b>>) = <<b>>
      OBVIOUS
    <3> QED BY <3>1, ShortSequences
  <2>3. \A g \in run.groups : g = <<1, 2>> \/ (g = <<4, 7>> /\ seal.final # None)
    BY <1>3
  <2>4. ASSUME NEW g \in run.groups
        PROVE  \E d, e \in events : /\ d # e
                                    /\ of(g) = {<<"normalized_with", EventNode(d), EventNode(e)>>}
    <3>1. CASE g = <<1, 2>>
      <4>1. of(g) = {<<"normalized_with", EventNode(1), EventNode(2)>>}
        BY <2>2, <3>1
      <4> HIDE DEF of
      <4> QED BY <1>2, <4>1
    <3>2. CASE g = <<4, 7>> /\ seal.final # None
      <4>1. of(g) = {<<"normalized_with", EventNode(4), EventNode(7)>>}
        BY <2>2, <3>2
      <4> HIDE DEF of
      <4> QED BY <1>2, <3>2, <4>1
    <3> QED BY <2>3, <3>1, <3>2
  <2> HIDE DEF of
  <2>5. \A x \in SiblingEdges(run.groups) : \E g \in run.groups : x \in of(g)
    BY <2>1
  <2> QED BY <2>4, <2>5
<1>5. {run.baseline, run.trigger, run.snapshot, run.terminal} \ {None} \subseteq events
  BY <1>2, <1>3
<1>6. {run.reconciliation} \ {None} \subseteq DOMAIN rs
  BY <1>1, <1>3, CountedReconciliations
<1>7. \A t \in verification.testFileChanges :
          /\ t.entry \in DOMAIN classification.entries
          /\ t.fileEvent = classification.entries[t.entry].fileEvent
  <2>1. verification.testFileChanges = TestFileChanges(classification)
    BY <1>1, SourceEventsInOrder, ExtractedObservations
  <2> DEFINE E == classification.entries
             rules(i) == UNION {{x.ruleId : x \in a.evidence} :
                                  a \in {a \in E[i].labels : a.label = "tests"}}
             made(i) == [entry |-> i, fileEvent |-> E[i].fileEvent, ruleIds |-> rules(i)]
  <2>2. \A x \in TestFileChanges(classification) : \E i \in DOMAIN E : x = made(i)
    BY DEF TestFileChanges
  <2> HIDE DEF rules
  <2>3. \A i : made(i).entry = i /\ made(i).fileEvent = E[i].fileEvent
    OBVIOUS
  <2> HIDE DEF made
  <2> QED BY <2>1, <2>2, <2>3
<1> QED BY <1>2, <1>3, <1>4, <1>5, <1>6, <1>7 DEF SourcesAreThere, events, run

LEMMA FileEventsAreTold ==
    ASSUME ContentInv, Made(verification)
    PROVE  Cardinality({f[3].fileEvent : f \in Files(RunRecord(verification))})
             = Cardinality(Files(RunRecord(verification)))
<1> DEFINE rs == Reconciliations
           F == Files(RunRecord(verification))
           h == [f \in F |-> f[3].fileEvent]
<1>1. RowsInv /\ seal # None
  BY ObservedCommands
<1>2. RunRecord(verification).reconciliations = rs
  BY DEF RunRecord
<1>3. ASSUME NEW f \in F
      PROVE  /\ f[1] \in DOMAIN rs /\ f[2] \in DOMAIN rs[f[1]].entries
             /\ f = <<f[1], f[2], rs[f[1]].entries[f[2]]>>
  <2> HIDE DEF rs
  <2> QED BY <1>2 DEF Files
<1>4. \A f \in F : /\ ReconciledAt(f[1]) \in {1, 2} /\ f[2] \in Nat
                   /\ f[3].fileEvent = 10 * f[2] + ReconciledAt(f[1]) + 2
  <2>1. \A f \in F : f[3] = rs[f[1]].entries[f[2]]
    BY <1>3
  <2>2. ASSUME NEW r \in DOMAIN rs
        PROVE  /\ ReconciledAt(r) \in {1, 2}
               /\ \A i \in DOMAIN rs[r].entries :
                     i \in Nat /\ rs[r].entries[i].fileEvent = 10 * i + ReconciledAt(r) + 2
    BY <1>1, ReconciledPlaces
  <2> HIDE DEF F, rs
  <2> QED BY <1>3, <2>1, <2>2
<1>5. ASSUME NEW f \in F, NEW g \in F, f[3].fileEvent = g[3].fileEvent PROVE f = g
  <2>1. f[2] = g[2] /\ ReconciledAt(f[1]) = ReconciledAt(g[1])
    <3> DEFINE i == f[2]
               j == g[2]
               q == ReconciledAt(f[1])
               p == ReconciledAt(g[1])
    <3>1. i \in Nat /\ j \in Nat /\ q \in {1, 2} /\ p \in {1, 2} /\ 10 * i + q + 2 = 10 * j + p + 2
      BY <1>4, <1>5
    <3> HIDE DEF i, j, q, p
    <3>2. i = j /\ q = p
      BY <3>1
    <3> QED BY <3>2 DEF i, j, q, p
  <2>2. f[1] = g[1]
    BY <1>1, <1>3, <2>1, DistinctReconciliations
  <2> QED BY <1>3, <2>1, <2>2
<1>6. IsFiniteSet(F)
  <2> DEFINE run == RunRecord(verification)
  <2>1. /\ IsSequence(run.reconciliations)
        /\ \A r \in DOMAIN run.reconciliations : IsSequence(run.reconciliations[r].entries)
    BY <1>1, <1>2, ReconciledEntries
  <2> HIDE DEF run
  <2> QED BY <2>1, FiniteFiles DEF run
<1> HIDE DEF F
<1>7. Range(h) = {f[3].fileEvent : f \in F} /\ DOMAIN h = F
  BY DEF Range
<1>8. \A f, g \in DOMAIN h : h[f] = h[g] => f = g
  BY <1>5
<1> HIDE DEF h
<1>9. Cardinality({f[3].fileEvent : f \in F}) = Cardinality(F)
  BY <1>6, <1>7, <1>8, SameSize
<1> QED BY <1>9 DEF F

LEMMA EntriesHaveTheirFiles ==
    ASSUME ContentInv, Made(classification)
    PROVE  \A x \in Entries(classification) :
               \E f \in Files(RunRecord(verification)) : f[3].fileEvent = x[2].fileEvent
<1> DEFINE rec == FinalReconciliation
           c == classification
           rs == Reconciliations
<1>1. /\ seal # None /\ RowsInv /\ c = Classify(rec) /\ c # Refused
  BY DEF ContentInv, ChainInv, Made
<1>2. rec # None => IsSequence(rec.entries)
  BY <1>1, FinalEntries
<1>3. rec # None => Len(rs) \in DOMAIN rs /\ rec = rs[Len(rs)]
  BY <1>1, CountedReconciliations DEF FinalReconciliation
<1> HIDE DEF rec
<1>4. /\ IsSequence(c.entries)
      /\ rec = None => c.entries = <<>>
      /\ rec # None => /\ Len(c.entries) = Len(rec.entries)
                       /\ \A k \in DOMAIN rec.entries :
                            c.entries[k] = [fileEvent |-> rec.entries[k].fileEvent,
                                            sensitivity |-> rec.entries[k].sensitivity,
                                            labels |-> ClassifyPath(rec.entries[k].path)]
  BY <1>1, <1>2, ClassifiedEntries
<1>5. ASSUME NEW x \in Entries(c)
      PROVE  \E f \in Files(RunRecord(verification)) : f[3].fileEvent = x[2].fileEvent
  <2>1. PICK i \in DOMAIN c.entries : x = <<i, c.entries[i]>>
    BY DEF Entries
  <2>2. rec # None
    BY <1>4, <2>1
  <2>3. i \in DOMAIN rec.entries
    BY <1>2, <1>4, <2>1, <2>2, SequenceElements
  <2>4. x[2].fileEvent = rec.entries[i].fileEvent
    <3>1. x[2] = [fileEvent |-> rec.entries[i].fileEvent,
                  sensitivity |-> rec.entries[i].sensitivity,
                  labels |-> ClassifyPath(rec.entries[i].path)]
      BY <1>4, <2>1, <2>2, <2>3
    <3> QED BY <3>1
  <2> DEFINE f == <<Len(rs), i, rs[Len(rs)].entries[i]>>
             run == RunRecord(verification)
  <2>5. run.reconciliations = rs
    BY DEF RunRecord
  <2> HIDE DEF run, rs
  <2>6. f \in Files(run)
    BY <1>3, <2>2, <2>3, <2>5 DEF Files
  <2>7. f[3].fileEvent = x[2].fileEvent
    BY <1>3, <2>2, <2>4
  <2> HIDE DEF f
  <2> QED BY <2>6, <2>7 DEF run
<1> QED BY <1>5

(***************************************************************************)
(* A graph within the limits is built.                                     *)
(***************************************************************************)
LEMMA GraphIsBuilt ==
    ASSUME ContentInv, Made(verification), RowsAreLegal, RefusedIsNoDocument, RunFits
    PROVE  BuildGraph(RunRecord(verification), classification, verification) # Refused
<1> DEFINE run == RunRecord(verification)
           c == classification
           v == verification
           g == Graph(run, c, v)
<1>1. Made(classification) /\ RowsInv /\ seal # None
  BY ExtractedDocument, ClassifiedDocument
<1>2. /\ Cardinality(g.nodes) <= MaxNodes /\ Cardinality(g.edges) <= MaxEdges
      /\ BytesOf(g.nodes, g.edges) <= FingerprintBytes /\ BytesOf(g.nodes, g.edges) <= GraphBytes
  BY DEF RunFits
<1>3. SourcesAreThere(run, c, v)
  BY NamedSourcesAreThere
<1>4. Cardinality({f[3].fileEvent : f \in Files(run)}) = Cardinality(Files(run))
  BY FileEventsAreTold
<1>5. \A x \in Entries(c) : \E f \in Files(run) : f[3].fileEvent = x[2].fileEvent
  BY <1>1, EntriesHaveTheirFiles
<1>6. IsFiniteSet(GraphNodes(run, c, v))
  BY GraphNodesAreFinite
<1>7. \A e, f \in ToSet(run.events) : e.id = f.id => e.type = f.type
  <2>1. \A x \in ToSet(run.events) : Placed(x)
    BY EventsHavePlaces
  <2> HIDE DEF run
  <2> QED BY <2>1, OnePlace
<1>8. \A x, y \in run.gaps : x.id = y.id => x = y
  BY <1>1, ContentAssumption DEF RunRecord, RowsInv
<1>9. \A i \in DOMAIN c.entries : \E p : c.entries[i].labels = ClassifyPath(p)
  BY <1>1, ClassifiedDocument
<1> HIDE DEF run, c, v
<1>10. /\ g.nodes = GraphNodes(run, c, v) /\ g.edges = GraphEdges(run, c, v)
       /\ g.limitations = Limitations(run, c, v)
       /\ g.outcome = IF g.limitations = {} THEN "complete" ELSE "partial"
       /\ "outcome" \in DOMAIN g
  BY DEF Graph
<1> HIDE DEF g
<1>11. \A e \in g.edges : e[2] # e[3] /\ {e[2], e[3]} \subseteq Ids(g.nodes)
  <2>1. \A e \in g.edges : JoinsTwo(e, Ids(g.nodes))
    BY <1>3, <1>10, GraphEdgesJoinTwo
  <2> QED BY <2>1 DEF JoinsTwo
<1>12. Cardinality(Ids(g.nodes)) = Cardinality(g.nodes)
  <2> DEFINE N == g.nodes
             h == [n \in N |-> n.id]
  <2>1. \A m, n \in N : m.id = n.id => m = n
    BY <1>7, <1>8, <1>9, <1>10, NodesAreTold
  <2>2. Ids(N) = Range(h) /\ DOMAIN h = N
    BY DEF Ids, Range
  <2>3. \A m, n \in DOMAIN h : h[m] = h[n] => m = n
    BY <2>1
  <2>4. IsFiniteSet(N)
    BY <1>6, <1>10
  <2> HIDE DEF N, h
  <2>5. Cardinality(Ids(N)) = Cardinality(N)
    BY <2>2, <2>3, <2>4, SameSize
  <2> QED BY <2>5 DEF N
<1>13. SourcesAgree(run, c, g.nodes, g.edges)
  BY <1>4, <1>5, <1>11, <1>12 DEF SourcesAgree
<1>14. GraphIsValid(g)
  BY <1>2, <1>10, <1>11, <1>12 DEF GraphIsValid, g, run, c, v
<1>15. BuildGraph(run, c, v) = g
  <2>1. BuildGraph(run, c, v) =
            IF /\ SourcesAgree(run, c, g.nodes, g.edges)
               /\ FitsFingerprint(g.nodes, g.edges)
               /\ GraphIsValid(g) /\ BytesOf(g.nodes, g.edges) <= GraphBytes
            THEN g ELSE Refused
    BY DEF BuildGraph, g
  <2>2. FitsFingerprint(g.nodes, g.edges) /\ BytesOf(g.nodes, g.edges) <= GraphBytes
    BY <1>2 DEF FitsFingerprint, g, run, c, v
  <2> QED BY <1>13, <1>14, <2>1, <2>2
<1> QED BY <1>10, <1>15 DEF RefusedIsNoDocument, run, c, v

-----------------------------------------------------------------------------
(***************************************************************************)
(* The semantic input is accepted.  No summary is there twice: a set put   *)
(* in some order is told apart, and so are such parts, joined, when they   *)
(* have nothing in common.                                                 *)
(***************************************************************************)
LEMMA AsManyAsPlaces ==
    ASSUME NEW s, IsSequence(s), ToldApart(s)
    PROVE  Cardinality(ToSet(s)) = Len(s)
<1>1. Len(s) \in Nat /\ DOMAIN s = 1 .. Len(s) /\ IsFiniteSet(DOMAIN s)
  BY SequenceElements
<1>2. Range(s) = ToSet(s)
  BY DEF Range, ToSet
<1>3. Cardinality(Range(s)) = Cardinality(DOMAIN s)
  BY <1>1, SameSize DEF ToldApart
<1>4. Cardinality(1 .. Len(s)) = Len(s)
  BY <1>1, CountingUp
<1> QED BY <1>1, <1>2, <1>3, <1>4

LEMMA OrderTellsApart ==
    ASSUME NEW S, IsFiniteSet(S)
    PROVE  ToldApart(InSomeOrder(S))
<1> DEFINE s == InSomeOrder(S)
           D == DOMAIN s
<1>1. IsSequence(s) /\ Len(s) = Cardinality(S) /\ ToSet(s) = S
  BY OrderIsSequence
<1>2. Len(s) \in Nat /\ D = 1 .. Len(s) /\ IsFiniteSet(D)
  BY <1>1, SequenceElements
<1>3. Cardinality(D) = Len(s)
  BY <1>2, CountingUp
<1> HIDE DEF s
<1> SUFFICES ASSUME NEW i \in D, NEW j \in D, s[i] = s[j], i # j
             PROVE  FALSE
  BY DEF ToldApart, s
<1> DEFINE R == D \ {j}
           f == [k \in R |-> s[k]]
<1>4. Range(f) = S
  <2>1. \A x \in S : \E k \in R : s[k] = x
    <3>1. \A x \in S : \E k \in D : s[k] = x
      BY <1>1 DEF ToSet
    <3>2. i \in R
      OBVIOUS
    <3> QED BY <3>1, <3>2
  <2>2. \A k \in R : s[k] \in S
    BY <1>1 DEF ToSet
  <2>3. Range(f) = {s[k] : k \in R}
    BY DEF Range
  <2> HIDE DEF R, f
  <2> QED BY <2>1, <2>2, <2>3
<1>5. IsFiniteSet(R) /\ Cardinality(R) = Cardinality(D) - 1
  <2> HIDE DEF D
  <2> QED BY <1>2, FS_RemoveElement
<1>6. Cardinality(Range(f)) <= Cardinality(R)
  <2>1. DOMAIN f = R
    OBVIOUS
  <2> HIDE DEF f, R
  <2> QED BY <1>5, <2>1, FiniteImage
<1> HIDE DEF D, R, f
<1> QED BY <1>1, <1>2, <1>3, <1>4, <1>5, <1>6

LEMMA JoinedTellsApart ==
    ASSUME NEW s, IsSequence(s), ToldApart(s), NEW t, IsSequence(t), ToldApart(t),
           ToSet(s) \cap ToSet(t) = {}
    PROVE  ToldApart(s \o t)
<1> DEFINE l == Len(s)
           m == Len(t)
           st == s \o t
<1>1. l \in Nat /\ m \in Nat /\ DOMAIN s = 1 .. l /\ DOMAIN t = 1 .. m
  BY SequenceElements
<1>2. /\ IsSequence(st) /\ Len(st) = l + m
      /\ \A i \in 1 .. l : st[i] = s[i]
      /\ \A i \in 1 .. m : st[l + i] = t[i]
  BY <1>1, JoinedIsSequence
<1>3. DOMAIN st = 1 .. (l + m)
  BY <1>2, SequenceElements
<1> HIDE DEF l, m, st
<1>4. \A i \in 1 .. l : st[i] = s[i] /\ s[i] \in ToSet(s)
  BY <1>1, <1>2 DEF ToSet
<1>5. \A i \in 1 .. m : st[l + i] = t[i] /\ t[i] \in ToSet(t)
  BY <1>1, <1>2 DEF ToSet
<1> SUFFICES ASSUME NEW i \in DOMAIN st, NEW j \in DOMAIN st, st[i] = st[j]
             PROVE  i = j
  BY DEF ToldApart, st
<1>6. \A k \in 1 .. (l + m) : k \in 1 .. l \/ (k - l \in 1 .. m /\ l + (k - l) = k)
  BY <1>1
<1>7. CASE i \in 1 .. l /\ j \in 1 .. l
  <2>1. s[i] = s[j] /\ i \in DOMAIN s /\ j \in DOMAIN s
    BY <1>1, <1>4, <1>7
  <2> QED BY <2>1 DEF ToldApart
<1>8. CASE i \in 1 .. l /\ j \notin 1 .. l
  <2>1. j - l \in 1 .. m /\ l + (j - l) = j
    BY <1>3, <1>6, <1>8
  <2>2. st[j] \in ToSet(t) /\ st[i] \in ToSet(s)
    BY <1>4, <1>5, <1>8, <2>1
  <2> QED BY <2>2
<1>9. CASE i \notin 1 .. l /\ j \in 1 .. l
  <2>1. i - l \in 1 .. m /\ l + (i - l) = i
    BY <1>3, <1>6, <1>9
  <2>2. st[i] \in ToSet(t) /\ st[j] \in ToSet(s)
    BY <1>4, <1>5, <1>9, <2>1
  <2> QED BY <2>2
<1>10. CASE i \notin 1 .. l /\ j \notin 1 .. l
  <2>1. i - l \in 1 .. m /\ l + (i - l) = i /\ j - l \in 1 .. m /\ l + (j - l) = j
    BY <1>3, <1>6, <1>10
  <2>2. t[i - l] = t[j - l] /\ i - l \in DOMAIN t /\ j - l \in DOMAIN t
    BY <1>1, <1>5, <2>1
  <2>3. i - l = j - l
    BY <2>2 DEF ToldApart
  <2> QED BY <2>1, <2>3
<1> QED BY <1>7, <1>8, <1>9, <1>10

LEMMA FlatTellsApart ==
    ASSUME NEW n, NEW seqs, Joinable(seqs, n), NEW flat, JoinedBy(flat, seqs, n),
           \A i \in 1 .. n : ToldApart(seqs[i]),
           \A i, j \in 1 .. n : i # j => ToSet(seqs[i]) \cap ToSet(seqs[j]) = {},
           NEW k \in 0 .. n
    PROVE  /\ ToldApart(flat[k])
           /\ ToSet(flat[k]) = UNION {ToSet(seqs[i]) : i \in 1 .. k}
<1> DEFINE Good(h) == /\ ToldApart(flat[h])
                      /\ ToSet(flat[h]) = UNION {ToSet(seqs[i]) : i \in 1 .. h}
           K == {h \in Nat : h <= n => Good(h)}
<1>0. /\ n \in Nat /\ \A h \in 1 .. n : IsSequence(seqs[h])
      /\ \A h \in 0 .. n : IsSequence(flat[h])
      /\ \A h \in 1 .. n : flat[h] = flat[h - 1] \o seqs[h]
      /\ flat[0] = <<>>
  BY DEF Joinable, JoinedBy
<1>1. 0 \in K
  <2>1. ToldApart(<<>>) /\ ToSet(<<>>) = {} /\ 1 .. 0 = {}
    BY DEF ToldApart, ToSet
  <2> QED BY <1>0, <2>1
<1>2. ASSUME NEW h \in Nat, h \in K
      PROVE  h + 1 \in K
  <2> SUFFICES ASSUME h + 1 <= n PROVE Good(h + 1)
    OBVIOUS
  <2>1. h \in 0 .. n /\ h + 1 \in 1 .. n /\ (h + 1) - 1 = h /\ h <= n
    BY <1>0
  <2>2. Good(h)
    BY <1>2, <2>1
  <2>3. flat[h + 1] = flat[h] \o seqs[h + 1] /\ IsSequence(flat[h]) /\ IsSequence(seqs[h + 1])
    BY <1>0, <2>1
  <2>4. ToSet(flat[h]) \cap ToSet(seqs[h + 1]) = {}
    <3>1. \A i \in 1 .. h : i \in 1 .. n /\ i # h + 1
      BY <1>0, <2>1
    <3>2. \A i \in 1 .. h : ToSet(seqs[i]) \cap ToSet(seqs[h + 1]) = {}
      BY <2>1, <3>1
    <3> QED BY <2>2, <3>2
  <2>5. ToldApart(flat[h] \o seqs[h + 1])
    BY <2>1, <2>2, <2>3, <2>4, JoinedTellsApart
  <2>6. ToSet(flat[h] \o seqs[h + 1]) = ToSet(flat[h]) \cup ToSet(seqs[h + 1])
    BY <2>3, JoinedIsSequence
  <2>7. UNION {ToSet(seqs[i]) : i \in 1 .. (h + 1)}
          = (UNION {ToSet(seqs[i]) : i \in 1 .. h}) \cup ToSet(seqs[h + 1])
    <3>1. 1 .. (h + 1) = (1 .. h) \cup {h + 1}
      OBVIOUS
    <3> QED BY <3>1
  <2> QED BY <2>2, <2>3, <2>5, <2>6, <2>7
<1>3. Nat \subseteq K
  <2> HIDE DEF K
  <2> QED BY <1>1, <1>2, NaturalSteps
<1>4. k \in K
  <2> HIDE DEF K
  <2> QED BY <1>3
<1> QED BY <1>0, <1>4

\* The parts of the summaries, in their order.
PartsOf(g)   == [i \in 1 .. 11 |-> InSomeOrder(SummariesOf(SummaryKinds[i], g))]
EarlyKinds   == {"run", "finalization", "graph_limitation", "evidence_gap", "artifact",
                 "verification_observation"}

LEMMA SummaryParts ==
    ASSUME ContentInv, Made(graph), NEW parts, parts = PartsOf(graph)
    PROVE  /\ Summaries(graph) = FlattenSeq(parts) /\ Joinable(parts, 11)
           /\ \A i \in 1 .. 11 : /\ ToldApart(parts[i])
                                 /\ ToSet(parts[i]) = SummariesOf(SummaryKinds[i], graph)
           /\ \A i, j \in 1 .. 11 : i # j => ToSet(parts[i]) \cap ToSet(parts[j]) = {}
<1> DEFINE of(i) == SummariesOf(SummaryKinds[i], graph)
<1>1. DOMAIN SummaryKinds = 1 .. 11
  BY DEF SummaryKinds
<1>2. Summaries(graph) = FlattenSeq(parts)
  BY <1>1 DEF Summaries, PartsOf
<1>3. \A i \in 1 .. 11 : IsFiniteSet(of(i)) /\ \A s \in of(i) : s.kind = SummaryKinds[i]
  BY FiniteSummaries
<1>4. (\A i \in 1 .. 11 : parts[i] = InSomeOrder(of(i))) /\ parts = [i \in 1 .. 11 |-> parts[i]]
  BY DEF PartsOf
<1> HIDE DEF of
<1>5. \A i \in 1 .. 11 : IsSequence(parts[i]) /\ ToSet(parts[i]) = of(i) /\ ToldApart(parts[i])
  BY <1>3, <1>4, OrderIsSequence, OrderTellsApart
<1>6. Joinable(parts, 11)
  BY <1>4, <1>5 DEF Joinable
<1>7. \A i, j \in 1 .. 11 : i # j => SummaryKinds[i] # SummaryKinds[j]
  BY DEF SummaryKinds
<1>8. \A i, j \in 1 .. 11 : i # j => ToSet(parts[i]) \cap ToSet(parts[j]) = {}
  BY <1>3, <1>5, <1>7
<1> QED BY <1>2, <1>5, <1>6, <1>8 DEF of

LEMMA SummariesAreTold ==
    ASSUME ContentInv, Made(graph)
    PROVE  ToldApart(Summaries(graph))
<1> DEFINE parts == PartsOf(graph)
<1>1. /\ Summaries(graph) = FlattenSeq(parts) /\ Joinable(parts, 11)
      /\ \A i \in 1 .. 11 : ToldApart(parts[i])
      /\ \A i, j \in 1 .. 11 : i # j => ToSet(parts[i]) \cap ToSet(parts[j]) = {}
  BY SummaryParts
<1> HIDE DEF parts
<1>2. PICK flat : JoinedBy(flat, parts, 11)
  BY <1>1, JoinableSteps
<1>3. 11 \in 0 .. 11 /\ flat[11] = FlattenSeq(parts)
  BY <1>2 DEF JoinedBy
<1>4. ToldApart(flat[11])
  BY <1>1, <1>2, <1>3, FlatTellsApart
<1> QED BY <1>1, <1>3, <1>4

(***************************************************************************)
(* What must not be lost comes first: the run, its end, limitations, gaps, *)
(* artifacts and checks take no more places than there are.                *)
(***************************************************************************)
EarlyNodes(g) == {n \in g.nodes : DropPriority(n.id) < 2}

LEMMA EarlySummariesFit ==
    ASSUME ContentInv, Made(graph),
           NEW S, \A s \in S : \E kind \in EarlyKinds : s \in SummariesOf(kind, graph)
    PROVE  /\ IsFiniteSet(S)
           /\ Cardinality(S) <= Cardinality(EarlyNodes(graph)) + Cardinality(graph.limitations)
<1> DEFINE N == EarlyNodes(graph)
           L == graph.limitations
           of(l) == [kind |-> "graph_limitation", id |-> RunNode,
                     meta |-> [limitation |-> l], support |-> 0]
           f == [n \in N |-> Summary(n, graph)]
           h == [l \in L |-> of(l)]
<1>1. IsFiniteSet(N) /\ DOMAIN f = N
  <2>1. N \subseteq graph.nodes
    BY DEF EarlyNodes
  <2> HIDE DEF N
  <2> QED BY <2>1, BuiltGraph, FS_Subset
<1>2. IsFiniteSet(L) /\ DOMAIN h = L
  <2>1. L \subseteq {"diff_hunks_not_retained", "final_manifest_unavailable",
                     "classification_partial"}
                    \cup {"classification_unavailable", "verification_partial",
                          "verification_unavailable"}
                    \cup {"evidence_gaps_present"}
    BY BuiltGraph DEF Graph, Limitations
  <2> HIDE DEF L
  <2> QED BY <2>1, SmallSetsAreFinite, ManyJoinedAreFinite, FS_Subset
<1>3. S \subseteq Range(f) \cup Range(h)
  <2> SUFFICES ASSUME NEW s \in S PROVE s \in Range(f) \cup Range(h)
    OBVIOUS
  <2>1. PICK kind \in EarlyKinds : s \in SummariesOf(kind, graph)
    OBVIOUS
  <2>2. CASE kind = "graph_limitation"
    <3>1. SummariesOf(kind, graph) = {of(l) : l \in L}
      BY <2>2 DEF SummariesOf
    <3> HIDE DEF of
    <3>2. Range(h) = {of(l) : l \in L}
      BY DEF Range
    <3> QED BY <2>1, <3>1, <3>2
  <2>3. CASE kind # "graph_limitation"
    <3>1. PICK n \in graph.nodes : n.id.kind = kind /\ s = Summary(n, graph)
      BY <2>1, <2>3 DEF SummariesOf, NodesOf
    <3>2. DropPriority(n.id) < 2
      BY <3>1 DEF DropPriority, EarlyKinds
    <3>3. n \in N
      BY <3>1, <3>2 DEF EarlyNodes
    <3>4. f[n] \in Range(f) /\ f[n] = s
      BY <3>1, <3>3 DEF Range
    <3> QED BY <3>4
  <2> QED BY <2>2, <2>3
<1> HIDE DEF f, h, N, L
<1>4. /\ IsFiniteSet(Range(f)) /\ Cardinality(Range(f)) <= Cardinality(N)
      /\ IsFiniteSet(Range(h)) /\ Cardinality(Range(h)) <= Cardinality(L)
  BY <1>1, <1>2, FiniteImage
<1>5. /\ IsFiniteSet(Range(f) \cup Range(h))
      /\ Cardinality(Range(f) \cup Range(h))
           = Cardinality(Range(f)) + Cardinality(Range(h)) - Cardinality(Range(f) \cap Range(h))
  BY <1>4, FS_Union
<1>6. /\ IsFiniteSet(S) /\ Cardinality(S) <= Cardinality(Range(f) \cup Range(h))
  BY <1>3, <1>5, FS_Subset
<1>7. IsFiniteSet(Range(f) \cap Range(h))
  <2>1. Range(f) \cap Range(h) \subseteq Range(f)
    OBVIOUS
  <2> QED BY <1>4, <2>1, FS_Subset
<1>8. /\ Cardinality(S) \in Nat /\ Cardinality(Range(f)) \in Nat /\ Cardinality(Range(h)) \in Nat
      /\ Cardinality(Range(f) \cap Range(h)) \in Nat /\ Cardinality(Range(f) \cup Range(h)) \in Nat
      /\ Cardinality(N) \in Nat /\ Cardinality(L) \in Nat
  BY <1>1, <1>2, <1>4, <1>5, <1>6, <1>7, FS_CardinalityType
<1>9. Cardinality(S) <= Cardinality(N) + Cardinality(L)
  BY <1>4, <1>5, <1>6, <1>8
<1> QED BY <1>6, <1>9 DEF N, L

LEMMA EarlySummariesComeFirst ==
    ASSUME ContentInv, Made(graph), RunFits, NEW kind \in EarlyKinds,
           NEW s \in SummariesOf(kind, graph)
    PROVE  \E i \in DOMAIN Summaries(graph) : i <= MaxSummaries /\ Summaries(graph)[i] = s
<1> DEFINE parts == PartsOf(graph)
<1>1. /\ Summaries(graph) = FlattenSeq(parts) /\ Joinable(parts, 11)
      /\ \A i \in 1 .. 11 : /\ ToldApart(parts[i])
                            /\ ToSet(parts[i]) = SummariesOf(SummaryKinds[i], graph)
      /\ \A i, j \in 1 .. 11 : i # j => ToSet(parts[i]) \cap ToSet(parts[j]) = {}
  BY SummaryParts
<1> HIDE DEF parts
<1>2. PICK flat : JoinedBy(flat, parts, 11)
  BY <1>1, JoinableSteps
<1>3. 6 \in 0 .. 11 /\ \A i \in 1 .. 6 : i \in 1 .. 11
  OBVIOUS
<1>4. IsSequence(flat[6])
  BY <1>2, <1>3 DEF JoinedBy
<1>5. ToldApart(flat[6]) /\ ToSet(flat[6]) = UNION {ToSet(parts[i]) : i \in 1 .. 6}
  BY <1>1, <1>2, <1>3, FlatTellsApart
<1>6. ToSet(flat[6]) = UNION {SummariesOf(SummaryKinds[i], graph) : i \in 1 .. 6}
  <2>1. \A i \in 1 .. 6 : ToSet(parts[i]) = SummariesOf(SummaryKinds[i], graph)
    BY <1>1, <1>3
  <2> QED BY <1>5, <2>1
<1>7. /\ \A i \in 1 .. 6 : SummaryKinds[i] \in EarlyKinds
      /\ \A k \in EarlyKinds : \E i \in 1 .. 6 : SummaryKinds[i] = k
  <2>1. /\ SummaryKinds[1] = "run" /\ SummaryKinds[2] = "finalization"
        /\ SummaryKinds[3] = "graph_limitation" /\ SummaryKinds[4] = "evidence_gap"
        /\ SummaryKinds[5] = "artifact" /\ SummaryKinds[6] = "verification_observation"
    BY DEF SummaryKinds
  <2>2. \A i \in 1 .. 6 : i = 1 \/ i = 2 \/ i = 3 \/ i = 4 \/ i = 5 \/ i = 6
    OBVIOUS
  <2>3. {1, 2, 3, 4, 5, 6} \subseteq 1 .. 6
    OBVIOUS
  <2> QED BY <2>1, <2>2, <2>3 DEF EarlyKinds
<1>8. \A x \in ToSet(flat[6]) : \E k \in EarlyKinds : x \in SummariesOf(k, graph)
  BY <1>6, <1>7
<1>9. Cardinality(ToSet(flat[6])) <= Cardinality(EarlyNodes(graph)) + Cardinality(graph.limitations)
  BY <1>8, EarlySummariesFit
<1>10. Cardinality(EarlyNodes(graph)) + Cardinality(graph.limitations) <= MaxSummaries
  BY DEF RunFits, EarlyNodes
<1>11. Cardinality(ToSet(flat[6])) = Len(flat[6])
  BY <1>4, <1>5, AsManyAsPlaces
<1>12. Len(flat[6]) \in Nat /\ DOMAIN flat[6] = 1 .. Len(flat[6])
  BY <1>4, SequenceElements
<1>13. s \in ToSet(flat[6])
  BY <1>6, <1>7
<1>14. PICK i \in DOMAIN flat[6] : flat[6][i] = s
  BY <1>13 DEF ToSet
<1>15. i \in DOMAIN Summaries(graph) /\ Summaries(graph)[i] = s
  BY <1>1, <1>2, <1>3, <1>14, EarlierPlaces
<1>16. i <= MaxSummaries
  <2> DEFINE total == Cardinality(EarlyNodes(graph)) + Cardinality(graph.limitations)
             l == Len(flat[6])
  <2>1. l <= total /\ total <= MaxSummaries /\ l \in Nat /\ i \in 1 .. l
    BY <1>9, <1>10, <1>11, <1>12, <1>14
  <2>2. total \in Int /\ MaxSummaries \in Int
    <3>1. IsFiniteSet(EarlyNodes(graph)) /\ IsFiniteSet(graph.limitations)
      <4>1. EarlyNodes(graph) \subseteq graph.nodes
        BY DEF EarlyNodes
      <4>2. graph.limitations \subseteq {"diff_hunks_not_retained", "final_manifest_unavailable",
                     "classification_partial"}
                    \cup {"classification_unavailable", "verification_partial",
                          "verification_unavailable"}
                    \cup {"evidence_gaps_present"}
        BY BuiltGraph DEF Graph, Limitations
      <4> QED BY <4>1, <4>2, BuiltGraph, SmallSetsAreFinite, ManyJoinedAreFinite, FS_Subset
    <3> QED BY <3>1, FS_CardinalityType, InputLimits
  <2> HIDE DEF total, l
  <2> QED BY <2>1, <2>2
<1> QED BY <1>15, <1>16

(***************************************************************************)
(* While anything of a check's output is shown no summary has been         *)
(* dropped: the loop takes relations first, then excerpts, then summaries. *)
(***************************************************************************)
SoundReductions(c) ==
    {x \in Reductions(c) : /\ ToldApart(x.summaries)
                           /\ x.excerpts # <<>> => x.summaries = c.summaries}

LEMMA DroppingIsSound ==
    ASSUME NEW c, \A s \in ToSet(c.summaries) : s.support \in Nat,
           NEW x \in SoundReductions(c), ~Fits(x)
    PROVE  DropSome(x) \in SoundReductions(c)
<1> DEFINE w == Weight(x)
           y == DropSome(x)
<1>1. /\ x \in Reductions(c) /\ x \in Contents(c) /\ ToldApart(x.summaries)
      /\ x.excerpts # <<>> => x.summaries = c.summaries
  BY DEF SoundReductions, Reductions
<1>2. y \in Reductions(c)
  BY <1>1, DroppingCounts
<1> SUFFICES ToldApart(y.summaries) /\ (y.excerpts # <<>> => y.summaries = c.summaries)
  BY <1>2 DEF SoundReductions
<1> HIDE DEF w
<1>3. CASE x.relations # <<>>
  <2> DEFINE n == ChunkOf(Len(x.relations), w)
  <2>1. y = [x EXCEPT !.relations = DropLast(@, n), !.droppedRelations = @ + n]
    BY <1>3 DEF DropSome, w
  <2> HIDE DEF n, y
  <2>2. y.summaries = x.summaries /\ y.excerpts = x.excerpts
    BY <1>1, <2>1 DEF Contents
  <2> QED BY <1>1, <2>2
<1>4. CASE x.relations = <<>> /\ x.excerpts # <<>>
  <2> DEFINE n == ChunkOf(Len(x.excerpts), w)
  <2>1. y = [x EXCEPT !.excerpts = DropLast(@, n), !.droppedExcerpts = @ + n]
    BY <1>4 DEF DropSome, w
  <2> HIDE DEF n, y
  <2>2. y.summaries = x.summaries
    BY <1>1, <2>1 DEF Contents
  <2> QED BY <1>1, <1>4, <2>2
<1>5. CASE x.relations = <<>> /\ x.excerpts = <<>>
  <2>1. ASSUME NEW priority \in {1, 2},
               y = [x EXCEPT
                 !.summaries = DropSummaries(@, priority, ChunkOf(Removable(x, priority), w)),
                 !.droppedSummaries =
                     @ + Limited(ChunkOf(Removable(x, priority), w), Removable(x, priority))]
        PROVE  ToldApart(y.summaries) /\ y.excerpts = <<>>
    <3> DEFINE n == ChunkOf(Removable(x, priority), w)
               l == Limited(n, Removable(x, priority))
    <3>1. y = [x EXCEPT !.summaries = DropSummaries(@, priority, n), !.droppedSummaries = @ + l]
      BY <2>1
    <3> HIDE DEF n, l, y
    <3>2. y.summaries = DropSummaries(x.summaries, priority, n) /\ y.excerpts = x.excerpts
      BY <1>1, <3>1 DEF Contents
    <3>3. IsSequence(x.summaries)
      <4>1. x.summaries \in Seq(ToSet(c.summaries))
        BY <1>1 DEF Contents
      <4> QED BY <4>1 DEF IsSequence, ToSet
    <3>4. ToldApart(DropSummaries(x.summaries, priority, n))
      BY <1>1, <3>3, KeptSummaries
    <3> QED BY <1>5, <3>2, <3>4
  <2>2. CASE Removable(x, 2) > 0
    <3>1. y = [x EXCEPT
             !.summaries = DropSummaries(@, 2, ChunkOf(Removable(x, 2), w)),
             !.droppedSummaries = @ + Limited(ChunkOf(Removable(x, 2), w), Removable(x, 2))]
      BY <1>5, <2>2 DEF DropSome, w
    <3> HIDE DEF y
    <3> QED BY <2>1, <3>1
  <2>3. CASE ~(Removable(x, 2) > 0) /\ Removable(x, 1) > 0
    <3>1. y = [x EXCEPT
             !.summaries = DropSummaries(@, 1, ChunkOf(Removable(x, 1), w)),
             !.droppedSummaries = @ + Limited(ChunkOf(Removable(x, 1), w), Removable(x, 1))]
      BY <1>5, <2>3 DEF DropSome, w
    <3> HIDE DEF y
    <3> QED BY <2>1, <3>1
  <2>4. CASE ~(Removable(x, 2) > 0) /\ ~(Removable(x, 1) > 0)
    <3>1. y = x
      BY <1>5, <2>4 DEF DropSome
    <3> HIDE DEF y
    <3> QED BY <1>1, <3>1
  <2> QED BY <2>2, <2>3, <2>4
<1> QED BY <1>3, <1>4, <1>5

LEMMA ReducedIsSound ==
    ASSUME NEW c, c \in Reductions(c), ToldApart(c.summaries),
           \A s \in ToSet(c.summaries) : s.support \in Nat
    PROVE  Reduced(c) \in SoundReductions(c)
<1> DEFINE V == SoundReductions(c)
<1>1. c \in Contents(c)
  BY DEF Reductions
<1>2. \A x \in V : ~Fits(x) => DropSome(x) \in V
  BY DroppingIsSound
<1>3. c \in V
  BY DEF SoundReductions
<1> HIDE DEF V
<1>4. Reduced(c) \in V
  BY <1>1, <1>2, <1>3, ReductionKeeps
<1> QED BY <1>4 DEF V

\* The first cut has all that comes first.
LEMMA FirstCutIsTold ==
    ASSUME ContentInv, Made(graph), RunFits, NEW c, c = FirstCut(graph, verification)
    PROVE  /\ ToldApart(c.summaries) /\ ToSet(c.summaries) \subseteq ToSet(Summaries(graph))
           /\ ToSet(c.excerpts) \subseteq ToSet(Excerpts(verification))
           /\ \A kind \in EarlyKinds : \A s \in SummariesOf(kind, graph) :
                  \E i \in DOMAIN c.summaries : c.summaries[i] = s
<1> DEFINE S == Summaries(graph)
           X == Excerpts(verification)
<1>1. c.summaries = Prefix(S, MaxSummaries) /\ c.excerpts = Prefix(X, MaxExcerpts)
  BY DEF FirstCut
<1>2. IsSequence(S) /\ IsSequence(X) /\ ToldApart(S)
  BY BuiltGraph, SummaryPlaces, SummariesAreTold, FiniteExcerpts
<1>3. \A kind \in EarlyKinds : \A s \in SummariesOf(kind, graph) :
          \E i \in DOMAIN S : i <= MaxSummaries /\ S[i] = s
  BY EarlySummariesComeFirst
<1> HIDE DEF S, X
<1>4. MaxSummaries \in Nat /\ MaxExcerpts \in Nat
  BY InputLimits
<1>5. /\ ToldApart(Prefix(S, MaxSummaries)) /\ ToSet(Prefix(S, MaxSummaries)) \subseteq ToSet(S)
      /\ \A i \in DOMAIN S : i <= MaxSummaries =>
             i \in DOMAIN Prefix(S, MaxSummaries) /\ Prefix(S, MaxSummaries)[i] = S[i]
  BY <1>2, <1>4, FirstParts
<1>6. ToSet(Prefix(X, MaxExcerpts)) \subseteq ToSet(X)
  BY <1>2, <1>4, FirstParts
<1>7. \A kind \in EarlyKinds : \A s \in SummariesOf(kind, graph) :
          \E i \in DOMAIN c.summaries : c.summaries[i] = s
  BY <1>1, <1>3, <1>5
<1> QED BY <1>1, <1>5, <1>6, <1>7 DEF S, X

\* A summary that is shown is one of its kind, and the run and its end have one each.
LEMMA SummariesOfTheirKind ==
    ASSUME ContentInv, Made(graph), NEW s \in ToSet(Summaries(graph))
    PROVE  s \in SummariesOf(s.kind, graph)
<1> DEFINE parts == PartsOf(graph)
<1>1. /\ Summaries(graph) = FlattenSeq(parts) /\ Joinable(parts, 11)
      /\ \A i \in 1 .. 11 : ToSet(parts[i]) = SummariesOf(SummaryKinds[i], graph)
  BY SummaryParts
<1> HIDE DEF parts
<1>2. s \in UNION {ToSet(parts[i]) : i \in 1 .. 11}
  BY <1>1, JoinedSequences
<1>3. PICK i \in 1 .. 11 : s \in SummariesOf(SummaryKinds[i], graph)
  BY <1>1, <1>2
<1>4. s.kind = SummaryKinds[i]
  BY <1>3, FiniteSummaries
<1> QED BY <1>3, <1>4

StartOf(run) == Node(RunNode, [terminalStatus |-> run.status])
EndOf(run)   ==
    Node(FinalizationNode, [terminalStatus |-> run.status, diagnostic |-> run.diagnostic])

LEMMA SummariesOfTheRun ==
    ASSUME ContentInv, Made(graph), NEW run, run = RunRecord(verification)
    PROVE  /\ SummariesOf("run", graph) = {Summary(StartOf(run), graph)}
           /\ SummariesOf("finalization", graph) = {Summary(EndOf(run), graph)}
<1>1. graph.nodes = GraphNodes(run, classification, verification)
  BY BuiltGraph DEF Graph
<1>2. StartOf(run) \in graph.nodes /\ EndOf(run) \in graph.nodes
  BY <1>1 DEF GraphNodes, RunNodes, StartOf, EndOf
<1>3. /\ \A n \in NodesOf(graph, "run") : n = StartOf(run)
      /\ \A n \in NodesOf(graph, "finalization") : n = EndOf(run)
  BY <1>1, NodesOfTheRun DEF NodesOf, StartOf, EndOf
<1>4. StartOf(run).id.kind = "run" /\ EndOf(run).id.kind = "finalization"
  <2>1. \A id, meta : Node(id, meta).id = id
    BY DEF Node
  <2> QED BY <2>1, KindsOfNodes DEF StartOf, EndOf
<1>5. NodesOf(graph, "run") = {StartOf(run)} /\ NodesOf(graph, "finalization") = {EndOf(run)}
  BY <1>2, <1>3, <1>4 DEF NodesOf
<1> QED BY <1>5 DEF SummariesOf

\* An excerpt is of a check whose summary says the same of it.
LEMMA ExcerptsHaveTheirChecks ==
    ASSUME ContentInv, Made(graph), NEW x \in ToSet(Excerpts(verification))
    PROVE  /\ x.text # "secret"
           /\ \E s \in SummariesOf("verification_observation", graph) :
                  /\ s.kind = "verification_observation" /\ s.id = x.id
                  /\ s.meta.verificationKind = x.kind /\ s.meta.observedStatus = x.status
<1>1. Made(verification)
  BY BuiltGraph
<1>2. x.text # "secret"
  BY <1>1, FiniteExcerpts
<1>3. PICK r \in Recognized(verification) :
          /\ x.id = VerificationNode(r[1], r[2].kind) /\ x.kind = r[2].kind
          /\ x.status = r[2].status
  BY <1>1, FiniteExcerpts
<1> DEFINE id == VerificationNode(r[1], r[2].kind)
           meta == [verificationKind |-> r[2].kind, observedStatus |-> r[2].status]
           n == Node(id, meta)
<1>4. n \in graph.nodes
  <2>1. graph.nodes = GraphNodes(RunRecord(verification), classification, verification)
    BY BuiltGraph DEF Graph
  <2>2. n \in VerificationNodes(verification)
    BY DEF VerificationNodes
  <2> QED BY <2>1, <2>2 DEF GraphNodes
<1>5. id.kind = "verification_observation"
  BY KindsOfNodes
<1>6. meta.verificationKind = x.kind /\ meta.observedStatus = x.status /\ id = x.id
  BY <1>3
<1> HIDE DEF id, meta
<1>7. n.id = id /\ n.meta = meta
  BY DEF Node
<1> DEFINE s == Summary(n, graph)
<1> HIDE DEF n
<1>8. s.kind = id.kind /\ s.id = id /\ s.meta = meta
  BY <1>7 DEF Summary
<1>9. s \in SummariesOf("verification_observation", graph)
  BY <1>4, <1>5, <1>7 DEF SummariesOf, NodesOf
<1> HIDE DEF s
<1> QED BY <1>2, <1>5, <1>6, <1>8, <1>9

LEMMA GraphIsOwned ==
    ASSUME ContentInv, Made(graph), RowsAreLegal, RefusedIsNoDocument
    PROVE  SourceIsOwned(RunRecord(verification), graph)
<1> DEFINE run == RunRecord(verification)
<1>1. graph.nodes = GraphNodes(run, classification, verification) /\ Made(verification)
  BY BuiltGraph DEF Graph
<1>2. \A id, meta : Node(id, meta).id = id /\ Node(id, meta).meta = meta
  BY DEF Node
<1> HIDE DEF run
<1>3. ASSUME NEW n \in NodesOf(graph, "run") \cup NodesOf(graph, "finalization")
      PROVE  n.meta.terminalStatus = run.status
  <2>1. n = StartOf(run) \/ n = EndOf(run)
    BY <1>1, NodesOfTheRun DEF NodesOf, StartOf, EndOf
  <2>2. /\ StartOf(run).meta = [terminalStatus |-> run.status]
        /\ EndOf(run).meta = [terminalStatus |-> run.status, diagnostic |-> run.diagnostic]
    BY <1>2 DEF StartOf, EndOf
  <2> QED BY <2>1, <2>2
<1>4. ASSUME NEW n \in NodesOf(graph, "verification_observation")
      PROVE  n.meta.verificationKind # "unknown"
  <2>1. n \in GraphNodes(run, classification, verification) /\ n.id.kind = "verification_observation"
    BY <1>1 DEF NodesOf
  <2>2. OfACheck(n, verification)
    <3>1. \/ OfTheRun(n, run) \/ OfAnEvent(n, run) \/ n = Node(BaselineNode, NoMeta)
          \/ OfAGap(n, run) \/ OfARole(n) \/ OfAReconciliation(n, run) \/ OfAFile(n, run)
          \/ OfAnEntry(n, classification) \/ OfALabel(n, classification)
          \/ OfARule(n, classification) \/ OfACommand(n, verification)
          \/ OfACheck(n, verification) \/ OfATestFile(n, verification)
      BY <2>1, OriginOfANode
    <3>2. OfTheRun(n, run) => n.id.kind \in {"run", "finalization"}
      BY <1>2, KindsOfNodes DEF OfTheRun
    <3>3. OfAnEvent(n, run) => n.id.kind = "event"
      BY <1>2, KindsOfNodes DEF OfAnEvent
    <3>4. n = Node(BaselineNode, NoMeta) => n.id.kind = "baseline"
      BY <1>2, KindsOfNodes
    <3>5. OfAGap(n, run) => n.id.kind = "evidence_gap"
      BY <1>2, KindsOfNodes DEF OfAGap
    <3>6. OfARole(n) => n.id.kind = "artifact"
      BY <1>2, KindsOfNodes DEF OfARole
    <3>7. OfAReconciliation(n, run) => n.id.kind = "reconciliation"
      BY <1>2, KindsOfNodes DEF OfAReconciliation
    <3>8. OfAFile(n, run) => n.id.kind = "changed_file"
      BY <1>2, KindsOfNodes DEF OfAFile
    <3>9. OfAnEntry(n, classification) => n.id.kind = "classification_entry"
      BY <1>2, KindsOfNodes DEF OfAnEntry
    <3>10. OfALabel(n, classification) => n.id.kind = "classification_label"
      BY <1>2, KindsOfNodes DEF OfALabel
    <3>11. OfARule(n, classification) => n.id.kind = "classification_rule"
      BY <1>2, KindsOfNodes DEF OfARule
    <3>12. OfACommand(n, verification) => n.id.kind = "command_observation"
      BY <1>2, KindsOfNodes DEF OfACommand
    <3>13. OfATestFile(n, verification) => n.id.kind = "test_file_change"
      BY <1>2, KindsOfNodes DEF OfATestFile
    <3> QED BY <2>1, <3>1, <3>2, <3>3, <3>4, <3>5, <3>6, <3>7, <3>8, <3>9, <3>10, <3>11, <3>12,
               <3>13
  <2>3. PICK x \in Recognized(verification) :
            n = Node(VerificationNode(x[1], x[2].kind),
                     [verificationKind |-> x[2].kind, observedStatus |-> x[2].status])
    BY <2>2 DEF OfACheck
  <2>4. n.meta.verificationKind = x[2].kind
    BY <1>2, <2>3
  <2>5. PICK i \in DOMAIN verification.observations : x = <<i, verification.observations[i]>>
    BY DEF Recognized, Observations
  <2>6. x[2] = verification.observations[i] /\ x[2].verificationEvent # None
    BY <2>5 DEF Recognized
  <2>7. x[2].verificationEvent = IF x[2].kind = "unknown" THEN None ELSE 10 * i + 2
    BY <1>1, <2>5, <2>6, ObservedEvents
  <2> QED BY <2>4, <2>6, <2>7
<1> QED BY <1>3, <1>4 DEF SourceIsOwned, run

\* The reduced document meets the contract of the input.
LEMMA OutcomeIsTold ==
    ASSUME NEW g, NEW c, NEW d, d = InputDocument(g, c),
           \/ g.outcome = "complete" /\ g.limitations = {}
           \/ g.outcome = "partial" /\ g.limitations # {},
           "budget_truncated" \notin g.limitations
    PROVE  LET truncated == "budget_truncated" \in d.limitations
           IN  /\ \/ /\ d.outcome = "ready" /\ d.diagnostic = None
                     /\ d.graphOutcome = "complete" /\ d.limitations = {}
                  \/ /\ d.outcome = "partial"
                     /\ d.diagnostic = IF d.graphOutcome = "complete"
                                       THEN "budget_truncated"
                                       ELSE IF truncated THEN "source_partial_and_budget_truncated"
                                       ELSE "source_partial"
                     /\ d.graphOutcome = "complete" => truncated
               /\ truncated <=> Truncated(c)
<1> DEFINE cut == IF Truncated(c) THEN {"budget_truncated"} ELSE {}
<1>1. /\ d.graphOutcome = g.outcome /\ d.limitations = g.limitations \cup cut
      /\ d.outcome = IF g.outcome = "complete" /\ ~Truncated(c) THEN "ready" ELSE "partial"
      /\ d.diagnostic = IF g.outcome = "complete"
                        THEN IF Truncated(c) THEN "budget_truncated" ELSE None
                        ELSE IF Truncated(c) THEN "source_partial_and_budget_truncated"
                        ELSE "source_partial"
  BY DEF InputDocument
<1>2. "budget_truncated" \in d.limitations <=> Truncated(c)
  BY <1>1
<1>3. CASE Truncated(c)
  BY <1>1, <1>2, <1>3
<1>4. CASE ~Truncated(c)
  <2>1. cut = {} /\ d.limitations = g.limitations
    BY <1>1, <1>4
  <2> HIDE DEF cut
  <2> QED BY <1>1, <1>2, <1>4, <2>1
<1> QED BY <1>3, <1>4

LEMMA InputIsAccepted ==
    ASSUME ContentInv, Made(graph), RunFits, NEW c,
           c = Reduced(FirstCut(graph, verification))
    PROVE  InputIsValid(InputDocument(graph, c))
<1> DEFINE f == FirstCut(graph, verification)
           d == InputDocument(graph, c)
           run == RunRecord(verification)
           S == ToSet(c.summaries)
           start == Summary(StartOf(run), graph)
           end   == Summary(EndOf(run), graph)
           ofKind(k) == {s \in S : s.kind = k}
<1>1. /\ f \in Reductions(f) /\ \A s \in ToSet(f.summaries) : s.support \in Nat
      /\ ToldApart(f.summaries) /\ ToSet(f.summaries) \subseteq ToSet(Summaries(graph))
      /\ ToSet(f.excerpts) \subseteq ToSet(Excerpts(verification))
      /\ \A kind \in EarlyKinds : \A s \in SummariesOf(kind, graph) :
             \E i \in DOMAIN f.summaries : f.summaries[i] = s
  BY FirstCutIsSound, FirstCutIsTold
<1>2. c \in SoundReductions(f)
  BY <1>1, ReducedIsSound
<1>3. d.content = c
  BY DEF InputDocument
<1>4. /\ SummariesOf("run", graph) = {start} /\ SummariesOf("finalization", graph) = {end}
  BY SummariesOfTheRun
<1>5. /\ start.id = RunNode /\ start.kind = "run" /\ end.kind = "finalization"
      /\ start.meta = [terminalStatus |-> run.status]
      /\ end.meta = [terminalStatus |-> run.status, diagnostic |-> run.diagnostic]
  <2>1. \A id, meta : Node(id, meta).id = id /\ Node(id, meta).meta = meta
    BY DEF Node
  <2>2. \A n : /\ Summary(n, graph).id = n.id /\ Summary(n, graph).kind = n.id.kind
               /\ Summary(n, graph).meta = n.meta
    BY DEF Summary
  <2> HIDE DEF run
  <2> QED BY <2>1, <2>2, KindsOfNodes DEF StartOf, EndOf
<1>6. /\ \/ graph.outcome = "complete" /\ graph.limitations = {}
         \/ graph.outcome = "partial" /\ graph.limitations # {}
      /\ "budget_truncated" \notin graph.limitations
  <2>1. GraphIsValid(graph)
    BY BuiltGraph
  <2>2. graph.limitations = Limitations(run, classification, verification)
    BY BuiltGraph DEF Graph
  <2>3. "budget_truncated" \notin Limitations(run, classification, verification)
    BY DEF Limitations
  <2> QED BY <2>1, <2>2, <2>3 DEF GraphIsValid
<1> HIDE DEF f, run, start, end
<1>7. /\ MustStay(f, c) /\ c \in Contents(f) /\ ToldApart(c.summaries)
      /\ c.excerpts # <<>> => c.summaries = f.summaries
  BY <1>2 DEF SoundReductions, Reductions
<1>8. /\ c.summaries \in Seq(ToSet(f.summaries)) /\ c.excerpts \in Seq(ToSet(f.excerpts))
  BY <1>7 DEF Contents
<1>9. IsSequence(c.summaries) /\ S \subseteq ToSet(Summaries(graph))
      /\ ToSet(c.excerpts) \subseteq ToSet(Excerpts(verification))
  <2>1. \A V : \A s \in Seq(V) : IsSequence(s) /\ ToSet(s) \subseteq V
    BY DEF IsSequence, ToSet
  <2>2. IsSequence(c.summaries) /\ S \subseteq ToSet(f.summaries)
    BY <1>8, <2>1
  <2>3. ToSet(c.excerpts) \subseteq ToSet(f.excerpts)
    BY <1>8, <2>1
  <2> HIDE DEF S
  <2> QED BY <1>1, <2>2, <2>3
<1>10. Cardinality(S) = Len(c.summaries)
  BY <1>7, <1>9, AsManyAsPlaces
<1>11. start \in S /\ end \in S
  <2>1. "run" \in EarlyKinds /\ "finalization" \in EarlyKinds
    BY DEF EarlyKinds
  <2>2. PICK i \in DOMAIN f.summaries : f.summaries[i] = start
    BY <1>1, <1>4, <2>1
  <2>3. PICK j \in DOMAIN f.summaries : f.summaries[j] = end
    BY <1>1, <1>4, <2>1
  <2>4. DropPriority(start) = 0 /\ DropPriority(end) = 0
    BY <1>5 DEF DropPriority
  <2> QED BY <1>7, <2>2, <2>3, <2>4 DEF MustStay
<1>12. ofKind("run") = {start} /\ ofKind("finalization") = {end}
  <2>1. \A s \in S : s \in SummariesOf(s.kind, graph)
    BY <1>9, SummariesOfTheirKind
  <2> HIDE DEF S
  <2> QED BY <1>4, <1>5, <1>11, <2>1
<1>13. Cardinality(ofKind("run")) = 1 /\ Cardinality(ofKind("finalization")) = 1
  <2> HIDE DEF ofKind
  <2> QED BY <1>12, FS_Singleton
<1>14. \A r \in ofKind("run"), e \in ofKind("finalization") :
           r.id = RunNode /\ r.meta.terminalStatus = e.meta.terminalStatus
  <2> HIDE DEF ofKind
  <2>1. start.meta.terminalStatus = end.meta.terminalStatus
    BY <1>5
  <2> QED BY <1>5, <1>12, <2>1
<1>15. ASSUME NEW x \in ToSet(c.excerpts)
       PROVE  ExcerptIsValid(x, S)
  <2>1. c.excerpts # <<>>
    <3>1. ToSet(<<>>) = {}
      BY ShortSequences
    <3> QED BY <1>15, <3>1
  <2>2. c.summaries = f.summaries
    BY <1>7, <2>1
  <2>3. x.text # "secret"
    BY <1>9, ExcerptsHaveTheirChecks
  <2>4. PICK s \in SummariesOf("verification_observation", graph) :
            /\ s.kind = "verification_observation" /\ s.id = x.id
            /\ s.meta.verificationKind = x.kind /\ s.meta.observedStatus = x.status
    BY <1>9, ExcerptsHaveTheirChecks
  <2>5. "verification_observation" \in EarlyKinds
    BY DEF EarlyKinds
  <2>6. PICK i \in DOMAIN f.summaries : f.summaries[i] = s
    BY <1>1, <2>5
  <2>7. s \in S
    BY <2>2, <2>6 DEF ToSet
  <2> HIDE DEF S
  <2> QED BY <2>3, <2>4, <2>7 DEF ExcerptIsValid
<1> DEFINE truncated == "budget_truncated" \in d.limitations
<1>16. /\ \/ /\ d.outcome = "ready" /\ d.diagnostic = None
             /\ d.graphOutcome = "complete" /\ d.limitations = {}
          \/ /\ d.outcome = "partial"
             /\ d.diagnostic = IF d.graphOutcome = "complete"
                               THEN "budget_truncated"
                               ELSE IF truncated THEN "source_partial_and_budget_truncated"
                               ELSE "source_partial"
             /\ d.graphOutcome = "complete" => truncated
       /\ truncated <=> Truncated(d.content)
  <2> HIDE DEF d
  <2> QED BY <1>3, <1>6, OutcomeIsTold DEF d
<1> HIDE DEF d
<1> QED BY <1>3, <1>10, <1>13, <1>14, <1>15, <1>16 DEF InputIsValid, d

LEMMA InputIsPrepared ==
    ASSUME ContentInv, Made(graph), RowsAreLegal, RefusedIsNoDocument, RunFits
    PROVE  PrepareInput(RunRecord(verification), graph, verification) # Refused
<1> DEFINE c == Reduced(FirstCut(graph, verification))
           d == InputDocument(graph, c)
<1>1. SourceIsOwned(RunRecord(verification), graph)
  BY GraphIsOwned
<1>2. InputIsValid(d)
  BY InputIsAccepted
<1>3. "outcome" \in DOMAIN d /\ "outcome" \in DOMAIN Unavailable
  BY DEF InputDocument, Unavailable
<1>4. PrepareInput(RunRecord(verification), graph, verification) \in {Unavailable, d}
  <2>1. PrepareInput(RunRecord(verification), graph, verification)
          = IF ~SourceIsOwned(RunRecord(verification), graph) THEN Refused
            ELSE IF ~Fits(c) THEN Unavailable
            ELSE IF InputIsValid(d) THEN d ELSE Refused
    BY DEF PrepareInput
  <2> HIDE DEF c, d
  <2> QED BY <1>1, <1>2, <2>1
<1> HIDE DEF d
<1> QED BY <1>3, <1>4 DEF RefusedIsNoDocument

LEMMA DocumentsAreMade ==
    ContentInv /\ RowsAreLegal /\ RefusedIsNoDocument /\ RunFits => DocumentsAreAccepted
<1> SUFFICES ASSUME ContentInv, RowsAreLegal, RefusedIsNoDocument, RunFits
             PROVE  DocumentsAreAccepted
  OBVIOUS
<1>0. ChainInv /\ None # Refused
  BY ContentAssumption DEF ContentInv
<1>1. ASSUME classification = Refused
      PROVE  seal.final # None /\ \E i \in DOMAIN files : ~IsCanonical(files[i].path)
  <2>1. seal # None /\ classification = Classify(FinalReconciliation)
    BY <1>0, <1>1 DEF ChainInv
  <2> QED BY <1>1, <2>1, ChangesAreClassified
<1>2. verification # Refused
  <2>1. CASE verification # None
    <3>1. Made(classification) /\ verification = Extract(classification, SourceEvents)
      BY <1>0, <2>1 DEF ChainInv
    <3> QED BY <3>1, EvidenceIsExtracted
  <2> QED BY <1>0, <2>1
<1>3. graph # Refused
  <2>1. CASE graph # None
    <3>1. /\ Made(verification)
          /\ graph = BuildGraph(RunRecord(verification), classification, verification)
      BY <1>0, <2>1 DEF ChainInv
    <3> QED BY <3>1, GraphIsBuilt
  <2> QED BY <1>0, <2>1
<1>4. input # Refused
  <2>1. CASE input # None
    <3>1. Made(graph) /\ input = PrepareInput(RunRecord(verification), graph, verification)
      BY <1>0, <2>1 DEF ChainInv
    <3> QED BY <3>1, InputIsPrepared
  <2> QED BY <1>0, <2>1
<1> QED BY <1>1, <1>2, <1>3, <1>4 DEF DocumentsAreAccepted

(***************************************************************************)
(* Whatever a run whose rows are legal recorded, as long as its graph and  *)
(* its checks fit the limits, the classifier, the extractor, the graph     *)
(* builder and the reducer make documents their contracts accept, except   *)
(* that the classifier refuses a run that keeps a path at its end which is *)
(* not canonical: nothing else keeps a run from its provider for ever.     *)
(***************************************************************************)
THEOREM DocumentsOfARunAreAccepted ==
    RowsAreLegal /\ RefusedIsNoDocument =>
        (ContentSpec /\ []RunFits => []DocumentsAreAccepted)
<1> SUFFICES ASSUME RowsAreLegal, RefusedIsNoDocument
             PROVE  ContentSpec /\ []RunFits => []DocumentsAreAccepted
  OBVIOUS
<1>1. ContentInv /\ RunFits => DocumentsAreAccepted
  BY DocumentsAreMade
<1> QED BY <1>1, ContentInvariant, PTL
=============================================================================
