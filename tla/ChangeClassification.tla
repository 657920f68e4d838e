-------------------------- MODULE ChangeClassification --------------------------
(***************************************************************************)
(* Change classification: which labels the changed files of a              *)
(* reconciliation get, from their relative paths alone, and the document   *)
(* the contract accepts.  A path is what the rules can tell of it: its     *)
(* lower-cased segments and basename, its extension, the file-name         *)
(* patterns it matches, each named by its rule, and the irregular forms it *)
(* has.  A refused input (the code throws) is the value Refused.           *)
(***************************************************************************)
EXTENDS Integers, Sequences, FiniteSets, FiniteSetsExt

CONSTANTS
    None,      \* null
    Refused    \* what an operation that throws returns

SupportedLabels ==
    {"ui", "behavior", "tests", "dependency", "authentication_authorization", "public_api",
     "database_migration", "configuration_infrastructure", "documentation"}

NoPath == [segments |-> {}, basename |-> "", extension |-> "", patterns |-> {}, forms |-> {}]

(***************************************************************************)
(* The rule table.  Most rules look one feature of the path up in a set.   *)
(***************************************************************************)
CodeExtensions == {"ts", "tsx", "js", "jsx", "mjs", "cjs"}
SourceSegments == {"src", "app", "lib", "server", "services", "service", "domain", "usecases",
                   "use-cases", "handlers", "workers"}
TestSegments   == {"test", "tests", "__tests__", "spec", "specs", "e2e", "integration", "fixtures"}

IsTestPath(p) == p.segments \cap TestSegments # {} \/ "test_suffix" \in p.patterns

Rule(id, label, confidence, kind, matched) ==
    IF matched
    THEN {[ruleId |-> id, label |-> label, confidence |-> confidence, kind |-> kind]} ELSE {}

AuthenticationRules(p) ==
    Rule("authentication.path_segment", "authentication_authorization", 8500, "path_segment",
         p.segments \cap {"auth", "authentication", "authorization", "authorisation", "oauth",
             "oidc", "rbac", "acl", "permission", "permissions", "session", "sessions",
             "identity", "access-control"} # {})
    \cup Rule("authentication.filename_prefix", "authentication_authorization", 7500,
              "path_pattern", "auth_prefix" \in p.patterns)

BehaviorRules(p) ==
    Rule("behavior.source_code", "behavior", 6500, "path_pattern",
         /\ p.extension \in CodeExtensions /\ "declaration" \notin p.patterns
         /\ p.segments \cap SourceSegments # {}
         /\ ~IsTestPath(p) /\ "configuration" \notin p.patterns
         /\ p.segments \cap {"migrations", "migration"} = {})

ConfigurationRules(p) ==
    Rule("configuration.ci_workflow", "configuration_infrastructure", 9800, "path_pattern",
         "workflow_prefix" \in p.patterns)
    \cup Rule("configuration.exact_filename", "configuration_infrastructure", 9500,
              "exact_filename",
              p.basename \in {"dockerfile", "compose.yml", "compose.yaml", "docker-compose.yml",
                  "docker-compose.yaml", "biome.json", "biome.jsonc", "turbo.json", "nx.json",
                  "vercel.json", "netlify.toml", "fly.toml", "wrangler.toml"})
    \cup Rule("configuration.filename_pattern", "configuration_infrastructure", 9000,
              "path_pattern", "configuration" \in p.patterns)
    \cup Rule("configuration.infrastructure_segment", "configuration_infrastructure", 8500,
              "path_segment",
              p.segments \cap {".github", "infrastructure", "infra", "terraform", "kubernetes",
                  "k8s", "helm", "deploy", "deployment", "ci"} # {})

DatabaseRules(p) ==
    Rule("database.extension", "database_migration", 9500, "extension",
         p.extension \in {"sql", "prisma"})
    \cup Rule("database.path_segment", "database_migration", 8500, "path_segment",
              p.segments \cap {"database", "databases", "db", "migration", "migrations",
                  "prisma", "drizzle"} # {})
    \cup Rule("database.migration_filename", "database_migration", 9000, "path_pattern",
              "migration" \in p.patterns)

DependencyAndDocumentationRules(p) ==
    Rule("dependency.package_manifest", "dependency", 10000, "exact_filename",
         p.basename \in {"package.json", "package-lock.json", "npm-shrinkwrap.json",
             "pnpm-lock.yaml", "pnpm-workspace.yaml", "yarn.lock", "bun.lock", "bun.lockb",
             "deno.json", "deno.jsonc", "deno.lock"})
    \cup Rule("documentation.extension", "documentation", 9500, "extension",
              p.extension \in {"md", "mdx", "rst", "adoc"})
    \cup Rule("documentation.exact_filename", "documentation", 9800, "exact_filename",
              "documentation" \in p.patterns)
    \cup Rule("documentation.path_segment", "documentation", 8500, "path_segment",
              p.segments \cap {"docs", "doc", "documentation"} # {})

ApiTestAndUiRules(p) ==
    Rule("public_api.exact_definition", "public_api", 9500, "path_pattern",
         "api_definition" \in p.patterns)
    \cup Rule("public_api.filename_prefix", "public_api", 7000, "path_pattern",
              "api_prefix" \in p.patterns)
    \cup Rule("public_api.path_segment", "public_api", 7500, "path_segment",
              p.segments \cap {"api", "apis", "route", "routes", "router", "routers",
                  "controller", "controllers", "endpoint", "endpoints", "contracts", "graphql",
                  "rpc", "openapi", "swagger"} # {})
    \cup Rule("tests.path_or_suffix", "tests", 9500, "path_pattern", IsTestPath(p))
    \cup Rule("ui.component_path", "ui", 8500, "path_segment",
              p.segments \cap {"ui", "component", "components", "page", "pages", "view", "views",
                  "screen", "screens", "styles", "theme"} # {})
    \cup Rule("ui.frontend_extension", "ui", 8500, "extension",
              p.extension \in {"tsx", "jsx", "css", "scss", "sass", "less", "styl"})

MatchingRules(p) ==
    AuthenticationRules(p) \cup BehaviorRules(p) \cup ConfigurationRules(p)
    \cup DatabaseRules(p) \cup DependencyAndDocumentationRules(p) \cup ApiTestAndUiRules(p)

(***************************************************************************)
(* classifyPath: the label a path gets from each rule that matches, with   *)
(* the highest confidence among them; unknown when none does.              *)
(***************************************************************************)
UnknownLabel ==
    [label |-> "unknown", confidence |-> 0,
     evidence |-> {[ruleId |-> "fallback.no_supported_rule", kind |-> "fallback"]}]

ClassifyPath(path) ==
    LET rules == MatchingRules(path)
        labelled(l) == {r \in rules : r.label = l}
    IN  IF rules = {} THEN {UnknownLabel}
        ELSE {[label |-> l, confidence |-> Max({r.confidence : r \in labelled(l)}),
               evidence |-> {[ruleId |-> r.ruleId, kind |-> r.kind] : r \in labelled(l)}]
                : l \in {r.label : r \in rules}}

(***************************************************************************)
(* The irregular forms of a path.  The reader of Git's status refuses the  *)
(* first ones, and the whole output with them; parsePath refuses these and *)
(* more: "c:name", more than 1024 characters, a space at either end, a     *)
(* name that is not in Unicode normal form C.                              *)
(***************************************************************************)
UnreadableForms   == {"absolute", "drive_root", "backslash", "control", "odd_segment"}
NonCanonicalForms == UnreadableForms \cup {"drive", "overlong", "outer_space", "not_nfc"}

IsReadable(path)  == path.forms \cap UnreadableForms = {}
IsCanonical(path) == path.forms \cap NonCanonicalForms = {}

\* An entry of a reconciliation keeps no path when it is secret.
\* parsePath refuses a secret entry that shows one.
PathIsLegal(e) == IF e.sensitivity = "secret" THEN e.path = NoPath ELSE IsCanonical(e.path)

ClassifyEntries(entries) ==
    [i \in DOMAIN entries |->
        [fileEvent |-> entries[i].fileEvent, sensitivity |-> entries[i].sensitivity,
         labels |-> ClassifyPath(entries[i].path)]]

AggregateLabels(classified) ==
    LET assigned(l) == {x \in UNION {{i} \X classified[i].labels : i \in DOMAIN classified}
                            : x[2].label = l}
    IN  {[label |-> l, count |-> Cardinality(assigned(l)),
          confidence |-> Max({x[2].confidence : x \in assigned(l)})]
            : l \in {a.label : a \in UNION {classified[i].labels : i \in DOMAIN classified}}}

(***************************************************************************)
(* The contract: what a classification document must look like for the     *)
(* stage to store it and for every later reader to accept it.              *)
(***************************************************************************)
LabelIsValid(a) ==
    /\ a.evidence # {}
    /\ IF a.label = "unknown" THEN a = UnknownLabel
       ELSE a.confidence > 0 /\ \A e \in a.evidence : e.kind # "fallback"

EntryIsValid(e) ==
    LET labels == {a.label : a \in e.labels}
    IN  /\ \A a \in e.labels : LabelIsValid(a)
        /\ Cardinality(labels) = Cardinality(e.labels) /\ Cardinality(labels) \in 1..10
        /\ "unknown" \in labels => Cardinality(labels) = 1

ClassificationIsValid(d) ==
    /\ \/ d.outcome = "classified" /\ d.reconciled /\ d.diagnostic = None
       \/ d.outcome = "partial" /\ d.reconciled /\ d.diagnostic = "reconciliation_partial"
       \/ /\ d.outcome = "unavailable" /\ ~d.reconciled /\ d.entries = <<>>
          /\ d.diagnostic = "reconciliation_unavailable"
    /\ \A i \in DOMAIN d.entries : EntryIsValid(d.entries[i])
    /\ Cardinality({d.entries[i].fileEvent : i \in DOMAIN d.entries}) = Len(d.entries)
    /\ d.aggregates = AggregateLabels(d.entries)

(***************************************************************************)
(* prepareDeterministicChangeClassification.                               *)
(***************************************************************************)
Classify(reconciliation) ==
    LET absent  == reconciliation = None
        entries == IF absent THEN <<>> ELSE ClassifyEntries(reconciliation.entries)
        document ==
            [outcome |-> IF absent THEN "unavailable"
                         ELSE IF reconciliation.outcome = "captured" THEN "classified"
                         ELSE "partial",
             reconciled |-> ~absent,
             diagnostic |-> IF absent THEN "reconciliation_unavailable"
                            ELSE IF reconciliation.outcome = "partial"
                                 THEN "reconciliation_partial" ELSE None,
             entries |-> entries, aggregates |-> AggregateLabels(entries)]
    IN  IF /\ absent \/ \A i \in DOMAIN reconciliation.entries : PathIsLegal(reconciliation.entries[i])
           /\ ClassificationIsValid(document)
        THEN document ELSE Refused
=============================================================================
