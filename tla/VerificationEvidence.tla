-------------------------- MODULE VerificationEvidence --------------------------
(***************************************************************************)
(* Verification extraction: which shell commands of a run were tests,      *)
(* linters, type checks or builds, what is known of their result, and      *)
(* which changed files are tests.  A command is the sequence of its tokens *)
(* after unquoting (None when the code does not tokenize it: shell         *)
(* metacharacters, an open quote, too long); the program and a script name *)
(* are compared in lower case without their directory, and a script name   *)
(* stands without the suffix after its colon.                              *)
(***************************************************************************)
EXTENDS ChangeClassification, SequencesExt

CONSTANT
    MaxExitCode    \* the largest exit code the contract's 32-bit integer holds

Kinds == {"test", "lint", "typecheck", "build"}

Unrecognized == [kind |-> "unknown", ruleId |-> "unknown.unsupported_command", family |-> "unknown"]

(***************************************************************************)
(* recognizeVerificationCommand.                                           *)
(***************************************************************************)
PackageScript(family, tokens) ==
    IF tokens # <<>> /\ Head(tokens) \in Kinds
    THEN [kind |-> Head(tokens), ruleId |-> <<"package_script", family>>, family |-> family]
    ELSE Unrecognized

AlwaysTools ==
    {<<"vitest", "test">>, <<"jest", "test">>, <<"eslint", "lint">>, <<"rollup", "build">>,
     <<"webpack", "build">>}
ArgumentTools ==       \* the argument may stand anywhere
    {<<"node", "--test", "test", "node_test">>, <<"tsc", "--noEmit", "typecheck", "typescript">>,
     <<"typescript", "--noEmit", "typecheck", "typescript">>}
SubcommandTools ==     \* the argument must come first
    {<<"biome", "lint", "lint">>, <<"vite", "build", "build">>, <<"next", "build", "build">>}

DirectTool(wrapper, tokens) ==
    LET found ==
          IF tokens = <<>> THEN {}
          ELSE {<<t[2], t[1]>> : t \in {t \in AlwaysTools : t[1] = Head(tokens)}}
               \cup {<<t[3], t[4]>> : t \in {t \in ArgumentTools :
                        t[1] = Head(tokens) /\ t[2] \in ToSet(Tail(tokens))}}
               \cup {<<t[3], t[1]>> : t \in {t \in SubcommandTools :
                        IsPrefix(<<t[1], t[2]>>, tokens)}}
    IN  IF found = {} THEN Unrecognized
        ELSE LET f == CHOOSE f \in found : TRUE
             IN  [kind |-> f[1], ruleId |-> <<wrapper, f[2]>>, family |-> f[2]]

AfterDashes(tokens) == IF tokens # <<>> /\ Head(tokens) = "--" THEN Tail(tokens) ELSE tokens

\* Each package manager's own subcommands; what is none of them is a script of
\* pnpm and yarn, and a direct tool of the others.
Recognize(tokens) ==
    LET program == Head(tokens)
        first   == IF Len(tokens) > 1 THEN tokens[2] ELSE ""
        rest    == SubSeq(tokens, 3, Len(tokens))
    IN  IF tokens = None \/ tokens = <<>> THEN Unrecognized
        ELSE CASE program = "npm" /\ first = "test"   -> PackageScript("npm", <<"test">>)
               [] program = "npm" /\ first = "run"    -> PackageScript("npm", rest)
               [] program = "npm" /\ first = "exec"   -> DirectTool("npm_exec", AfterDashes(rest))
               [] program = "npx"                     -> DirectTool("npx", Tail(tokens))
               [] program \in {"pnpm", "yarn"} /\ first = "run" -> PackageScript(program, rest)
               [] program = "pnpm" /\ first = "exec"  -> DirectTool("pnpm_exec", AfterDashes(rest))
               [] program = "pnpm" /\ first = "dlx"   -> DirectTool("pnpm_dlx", AfterDashes(rest))
               [] program = "yarn" /\ first = "dlx"   -> DirectTool("yarn_dlx", AfterDashes(rest))
               [] program \in {"pnpm", "yarn"} /\ first \notin {"run", "exec", "dlx"} ->
                      PackageScript(program, Tail(tokens))
               [] program = "yarn" /\ first = "exec"  -> PackageScript("yarn", Tail(tokens))
               [] program = "bun" /\ first = "test"   -> PackageScript("bun", <<"test">>)
               [] program = "bun" /\ first = "run"    -> PackageScript("bun", rest)
               [] program = "bun" /\ first = "x"      -> DirectTool("bun_x", AfterDashes(rest))
               [] OTHER                               -> DirectTool("direct", tokens)

(***************************************************************************)
(* collectResponse and acceptedBashObservation.  A tool response is absent *)
(* (null), a text, an object, or something else; an exit code is an        *)
(* integer, None, or Refused when it is no integer.  An output is          *)
(*   [field, text, long]: its excerpt keeps the text and says whether      *)
(* anything was cut off.                                                   *)
(***************************************************************************)
NoResponse   == [form |-> "absent", camel |-> None, snake |-> None, outputs |-> {}, odd |-> FALSE]
ReduceOutput(o) == [field |-> o.field, text |-> o.text, truncated |-> o.long]

CodesConflict(r) ==
    {r.camel, r.snake} \cap {None, Refused} = {} /\ r.camel # r.snake

ExitCodeOf(r) ==
    IF r.form # "object" \/ Refused \in {r.camel, r.snake} THEN None
    ELSE IF r.camel # None THEN r.camel ELSE r.snake

\* r.odd: one of stdout, stderr and output is there and is no string.
ResponseIsPartial(r, outcome) ==
    \/ r.form = "object" /\ (Refused \in {r.camel, r.snake} \/ r.odd)
    \/ r.form = "other"
    \/ r.form = "absent" /\ outcome = "succeeded"

ResultConflicts(outcome, code) ==
    \/ outcome = "succeeded" /\ code \notin {None, 0}
    \/ outcome = "failed" /\ code = 0

IsBashResult(e) == e.type \in {"tool.succeeded", "tool.failed"} /\ e.tool = "Bash"
BashResults(events) ==
    FoldLeft(LAMBDA es, e : IF IsBashResult(e) THEN Append(es, e) ELSE es, <<>>, events)

AcceptedObservation(e) ==
    LET outcome == IF e.type = "tool.succeeded" THEN "succeeded" ELSE "failed"
        r       == e.response
        code    == ExitCodeOf(r)
    IN  IF \/ r.form = "object" /\ CodesConflict(r)
           \/ outcome = "failed" /\ e.error = {}
           \/ ResultConflicts(outcome, code)
        THEN Refused
        ELSE [sourceEvent |-> e.id, outcome |-> outcome, command |-> e.command,
              recognition |-> Recognize(e.command), exitCode |-> code,
              outputs |-> {ReduceOutput(o) :
                             o \in (IF r.form \in {"object", "text"} THEN r.outputs ELSE {})
                                   \cup (IF outcome = "failed" THEN e.error ELSE {})},
              partial |-> e.command = None \/ ResponseIsPartial(r, outcome)]

(***************************************************************************)
(* prepareDeterministicVerificationEvidence.                               *)
(***************************************************************************)
StatusOf(s) ==
    IF s.recognition.kind = "unknown" THEN "unknown"
    ELSE IF s.outcome = "failed" THEN "failed"
    ELSE IF s.exitCode = 0 THEN "passed" ELSE "observed_without_exit_code"

\* The identities of the events the stage derives from a source event: those of
\* tool results are multiples of ten, see RunContent.
CommandEventOf(e)      == e + 1
VerificationEventOf(e) == e + 2

Observation(s) ==
    [sourceEvent |-> s.sourceEvent, kind |-> s.recognition.kind, ruleId |-> s.recognition.ruleId,
     family |-> s.recognition.family, outcome |-> s.outcome, exitCode |-> s.exitCode,
     status |-> StatusOf(s), outputs |-> s.outputs, commandEvent |-> CommandEventOf(s.sourceEvent),
     verificationEvent |-> IF s.recognition.kind = "unknown" THEN None
                           ELSE VerificationEventOf(s.sourceEvent)]

TestFileChanges(classification) ==
    LET tested == {i \in DOMAIN classification.entries :
                     \E a \in classification.entries[i].labels : a.label = "tests"}
    IN  {[entry |-> i, fileEvent |-> classification.entries[i].fileEvent,
          ruleIds |-> UNION {{x.ruleId : x \in a.evidence} :
                               a \in {a \in classification.entries[i].labels : a.label = "tests"}}]
            : i \in tested}

AggregateKinds(observations) ==
    LET ofKind(k)        == {i \in DOMAIN observations : observations[i].kind = k}
        withStatus(k, s) == Cardinality({i \in ofKind(k) : observations[i].status = s})
    IN  {[kind |-> k, count |-> Cardinality(ofKind(k)), passed |-> withStatus(k, "passed"),
          failed |-> withStatus(k, "failed"),
          withoutExitCode |-> withStatus(k, "observed_without_exit_code")]
            : k \in {k \in Kinds : ofKind(k) # {}}}

\* The contract: DeterministicVerificationEvidenceV1Schema.
ObservationIsValid(o) ==
    /\ o.exitCode = None \/ o.exitCode \in (-MaxExitCode - 1)..MaxExitCode
    /\ ~ResultConflicts(o.outcome, o.exitCode)
    /\ Cardinality({x.field : x \in o.outputs}) = Cardinality(o.outputs)
    /\ IF o.kind = "unknown"
       THEN /\ o.ruleId = Unrecognized.ruleId /\ o.family = "unknown"
            /\ o.status = "unknown" /\ o.verificationEvent = None
       ELSE /\ o.family # "unknown" /\ o.verificationEvent # None
            /\ o.status = IF o.outcome = "failed" THEN "failed"
                          ELSE IF o.exitCode = 0 THEN "passed" ELSE "observed_without_exit_code"

EvidenceIsValid(d) ==
    LET observations == ToSet(d.observations)
        derived      == {o.commandEvent : o \in observations}
                        \cup ({o.verificationEvent : o \in observations} \ {None})
        recognized   == {i \in DOMAIN d.observations : d.observations[i].kind # "unknown"}
    IN  /\ \/ d.outcome = "extracted" /\ d.diagnostic = None
           \/ d.outcome = "partial" /\ d.diagnostic # None
           \/ /\ d.outcome = "unavailable" /\ d.diagnostic = "classification_unavailable"
              /\ d.observations = <<>> /\ d.testFileChanges = {}
        /\ \A o \in observations : ObservationIsValid(o)
        /\ Cardinality({o.sourceEvent : o \in observations}) = Len(d.observations)
        /\ Cardinality(derived) = Len(d.observations) + Cardinality(recognized)
        /\ Cardinality({t.entry : t \in d.testFileChanges}) = Cardinality(d.testFileChanges)
        /\ d.kinds = AggregateKinds(d.observations)

Extract(classification, events) ==
    LET results      == BashResults(events)
        accepted     == [i \in DOMAIN results |-> AcceptedObservation(results[i])]
        sourcePartial == \E i \in DOMAIN accepted : accepted[i].partial
        classPartial == classification.outcome = "partial"
        unavailable  == classification.outcome = "unavailable"
        observations == [i \in DOMAIN accepted |-> Observation(accepted[i])]
        document ==
            [outcome |-> IF unavailable /\ accepted = <<>> THEN "unavailable"
                         ELSE IF sourcePartial \/ classPartial \/ unavailable THEN "partial"
                         ELSE "extracted",
             diagnostic |-> IF unavailable THEN "classification_unavailable"
                            ELSE IF sourcePartial /\ classPartial
                                 THEN "source_and_classification_partial"
                            ELSE IF sourcePartial THEN "source_observation_partial"
                            ELSE IF classPartial THEN "classification_partial" ELSE None,
             observations |-> observations,
             testFileChanges |-> TestFileChanges(classification),
             kinds |-> AggregateKinds(observations)]
    IN  IF Refused \in ToSet(accepted) \/ ~EvidenceIsValid(document) THEN Refused ELSE document
=============================================================================
