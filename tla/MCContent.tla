-------------------------------- MODULE MCContent --------------------------------
(***************************************************************************)
(* Files, commands, endings and claims for RunContent: a source file that  *)
(* the rules of two labels match, a test, a secret, a file whose name ends *)
(* in a space, and one with a backslash, with which Git's status is not    *)
(* read; tests that pass, fail, tell no exit code or print a secret, and a *)
(* command that is no check; runs that end in each of the ways that differ *)
(* in what the graph can say.                                              *)
(***************************************************************************)
EXTENDS RunContent

Path(segments, extension, patterns) ==
    [segments |-> segments, basename |-> "x", extension |-> extension, patterns |-> patterns,
     forms |-> {}]
File(kind, sensitivity, path) ==
    [changeKind |-> kind, sensitivity |-> sensitivity, path |-> path]

Screen   == File("created", "normal", Path({"app", "pages"}, "tsx", {}))
TestFile == File("modified", "normal", Path({"tests"}, "ts", {"test_suffix"}))
Secret   == File("deleted", "secret", NoPath)
Notes    == File("created", "normal",
                 [Path({"docs"}, "md", {}) EXCEPT !.forms = {"outer_space"}])
Escaped  == File("created", "normal",
                 [Path({"src"}, "ts", {}) EXCEPT !.forms = {"backslash"}])
MCFiles  == {Screen, TestFile, Secret, Notes, Escaped}

Response(camel, outputs) ==
    [form |-> "object", camel |-> camel, snake |-> None, outputs |-> outputs, odd |-> FALSE]
Output(field, text, long) == [field |-> field, text |-> text, long |-> long]
Tool(type, command, response, error) ==
    [id |-> 0, type |-> type, tool |-> "Bash", command |-> command, response |-> response,
     error |-> error]

Passing == Tool("tool.succeeded", <<"npm", "test">>,
                Response(0, {Output("stdout", "clean", TRUE)}), {})
Failing == Tool("tool.failed", <<"pnpm", "exec", "vitest">>, NoResponse,
                {Output("error", "secret", FALSE)})
Silent  == Tool("tool.succeeded", <<"npx", "jest">>, Response(None, {}), {})
Other   == Tool("tool.succeeded", <<"git", "status">>,
                Response(0, {Output("stdout", "blank", FALSE)}), {})
Checker == Tool("tool.failed", <<"tsc", "--noEmit">>, Response(2, {}),
                {Output("error", "clean", FALSE)})
MCCommands == {Passing, Failing, Silent, Other, Checker}

Ending(status, diagnostic, baseline, final, manifest, gaps) ==
    [status |-> status, diagnostic |-> diagnostic, baseline |-> baseline, final |-> final,
     manifest |-> manifest, gaps |-> gaps]
Gap(code) == [id |-> 1, code |-> code]
MCSeals ==
    {Ending("Completed", "none", "clean", "captured", TRUE, {}),
     Ending("Partial", "final_reconciliation_partial", "dirty", "partial", TRUE,
            {Gap("final_reconciliation_partial")}),
     Ending("Failed", "source_stop_failure", "dirty", "captured", FALSE,
            {Gap("source_stop_failure")}),
     Ending("Abandoned", "stale_capturing_recovered", None, None, FALSE,
            {Gap("stale_capturing_recovered")})}

Proposal(type, words, importance, length) ==
    [type |-> type, text |-> words, importance |-> importance, confidence |-> 5000,
     length |-> length, choices |-> <<"yes", "no">>]
Words(S) == {Phrase(w) : w \in S}
MCProposals ==
    {Proposal("change", Words({"created"}), "low", 40),
     Proposal("change", Words({"modified", "tests"}), "high", 400),
     Proposal("change", {AttributedAs("observed_only")}, "low", 40),
     Proposal("risk", Words({"test", "failed"}), "critical", 60),
     Proposal("risk", {RunIs("Failed")}, "low", 60),
     Proposal("risk", Words({"evidence_gap", "zebra"}), "low", 60),
     Proposal("decision", Words({"plan_recorded"}), "medium", 30),
     Proposal("check", Words({"test", "passed"}), "medium", 300),
     Proposal("check", Words({"ui", "never"}), "medium", 300),
     Proposal("change", Words({"created", "url"}), "high", 40),
     [Proposal("check", Words({"test", "passed"}), "low", 40)
        EXCEPT !.choices = <<"yes", "yes">>]}

\* The hypothesis about rows of DocumentsOfARunAreAccepted is true of these.
ASSUME RowsOfTheModel == RowsAreLegal
=============================================================================
