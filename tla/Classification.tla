---------------------------- MODULE Classification ----------------------------
(***************************************************************************)
(* The two classifiers of failures: pipelines/cargo/cargo_classifier.py,   *)
(* which reads the log of a failing post build for the entry, and          *)
(* scripts/reclassify_failures.py, which reads the log of a failing pre    *)
(* build for the database.  The log is written by cargo, step by step;     *)
(* what went wrong is remembered beside it, so that a verdict can be       *)
(* compared with schema/failure-taxonomy.md.                               *)
(***************************************************************************)
EXTENDS Naturals, SequencesExt

CONSTANTS
    MaxLines    \* bound: lines of a log that a classifier looks for

ASSUME ClassificationAssumption == MaxLines \in Nat \ {0}

VARIABLES
    side,      \* the build in progress: pre, post, or done with both
    stage,     \* how far cargo has come with it
    log,       \* the log of that build, as the markers in it
    causes,    \* what went wrong in it
    failure,   \* failureClassification of the entry, <<top, sub>>
    row,       \* category in drive_state_classifications
    reason     \* drive_state's reason for not_reproducible

vars == <<side, stage, log, causes, failure, row, reason>>

\* A line that stops the resolver; a build script that fails; a diagnostic of rustc.
Unresolved == {"lock_stale", "no_manifest", "no_version", "download"}
\* openssl: of the old crates; native: pkg-config has no fuse or v4l2; other build scripts
\* that panic count as script_panic.
ScriptFailure == {"openssl", "nightly", "native", "script_panic"}
CodedError == {"known_error", "other_error"}
Error == CodedError \cup {"uncoded_error", "link"}
TestFailure == {"test_panic", "segv"}
\* clone: git gave up before cargo ran; old_format: cargo does not know the message format
\* asked for, in logs of runs before BUILD_CMD asked for plain json.
NotStarted == {"clone", "old_format"}
\* oom: the kernel killed a compiler for the container's memory limit.
Uncompiled == Error \cup {"oom"}
\* script_ran and warning are the JSON messages of builds that go well; summary is a line of
\* "could not compile" that does not count previous errors.
Marker == Unresolved \cup NotStarted \cup ScriptFailure \cup Uncompiled \cup TestFailure
              \cup {"script_ran", "warning", "summary", "timeout"}

TopCategory == {"COMPILATION_FAILURE", "TEST_FAILURE", "DEPENDENCY_RESOLUTION_FAILURE",
                "ENVIRONMENT_FAILURE", "OTHER"}
Category == {"REPO_GONE", "LOCK_FILE_STALE", "OPENSSL_MISMATCH", "NATIVE_DEP_MISSING",
             "NIGHTLY_REQUIRED", "RUSTC_BITROT", "TEST_FAILURE", "RUNTIME_CRASH",
             "NETWORK_ERROR", "TIMEOUT", "DEPENDENCY_RESOLUTION", "OLD_MESSAGE_FORMAT",
             "NO_LOG", "OTHER"}
Unclassified == <<"none", "none">>

Init ==
    /\ side = "pre" /\ stage = "resolve"
    /\ log = <<>> /\ causes = {}
    /\ failure = Unclassified
    /\ row = "none" /\ reason = "none"

Has(markers) == Range(log) \cap markers # {}
Prints(m) == Len(log) < MaxLines /\ log' = Append(log, m)

----------------------------------------------------------------------------
(* git clone; cargo test --locked --message-format=json --no-fail-fast.    *)

ResolveFails(m) ==
    /\ stage = "resolve"
    /\ Prints(m) /\ causes' = {m} /\ stage' = "ended"
    /\ UNCHANGED <<side, failure, row, reason>>

Resolves ==
    /\ stage = "resolve" /\ stage' = "compile"
    /\ UNCHANGED <<side, log, causes, failure, row, reason>>

\* Crates are built side by side: their messages come in any order, and those under way
\* when one fails are still finished.
Compiles(m) ==
    /\ stage = "compile"
    /\ Prints(m)
    /\ causes' = IF m \in Uncompiled \cup ScriptFailure THEN causes \cup {m} ELSE causes
    /\ UNCHANGED <<side, stage, failure, row, reason>>

\* Cargo's last word on a crate.
Summarises ==
    /\ stage = "compile" /\ causes \cap Error # {}
    /\ Prints("summary")
    /\ UNCHANGED <<side, stage, causes, failure, row, reason>>

CompileEnds ==
    /\ stage = "compile"
    /\ stage' = IF causes = {} THEN "test" ELSE "ended"
    /\ UNCHANGED <<side, log, causes, failure, row, reason>>

TestFails(m) ==
    /\ stage = "test"
    /\ Prints(m) /\ causes' = causes \cup {m}
    /\ UNCHANGED <<side, stage, failure, row, reason>>

TestsEnd ==
    /\ stage = "test" /\ stage' = "ended"
    /\ UNCHANGED <<side, log, causes, failure, row, reason>>

\* The reproducer kills the container and writes its marker behind what there is.
TimesOut ==
    /\ stage # "ended"
    /\ log' = Append(log, "timeout") /\ causes' = causes \cup {"timeout"} /\ stage' = "ended"
    /\ UNCHANGED <<side, failure, row, reason>>

----------------------------------------------------------------------------
(* The classifiers: the first rule that finds a marker gives the verdict.  *)

First(rules, otherwise) ==
    LET hits == {i \in DOMAIN rules : Has(rules[i][1])}
    IN  IF hits = {} THEN otherwise ELSE rules[Min(hits)][2]

\* Mutant: the category of the other scheme.
PreTimeoutRule == <<{"timeout"}, <<"TIMEOUT", "none">>>>

TimeoutRule == <<{"timeout"}, <<"ENVIRONMENT_FAILURE", "TEST_TIMEOUT">>>>
ScriptRule == <<{"openssl", "nightly"}, <<"ENVIRONMENT_FAILURE", "of_script">>>>
LockRule == <<{"lock_stale"}, <<"DEPENDENCY_RESOLUTION_FAILURE", "LOCK_FILE_STALE">>>>
ResolutionRule == <<{"no_manifest", "no_version"}, <<"DEPENDENCY_RESOLUTION_FAILURE", "none">>>>
Panicked == ScriptFailure \cup {"test_panic"}
PanicRule == <<Panicked, <<"TEST_FAILURE", "OTHER_TEST_FAILURE">>>>
LinkRule == <<{"link"}, <<"ENVIRONMENT_FAILURE", "none">>>>

\* Mutant: the marks of tests come before that of the reproducer.
PanicFirst == <<PanicRule, TimeoutRule, ScriptRule, LockRule, ResolutionRule, LinkRule>>

\* Mutant: the marks of tests come before those of build scripts.
PanicBeforeScripts == <<TimeoutRule, PanicRule, ScriptRule, LockRule, ResolutionRule, LinkRule>>

TextRules == <<TimeoutRule, ScriptRule, LockRule, ResolutionRule, PanicRule, LinkRule>>

\* Every compiler message with a code counts, a warning's too.
Coded == {i \in DOMAIN log : log[i] \in CodedError \cup {"warning"}}

\* cargo_classifier.classify, of a post log.
classify_post ==
    IF Coded = {} THEN First(TextRules, <<"OTHER", "none">>)
    ELSE <<"COMPILATION_FAILURE",
           IF log[Min(Coded)] = "known_error" THEN "of_code" ELSE "OTHER_COMPILE_ERROR">>

\* The last error line that is not generic: "build failed", or a crate that could not be
\* compiled "due to N previous errors".  Diagnostics are JSON, and git's last line is fatal.
Errors ==
    {i \in DOMAIN log :
        log[i] \in Unresolved \cup ScriptFailure \cup TestFailure
                      \cup {"old_format", "oom", "summary"}}
TerminalIs(m) == Errors # {} /\ log[Max(Errors)] = m

\* Mutant: every panic is one of a build script.
AnyPanic == Panicked

\* A panic, where the log speaks of a build script anywhere.
ScriptPanics == IF Has(ScriptFailure \cup {"script_ran"}) THEN Panicked ELSE {}

\* reclassify_failures.classify, of a pre log.
PreRules ==
    <<<<{"timeout"}, "TIMEOUT">>,
      <<{"no_manifest"}, "REPO_GONE">>,
      <<{"lock_stale"}, "LOCK_FILE_STALE">>,
      <<{"nightly"}, "NIGHTLY_REQUIRED">>,
      <<IF TerminalIs("openssl") THEN {"openssl"} ELSE {}, "OPENSSL_MISMATCH">>,
      <<IF TerminalIs("native") THEN {"native"} ELSE {}, "NATIVE_DEP_MISSING">>,
      <<{"no_version"}, "DEPENDENCY_RESOLUTION">>,
      <<{"segv"}, "RUNTIME_CRASH">>,
      <<ScriptPanics, "RUNTIME_CRASH">>,
      <<CodedError, "RUSTC_BITROT">>,
      <<{"test_panic"}, "TEST_FAILURE">>,
      <<{"download"}, "NETWORK_ERROR">>,
      <<{"old_format"}, "OLD_MESSAGE_FORMAT">>,
      <<Uncompiled, "RUSTC_BITROT">>>>

----------------------------------------------------------------------------
(* The driver and the reclassification.                                    *)

\* The pre build passes: its log is of no further use; the post build begins.
PrePasses ==
    /\ side = "pre" /\ stage = "ended" /\ causes = {}
    /\ side' = "post" /\ stage' = "resolve" /\ log' = <<>>
    /\ UNCHANGED <<causes, failure, row, reason>>

\* The pre build fails: not_reproducible.  The post build is run all the same, and is asked
\* for a timeout as well.
PreFails ==
    /\ side = "pre" /\ stage = "ended" /\ causes # {}
    /\ \E post_times_out \in BOOLEAN :
          reason' = IF "timeout" \in causes \/ post_times_out
                    THEN "pre_build_timed_out" ELSE "pre_build_failed"
    /\ side' = "done"
    /\ UNCHANGED <<stage, log, causes, failure, row>>

\* A failing post build makes a breaking entry with its verdict, a passing one an entry
\* without.
PostEnds ==
    /\ side = "post" /\ stage = "ended"
    /\ failure' = IF causes = {} THEN Unclassified ELSE classify_post
    /\ side' = "done"
    /\ UNCHANGED <<stage, log, causes, row, reason>>

\* The row is put in place of the last one; the log may be gone by then.
Reclassify ==
    /\ side = "done" /\ reason # "none"
    /\ row' \in IF reason = "pre_build_timed_out" THEN {"TIMEOUT"}
                ELSE {"NO_LOG", First(PreRules, "OTHER")}
    /\ UNCHANGED <<side, stage, log, causes, failure, reason>>

Built == ScriptFailure \cup Uncompiled \cup {"script_ran", "warning"}

Building == side # "done" /\ (\/ \E m \in Unresolved \cup NotStarted : ResolveFails(m)
                              \/ Resolves
                              \/ \E m \in Built : Compiles(m)
                              \/ Summarises
                              \/ CompileEnds
                              \/ \E m \in TestFailure : TestFails(m)
                              \/ TestsEnd
                              \/ TimesOut)

Next ==
    \/ Building
    \/ PrePasses
    \/ PreFails
    \/ PostEnds
    \/ Reclassify

Spec == Init /\ [][Next]_vars

----------------------------------------------------------------------------
(* What should hold.                                                       *)

\* The variables have their types.
TypeOK ==
    /\ side \in {"pre", "post", "done"}
    /\ stage \in {"resolve", "compile", "test", "ended"}
    /\ log \in Seq(Marker) /\ Len(log) <= MaxLines + 1
    /\ causes \in SUBSET Marker
    /\ failure = Unclassified \/ failure[1] \in TopCategory
    /\ row \in Category \cup {"none"}
    /\ reason \in {"none", "pre_build_timed_out", "pre_build_failed"}

\* The headings under which the taxonomy (schema/failure-taxonomy.md:33-72) has each cause;
\* a TEST_TIMEOUT is under TEST_FAILURE there (58-62).  What is under no heading, a clone that
\* fails or a compiler killed for memory, is of the environment.  OTHER always is a verdict.
TopOf(cause) ==
    CASE cause \in Unresolved -> {"DEPENDENCY_RESOLUTION_FAILURE"}
      [] cause \in {"openssl", "nightly", "native", "link", "oom"} \cup NotStarted ->
            {"ENVIRONMENT_FAILURE"}
      [] cause = "script_panic" -> {"ENVIRONMENT_FAILURE", "COMPILATION_FAILURE"}
      [] cause \in CodedError \cup {"uncoded_error"} -> {"COMPILATION_FAILURE"}
      [] OTHER -> {"TEST_FAILURE"}

Verdict == failure[1]
Fits(verdict, Of(_)) == verdict = "OTHER" \/ \E c \in causes : verdict \in Of(c)

\* The verdict on a breaking entry whose build ended by itself names a cause of its failure,
\* when rustc had no warnings and no build script panicked for reasons of its own.
QuietVerdictFits ==
    failure # Unclassified /\ ~Has({"timeout", "warning", "native", "script_panic"})
        => Fits(Verdict, TopOf)

\* "TEST_FAILURE - compilation succeeds, tests fail" (schema/failure-taxonomy.md:36).
TestsFailIsTestFailure ==
    failure # Unclassified /\ causes = {"test_panic"} => Verdict = "TEST_FAILURE"

\* "Reproducer-side timeout takes highest priority" (cargo_classifier.py:115-117): whatever
\* else the log holds, a build that was killed is a TEST_TIMEOUT of the environment, against
\* the taxonomy's heading for it; only a message of rustc with a code comes before.
TimeoutOutranks ==
    failure # Unclassified /\ "timeout" \in causes =>
        \/ failure = <<"ENVIRONMENT_FAILURE", "TEST_TIMEOUT">>
        \/ Verdict = "COMPILATION_FAILURE" /\ Has(CodedError \cup {"warning"})

\* What the taxonomy (schema/failure-taxonomy.md:99-114) says of each cause of a failing
\* pre build; every panic of a build script is a runtime crash as well, and so is one of a
\* test where a build script is spoken of: "panic in build-script or tests"
\* (reclassify_failures.py:25).  It has no category for a compiler killed for memory, which
\* goes with the crates that could not be compiled.
RowsOf(cause) ==
    CASE cause = "no_manifest" -> {"REPO_GONE"}
      [] cause = "lock_stale" -> {"LOCK_FILE_STALE"}
      [] cause = "no_version" -> {"DEPENDENCY_RESOLUTION"}
      [] cause \in {"download", "clone"} -> {"NETWORK_ERROR", "DEPENDENCY_RESOLUTION"}
      [] cause = "old_format" -> {"OLD_MESSAGE_FORMAT"}
      [] cause = "openssl" -> {"OPENSSL_MISMATCH", "RUNTIME_CRASH"}
      [] cause = "native" -> {"NATIVE_DEP_MISSING", "RUNTIME_CRASH"}
      [] cause = "nightly" -> {"NIGHTLY_REQUIRED", "RUNTIME_CRASH"}
      [] cause = "script_panic" -> {"RUNTIME_CRASH"}
      [] cause \in Uncompiled -> {"RUSTC_BITROT"}
      [] cause = "timeout" -> {"TIMEOUT"}
      [] cause = "test_panic" ->
            {"TEST_FAILURE"} \cup (IF Has({"script_ran"}) THEN {"RUNTIME_CRASH"} ELSE {})
      [] OTHER -> {"RUNTIME_CRASH", "TEST_FAILURE"}

\* The category of a candidate that is not reproducible names a cause of its pre build,
\* unless only the post build timed out.
RowFits ==
    /\ row \notin {"none", "NO_LOG"}
    /\ reason = "pre_build_timed_out" => "timeout" \in causes
    => Fits(row, RowsOf)
=============================================================================
