------------------------- MODULE ClassificationProofs -------------------------
(***************************************************************************)
(* For logs of any length and in any order: what the classifiers say of a  *)
(* failure went wrong in it, and what comes before what.                   *)
(***************************************************************************)
EXTENDS Classification, WellFoundedInduction, TLAPS

----------------------------------------------------------------------------
(* The inductive invariant.                                                *)

\* The markers that something went wrong leaves in a log.
Bad == Unresolved \cup NotStarted \cup ScriptFailure \cup Uncompiled \cup TestFailure
           \cup {"timeout"}

\* What went wrong is what the log says; there is room for the reproducer's marker.
LogInv ==
    /\ causes = Range(log) \cap Bad
    /\ stage = "resolve" => log = <<>>
    /\ stage # "ended" => Len(log) <= MaxLines

\* A verdict, and a row, are of the log as it is: nothing is added to it any more.
VerdictInv == failure # Unclassified => side = "done" /\ failure = classify_post
RowInv ==
    row \notin {"none", "NO_LOG"} =>
        /\ side = "done" /\ reason # "none"
        /\ row = IF reason = "pre_build_timed_out" THEN "TIMEOUT" ELSE First(PreRules, "OTHER")

IInv == TypeOK /\ LogInv /\ VerdictInv /\ RowInv

----------------------------------------------------------------------------
(* The rules.                                                              *)

\* A set of rules that is not empty has a first one.
LEMMA LeastOfSome ==
    ASSUME NEW S \in SUBSET Nat, S # {}
    PROVE  Min(S) \in S /\ \A i \in S : Min(S) <= i
PROOF
<1>1. \E i \in S : \A j \in S : ~(<<j, i>> \in OpToRel(<, Nat))
  BY NatLessThanWellFounded, WFMin, Zenon
<1>2. \E i \in S : \A j \in S : i <= j
  <2>1. PICK i \in S : \A j \in S : ~(<<j, i>> \in OpToRel(<, Nat))
    BY <1>1, Zenon
  <2>2. \A j \in S : ~(j < i)
    BY <2>1, Zenon DEF OpToRel
  <2> QED BY <2>2
<1> QED BY <1>2 DEF Min

\* The verdict is that of a rule with a marker in the log, none before it having one.
LEMMA FirstRule ==
    ASSUME NEW rules, NEW n \in Nat, DOMAIN rules = 1..n, NEW otherwise
    PROVE  \/ /\ First(rules, otherwise) = otherwise
              /\ \A i \in 1..n : ~Has(rules[i][1])
           \/ \E i \in 1..n :
                 /\ First(rules, otherwise) = rules[i][2]
                 /\ Has(rules[i][1])
                 /\ \A j \in 1..n : j < i => ~Has(rules[j][1])
PROOF
<1> DEFINE hits == {i \in DOMAIN rules : Has(rules[i][1])}
<1>1. CASE hits = {}
  BY <1>1 DEF First
<1>2. CASE hits # {}
  <2>1. hits \in SUBSET Nat /\ hits \subseteq 1..n
    OBVIOUS
  <2>2. Min(hits) \in hits /\ \A i \in hits : Min(hits) <= i
    BY <1>2, <2>1, LeastOfSome
  <2>3. First(rules, otherwise) = rules[Min(hits)][2]
    BY <1>2 DEF First
  <2>4. ASSUME NEW j \in 1..n, j < Min(hits), Has(rules[j][1])
        PROVE  FALSE
    <3>1. j \in hits
      BY <2>4
    <3>2. Min(hits) \in Nat /\ Min(hits) <= j
      BY <2>1, <2>2, <3>1
    <3> HIDE DEF hits
    <3> QED BY <2>4, <3>2
  <2> QED BY <2>1, <2>2, <2>3, <2>4
<1> QED BY <1>1, <1>2

LEMMA OneMarker == \A m : Has({m}) <=> m \in Range(log)
PROOF BY DEF Has

\* The verdict on a post log, rule by rule.
PostTable(top) ==
    \/ top = "COMPILATION_FAILURE" /\ Has(CodedError \cup {"warning"})
    \/ top = "ENVIRONMENT_FAILURE" /\ Has({"timeout"})
    \/ /\ ~Has({"timeout"}) /\ ~Has(CodedError \cup {"warning"})
       /\ \/ top = "OTHER" /\ ~Has(Panicked)
          \/ top = "ENVIRONMENT_FAILURE" /\ Has({"openssl", "nightly"})
          \/ top = "DEPENDENCY_RESOLUTION_FAILURE" /\ Has({"lock_stale"})
          \/ top = "DEPENDENCY_RESOLUTION_FAILURE" /\ Has({"no_manifest", "no_version"})
          \/ top = "TEST_FAILURE" /\ Has(Panicked) /\ ~Has({"openssl", "nightly"})
          \/ top = "ENVIRONMENT_FAILURE" /\ Has({"link"}) /\ ~Has(Panicked)

LEMMA PostVerdict == PostTable(classify_post[1])
PROOF
<1>1. CASE Coded # {}
  <2>1. Has(CodedError \cup {"warning"})
    BY <1>1 DEF Coded, Has, Range
  <2>2. classify_post[1] = "COMPILATION_FAILURE"
    BY <1>1 DEF classify_post
  <2> QED BY <2>1, <2>2, Zenon DEF PostTable
<1>2. CASE Coded = {}
  <2>1. ~Has(CodedError \cup {"warning"})
    BY <1>2 DEF Coded, Has, Range
  <2>2. DOMAIN TextRules = 1..6
    BY DEF TextRules
  <2>3. classify_post = First(TextRules, <<"OTHER", "none">>)
    BY <1>2 DEF classify_post
  <2>4. CASE /\ First(TextRules, <<"OTHER", "none">>) = <<"OTHER", "none">>
             /\ \A i \in 1..6 : ~Has(TextRules[i][1])
    <3>1. classify_post[1] = "OTHER"
      BY <2>3, <2>4
    <3>2. TextRules[1][1] = {"timeout"} /\ TextRules[5][1] = Panicked
      BY DEF TextRules, TimeoutRule, PanicRule
    <3>3. ~Has({"timeout"}) /\ ~Has(Panicked)
      BY <2>4, <3>2
    <3> QED BY <2>1, <3>1, <3>3, Zenon DEF PostTable
  <2>5. ASSUME NEW i \in 1..6,
               First(TextRules, <<"OTHER", "none">>) = TextRules[i][2],
               Has(TextRules[i][1]),
               \A j \in 1..6 : j < i => ~Has(TextRules[j][1])
        PROVE  PostTable(classify_post[1])
    <3>1. CASE i = 1
      <4>1. TextRules[1][1] = {"timeout"} /\ TextRules[1][2][1] = "ENVIRONMENT_FAILURE"
        BY DEF TextRules, TimeoutRule
      <4> QED BY <2>3, <2>5, <3>1, <4>1, Zenon DEF PostTable
    <3>2. CASE i # 1
      <4>1. TextRules[1][1] = {"timeout"}
        BY DEF TextRules, TimeoutRule
      <4>2. ~Has({"timeout"})
        <5>1. 1 < i
          BY <3>2
        <5> QED BY <2>5, <4>1, <5>1
      <4>3. CASE i = 2
        <5>1. TextRules[2][1] = {"openssl", "nightly"} /\ TextRules[2][2][1] = "ENVIRONMENT_FAILURE"
          BY DEF TextRules, ScriptRule
        <5> QED BY <2>1, <2>3, <2>5, <4>2, <4>3, <5>1, Zenon DEF PostTable
      <4>4. CASE i = 3
        <5>1. /\ TextRules[3][1] = {"lock_stale"}
              /\ TextRules[3][2][1] = "DEPENDENCY_RESOLUTION_FAILURE"
          BY DEF TextRules, LockRule
        <5> QED BY <2>1, <2>3, <2>5, <4>2, <4>4, <5>1, Zenon DEF PostTable
      <4>5. CASE i = 4
        <5>1. /\ TextRules[4][1] = {"no_manifest", "no_version"}
              /\ TextRules[4][2][1] = "DEPENDENCY_RESOLUTION_FAILURE"
          BY DEF TextRules, ResolutionRule
        <5> QED BY <2>1, <2>3, <2>5, <4>2, <4>5, <5>1, Zenon DEF PostTable
      <4>6. CASE i = 5
        <5>1. /\ TextRules[2][1] = {"openssl", "nightly"}
              /\ TextRules[5][1] = Panicked /\ TextRules[5][2][1] = "TEST_FAILURE"
          BY DEF TextRules, ScriptRule, PanicRule
        <5>2. ~Has({"openssl", "nightly"})
          BY <2>5, <4>6, <5>1
        <5> QED BY <2>1, <2>3, <2>5, <4>2, <4>6, <5>1, <5>2, Zenon DEF PostTable
      <4>7. CASE i = 6
        <5>1. /\ TextRules[5][1] = Panicked
              /\ TextRules[6][1] = {"link"} /\ TextRules[6][2][1] = "ENVIRONMENT_FAILURE"
          BY DEF TextRules, PanicRule, LinkRule
        <5>2. ~Has(Panicked)
          BY <2>5, <4>7, <5>1
        <5> QED BY <2>1, <2>3, <2>5, <4>2, <4>7, <5>1, <5>2, Zenon DEF PostTable
      <4> QED BY <3>2, <4>3, <4>4, <4>5, <4>6, <4>7
    <3> QED BY <3>1, <3>2
  <2>6. \/ /\ First(TextRules, <<"OTHER", "none">>) = <<"OTHER", "none">>
           /\ \A i \in 1..6 : ~Has(TextRules[i][1])
        \/ \E i \in 1..6 :
              /\ First(TextRules, <<"OTHER", "none">>) = TextRules[i][2]
              /\ Has(TextRules[i][1])
              /\ \A j \in 1..6 : j < i => ~Has(TextRules[j][1])
    BY <2>2, FirstRule
  <2> QED BY <2>4, <2>5, <2>6, Zenon
<1> QED BY <1>1, <1>2

----------------------------------------------------------------------------
(* The rows.                                                               *)

\* Whatever a rule of reclassify_failures finds, other than a panic, goes wrong in a build
\* and is what its category is about.
LEMMA PreRulesFit ==
    /\ DOMAIN PreRules = 1..14
    /\ PreRules[9] = <<ScriptPanics, "RUNTIME_CRASH">>
    /\ \A i \in 1..14 \ {9} :
          /\ PreRules[i][2] \in Category
          /\ \A m \in PreRules[i][1] : m \in Bad /\ PreRules[i][2] \in RowsOf(m)
PROOF
<1>1. DOMAIN PreRules = 1..14 /\ PreRules[9] = <<ScriptPanics, "RUNTIME_CRASH">>
  BY DEF PreRules
<1>2. ASSUME NEW i \in 1..14 \ {9}
      PROVE  /\ PreRules[i][2] \in Category
             /\ \A m \in PreRules[i][1] : m \in Bad /\ PreRules[i][2] \in RowsOf(m)
  <2>1. CASE i = 1
    <3>1. PreRules[1][1] = {"timeout"} /\ PreRules[1][2] = "TIMEOUT"
      BY DEF PreRules
    <3> QED BY <2>1, <3>1 DEF Bad, Unresolved, NotStarted, ScriptFailure, Uncompiled, Error,
                                CodedError, TestFailure, Category, RowsOf
  <2>2. CASE i = 2
    <3>1. PreRules[2][1] = {"no_manifest"} /\ PreRules[2][2] = "REPO_GONE"
      BY DEF PreRules
    <3> QED BY <2>2, <3>1 DEF Bad, Unresolved, NotStarted, ScriptFailure, Uncompiled, Error,
                                CodedError, TestFailure, Category, RowsOf
  <2>3. CASE i = 3
    <3>1. PreRules[3][1] = {"lock_stale"} /\ PreRules[3][2] = "LOCK_FILE_STALE"
      BY DEF PreRules
    <3> QED BY <2>3, <3>1 DEF Bad, Unresolved, NotStarted, ScriptFailure, Uncompiled, Error,
                                CodedError, TestFailure, Category, RowsOf
  <2>4. CASE i = 4
    <3>1. PreRules[4][1] = {"nightly"} /\ PreRules[4][2] = "NIGHTLY_REQUIRED"
      BY DEF PreRules
    <3> QED BY <2>4, <3>1 DEF Bad, Unresolved, NotStarted, ScriptFailure, Uncompiled, Error,
                                CodedError, TestFailure, Category, RowsOf
  <2>5. CASE i = 5
    <3>1. PreRules[5][1] \subseteq {"openssl"} /\ PreRules[5][2] = "OPENSSL_MISMATCH"
      BY DEF PreRules
    <3> QED BY <2>5, <3>1 DEF Bad, Unresolved, NotStarted, ScriptFailure, Uncompiled, Error,
                                CodedError, TestFailure, Category, RowsOf
  <2>6. CASE i = 6
    <3>1. PreRules[6][1] \subseteq {"native"} /\ PreRules[6][2] = "NATIVE_DEP_MISSING"
      BY DEF PreRules
    <3> QED BY <2>6, <3>1 DEF Bad, Unresolved, NotStarted, ScriptFailure, Uncompiled, Error,
                                CodedError, TestFailure, Category, RowsOf
  <2>7. CASE i = 7
    <3>1. PreRules[7][1] = {"no_version"} /\ PreRules[7][2] = "DEPENDENCY_RESOLUTION"
      BY DEF PreRules
    <3> QED BY <2>7, <3>1 DEF Bad, Unresolved, NotStarted, ScriptFailure, Uncompiled, Error,
                                CodedError, TestFailure, Category, RowsOf
  <2>8. CASE i = 8
    <3>1. PreRules[8][1] = {"segv"} /\ PreRules[8][2] = "RUNTIME_CRASH"
      BY DEF PreRules
    <3> QED BY <2>8, <3>1 DEF Bad, Unresolved, NotStarted, ScriptFailure, Uncompiled, Error,
                                CodedError, TestFailure, Category, RowsOf
  <2>9. CASE i = 10
    <3>1. PreRules[10][1] = CodedError /\ PreRules[10][2] = "RUSTC_BITROT"
      BY DEF PreRules
    <3> QED BY <2>9, <3>1 DEF Bad, Unresolved, NotStarted, ScriptFailure, Uncompiled, Error,
                                CodedError, TestFailure, Category, RowsOf
  <2>10. CASE i = 11
    <3>1. PreRules[11][1] = {"test_panic"} /\ PreRules[11][2] = "TEST_FAILURE"
      BY DEF PreRules
    <3> QED BY <2>10, <3>1 DEF Bad, Unresolved, NotStarted, ScriptFailure, Uncompiled, Error,
                                CodedError, TestFailure, Category, RowsOf
  <2>11. CASE i = 12
    <3>1. PreRules[12][1] = {"download"} /\ PreRules[12][2] = "NETWORK_ERROR"
      BY DEF PreRules
    <3> QED BY <2>11, <3>1 DEF Bad, Unresolved, NotStarted, ScriptFailure, Uncompiled, Error,
                                CodedError, TestFailure, Category, RowsOf
  <2>12. CASE i = 13
    <3>1. PreRules[13][1] = {"old_format"} /\ PreRules[13][2] = "OLD_MESSAGE_FORMAT"
      BY DEF PreRules
    <3> QED BY <2>12, <3>1 DEF Bad, Unresolved, NotStarted, ScriptFailure, Uncompiled, Error,
                                CodedError, TestFailure, Category, RowsOf
  <2>13. CASE i = 14
    <3>1. PreRules[14][1] = Uncompiled /\ PreRules[14][2] = "RUSTC_BITROT"
      BY DEF PreRules
    <3> QED BY <2>13, <3>1 DEF Bad, Unresolved, NotStarted, ScriptFailure, Uncompiled, Error,
                                CodedError, TestFailure, Category, RowsOf
  <2> QED BY <2>1, <2>2, <2>3, <2>4, <2>5, <2>6, <2>7, <2>8, <2>9, <2>10, <2>11, <2>12,
              <2>13
<1> QED BY <1>1, <1>2

LEMMA PreChoice ==
    \/ First(PreRules, "OTHER") = "OTHER"
    \/ \E i \in 1..14 : First(PreRules, "OTHER") = PreRules[i][2] /\ Has(PreRules[i][1])
PROOF
<1>1. DOMAIN PreRules = 1..14
  BY PreRulesFit
<1>2. \/ First(PreRules, "OTHER") = "OTHER" /\ \A i \in 1..14 : ~Has(PreRules[i][1])
      \/ \E i \in 1..14 :
            /\ First(PreRules, "OTHER") = PreRules[i][2]
            /\ Has(PreRules[i][1])
            /\ \A j \in 1..14 : j < i => ~Has(PreRules[j][1])
  BY <1>1, FirstRule
<1> QED BY <1>2, Zenon

\* A row that stands for what a rule found names a cause.
LEMMA PreVerdict ==
    ASSUME causes = Range(log) \cap Bad
    PROVE  \/ First(PreRules, "OTHER") = "OTHER"
           \/ \E c \in causes : First(PreRules, "OTHER") \in RowsOf(c)
PROOF
<1>1. ASSUME NEW i \in 1..14, First(PreRules, "OTHER") = PreRules[i][2], Has(PreRules[i][1])
      PROVE  \E c \in causes : First(PreRules, "OTHER") \in RowsOf(c)
  <2>1. PICK m \in PreRules[i][1] : m \in Range(log)
    BY <1>1 DEF Has
  <2>2. CASE i # 9
    <3>1. m \in Bad /\ PreRules[i][2] \in RowsOf(m)
      BY <2>1, <2>2, PreRulesFit
    <3> QED BY <1>1, <2>1, <3>1
  <2>3. CASE i = 9
    <3>1. PreRules[i][1] = ScriptPanics /\ PreRules[i][2] = "RUNTIME_CRASH"
      BY <2>3, PreRulesFit
    <3>2. \A c \in ScriptFailure : c \in Bad /\ "RUNTIME_CRASH" \in RowsOf(c)
      BY DEF ScriptFailure, Bad, RowsOf, Uncompiled, Error, CodedError
    <3>3. Has(ScriptFailure \cup {"script_ran"}) /\ m \in Panicked
      BY <2>1, <3>1 DEF ScriptPanics
    <3>4. CASE Has(ScriptFailure)
      <4>1. PICK c \in ScriptFailure : c \in Range(log)
        BY <3>4 DEF Has
      <4> QED BY <1>1, <3>1, <3>2, <4>1
    <3>5. CASE ~Has(ScriptFailure)
      <4>1. Has({"script_ran"}) /\ m \notin ScriptFailure
        BY <2>1, <3>3, <3>5 DEF Has
      <4>2. m = "test_panic"
        BY <3>3, <4>1 DEF Panicked
      <4>3. m \in Bad /\ "RUNTIME_CRASH" \in RowsOf(m)
        BY <4>1, <4>2 DEF Bad, TestFailure, RowsOf, Uncompiled, Error, CodedError
      <4> QED BY <1>1, <2>1, <3>1, <4>3
    <3> QED BY <3>4, <3>5
  <2> QED BY <2>2, <2>3
<1> QED BY <1>1, PreChoice

LEMMA PreCategory == First(PreRules, "OTHER") \in Category
PROOF
<1>1. \/ First(PreRules, "OTHER") = "OTHER"
      \/ \E i \in 1..14 : First(PreRules, "OTHER") = PreRules[i][2]
  BY PreChoice
<1>2. PreRules[9][2] \in Category
  BY PreRulesFit DEF Category
<1>3. "OTHER" \in Category
  BY DEF Category
<1> QED BY <1>1, <1>2, <1>3, PreRulesFit

LEMMA PostCategory == classify_post[1] \in TopCategory
PROOF BY PostVerdict DEF PostTable, TopCategory

----------------------------------------------------------------------------
(* The invariant is inductive.                                             *)

LEMMA AppendRange ==
    ASSUME log \in Seq(Marker), NEW m \in Marker, log' = Append(log, m)
    PROVE  /\ log' \in Seq(Marker) /\ Len(log') = Len(log) + 1
           /\ Range(log') = Range(log) \cup {m}
PROOF
<1>1. log' \in Seq(Marker) /\ Len(log') = Len(log) + 1
  OBVIOUS
<1>2. DOMAIN log = 1..Len(log) /\ DOMAIN log' = 1..(Len(log) + 1) /\ Len(log) \in Nat
  OBVIOUS
<1>3. \A i \in 1..Len(log) : log'[i] = log[i]
  OBVIOUS
<1>4. log'[Len(log) + 1] = m
  OBVIOUS
<1>5. Range(log') \subseteq Range(log) \cup {m}
  <2>1. ASSUME NEW i \in 1..(Len(log) + 1)
        PROVE  log'[i] \in Range(log) \cup {m}
    <3>1. i \in 1..Len(log) \/ i = Len(log) + 1
      BY <1>2
    <3> QED BY <1>2, <1>3, <1>4, <3>1 DEF Range
  <2> QED BY <1>2, <2>1 DEF Range
<1>6. Range(log) \cup {m} \subseteq Range(log')
  <2>1. \A i \in 1..Len(log) : i \in 1..(Len(log) + 1)
    BY <1>2
  <2>2. Len(log) + 1 \in 1..(Len(log) + 1)
    BY <1>2
  <2> QED BY <1>2, <1>3, <1>4, <2>1, <2>2 DEF Range
<1> QED BY <1>1, <1>5, <1>6

\* A build under way has neither verdict nor row.
LEMMA NoVerdictYet ==
    ASSUME VerdictInv, RowInv, side # "done"
    PROVE  failure = Unclassified /\ row \in {"none", "NO_LOG"}
PROOF BY DEF VerdictInv, RowInv

LEMMA InitInv == Init => IInv
PROOF
<1> SUFFICES ASSUME Init PROVE IInv
  OBVIOUS
<1>1. TypeOK
  BY ClassificationAssumption DEF Init, TypeOK, Unclassified
<1>2. LogInv
  BY ClassificationAssumption DEF Init, LogInv, Range
<1> QED BY <1>1, <1>2 DEF IInv, Init, VerdictInv, RowInv, Unclassified

\* The part of the invariant that a build is about.
BuildInv ==
    /\ stage \in {"resolve", "compile", "test", "ended"}
    /\ log \in Seq(Marker) /\ Len(log) <= MaxLines + 1
    /\ causes \in SUBSET Marker
    /\ LogInv

\* A line is written, and remembered if something went wrong.
LEMMA LineInv ==
    ASSUME BuildInv, NEW m \in Marker, log' = Append(log, m), stage # "ended",
           stage' \in {"compile", "test", "ended"},
           Len(log) < MaxLines \/ stage' = "ended",
           causes' = IF m \in Bad THEN causes \cup {m} ELSE causes
    PROVE  BuildInv'
PROOF
<1> USE ClassificationAssumption
<1>1. log' \in Seq(Marker) /\ Len(log') = Len(log) + 1 /\ Range(log') = Range(log) \cup {m}
  BY AppendRange DEF BuildInv
<1>2. causes' = Range(log') \cap Bad
  BY <1>1 DEF BuildInv, LogInv
<1>3. Len(log) <= MaxLines /\ Len(log) \in Nat
  BY DEF BuildInv, LogInv
<1>4. LogInv'
  BY <1>1, <1>2, <1>3 DEF LogInv
<1>5. causes' \in SUBSET Marker
  BY DEF BuildInv
<1> QED BY <1>1, <1>3, <1>4, <1>5 DEF BuildInv

\* Nothing is written.
LEMMA QuietInv ==
    ASSUME BuildInv, UNCHANGED <<log, causes>>, stage # "ended",
           stage' \in {"compile", "test", "ended"}
    PROVE  BuildInv'
PROOF BY DEF BuildInv, LogInv

LEMMA BuildingInv == IInv /\ Building => IInv'
PROOF
<1> SUFFICES ASSUME IInv, Building PROVE IInv'
  OBVIOUS
<1>1. failure = Unclassified /\ row \in {"none", "NO_LOG"}
  BY NoVerdictYet DEF Building, IInv
<1>2. UNCHANGED <<side, failure, row, reason>>
  BY DEF Building, ResolveFails, Resolves, Compiles, Summarises, CompileEnds,
         TestFails, TestsEnd, TimesOut
<1>3. VerdictInv' /\ RowInv'
  BY <1>1, <1>2 DEF VerdictInv, RowInv
<1>4. BuildInv
  BY DEF IInv, TypeOK, BuildInv
<1>5. ASSUME BuildInv' PROVE IInv'
  BY <1>2, <1>3, <1>5 DEF IInv, TypeOK, BuildInv
<1>6. Bad \subseteq Marker
  BY DEF Bad, Marker
<1>7. ASSUME NEW m \in Unresolved \cup NotStarted, ResolveFails(m) PROVE BuildInv'
  <2>1. m \in Bad /\ m \in Marker
    BY DEF Bad, Marker
  <2>2. causes = {}
    BY <1>7, <1>4 DEF BuildInv, LogInv, ResolveFails, Range
  <2> QED BY <1>4, <1>7, <2>1, <2>2, LineInv DEF ResolveFails, Prints
<1>8. ASSUME Resolves PROVE BuildInv'
  BY <1>4, <1>8, QuietInv DEF Resolves
<1>9. ASSUME NEW m \in Built, Compiles(m) PROVE BuildInv'
  <2>1. m \in Marker /\ (m \in Bad <=> m \in Uncompiled \cup ScriptFailure)
    BY DEF Built, Bad, Marker, Unresolved, NotStarted, ScriptFailure, Uncompiled, Error,
           CodedError, TestFailure
  <2> QED BY <1>4, <1>9, <2>1, LineInv DEF Compiles, Prints
<1>10. ASSUME CompileEnds PROVE BuildInv'
  BY <1>4, <1>10, QuietInv DEF CompileEnds
<1>11. ASSUME NEW m \in TestFailure, TestFails(m) PROVE BuildInv'
  <2>1. m \in Marker /\ m \in Bad
    BY DEF Bad, Marker
  <2> QED BY <1>4, <1>11, <2>1, LineInv DEF TestFails, Prints
<1>12. ASSUME TestsEnd PROVE BuildInv'
  BY <1>4, <1>12, QuietInv DEF TestsEnd
<1>13. ASSUME TimesOut PROVE BuildInv'
  <2>1. "timeout" \in Marker /\ "timeout" \in Bad
    BY DEF Bad, Marker
  <2> QED BY <1>4, <1>13, <2>1, LineInv DEF TimesOut
<1>14. ASSUME Summarises PROVE BuildInv'
  <2>1. "summary" \in Marker /\ "summary" \notin Bad
    BY DEF Bad, Marker, Unresolved, NotStarted, ScriptFailure, Uncompiled, Error, CodedError,
           TestFailure
  <2> QED BY <1>4, <1>14, <2>1, LineInv DEF Summarises, Prints
<1> QED BY <1>5, <1>7, <1>8, <1>9, <1>10, <1>11, <1>12, <1>13, <1>14 DEF Building

LEMMA DriverInv ==
    ASSUME IInv, PrePasses \/ PreFails \/ PostEnds
    PROVE  IInv'
PROOF
<1>1. failure = Unclassified /\ row \in {"none", "NO_LOG"}
  BY NoVerdictYet DEF IInv, PrePasses, PreFails, PostEnds
<1>2. CASE PrePasses
  <2>1. TypeOK'
    BY <1>2, ClassificationAssumption DEF IInv, TypeOK, PrePasses
  <2>2. Range(log') = {}
    BY <1>2 DEF PrePasses, Range
  <2>3. LogInv'
    BY <1>2, <2>2, ClassificationAssumption DEF PrePasses, LogInv
  <2> QED BY <1>1, <1>2, <2>1, <2>3 DEF IInv, PrePasses, VerdictInv, RowInv
<1>3. CASE PreFails
  <2>1. TypeOK' /\ LogInv'
    BY <1>3 DEF IInv, TypeOK, LogInv, PreFails
  <2> QED BY <1>1, <1>3, <2>1 DEF IInv, PreFails, VerdictInv, RowInv
<1>4. CASE PostEnds
  <2>1. failure'[1] \in TopCategory \/ failure' = Unclassified
    BY <1>4, PostCategory DEF PostEnds
  <2>2. TypeOK' /\ LogInv'
    BY <1>4, <2>1 DEF IInv, TypeOK, LogInv, PostEnds
  <2>3. classify_post' = classify_post
    BY <1>4 DEF PostEnds, classify_post, Coded, First, Has
  <2> QED BY <1>1, <1>4, <2>2, <2>3 DEF IInv, PostEnds, VerdictInv, RowInv
<1> QED BY <1>2, <1>3, <1>4

LEMMA ReclassifyInv == IInv /\ Reclassify => IInv'
PROOF
<1> SUFFICES ASSUME IInv, Reclassify PROVE IInv'
  OBVIOUS
<1>1. UNCHANGED <<side, stage, log, causes, failure, reason>>
  BY DEF Reclassify
<1>2. classify_post' = classify_post /\ First(PreRules, "OTHER")' = First(PreRules, "OTHER")
  BY <1>1 DEF classify_post, Coded, First, Has, PreRules, TerminalIs, Errors, ScriptPanics
<1>3. row' \in Category
  BY PreCategory DEF Reclassify, Category
<1>4. TypeOK' /\ LogInv' /\ VerdictInv'
  BY <1>1, <1>2, <1>3 DEF IInv, TypeOK, LogInv, VerdictInv
<1>5. RowInv'
  BY <1>1, <1>2 DEF Reclassify, RowInv
<1> QED BY <1>4, <1>5 DEF IInv

LEMMA StutterInv == IInv /\ UNCHANGED vars => IInv'
PROOF
<1> SUFFICES ASSUME IInv, UNCHANGED vars PROVE IInv'
  OBVIOUS
<1>1. classify_post' = classify_post /\ First(PreRules, "OTHER")' = First(PreRules, "OTHER")
  BY DEF vars, classify_post, Coded, First, Has, PreRules, TerminalIs, Errors, ScriptPanics
<1> QED BY <1>1 DEF vars, IInv, TypeOK, LogInv, VerdictInv, RowInv

THEOREM Invariance == Spec => []IInv
PROOF
<1>1. IInv /\ [Next]_vars => IInv'
  BY BuildingInv, DriverInv, ReclassifyInv, StutterInv DEF Next
<1> QED BY InitInv, <1>1, PTL DEF Spec

----------------------------------------------------------------------------
(* What the classifiers promise.                                           *)

\* The variables have their types.
THEOREM TypeCorrect == Spec => []TypeOK
PROOF BY Invariance, PTL DEF IInv

LEMMA CauseOf ==
    ASSUME IInv, NEW markers \in SUBSET Bad, Has(markers)
    PROVE  \E c \in causes : c \in markers
PROOF BY DEF IInv, LogInv, Has

\* The first text rule is the reproducer's marker.
LEMMA TimeoutVerdict ==
    ASSUME Coded = {}, Has({"timeout"})
    PROVE  classify_post = <<"ENVIRONMENT_FAILURE", "TEST_TIMEOUT">>
PROOF
<1>1. DOMAIN TextRules = 1..6 /\ TextRules[1] = TimeoutRule
  BY DEF TextRules
<1>2. /\ TextRules[1][1] = {"timeout"}
      /\ TextRules[1][2] = <<"ENVIRONMENT_FAILURE", "TEST_TIMEOUT">>
  BY <1>1 DEF TimeoutRule
<1>3. \E i \in 1..6 :
         /\ First(TextRules, <<"OTHER", "none">>) = TextRules[i][2]
         /\ \A j \in 1..6 : j < i => ~Has(TextRules[j][1])
  <2>1. Has(TextRules[1][1])
    BY <1>2
  <2>2. \/ /\ First(TextRules, <<"OTHER", "none">>) = <<"OTHER", "none">>
           /\ \A i \in 1..6 : ~Has(TextRules[i][1])
        \/ \E i \in 1..6 :
              /\ First(TextRules, <<"OTHER", "none">>) = TextRules[i][2]
              /\ Has(TextRules[i][1])
              /\ \A j \in 1..6 : j < i => ~Has(TextRules[j][1])
    BY <1>1, FirstRule
  <2>3. ~\A i \in 1..6 : ~Has(TextRules[i][1])
    BY <2>1
  <2> QED BY <2>2, <2>3, Zenon
<1>4. First(TextRules, <<"OTHER", "none">>) = TextRules[1][2]
  BY <1>2, <1>3
<1> QED BY <1>2, <1>4 DEF classify_post

\* Whatever the log holds, and in whatever order, a build that was killed is a TEST_TIMEOUT,
\* unless rustc left a message with a code: that, and not the timeout, has the highest
\* priority (cargo_classifier.classify).
THEOREM TimeoutComesFirst == Spec => []TimeoutOutranks
PROOF
<1>1. IInv => TimeoutOutranks
  <2> SUFFICES ASSUME IInv, failure # Unclassified, "timeout" \in causes
               PROVE  \/ failure = <<"ENVIRONMENT_FAILURE", "TEST_TIMEOUT">>
                      \/ Verdict = "COMPILATION_FAILURE" /\ Has(CodedError \cup {"warning"})
    BY DEF TimeoutOutranks
  <2>1. failure = classify_post /\ Has({"timeout"})
    BY OneMarker DEF IInv, LogInv, VerdictInv
  <2>2. CASE Coded = {}
    BY <2>1, <2>2, TimeoutVerdict
  <2>3. CASE Coded # {}
    <3>1. Has(CodedError \cup {"warning"})
      BY <2>3 DEF Coded, Has, Range
    <3> QED BY <2>1, <2>3, <3>1 DEF classify_post, Verdict
  <2> QED BY <2>2, <2>3
<1> QED BY <1>1, Invariance, PTL

\* The verdict on a build that ended by itself names a cause of the failure under the heading
\* that the taxonomy has it under, when rustc had no warnings and no build script panicked
\* for reasons of its own (cargo_classifier.classify).
THEOREM VerdictFits == Spec => []QuietVerdictFits
PROOF
<1>1. IInv => QuietVerdictFits
  <2> SUFFICES ASSUME IInv, failure # Unclassified,
                      ~Has({"timeout", "warning", "native", "script_panic"})
               PROVE  Verdict = "OTHER" \/ \E c \in causes : Verdict \in TopOf(c)
    BY DEF QuietVerdictFits, Fits
  <2>1. PostTable(Verdict)
    BY PostVerdict DEF IInv, VerdictInv, Verdict
  <2>2. ~Has({"warning"}) /\ ~Has({"timeout"}) /\ ~Has({"native", "script_panic"})
    BY DEF Has
  <2>3. ASSUME NEW markers \in SUBSET Bad, Has(markers), \A c \in markers : Verdict \in TopOf(c)
        PROVE  \E c \in causes : Verdict \in TopOf(c)
    BY <2>3, CauseOf
  <2>4. CASE Verdict = "COMPILATION_FAILURE" /\ Has(CodedError \cup {"warning"})
    <3>1. Has(CodedError)
      BY <2>2, <2>4 DEF Has
    <3>2. CodedError \in SUBSET Bad /\ \A c \in CodedError : "COMPILATION_FAILURE" \in TopOf(c)
      BY DEF Bad, Uncompiled, Error, CodedError, TopOf, Unresolved, NotStarted
    <3> QED BY <2>3, <2>4, <3>1, <3>2
  <2>5. CASE Verdict = "ENVIRONMENT_FAILURE" /\ Has({"timeout"})
    BY <2>2, <2>5
  <2>6. CASE Verdict = "ENVIRONMENT_FAILURE" /\ Has({"openssl", "nightly"})
    <3>1. {"openssl", "nightly"} \in SUBSET Bad
      BY DEF Bad, ScriptFailure, Uncompiled, Error
    <3>2. \A c \in {"openssl", "nightly"} : "ENVIRONMENT_FAILURE" \in TopOf(c)
      BY DEF TopOf, Unresolved, NotStarted, CodedError
    <3> QED BY <2>3, <2>6, <3>1, <3>2
  <2>7. CASE /\ Verdict = "DEPENDENCY_RESOLUTION_FAILURE"
             /\ Has({"lock_stale"}) \/ Has({"no_manifest", "no_version"})
    <3>1. {"lock_stale"} \in SUBSET Bad /\ {"no_manifest", "no_version"} \in SUBSET Bad
      BY DEF Bad, Unresolved
    <3>2. \A c \in {"lock_stale", "no_manifest", "no_version"} :
             "DEPENDENCY_RESOLUTION_FAILURE" \in TopOf(c)
      BY DEF TopOf, Unresolved, NotStarted, CodedError
    <3> QED BY <2>3, <2>7, <3>1, <3>2
  <2>8. CASE Verdict = "TEST_FAILURE" /\ Has(Panicked) /\ ~Has({"openssl", "nightly"})
    <3>1. Has({"test_panic"})
      BY <2>2, <2>8 DEF Has, Panicked, ScriptFailure
    <3>2. "test_panic" \in Bad /\ "TEST_FAILURE" \in TopOf("test_panic")
      BY DEF Bad, TestFailure, TopOf, Unresolved, NotStarted, CodedError
    <3> QED BY <2>3, <2>8, <3>1, <3>2
  <2>9. CASE Verdict = "ENVIRONMENT_FAILURE" /\ Has({"link"})
    <3>1. {"link"} \in SUBSET Bad
      BY DEF Bad, ScriptFailure, Uncompiled, Error
    <3>2. \A c \in {"link"} : "ENVIRONMENT_FAILURE" \in TopOf(c)
      BY DEF TopOf, Unresolved, NotStarted, CodedError
    <3> QED BY <2>3, <2>9, <3>1, <3>2
  <2> QED BY <2>1, <2>4, <2>5, <2>6, <2>7, <2>8, <2>9 DEF PostTable
<1> QED BY <1>1, Invariance, PTL

\* Tests that fail are a test failure as long as rustc warns of nothing: the warning, which
\* the classifier takes for an error, is all that stands between the code and
\* schema/failure-taxonomy.md:36.
THEOREM TestsFailUnwarned ==
    Spec => [](~Has({"warning"}) => TestsFailIsTestFailure)
PROOF
<1>1. IInv => (~Has({"warning"}) => TestsFailIsTestFailure)
  <2> SUFFICES ASSUME IInv, ~Has({"warning"}), failure # Unclassified, causes = {"test_panic"}
               PROVE  Verdict = "TEST_FAILURE"
    BY DEF TestsFailIsTestFailure
  <2>1. PostTable(Verdict)
    BY PostVerdict DEF IInv, VerdictInv, Verdict
  <2>2. "test_panic" \in Range(log)
    BY DEF IInv, LogInv
  <2>3. Has(Panicked)
    BY <2>2 DEF Has, Panicked
  <2>4. \A markers \in SUBSET Bad : "test_panic" \notin markers => ~Has(markers)
    BY CauseOf
  <2>5. /\ ~Has(CodedError) /\ ~Has({"timeout"}) /\ ~Has({"openssl", "nightly"})
        /\ ~Has({"lock_stale"}) /\ ~Has({"no_manifest", "no_version"})
    BY <2>4 DEF Bad, Uncompiled, Error, CodedError, ScriptFailure, Unresolved
  <2>6. ~Has(CodedError \cup {"warning"})
    BY <2>5 DEF Has
  <2> QED BY <2>1, <2>3, <2>5, <2>6 DEF PostTable
<1> QED BY <1>1, Invariance, PTL

\* A candidate's category names a cause of its pre build, whatever else the log says, unless
\* only the post build timed out (reclassify_failures.classify).
THEOREM CategoryFits == Spec => []RowFits
PROOF
<1>1. IInv => RowFits
  <2> SUFFICES ASSUME IInv, row \notin {"none", "NO_LOG"},
                      reason = "pre_build_timed_out" => "timeout" \in causes
               PROVE  row = "OTHER" \/ \E c \in causes : row \in RowsOf(c)
    BY DEF RowFits, Fits
  <2>1. CASE reason = "pre_build_timed_out"
    BY <2>1 DEF IInv, RowInv, RowsOf, Uncompiled, Error, CodedError
  <2>2. CASE reason # "pre_build_timed_out"
    BY <2>2, PreVerdict DEF IInv, RowInv, LogInv
  <2> QED BY <2>1, <2>2
<1> QED BY <1>1, Invariance, PTL

\* Failing tests are put down as TEST_FAILURE only in logs that speak of no build script and
\* hold no code of rustc: where a build script ran or failed, their panics are a
\* RUNTIME_CRASH (reclassify_failures.py:163).
THEOREM ScriptsHideTestFailures ==
    Spec => [](row = "TEST_FAILURE" =>
                   ~Has(ScriptFailure \cup {"script_ran"}) /\ ~Has(CodedError))
PROOF
<1>1. IInv /\ row = "TEST_FAILURE" => ~Has(ScriptFailure \cup {"script_ran"}) /\ ~Has(CodedError)
  <2> SUFFICES ASSUME IInv, row = "TEST_FAILURE"
               PROVE  ~Has(ScriptFailure \cup {"script_ran"}) /\ ~Has(CodedError)
    OBVIOUS
  <2>1. First(PreRules, "OTHER") = "TEST_FAILURE"
    BY DEF IInv, RowInv
  <2>2. DOMAIN PreRules = 1..14
    BY PreRulesFit
  <2>3. PICK i \in 1..14 :
           /\ PreRules[i][2] = "TEST_FAILURE"
           /\ Has(PreRules[i][1])
           /\ \A j \in 1..14 : j < i => ~Has(PreRules[j][1])
    <3>1. \/ First(PreRules, "OTHER") = "OTHER" /\ \A i \in 1..14 : ~Has(PreRules[i][1])
          \/ \E i \in 1..14 :
                /\ First(PreRules, "OTHER") = PreRules[i][2]
                /\ Has(PreRules[i][1])
                /\ \A j \in 1..14 : j < i => ~Has(PreRules[j][1])
      BY <2>2, FirstRule
    <3> QED BY <2>1, <3>1
  <2>4. i = 11
    BY <2>3 DEF PreRules
  <2>5. /\ PreRules[9][1] = ScriptPanics /\ PreRules[10][1] = CodedError
        /\ PreRules[11][1] = {"test_panic"}
    BY DEF PreRules
  <2>6. ~Has(ScriptPanics) /\ ~Has(CodedError) /\ Has({"test_panic"})
    BY <2>3, <2>4, <2>5
  <2>7. ASSUME Has(ScriptFailure \cup {"script_ran"}) PROVE FALSE
    <3>1. ScriptPanics = Panicked /\ "test_panic" \in Panicked
      BY <2>7 DEF ScriptPanics, Panicked
    <3> QED BY <2>6, <3>1 DEF Has
  <2> QED BY <2>6, <2>7
<1> QED BY <1>1, Invariance, PTL
=============================================================================
