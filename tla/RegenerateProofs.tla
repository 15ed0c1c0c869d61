--------------------------- MODULE RegenerateProofs ---------------------------
(***************************************************************************)
(* For every set of runs, hosts, platforms and environments: no run leaves *)
(* its thin images behind; and while runs do not overlap, a verification   *)
(* was made in the environment its entry records, by tests that ran, and   *)
(* what git has of the entry keeps the entry's contract.                   *)
(***************************************************************************)
EXTENDS Regenerate, SequenceTheorems, TLAPS

----------------------------------------------------------------------------
(* The inductive invariant.                                                *)

Busy == {"build", "test", "remove"}
Checked == Busy \cup {"open", "write"}
Finishing(r) == proc[r].pc \in {"open", "write"} \/ (At(r, "remove") /\ ~proc[r].aborted)

\* How far a run is with its images.
FlowOf(r) ==
    /\ At(r, "fat") \/ At(r, "fingerprint") =>
          proc[r].built = 0 /\ proc[r].results = <<>> /\ proc[r].envs = {}
    /\ At(r, "build") => proc[r].built <= Len(Commits)
    /\ At(r, "test") \/ Finishing(r) => proc[r].built = Len(Commits)

FlowInv == \A r \in Run : FlowOf(r)

\* A thin image is one of the entry's, and a run that will remove it is under way.
ThinInv ==
    \A h \in Host, c \in Commit :
        thin[h][c] # NoDigest =>
            /\ \E i \in DOMAIN Commits : c = Commits[i]
            /\ h \in kept \/ \E r \in Run : H(r) = h /\ proc[r].pc \in Busy

\* One run at a time.
AloneInv == alone => \A r, s \in Run : r # s => At(r, "idle") \/ At(s, "idle")

\* What an entry says of its verifications is so.
Verified(entry) ==
    \A i \in DOMAIN entry.verifiedOn :
        /\ entry.verifiedOn[i].envs = {entry.fingerprints[PlatformOf[entry.verifiedOn[i].host]]}
        /\ entry.verifiedOn[i].genuine

\* A run that compared the fingerprint works in that environment, and its images are there.
Works(r) ==
    /\ fat[H(r)] = Expected(r) /\ Expected(r) \in Digest
    /\ proc[r].envs = IF proc[r].built = 0 THEN {} ELSE {Expected(r)}
    /\ proc[r].pc \in {"build", "test"} =>
          \A i \in 1..proc[r].built : thin[H(r)][Commits[i]] # NoDigest
    /\ \A i \in DOMAIN proc[r].results : proc[r].results[i] # "norun"

\* What a run holds of the entry is the file, with more known at the end.
Holds(r) ==
    /\ \A p \in Platform : file.fingerprints[p] # NoDigest
                              => proc[r].entry.fingerprints[p] = file.fingerprints[p]
    /\ IF At(r, "write")
       THEN \E v \in Record : proc[r].entry.verifiedOn = Append(file.verifiedOn, v)
       ELSE proc[r].entry.verifiedOn = file.verifiedOn

RunInv ==
    alone => \A r \in Run :
        ~At(r, "idle") => /\ Verified(proc[r].entry) /\ Holds(r)
                          /\ proc[r].pc \in Checked => Works(r)

\* A later version of an entry knows more.
Extends(old, new) ==
    /\ \A p \in Platform : old.fingerprints[p] # NoDigest
                              => new.fingerprints[p] = old.fingerprints[p]
    /\ Len(old.verifiedOn) < Len(new.verifiedOn)
    /\ \A i \in 1..Len(old.verifiedOn) : new.verifiedOn[i] = old.verifiedOn[i]

FileInv ==
    alone => /\ Verified(file) /\ Verified(committed)
             /\ file = committed \/ Extends(committed, file)

IInv == TypeOK /\ FlowInv /\ ThinInv /\ AloneInv /\ RunInv /\ FileInv

----------------------------------------------------------------------------
(* What the steps make of a run.                                           *)

\* The parts of a run have their types.
LEMMA RunParts ==
    ASSUME TypeOK, NEW r \in Run
    PROVE  /\ proc \in [Run -> Proc] /\ proc[r] \in Proc
           /\ proc[r].pc \in PC /\ proc[r].entry \in Contents /\ proc[r].built \in Nat
           /\ proc[r].results \in Seq(Result) /\ proc[r].envs \in SUBSET Digest
           /\ proc[r].aborted \in BOOLEAN
           /\ proc[r].entry.fingerprints \in [Platform -> MaybeDigest]
           /\ proc[r].entry.verifiedOn \in Seq(Record)
           /\ H(r) \in Host /\ P(r) \in Platform /\ Expected(r) \in MaybeDigest
PROOF BY RegenerateAssumption DEF TypeOK, Proc, Contents, H, P, Expected

\* There are two commits or three.
LEMMA CommitsParts ==
    /\ Commits \in Seq(Commit) /\ Len(Commits) \in {2, 3}
    /\ DOMAIN Commits = 1..Len(Commits)
    /\ \A i \in DOMAIN Commits : Commits[i] \in Commit
PROOF
<1>1. <<"pre", "post", "fix">> \in Seq(Commit) /\ <<"pre", "post">> \in Seq(Commit)
  BY DEF Commit
<1>2. Len(<<"pre", "post", "fix">>) = 3 /\ Len(<<"pre", "post">>) = 2
  OBVIOUS
<1>3. Commits = <<"pre", "post", "fix">> \/ Commits = <<"pre", "post">>
  BY DEF Commits
<1>4. Commits \in Seq(Commit) /\ Len(Commits) \in {2, 3}
  BY <1>1, <1>2, <1>3
<1> QED BY <1>4

\* The image under test is one of a commit.
LEMMA TestedParts ==
    ASSUME TypeOK, NEW r \in Run, Tested(r) < Len(Commits)
    PROVE  UnderTest(r) \in Commit /\ Tested(r) \in Nat /\ Tested(r) + 1 \in 1..Len(Commits)
PROOF
<1>1. Tested(r) \in Nat /\ Len(Commits) \in Nat
  BY RunParts, CommitsParts DEF Tested
<1> QED BY <1>1, CommitsParts DEF UnderTest

\* One run becomes what is given, the others are left alone.
Made(r, pc, entry, built, results, envs, aborted) ==
    /\ proc' \in [Run -> Proc]
    /\ proc'[r] = [pc |-> pc, entry |-> entry, built |-> built, results |-> results,
                   envs |-> envs, aborted |-> aborted]
    /\ \A q \in Run : q # r => proc'[q] = proc[q]

LEMMA MadeType ==
    ASSUME TypeOK, NEW r \in Run, NEW pc \in PC, NEW entry \in Contents, NEW built \in Nat,
           NEW results \in Seq(Result), NEW envs \in SUBSET Digest, NEW aborted \in BOOLEAN,
           NEW new,
           new = [pc |-> pc, entry |-> entry, built |-> built, results |-> results,
                  envs |-> envs, aborted |-> aborted],
           proc' = [proc EXCEPT ![r] = new]
    PROVE  Made(r, pc, entry, built, results, envs, aborted)
PROOF
<1>1. new \in Proc
  BY DEF Proc
<1>2. proc' \in [Run -> Proc] /\ proc'[r] = new /\ \A q \in Run : q # r => proc'[q] = proc[q]
  BY <1>1, RunParts
<1> QED BY <1>2 DEF Made

\* A run that goes on changes its place only.
LEMMA GotoMade ==
    ASSUME TypeOK, NEW r \in Run, NEW pc \in PC, Goto(r, pc)
    PROVE  Made(r, pc, proc[r].entry, proc[r].built, proc[r].results, proc[r].envs,
                proc[r].aborted)
PROOF
<1>1. proc' = [proc EXCEPT ![r] = [proc[r] EXCEPT !.pc = pc]]
  BY RunParts DEF Goto
<1>2. [proc[r] EXCEPT !.pc = pc] =
         [pc |-> pc, entry |-> proc[r].entry, built |-> proc[r].built,
          results |-> proc[r].results, envs |-> proc[r].envs, aborted |-> proc[r].aborted]
  BY RunParts DEF Proc
<1>3. pc \in PC /\ proc[r].entry \in Contents /\ proc[r].built \in Nat
      /\ proc[r].results \in Seq(Result) /\ proc[r].envs \in SUBSET Digest
      /\ proc[r].aborted \in BOOLEAN
  BY RunParts
<1>4. proc' = [proc EXCEPT ![r] =
                 [pc |-> pc, entry |-> proc[r].entry, built |-> proc[r].built,
                  results |-> proc[r].results, envs |-> proc[r].envs,
                  aborted |-> proc[r].aborted]]
  BY <1>1, <1>2
<1> QED BY <1>3, <1>4, MadeType

\* One that ends is idle.
LEMMA ExitMade ==
    ASSUME TypeOK, NEW r \in Run, Exit(r)
    PROVE  Made(r, "idle", Blank, 0, <<>>, {}, FALSE)
PROOF
<1>1. Blank \in Contents
  BY DEF Blank, Contents, MaybeDigest
<1>2. <<>> \in Seq(Result) /\ "idle" \in PC /\ {} \in SUBSET Digest
  BY DEF PC
<1>3. proc' = [proc EXCEPT ![r] = [pc |-> "idle", entry |-> Blank, built |-> 0,
                                   results |-> <<>>, envs |-> {}, aborted |-> FALSE]]
  BY DEF Exit, Idle
<1> QED BY <1>1, <1>2, <1>3, MadeType

\* One that starts has read the file.
LEMMA StartMade ==
    ASSUME TypeOK, NEW r \in Run, Start(r)
    PROVE  Made(r, "fat", file, 0, <<>>, {}, FALSE)
PROOF
<1>1. <<>> \in Seq(Result) /\ "fat" \in PC /\ {} \in SUBSET Digest /\ file \in Contents
  BY DEF PC, TypeOK
<1>2. proc' = [proc EXCEPT ![r] = [pc |-> "fat", entry |-> file, built |-> 0, results |-> <<>>,
                                   envs |-> {}, aborted |-> FALSE]]
  BY DEF Start
<1> QED BY <1>1, <1>2, MadeType

\* One that compared the fingerprint has recorded it.
Recorded(r) ==
    [fingerprints |-> [proc[r].entry.fingerprints EXCEPT ![P(r)] = fat[H(r)]],
     verifiedOn |-> proc[r].entry.verifiedOn]

LEMMA FingerprintMade ==
    ASSUME TypeOK, NEW r \in Run, Fingerprint(r), fat[H(r)] # NoDigest, Accepts(r)
    PROVE  /\ Made(r, "build", Recorded(r), proc[r].built, proc[r].results, proc[r].envs,
                   proc[r].aborted)
           /\ Recorded(r) \in Contents
PROOF
<1>1. proc' = [proc EXCEPT ![r].pc = "build", ![r].entry.fingerprints[P(r)] = fat[H(r)]]
  BY DEF Fingerprint
<1>2. proc'[r] = [proc[r] EXCEPT !.pc = "build", !.entry.fingerprints[P(r)] = fat[H(r)]]
  BY <1>1, RunParts
<1>3. \A q \in Run : q # r => proc'[q] = proc[q]
  BY <1>1, RunParts
<1>4. proc'[r] = [pc |-> "build", entry |-> Recorded(r), built |-> proc[r].built,
                  results |-> proc[r].results, envs |-> proc[r].envs,
                  aborted |-> proc[r].aborted]
  BY <1>2, RunParts DEF Proc, Contents, Recorded
<1>5. Recorded(r) \in Contents
  BY RunParts DEF Recorded, Contents, TypeOK
<1>6. proc'[r] \in Proc
  BY <1>4, <1>5, RunParts DEF Proc, PC
<1>7. proc' \in [Run -> Proc]
  BY <1>1, <1>3, <1>6, RunParts
<1> QED BY <1>3, <1>4, <1>5, <1>7 DEF Made

\* One that built an image has one more, of the environment of the fat image.
LEMMA BuildMade ==
    ASSUME TypeOK, NEW r \in Run, fat[H(r)] # NoDigest,
           proc' = [proc EXCEPT ![r].built = @ + 1, ![r].envs = @ \cup {fat[H(r)]}]
    PROVE  Made(r, proc[r].pc, proc[r].entry, proc[r].built + 1, proc[r].results,
                proc[r].envs \cup {fat[H(r)]}, proc[r].aborted)
PROOF
<1>1. proc'[r] = [proc[r] EXCEPT !.built = @ + 1, !.envs = @ \cup {fat[H(r)]}]
  BY RunParts
<1>2. \A q \in Run : q # r => proc'[q] = proc[q]
  BY RunParts
<1>3. proc'[r] = [pc |-> proc[r].pc, entry |-> proc[r].entry, built |-> proc[r].built + 1,
                  results |-> proc[r].results, envs |-> proc[r].envs \cup {fat[H(r)]},
                  aborted |-> proc[r].aborted]
  BY <1>1, RunParts DEF Proc
<1>4. fat[H(r)] \in Digest
  BY RunParts DEF TypeOK, MaybeDigest
<1>5. proc'[r] \in Proc
  BY <1>3, <1>4, RunParts DEF Proc
<1>6. proc' \in [Run -> Proc]
  BY <1>2, <1>5, RunParts
<1> QED BY <1>2, <1>3, <1>6 DEF Made

\* One that gives up goes to the finally clause.
LEMMA AbortMade ==
    ASSUME TypeOK, NEW r \in Run,
           proc' = [proc EXCEPT ![r].pc = "remove", ![r].aborted = TRUE]
    PROVE  Made(r, "remove", proc[r].entry, proc[r].built, proc[r].results, proc[r].envs, TRUE)
PROOF
<1>1. proc'[r] = [proc[r] EXCEPT !.pc = "remove", !.aborted = TRUE]
  BY RunParts
<1>2. \A q \in Run : q # r => proc'[q] = proc[q]
  BY RunParts
<1>3. proc'[r] = [pc |-> "remove", entry |-> proc[r].entry, built |-> proc[r].built,
                  results |-> proc[r].results, envs |-> proc[r].envs, aborted |-> TRUE]
  BY <1>1, RunParts DEF Proc
<1>4. proc'[r] \in Proc
  BY <1>3, RunParts DEF Proc, PC
<1>5. proc' \in [Run -> Proc]
  BY <1>2, <1>4, RunParts
<1> QED BY <1>2, <1>3, <1>5 DEF Made

\* One that tested an image has its status.
LEMMA TestMade ==
    ASSUME TypeOK, NEW r \in Run, NEW v \in Result,
           proc' = [proc EXCEPT ![r].results = Append(@, v)]
    PROVE  Made(r, proc[r].pc, proc[r].entry, proc[r].built, Append(proc[r].results, v),
                proc[r].envs, proc[r].aborted)
PROOF
<1>1. proc'[r] = [proc[r] EXCEPT !.results = Append(@, v)]
  BY RunParts
<1>2. \A q \in Run : q # r => proc'[q] = proc[q]
  BY RunParts
<1>3. proc'[r] = [pc |-> proc[r].pc, entry |-> proc[r].entry, built |-> proc[r].built,
                  results |-> Append(proc[r].results, v), envs |-> proc[r].envs,
                  aborted |-> proc[r].aborted]
  BY <1>1, RunParts DEF Proc
<1>4. Append(proc[r].results, v) \in Seq(Result)
  BY RunParts
<1>5. proc'[r] \in Proc
  BY <1>3, <1>4, RunParts DEF Proc
<1>6. proc' \in [Run -> Proc]
  BY <1>2, <1>5, RunParts
<1> QED BY <1>2, <1>3, <1>6 DEF Made

\* One that opens the file has its verification behind the others.
Verification(r) ==
    [fingerprints |-> proc[r].entry.fingerprints,
     verifiedOn |-> Append(proc[r].entry.verifiedOn, NewRecord(r))]

LEMMA OpenMade ==
    ASSUME TypeOK, NEW r \in Run, OpenFile(r)
    PROVE  /\ Made(r, "write", Verification(r), proc[r].built, proc[r].results, proc[r].envs,
                   proc[r].aborted)
           /\ NewRecord(r) \in Record /\ Verification(r) \in Contents
PROOF
<1>1. proc' = [proc EXCEPT ![r].pc = "write",
                           ![r].entry.verifiedOn = Append(@, NewRecord(r))]
  BY DEF OpenFile, append_verified_on
<1>2. proc'[r] = [proc[r] EXCEPT !.pc = "write", !.entry.verifiedOn = Append(@, NewRecord(r))]
  BY <1>1, RunParts
<1>3. \A q \in Run : q # r => proc'[q] = proc[q]
  BY <1>1, RunParts
<1>4. proc'[r] = [pc |-> "write", entry |-> Verification(r), built |-> proc[r].built,
                  results |-> proc[r].results, envs |-> proc[r].envs,
                  aborted |-> proc[r].aborted]
  BY <1>2, RunParts DEF Proc, Contents, Verification
<1>5. NewRecord(r) \in Record
  <2>1. OutcomeMatch(r) \in Outcome
    BY DEF OutcomeMatch, Outcome
  <2> QED BY <2>1, RunParts DEF NewRecord, Record
<1>6. Verification(r) \in Contents
  BY <1>5, RunParts DEF Verification, Contents
<1>7. proc'[r] \in Proc
  BY <1>4, <1>6, RunParts DEF Proc, PC
<1>8. proc' \in [Run -> Proc]
  BY <1>1, <1>3, <1>7, RunParts
<1> QED BY <1>3, <1>4, <1>5, <1>6, <1>8 DEF Made

----------------------------------------------------------------------------
(* Type correctness.                                                       *)

\* What the assembly leaves has its type.
LEMMA TypeInit == Init => TypeOK
PROOF
<1> SUFFICES ASSUME Init PROVE TypeOK
  OBVIOUS
<1>1. Blank \in Contents /\ Idle \in Proc
  <2>1. Blank \in Contents
    BY DEF Blank, Contents, MaybeDigest
  <2> QED BY <2>1 DEF Idle, Proc, PC
<1>2. file \in Contents
  <2>1. PICK h \in Host, d \in Digest : file = Assembled(h, d)
    BY DEF Init
  <2>2. Assembled(h, d) =
           [fingerprints |-> [Blank.fingerprints EXCEPT ![PlatformOf[h]] = d],
            verifiedOn |-> Blank.verifiedOn]
    BY <1>1 DEF Assembled, Contents
  <2>3. [Blank.fingerprints EXCEPT ![PlatformOf[h]] = d] \in [Platform -> MaybeDigest]
    BY <1>1 DEF Contents, MaybeDigest
  <2> QED BY <1>1, <2>1, <2>2, <2>3 DEF Contents
<1>3. committed \in Contents
  BY <1>2 DEF Init
<1>4. proc \in [Run -> Proc]
  BY <1>1 DEF Init
<1>5. /\ fat \in [Host -> MaybeDigest] /\ thin \in [Host -> [Commit -> MaybeDigest]]
      /\ orphan \in [Host -> SUBSET Commit] /\ kept \in SUBSET Host
  BY DEF Init, MaybeDigest
<1>6. starts \in 0..MaxStarts /\ kills \in 0..MaxKills
  BY RegenerateAssumption DEF Init
<1> QED BY <1>2, <1>3, <1>4, <1>5, <1>6 DEF TypeOK, Init

\* What a cleanup leaves is thin images that were there, of its host only such tags as it did
\* not come to.
LEMMA CleanMade ==
    ASSUME TypeOK, NEW r \in Run, NEW left \in SUBSET Commit, CleansUp(r, left)
    PROVE  /\ thin' \in [Host -> [Commit -> MaybeDigest]]
           /\ kept' \in SUBSET Host /\ kept \subseteq kept'
           /\ left # {} => H(r) \in kept'
           /\ \A h \in Host, c \in Commit :
                 thin'[h][c] # NoDigest =>
                     thin[h][c] # NoDigest /\ (h = H(r) => c \in left \/ c \notin Tagged)
PROOF
<1>1. RemoveThins(H(r), r, left) \in [Commit -> MaybeDigest]
  BY RunParts DEF RemoveThins, TypeOK, MaybeDigest
<1>2. thin' = [thin EXCEPT ![H(r)] = RemoveThins(H(r), r, left)] /\ H(r) \in Host
  BY RunParts DEF CleansUp
<1>3. thin \in [Host -> [Commit -> MaybeDigest]] /\ kept \in SUBSET Host
  BY DEF TypeOK
<1>4. thin' \in [Host -> [Commit -> MaybeDigest]]
  BY <1>1, <1>2, <1>3
<1>5. kept' = IF left = {} THEN kept ELSE kept \cup {H(r)}
  BY DEF CleansUp
<1>6. ASSUME NEW h \in Host, NEW c \in Commit, thin'[h][c] # NoDigest
      PROVE  thin[h][c] # NoDigest /\ (h = H(r) => c \in left \/ c \notin Tagged)
  <2>1. CASE h = H(r)
    <3>1. thin'[h][c] = RemoveThins(H(r), r, left)[c]
      BY <1>2, <1>3, <2>1
    <3> QED BY <1>6, <2>1, <3>1 DEF RemoveThins
  <2>2. CASE h # H(r)
    BY <1>2, <1>3, <1>6, <2>2
  <2> QED BY <2>1, <2>2
<1> QED BY <1>2, <1>3, <1>4, <1>5, <1>6

\* Whether it comes to its end or not, the cleanup takes the tags of the entry in their order.
LEMMA CleanLeaves ==
    ASSUME NEW r \in Run, RemoveThin(r) \/ InterruptCleanup(r)
    PROVE  \E left \in SUBSET Commit : CleansUp(r, left)
PROOF
<1>1. Tagged \in SUBSET Commit /\ \A n \in Nat : From(n) \in SUBSET Commit
  BY CommitsParts DEF Tagged, From
<1>2. Len(Commits) \in Nat /\ DOMAIN Commits = 1..Len(Commits)
  BY CommitsParts
<1>3. CASE RemoveThin(r)
  <2>1. \/ CleansUp(r, Tagged)
        \/ \E n \in 0..Len(Commits) : CleansUp(r, From(n))
    BY <1>3 DEF RemoveThin
  <2> QED BY <1>1, <1>2, <2>1
<1>4. CASE InterruptCleanup(r)
  <2>1. PICK n \in DOMAIN Commits : CleansUp(r, From(n - 1))
    BY <1>4 DEF InterruptCleanup
  <2>2. n - 1 \in Nat
    BY <1>2, <2>1
  <2> QED BY <1>1, <2>1, <2>2
<1> QED BY <1>3, <1>4

\* Every step keeps the types.
LEMMA TypeStep == TypeOK /\ [Next]_vars => TypeOK'
PROOF
<1> SUFFICES ASSUME TypeOK, [Next]_vars PROVE TypeOK'
  OBVIOUS
<1> USE DEF store, bounds
<1>1. ASSUME NEW r \in Run, Step(r) PROVE TypeOK'
  <2>1. CASE Start(r)
    <3>1. proc' \in [Run -> Proc]
      BY <2>1, StartMade DEF Made
    <3>2. starts' \in 0..MaxStarts
      BY <2>1, RegenerateAssumption DEF Start, TypeOK
    <3> QED BY <2>1, <3>1, <3>2 DEF Start, TypeOK
  <2>2. CASE ResolveFat(r)
    <3>1. proc' \in [Run -> Proc]
      BY <2>2, GotoMade, ExitMade DEF ResolveFat, Made, PC
    <3>2. fat' \in [Host -> MaybeDigest]
      BY <2>2, RunParts DEF ResolveFat, TypeOK, MaybeDigest
    <3> QED BY <2>2, <3>1, <3>2 DEF ResolveFat, TypeOK
  <2>3. CASE Fingerprint(r)
    <3>1. proc' \in [Run -> Proc]
      BY <2>3, FingerprintMade, ExitMade DEF Fingerprint, Made
    <3> QED BY <2>3, <3>1 DEF Fingerprint, TypeOK
  <2>4. CASE BuildThin(r)
    <3>1. proc' \in [Run -> Proc]
      BY <2>4, BuildMade, AbortMade DEF BuildThin, GivesUp, Made
    <3>2. thin' \in [Host -> [Commit -> MaybeDigest]]
      <4>1. CASE thin' = [thin EXCEPT ![H(r)][Commits[proc[r].built + 1]] = fat[H(r)]]
        BY <4>1, RunParts DEF TypeOK
      <4>2. CASE UNCHANGED thin
        BY <4>2 DEF TypeOK
      <4> QED BY <2>4, <4>1, <4>2 DEF BuildThin, GivesUp
    <3> QED BY <2>4, <3>1, <3>2 DEF BuildThin, TypeOK
  <2>5. CASE AllBuilt(r)
    <3>1. proc' \in [Run -> Proc]
      BY <2>5, GotoMade DEF AllBuilt, Made, PC
    <3> QED BY <2>5, <3>1 DEF AllBuilt, TypeOK
  <2>6. CASE Test(r)
    <3>1. proc' \in [Run -> Proc]
      BY <2>6, TestMade DEF Test, Made, Result
    <3> QED BY <2>6, <3>1 DEF Test, TypeOK
  <2>7. CASE TimesOut(r)
    <3>1. proc' \in [Run -> Proc]
      BY <2>7, AbortMade DEF TimesOut, Made
    <3>2. orphan' \in [Host -> SUBSET Commit]
      BY <2>7, TestedParts DEF TimesOut, Testing, Left, TypeOK
    <3> QED BY <2>7, <3>1, <3>2 DEF TimesOut, TypeOK
  <2>8. CASE AllTested(r)
    <3>1. proc' \in [Run -> Proc]
      BY <2>8, GotoMade DEF AllTested, Made, PC
    <3> QED BY <2>8, <3>1 DEF AllTested, TypeOK
  <2>9. CASE RemoveThin(r)
    <3>1. proc' \in [Run -> Proc]
      BY <2>9, GotoMade, ExitMade DEF RemoveThin, Made, PC
    <3>2. thin' \in [Host -> [Commit -> MaybeDigest]] /\ kept' \in SUBSET Host
      BY <2>9, CleanLeaves, CleanMade
    <3> QED BY <2>9, <3>1, <3>2 DEF RemoveThin, TypeOK
  <2>10. CASE OpenFile(r)
    BY <2>10, OpenMade DEF OpenFile, TypeOK, Made
  <2>11. CASE WriteFile(r)
    BY <2>11, ExitMade, RunParts DEF WriteFile, TypeOK, Made
  <2>12. CASE InterruptWork(r)
    <3>1. proc' \in [Run -> Proc]
      BY <2>12, AbortMade DEF InterruptWork, Made
    <3>2. orphan' \in [Host -> SUBSET Commit]
      BY <2>12, TestedParts DEF InterruptWork, Testing, Left, TypeOK
    <3> QED BY <2>12, <3>1, <3>2 DEF InterruptWork, TypeOK
  <2>14. CASE InterruptCleanup(r)
    <3>1. proc' \in [Run -> Proc]
      BY <2>14, ExitMade DEF InterruptCleanup, Made
    <3>2. thin' \in [Host -> [Commit -> MaybeDigest]] /\ kept' \in SUBSET Host
      BY <2>14, CleanLeaves, CleanMade
    <3> QED BY <2>14, <3>1, <3>2 DEF InterruptCleanup, TypeOK
  <2>15. CASE InterruptElsewhere(r)
    BY <2>15, ExitMade DEF InterruptElsewhere, Made, TypeOK
  <2>13. CASE Kill(r)
    <3>1. proc' \in [Run -> Proc]
      BY <2>13, ExitMade DEF Kill, Made
    <3>2. orphan' \in [Host -> SUBSET Commit]
      BY <2>13, TestedParts DEF Kill, Testing, Left, TypeOK
    <3>3. kept' \in SUBSET Host /\ kills' \in 0..MaxKills
      BY <2>13, RunParts, RegenerateAssumption DEF Kill, TypeOK
    <3> QED BY <2>13, <3>1, <3>2, <3>3 DEF Kill, TypeOK
  <2> QED BY <1>1, <2>1, <2>2, <2>3, <2>4, <2>5, <2>6, <2>7, <2>8, <2>9, <2>10, <2>11, <2>12,
             <2>13, <2>14, <2>15 DEF Step
<1>2. ASSUME NEW h \in Host, Prune(h) PROVE TypeOK'
  BY <1>2 DEF Prune, TypeOK, MaybeDigest
<1>3. ASSUME NEW h \in Host, NEW c \in Commit, OrphanEnds(h, c) PROVE TypeOK'
  BY <1>3 DEF OrphanEnds, TypeOK
<1>4. CASE GitCommit
  BY <1>4 DEF GitCommit, TypeOK
<1>5. CASE GitRestore
  BY <1>5 DEF GitRestore, TypeOK
<1>6. CASE UNCHANGED vars
  BY <1>6 DEF vars, TypeOK
<1> QED BY <1>1, <1>2, <1>3, <1>4, <1>5, <1>6 DEF Next

----------------------------------------------------------------------------
(* How far a run is, and one run at a time.                                *)

\* A run that comes to a place has what the place takes; the flow of the others is left.
LEMMA FlowMade ==
    ASSUME TypeOK, FlowInv, UNCHANGED category,
           NEW r \in Run, NEW pc, NEW entry, NEW built, NEW results, NEW envs, NEW aborted,
           Made(r, pc, entry, built, results, envs, aborted),
           pc \in {"fat", "fingerprint"} => built = 0 /\ results = <<>> /\ envs = {},
           pc = "build" => built <= Len(Commits),
           pc \in {"test", "open", "write"} \/ (pc = "remove" /\ ~aborted)
              => built = Len(Commits)
    PROVE  FlowInv'
PROOF
<1>1. Commits' = Commits
  BY DEF Commits
<1>2. FlowOf(r)'
  BY <1>1 DEF Made, FlowOf, At, Finishing
<1>3. ASSUME NEW q \in Run, q # r PROVE FlowOf(q)'
  BY <1>1, <1>3 DEF Made, FlowInv, FlowOf, At, Finishing
<1> QED BY <1>2, <1>3 DEF FlowInv

\* Every step keeps the flow.
LEMMA FlowStep == TypeOK /\ FlowInv /\ [Next]_vars => FlowInv'
PROOF
<1> SUFFICES ASSUME TypeOK, FlowInv, [Next]_vars PROVE FlowInv'
  OBVIOUS
<1> USE DEF store, bounds
<1>1. ASSUME NEW r \in Run, Step(r) PROVE FlowInv'
  <2>1. /\ At(r, "fat") \/ At(r, "fingerprint") =>
              proc[r].built = 0 /\ proc[r].results = <<>> /\ proc[r].envs = {}
        /\ At(r, "test") \/ Finishing(r) => proc[r].built = Len(Commits)
    BY DEF FlowInv, FlowOf
  <2>2. "fingerprint" \in PC /\ "open" \in PC /\ "remove" \in PC /\ "test" \in PC
    BY DEF PC
  <2>3. Exit(r) /\ UNCHANGED category => FlowInv'
    BY ExitMade, FlowMade
  <2>4. CASE Start(r)
    BY <2>4, StartMade, FlowMade DEF Start
  <2>5. CASE ResolveFat(r)
    <3>1. CASE Goto(r, "fingerprint")
      <4>1. Made(r, "fingerprint", proc[r].entry, proc[r].built, proc[r].results,
                 proc[r].envs, proc[r].aborted)
        BY <2>2, <3>1, GotoMade
      <4> QED BY <2>1, <2>5, <4>1, FlowMade DEF ResolveFat
    <3> QED BY <2>3, <2>5, <3>1 DEF ResolveFat
  <2>6. CASE Fingerprint(r)
    <3>1. CASE fat[H(r)] # NoDigest /\ Accepts(r)
      <4>1. Made(r, "build", Recorded(r), proc[r].built, proc[r].results, proc[r].envs,
                 proc[r].aborted)
        BY <2>6, <3>1, FingerprintMade
      <4>2. proc[r].built = 0 /\ UNCHANGED category /\ 0 <= Len(Commits)
        BY <2>1, <2>6, CommitsParts DEF Fingerprint
      <4> QED BY <4>1, <4>2, FlowMade
    <3> QED BY <2>3, <2>6, <3>1 DEF Fingerprint
  <2>7. CASE BuildThin(r)
    <3>1. CASE proc' = [proc EXCEPT ![r].built = @ + 1, ![r].envs = @ \cup {fat[H(r)]}]
               /\ fat[H(r)] # NoDigest
      <4>1. Made(r, proc[r].pc, proc[r].entry, proc[r].built + 1, proc[r].results,
                 proc[r].envs \cup {fat[H(r)]}, proc[r].aborted)
        BY <3>1, BuildMade
      <4>2. proc[r].pc = "build" /\ proc[r].built + 1 <= Len(Commits) /\ UNCHANGED category
        BY <2>7, RunParts, CommitsParts DEF BuildThin, At
      <4> QED BY <4>1, <4>2, FlowMade
    <3>2. CASE GivesUp(r)
      BY <2>7, <3>2, AbortMade, FlowMade DEF GivesUp, BuildThin
    <3> QED BY <2>7, <3>1, <3>2 DEF BuildThin
  <2>8. CASE AllBuilt(r)
    <3>1. PICK pc \in {"test", "remove"} : Goto(r, pc)
      BY <2>8 DEF AllBuilt
    <3>2. Made(r, pc, proc[r].entry, proc[r].built, proc[r].results, proc[r].envs,
               proc[r].aborted)
      BY <2>2, <3>1, GotoMade
    <3> QED BY <2>8, <3>1, <3>2, FlowMade DEF AllBuilt
  <2>9. CASE Test(r)
    <3>1. PICK v \in Result : proc' = [proc EXCEPT ![r].results = Append(@, v)]
      BY <2>9 DEF Test, Result
    <3>2. Made(r, proc[r].pc, proc[r].entry, proc[r].built, Append(proc[r].results, v),
               proc[r].envs, proc[r].aborted)
      BY <3>1, TestMade
    <3>3. proc[r].pc = "test" /\ proc[r].built = Len(Commits) /\ UNCHANGED category
      BY <2>1, <2>9 DEF Test, At
    <3> QED BY <3>2, <3>3, FlowMade
  <2>10. CASE TimesOut(r)
    BY <2>10, AbortMade, FlowMade DEF TimesOut
  <2>11. CASE AllTested(r)
    <3>1. Made(r, "remove", proc[r].entry, proc[r].built, proc[r].results, proc[r].envs,
               proc[r].aborted)
      BY <2>2, <2>11, GotoMade DEF AllTested
    <3> QED BY <2>1, <2>11, <3>1, FlowMade DEF AllTested
  <2>12. CASE RemoveThin(r)
    <3>1. CASE ~proc[r].aborted
      <4>1. Made(r, "open", proc[r].entry, proc[r].built, proc[r].results, proc[r].envs,
                 proc[r].aborted)
        BY <2>2, <2>12, <3>1, GotoMade DEF RemoveThin
      <4>2. proc[r].built = Len(Commits) /\ UNCHANGED category
        BY <2>1, <2>12, <3>1 DEF RemoveThin, Finishing
      <4> QED BY <4>1, <4>2, FlowMade
    <3> QED BY <2>3, <2>12, <3>1 DEF RemoveThin
  <2>13. CASE OpenFile(r)
    <3>1. proc[r].built = Len(Commits) /\ UNCHANGED category
      BY <2>1, <2>13 DEF OpenFile, Finishing, At
    <3> QED BY <2>13, <3>1, OpenMade, FlowMade
  <2>14. CASE WriteFile(r)
    BY <2>3, <2>14 DEF WriteFile
  <2>15. CASE InterruptWork(r)
    BY <2>15, AbortMade, FlowMade DEF InterruptWork
  <2>17. CASE InterruptCleanup(r)
    BY <2>3, <2>17 DEF InterruptCleanup
  <2>18. CASE InterruptElsewhere(r)
    BY <2>3, <2>18 DEF InterruptElsewhere
  <2>16. CASE Kill(r)
    BY <2>3, <2>16 DEF Kill
  <2> QED BY <1>1, <2>4, <2>5, <2>6, <2>7, <2>8, <2>9, <2>10, <2>11, <2>12, <2>13, <2>14,
             <2>15, <2>16, <2>17, <2>18 DEF Step
<1>2. CASE UNCHANGED <<proc, category>>
  BY <1>2 DEF FlowInv, FlowOf, At, Finishing, Commits
<1> QED BY <1>1, <1>2 DEF Next, vars, Prune, OrphanEnds, GitCommit, GitRestore

----------------------------------------------------------------------------
(* Thin images.                                                            *)

\* A step that leaves the images alone, and does not take their run away.
LEMMA ThinMade ==
    ASSUME TypeOK, ThinInv, UNCHANGED <<category, thin>>, kept \subseteq kept',
           NEW r \in Run, NEW pc, NEW entry, NEW built, NEW results, NEW envs, NEW aborted,
           Made(r, pc, entry, built, results, envs, aborted),
           proc[r].pc \in Busy => pc \in Busy \/ H(r) \in kept'
    PROVE  ThinInv'
PROOF
<1>1. Commits' = Commits
  BY DEF Commits
<1> SUFFICES ASSUME NEW h \in Host, NEW c \in Commit, thin[h][c] # NoDigest
             PROVE  /\ \E i \in DOMAIN Commits : c = Commits[i]
                    /\ h \in kept' \/ \E q \in Run : H(q) = h /\ proc'[q].pc \in Busy
  BY <1>1 DEF ThinInv, H
<1>2. \E i \in DOMAIN Commits : c = Commits[i]
  BY DEF ThinInv
<1>3. CASE h \in kept
  BY <1>2, <1>3
<1>4. CASE h \notin kept
  <2>1. PICK q \in Run : H(q) = h /\ proc[q].pc \in Busy
    BY <1>4 DEF ThinInv
  <2>2. CASE q = r
    BY <1>2, <2>1, <2>2 DEF Made
  <2>3. CASE q # r
    BY <1>2, <2>1, <2>3 DEF Made
  <2> QED BY <2>2, <2>3
<1> QED BY <1>3, <1>4

\* A cleanup leaves no image behind that its host is not known for.
LEMMA ThinCleaned ==
    ASSUME TypeOK, ThinInv, UNCHANGED category,
           NEW r \in Run, NEW left \in SUBSET Commit, CleansUp(r, left),
           NEW pc, NEW entry, NEW built, NEW results, NEW envs, NEW aborted,
           Made(r, pc, entry, built, results, envs, aborted)
    PROVE  ThinInv'
PROOF
<1>1. Commits' = Commits
  BY DEF Commits
<1>2. /\ kept \subseteq kept' /\ (left # {} => H(r) \in kept')
      /\ \A h \in Host, c \in Commit :
            thin'[h][c] # NoDigest =>
                thin[h][c] # NoDigest /\ (h = H(r) => c \in left \/ c \notin Tagged)
  BY CleanMade
<1> SUFFICES ASSUME NEW h \in Host, NEW c \in Commit, thin'[h][c] # NoDigest
             PROVE  /\ \E i \in DOMAIN Commits : c = Commits[i]
                    /\ h \in kept' \/ \E q \in Run : H(q) = h /\ proc'[q].pc \in Busy
  BY <1>1 DEF ThinInv, H
<1>3. \E i \in DOMAIN Commits : c = Commits[i]
  BY <1>2 DEF ThinInv
<1>4. h \in kept \/ \E q \in Run : H(q) = h /\ proc[q].pc \in Busy
  BY <1>2 DEF ThinInv
<1>5. CASE h = H(r)
  <2>1. c \in Tagged
    <3>1. PICK i \in DOMAIN Commits : c = Commits[i]
      BY <1>3
    <3>2. i > 0
      BY <3>1, CommitsParts
    <3> QED BY <3>1, <3>2 DEF Tagged, From
  <2> QED BY <1>2, <1>3, <1>5, <2>1
<1>6. CASE h # H(r)
  BY <1>2, <1>3, <1>4, <1>6 DEF Made
<1> QED BY <1>5, <1>6

\* Every step keeps the images in hand.
LEMMA ThinStep == TypeOK /\ ThinInv /\ [Next]_vars => ThinInv'
PROOF
<1> SUFFICES ASSUME TypeOK, ThinInv, [Next]_vars PROVE ThinInv'
  OBVIOUS
<1> USE DEF store, bounds, Busy
<1>1. ASSUME NEW r \in Run, Step(r) PROVE ThinInv'
  <2>1. "fingerprint" \in PC /\ "open" \in PC /\ "remove" \in PC /\ "test" \in PC
    BY DEF PC
  <2>2. ASSUME Exit(r), UNCHANGED <<category, thin>>, kept \subseteq kept',
               proc[r].pc \notin Busy \/ H(r) \in kept'
        PROVE  ThinInv'
    BY <2>2, ExitMade, ThinMade
  <2>3. ASSUME NEW pc \in PC, Goto(r, pc), UNCHANGED <<category, thin, kept>>,
               proc[r].pc \in Busy => pc \in Busy
        PROVE  ThinInv'
    BY <2>3, GotoMade, ThinMade
  <2>4. ASSUME proc' = [proc EXCEPT ![r].pc = "remove", ![r].aborted = TRUE],
               UNCHANGED <<category, thin, kept>>
        PROVE  ThinInv'
    BY <2>4, AbortMade, ThinMade
  <2>5. CASE Start(r)
    BY <2>5, StartMade, ThinMade DEF Start, At
  <2>6. CASE ResolveFat(r)
    BY <2>1, <2>2, <2>3, <2>6 DEF ResolveFat, At
  <2>7. CASE Fingerprint(r)
    <3>1. CASE fat[H(r)] # NoDigest /\ Accepts(r)
      BY <2>7, <3>1, FingerprintMade, ThinMade DEF Fingerprint
    <3> QED BY <2>2, <2>7, <3>1 DEF Fingerprint, At
  <2>8. CASE BuildThin(r)
    <3>1. CASE /\ fat[H(r)] # NoDigest
               /\ thin' = [thin EXCEPT ![H(r)][Commits[proc[r].built + 1]] = fat[H(r)]]
               /\ proc' = [proc EXCEPT ![r].built = @ + 1, ![r].envs = @ \cup {fat[H(r)]}]
      <4> DEFINE n == proc[r].built + 1
      <4>1. Made(r, proc[r].pc, proc[r].entry, n, proc[r].results,
                 proc[r].envs \cup {fat[H(r)]}, proc[r].aborted)
        BY <3>1, BuildMade
      <4>2. n \in DOMAIN Commits /\ Commits[n] \in Commit /\ proc[r].pc = "build"
        BY <2>8, RunParts, CommitsParts DEF BuildThin, At
      <4>3. Commits' = Commits /\ UNCHANGED <<category, kept>>
        BY <2>8 DEF BuildThin, Commits
      <4>4. ASSUME NEW h \in Host, NEW c \in Commit
            PROVE  thin'[h][c] = IF h = H(r) /\ c = Commits[n] THEN fat[h] ELSE thin[h][c]
        BY <3>1, <4>2, RunParts DEF TypeOK
      <4>5. ASSUME NEW h \in Host, NEW c \in Commit, thin'[h][c] # NoDigest
            PROVE  /\ \E i \in DOMAIN Commits : c = Commits[i]
                   /\ h \in kept \/ \E q \in Run : H(q) = h /\ proc'[q].pc \in Busy
        <5>1. CASE h = H(r) /\ c = Commits[n]
          BY <4>1, <4>2, <5>1 DEF Made
        <5>2. CASE ~(h = H(r) /\ c = Commits[n])
          <6>1. thin[h][c] # NoDigest
            BY <4>4, <4>5, <5>2
          <6>2. \A q \in Run : proc[q].pc \in Busy => proc'[q].pc \in Busy
            BY <4>1, <4>2 DEF Made
          <6> QED BY <6>1, <6>2 DEF ThinInv
        <5> QED BY <5>1, <5>2
      <4> QED BY <4>3, <4>5 DEF ThinInv, H
    <3>2. CASE GivesUp(r)
      BY <2>4, <2>8, <3>2 DEF GivesUp, BuildThin
    <3> QED BY <2>8, <3>1, <3>2 DEF BuildThin
  <2>9. CASE AllBuilt(r)
    BY <2>1, <2>3, <2>9 DEF AllBuilt
  <2>10. CASE Test(r)
    <3>1. PICK v \in Result : proc' = [proc EXCEPT ![r].results = Append(@, v)]
      BY <2>10 DEF Test, Result
    <3> QED BY <2>10, <3>1, TestMade, ThinMade DEF Test
  <2>11. CASE TimesOut(r)
    BY <2>4, <2>11 DEF TimesOut
  <2>12. CASE AllTested(r)
    BY <2>1, <2>3, <2>12 DEF AllTested
  <2>13. CASE RemoveThin(r)
    <3>1. PICK pc, entry, built, results, envs, aborted :
             Made(r, pc, entry, built, results, envs, aborted)
      <4>1. CASE proc[r].aborted
        <5>1. Made(r, "idle", Blank, 0, <<>>, {}, FALSE)
          BY <2>13, <4>1, ExitMade DEF RemoveThin
        <5> QED BY <5>1
      <4>2. CASE ~proc[r].aborted
        <5>1. Made(r, "open", proc[r].entry, proc[r].built, proc[r].results, proc[r].envs,
                   proc[r].aborted)
          BY <2>13, <4>2, GotoMade DEF RemoveThin, PC
        <5> QED BY <5>1
      <4> QED BY <4>1, <4>2
    <3>2. PICK left \in SUBSET Commit : CleansUp(r, left)
      BY <2>13, CleanLeaves
    <3> QED BY <2>13, <3>1, <3>2, ThinCleaned DEF RemoveThin
  <2>14. CASE OpenFile(r)
    BY <2>14, OpenMade, ThinMade DEF OpenFile, At
  <2>15. CASE WriteFile(r)
    BY <2>2, <2>15 DEF WriteFile, At
  <2>16. CASE InterruptWork(r)
    BY <2>4, <2>16 DEF InterruptWork
  <2>18. CASE InterruptCleanup(r)
    <3>1. PICK left \in SUBSET Commit : CleansUp(r, left)
      BY <2>18, CleanLeaves
    <3> QED BY <2>18, <3>1, ExitMade, ThinCleaned DEF InterruptCleanup
  <2>19. CASE InterruptElsewhere(r)
    BY <2>2, <2>19 DEF InterruptElsewhere
  <2>17. CASE Kill(r)
    <3>1. kept \subseteq kept' /\ (proc[r].pc \notin Busy \/ H(r) \in kept')
      BY <2>17 DEF Kill
    <3> QED BY <2>2, <2>17, <3>1 DEF Kill
  <2> QED BY <1>1, <2>5, <2>6, <2>7, <2>8, <2>9, <2>10, <2>11, <2>12, <2>13, <2>14,
             <2>15, <2>16, <2>17, <2>18, <2>19 DEF Step
<1>2. CASE UNCHANGED <<proc, category, thin, kept>>
  BY <1>2 DEF ThinInv, Commits, H
<1> QED BY <1>1, <1>2 DEF Next, vars, Prune, OrphanEnds, GitCommit, GitRestore

----------------------------------------------------------------------------
(* One run at a time.                                                      *)

\* A run that is under way is Step's; only Start makes one of an idle run.
LEMMA AloneStep == TypeOK /\ AloneInv /\ [Next]_vars => AloneInv'
PROOF
<1> SUFFICES ASSUME TypeOK, AloneInv, [Next]_vars PROVE AloneInv'
  OBVIOUS
<1> USE DEF store, bounds
<1>1. ASSUME NEW r \in Run, Step(r) PROVE AloneInv'
  <2>1. CASE Start(r)
    BY <2>1, StartMade DEF Start, Made, AloneInv, AllQuiet, At
  <2>2. CASE ~Start(r)
    <3>1. ~At(r, "idle") /\ UNCHANGED alone
      BY <1>1, <2>2 DEF Step, ResolveFat, Fingerprint, BuildThin, AllBuilt, Test, TimesOut,
                        Testing, AllTested, RemoveThin, OpenFile, WriteFile,
                        InterruptWork, InterruptCleanup, InterruptElsewhere, Kill, At
    <3>2. \A q \in Run : q # r => proc'[q] = proc[q]
      BY <1>1, <2>2, RunParts DEF Step, ResolveFat, Fingerprint, BuildThin, GivesUp, AllBuilt,
                     Test, TimesOut, AllTested, RemoveThin, OpenFile, WriteFile,
                     InterruptWork, InterruptCleanup, InterruptElsewhere,
                     Kill, Goto, Exit
    <3> QED BY <3>1, <3>2 DEF AloneInv, At
  <2> QED BY <2>1, <2>2
<1>2. CASE UNCHANGED <<proc, alone>>
  BY <1>2 DEF AloneInv, At
<1> QED BY <1>1, <1>2 DEF Next, vars, Prune, OrphanEnds, GitCommit, GitRestore

----------------------------------------------------------------------------
(* What a run knows of the entry, while it is alone.                       *)

RunOf(r) ==
    /\ Verified(proc[r].entry) /\ Holds(r)
    /\ proc[r].pc \in Checked => Works(r)

\* While one run is under way, it is the only one to look at.
LEMMA OnlyRun ==
    ASSUME TypeOK, UNCHANGED alone, NEW r \in Run,
           alone => \A q \in Run : q # r => At(q, "idle"),
           NEW pc, NEW entry, NEW built, NEW results, NEW envs, NEW aborted,
           Made(r, pc, entry, built, results, envs, aborted),
           alone /\ pc # "idle" => RunOf(r)'
    PROVE  RunInv'
PROOF BY DEF Made, RunInv, RunOf, At

\* What is known of a run and of the others when it makes a step.
LEMMA AloneRun ==
    ASSUME TypeOK, AloneInv, RunInv, NEW r \in Run, ~At(r, "idle"), alone
    PROVE  RunOf(r) /\ \A q \in Run : q # r => At(q, "idle")
PROOF BY DEF AloneInv, RunInv, RunOf

\* A run that goes on between checked places keeps what it knows.
LEMMA KeepsWorks ==
    ASSUME TypeOK, NEW r \in Run, RunOf(r), proc[r].pc \in Checked \ {"write"},
           NEW pc \in Checked \ {"write"}, NEW aborted,
           Made(r, pc, proc[r].entry, proc[r].built, proc[r].results, proc[r].envs, aborted),
           UNCHANGED <<category, file, fat>>,
           pc \in {"build", "test"} => proc[r].pc \in {"build", "test"} /\ UNCHANGED thin
    PROVE  RunOf(r)'
PROOF
<1>1. Commits' = Commits
  BY DEF Commits
<1>2. /\ proc'[r].entry = proc[r].entry /\ proc'[r].built = proc[r].built
      /\ proc'[r].results = proc[r].results /\ proc'[r].envs = proc[r].envs
      /\ proc'[r].pc = pc
  BY DEF Made
<1>3. Verified(proc[r].entry)'
  BY <1>2 DEF RunOf, Verified
<1>4. Holds(r)'
  BY <1>2 DEF RunOf, Holds, At
<1>5. Works(r)'
  BY <1>1, <1>2 DEF RunOf, Works, Expected, H, P
<1> QED BY <1>3, <1>4, <1>5 DEF RunOf

\* A fingerprint that is accepted changes nothing that was known.
LEMMA RecordedVerified ==
    ASSUME TypeOK, NEW r \in Run, fat[H(r)] # NoDigest, Accepts(r),
           Verified(proc[r].entry)
    PROVE  /\ Verified(Recorded(r))
           /\ \A p \in Platform : proc[r].entry.fingerprints[p] # NoDigest
                 => Recorded(r).fingerprints[p] = proc[r].entry.fingerprints[p]
           /\ Recorded(r).fingerprints[P(r)] = fat[H(r)] /\ fat[H(r)] \in Digest
PROOF
<1>1. /\ \A p \in Platform : Recorded(r).fingerprints[p] =
            IF p = P(r) THEN fat[H(r)] ELSE proc[r].entry.fingerprints[p]
      /\ Recorded(r).verifiedOn = proc[r].entry.verifiedOn
  BY RunParts DEF Recorded
<1>2. Expected(r) = NoDigest \/ Expected(r) = fat[H(r)]
  BY DEF Accepts
<1>3. \A p \in Platform : proc[r].entry.fingerprints[p] # NoDigest
         => Recorded(r).fingerprints[p] = proc[r].entry.fingerprints[p]
  BY <1>1, <1>2 DEF Expected
<1>4. ASSUME NEW i \in DOMAIN proc[r].entry.verifiedOn
      PROVE  LET v == proc[r].entry.verifiedOn[i]
             IN  v.envs = {Recorded(r).fingerprints[PlatformOf[v.host]]} /\ v.genuine
  <2> DEFINE v == proc[r].entry.verifiedOn[i]
  <2>1. v \in Record
    BY <1>4, RunParts
  <2>2. PlatformOf[v.host] \in Platform /\ v.envs \in SUBSET Digest
    BY <2>1, RegenerateAssumption DEF Record
  <2>3. v.envs = {proc[r].entry.fingerprints[PlatformOf[v.host]]} /\ v.genuine
    BY <1>4 DEF Verified
  <2>4. proc[r].entry.fingerprints[PlatformOf[v.host]] # NoDigest
    BY <2>2, <2>3, RegenerateAssumption
  <2> QED BY <1>3, <2>2, <2>3, <2>4
<1>5. fat[H(r)] \in Digest /\ P(r) \in Platform
  BY RunParts DEF TypeOK, MaybeDigest
<1> QED BY <1>1, <1>3, <1>4, <1>5 DEF Verified

\* A run that has tested in the recorded environment adds a verification that says so.
LEMMA VerificationVerified ==
    ASSUME TypeOK, NEW r \in Run, RunOf(r), At(r, "open"), proc[r].built = Len(Commits)
    PROVE  Verified(Verification(r))
PROOF
<1> DEFINE s == proc[r].entry.verifiedOn
           v == NewRecord(r)
<1>1. s \in Seq(Record) /\ Len(s) \in Nat /\ DOMAIN s = 1..Len(s)
  BY RunParts
<1>2. Works(r)
  BY DEF RunOf, At, Checked
<1>3. v.envs = {Expected(r)} /\ v.host = H(r) /\ v.genuine
  <2>1. Len(Commits) # 0
    BY CommitsParts
  <2> QED BY <1>2, <2>1 DEF NewRecord, Works
<1>4. Expected(r) = proc[r].entry.fingerprints[PlatformOf[v.host]]
  BY <1>3 DEF Expected, P
<1>5. /\ DOMAIN Append(s, v) = 1..(Len(s) + 1)
      /\ \A i \in 1..(Len(s) + 1) : Append(s, v)[i] = IF i = Len(s) + 1 THEN v ELSE s[i]
  <2> HIDE DEF s, v
  <2> QED BY <1>1
<1>6. ASSUME NEW i \in 1..(Len(s) + 1)
      PROVE  /\ Append(s, v)[i].envs = {proc[r].entry.fingerprints[PlatformOf[Append(s, v)[i].host]]}
             /\ Append(s, v)[i].genuine
  <2>1. CASE i = Len(s) + 1
    BY <1>3, <1>4, <1>5, <2>1
  <2>2. CASE i # Len(s) + 1
    <3>1. i \in DOMAIN s /\ Append(s, v)[i] = s[i]
      BY <1>1, <1>5, <2>2
    <3> QED BY <3>1 DEF RunOf, Verified
  <2> QED BY <2>1, <2>2
<1> QED BY <1>5, <1>6 DEF Verified, Verification

\* Every step keeps what a run knows.
LEMMA RunStep ==
    TypeOK /\ FlowInv /\ AloneInv /\ RunInv /\ FileInv /\ [Next]_vars => RunInv'
PROOF
<1> SUFFICES ASSUME TypeOK, FlowInv, AloneInv, RunInv, FileInv, [Next]_vars PROVE RunInv'
  OBVIOUS
<1> USE DEF store, bounds
<1>1. ASSUME NEW r \in Run, Step(r) PROVE RunInv'
  <2>1. /\ At(r, "fat") \/ At(r, "fingerprint") =>
              proc[r].built = 0 /\ proc[r].results = <<>> /\ proc[r].envs = {}
        /\ At(r, "test") \/ Finishing(r) => proc[r].built = Len(Commits)
    BY DEF FlowInv, FlowOf
  <2>2. "fingerprint" \in PC /\ "open" \in PC /\ "remove" \in PC /\ "test" \in PC
    BY DEF PC
  <2>3. ~At(r, "idle") =>
            (alone => RunOf(r) /\ \A q \in Run : q # r => At(q, "idle"))
    BY AloneRun
  <2>4. ASSUME Exit(r), ~At(r, "idle"), UNCHANGED alone
        PROVE  RunInv'
    BY <2>3, <2>4, ExitMade, OnlyRun
  <2>5. ASSUME NEW pc \in PC, Goto(r, pc),
               pc \in Checked \ {"write"}, proc[r].pc \in Checked \ {"write"},
               pc \in {"build", "test"} => proc[r].pc \in {"build", "test"} /\ UNCHANGED thin,
               UNCHANGED <<alone, category, file, fat>>
        PROVE  RunInv'
    <3>1. Made(r, pc, proc[r].entry, proc[r].built, proc[r].results, proc[r].envs,
               proc[r].aborted)
      BY <2>5, GotoMade
    <3>2. ~At(r, "idle")
      BY <2>5 DEF At, Checked, Busy
    <3>3. alone => RunOf(r)'
      BY <2>3, <2>5, <3>1, <3>2, KeepsWorks
    <3> QED BY <2>3, <2>5, <3>1, <3>2, <3>3, OnlyRun
  <2>6. ASSUME proc' = [proc EXCEPT ![r].pc = "remove", ![r].aborted = TRUE],
               proc[r].pc \in {"build", "test"}, UNCHANGED <<alone, category, file, fat>>
        PROVE  RunInv'
    <3>1. Made(r, "remove", proc[r].entry, proc[r].built, proc[r].results, proc[r].envs, TRUE)
      BY <2>6, AbortMade
    <3>2. ~At(r, "idle") /\ proc[r].pc \in Checked \ {"write"} /\ "remove" \in Checked \ {"write"}
      BY <2>6 DEF At, Checked, Busy
    <3>3. alone => RunOf(r)'
      BY <2>3, <2>6, <3>1, <3>2, KeepsWorks
    <3> QED BY <2>3, <2>6, <3>1, <3>2, <3>3, OnlyRun
  <2>7. CASE Start(r)
    <3>1. Made(r, "fat", file, 0, <<>>, {}, FALSE) /\ UNCHANGED <<alone, file>>
      BY <2>7, StartMade DEF Start
    <3>2. proc'[r].entry = file /\ proc'[r].pc = "fat"
      BY <3>1 DEF Made
    <3>3. alone => Verified(file)
      BY DEF FileInv
    <3>4. alone => RunOf(r)'
      BY <3>1, <3>2, <3>3 DEF RunOf, Verified, Holds, At, Checked, Busy
    <3>5. alone => \A q \in Run : q # r => At(q, "idle")
      BY <2>7 DEF Start, AllQuiet
    <3> QED BY <3>1, <3>4, <3>5, OnlyRun
  <2>8. CASE ResolveFat(r)
    <3>1. ~At(r, "idle") /\ UNCHANGED <<alone, file>>
      BY <2>8 DEF ResolveFat, At
    <3>2. CASE Goto(r, "fingerprint")
      <4>1. Made(r, "fingerprint", proc[r].entry, proc[r].built, proc[r].results,
                 proc[r].envs, proc[r].aborted)
        BY <2>2, <3>2, GotoMade
      <4>2. proc'[r].entry = proc[r].entry /\ proc'[r].pc = "fingerprint" /\ proc[r].pc = "fat"
        BY <2>8, <4>1 DEF Made, ResolveFat, At
      <4>3. alone => RunOf(r)'
        BY <2>3, <3>1, <4>2 DEF RunOf, Verified, Holds, At, Checked, Busy
      <4> QED BY <2>3, <3>1, <4>1, <4>3, OnlyRun
    <3> QED BY <2>4, <2>8, <3>1, <3>2 DEF ResolveFat
  <2>9. CASE Fingerprint(r)
    <3>1. ~At(r, "idle") /\ UNCHANGED <<alone, file, fat, thin>> /\ proc[r].pc = "fingerprint"
      BY <2>9 DEF Fingerprint, At
    <3>2. CASE fat[H(r)] # NoDigest /\ Accepts(r)
      <4>1. Made(r, "build", Recorded(r), proc[r].built, proc[r].results, proc[r].envs,
                 proc[r].aborted)
        BY <2>9, <3>2, FingerprintMade
      <4>2. /\ proc'[r].pc = "build" /\ proc'[r].entry = Recorded(r) /\ proc'[r].built = 0
            /\ proc'[r].results = <<>> /\ proc'[r].envs = {}
        BY <2>1, <3>1, <4>1 DEF Made, At
      <4>3. ASSUME alone PROVE RunOf(r)'
        <5>1. Verified(proc[r].entry) /\ Holds(r)
          BY <2>3, <3>1, <4>3 DEF RunOf
        <5>2. /\ Verified(Recorded(r))
              /\ \A p \in Platform : proc[r].entry.fingerprints[p] # NoDigest
                    => Recorded(r).fingerprints[p] = proc[r].entry.fingerprints[p]
              /\ Recorded(r).fingerprints[P(r)] = fat[H(r)] /\ fat[H(r)] \in Digest
          BY <3>2, <5>1, RecordedVerified
        <5>3. Verified(proc[r].entry)'
          BY <4>2, <5>2 DEF Verified
        <5>4. Holds(r)'
          <6>1. \A p \in Platform : file.fingerprints[p] # NoDigest
                   => Recorded(r).fingerprints[p] = file.fingerprints[p]
            BY <5>1, <5>2 DEF Holds
          <6>2. Recorded(r).verifiedOn = file.verifiedOn
            BY <3>1, <5>1 DEF Holds, Recorded, At
          <6> QED BY <3>1, <4>2, <6>1, <6>2 DEF Holds, At
        <5>5. Works(r)'
          BY <3>1, <4>2, <5>2 DEF Works, Expected, H, P
        <5> QED BY <5>3, <5>4, <5>5 DEF RunOf
      <4> QED BY <2>3, <3>1, <4>1, <4>3, OnlyRun
    <3> QED BY <2>4, <2>9, <3>1, <3>2 DEF Fingerprint
  <2>10. CASE BuildThin(r)
    <3>0. ~At(r, "idle") /\ proc[r].pc = "build" /\ UNCHANGED <<alone, category, file, fat>>
      BY <2>10 DEF BuildThin, At
    <3>1. CASE /\ fat[H(r)] # NoDigest
               /\ thin' = [thin EXCEPT ![H(r)][Commits[proc[r].built + 1]] = fat[H(r)]]
               /\ proc' = [proc EXCEPT ![r].built = @ + 1, ![r].envs = @ \cup {fat[H(r)]}]
      <4> DEFINE n == proc[r].built + 1
      <4>1. Made(r, proc[r].pc, proc[r].entry, n, proc[r].results,
                 proc[r].envs \cup {fat[H(r)]}, proc[r].aborted)
        BY <3>1, BuildMade
      <4>2. /\ proc'[r].pc = "build" /\ proc'[r].entry = proc[r].entry /\ proc'[r].built = n
            /\ proc'[r].results = proc[r].results
            /\ proc'[r].envs = proc[r].envs \cup {fat[H(r)]}
        BY <3>0, <4>1 DEF Made
      <4>3. n \in 1..Len(Commits) /\ proc[r].built \in Nat /\ Commits' = Commits
            /\ \A i \in 1..Len(Commits) : Commits[i] \in Commit
        BY <2>10, <3>0, RunParts, CommitsParts DEF BuildThin, Commits
      <4>4. \A c \in Commit : thin'[H(r)][c] = IF c = Commits[n] THEN fat[H(r)] ELSE thin[H(r)][c]
        BY <3>1, <4>3, RunParts DEF TypeOK
      <4>5. ASSUME alone PROVE RunOf(r)'
        <5>1. Verified(proc[r].entry) /\ Holds(r) /\ Works(r)
          BY <2>3, <3>0, <4>5 DEF RunOf, Checked, Busy
        <5>2. Verified(proc[r].entry)' /\ Holds(r)'
          BY <3>0, <4>2, <5>1 DEF Verified, Holds, At
        <5>3. ASSUME NEW i \in 1..n PROVE thin'[H(r)][Commits[i]] # NoDigest
          <6>1. Commits[i] \in Commit
            BY <4>3
          <6>2. CASE i = n
            BY <3>1, <4>4, <6>1, <6>2
          <6>3. CASE i # n
            <7>1. i \in 1..proc[r].built
              BY <4>3, <6>3
            <7> QED BY <3>0, <3>1, <4>4, <5>1, <6>1, <7>1 DEF Works
          <6> QED BY <6>2, <6>3
        <5>4. proc[r].envs \cup {fat[H(r)]} = {Expected(r)} /\ n # 0
          BY <4>3, <5>1 DEF Works
        <5>5. Works(r)'
          BY <3>0, <4>2, <4>3, <5>1, <5>3, <5>4 DEF Works, Expected, H, P
        <5> QED BY <5>2, <5>5 DEF RunOf
      <4> QED BY <2>3, <3>0, <4>1, <4>5, OnlyRun
    <3>2. CASE GivesUp(r)
      BY <2>6, <3>0, <3>2 DEF GivesUp
    <3> QED BY <2>10, <3>1, <3>2 DEF BuildThin
  <2>11. CASE AllBuilt(r)
    <3>1. proc[r].pc = "build" /\ UNCHANGED <<alone, category, file, fat, thin>>
      BY <2>11 DEF AllBuilt, At
    <3>2. {"build", "test", "remove"} \subseteq Checked \ {"write"}
      BY DEF Checked, Busy
    <3> QED BY <2>2, <2>5, <2>11, <3>1, <3>2 DEF AllBuilt
  <2>12. CASE Test(r)
    <3>1. PICK v \in IF thin[H(r)][UnderTest(r)] = NoDigest THEN {"norun"} ELSE {"pass", "fail"} :
             proc' = [proc EXCEPT ![r].results = Append(@, v)]
      BY <2>12 DEF Test
    <3>2. Made(r, proc[r].pc, proc[r].entry, proc[r].built, Append(proc[r].results, v),
               proc[r].envs, proc[r].aborted)
      BY <3>1, TestMade DEF Result
    <3>3. /\ ~At(r, "idle") /\ proc[r].pc = "test"
          /\ UNCHANGED <<alone, category, file, fat, thin>> /\ Commits' = Commits
      BY <2>12 DEF Test, At, Commits
    <3>4. /\ proc'[r].pc = proc[r].pc /\ proc'[r].entry = proc[r].entry
          /\ proc'[r].built = proc[r].built /\ proc'[r].envs = proc[r].envs
          /\ proc'[r].results = Append(proc[r].results, v)
      BY <3>2 DEF Made
    <3>5. ASSUME alone PROVE RunOf(r)'
      <4>1. Verified(proc[r].entry) /\ Holds(r) /\ Works(r)
        BY <2>3, <3>3, <3>5 DEF RunOf, Checked, Busy
      <4>2. Verified(proc[r].entry)' /\ Holds(r)'
        BY <3>3, <3>4, <4>1 DEF Verified, Holds, At
      <4>3. v # "norun"
        <5>1. Tested(r) + 1 \in 1..proc[r].built
          BY <2>1, <2>12, <3>3, TestedParts DEF Test, At
        <5>2. thin[H(r)][UnderTest(r)] # NoDigest
          BY <3>3, <4>1, <5>1 DEF Works, UnderTest
        <5> QED BY <3>1, <5>2
      <4>4. ASSUME NEW i \in DOMAIN Append(proc[r].results, v)
            PROVE  Append(proc[r].results, v)[i] # "norun"
        <5> DEFINE s == proc[r].results
        <5>1. s \in Seq(Result) /\ \A j \in DOMAIN s : s[j] # "norun"
          BY <4>1, RunParts DEF Works
        <5> HIDE DEF s
        <5>2. /\ DOMAIN Append(s, v) = 1..(Len(s) + 1) /\ DOMAIN s = 1..Len(s)
              /\ \A j \in 1..(Len(s) + 1) : Append(s, v)[j] = IF j = Len(s) + 1 THEN v ELSE s[j]
          BY <5>1
        <5>3. i \in 1..(Len(s) + 1) /\ Len(s) \in Nat
          BY <4>4, <5>1, <5>2 DEF s
        <5>4. CASE i = Len(s) + 1
          BY <4>3, <5>2, <5>3, <5>4 DEF s
        <5>5. CASE i # Len(s) + 1
          <6>1. i \in DOMAIN s
            BY <5>2, <5>3, <5>5
          <6> QED BY <5>1, <5>2, <5>3, <5>5, <6>1 DEF s
        <5> QED BY <5>4, <5>5
      <4>5. Works(r)'
        BY <3>3, <3>4, <4>1, <4>4 DEF Works, Expected, H, P
      <4> QED BY <4>2, <4>5 DEF RunOf
    <3> QED BY <2>3, <3>2, <3>3, <3>5, OnlyRun
  <2>13. CASE TimesOut(r)
    BY <2>6, <2>13 DEF TimesOut, Testing, At
  <2>14. CASE AllTested(r)
    <3>1. proc[r].pc = "test" /\ UNCHANGED <<alone, category, file, fat, thin>>
      BY <2>14 DEF AllTested, At
    <3>2. {"build", "test", "remove"} \subseteq Checked \ {"write"}
      BY DEF Checked, Busy
    <3> QED BY <2>2, <2>5, <2>14, <3>1, <3>2 DEF AllTested
  <2>15. CASE RemoveThin(r)
    <3>1. proc[r].pc = "remove" /\ ~At(r, "idle") /\ UNCHANGED <<alone, category, file, fat>>
      BY <2>15 DEF RemoveThin, At
    <3>2. {"remove", "open"} \subseteq Checked \ {"write"}
      BY DEF Checked, Busy
    <3>3. CASE Goto(r, "open")
      BY <2>2, <2>5, <3>1, <3>2, <3>3
    <3> QED BY <2>4, <2>15, <3>1, <3>3 DEF RemoveThin
  <2>16. CASE OpenFile(r)
    <3>1. /\ ~At(r, "idle") /\ proc[r].pc = "open" /\ UNCHANGED <<alone, category, file, fat, thin>>
          /\ proc[r].built = Len(Commits) /\ Commits' = Commits
      BY <2>1, <2>16 DEF OpenFile, At, Finishing, Commits
    <3>2. /\ Made(r, "write", Verification(r), proc[r].built, proc[r].results, proc[r].envs,
                  proc[r].aborted)
          /\ NewRecord(r) \in Record
      BY <2>16, OpenMade
    <3>3. /\ proc'[r].pc = "write" /\ proc'[r].entry = Verification(r)
          /\ proc'[r].built = proc[r].built /\ proc'[r].envs = proc[r].envs
          /\ proc'[r].results = proc[r].results
      BY <3>2 DEF Made
    <3>4. ASSUME alone PROVE RunOf(r)'
      <4>1. RunOf(r) /\ Holds(r) /\ Works(r)
        BY <2>3, <3>1, <3>4 DEF RunOf, Checked, Busy
      <4>2. Verified(Verification(r))
        BY <3>1, <4>1, VerificationVerified DEF At
      <4>3. Verified(proc[r].entry)'
        BY <3>3, <4>2 DEF Verified
      <4>4. Holds(r)'
        <5>1. Verification(r).verifiedOn = Append(file.verifiedOn, NewRecord(r))
          BY <3>1, <4>1 DEF Holds, Verification, At
        <5>2. Verification(r).fingerprints = proc[r].entry.fingerprints
          BY DEF Verification
        <5> QED BY <3>1, <3>2, <3>3, <4>1, <5>1, <5>2 DEF Holds, At
      <4>5. Verification(r).fingerprints[P(r)] = Expected(r)
        BY DEF Verification, Expected
      <4>6. Works(r)'
        BY <3>1, <3>3, <4>1, <4>5 DEF Works, Expected, H, P
      <4> QED BY <4>3, <4>4, <4>6 DEF RunOf
    <3> QED BY <2>3, <3>1, <3>2, <3>4, OnlyRun
  <2>17. CASE WriteFile(r)
    BY <2>4, <2>17 DEF WriteFile, At
  <2>18. CASE InterruptWork(r)
    BY <2>6, <2>18 DEF InterruptWork, At
  <2>20. CASE InterruptCleanup(r) \/ InterruptElsewhere(r)
    BY <2>4, <2>20 DEF InterruptCleanup, InterruptElsewhere, At
  <2>19. CASE Kill(r)
    BY <2>4, <2>19 DEF Kill
  <2> QED BY <1>1, <2>7, <2>8, <2>9, <2>10, <2>11, <2>12, <2>13, <2>14, <2>15, <2>16, <2>17,
             <2>18, <2>19, <2>20 DEF Step
<1>2. ASSUME NEW h \in Host, Prune(h) PROVE RunInv'
  BY <1>2 DEF Prune, RunInv, AllQuiet, At
<1>3. CASE GitRestore
  BY <1>3 DEF GitRestore, RunInv, AllQuiet, At
<1>4. CASE UNCHANGED <<proc, category, alone, file, fat, thin>>
  <2> SUFFICES ASSUME alone, NEW r \in Run, ~At(r, "idle") PROVE RunOf(r)'
    BY <1>4 DEF RunInv, RunOf, At
  <2>1. RunOf(r)
    BY DEF RunInv, RunOf
  <2>2. Verified(proc[r].entry)' /\ Holds(r)'
    BY <1>4, <2>1 DEF RunOf, Verified, Holds, At
  <2>3. Commits' = Commits
    BY <1>4 DEF Commits
  <2>4. Works(r)' <=> Works(r)
    BY <1>4, <2>3 DEF Works, Expected, H, P
  <2> QED BY <1>4, <2>1, <2>2, <2>4 DEF RunOf
<1> QED BY <1>1, <1>2, <1>3, <1>4 DEF Next, vars, OrphanEnds, GitCommit

----------------------------------------------------------------------------
(* What the file and git know.                                             *)

\* What knows more than something that knows more, knows more.
LEMMA ExtendsTwice ==
    ASSUME NEW a \in Contents, NEW b \in Contents, NEW c \in Contents,
           Extends(a, b), Extends(b, c)
    PROVE  Extends(a, c)
PROOF
<1>1. /\ Len(a.verifiedOn) \in Nat /\ Len(b.verifiedOn) \in Nat /\ Len(c.verifiedOn) \in Nat
      /\ a.fingerprints \in [Platform -> MaybeDigest]
  BY DEF Contents
<1> QED BY <1>1 DEF Extends

\* A run that writes knows more than the file.
LEMMA WritesMore ==
    ASSUME TypeOK, NEW r \in Run, At(r, "write"), Holds(r)
    PROVE  Extends(file, proc[r].entry)
PROOF
<1>1. PICK v \in Record : proc[r].entry.verifiedOn = Append(file.verifiedOn, v)
  BY DEF Holds
<1>2. file.verifiedOn \in Seq(Record)
  BY DEF TypeOK, Contents
<1> DEFINE s == file.verifiedOn
<1>3. Len(s) < Len(Append(s, v)) /\ \A i \in 1..Len(s) : Append(s, v)[i] = s[i]
  <2> HIDE DEF s
  <2>1. s \in Seq(Record)
    BY <1>2 DEF s
  <2> QED BY <2>1
<1> QED BY <1>1, <1>3 DEF Extends, Holds

\* Whether runs overlap is fixed.
LEMMA AloneFixed == [Next]_vars => UNCHANGED alone
PROOF
<1>1. ASSUME NEW r \in Run, Step(r) PROVE UNCHANGED alone
  BY <1>1 DEF Step, Start, ResolveFat, Fingerprint, BuildThin, AllBuilt, Test, TimesOut,
              AllTested, RemoveThin, OpenFile, WriteFile,
              InterruptWork, InterruptCleanup, InterruptElsewhere, Kill
<1>2. ASSUME NEW h \in Host, Prune(h) \/ \E c \in Commit : OrphanEnds(h, c)
      PROVE  UNCHANGED alone
  BY <1>2 DEF Prune, OrphanEnds
<1>3. GitCommit \/ GitRestore \/ UNCHANGED vars => UNCHANGED alone
  BY DEF GitCommit, GitRestore, vars
<1> QED BY <1>1, <1>2, <1>3 DEF Next

\* Every step keeps what the file and git know.
LEMMA FileStep == TypeOK /\ AloneInv /\ RunInv /\ FileInv /\ [Next]_vars => FileInv'
PROOF
<1> SUFFICES ASSUME TypeOK, AloneInv, RunInv, FileInv, [Next]_vars PROVE FileInv'
  OBVIOUS
<1> SUFFICES ASSUME alone', alone
             PROVE  /\ Verified(file)' /\ Verified(committed)'
                    /\ (file = committed)' \/ Extends(committed, file)'
  <2>1. alone' = alone
    BY AloneFixed
  <2> QED BY <2>1 DEF FileInv
<1>1. /\ Verified(file) /\ Verified(committed)
      /\ file = committed \/ Extends(committed, file)
  BY DEF FileInv
<1>2. ASSUME NEW r \in Run, WriteFile(r)
      PROVE  /\ Verified(file)' /\ Verified(committed)'
             /\ (file = committed)' \/ Extends(committed, file)'
  <2>1. At(r, "write") /\ ~At(r, "idle") /\ file' = proc[r].entry /\ committed' = committed
    BY <1>2 DEF WriteFile, At
  <2>2. Verified(proc[r].entry) /\ Holds(r)
    BY <2>1, AloneRun DEF RunOf
  <2>3. Extends(file, proc[r].entry)
    BY <2>1, <2>2, WritesMore
  <2>4. Extends(committed, proc[r].entry)
    BY <1>1, <2>3, RunParts, ExtendsTwice DEF TypeOK
  <2> QED BY <1>1, <2>1, <2>2, <2>4 DEF Verified, Extends
<1>3. CASE GitCommit
  BY <1>1, <1>3 DEF GitCommit, Verified
<1>4. CASE GitRestore
  BY <1>1, <1>4 DEF GitRestore, Verified
<1>5. CASE UNCHANGED <<file, committed>>
  BY <1>1, <1>5 DEF Verified, Extends
<1> QED BY <1>2, <1>3, <1>4, <1>5
        DEF Next, Step, vars, store, Start, ResolveFat, Fingerprint, BuildThin, AllBuilt, Test,
            TimesOut, AllTested, RemoveThin, OpenFile,
            InterruptWork, InterruptCleanup, InterruptElsewhere, Kill, Prune, OrphanEnds

\* The invariant holds before the first run.
LEMMA InitIInv == Init => IInv
PROOF
<1> SUFFICES ASSUME Init PROVE IInv
  OBVIOUS
<1>1. TypeOK
  BY TypeInit
<1>2. \A r \in Run : proc[r] = Idle /\ proc[r].pc = "idle"
  BY DEF Init, Idle
<1>3. FlowInv
  BY <1>2 DEF FlowInv, FlowOf, At, Finishing
<1>4. ThinInv
  BY DEF Init, ThinInv
<1>5. AloneInv /\ RunInv
  BY <1>2 DEF AloneInv, RunInv, At
<1>6. FileInv
  <2>1. PICK h \in Host, d \in Digest : file = Assembled(h, d)
    BY DEF Init
  <2>2. Blank \in Contents
    BY DEF Blank, Contents, MaybeDigest
  <2>3. file.verifiedOn = Blank.verifiedOn
    BY <2>1, <2>2 DEF Assembled, Contents
  <2>4. file.verifiedOn = <<>> /\ committed = file
    BY <2>3 DEF Blank, Init
  <2> QED BY <2>4 DEF FileInv, Verified
<1> QED BY <1>1, <1>3, <1>4, <1>5, <1>6 DEF IInv

\* Every step keeps it.
LEMMA NextIInv == IInv /\ [Next]_vars => IInv'
PROOF BY TypeStep, FlowStep, ThinStep, AloneStep, RunStep, FileStep DEF IInv

\* It holds in every reachable state.
LEMMA Invariance == Spec => []IInv
PROOF BY InitIInv, NextIInv, PTL DEF Spec

----------------------------------------------------------------------------
(* The theorems.                                                           *)

\* Every variable keeps its type (TypeOK).
THEOREM TypeCorrect == Spec => []TypeOK
PROOF
<1>1. IInv => TypeOK
  BY DEF IInv
<1> QED BY <1>1, Invariance, PTL

\* Whatever way runs take out, and however they overlap, the finally clause leaves no thin
\* image (cargo_regenerate.py:469-471), but for runs that were told to keep them or killed, and
\* for cleanups that were interrupted themselves or that docker failed.
THEOREM NoThinLeftBehind == Spec => []ThinsRemoved
PROOF
<1>1. IInv => ThinsRemoved
  BY DEF IInv, ThinInv, ThinsRemoved, Quiet, H, At, Busy
<1> QED BY <1>1, Invariance, PTL

\* One run at a time verifies in the environment the entry records: the fingerprint is
\* compared once, before three builds (cargo_regenerate.py:351-400).
THEOREM VerifiedWhereRecorded == Spec => []RanInRecordedEnvironment
PROOF
<1>1. IInv => RanInRecordedEnvironment
  BY DEF IInv, FileInv, Verified, RanInRecordedEnvironment
<1> QED BY <1>1, Invariance, PTL

\* One run at a time records a match only for tests that ran (cargo_regenerate.py:437-466).
THEOREM MatchesAreGenuine == Spec => []MatchIsGenuine
PROOF
<1>1. IInv => MatchIsGenuine
  BY DEF IInv, FileInv, Verified, MatchIsGenuine
<1> QED BY <1>1, Invariance, PTL

----------------------------------------------------------------------------
(* The entry's contract.                                                   *)

Fingerprints == IF alone THEN committed.fingerprints ELSE Blank.fingerprints
VerifiedOn == IF alone THEN committed.verifiedOn ELSE Blank.verifiedOn

\* A prefix, element by element.
LEMMA PrefixPointwise ==
    ASSUME NEW S, NEW s \in Seq(S), NEW t \in Seq(S), Len(s) <= Len(t),
           \A i \in 1..Len(s) : s[i] = t[i]
    PROVE  Contract!IsPrefix(s, t)
PROOF
<1>1. /\ SubSeq(s, 1, Len(s)) = [i \in 1..Len(s) |-> s[i]]
      /\ SubSeq(t, 1, Len(s)) = [i \in 1..Len(s) |-> t[i]]
  BY SubSeqProperties
<1> QED BY <1>1 DEF Contract!IsPrefix

\* What the assembly leaves is an entry nobody has verified.
LEMMA ContractInit == Init => Contract!Init
PROOF
<1> SUFFICES ASSUME Init PROVE Contract!Init
  OBVIOUS
<1>1. Blank \in Contents /\ Blank.verifiedOn = <<>>
  BY DEF Blank, Contents, MaybeDigest
<1>2. committed \in Contents
  BY TypeInit DEF TypeOK
<1>3. committed.verifiedOn = <<>>
  <2>1. PICK h \in Host, d \in Digest : file = Assembled(h, d)
    BY DEF Init
  <2> QED BY <1>1, <2>1 DEF Assembled, Contents, Init
<1>4. Fingerprints \in [Platform -> MaybeDigest] /\ VerifiedOn = <<>>
  BY <1>1, <1>2, <1>3 DEF Fingerprints, VerifiedOn, Contents
<1> QED BY <1>4 DEF Contract!Init, Fingerprints, VerifiedOn, MaybeDigest

\* A commit that adds to the entry publishes a version that keeps the contract.
LEMMA CommitPublishes ==
    ASSUME IInv, alone, alone' = alone, GitCommit
    PROVE  Contract!Publish
PROOF
<1>1. /\ committed \in Contents /\ file \in Contents
      /\ Extends(committed, file) /\ Verified(file) /\ committed' = file
  BY DEF IInv, TypeOK, FileInv, GitCommit
<1>2. /\ Fingerprints = committed.fingerprints /\ Fingerprints' = file.fingerprints
      /\ VerifiedOn = committed.verifiedOn /\ VerifiedOn' = file.verifiedOn
  BY <1>1 DEF Fingerprints, VerifiedOn
<1>3. /\ committed.verifiedOn \in Seq(Record) /\ file.verifiedOn \in Seq(Record)
      /\ Len(committed.verifiedOn) \in Nat /\ Len(file.verifiedOn) \in Nat
  BY <1>1 DEF Contents
<1>4. Contract!IsStrictPrefix(committed.verifiedOn, file.verifiedOn)
  <2>1. Contract!IsPrefix(committed.verifiedOn, file.verifiedOn)
    BY <1>1, <1>3, PrefixPointwise DEF Extends
  <2>2. committed.verifiedOn # file.verifiedOn
    BY <1>1, <1>3 DEF Extends
  <2> QED BY <2>1, <2>2 DEF Contract!IsStrictPrefix
<1>5. ASSUME NEW i \in DOMAIN file.verifiedOn
      PROVE  /\ file.verifiedOn[i] \in Record
             /\ file.fingerprints[PlatformOf[file.verifiedOn[i].host]] # NoDigest
  <2>1. file.verifiedOn[i] \in Record
    BY <1>3, <1>5
  <2>2. /\ file.verifiedOn[i].envs \in SUBSET Digest
        /\ file.verifiedOn[i].envs = {file.fingerprints[PlatformOf[file.verifiedOn[i].host]]}
    BY <1>1, <1>5, <2>1 DEF Verified, Record
  <2> QED BY <2>1, <2>2, RegenerateAssumption
<1>6. \A p \in Platform : committed.fingerprints[p] # NoDigest
         => file.fingerprints[p] = committed.fingerprints[p]
  BY <1>1 DEF Extends
<1> QED BY <1>2, <1>4, <1>5, <1>6 DEF Contract!Publish, Fingerprints, VerifiedOn

\* Every other step leaves what is published as it is.
LEMMA ContractStep ==
    ASSUME IInv, [Next]_vars
    PROVE  Contract!Publish \/ UNCHANGED <<Fingerprints, VerifiedOn>>
PROOF
<1>1. UNCHANGED alone
  BY AloneFixed
<1>2. CASE ~alone
  BY <1>1, <1>2 DEF Fingerprints, VerifiedOn, Blank
<1>3. CASE alone /\ GitCommit
  BY <1>1, <1>3, CommitPublishes
<1>4. CASE UNCHANGED committed
  BY <1>1, <1>4 DEF Fingerprints, VerifiedOn, Blank
<1>5. GitCommit \/ UNCHANGED committed
  <2>1. ASSUME NEW r \in Run, Step(r) PROVE UNCHANGED committed
    BY <2>1 DEF Step, Start, ResolveFat, Fingerprint, BuildThin, AllBuilt, Test, TimesOut,
                AllTested, RemoveThin, OpenFile, WriteFile,
                InterruptWork, InterruptCleanup, InterruptElsewhere, Kill
  <2>2. ASSUME NEW h \in Host, Prune(h) \/ \E c \in Commit : OrphanEnds(h, c)
        PROVE  UNCHANGED committed
    BY <2>2 DEF Prune, OrphanEnds
  <2>3. GitRestore \/ UNCHANGED vars => UNCHANGED committed
    BY DEF GitRestore, vars
  <2> QED BY <2>1, <2>2, <2>3 DEF Next
<1> QED BY <1>2, <1>3, <1>4, <1>5

\* One run at a time, what git has of an entry keeps its contract: no fingerprint changes,
\* no verification goes (pipelines/cargo/README.md:166-178).
THEOREM KeepsTheContract == Spec => ImplementsContract
PROOF
<1>1. Init => Contract!Init
  BY ContractInit
<1>2. IInv /\ [Next]_vars => [Contract!Publish]_<<Fingerprints, VerifiedOn>>
  BY ContractStep
<1> QED BY <1>1, <1>2, Invariance, PTL
        DEF Spec, ImplementsContract, Contract!Spec, Fingerprints, VerifiedOn
=============================================================================
