------------------------------ MODULE Regenerate ------------------------------
(***************************************************************************)
(* pipelines/cargo/cargo_regenerate.py: runs on several hosts verify one   *)
(* entry, each in the fat image of its host, and write what they found     *)
(* back into the entry's file, which git hands from host to host.          *)
(***************************************************************************)
EXTENDS Naturals, Sequences

CONSTANTS
    Run,          \* processes of cargo_regenerate
    Host,
    HostOf,       \* [Run -> Host]
    Platform,
    PlatformOf,   \* [Host -> Platform], the container platform of the host's images
    Digest,       \* digests of /manifest/*: the environments a fat image can have
    Category,     \* categories of the entry
    KeepThin,     \* values of --keep-thin-images
    Alone,        \* values of alone
    NoDigest,
    MaxStarts,    \* bound: runs started
    MaxKills      \* bound: runs killed

ASSUME RegenerateAssumption ==
    /\ HostOf \in [Run -> Host]
    /\ PlatformOf \in [Host -> Platform]
    /\ NoDigest \notin Digest
    /\ Category \subseteq {"breaking", "non-breaking", "fix-after-update"}
    /\ KeepThin \subseteq BOOLEAN /\ Alone \subseteq BOOLEAN
    /\ MaxStarts \in Nat /\ MaxKills \in Nat

VARIABLES
    category,   \* entry["category"]
    alone,      \* is one run, or other use of the store, at a time all there is?
    file,       \* the entry's file in the working tree
    torn,       \* is it opened for writing, or left so?
    committed,  \* the entry's file in git
    fat,        \* the fat image of the entry in the store of each host
    thin,       \* its thin images there, by commit
    orphan,     \* commits whose test container runs with no run waiting for it
    kept,       \* hosts where a run kept its thin images, or could not remove them all
    proc,       \* what each run has and where it is
    starts, kills

vars == <<category, alone, file, torn, committed, fat, thin, orphan, kept, proc,
          starts, kills>>
store == <<fat, thin, orphan, kept>>
bounds == <<starts, kills>>

Commit == {"pre", "post", "fix"}
MaybeDigest == Digest \cup {NoDigest}
\* A record names its host, and the host's platform, not that of the container.  Its
\* outcomeMatch is None when the tests are skipped.  The last two fields are history: the
\* environments tested, and whether every exit status was the status of a test.
Outcome == {"none", "match", "mismatch"}
Record == [host : Host, outcome : Outcome, envs : SUBSET Digest, genuine : BOOLEAN]
Contents == [fingerprints : [Platform -> MaybeDigest], verifiedOn : Seq(Record)]
Blank == [fingerprints |-> [p \in Platform |-> NoDigest], verifiedOn |-> <<>>]

\* What the assembly leaves (cargo_assemble_entry.py:214-222): the environment of the host
\* it ran on, and no verification.
Assembled(h, d) == [Blank EXCEPT !.fingerprints[PlatformOf[h]] = d]

PC == {"idle", "fat", "fingerprint", "build", "test", "remove", "open", "write"}
\* A test passes, fails, or is not run at all: docker's own exit status is not 0 either.
Result == {"pass", "fail", "norun"}
Proc == [pc : PC, entry : Contents, built : Nat, results : Seq(Result),
         envs : SUBSET Digest, aborted : BOOLEAN]
Idle == [pc |-> "idle", entry |-> Blank, built |-> 0, results |-> <<>>,
         envs |-> {}, aborted |-> FALSE]

H(r) == HostOf[r]
P(r) == PlatformOf[H(r)]
At(r, pc) == proc[r].pc = pc
Quiet(h) == \A r \in Run : HostOf[r] = h => At(r, "idle")
AllQuiet == \A r \in Run : At(r, "idle")
\* Thin images in the order they are built and tested; a fix commit where there is one.
Commits == IF category = "fix-after-update" THEN <<"pre", "post", "fix">>
                                            ELSE <<"pre", "post">>
From(n) == {Commits[i] : i \in {k \in DOMAIN Commits : k > n}}
Tagged == From(0)

Init ==
    /\ category \in Category
    /\ alone \in Alone
    /\ \E h \in Host, d \in Digest : file = Assembled(h, d)
    /\ committed = file
    /\ torn = FALSE
    /\ fat = [h \in Host |-> NoDigest]
    /\ thin = [h \in Host |-> [c \in Commit |-> NoDigest]]
    /\ orphan = [h \in Host |-> {}]
    /\ kept = {}
    /\ proc = [r \in Run |-> Idle]
    /\ starts = 0 /\ kills = 0

Goto(r, pc) == proc' = [proc EXCEPT ![r].pc = pc]
Exit(r) == proc' = [proc EXCEPT ![r] = Idle]

----------------------------------------------------------------------------
(* One run.                                                                *)

\* The file is read once, at the start.  A torn one raises.  git takes the file from one
\* host to the next, so that runs that overlap are on one host.
Start(r) ==
    /\ At(r, "idle") /\ starts < MaxStarts
    /\ IF alone THEN AllQuiet ELSE \A q \in Run : H(q) # H(r) => At(q, "idle")
    /\ ~torn
    /\ proc' = [proc EXCEPT ![r] = [pc |-> "fat", entry |-> file, built |-> 0, results |-> <<>>,
                                    envs |-> {}, aborted |-> FALSE]]
    /\ starts' = starts + 1
    /\ UNCHANGED <<category, alone, file, torn, committed, store, kills>>

\* The fat image is there; or it is built, as whatever the sources give by now, when
\* --build-missing-bases says so; or this is exit 3.
ResolveFat(r) ==
    /\ At(r, "fat")
    /\ \/ fat[H(r)] # NoDigest /\ Goto(r, "fingerprint") /\ UNCHANGED fat
       \/ /\ fat[H(r)] = NoDigest
          /\ \E d \in Digest : fat' = [fat EXCEPT ![H(r)] = d]
          /\ Goto(r, "fingerprint")
       \/ fat[H(r)] = NoDigest /\ Exit(r) /\ UNCHANGED fat
    /\ UNCHANGED <<category, alone, file, torn, committed, thin, orphan, kept, bounds>>

Expected(r) == proc[r].entry.fingerprints[P(r)]

\* Mutant: the digest is printed, not compared.
AcceptsAny(r) == TRUE

Accepts(r) == Expected(r) \in {NoDigest, fat[H(r)]}

\* The manifest is copied out of the image (which raises when the image has gone) and
\* compared; the first run on a platform records it; another environment is exit 1.
Fingerprint(r) ==
    /\ At(r, "fingerprint")
    /\ IF fat[H(r)] # NoDigest /\ Accepts(r)
       THEN proc' = [proc EXCEPT ![r].pc = "build",
                                 ![r].entry.fingerprints[P(r)] = fat[H(r)]]
       ELSE Exit(r)
    /\ UNCHANGED <<category, alone, file, torn, committed, store, bounds>>

\* Mutant: a build that failed is printed and passed over.
GoesOn(r) ==
    /\ proc' = [proc EXCEPT ![r].built = @ + 1]
    /\ UNCHANGED thin

\* A build failed, the network being away or the fat image gone: the rest is left (exit 2).
GivesUp(r) ==
    /\ proc' = [proc EXCEPT ![r].pc = "remove", ![r].aborted = TRUE]
    /\ UNCHANGED thin

\* build_thin_image for the next commit, FROM the tag of the fat image.
BuildThin(r) ==
    /\ At(r, "build") /\ proc[r].built < Len(Commits)
    /\ \/ /\ fat[H(r)] # NoDigest
          /\ thin' = [thin EXCEPT ![H(r)][Commits[proc[r].built + 1]] = fat[H(r)]]
          /\ proc' = [proc EXCEPT ![r].built = @ + 1,
                                  ![r].envs = @ \cup {fat[H(r)]}]
       \/ GivesUp(r)
    /\ UNCHANGED <<category, alone, file, torn, committed, fat, orphan, kept, bounds>>

\* All built: the tests follow, or --skip-tests.
AllBuilt(r) ==
    /\ At(r, "build") /\ proc[r].built = Len(Commits)
    /\ Goto(r, "test") \/ Goto(r, "remove")
    /\ UNCHANGED <<category, alone, file, torn, committed, store, bounds>>

Tested(r) == Len(proc[r].results)
UnderTest(r) == Commits[Tested(r) + 1]

\* Is a test of r running now?
Testing(r) ==
    /\ At(r, "test") /\ Tested(r) < Len(Commits)
    /\ thin[H(r)][UnderTest(r)] # NoDigest

Left(r) == [orphan EXCEPT ![H(r)] = @ \cup {UnderTest(r)}]

\* run_tests on the next image: the status of the test, or docker's own when another run
\* has removed the image.
Test(r) ==
    /\ At(r, "test") /\ Tested(r) < Len(Commits)
    /\ \E v \in IF thin[H(r)][UnderTest(r)] = NoDigest THEN {"norun"} ELSE {"pass", "fail"} :
          proc' = [proc EXCEPT ![r].results = Append(@, v)]
    /\ UNCHANGED <<category, alone, file, torn, committed, store, bounds>>

\* TimeoutExpired leaves run_tests: docker's client is killed, the container it started,
\* without a name, is not.
TimesOut(r) ==
    /\ Testing(r)
    /\ orphan' = Left(r)
    /\ proc' = [proc EXCEPT ![r].pc = "remove", ![r].aborted = TRUE]
    /\ UNCHANGED <<category, alone, file, torn, committed, fat, thin, kept, bounds>>

OrphanEnds(h, c) ==
    /\ c \in orphan[h]
    /\ orphan' = [orphan EXCEPT ![h] = @ \ {c}]
    /\ UNCHANGED <<category, alone, file, torn, committed, fat, thin, kept, proc, bounds>>

AllTested(r) ==
    /\ At(r, "test") /\ Tested(r) = Len(Commits)
    /\ Goto(r, "remove")
    /\ UNCHANGED <<category, alone, file, torn, committed, store, bounds>>

\* Mutant: the images are removed behind the tests only.
RemoveWhenTested(h, r, left) == [c \in Commit |-> IF proc[r].aborted \/ c \in left THEN thin[h][c]
                                             ELSE NoDigest]

\* docker image rm -f takes the tags away, one by one, of a running container's image too;
\* those the loop does not come to are left.
RemoveThins(h, r, left) == [c \in Commit |-> IF c \in Tagged \ left THEN NoDigest ELSE thin[h][c]]

CleansUp(r, left) ==
    /\ thin' = [thin EXCEPT ![H(r)] = RemoveThins(H(r), r, left)]
    /\ kept' = IF left = {} THEN kept ELSE kept \cup {H(r)}

\* The finally clause: on every way out the thin tags go, unless they are to be kept; docker
\* going away on the way is passed over.
RemoveThin(r) ==
    /\ At(r, "remove")
    /\ \E keep \in KeepThin :
          IF keep THEN CleansUp(r, Tagged) ELSE \E n \in 0..Len(Commits) : CleansUp(r, From(n))
    /\ IF proc[r].aborted THEN Exit(r) ELSE Goto(r, "open")
    /\ UNCHANGED <<category, alone, file, torn, committed, fat, orphan, bounds>>

Passes(r, i) == proc[r].results[i] = "pass"

\* Do the results show what the category says?
Reproduced(r) ==
    /\ Passes(r, 1)
    /\ Passes(r, 2) <=> category = "non-breaking"
    /\ category = "fix-after-update" => Passes(r, 3)

OutcomeMatch(r) ==
    IF Tested(r) = 0 THEN "none" ELSE IF Reproduced(r) THEN "match" ELSE "mismatch"

\* Mutant: the record has the platform of the container.
ContainerRecord(r) ==
    [host |-> P(r), outcome |-> OutcomeMatch(r), envs |-> proc[r].envs, genuine |-> TRUE]

NewRecord(r) ==
    [host |-> H(r),
     outcome |-> OutcomeMatch(r),
     envs |-> proc[r].envs,
     genuine |-> \A i \in DOMAIN proc[r].results : proc[r].results[i] # "norun"]

\* Mutant: the new verification replaces the others.
OnlyLast(verifiedOn, record) == <<record>>

append_verified_on(verifiedOn, record) == Append(verifiedOn, record)

\* The record is appended in memory, and the file truncated.
OpenFile(r) ==
    /\ At(r, "open")
    /\ proc' = [proc EXCEPT ![r].pc = "write",
                            ![r].entry.verifiedOn = append_verified_on(@, NewRecord(r))]
    /\ torn' = TRUE
    /\ UNCHANGED <<category, alone, file, committed, store, bounds>>

\* Exit 0, or 4: a mismatch is recorded like a match.
WriteFile(r) ==
    /\ At(r, "write")
    /\ file' = proc[r].entry /\ torn' = FALSE
    /\ Exit(r)
    /\ UNCHANGED <<category, alone, committed, store, bounds>>

----------------------------------------------------------------------------
(* Around the runs.                                                        *)

\* Control-C inside the try: the finally clause runs.  The container need not heed it.
InterruptWork(r) ==
    /\ At(r, "build") \/ At(r, "test")
    /\ proc' = [proc EXCEPT ![r].pc = "remove", ![r].aborted = TRUE]
    /\ UNCHANGED orphan \/ (Testing(r) /\ orphan' = Left(r))
    /\ UNCHANGED <<category, alone, file, torn, committed, fat, thin, kept, bounds>>

\* Control-C inside the finally clause, which nothing guards: the remaining tags stay.
InterruptCleanup(r) ==
    /\ At(r, "remove")
    /\ \E n \in DOMAIN Commits : CleansUp(r, From(n - 1))
    /\ Exit(r)
    /\ UNCHANGED <<category, alone, file, torn, committed, fat, orphan, bounds>>

\* Control-C before the try or behind it: the run ends, the file as it stands.
InterruptElsewhere(r) ==
    /\ proc[r].pc \in {"fat", "fingerprint", "open", "write"}
    /\ Exit(r)
    /\ UNCHANGED <<category, alone, file, torn, committed, store, bounds>>

\* A run is killed: no finally clause, the file as it stands, the container still running.
Kill(r) ==
    /\ ~At(r, "idle") /\ kills < MaxKills
    /\ kills' = kills + 1
    /\ kept' = IF proc[r].pc \in {"build", "test", "remove"} THEN kept \cup {H(r)} ELSE kept
    /\ orphan' = IF Testing(r) THEN Left(r) ELSE orphan
    /\ Exit(r)
    /\ UNCHANGED <<category, alone, file, torn, committed, fat, thin, starts>>

\* The operator commits the file as it is written by now.
GitCommit ==
    /\ ~torn /\ committed # file
    /\ committed' = file
    /\ UNCHANGED <<category, alone, file, torn, store, proc, bounds>>

\* A file that does not parse is taken back from git.
GitRestore ==
    /\ torn /\ AllQuiet
    /\ file' = committed /\ torn' = FALSE
    /\ UNCHANGED <<category, alone, committed, store, proc, bounds>>

\* The host's images are pruned.
Prune(h) ==
    /\ alone => AllQuiet
    /\ fat[h] # NoDigest
    /\ fat' = [fat EXCEPT ![h] = NoDigest]
    /\ UNCHANGED <<category, alone, file, torn, committed, thin, orphan, kept, proc, bounds>>

Step(r) ==
    \/ Start(r)
    \/ ResolveFat(r)
    \/ Fingerprint(r)
    \/ BuildThin(r)
    \/ AllBuilt(r)
    \/ Test(r)
    \/ TimesOut(r)
    \/ AllTested(r)
    \/ RemoveThin(r)
    \/ OpenFile(r)
    \/ WriteFile(r)
    \/ InterruptWork(r)
    \/ InterruptCleanup(r)
    \/ InterruptElsewhere(r)
    \/ Kill(r)

Next ==
    \/ \E r \in Run : Step(r)
    \/ \E h \in Host : Prune(h) \/ \E c \in Commit : OrphanEnds(h, c)
    \/ GitCommit
    \/ GitRestore

Spec == Init /\ [][Next]_vars

----------------------------------------------------------------------------
(* What should hold.                                                       *)

\* The variables have their types.
TypeOK ==
    /\ category \in Category /\ alone \in Alone
    /\ file \in Contents /\ committed \in Contents
    /\ torn \in BOOLEAN
    /\ fat \in [Host -> MaybeDigest]
    /\ thin \in [Host -> [Commit -> MaybeDigest]]
    /\ orphan \in [Host -> SUBSET Commit]
    /\ kept \in SUBSET Host
    /\ proc \in [Run -> Proc]
    /\ starts \in 0..MaxStarts /\ kills \in 0..MaxKills

\* Every verification in the file was made in the environment the file records for its
\* platform: the image is looked at once, and three images are built FROM its tag later.
RanInRecordedEnvironment ==
    alone => \A i \in DOMAIN file.verifiedOn :
                LET v == file.verifiedOn[i]
                IN  v.envs = {file.fingerprints[PlatformOf[v.host]]}

\* "The outcome matches" is about tests that ran: an image that is not there fails like a
\* test, so that a breaking update seems to break.
MatchIsGenuine ==
    alone => \A i \in DOMAIN file.verifiedOn :
                file.verifiedOn[i].outcome = "match" => file.verifiedOn[i].genuine

\* When no run is left on a host, no thin image has a tag there, whatever way the runs took
\* out and also when they overlap: unless one was told to keep them or killed, or its cleanup
\* itself was interrupted or failed.
ThinsRemoved ==
    \A h \in Host : Quiet(h) /\ h \notin kept => \A c \in Commit : thin[h][c] = NoDigest

Contract == INSTANCE EntryContract WITH
    fingerprints <- IF alone THEN committed.fingerprints ELSE Blank.fingerprints,
    verifiedOn <- IF alone THEN committed.verifiedOn ELSE Blank.verifiedOn

\* While runs are one at a time, what git has of the entry keeps the entry's contract, torn
\* files, kills and restores between commits included.
ImplementsContract == Contract!Spec
=============================================================================
