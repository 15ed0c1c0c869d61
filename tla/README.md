# dep-updates-rp in TLA+

Specifications of the Cargo reproduction pipeline in `src/`: candidates (dependency-update
pull requests) go in, each is built before and after its update in containers, and entry
files, a database and a state file come out. TLC checks the modules on small instances;
TLAPS proves what is said below for every value of the constants.

## The system

Paths are under `src/pipelines/cargo/` unless they say otherwise.

| component | state | operations | talks to |
|---|---|---|---|
| Batch driver, `cargo_drive.py` | `drive-state.jsonl`, the queue, `shutdown_event`, `state_lock`, `db_lock` | start and resume, hand-out, `process`, append and mirror, signal handler | every other part, by calls; workers share the locks and the event |
| Reproducer, `cargo_reproducer.py` | `_active_containers` behind a lock, containers of the docker daemon | `_run_in_docker`, `reproduce`, `kill_active_containers` | driver threads, the signal handler, docker |
| Entry assembly, `cargo_assemble_entry.py`, `lib/bump_ext/writer.py` | entry files `cargo-<8 digits>.json` | `build_entry`, `EntryWriter.write` | driver; regenerate reads the files |
| Regeneration, `cargo_regenerate.py` | the same entry files, thin images, test containers | `regenerate` | driver, docker, git between hosts |
| Fat-image selection, `fat_image.py`, `cargo_toolchain.py`, `cargo_plan_fat_images.py` | a 24-hour cache of Docker Hub's dates | `bucket_for`, `canonical_sde_for`, `bucketize`, `plan` | planner and driver, independently; Docker Hub |
| Fat-image index and build, `fat_image.py`, `docker/cargo-fat/` | `index.json`, the docker image store | `build_fat_image`, `introspect_fat_image`, `register` | drivers, the commands `build` and `register` |
| Pipeline database, `lib/bump_ext/db.py`, `scripts/rebuild_index.py`, `scripts/verify_index.py` | SQLite tables | upserts, attempts, classifications, rebuild, verify | driver, scripts |
| Classifier, `cargo_classifier.py` | none; reads the post log | `classify` | driver |
| Reclassification, `scripts/reclassify_failures.py` | `drive_state_classifications` | `classify`, one row per candidate | logs and rows the driver left |
| Advisory crossings, schema migration, mining, survey, schema, deployment | see PROJECT.json | | |

What is hard here, and what makes each part correct:

- **Driver.** Workers interleave with each other, with a signal and with a crash at every
  step; containers fail for reasons of their own; a run is resumed over what earlier ones left. One
  record per line of the candidates file, none from a killed container, `ok` only for an entry of the
  category that this very run saw, an entry replaced only on demand, the database never ahead of the
  file, every candidate settled, every shutdown completed.
- **Reproducer.** A timeout kills the client and not the container; the handler copies the
  registry under a lock that workers take too. No container left behind, an exact registry,
  no wait without end.
- **Entry files.** Written in place: a crash leaves torn files that later runs meet.
- **Regeneration.** The environment is compared once and used by image tag for an hour; runs share
  tags of thin images; a timed-out test goes on running; git carries the file from host to host.
  Each verification was made in the recorded environment, a match comes from tests that ran, no
  5 GB image is left, and what was published of an entry is never taken back.
- **Classifiers.** cargo's messages come in any order and in a mixture; the first rule that finds
  its mark decides. The verdict names something that went wrong, and a killed build is a timeout.
- **Selection.** Two programs compute the same tag by two ways and ask a service that may not
  answer. A compiler new enough, the right Debian, a snapshot not before the commit, the
  planned image asked for.
- **Index and database.** Read-modify-write files, rows that follow files which change
  underneath.

The hazards are listed line by line in PROJECT.json with the properties that cover them.

## Modules

| module | what it is |
|---|---|
| `BatchLedger` | abstract: a candidate is held by one worker, gets its verdict from that worker, keeps it, and is taken again only after its line is deleted |
| `Drive` | the driver with files, database, images, index, workers, signal and crash; `ImplementsBatch` is its refinement of `BatchLedger` |
| `Containers` | registry, lock, docker run with timeout, kill, handler, one step each |
| `EntryContract` | abstract: what a published entry promises about reproducing it |
| `Regenerate` | `regenerate` on several hosts over one entry; `ImplementsContract` is its refinement of `EntryContract` |
| `FatImageSelection` | tables and functions of the selection, the cache, planner and driver as its users |
| `FatIndex` | `index.json` and the image store under drivers and commands |
| `PipelineIndex` | the database's entry tables against the entry files: drivers, regenerate, git, rebuild, verify |
| `Classification` | the two classifiers over logs that a model of cargo writes |
| `MC...` | instances of the modules of those names |
| `...Proofs` | theorems: `DriveProofs` and `DriveEntryProofs` (of `Drive`), `ContainersProofs`, `RegenerateProofs`, `FatImageSelectionProofs`, `FatIndexProofs`, `PipelineIndexProofs`, `ClassificationProofs` |

`Drive` has the steps of `reproduce`, `regenerate`, the image build and the database write as far as
the driver's interleavings with them matter; `Containers`, `Regenerate`, `FatIndex` and
`PipelineIndex` have each of those alone, with the detail and the other actors that `Drive` leaves out.

### Drive

`Candidate` are the lines of the candidates file and `KeyOf` their keys (`<repo>#<pr>`): nothing, here or
in the scripts that write the file, keeps a key from having two lines. A resumed run looks keys up, one
run does not look at what it has itself recorded, so two lines with a new key are both driven.

State: `ledger` is the state file, a sequence of lines; `disk` maps entry ids to absent, torn
or whole files; `row` says whether an entry's row has the hash of the file; `mirrored` is the
table `drive_state` of one run id (runs given the same `--run-id`, or a single run);
`images` and `fatIndex` are the docker store and `index.json`; `job[w]` is where worker `w` is
inside `_worker` and `process`, with its locals; `signal` is the event (`raised`), the end
of the handler's kills (`handled`), or a handler that waits for its own thread (`stuck`); `todo` is
what was submitted and not started. Three fields are history: `from` of an entry is the post result it
was assembled from; `cut` and `shown` of a job and a line are whether the handler killed one of its
containers and which category its builds or tests showed.

One action per step between which another actor can come. `Start` is `main` up to dispatch:
the filter by the state file, preflight, and the command line out of `Options`, which also fixes
what the bucketer answers in that run (the tag of each candidate, which may change between runs
as `--max-sde-date` and Docker Hub do). `Take` is the entry of `_worker`. `MetadataFails` to
`EntryMatches` are the metadata step and `_regenerate_or_flag_stale`; `CommitTooLate` to
`IntrospectFails` the date bound and the fat image; `StartContainer`, `PreExits`, `PostExits`,
`FixExits` are `reproduce` with its pre, post and (where there is a fix commit) fix container. A
container may always fail (`Exits`): the inner script installs packages and clones over the network,
runs under `--memory=8g` and a timeout, and docker itself exits 125; without the image it can only
fail. Nothing in the driver tells these apart. `Unreproducible` to `MirrorEntry` are category, assembly,
the two steps of the file write, the database; `RegenFails` to `RegenWrites` is `regenerate` as the driver calls it;
`Accept`, `Interrupted`, `AppendState`, `MirrorState` the second look at the event and the line
under `state_lock`. `Signal` and `KillContainers` are the handler, which in a serial run holds
the main thread (`MainThreadBusy`); `HandlerSticks` is the handler of a serial run that waits for the
registry's lock which the thread it interrupted holds, after which nothing but a kill moves the run
(`Containers` has the lock itself). `Raises` is an exception `process` does not catch. `Crash`
and the operator's `DeleteLine` are the environment.

Candidates in `Slow` are those whose tests may reach the timeout of `regenerate`, which raises; in
`Poison`, those on which another call may raise.

Abstracted: an entry is its tag and category; logs, hosts, fingerprints, the classifier's
result and `--limit` are left out. The queue is a set, so candidates are taken in any order, not
only in the file's. `append_state` is one step. One driver uses the image index here; several do in
`FatIndex`. Kills are in one step: any subset of the running
containers, because a kill is best effort and one may end first. `Containers` has those in detail.

### Containers

`pc[w]` goes through `_run_in_docker` once per build: `enter` (before the lock), `registering`
(inside), `launching` (registered, docker run not yet at the daemon), `waiting`, `killing` (after
the timeout), `leave`, `unregistering`. `lock` has an owner, `registry` is `_active_containers`,
`handler` and `targets` are `kill_active_containers`. `container` is what the daemon knows. Names are
never reused, as uuid4 promises for practical purposes; `Stubborn` names are those whose `docker kill`
fails or times out, which the code swallows. With `Serial` the worker is the main thread and
stands still while the handler runs, wherever it is.

### Regenerate

`file` and `committed` are the entry's file in the working tree and in git, `torn` says whether it is
truncated; contents are the fingerprints by platform and the list `verifiedOn`. `fat[h]` and `thin[h]`
are the images in a host's docker store, by the digest of their `/manifest/*` (`NoDigest` where there is
none); `orphan[h]` are thin images whose test container still runs after its run stopped waiting.
A run is `Start`, `ResolveFat`, `Fingerprint` (the comparison, or a first record for a new platform),
`BuildThin` per commit, `Test` per commit or `TimesOut`, `AllTested`, `RemoveThin` (the finally clause),
`OpenFile`, `WriteFile`. Control-C comes anywhere: `InterruptWork` inside the `try`, behind which the
finally clause runs; `InterruptCleanup` inside the finally clause, where `_remove_thin_images` stops
and the tags it did not come to stay; `InterruptElsewhere` before or behind. `Kill` is a death no clause
survives. `GitCommit`, `GitRestore`, `Prune` and `OrphanEnds` are the environment. `kept` remembers hosts
where thin images were kept on purpose, left by a kill, or left by a cleanup that was interrupted or
lost docker on the way. `envs` and `genuine` in a record are history:
where the tests ran, and whether every exit status came from a test.

`alone` says whether runs come one at a time. The code does not prevent overlap; runs that overlap on
one host share file, store and tags, and properties that need `alone` name it. `ThinsRemoved` does not.
`EntryContract` is seen through `committed` while `alone`: fingerprints are added and never changed,
`verifiedOn` grows. Left out: exits before the fat image, which change nothing, and the text of records.

### FatIndex

`index` are the tags of `index.json`, `torn` and `committed` as above, `store` the images, `relied` the
tags a command reported registered or a driver built on. `Begin` starts a driver's need of a tag,
`fat_image build` with or without `--no-register`, or `fat_image register`. `Lookup` is the driver's look
at the registry; `Build` and `Introspect` come long before `Load`, in which `register` reads the list
and appends; `Reread`, `Open`, `Write` are `save_index`. `Fails` is every early end, `Kill` any other.
`register_fingerprint`, which nothing calls, is left out, and the Dockerfile.
`crossed` is history: whether a command has read the registry while another was between its look and its
write (`Saving`). That is the only way to lose a record, and what is said of lost records excludes it
and nothing else; `alone`, that commands come one at a time, is needed only for `GivenUpIsUnlisted`.

### FatImageSelection

The tables are the code's. `BucketFor` is `bucket_for` with `RoundUp`, `LatestBefore` and `Reroute`;
`SdeDate` is `canonical_sde_for`; `PlannerBucket` and `DriverBucket` are the two users, the driver
with its floor for undeclared versions. What a candidate declares is either in the candidates file
(`listed`) or read from GitHub, by the driver always, by the planner only with `--resolve-missing`; a
read may fail, so each of them knows the version or does not (`Knows`, remembered in `knew`). Versions
are numbers (1.56.1 is 5601), dates are yyyymmdd. `hub` is what Docker Hub answers, `cache` the file in
between; both may change. `current` says which of the two tags were made from an answer that the cache
still holds.

### PipelineIndex

`file` has the entry files with a version each, which stands for the hash; `row`, `source`, `cls` and
`attempts` are the tables `entries` (hash, category, MSRV, commit date), `ingestion_sources`,
`classifications` and `reproduction_attempts`. A process is a driver (one compound write at a time, by
`db_lock`) or the rebuild; `proc` says at which statement it is and what it has read. Each statement is
an action because connections commit statement by statement: `ReadsEntry`, `HashesEntry` and
`UpsertsEntry` are `upsert_entry_from_json`, which reads the JSON, then the bytes again for the hash,
then inserts; where the new file has no MSRV the row keeps the old one (`Coalesce`); `Patches` (the
UPDATEs of `patch_entry_metadata` in one step),
`SetsSource`, `Records`, `SeedLooks`, `Seeds` the rest of a driver's write; `RebuildStarts` to
`RebuildEnds` are `_rebuild_entries`, with `todo` the files it has listed. `Flip` is
`flip_classification`, one transaction; no script of the repository calls it yet. `Clean` is what
`verify_index` compares. `alone` says whether the operator keeps the rebuild away from running
drivers: `db.py` assumes a single writer, and the guide runs several drivers, so both are checked,
and the properties that need it say so. `beside` says whether a driver was at work since the rebuild
began: `CompleteAfterRebuild` needs no more than that it was not, whatever overlapped before.
`Sourceless` are entries whose candidates name no source.
`made` is what the driver holds of the entry it wrote, and an attempt is known by that writing (its run
and its time): the table stores no version of the file. Abstracted: file paths (they are functions of
the id), hosts; the MSRV stands for the columns an older file may lack, the category for the others;
fat-image tables and the GitHub cache. Left out: a stand-alone `regenerate` of an entry whose driver is
at work on it, and changes by git beside running processes.

### Classification

`log` is a sequence of marks, one for each kind of line that a rule of either classifier looks for; which
text makes which mark is abstracted. `ResolveFails` to `TimesOut` are `cargo test` writing it: crates are
built side by side, so messages of build scripts, warnings and errors come in any order. `causes` is
history: what really went wrong. A clone that fails and a cargo that does not know the message format
(`NotStarted`) end a build before it begins; a compiler may be killed for memory (`oom`).
`PrePasses`, `PreFails`, `PostEnds` are the driver, with `classify_post` for the entry; `Reclassify`
writes a row from the pre log with `PreRules`, all of them, `Errors` being the lines its search for the
last error stops at. `TopOf` and `RowsOf` say what `schema/failure-taxonomy.md` calls each cause; where
the code means something else the property says so by itself (`TimeoutOutranks`).

## Runs

| run | checks | shows |
|---|---|---|
| `drive_safety` | `TypeOK OneVerdictPerKey NoVerdictFromKilled OkIsWitnessed EntriesSurvive MirrorFollowsLedger ImplementsBatch` | 1,378,787 states: two candidates (one with a fix commit on which calls raise, one slow and undated now and then), two workers, two runs out of five command lines, containers that fail as they like, a crash, signals, a deleted line |
| `drive_liveness` | `EveryCandidateSettles ShutdownDrains RunsEndComplete` | 175,423 states: pool and serial, three lines of the candidates file on two keys, one line that raises |
| `containers_pool` | `TypeOK RegistryTracks NoOrphans ShutdownEnds` | 85,172 states: two workers, two candidates of two builds, one container that cannot be killed |
| `selection` | `TypeOK RightCompiler RefusedForAReason RightEra SnapshotAfterCommit PlanOutlivesHub` | 670,010 states: every milestone with its neighbours, every cutover with the day before, year ends, versions listed, read or not read, two changes at Docker Hub or of the cache |
| `index` | `TypeOK OneCurrent CleanMeansFresh CompleteAfterRebuild AttemptsStand DriverFactsKept` | 3,695,923 states: two entries, with an MSRV and without, a driver and a rebuild, with overlap and without, two writes of files by driver, regenerate or git, one flip, crashes anywhere |
| `regenerate` | `TypeOK RanInRecordedEnvironment MatchIsGenuine ThinsRemoved ImplementsContract` | 1,617,371 states: two runs on one host and one on another platform, two environments, three categories, with overlap and without, interrupts, timeouts, a kill, pruning and git anywhere |
| `fat_index` | `TypeOK NoDuplicateTag AppendOnlyUncrossed GivenUpIsUnlisted CommittedGrows` | 169,672 states: two processes of all four operations, two tags, five operations, a kill, with overlap and without |
| `classification` | `TypeOK QuietVerdictFits TimeoutOutranks RowFits` | 281,282 states: every log of up to four marks, for both classifiers |

Bounds. Two candidates and two workers are the least with contention for the queue, the locks and the
state file, and no action relates three of either; the third line of `drive_liveness` shares its key
with the second. Workers are symmetric (`SYMMETRY SameWorkers`): either may be the one of a serial run. Two runs let every kind of leftover (torn, wrong,
whole entry; missing row; line) meet a resumed run; one crash is enough to leave each of them, and a
second would meet the same kinds. In `Containers` two builds each give the window between two builds,
four names are as many as are used. In the selection every comparison of the code has values on both
sides. In the index two writes give an entry an old and a new version, and the second entry is what a
rebuild that is stopped on the way has not reached; drivers with disjoint candidates touch different
rows, so a second one adds nothing. In `Regenerate` two runs started are the least that overlap, or that
verify after one another on either platform; runs on one host and digests are symmetric. In `FatIndex`
five operations let each process lose, find and restore what the other wrote; processes and tags are
symmetric. In `Classification` a verdict is decided by the first mark of a rule and by at most two
others (a script's, the last error), so four marks have every pair of rules in both orders.

`CHECK_DEADLOCK FALSE` is in the runs of systems that may stop: no run of the driver has to be
started, the driver and the planner end, regenerations are bounded, and a log ends. `index` and `fat_index`
have the check: a rebuild can always start, and images come and go.

Fairness. Weak fairness of each worker, of the handler and of the end of the run: threads are
scheduled, every `docker run` of a build is bounded by `--timeout`, every kill by its own. Operators,
signals, crashes and Docker Hub are not fair. Locks need no strong fairness because each owner leaves
after finitely many steps and the candidates are finite. `EveryCandidateSettles` is claimed for pools
and for candidates whose `process()` does not raise, since an exception ends a serial run by design.
`RunsEndComplete` is the safety half, for serial runs too: a run that comes to its end by itself has a line
for each of them. Both claim nothing of a candidate that shares its entry id with another one, whose
half-written file may make it raise. `ShutdownDrains` is claimed of serial runs too, but for the one
state in which the handler waits for its own thread (`stuck`); `containers_serial` shows how that comes
about, with the lock step by step.

### Where the code and its documents part

Each of these runs ends in the violation it is there for; PROJECT.json quotes both sides.

- `drive_interrupted` (`NoEntryFromKilled`): a post build killed by a shutdown counts as failing, the
  breaking entry is written (and indexed), only the line is dropped. The resumed run does not re-try the
  candidate but regenerates that entry; if the update is not breaking it ends in `regenerate_mismatch`,
  and the entry is never corrected.
- `containers_serial`: a signal that interrupts the main thread of a serial run inside the registry's
  lock makes the handler wait for a lock its own thread holds.
- `fat_index_lost`: two registrations that overlap lose a record of the "append-only registry".
- `classification_warnings`: a warning has a code like an error, so a build that compiles with one and
  fails a test is recorded as a compilation failure.

Further facts met while modelling, which no run is for:

- A torn entry file is parked as `entry_bucket_stale`, a terminal status meant for a disagreement of
  tags, and `--reassemble-stale` does not help.
- Under `--skip-preflight` a registered image that is not in the store makes a candidate
  `not_reproducible`, where the guide says `fat_image_missing` (running-a-batch.md:226-228).
- Any failure of the post build alone (the clone, the memory cap, docker's 125, the timeout) makes an
  `ok` breaking entry; `OkIsWitnessed` says that the category is what the run saw, not more.
- A key listed twice in the candidates file is driven twice, in a pool at the same time; neither the
  driver (cargo_drive.py:762-775) nor the scripts that write the file remove duplicates.
- The driver's docstring says that `--parallel` above 1 "logs a warning and serialises anyway"
  (cargo_drive.py:26-27); `main` runs a pool of that many workers (877-879).
- Planner and driver differ for candidates that declare no version: the driver has a floor
  (cargo_drive.py:65-87), the planner none. They differ too where the candidates file does not list the
  version: without `--resolve-missing` the planner never asks, and a read of GitHub that fails silently
  makes the driver take its floor. `PlanOutlivesHub` is about versions both know.
- `schema/failure-taxonomy.md:58-62` lists TEST_TIMEOUT under TEST_FAILURE; the classifier gives it
  ENVIRONMENT_FAILURE (cargo_classifier.py:36-40, 115-123), and its "highest priority" yields to any
  message with a code, a warning's too. `TopOf` follows the document, `TimeoutOutranks` the code.
- A compiler killed for memory becomes RUSTC_BITROT, and failing tests in a log that has any build
  script's message become RUNTIME_CRASH. The rule for OLD_MESSAGE_FORMAT looks for "is not a valid
  value" where cargo_reproducer.py:86-90 quotes "isn't a valid value".
- Where a file has no MSRV its row keeps the one of an older version (db.py:388-389): rows depend on
  history, though rebuild_index.py:1-9 calls the index a pure function of the files.
- "Clean up on every exit path" (cargo_regenerate.py:416-418) does not hold of a control-C that comes
  while the cleanup removes the images.
- A tag said to be "fixed forever" (fat_image.py:338) changes with Docker Hub's answers.
- `verify_index` reports rows whose file is gone and names a rebuild as remedy, which removes no row.
- A test of `regenerate` that times out leaves a container running that pins its thin image: the
  removal then takes the tag and not the 5 GB.
- When only the post build times out the reason says `pre_build_timed_out`, and reclassification makes
  TIMEOUT of it. A build script that panics is TEST_FAILURE in the entry; a panic of any kind is
  RUNTIME_CRASH in the row if the log has a build script's message anywhere.
- A row of `drive_state_classifications` stays when its candidate is driven again and becomes `ok`.
- Under `--regenerate-verify` the entry is indexed before regenerate adds its record, so that each
  row is stale when its candidate ends, until a rebuild.
- A record of `verifiedOn` has the platform of the host, fingerprints are by that of the container.

## Proofs

`DriveProofs`, from `DriveAssumption` (the shapes of the constants; a run that builds images is
serial, which `main` enforces):

- `TypeCorrect`: `TypeOK`. Its inductive form `TypeInv` adds what the steps rely on: a worker past
  `metadata` has a candidate, one past `decide` a category, one that returns a status.
- `OneLinePerCandidate`: `OneVerdictPerKey`. No line of its own can show it: it needs that a line of the
  candidates file is at exactly one place, so `LedgerInv` says that the queue, the workers' candidates and
  the recorded ones are disjoint (`Unsettled`, `OnePlace`), that only the run's workers hold candidates
  (`PoolOfTheRun`), and that no driver means no holder.
- `KilledNeverRecorded`: `NoVerdictFromKilled`. `KilledIsHeld` carries it: a worker with a killed container
  has not passed the second look at the event, and the event stays set while the process lives.
- `DatabaseRepeatsLedger`: `MirrorFollowsLedger`, from `MirrorAfterLine`: a worker at the mirror step has
  its line in the file already, which nobody removes while the driver runs.
- `DriveImplementsBatch`: `ImplementsBatch`, from `LedgerInv`. A candidate's verdict is that of the last
  line about it (`AppendRecords`), its holder the worker whose job has it. An append maps to `Settle`, a
  crash or an interrupted worker to `Abandon`, a deleted line to `Forget`; that the map is well defined is
  `OnePlace`, that a deletion forgets one verdict is `OneVerdictPerKey`.

`ContainersProofs`, from `ContainersAssumption`: `TypeCorrect`, `RegistryExact` (`RegistryTracks`) and
`NoContainerLeftBehind` (`NoOrphans`). The invariant `RegistryInv` says who holds the lock (`LockInv`), that
no two workers share a name (`NameInv`), what the daemon knows of a name at each step (`StageInv`), and
that an ended driver has no worker in the middle (`EndInv`). Of the lock, `WaitsForItself` is the
state of a serial run whose handler waits for the main thread's own lock. `SelfWaitIsForever`: a behaviour
that reaches it violates `ShutdownEnds` whatever the fairness, so `containers_serial` shows no accident of its
instance. `HolderGoesOn`: in every other state the lock's holder can leave, which is the safety core of
`ShutdownEnds` for a pool.

`DriveEntryProofs`, from the same assumption (nothing says that entry ids differ; ids are cut to eight
digits of a commit, and the properties themselves exclude a candidate that shares its own):

- `OkMeansWitnessed` (`OkIsWitnessed`) and `EntriesReplacedOnDemand` (`EntriesSurvive`). An `ok` is written
  long after the entry, so `EntryInv` says for every step of a worker what it holds agrees with the file
  by then and with what its containers showed (`JobHolds`), and that an entry in front of it is
  whole only under `--reassemble-stale` (`EntryKept`). That nobody else touches the file needs `OnePlace`.
- `CompleteRuns`: `RunsEndComplete`. `NobodyLost` says that a candidate on which `process()` does not raise
  is recorded, queued or held while a run lives that no signal has reached. It is not inductive without
  `EntryThere`: a worker in front of `regenerate` has a file to read, so that step raises for nobody else.

`RegenerateProofs`, from `RegenerateAssumption`: `TypeCorrect`, `NoThinLeftBehind` (`ThinsRemoved`),
`VerifiedWhereRecorded` (`RanInRecordedEnvironment`), `MatchesAreGenuine` (`MatchIsGenuine`) and
`KeepsTheContract` (`ImplementsContract`). `FlowInv` says what a run has done by each step; `ThinInv` that a
tagged thin image has a run that will remove it, or a host in `kept`, which a kill, `--keep-thin-images`
and a cleanup that is interrupted or fails put there; `RunInv` that a lone run works
in the environment it looked at (`Works`), that what it holds of the entry extends the file (`Holds`) and
is verified (`Verified`); `FileInv` that the file extends what is committed.

`FatIndexProofs`, from `FatIndexAssumption`: `TypeCorrect`, `NeverListedTwice`, `RegistryOnlyGrows`
(`AppendOnlyUncrossed`), `NoRefusalOfAListedImage` (`GivenUpIsUnlisted`) and `CommitsOnlyAdd` (`CommittedGrows`).
`UniqueInv` covers the lists in hand as well as the file; `CrossInv` says that until two commands cross only
one is about to write, its list is the file's with its own tag, and what is relied on is listed; `UnlistedInv` that
a lone process's look is still true.

`FatImageSelectionProofs`, from `SelectionAssumption`: `TypeCorrect`, `ChosenCanBuild`
(`RightCompiler`), `ChosenIsOfItsEra` (`RightEra`), `ChosenHasItsPackages` (`SnapshotAfterCommit`),
`RefusedOnlyForAReason` (`RefusedForAReason`) and `ChosenIsPlanned` (`PlanOutlivesHub`). Beyond the run's
properties, `UndeclaredIsServed`: the driver's floor finds an image on every day up to the last one accepted,
so no candidate is refused for declaring nothing; and `NewerNeedsNoOlder`: `bucket_for` is monotone in
the version. The first ones are
lemmas about `BucketFor` and `SdeDate` for every version and date; `PickedInv` carries them to the tags,
and `CurrentInv` says that a tag made from an answer is still what the cache gives until that expires.

`PipelineIndexProofs`, for any drivers and entries: `TypeCorrect`, `OneCurrentClassification`
(`OneCurrent`), `RecordedOnce` (`AttemptsStand`), `CleanIsFresh` (`CleanMeansFresh`), `RebuildCompletes`
(`CompleteAfterRebuild`) and `FactsKept` (`DriverFactsKept`). `VersionInv` says that no version in hand or
recorded is of the future; `Attempting` that the writing a driver is about to record is not recorded yet,
and that row and source are there by then; `FreshInv` that a row's hash and columns, and what was read
with a hash, are of one version; `SourceInv` that a rebuild about to stub a source has none in front of it;
`RebuildInv` which entries a rebuild has completed. `AttemptsStand` holds with overlap too: a rebuild that
inserts an old reading over a driver's row keeps what the attempt needs.

`ClassificationProofs`, for logs of any length: `TypeCorrect`, `VerdictFits` (`QuietVerdictFits`),
`TimeoutComesFirst` (`TimeoutOutranks`), `CategoryFits` (`RowFits`), `ScriptsHideTestFailures` (TEST_FAILURE is
stored only for logs that speak of no build script), and `TestsFailUnwarned`: what
`classification_warnings` refutes holds of every log without warnings. `FirstRule` says of a list of rules that
its verdict is of a rule with a marker in the log and none before it; `LogInv` that the log has a marker of
each cause and of nothing else, `VerdictInv` and `RowInv` that a verdict is about the log as it is now.

TLC checked each inductive invariant on its instance before it was proved. Every invariant and every
action property of the passing runs is the conclusion of a theorem. Only model-checked are the three liveness
properties `EveryCandidateSettles`, `ShutdownDrains` and `ShutdownEnds`, since fairness and ENABLED are out
of the prover's reach. The theorems carry the conditions of their properties (`alone`, `crossed`,
`beside`): without them the code does not keep what they say, as `fat_index_lost` shows of one.

## Not modelled

- Advisory crossings and the schema migration: functions of files, run by hand. Reading the first one
  showed that its version ranges accept `^` and `~` and then ignore them, so that `^1.2.3` holds of every
  version, and that only the first advisory of a candidate counts.
- Mining, conversions of candidates, the survey of system dependencies, the data model and its JSON
  schema, deployment scripts: they keep no state the pipeline's steps contend for.
- Of the database the fat-image tables, `runs` and the GitHub cache; of the assembly the contents of an
  entry besides tag, category and fingerprints; of the classifiers the regular expressions.

## Plan

1. Crossings as a function on versions and ranges, against a reference definition.
2. The schema migration, and that a second run of it changes nothing.
3. The assembly's contents: toolchain, dates and hosts of an entry.
