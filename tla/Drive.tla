------------------------------- MODULE Drive -------------------------------
(***************************************************************************)
(* The batch driver, pipelines/cargo/cargo_drive.py: a pool of workers     *)
(* takes candidates, reproduces them in containers, writes entry files,    *)
(* mirrors them into the database and appends one line per candidate to    *)
(* the state file that a later run resumes from.  The steps between which  *)
(* another worker, a signal or a crash can come are separate actions.      *)
(***************************************************************************)
EXTENDS Naturals, SequencesExt

CONSTANTS
    Candidate,   \* lines of the candidates file
    Key,         \* "<repo>#<pr>"
    KeyOf,       \* [Candidate -> Key]; nothing keeps a key from having two lines
    Entry,       \* entry ids, cargo-<first 8 digits of the post commit>
    EntryOf,     \* [Candidate -> Entry]
    Worker,      \* threads the pool may have
    Tag,         \* fat-image tags
    NoTag,       \* bucket_for returned None, or --force-fat-image not given
    NoCandidate, \* what an idle worker holds
    Fixed,       \* candidates with a fix commit
    Undated,     \* candidates whose commit date needs a call to GitHub
    Slow,        \* candidates whose tests may reach regenerate's timeout
    Poison,      \* candidates on which process() may raise
    Options,     \* the command lines the operator uses
    Indexed,     \* tags in index.json at the start
    Local,       \* tags in the docker image store at the start
    MaxRuns,     \* bound: starts of the driver
    MaxCrashes   \* bound: kills of the driver process

\* Exit 0, any other exit (124 after the timeout too), an end by the handler's docker kill.
Result == {"ok", "fail", "killed"}
Category == {"breaking", "non-breaking"}

\* cargo_drive.Status: every one of them is terminal.
Status == {"ok", "fat_image_missing", "fat_image_build_failed", "not_reproducible",
           "assemble_failed", "regenerate_mismatch", "metadata_fetch_failed",
           "commit_after_max_sde_date", "entry_bucket_stale"}

\* What the command line and the bucketer fix for one run.
Option == [pool : SUBSET Worker,                         \* --parallel
           bucket : [Candidate -> Tag \cup {NoTag}],     \* canonical tag of each candidate
           late : SUBSET Candidate,                      \* dated after --max-sde-date
           force : Tag \cup {NoTag},                     \* --force-fat-image
           build : BOOLEAN,                              \* --build-missing-bases
           skip : BOOLEAN,                               \* --skip-preflight
           reassemble : BOOLEAN,                         \* --reassemble-stale
           verify : BOOLEAN,                             \* --regenerate-verify
           db : BOOLEAN]                                 \* --db

Serial(o) == \E w \in Worker : o.pool = {w}

ASSUME DriveAssumption ==
    /\ NoTag \notin Tag
    /\ NoCandidate \notin Candidate
    /\ KeyOf \in [Candidate -> Key]
    /\ EntryOf \in [Candidate -> Entry]
    /\ Options \subseteq Option
    /\ \A o \in Options : o.pool # {} /\ (o.build => Serial(o))   \* main refuses the rest
    /\ Indexed \subseteq Tag /\ Local \subseteq Tag
    /\ MaxRuns \in Nat /\ MaxCrashes \in Nat

VARIABLES
    ledger,      \* drive-state.jsonl, a sequence of lines
    disk,        \* the entry files
    row,         \* the entries table: does its hash fit the file on disk?
    mirrored,    \* the drive_state table of the run id in use
    images,      \* tags in the docker image store
    fatIndex,    \* tags in index.json
    up,          \* is a driver process running?
    opts,        \* its options
    todo,        \* lines submitted and not yet taken
    job,         \* what each worker is doing
    signal,      \* "none", "raised" (event set), "handled" (containers killed), "stuck"
    runs, crashes

files == <<ledger, disk, row, mirrored, images, fatIndex>>
process == <<up, opts, todo, job, signal>>
vars == <<ledger, disk, row, mirrored, images, fatIndex,
          up, opts, todo, job, signal, runs, crashes>>

----------------------------------------------------------------------------
(* Lines, files and workers.                                               *)

\* An entry: its fat image and, for its category, the post result it was assembled from.
Content == [tag : Tag, from : Result]
Absent == [file |-> "absent"]
Torn == [file |-> "torn"]        \* truncated by open("w"), not yet written
Whole(x) == [file |-> "whole", tag |-> x.tag, from |-> x.from]
File == {Absent, Torn} \cup {Whole(x) : x \in Content}
Readable(e) == disk[e].file = "whole"

\* A record, and whence it is: did the handler kill a container of it, and, if it says ok,
\* what did its builds or tests show?
Line == [cand : Candidate, status : Status, cut : BOOLEAN, shown : Category \cup {"none"}]

PC == {"idle", "metadata", "resolve", "register", "pre_start", "pre_run", "post_start",
       "post_run", "fix_start", "fix_run", "decide", "write", "mirror_entry", "regenerate",
       "test", "rewrite_open", "rewrite", "return", "append", "mirror_state"}

Job == [pc : PC, cand : Candidate \cup {NoCandidate}, status : Status \cup {"none"},
        tag : Tag \cup {NoTag}, pre : Result \cup {"none"}, post : Result \cup {"none"},
        fresh : BOOLEAN,                                 \* this run wrote the entry
        from : Result \cup {"none"},                     \* as in the entry in hand
        cut : BOOLEAN, shown : Category \cup {"none"}]   \* as in the line to come

Idle == [pc |-> "idle", cand |-> NoCandidate, status |-> "none", tag |-> NoTag,
         pre |-> "none", post |-> "none", fresh |-> FALSE, from |-> "none",
         cut |-> FALSE, shown |-> "none"]

Judged == {ledger[i].cand : i \in DOMAIN ledger}
Recorded == {KeyOf[c] : c \in Judged}             \* what load_state finds

\* The handler runs in the main thread, which in serial mode is the worker.
MainThreadBusy == signal \in {"raised", "stuck"} /\ Serial(opts)
At(w, pc) == up /\ job[w].pc = pc /\ ~MainThreadBusy

Goto(w, pc) == job' = [job EXCEPT ![w] = [@ EXCEPT !.pc = pc]]
\* process() has a record with status s to return; its locals are gone.
Returned(j, s) ==
    [Idle EXCEPT !.pc = "return", !.cand = j.cand, !.status = s, !.cut = j.cut,
                 !.shown = IF s = "ok" THEN j.shown ELSE "none"]
Return(w, s) == job' = [job EXCEPT ![w] = Returned(@, s)]
\* The worker is done with its candidate.
Release(w) == job' = [job EXCEPT ![w] = Idle]

Mine(w) == EntryOf[job[w].cand]
Bucket(w) == opts.bucket[job[w].cand]

\* A file that changes under its row leaves the row's hash behind.
Overwrite(e, f) ==
    /\ disk' = [disk EXCEPT ![e] = f]
    /\ row' = [row EXCEPT ![e] = IF @ = "current" THEN "stale" ELSE @]

----------------------------------------------------------------------------
(* The run: start, hand-out of candidates, end.                            *)

Init ==
    /\ ledger = <<>>
    /\ disk = [e \in Entry |-> Absent]
    /\ row = [e \in Entry |-> "absent"]
    /\ mirrored = [k \in Key |-> "none"]
    /\ images = Local
    /\ fatIndex = Indexed
    /\ up = FALSE
    /\ opts \in Options
    /\ todo = {}
    /\ job = [w \in Worker |-> Idle]
    /\ signal = "none"
    /\ runs = 0 /\ crashes = 0

\* The tags preflight looks for; it passes over a candidate whose date it cannot get.
Needed(o, S) ==
    IF o.force # NoTag THEN {o.force}
    ELSE {o.bucket[c] : c \in S \ (o.late \cup Undated)} \ {NoTag}

Preflight(o, S) == o.skip \/ o.build \/ Needed(o, S) \subseteq images

\* Mutant: a resumed run does not filter by the state file.
StartWithoutFilter(o) ==
    /\ ~up /\ runs < MaxRuns
    /\ Preflight(o, Candidate)
    /\ up' = TRUE /\ opts' = o /\ todo' = Candidate
    /\ job' = [w \in Worker |-> Idle] /\ signal' = "none" /\ runs' = runs + 1
    /\ UNCHANGED <<files, crashes>>

Unrecorded == {c \in Candidate : KeyOf[c] \notin Recorded}

\* main up to the dispatch loop: load the state file, skip the lines whose key it has,
\* preflight.  Two lines with one new key are both submitted.
Start(o) ==
    /\ ~up /\ runs < MaxRuns
    /\ Unrecorded # {}
    /\ Preflight(o, Unrecorded)
    /\ up' = TRUE
    /\ opts' = o
    /\ todo' = Unrecorded
    /\ job' = [w \in Worker |-> Idle]
    /\ signal' = "none"
    /\ runs' = runs + 1
    /\ UNCHANGED <<files, crashes>>

\* Mutant: a candidate is handed out and stays in the queue.
TakeKeepsTodo(w, c) ==
    /\ At(w, "idle") /\ w \in opts.pool /\ signal = "none"
    /\ c \in todo
    /\ job' = [job EXCEPT ![w] = [Idle EXCEPT !.pc = "metadata", !.cand = c]]
    /\ UNCHANGED <<files, up, opts, todo, signal, runs, crashes>>

\* _worker is entered: the event is not set.
Take(w, c) ==
    /\ At(w, "idle") /\ w \in opts.pool /\ signal = "none"
    /\ c \in todo
    /\ todo' = todo \ {c}
    /\ job' = [job EXCEPT ![w] = [Idle EXCEPT !.pc = "metadata", !.cand = c]]
    /\ UNCHANGED <<files, up, opts, signal, runs, crashes>>

\* After the event is set no further candidate is started.
CancelRest ==
    /\ up /\ signal # "none" /\ ~MainThreadBusy /\ todo # {}
    /\ todo' = {}
    /\ UNCHANGED <<files, up, opts, job, signal, runs, crashes>>

\* Mutant: the pool is not waited for.
FinishAtOnce ==
    /\ up /\ todo = {} /\ ~MainThreadBusy
    /\ up' = FALSE
    /\ UNCHANGED <<files, opts, todo, job, signal, runs, crashes>>

Finish ==
    /\ up /\ todo = {} /\ ~MainThreadBusy
    /\ \A w \in Worker : job[w].pc = "idle"
    /\ up' = FALSE
    /\ UNCHANGED <<files, opts, todo, job, signal, runs, crashes>>

----------------------------------------------------------------------------
(* process(): metadata and an entry that is already on disk.               *)

MetadataFails(w) ==
    /\ At(w, "metadata") /\ job[w].cand \in Undated
    /\ Return(w, "metadata_fetch_failed")
    /\ UNCHANGED <<files, up, opts, todo, signal, runs, crashes>>

\* Mutant: the entry file is not looked for, as if every candidate were new.
ForgetsEntry(w) ==
    /\ At(w, "metadata")
    /\ Goto(w, "resolve")
    /\ UNCHANGED <<files, up, opts, todo, signal, runs, crashes>>

NoEntry(w) ==
    /\ At(w, "metadata") /\ disk[Mine(w)] = Absent
    /\ Goto(w, "resolve")
    /\ UNCHANGED <<files, up, opts, todo, signal, runs, crashes>>

\* _regenerate_or_flag_stale: unreadable, no bucket today, or another tag.
EntryStale(w) ==
    /\ At(w, "metadata") /\ disk[Mine(w)] # Absent
    /\ \/ ~Readable(Mine(w))
       \/ Bucket(w) = NoTag
       \/ Readable(Mine(w)) /\ Bucket(w) # disk[Mine(w)].tag /\ ~opts.reassemble
    /\ Return(w, "entry_bucket_stale")
    /\ UNCHANGED <<files, up, opts, todo, signal, runs, crashes>>

EntryDiscarded(w) ==
    /\ At(w, "metadata") /\ Readable(Mine(w))
    /\ Bucket(w) # NoTag /\ Bucket(w) # disk[Mine(w)].tag /\ opts.reassemble
    /\ Goto(w, "resolve")
    /\ UNCHANGED <<files, up, opts, todo, signal, runs, crashes>>

EntryMatches(w) ==
    /\ At(w, "metadata") /\ Readable(Mine(w)) /\ Bucket(w) = disk[Mine(w)].tag
    /\ Goto(w, "regenerate")
    /\ UNCHANGED <<files, up, opts, todo, signal, runs, crashes>>

----------------------------------------------------------------------------
(* process(): date bound and fat image.                                    *)

TooLate(w) == job[w].cand \in opts.late
Wanted(w) == IF opts.force # NoTag THEN opts.force ELSE Bucket(w)
MayBuild(w) == opts.force = NoTag /\ Wanted(w) \in Tag \ fatIndex /\ opts.build

CommitTooLate(w) ==
    /\ At(w, "resolve") /\ TooLate(w)
    /\ Return(w, "commit_after_max_sde_date")
    /\ UNCHANGED <<files, up, opts, todo, signal, runs, crashes>>

ImageMissing(w) ==
    /\ At(w, "resolve") /\ ~TooLate(w)
    /\ Wanted(w) \notin fatIndex /\ ~MayBuild(w)
    /\ Return(w, "fat_image_missing")
    /\ UNCHANGED <<files, up, opts, todo, signal, runs, crashes>>

UseImage(w) ==
    /\ At(w, "resolve") /\ ~TooLate(w)
    /\ Wanted(w) \in fatIndex
    /\ job' = [job EXCEPT ![w] = [@ EXCEPT !.pc = "pre_start", !.tag = Wanted(w)]]
    /\ UNCHANGED <<files, up, opts, todo, signal, runs, crashes>>

BuildImage(w) ==
    /\ At(w, "resolve") /\ ~TooLate(w) /\ MayBuild(w)
    /\ images' = images \cup {Wanted(w)}
    /\ job' = [job EXCEPT ![w] = [@ EXCEPT !.pc = "register", !.tag = Wanted(w)]]
    /\ UNCHANGED <<ledger, disk, row, mirrored, fatIndex, up, opts, todo, signal, runs, crashes>>

BuildFails(w) ==
    /\ At(w, "resolve") /\ ~TooLate(w) /\ MayBuild(w)
    /\ Return(w, "fat_image_build_failed")
    /\ UNCHANGED <<files, up, opts, todo, signal, runs, crashes>>

RegisterImage(w) ==
    /\ At(w, "register")
    /\ fatIndex' = fatIndex \cup {job[w].tag}
    /\ Goto(w, "pre_start")
    /\ UNCHANGED <<ledger, disk, row, mirrored, images, up, opts, todo, signal, runs, crashes>>

\* The image is built, and introspecting it fails.
IntrospectFails(w) ==
    /\ At(w, "register")
    /\ Return(w, "fat_image_build_failed")
    /\ UNCHANGED <<files, up, opts, todo, signal, runs, crashes>>

----------------------------------------------------------------------------
(* reproduce(): the containers.  Nothing is checked between them.          *)

\* A container clones over the network, builds under a memory cap and a timeout, and tests:
\* it may fail for reasons of its own.  Without the image docker exits 125.
Exits(w) == {"fail"} \cup (IF job[w].tag \in images THEN {"ok"} ELSE {})

StartContainer(w) ==
    /\ \/ At(w, "pre_start") /\ Goto(w, "pre_run")
       \/ At(w, "post_start") /\ Goto(w, "post_run")
       \/ At(w, "fix_start") /\ Goto(w, "fix_run")
    /\ UNCHANGED <<files, up, opts, todo, signal, runs, crashes>>

AfterPost(j) == IF j.cand \in Fixed THEN "fix_start" ELSE "decide"

\* _run_in_docker of the container that runs comes back with r.
Ends(j, r) ==
    LET k == [j EXCEPT !.cut = @ \/ r = "killed"]
    IN  CASE j.pc = "pre_run" -> [k EXCEPT !.pc = "post_start", !.pre = r]
          [] j.pc = "post_run" -> [k EXCEPT !.pc = AfterPost(j), !.post = r]
          [] OTHER -> [k EXCEPT !.pc = "decide"]

\* docker run returns, by itself or because the timeout killed the container.
ContainerExits(w, pc) ==
    /\ At(w, pc)
    /\ \E r \in Exits(w) : job' = [job EXCEPT ![w] = Ends(@, r)]
    /\ UNCHANGED <<files, up, opts, todo, signal, runs, crashes>>

PreExits(w) == ContainerExits(w, "pre_run")
PostExits(w) == ContainerExits(w, "post_run")
FixExits(w) == ContainerExits(w, "fix_run")

\* SIGTERM or SIGINT; while the event is set a second one is ignored.
Signal ==
    /\ up /\ signal = "none"
    /\ signal' = "raised"
    /\ UNCHANGED <<files, up, opts, todo, job, runs, crashes>>

Running == {"pre_run", "post_run", "fix_run"}
\* Where a worker enters itself into the registry, is in it, or leaves it.
AtRegistry == {"pre_start", "post_start", "fix_start"} \cup Running

\* kill_active_containers: docker kill of the names registered now, best effort; a
\* container that is registered and not yet started is not found.
KillContainers ==
    /\ up /\ signal = "raised"
    /\ signal' = "handled"
    /\ \E K \in SUBSET {w \in Worker : job[w].pc \in Running} :
          job' = [w \in Worker |-> IF w \in K THEN Ends(job[w], "killed") ELSE job[w]]
    /\ UNCHANGED <<files, up, opts, todo, runs, crashes>>

\* The handler interrupted the main thread of a serial run inside the registry's lock and
\* waits for that lock: for good, and later signals are ignored.
HandlerSticks ==
    /\ up /\ signal = "raised" /\ Serial(opts)
    /\ \E w \in Worker : job[w].pc \in AtRegistry
    /\ signal' = "stuck"
    /\ UNCHANGED <<files, up, opts, todo, job, runs, crashes>>

----------------------------------------------------------------------------
(* process(): category, entry file, database.                              *)

PrePassed(j) == j.pre = "ok"
\* Mutant: the category is the raw result.
RawCategory(r) == r
\* The category of a post result: whatever is not a pass is breaking.
Discovered(r) == IF r = "ok" THEN "non-breaking" ELSE "breaking"

Unreproducible(w) ==
    /\ At(w, "decide") /\ ~PrePassed(job[w])
    /\ Return(w, "not_reproducible")
    /\ UNCHANGED <<files, up, opts, todo, signal, runs, crashes>>

\* build_entry raises AssembleError: the manifest cannot be extracted or parsed.
AssembleFails(w) ==
    /\ At(w, "decide") /\ PrePassed(job[w])
    /\ Return(w, "assemble_failed")
    /\ UNCHANGED <<files, up, opts, todo, signal, runs, crashes>>

\* EntryWriter.write: open(..., "w") truncates, the dump follows.
OpenEntry(w) ==
    /\ At(w, "decide") /\ PrePassed(job[w])
    /\ Overwrite(Mine(w), Torn)
    /\ job' = [job EXCEPT ![w] =
                  [@ EXCEPT !.pc = "write", !.from = job[w].post,
                            !.shown = Discovered(job[w].post)]]
    /\ UNCHANGED <<ledger, mirrored, images, fatIndex, up, opts, todo, signal, runs, crashes>>

\* After the entry is indexed, or without a database: verify, or return ok.
Wrote(j) ==
    IF opts.verify THEN [j EXCEPT !.pc = "regenerate", !.fresh = TRUE]
    ELSE Returned(j, "ok")

WriteEntry(w) ==
    /\ At(w, "write")
    /\ Overwrite(Mine(w), Whole(job[w]))
    /\ job' = [job EXCEPT ![w] = IF opts.db THEN [@ EXCEPT !.pc = "mirror_entry"] ELSE Wrote(@)]
    /\ UNCHANGED <<ledger, mirrored, images, fatIndex, up, opts, todo, signal, runs, crashes>>

\* Under db_lock: upsert the row from the file, patch it, source, attempt, classification.
MirrorEntry(w) ==
    /\ At(w, "mirror_entry") /\ Readable(Mine(w))
    /\ row' = [row EXCEPT ![Mine(w)] = "current"]
    /\ job' = [job EXCEPT ![w] = Wrote(@)]
    /\ UNCHANGED <<ledger, disk, mirrored, images, fatIndex, up, opts, todo, signal, runs, crashes>>

----------------------------------------------------------------------------
(* cargo_regenerate.regenerate(), for an entry found on disk and, with     *)
(* --regenerate-verify, for the one just written.                          *)

\* The driver keeps the kind of failure only on the existing-entry path.
RegenStatus(w, s) == IF job[w].fresh THEN "regenerate_mismatch" ELSE s

RegenFails(w) ==
    /\ At(w, "regenerate") /\ Readable(Mine(w))
    /\ IF disk[Mine(w)].tag \notin images
         THEN Return(w, RegenStatus(w, "fat_image_missing"))
         ELSE \E s \in {"regenerate_mismatch", "not_reproducible"} : Return(w, RegenStatus(w, s))
    /\ UNCHANGED <<files, up, opts, todo, signal, runs, crashes>>

\* Reads the entry, agrees with its fingerprint and builds the thin images.
RegenBuilds(w) ==
    /\ At(w, "regenerate") /\ Readable(Mine(w)) /\ disk[Mine(w)].tag \in images
    /\ job' = [job EXCEPT ![w] = [@ EXCEPT !.pc = "test", !.tag = disk[Mine(w)].tag,
                                           !.from = disk[Mine(w)].from]]
    /\ UNCHANGED <<files, up, opts, todo, signal, runs, crashes>>

\* Mutant: regenerate trusts the category of the entry.
Trusted(j, shown) == TRUE
\* Do pre and post behave as the category of the entry says?
Reproduces(j, shown) == shown = Discovered(j.from)

\* run_tests on both thin images; these containers are not registered, no signal kills them.
RegenTests(w) ==
    /\ At(w, "test")
    /\ \E shown \in Category \cup {"none"} :                \* none: pre fails
          job' = [job EXCEPT ![w] = [@ EXCEPT !.pc = "rewrite_open", !.shown = shown,
               !.status = IF Reproduces(job[w], shown) THEN "ok" ELSE "regenerate_mismatch"]]
    /\ UNCHANGED <<files, up, opts, todo, signal, runs, crashes>>

\* The entry is written back with a new verifiedOn record, mismatch or not.
RegenOpen(w) ==
    /\ At(w, "rewrite_open")
    /\ Overwrite(Mine(w), Torn)
    /\ Goto(w, "rewrite")
    /\ UNCHANGED <<ledger, mirrored, images, fatIndex, up, opts, todo, signal, runs, crashes>>

RegenWrites(w) ==
    /\ At(w, "rewrite")
    /\ Overwrite(Mine(w), Whole(job[w]))
    /\ Return(w, job[w].status)
    /\ UNCHANGED <<ledger, mirrored, images, fatIndex, up, opts, todo, signal, runs, crashes>>

----------------------------------------------------------------------------
(* _worker after process(): the second look at the event, then the line.   *)

\* Mutant: the record is kept whether or not the event is set.
KeepsRecord(w) ==
    /\ At(w, "return")
    /\ Goto(w, "append")
    /\ UNCHANGED <<files, up, opts, todo, signal, runs, crashes>>

Accept(w) ==
    /\ At(w, "return") /\ signal = "none"
    /\ Goto(w, "append")
    /\ UNCHANGED <<files, up, opts, todo, signal, runs, crashes>>

\* Mutant: an interrupted candidate is tried again at once.
RetriesAtOnce(w) ==
    /\ At(w, "return") /\ signal # "none"
    /\ Goto(w, "metadata")
    /\ UNCHANGED <<files, up, opts, todo, signal, runs, crashes>>

Interrupted(w) ==
    /\ At(w, "return") /\ signal # "none"
    /\ Release(w)
    /\ UNCHANGED <<files, up, opts, todo, signal, runs, crashes>>

StateLockFree == \A v \in Worker : job[v].pc # "mirror_state"

LineOf(j) == [cand |-> j.cand, status |-> j.status, cut |-> j.cut, shown |-> j.shown]

\* Mutant: the database row is written before the line.
MirrorsFirst(w) ==
    /\ At(w, "append")
    /\ mirrored' = [mirrored EXCEPT ![KeyOf[job[w].cand]] = job[w].status]
    /\ Goto(w, "mirror_state")
    /\ UNCHANGED <<ledger, disk, row, images, fatIndex, up, opts, todo, signal, runs, crashes>>

\* append_state, holding state_lock until the database has the record too.
AppendState(w) ==
    /\ At(w, "append") /\ StateLockFree
    /\ ledger' = Append(ledger, LineOf(job[w]))
    /\ IF opts.db THEN Goto(w, "mirror_state") ELSE Release(w)
    /\ UNCHANGED <<disk, row, mirrored, images, fatIndex, up, opts, todo, signal, runs, crashes>>

MirrorState(w) ==
    /\ At(w, "mirror_state")
    /\ mirrored' = [mirrored EXCEPT ![KeyOf[job[w].cand]] = job[w].status]
    /\ Release(w)
    /\ UNCHANGED <<ledger, disk, row, images, fatIndex, up, opts, todo, signal, runs, crashes>>

----------------------------------------------------------------------------
(* What goes wrong around the driver.                                      *)

Raisable == {"decide", "mirror_entry", "regenerate", "test"}

\* Mutant: an exception in one worker ends a run of the pool too.
RaiseEndsRun(w) ==
    /\ \E pc \in Raisable : At(w, pc)
    /\ job[w].cand \in Poison
    /\ up' = FALSE /\ todo' = {}
    /\ job' = [v \in Worker |-> Idle]
    /\ UNCHANGED <<files, opts, signal, runs, crashes>>

\* An exception process() does not catch (schema error, a manifest that cannot be
\* extracted, a test that times out in regenerate): the pool logs it and goes on, a
\* serial run ends.
Raises(w) ==
    /\ \E pc \in Raisable : At(w, pc)
    /\ \/ job[w].cand \in Poison
       \/ job[w].pc = "test" /\ job[w].cand \in Slow
       \/ job[w].pc \in {"mirror_entry", "regenerate"} /\ ~Readable(Mine(w))
    /\ Release(w)
    /\ IF Serial(opts) THEN up' = FALSE /\ todo' = {} ELSE UNCHANGED <<up, todo>>
    /\ UNCHANGED <<files, opts, signal, runs, crashes>>

\* SIGKILL, out of memory, power: what was on disk stays as it was.
Crash ==
    /\ up /\ crashes < MaxCrashes
    /\ up' = FALSE
    /\ job' = [w \in Worker |-> Idle]
    /\ todo' = {}
    /\ crashes' = crashes + 1
    /\ UNCHANGED <<files, opts, signal, runs>>

\* running-a-batch.md: to process a candidate again, delete its line.
DeleteLine(i) ==
    /\ ~up /\ runs < MaxRuns
    /\ ledger' = RemoveAt(ledger, i)
    /\ UNCHANGED <<disk, row, mirrored, images, fatIndex, process, runs, crashes>>

----------------------------------------------------------------------------
Process(w) ==
    \/ MetadataFails(w) \/ NoEntry(w) \/ EntryStale(w) \/ EntryDiscarded(w) \/ EntryMatches(w)
    \/ CommitTooLate(w) \/ ImageMissing(w) \/ UseImage(w) \/ BuildImage(w) \/ BuildFails(w)
    \/ RegisterImage(w) \/ IntrospectFails(w)
    \/ StartContainer(w) \/ PreExits(w) \/ PostExits(w) \/ FixExits(w)
    \/ Unreproducible(w) \/ AssembleFails(w) \/ OpenEntry(w) \/ WriteEntry(w) \/ MirrorEntry(w)
    \/ RegenFails(w) \/ RegenBuilds(w) \/ RegenTests(w) \/ RegenOpen(w) \/ RegenWrites(w)
    \/ Accept(w) \/ Interrupted(w) \/ AppendState(w) \/ MirrorState(w)

WorkerStep(w) == (\E c \in Candidate : Take(w, c)) \/ Process(w) \/ Raises(w)

Next ==
    \/ \E o \in Options : Start(o)
    \/ \E w \in Worker : WorkerStep(w)
    \/ Signal \/ KillContainers \/ HandlerSticks \/ CancelRest \/ Finish
    \/ Crash
    \/ \E i \in DOMAIN ledger : DeleteLine(i)

Spec == Init /\ [][Next]_vars

\* Threads are scheduled, containers end (--timeout) and the handler runs; nothing makes
\* the operator start a run, send a signal or edit the file.
Fairness ==
    /\ \A w \in Worker : WF_vars(WorkerStep(w))
    /\ WF_vars(KillContainers) /\ WF_vars(CancelRest) /\ WF_vars(Finish)

FairSpec == Spec /\ Fairness

----------------------------------------------------------------------------
(* Properties.                                                             *)

\* Every variable has its type; the counters stay under their bounds.
TypeOK ==
    /\ ledger \in Seq(Line)
    /\ disk \in [Entry -> File]
    /\ row \in [Entry -> {"absent", "current", "stale"}]
    /\ mirrored \in [Key -> Status \cup {"none"}]
    /\ images \subseteq Tag /\ fatIndex \subseteq Tag
    /\ up \in BOOLEAN
    /\ opts \in Options
    /\ todo \subseteq Candidate
    /\ job \in [Worker -> Job]
    /\ signal \in {"none", "raised", "handled", "stuck"}
    /\ runs \in 0..MaxRuns /\ crashes \in 0..MaxCrashes

\* However runs are stopped, killed and resumed, the state file never gets a second record
\* for a line of the candidates file, and so none for a key that has one line there
\* (cargo_drive.py skips keys with a terminal status, 763-775).
OneVerdictPerKey ==
    \A i, j \in DOMAIN ledger : ledger[i].cand = ledger[j].cand => i = j

\* No line is derived from a container that the shutdown handler killed: the second look
\* at the event drops such a record (cargo_drive.py:848-851).
NoVerdictFromKilled ==
    \A i \in DOMAIN ledger : ~ledger[i].cut

\* Entry ids are cut from post commits: no other line leads to the entry of c.
Own(c) == \A d \in Candidate : EntryOf[d] = EntryOf[c] => d = c

\* A candidate whose line says ok has a readable entry on disk, in the category which that
\* very run saw in its builds or tests, whatever torn, wrong or older entry an earlier run,
\* a killed one too, had left in its place (cargo_drive.py:404-426, 534-537, 617-630).
OkIsWitnessed ==
    \A i \in DOMAIN ledger :
        LET l == ledger[i]
            f == disk[EntryOf[l.cand]]
        IN  l.status = "ok" /\ Own(l.cand) =>
                f.file = "whole" /\ Discovered(f.from) = l.shown

\* The pipeline replaces a readable entry only under --reassemble-stale
\* (cargo_drive.py:419-426: an existing entry is not re-run).
EntriesSurvive ==
    [][\A w \in Worker :
          (job[w].pc = "decide" /\ job'[w].pc = "write" /\ Readable(Mine(w)) /\ Own(job[w].cand))
              => opts.reassemble]_vars

\* The database's drive_state only ever repeats what a line of the state file says.
MirrorFollowsLedger ==
    [][\A k \in Key :
          mirrored'[k] # mirrored[k] =>
              \E i \in DOMAIN ledger :
                  KeyOf[ledger[i].cand] = k /\ ledger[i].status = mirrored'[k]]_vars

\* Candidates on which process() does not raise, a file torn by another one included.
Sure == {c \in Candidate \ (Poison \cup Slow) : Own(c)}

\* A run that comes to its end by itself has lost no candidate: whatever others raised, found
\* stale or waited for, each has its line, this run's or an earlier one's
\* (cargo_drive.py:877-896).
RunsEndComplete ==
    [][Finish /\ signal = "none" => \A c \in Sure : KeyOf[c] \in Recorded]_vars

\* In a pool, every candidate that was dispatched gets its line although others raise,
\* wait for locks or time out, unless a shutdown comes first.
EveryCandidateSettles ==
    \A c \in Sure :
        (c \in todo /\ ~Serial(opts)) ~> (c \in Judged \/ signal # "none" \/ crashes > 0)

\* After a signal the driver comes to an end, no worker waits forever (cargo_drive.py:809-813,
\* 898-905): in a pool always, and in a serial run unless the handler waits for the lock its
\* own thread holds, which only a kill of the process ends.
ShutdownDrains == signal # "none" ~> (~up \/ (Serial(opts) /\ signal = "stuck"))

\* A shutdown in the middle of a candidate leaves nothing behind for the resumed run to find
\* ("Don't persist - resume re-tries", cargo_drive.py:848-849): no readable entry on disk was
\* assembled from a container that the handler killed.
NoEntryFromKilled ==
    \A e \in Entry : Readable(e) => disk[e].from # "killed"

----------------------------------------------------------------------------
(* The batch ledger, as load_state reads the file: the last line of a key. *)

LastStatus(c) ==
    IF c \in Judged
    THEN ledger[Max({i \in DOMAIN ledger : ledger[i].cand = c})].status
    ELSE "none"

Held == {job[w].cand : w \in {v \in Worker : job[v].pc \notin {"idle", "mirror_state"}}}

Batch == INSTANCE BatchLedger
         WITH Verdict <- Status, NoVerdict <- "none",
              verdict <- [c \in Candidate |-> LastStatus(c)], inFlight <- Held

\* The driver keeps the promises of the state file.
ImplementsBatch == Batch!BatchSpec
=============================================================================
