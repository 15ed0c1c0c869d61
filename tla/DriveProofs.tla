---------------------------- MODULE DriveProofs ----------------------------
(***************************************************************************)
(* What holds of the driver for every number of candidates, workers, tags, *)
(* runs and crashes and for every set of command lines: the types, one     *)
(* line per candidate, no line from a killed container, a database that    *)
(* only repeats the state file, and that the driver implements the batch   *)
(* ledger: each of its steps is one of BatchLedger, or leaves verdicts and *)
(* holders as they are.                                                    *)
(***************************************************************************)
EXTENDS Drive, SequenceTheorems, TLAPS

----------------------------------------------------------------------------
(* The inductive invariant.                                                *)

HasTag == {"register", "pre_start", "pre_run", "post_start", "post_run", "fix_start",
           "fix_run", "decide", "write", "test", "rewrite_open", "rewrite"}
HasPost == {"fix_start", "fix_run", "decide"}
HasEntry == {"write", "test", "rewrite_open", "rewrite"}
HasStatus == {"rewrite_open", "rewrite", "return", "append", "mirror_state"}

\* A job has the fields its stage reads.
JobOK(j) ==
    /\ j \in Job
    /\ j.pc # "idle" => j.cand \in Candidate
    /\ j.pc \in HasTag => j.tag \in Tag
    /\ j.pc \in HasPost => j.post \in Result
    /\ j.pc \in HasEntry => j.from \in Result
    /\ j.pc \in HasStatus => j.status \in Status

TypeInv ==
    /\ TypeOK
    /\ \A w \in Worker : JobOK(job[w])

\* Who has a candidate, and whose line is already there.
Busy(w) == job[w].pc # "idle"
Unsettled(w) == job[w].pc \notin {"idle", "mirror_state"}

\* A candidate is in one place: queued, with one worker, or in the state file.
OnePlace ==
    /\ todo \cap Judged = {}
    /\ \A w \in Worker :
          /\ Busy(w) => job[w].cand \notin todo
          /\ Unsettled(w) => job[w].cand \notin Judged
    /\ \A v, w \in Worker : Busy(v) /\ Busy(w) /\ job[v].cand = job[w].cand => v = w

\* Only workers of the pool of a running driver are busy.
PoolOfTheRun == \A w \in Worker : Busy(w) => up /\ w \in opts.pool

\* What a killed container left behind has not passed the second look at the event.
KilledIsHeld ==
    \A w \in Worker :
        job[w].cut => signal # "none" /\ job[w].pc \notin {"append", "mirror_state"}

\* A record on its way to the database is a line already.
MirrorAfterLine ==
    \A w \in Worker :
        job[w].pc = "mirror_state" =>
            \E i \in DOMAIN ledger :
                ledger[i].cand = job[w].cand /\ ledger[i].status = job[w].status

LedgerInv ==
    /\ OneVerdictPerKey
    /\ NoVerdictFromKilled
    /\ OnePlace
    /\ PoolOfTheRun
    /\ KilledIsHeld
    /\ MirrorAfterLine

----------------------------------------------------------------------------
(* Sequences with one element removed.                                     *)

\* RemoveAt gives a sequence one shorter that keeps the elements before i and moves the
\* others down: what an operator's edit does to the state file.
LEMMA RemoveAtProperties ==
    ASSUME NEW S, NEW s \in Seq(S), NEW i \in 1..Len(s)
    PROVE  /\ RemoveAt(s, i) \in Seq(S)
           /\ Len(RemoveAt(s, i)) = Len(s) - 1
           /\ \A j \in 1..(Len(s) - 1) :
                 RemoveAt(s, i)[j] = IF j < i THEN s[j] ELSE s[j + 1]
PROOF
<1> DEFINE a == SubSeq(s, 1, i - 1)
           b == SubSeq(s, i + 1, Len(s))
<1>0. Len(s) \in Nat /\ i \in Nat /\ 1 <= i /\ i <= Len(s)
  BY LenProperties
<1>1. a \in Seq(S) /\ Len(a) = i - 1 /\ \A j \in 1..(i - 1) : a[j] = s[j]
  BY <1>0, ElementOfSeq, SubSeqProperties
<1>2. b \in Seq(S) /\ Len(b) = Len(s) - i /\ \A j \in 1..(Len(s) - i) : b[j] = s[i + j]
  BY <1>0, ElementOfSeq, SubSeqProperties
<1>3. RemoveAt(s, i) = a \o b
  BY DEF RemoveAt
<1> HIDE DEF a, b
<1>4. /\ a \o b \in Seq(S)
      /\ Len(a \o b) = Len(a) + Len(b)
      /\ \A j \in 1..(Len(a) + Len(b)) :
            (a \o b)[j] = IF j <= Len(a) THEN a[j] ELSE b[j - Len(a)]
  BY <1>1, <1>2, ConcatProperties
<1>5. Len(a) + Len(b) = Len(s) - 1
  BY <1>0, <1>1, <1>2
<1>6. ASSUME NEW j \in 1..(Len(s) - 1)
      PROVE  (a \o b)[j] = IF j < i THEN s[j] ELSE s[j + 1]
  <2>0. (a \o b)[j] = IF j <= Len(a) THEN a[j] ELSE b[j - Len(a)]
    BY <1>4, <1>5
  <2>1. CASE j < i
    BY <2>0, <2>1, <1>0, <1>1
  <2>2. CASE ~(j < i)
    <3>1. j - Len(a) \in 1..(Len(s) - i) /\ i + (j - Len(a)) = j + 1 /\ ~(j <= Len(a))
      BY <2>2, <1>0, <1>1
    <3> QED BY <2>0, <2>2, <3>1, <1>2
  <2> QED BY <2>1, <2>2
<1> QED BY <1>3, <1>4, <1>5, <1>6

----------------------------------------------------------------------------
(* Type correctness.                                                       *)

\* A step that gives one worker a sound job leaves every job sound.
LEMMA JobMoves ==
    ASSUME job \in [Worker -> Job], \A w \in Worker : JobOK(job[w]),
           NEW v \in Worker, NEW j, JobOK(j), job' = [job EXCEPT ![v] = j]
    PROVE  job' \in [Worker -> Job] /\ \A w \in Worker : JobOK(job'[w])
PROOF BY DEF JobOK

\* What a worker reads of the run's options has its type.
LEMMA OptionTypes ==
    ASSUME TypeOK, NEW w \in Worker, JobOK(job[w]), job[w].pc # "idle"
    PROVE  /\ job[w].cand \in Candidate
           /\ Mine(w) \in Entry
           /\ Bucket(w) \in Tag \cup {NoTag}
           /\ Wanted(w) \in Tag \cup {NoTag}
PROOF
<1>1. opts \in Option
  BY DriveAssumption DEF TypeOK
<1>2. job[w].cand \in Candidate
  BY DEF JobOK
<1> QED BY <1>1, <1>2, DriveAssumption DEF Option, Mine, Bucket, Wanted

\* A readable entry file carries a tag and a result.
LEMMA FileTypes ==
    ASSUME TypeOK, NEW e \in Entry, Readable(e)
    PROVE  disk[e].tag \in Tag /\ disk[e].from \in Result
PROOF BY DEF TypeOK, Readable, File, Absent, Torn, Whole, Content

\* Truncating an entry, or writing one with a tag and a result, keeps files and rows typed.
LEMMA OverwriteTypes ==
    ASSUME TypeOK, NEW e \in Entry, NEW f \in File, Overwrite(e, f)
    PROVE  disk' \in [Entry -> File] /\ row' \in [Entry -> {"absent", "current", "stale"}]
PROOF BY DEF TypeOK, Overwrite

\* A job with a tag and a result makes a whole file.
LEMMA WholeIsFile ==
    ASSUME NEW j, j.tag \in Tag, j.from \in Result
    PROVE  Whole(j) \in File
PROOF
<1>1. [tag |-> j.tag, from |-> j.from] \in Content
  BY DEF Content
<1>2. Whole(j) = Whole([tag |-> j.tag, from |-> j.from])
  BY DEF Whole
<1> QED BY <1>1, <1>2 DEF File

\* Before the first run every variable has its type.
LEMMA TypeInit == Init => TypeInv
PROOF
<1> SUFFICES ASSUME Init PROVE TypeInv
  OBVIOUS
<1>1. Idle \in Job /\ JobOK(Idle)
  BY DEF Idle, Job, PC, JobOK, HasTag, HasPost, HasEntry, HasStatus
<1>2. ledger \in Seq(Line)
  BY EmptySeq DEF Init
<1>3. disk \in [Entry -> File]
  BY DEF Init, File
<1>4. /\ row \in [Entry -> {"absent", "current", "stale"}]
      /\ mirrored \in [Key -> Status \cup {"none"}]
  BY DEF Init
<1>5. images \subseteq Tag /\ fatIndex \subseteq Tag
  BY DriveAssumption DEF Init
<1>6. runs \in 0..MaxRuns /\ crashes \in 0..MaxCrashes
  BY DriveAssumption DEF Init
<1>7. job \in [Worker -> Job] /\ \A w \in Worker : JobOK(job[w])
  BY <1>1 DEF Init
<1>8. up \in BOOLEAN /\ opts \in Options /\ todo \subseteq Candidate
      /\ signal \in {"none", "raised", "handled", "stuck"}
  BY DEF Init
<1> QED BY <1>2, <1>3, <1>4, <1>5, <1>6, <1>7, <1>8 DEF TypeInv, TypeOK

\* A worker moves on to a stage whose fields its job has.
LEMMA GotoTypes ==
    ASSUME TypeInv, NEW w \in Worker, NEW pc \in PC, Goto(w, pc),
           job[w].pc # "idle",
           pc \in HasTag => job[w].tag \in Tag,
           pc \in HasPost => job[w].post \in Result,
           pc \in HasEntry => job[w].from \in Result,
           pc \in HasStatus => job[w].status \in Status
    PROVE  job' \in [Worker -> Job] /\ \A v \in Worker : JobOK(job'[v])
PROOF
<1> DEFINE j == [job[w] EXCEPT !.pc = pc]
<1>1. JobOK(job[w])
  BY DEF TypeInv
<1>2. JobOK(j)
  BY <1>1 DEF JobOK, Job
<1>3. job' = [job EXCEPT ![w] = j]
  BY DEF Goto
<1> QED BY <1>2, <1>3, JobMoves DEF TypeInv, TypeOK

\* process() returns: only the record and whence it came are left of the job.
LEMMA ReturnedOK ==
    ASSUME NEW j \in Job, j.cand \in Candidate, NEW s \in Status
    PROVE  /\ JobOK(Returned(j, s))
           /\ Returned(j, s).pc = "return" /\ Returned(j, s).cand = j.cand
           /\ Returned(j, s).status = s /\ Returned(j, s).cut = j.cut
PROOF
<1> DEFINE k == Returned(j, s)
<1> DEFINE x == IF s = "ok" THEN j.shown ELSE "none"
<1>0. j.cut \in BOOLEAN /\ x \in Category \cup {"none"}
  BY DEF Job
<1> HIDE DEF x
<1>3. k = [Idle EXCEPT !.pc = "return", !.cand = j.cand, !.status = s,
                       !.cut = j.cut, !.shown = x]
  BY DEF Returned, x
<1> HIDE DEF k
<1>4. k.pc = "return" /\ k.cand = j.cand /\ k.status = s
  BY <1>3 DEF Idle
<1>5. k.cut = j.cut
  BY <1>3, Zenon DEF Idle
<1>6. k \in Job
  BY <1>0, <1>3 DEF Idle, Job, PC
<1>7. JobOK(k)
  BY <1>4, <1>6 DEF JobOK, HasTag, HasPost, HasEntry
<1> QED BY <1>4, <1>5, <1>7 DEF k

\* The end of a container: its worker moves on with a result.
LEMMA EndsOK ==
    ASSUME NEW j, JobOK(j), j.pc \in Running, NEW r \in Result
    PROVE  /\ JobOK(Ends(j, r))
           /\ Ends(j, r).pc \in {"post_start", "fix_start", "decide"}
           /\ Ends(j, r).cand = j.cand
           /\ Ends(j, r).cut <=> j.cut \/ r = "killed"
PROOF
<1> DEFINE c == j.cut \/ r = "killed"
<1>1. j \in Job /\ j.cut \in BOOLEAN
  BY DEF JobOK, Job
<1>2. CASE j.pc = "pre_run"
  <2>1. Ends(j, r) = [j EXCEPT !.cut = c, !.pc = "post_start", !.pre = r]
    BY <1>1, <1>2 DEF Ends, Job
  <2> QED BY <1>1, <1>2, <2>1 DEF JobOK, Job, PC, HasTag, HasPost, HasEntry, HasStatus
<1>3. CASE j.pc = "post_run"
  <2>1. Ends(j, r) = [j EXCEPT !.cut = c, !.pc = AfterPost(j), !.post = r]
    BY <1>1, <1>3 DEF Ends, Job
  <2>2. AfterPost(j) \in {"fix_start", "decide"}
    BY DEF AfterPost
  <2> QED BY <1>1, <1>3, <2>1, <2>2 DEF JobOK, Job, PC, HasTag, HasPost, HasEntry, HasStatus
<1>4. CASE j.pc = "fix_run"
  <2>1. Ends(j, r) = [j EXCEPT !.cut = c, !.pc = "decide"]
    BY <1>1, <1>4 DEF Ends, Job
  <2> QED BY <1>1, <1>4, <2>1 DEF JobOK, Job, PC, HasTag, HasPost, HasEntry, HasStatus
<1> QED BY <1>2, <1>3, <1>4 DEF Running

\* process() returns: the job has a terminal status.
LEMMA ReturnTypes ==
    ASSUME TypeInv, NEW w \in Worker, NEW s \in Status, Return(w, s), job[w].pc # "idle"
    PROVE  job' \in [Worker -> Job] /\ \A v \in Worker : JobOK(job'[v])
PROOF
<1>1. job[w] \in Job /\ job[w].cand \in Candidate
  BY DEF TypeInv, JobOK
<1>2. JobOK(Returned(job[w], s)) /\ job' = [job EXCEPT ![w] = Returned(job[w], s)]
  BY <1>1, ReturnedOK DEF Return
<1> QED BY <1>2, JobMoves DEF TypeInv, TypeOK

\* An idle worker needs no field.
LEMMA IdleOK == JobOK(Idle)
PROOF BY DEF Idle, Job, PC, JobOK, HasTag, HasPost, HasEntry, HasStatus

\* A worker that lets go of its candidate is a sound, idle one.
LEMMA ReleaseTypes ==
    ASSUME TypeInv, NEW w \in Worker, Release(w)
    PROVE  job' \in [Worker -> Job] /\ \A v \in Worker : JobOK(job'[v])
PROOF BY IdleOK, JobMoves DEF Release, TypeInv, TypeOK

\* Steps that change nothing but one worker.
LEMMA JobOnlyTypes ==
    ASSUME TypeInv, job' \in [Worker -> Job],
           \A v \in Worker : JobOK(job'[v]),
           UNCHANGED <<files, up, opts, todo, signal, runs, crashes>>
    PROVE  TypeInv'
PROOF BY DEF TypeInv, TypeOK, files

\* The steps with which process() returns.
LEMMA ReturningTypes ==
    ASSUME TypeInv, NEW w \in Worker,
           \/ MetadataFails(w) \/ EntryStale(w) \/ CommitTooLate(w) \/ ImageMissing(w)
           \/ BuildFails(w) \/ IntrospectFails(w) \/ Unreproducible(w) \/ AssembleFails(w)
           \/ RegenFails(w)
    PROVE  TypeInv'
PROOF
<1>1. job[w].pc # "idle" /\ UNCHANGED <<files, up, opts, todo, signal, runs, crashes>>
  BY DEF MetadataFails, EntryStale, CommitTooLate, ImageMissing, BuildFails,
       IntrospectFails, Unreproducible, AssembleFails, RegenFails, At
<1>2. PICK s \in Status : Return(w, s)
  BY DEF MetadataFails, EntryStale, CommitTooLate, ImageMissing, BuildFails,
       IntrospectFails, Unreproducible, AssembleFails, RegenFails, RegenStatus, Status
<1> QED BY <1>1, <1>2, ReturnTypes, JobOnlyTypes

\* The steps that only move a worker to its next stage.
LEMMA MovingTypes ==
    ASSUME TypeInv, NEW w \in Worker,
           \/ NoEntry(w) \/ EntryDiscarded(w) \/ EntryMatches(w) \/ StartContainer(w) \/ Accept(w)
    PROVE  TypeInv'
PROOF
<1>1. job[w].pc # "idle" /\ UNCHANGED <<files, up, opts, todo, signal, runs, crashes>>
  BY DEF NoEntry, EntryDiscarded, EntryMatches, StartContainer, Accept, At
<1>2. JobOK(job[w])
  BY DEF TypeInv
<1>3. PICK pc \in PC : /\ Goto(w, pc)
                       /\ pc \in HasTag => job[w].pc \in HasTag
                       /\ pc \in HasPost => job[w].pc \in HasPost
                       /\ pc \notin HasEntry
                       /\ pc \in HasStatus => job[w].pc \in HasStatus
  BY DEF NoEntry, EntryDiscarded, EntryMatches, StartContainer, Accept, At, PC, HasTag,
       HasPost, HasEntry, HasStatus
<1>4. job' \in [Worker -> Job] /\ \A v \in Worker : JobOK(job'[v])
  BY <1>1, <1>2, <1>3, GotoTypes DEF JobOK
<1> QED BY <1>1, <1>4, JobOnlyTypes

\* A worker that gets a tag, a result or a status along with its next stage.
LEMMA FillingTypes ==
    ASSUME TypeInv, NEW w \in Worker,
           \/ UseImage(w) \/ PreExits(w) \/ PostExits(w) \/ FixExits(w)
           \/ RegenBuilds(w) \/ RegenTests(w)
    PROVE  TypeInv'
PROOF
<1>1. job[w].pc # "idle" /\ UNCHANGED <<files, up, opts, todo, signal, runs, crashes>>
  BY DEF UseImage, PreExits, PostExits, FixExits, ContainerExits, RegenBuilds, RegenTests, At
<1>2. TypeOK /\ JobOK(job[w]) /\ Mine(w) \in Entry
  BY <1>1, OptionTypes DEF TypeInv
<1>3. ASSUME NEW j, JobOK(j), job' = [job EXCEPT ![w] = j]
      PROVE  TypeInv'
  BY <1>1, <1>3, JobMoves, JobOnlyTypes DEF TypeInv, TypeOK
<1>4. CASE UseImage(w)
  <2> DEFINE j == [job[w] EXCEPT !.pc = "pre_start", !.tag = Wanted(w)]
  <2>1. Wanted(w) \in Tag /\ job' = [job EXCEPT ![w] = j]
    BY <1>2, <1>4 DEF UseImage, TypeOK
  <2>2. JobOK(j)
    BY <1>1, <1>2, <2>1 DEF JobOK, Job, PC, HasPost, HasEntry, HasStatus
  <2> QED BY <1>3, <2>1, <2>2
<1>5. CASE PreExits(w) \/ PostExits(w) \/ FixExits(w)
  <2>1. PICK r \in Result : job' = [job EXCEPT ![w] = Ends(job[w], r)]
    BY <1>5 DEF PreExits, PostExits, FixExits, ContainerExits, Exits, Result
  <2>2. job[w].pc \in Running
    BY <1>5 DEF PreExits, PostExits, FixExits, ContainerExits, At, Running
  <2> QED BY <1>2, <1>3, <2>1, <2>2, EndsOK
<1>7. CASE RegenBuilds(w)
  <2> DEFINE j == [job[w] EXCEPT !.pc = "test", !.tag = disk[Mine(w)].tag,
                                 !.from = disk[Mine(w)].from]
  <2>1. /\ disk[Mine(w)].tag \in Tag /\ disk[Mine(w)].from \in Result
        /\ job' = [job EXCEPT ![w] = j]
    BY <1>2, <1>7, FileTypes DEF RegenBuilds
  <2>2. JobOK(j)
    BY <1>1, <1>2, <2>1 DEF JobOK, Job, PC, HasPost, HasStatus
  <2> QED BY <1>3, <2>1, <2>2
<1>8. CASE RegenTests(w)
  <2>1. PICK s \in Status, x \in Category \cup {"none"} :
             job' = [job EXCEPT ![w] =
                        [job[w] EXCEPT !.pc = "rewrite_open", !.shown = x, !.status = s]]
    BY <1>8 DEF RegenTests, Status
  <2>2. job[w].pc = "test"
    BY <1>8 DEF RegenTests, At
  <2>3. JobOK([job[w] EXCEPT !.pc = "rewrite_open", !.shown = x, !.status = s])
    BY <1>2, <2>2 DEF JobOK, Job, PC, HasTag, HasPost, HasEntry, HasStatus
  <2> QED BY <1>3, <2>1, <2>3
<1> QED BY <1>4, <1>5, <1>7, <1>8

\* Building and registering an image.
LEMMA ImageTypes ==
    ASSUME TypeInv, NEW w \in Worker, BuildImage(w) \/ RegisterImage(w)
    PROVE  TypeInv'
PROOF
<1>1. TypeOK /\ JobOK(job[w]) /\ job[w].pc # "idle"
  BY DEF TypeInv, BuildImage, RegisterImage, At
<1>2. CASE BuildImage(w)
  <2> DEFINE j == [job[w] EXCEPT !.pc = "register", !.tag = Wanted(w)]
  <2>1. Wanted(w) \in Tag /\ job' = [job EXCEPT ![w] = j]
    BY <1>2 DEF BuildImage, MayBuild
  <2>2. JobOK(j)
    BY <1>1, <2>1 DEF JobOK, Job, PC, HasPost, HasEntry, HasStatus
  <2>3. job' \in [Worker -> Job] /\ \A v \in Worker : JobOK(job'[v])
    BY <2>1, <2>2, JobMoves DEF TypeInv, TypeOK
  <2> QED BY <1>2, <2>1, <2>3 DEF BuildImage, TypeInv, TypeOK
<1>3. CASE RegisterImage(w)
  <2>1. job[w].pc = "register" /\ job[w].tag \in Tag
    BY <1>1, <1>3 DEF RegisterImage, At, JobOK, HasTag
  <2>2. job' \in [Worker -> Job] /\ \A v \in Worker : JobOK(job'[v])
    BY <1>1, <1>3, <2>1, GotoTypes DEF RegisterImage, PC, HasPost, HasEntry, HasStatus
  <2> QED BY <1>3, <2>1, <2>2 DEF RegisterImage, TypeInv, TypeOK
<1> QED BY <1>2, <1>3

\* After the entry is written: on to the verification, or home with ok.
LEMMA WroteOK ==
    ASSUME NEW j, JobOK(j), j.pc # "idle"
    PROVE  JobOK(Wrote(j))
PROOF
<1>1. CASE opts.verify
  <2>1. Wrote(j) = [j EXCEPT !.pc = "regenerate", !.fresh = TRUE]
    BY <1>1 DEF Wrote
  <2> QED BY <2>1 DEF JobOK, Job, PC, HasTag, HasPost, HasEntry, HasStatus
<1>2. CASE ~opts.verify
  <2>1. Wrote(j) = Returned(j, "ok")
    BY <1>2 DEF Wrote
  <2> QED BY <2>1, ReturnedOK DEF JobOK, Status
<1> QED BY <1>1, <1>2

\* A truncated file, or one made of a tag and a result, is a file.
LEMMA EntryFileTypes ==
    ASSUME TypeInv, NEW w \in Worker,
           OpenEntry(w) \/ WriteEntry(w) \/ RegenOpen(w) \/ RegenWrites(w)
    PROVE  TypeInv'
PROOF
<1>1. /\ TypeOK /\ JobOK(job[w]) /\ job[w].pc # "idle"
      /\ UNCHANGED <<ledger, mirrored, images, fatIndex, up, opts, todo, signal, runs, crashes>>
  BY DEF TypeInv, OpenEntry, WriteEntry, RegenOpen, RegenWrites, At
<1>2. Mine(w) \in Entry
  BY <1>1, OptionTypes
<1>3. PICK f \in File : Overwrite(Mine(w), f)
  <2>1. CASE OpenEntry(w) \/ RegenOpen(w)
    BY <2>1 DEF OpenEntry, RegenOpen, File
  <2>2. CASE WriteEntry(w) \/ RegenWrites(w)
    <3>1. job[w].tag \in Tag /\ job[w].from \in Result
      BY <1>1, <2>2 DEF WriteEntry, RegenWrites, At, JobOK, HasTag, HasPost, HasEntry
    <3> QED BY <2>2, <3>1, WholeIsFile DEF WriteEntry, RegenWrites
  <2> QED BY <2>1, <2>2
<1>4. disk' \in [Entry -> File] /\ row' \in [Entry -> {"absent", "current", "stale"}]
  BY <1>1, <1>2, <1>3, OverwriteTypes
<1>5. job' \in [Worker -> Job] /\ \A v \in Worker : JobOK(job'[v])
  <2>1. CASE OpenEntry(w)
    <3> DEFINE j == [job[w] EXCEPT !.pc = "write", !.from = job[w].post,
                                   !.shown = Discovered(job[w].post)]
    <3>1. job[w].pc = "decide" /\ job' = [job EXCEPT ![w] = j]
      BY <2>1 DEF OpenEntry, At
    <3>3. Discovered(job[w].post) \in Category /\ job[w].post \in Result
      BY <1>1, <3>1 DEF Discovered, Category, JobOK, HasPost
    <3>2. JobOK(j)
      BY <1>1, <3>1, <3>3 DEF JobOK, Job, PC, HasTag, HasPost, HasEntry, HasStatus
    <3> QED BY <1>1, <3>1, <3>2, JobMoves DEF TypeInv, TypeOK
  <2>2. CASE WriteEntry(w)
    <3> DEFINE j == IF opts.db THEN [job[w] EXCEPT !.pc = "mirror_entry"] ELSE Wrote(job[w])
    <3>1. job' = [job EXCEPT ![w] = j]
      BY <2>2 DEF WriteEntry
    <3>2. JobOK([job[w] EXCEPT !.pc = "mirror_entry"])
      BY <1>1 DEF JobOK, Job, PC, HasTag, HasPost, HasEntry, HasStatus
    <3>3. JobOK(j)
      BY <1>1, <3>2, WroteOK
    <3> HIDE DEF j
    <3> QED BY <1>1, <3>1, <3>3, JobMoves DEF TypeInv, TypeOK
  <2>3. CASE RegenOpen(w)
    <3>1. job[w].pc = "rewrite_open" /\ Goto(w, "rewrite")
      BY <2>3 DEF RegenOpen, At
    <3> QED BY <1>1, <3>1, GotoTypes DEF JobOK, PC, HasTag, HasPost, HasEntry, HasStatus
  <2>4. CASE RegenWrites(w)
    <3>1. job[w].status \in Status /\ Return(w, job[w].status)
      BY <1>1, <2>4 DEF RegenWrites, At, JobOK, HasStatus
    <3> QED BY <1>1, <3>1, ReturnTypes
  <2> QED BY <2>1, <2>2, <2>3, <2>4
<1> QED BY <1>1, <1>4, <1>5 DEF TypeInv, TypeOK

\* Indexing the entry changes a row and the worker.
LEMMA MirrorEntryTypes ==
    ASSUME TypeInv, NEW w \in Worker, MirrorEntry(w)
    PROVE  TypeInv'
PROOF
<1>1. TypeOK /\ JobOK(job[w]) /\ job[w].pc # "idle"
  BY DEF TypeInv, MirrorEntry, At
<1>2. row' \in [Entry -> {"absent", "current", "stale"}]
  BY <1>1 DEF MirrorEntry, TypeOK
<1>3. job' = [job EXCEPT ![w] = Wrote(job[w])]
  BY DEF MirrorEntry
<1>4. JobOK(Wrote(job[w]))
  BY <1>1, WroteOK
<1>5. job' \in [Worker -> Job] /\ \A v \in Worker : JobOK(job'[v])
  BY <1>1, <1>3, <1>4, JobMoves DEF TypeInv, TypeOK
<1> QED BY <1>1, <1>2, <1>5 DEF MirrorEntry, TypeInv, TypeOK

\* What a job that has a status says makes a line.
LEMMA LineType ==
    ASSUME NEW j, JobOK(j), j.pc \in HasStatus
    PROVE  LineOf(j) \in Line
PROOF BY DEF JobOK, Job, LineOf, Line, HasStatus

\* The end of a candidate keeps lines, rows and workers typed.
LEMMA SettlingTypes ==
    ASSUME TypeInv, NEW w \in Worker,
           Interrupted(w) \/ AppendState(w) \/ MirrorState(w) \/ Raises(w)
    PROVE  TypeInv'
PROOF
<1>1. TypeOK /\ JobOK(job[w])
  BY DEF TypeInv
<1>2. CASE Interrupted(w)
  BY <1>2, ReleaseTypes, JobOnlyTypes DEF Interrupted
<1>3. CASE AppendState(w)
  <2>1. job[w].pc = "append" /\ (Goto(w, "mirror_state") \/ Release(w))
    BY <1>3 DEF AppendState, At
  <2>2. LineOf(job[w]) \in Line /\ job[w].status \in Status
    BY <1>1, <2>1, LineType DEF JobOK, HasStatus
  <2>3. ledger' \in Seq(Line)
    BY <1>1, <1>3, <2>2, AppendProperties DEF AppendState, TypeOK
  <2>4. job' \in [Worker -> Job] /\ \A v \in Worker : JobOK(job'[v])
    BY <1>1, <2>1, <2>2, ReleaseTypes, GotoTypes DEF PC, HasTag, HasPost, HasEntry
  <2> QED BY <1>1, <1>3, <2>3, <2>4 DEF AppendState, TypeInv, TypeOK
<1>4. CASE MirrorState(w)
  <2>1. KeyOf[job[w].cand] \in Key /\ job[w].status \in Status
    BY <1>1, <1>4, DriveAssumption DEF MirrorState, At, JobOK, HasStatus
  <2>2. mirrored' \in [Key -> Status \cup {"none"}]
    BY <1>1, <1>4, <2>1 DEF MirrorState, TypeOK
  <2> QED BY <1>1, <1>4, <2>2, ReleaseTypes DEF MirrorState, TypeInv, TypeOK
<1>5. CASE Raises(w)
  <2>1. up' \in BOOLEAN /\ todo' \subseteq Candidate
    BY <1>1, <1>5 DEF Raises, TypeOK
  <2> QED BY <1>1, <1>5, <2>1, ReleaseTypes DEF Raises, files, TypeInv, TypeOK
<1> QED BY <1>2, <1>3, <1>4, <1>5

\* The steps of the run as a whole: start, hand-out, signal, end, kill, an operator's edit.
LEMMA RunTypes ==
    ASSUME TypeInv,
           \/ \E o \in Options : Start(o)
           \/ \E w \in Worker, c \in Candidate : Take(w, c)
           \/ Signal \/ KillContainers \/ HandlerSticks \/ CancelRest \/ Finish \/ Crash
           \/ \E i \in DOMAIN ledger : DeleteLine(i)
    PROVE  TypeInv'
PROOF
<1>1. TypeOK /\ \A w \in Worker : JobOK(job[w])
  BY DEF TypeInv
<1>2. ASSUME NEW o \in Options, Start(o) PROVE TypeInv'
  <2>1. job' \in [Worker -> Job] /\ \A v \in Worker : JobOK(job'[v])
    BY <1>2, IdleOK DEF Start, JobOK
  <2>2. runs' \in 0..MaxRuns
    BY <1>1, <1>2, DriveAssumption DEF Start, TypeOK
  <2> QED BY <1>1, <1>2, <2>1, <2>2 DEF Start, Unrecorded, files, TypeInv, TypeOK
<1>3. ASSUME NEW w \in Worker, NEW c \in Candidate, Take(w, c) PROVE TypeInv'
  <2> DEFINE j == [Idle EXCEPT !.pc = "metadata", !.cand = c]
  <2>1. JobOK(j)
    BY DEF Idle, JobOK, Job, PC, HasTag, HasPost, HasEntry, HasStatus
  <2>2. job' = [job EXCEPT ![w] = j] /\ todo' \subseteq Candidate
    BY <1>1, <1>3 DEF Take, TypeOK
  <2>3. job' \in [Worker -> Job] /\ \A v \in Worker : JobOK(job'[v])
    BY <1>1, <2>1, <2>2, JobMoves DEF TypeOK
  <2> QED BY <1>1, <1>3, <2>2, <2>3 DEF Take, files, TypeInv, TypeOK
<1>4. CASE Signal \/ HandlerSticks
  BY <1>1, <1>4 DEF Signal, HandlerSticks, files, TypeInv, TypeOK
<1>5. CASE KillContainers
  <2>1. PICK K \in SUBSET {w \in Worker : job[w].pc \in Running} :
             job' = [w \in Worker |-> IF w \in K THEN Ends(job[w], "killed") ELSE job[w]]
    BY <1>5 DEF KillContainers
  <2>2. ASSUME NEW w \in Worker, job[w].pc \in Running
        PROVE  JobOK(Ends(job[w], "killed"))
    BY <1>1, <2>2, EndsOK DEF Result
  <2>3. \A w \in Worker : JobOK(job'[w])
    BY <1>1, <2>1, <2>2
  <2>4. job' \in [Worker -> Job]
    BY <2>1, <2>3 DEF JobOK
  <2> QED BY <1>1, <1>5, <2>3, <2>4 DEF KillContainers, files, TypeInv, TypeOK
<1>6. CASE CancelRest \/ Finish
  BY <1>1, <1>6 DEF CancelRest, Finish, files, TypeInv, TypeOK
<1>7. CASE Crash
  <2>1. job' \in [Worker -> Job] /\ \A v \in Worker : JobOK(job'[v])
    BY <1>7, IdleOK DEF Crash, JobOK
  <2>2. crashes' \in 0..MaxCrashes
    BY <1>1, <1>7, DriveAssumption DEF Crash, TypeOK
  <2> QED BY <1>1, <1>7, <2>1, <2>2 DEF Crash, files, TypeInv, TypeOK
<1>8. ASSUME NEW i \in DOMAIN ledger, DeleteLine(i) PROVE TypeInv'
  <2>1. ledger \in Seq(Line) /\ i \in 1..Len(ledger)
    BY <1>1, LenProperties DEF TypeOK
  <2>2. ledger' \in Seq(Line)
    BY <1>8, <2>1, RemoveAtProperties DEF DeleteLine
  <2> QED BY <1>1, <1>8, <2>2 DEF DeleteLine, process, TypeInv, TypeOK
<1> QED BY <1>2, <1>3, <1>4, <1>5, <1>6, <1>7, <1>8

\* Every step of the driver keeps the types.
LEMMA TypeStep == TypeInv /\ [Next]_vars => TypeInv'
PROOF
<1> SUFFICES ASSUME TypeInv, [Next]_vars PROVE TypeInv'
  OBVIOUS
<1>1. ASSUME NEW w \in Worker, WorkerStep(w) PROVE TypeInv'
  <2>1. CASE Process(w)
    BY <2>1, ReturningTypes, MovingTypes, FillingTypes, ImageTypes, EntryFileTypes,
       MirrorEntryTypes, SettlingTypes DEF Process
  <2> QED BY <1>1, <2>1, RunTypes, SettlingTypes DEF WorkerStep
<1>2. CASE UNCHANGED vars
  BY <1>2 DEF vars, TypeInv, TypeOK
<1> QED BY <1>1, <1>2, RunTypes DEF Next

\* In every run of the driver the variables have their types.
THEOREM TypeCorrect == Spec => []TypeOK
PROOF
<1>1. TypeInv => TypeOK
  BY DEF TypeInv
<1> QED BY <1>1, TypeInit, TypeStep, PTL DEF Spec

----------------------------------------------------------------------------
(* The state file and the workers.                                         *)

\* A step inside process(): one worker goes on with its candidate.
Advances(w) ==
    /\ Unsettled(w)
    /\ UNCHANGED <<ledger, up, opts, todo, signal>>
    /\ \E j \in Job :
          /\ job' = [job EXCEPT ![w] = j]
          /\ j.pc \notin {"idle", "append", "mirror_state"}
          /\ j.cand = job[w].cand
          /\ j.cut => job[w].cut

\* Inside process() a worker keeps its candidate, writes no line and makes up no result.
LEMMA ProcessAdvances ==
    ASSUME TypeInv, NEW w \in Worker, Process(w),
           ~Accept(w), ~Interrupted(w), ~AppendState(w), ~MirrorState(w)
    PROVE  Advances(w)
PROOF
<1> DEFINE Onward(j) == /\ j.pc \notin {"idle", "append", "mirror_state"}
                        /\ j.cand = job[w].cand
                        /\ j.cut => job[w].cut
<1>1. job[w] \in Job /\ job \in [Worker -> Job] /\ JobOK(job[w])
  BY DEF TypeInv, TypeOK
<1>2. ASSUME NEW pc \in PC \ {"idle", "append", "mirror_state"}, Goto(w, pc)
      PROVE  \E j : job' = [job EXCEPT ![w] = j] /\ Onward(j)
  <2>1. Onward([job[w] EXCEPT !.pc = pc])
    BY <1>1 DEF Job
  <2> HIDE DEF Onward
  <2> QED BY <1>2, <2>1 DEF Goto
<1>4. Unsettled(w) /\ UNCHANGED <<ledger, up, opts, todo, signal>>
  BY DEF Process, Unsettled, At, files, MetadataFails, EntryStale, CommitTooLate,
       ImageMissing, BuildFails,
         IntrospectFails, Unreproducible, AssembleFails, RegenFails, NoEntry,
         EntryDiscarded, EntryMatches, StartContainer, RegisterImage, RegenOpen,
         RegenWrites, UseImage, BuildImage, OpenEntry, RegenBuilds, PreExits,
         PostExits, FixExits, ContainerExits, WriteEntry, MirrorEntry, RegenTests
<1>3. ASSUME NEW s \in Status, Return(w, s)
      PROVE  \E j : job' = [job EXCEPT ![w] = j] /\ Onward(j)
  <2>1. job[w].cand \in Candidate
    BY <1>1, <1>4 DEF JobOK, Unsettled
  <2>2. Onward(Returned(job[w], s))
    BY <1>1, <2>1, ReturnedOK
  <2> HIDE DEF Onward
  <2> QED BY <1>3, <2>2 DEF Return
<1>5. \E j : job' = [job EXCEPT ![w] = j] /\ Onward(j)
  <2>1. CASE \/ MetadataFails(w) \/ EntryStale(w) \/ CommitTooLate(w)
             \/ ImageMissing(w) \/ BuildFails(w) \/ IntrospectFails(w)
             \/ Unreproducible(w) \/ AssembleFails(w) \/ RegenFails(w) \/ RegenWrites(w)
    <3>2. RegenWrites(w) => Return(w, job[w].status) /\ job[w].status \in Status
      BY <1>1 DEF RegenWrites, At, JobOK, HasStatus
    <3>1. PICK s \in Status : Return(w, s)
      BY <2>1, <3>2 DEF MetadataFails, EntryStale, CommitTooLate, ImageMissing, BuildFails,
         IntrospectFails, Unreproducible, AssembleFails, RegenFails, RegenStatus, Status
    <3> HIDE DEF Onward
    <3> QED BY <1>3, <3>1
  <2>2. CASE \/ NoEntry(w) \/ EntryDiscarded(w) \/ EntryMatches(w) \/ StartContainer(w)
             \/ RegisterImage(w) \/ RegenOpen(w)
    <3>1. PICK pc \in PC \ {"idle", "append", "mirror_state"} : Goto(w, pc)
      BY <2>2 DEF NoEntry, EntryDiscarded, EntryMatches, StartContainer, RegisterImage,
         RegenOpen, PC
    <3> HIDE DEF Onward
    <3> QED BY <1>2, <3>1
  <2>3. CASE UseImage(w)
    <3> DEFINE j == [job[w] EXCEPT !.pc = "pre_start", !.tag = Wanted(w)]
    <3>1. job' = [job EXCEPT ![w] = j]
      BY <2>3 DEF UseImage
    <3>2. Onward(j)
      BY <1>1 DEF Job
    <3> HIDE DEF Onward, j
    <3> QED BY <3>1, <3>2
  <2>4. CASE BuildImage(w)
    <3> DEFINE j == [job[w] EXCEPT !.pc = "register", !.tag = Wanted(w)]
    <3>1. job' = [job EXCEPT ![w] = j]
      BY <2>4 DEF BuildImage
    <3>2. Onward(j)
      BY <1>1 DEF Job
    <3> HIDE DEF Onward, j
    <3> QED BY <3>1, <3>2
  <2>5. CASE OpenEntry(w)
    <3> DEFINE j == [job[w] EXCEPT !.pc = "write", !.from = job[w].post,
                                   !.shown = Discovered(job[w].post)]
    <3>1. job' = [job EXCEPT ![w] = j]
      BY <2>5 DEF OpenEntry
    <3>2. Onward(j)
      BY <1>1 DEF Job
    <3> HIDE DEF Onward, j
    <3> QED BY <3>1, <3>2
  <2>6. CASE RegenBuilds(w)
    <3> DEFINE j == [job[w] EXCEPT !.pc = "test", !.tag = disk[Mine(w)].tag,
                                    !.from = disk[Mine(w)].from]
    <3>1. job' = [job EXCEPT ![w] = j]
      BY <2>6 DEF RegenBuilds
    <3>2. Onward(j)
      BY <1>1 DEF Job
    <3> HIDE DEF Onward, j
    <3> QED BY <3>1, <3>2
  <2>7. CASE PreExits(w) \/ PostExits(w) \/ FixExits(w)
    <3>1. PICK r \in Result \ {"killed"} : job' = [job EXCEPT ![w] = Ends(job[w], r)]
      BY <2>7 DEF PreExits, PostExits, FixExits, ContainerExits, Exits, Result
    <3>2. job[w].pc \in Running
      BY <2>7 DEF PreExits, PostExits, FixExits, ContainerExits, At, Running
    <3>3. Onward(Ends(job[w], r))
      BY <1>1, <3>2, EndsOK
    <3> HIDE DEF Onward
    <3> QED BY <3>1, <3>3
  <2>9. CASE WriteEntry(w) \/ MirrorEntry(w)
    <3>1. Onward([job[w] EXCEPT !.pc = "mirror_entry"])
      BY <1>1 DEF Job
    <3>2. Onward([job[w] EXCEPT !.pc = "regenerate", !.fresh = TRUE])
      BY <1>1 DEF Job
    <3>3. Onward(Returned(job[w], "ok"))
      BY <1>1, <1>4, ReturnedOK DEF JobOK, Unsettled, Status
    <3> HIDE DEF Onward
    <3>4. Onward(Wrote(job[w]))
      BY <3>2, <3>3 DEF Wrote
    <3> QED BY <2>9, <3>1, <3>4 DEF WriteEntry, MirrorEntry
  <2>10. CASE RegenTests(w)
    <3>1. PICK s \in Status, x \in Category \cup {"none"} :
               job' = [job EXCEPT ![w] =
                          [job[w] EXCEPT !.pc = "rewrite_open", !.shown = x, !.status = s]]
      BY <2>10 DEF RegenTests, Status
    <3>2. Onward([job[w] EXCEPT !.pc = "rewrite_open", !.shown = x, !.status = s])
      BY <1>1 DEF Job
    <3> HIDE DEF Onward
    <3> QED BY <3>1, <3>2
  <2> QED BY <2>1, <2>2, <2>3, <2>4, <2>5, <2>6, <2>7, <2>9, <2>10 DEF Process
<1>6. TypeInv'
  BY TypeStep DEF Next, WorkerStep
<1>7. PICK j : job' = [job EXCEPT ![w] = j] /\ Onward(j)
  BY <1>5
<1>8. j \in Job
  BY <1>1, <1>6, <1>7 DEF TypeInv, TypeOK
<1> QED BY <1>4, <1>7, <1>8 DEF Advances

\* Going on with a candidate disturbs nothing the state file and the workers share.
LEMMA AdvancesStep ==
    ASSUME TypeInv, LedgerInv, NEW w \in Worker, Advances(w)
    PROVE  LedgerInv'
PROOF
<1>1. PICK j \in Job :
         /\ job' = [job EXCEPT ![w] = j]
         /\ j.pc \notin {"idle", "append", "mirror_state"}
         /\ j.cand = job[w].cand
         /\ j.cut => job[w].cut
  BY DEF Advances
<1>2. /\ job \in [Worker -> Job] /\ Unsettled(w) /\ Busy(w)
      /\ UNCHANGED <<ledger, up, opts, todo, signal>>
  BY DEF Advances, TypeInv, TypeOK, Unsettled, Busy
<1>3. /\ job'[w] = j
      /\ \A v \in Worker \ {w} : job'[v] = job[v]
  BY <1>1, <1>2
<1>4. Judged' = Judged
  BY <1>2 DEF Judged
<1>5. OneVerdictPerKey' /\ NoVerdictFromKilled'
  BY <1>2 DEF LedgerInv, OneVerdictPerKey, NoVerdictFromKilled
<1>6. OnePlace'
  BY <1>1, <1>2, <1>3, <1>4 DEF LedgerInv, OnePlace, Busy, Unsettled
<1>7. PoolOfTheRun'
  BY <1>1, <1>2, <1>3 DEF LedgerInv, PoolOfTheRun, Busy
<1>8. KilledIsHeld'
  BY <1>1, <1>2, <1>3 DEF LedgerInv, KilledIsHeld
<1>9. MirrorAfterLine'
  BY <1>1, <1>2, <1>3 DEF LedgerInv, MirrorAfterLine
<1> QED BY <1>5, <1>6, <1>7, <1>8, <1>9 DEF LedgerInv

\* A worker that keeps its record for the state file has not seen the event.
LEMMA AcceptStep ==
    ASSUME TypeInv, LedgerInv, NEW w \in Worker, Accept(w)
    PROVE  LedgerInv'
PROOF
<1> DEFINE j == [job[w] EXCEPT !.pc = "append"]
<1>1. /\ job \in [Worker -> Job] /\ job[w] \in Job /\ job[w].pc = "return" /\ signal = "none"
      /\ job' = [job EXCEPT ![w] = j]
      /\ UNCHANGED <<ledger, up, opts, todo, signal>>
  BY DEF Accept, At, Goto, files, TypeInv, TypeOK
<1>2. j.pc = "append" /\ j.cand = job[w].cand /\ j.cut = job[w].cut
  BY <1>1 DEF Job
<1> HIDE DEF j
<1>3. /\ job'[w] = j
      /\ \A v \in Worker \ {w} : job'[v] = job[v]
  BY <1>1
<1>4. Judged' = Judged
  BY <1>1 DEF Judged
<1>5. OneVerdictPerKey' /\ NoVerdictFromKilled'
  BY <1>1 DEF LedgerInv, OneVerdictPerKey, NoVerdictFromKilled
<1>6. OnePlace'
  BY <1>1, <1>2, <1>3, <1>4 DEF LedgerInv, OnePlace, Busy, Unsettled
<1>7. PoolOfTheRun'
  BY <1>1, <1>2, <1>3 DEF LedgerInv, PoolOfTheRun, Busy
<1>8. KilledIsHeld'
  BY <1>1, <1>2, <1>3 DEF LedgerInv, KilledIsHeld
<1>9. MirrorAfterLine'
  BY <1>1, <1>2, <1>3 DEF LedgerInv, MirrorAfterLine
<1> QED BY <1>5, <1>6, <1>7, <1>8, <1>9 DEF LedgerInv

\* A worker that lets go of its candidate leaves the file and the other workers alone.
LEMMA ReleaseStep ==
    ASSUME TypeInv, LedgerInv, NEW w \in Worker, Release(w),
           UNCHANGED <<ledger, opts, signal>>,
           UNCHANGED <<up, todo>> \/ (Serial(opts) /\ Busy(w) /\ up' = FALSE /\ todo' = {})
    PROVE  LedgerInv'
PROOF
<1>1. job \in [Worker -> Job] /\ job' = [job EXCEPT ![w] = Idle]
  BY DEF Release, TypeInv, TypeOK
<1>2. /\ job'[w] = Idle
      /\ \A v \in Worker \ {w} : job'[v] = job[v]
  BY <1>1
<1>3. Idle.pc = "idle" /\ Idle.cut = FALSE
  BY DEF Idle
<1>4. Judged' = Judged
  BY DEF Judged
<1>5. OneVerdictPerKey' /\ NoVerdictFromKilled'
  BY DEF LedgerInv, OneVerdictPerKey, NoVerdictFromKilled
<1>6. OnePlace'
  BY <1>2, <1>3, <1>4 DEF LedgerInv, OnePlace, Busy, Unsettled
<1>7. PoolOfTheRun'
  BY <1>2, <1>3 DEF LedgerInv, PoolOfTheRun, Busy, Serial
<1>8. KilledIsHeld'
  BY <1>2, <1>3 DEF LedgerInv, KilledIsHeld
<1>9. MirrorAfterLine'
  BY <1>2, <1>3 DEF LedgerInv, MirrorAfterLine
<1> QED BY <1>5, <1>6, <1>7, <1>8, <1>9 DEF LedgerInv

\* A line that is appended records its candidate and takes no other's record away.
LEMMA AppendRecords ==
    ASSUME TypeInv, NEW w \in Worker, AppendState(w)
    PROVE  Judged' = Judged \cup {job[w].cand}
PROOF
<1> DEFINE line == LineOf(job[w])
           n == Len(ledger)
<1>1. ledger \in Seq(Line) /\ line \in Line /\ ledger' = Append(ledger, line)
  BY LineType DEF AppendState, At, TypeInv, TypeOK, HasStatus
<1>2. line.cand = job[w].cand
  BY DEF LineOf
<1> HIDE DEF line
<1>3. /\ n \in Nat /\ DOMAIN ledger = 1..n /\ DOMAIN ledger' = 1..(n + 1)
      /\ ledger'[n + 1] = line
      /\ \A i \in 1..n : ledger'[i] = ledger[i]
  BY <1>1, AppendProperties, LenProperties
<1> QED BY <1>2, <1>3 DEF Judged

\* The line of a candidate is the first, no killed container is behind it, and when the
\* database is to have it too the worker stays busy with it.
LEMMA AppendStep ==
    ASSUME TypeInv, LedgerInv, NEW w \in Worker, AppendState(w)
    PROVE  LedgerInv'
PROOF
<1> DEFINE line == LineOf(job[w])
           n == Len(ledger)
<1>1. /\ job \in [Worker -> Job] /\ job[w] \in Job /\ job[w].pc = "append"
      /\ ledger \in Seq(Line) /\ line \in Line
      /\ ledger' = Append(ledger, line)
      /\ UNCHANGED <<up, opts, todo, signal>>
  BY LineType DEF AppendState, At, TypeInv, TypeOK, HasStatus
<1>2. /\ line.cand = job[w].cand /\ line.status = job[w].status
      /\ line.cut = job[w].cut
  BY DEF LineOf
<1> HIDE DEF line
<1>3. /\ n \in Nat /\ DOMAIN ledger = 1..n /\ DOMAIN ledger' = 1..(n + 1)
      /\ ledger'[n + 1] = line
      /\ \A i \in 1..n : ledger'[i] = ledger[i]
  BY <1>1, AppendProperties, LenProperties
<1> HIDE DEF n
<1>4. Judged' = Judged \cup {job[w].cand}
  BY AppendRecords
<1>5. job[w].cand \notin Judged /\ job[w].cand \notin todo
  BY <1>1 DEF LedgerInv, OnePlace, Busy, Unsettled
<1>6. ~job[w].cut
  BY <1>1 DEF LedgerInv, KilledIsHeld
<1>7. /\ job'[w] = Idle \/ job'[w] = [job[w] EXCEPT !.pc = "mirror_state"]
      /\ \A v \in Worker \ {w} : job'[v] = job[v]
  BY <1>1 DEF AppendState, Goto, Release
<1>8. /\ job'[w].pc \in {"idle", "mirror_state"}
      /\ job'[w].pc # "idle" => job'[w].cand = job[w].cand /\ job'[w].status = job[w].status
      /\ ~job'[w].cut
  BY <1>1, <1>6, <1>7 DEF Idle, Job
<1>9. OneVerdictPerKey'
  <2>1. \A i \in 1..n : ledger'[i].cand # line.cand
    BY <1>2, <1>3, <1>5 DEF Judged
  <2> QED BY <1>3, <2>1 DEF LedgerInv, OneVerdictPerKey
<1>10. NoVerdictFromKilled'
  BY <1>2, <1>3, <1>6 DEF LedgerInv, NoVerdictFromKilled
<1>11. OnePlace'
  BY <1>1, <1>4, <1>5, <1>7, <1>8 DEF LedgerInv, OnePlace, Busy, Unsettled
<1>12. PoolOfTheRun'
  BY <1>1, <1>7, <1>8 DEF LedgerInv, PoolOfTheRun, Busy
<1>13. KilledIsHeld'
  BY <1>1, <1>7, <1>8 DEF LedgerInv, KilledIsHeld
<1>14. MirrorAfterLine'
  <2>1. ASSUME NEW v \in Worker, job'[v].pc = "mirror_state"
        PROVE  \E i \in 1..(n + 1) :
                  ledger'[i].cand = job'[v].cand /\ ledger'[i].status = job'[v].status
    <3>1. CASE v = w
      BY <1>2, <1>3, <1>8, <2>1, <3>1
    <3>2. CASE v # w
      BY <1>3, <1>7, <2>1, <3>2 DEF LedgerInv, MirrorAfterLine
    <3> QED BY <3>1, <3>2
  <2> QED BY <1>3, <2>1 DEF MirrorAfterLine
<1> QED BY <1>9, <1>10, <1>11, <1>12, <1>13, <1>14 DEF LedgerInv

\* An operator's edit takes a line away and adds none, while no worker is there.
LEMMA DeleteStep ==
    ASSUME TypeInv, LedgerInv, NEW i \in DOMAIN ledger, DeleteLine(i)
    PROVE  LedgerInv'
PROOF
<1> DEFINE n == Len(ledger)
<1>1. /\ ledger \in Seq(Line) /\ n \in Nat /\ DOMAIN ledger = 1..n /\ i \in 1..n
      /\ ledger' = RemoveAt(ledger, i) /\ ~up
      /\ UNCHANGED <<up, opts, todo, job, signal>>
  BY LenProperties DEF DeleteLine, process, TypeInv, TypeOK
<1>2. /\ DOMAIN ledger' = 1..(n - 1)
      /\ \A k \in 1..(n - 1) : ledger'[k] = IF k < i THEN ledger[k] ELSE ledger[k + 1]
  <2>1. /\ ledger' \in Seq(Line) /\ Len(ledger') = n - 1
        /\ \A k \in 1..(n - 1) : ledger'[k] = IF k < i THEN ledger[k] ELSE ledger[k + 1]
    BY <1>1, RemoveAtProperties
  <2> QED BY <2>1, LenProperties
<1> DEFINE from(k) == IF k < i THEN k ELSE k + 1
<1>3. /\ \A k \in 1..(n - 1) : from(k) \in 1..n /\ ledger'[k] = ledger[from(k)]
      /\ \A k, m \in 1..(n - 1) : from(k) = from(m) => k = m
  BY <1>1, <1>2
<1> HIDE DEF from, n
<1>4. OneVerdictPerKey'
  BY <1>1, <1>2, <1>3 DEF LedgerInv, OneVerdictPerKey
<1>5. NoVerdictFromKilled'
  BY <1>1, <1>2, <1>3 DEF LedgerInv, NoVerdictFromKilled
<1>6. Judged' \subseteq Judged
  BY <1>1, <1>2, <1>3 DEF Judged
<1>7. \A w \in Worker : job[w].pc = "idle"
  BY <1>1 DEF LedgerInv, PoolOfTheRun, Busy
<1>8. OnePlace' /\ PoolOfTheRun' /\ KilledIsHeld' /\ MirrorAfterLine'
  BY <1>1, <1>6, <1>7
     DEF LedgerInv, OnePlace, PoolOfTheRun, KilledIsHeld, MirrorAfterLine, Busy, Unsettled
<1> QED BY <1>4, <1>5, <1>8 DEF LedgerInv

\* Starting and killing the driver: afterwards every worker is idle.
LEMMA AllIdleStep ==
    ASSUME LedgerInv, UNCHANGED ledger,
           job' = [w \in Worker |-> Idle], todo' \cap Judged = {}
    PROVE  LedgerInv'
PROOF
<1>1. \A w \in Worker : job'[w].pc = "idle" /\ ~job'[w].cut
  BY DEF Idle
<1>2. Judged' = Judged
  BY DEF Judged
<1>3. OneVerdictPerKey' /\ NoVerdictFromKilled'
  BY DEF LedgerInv, OneVerdictPerKey, NoVerdictFromKilled
<1>4. OnePlace' /\ PoolOfTheRun' /\ KilledIsHeld' /\ MirrorAfterLine'
  BY <1>1, <1>2 DEF OnePlace, PoolOfTheRun, KilledIsHeld, MirrorAfterLine, Busy, Unsettled
<1> QED BY <1>3, <1>4 DEF LedgerInv

\* The steps of the run that leave the file and the workers as they are.
LEMMA QuietStep ==
    ASSUME LedgerInv, UNCHANGED <<ledger, job, opts>>, todo' \subseteq todo,
           up' = up \/ \A w \in Worker : ~Busy(w),
           signal' = signal \/ signal' # "none"
    PROVE  LedgerInv'
PROOF
<1>1. Judged' = Judged
  BY DEF Judged
<1>2. OneVerdictPerKey' /\ NoVerdictFromKilled'
  BY DEF LedgerInv, OneVerdictPerKey, NoVerdictFromKilled
<1>3. OnePlace' /\ PoolOfTheRun' /\ KilledIsHeld' /\ MirrorAfterLine'
  BY <1>1 DEF LedgerInv, OnePlace, PoolOfTheRun, KilledIsHeld, MirrorAfterLine, Busy, Unsettled
<1> QED BY <1>2, <1>3 DEF LedgerInv

\* A worker takes a candidate that was queued and so had no line and no other worker.
LEMMA TakeStep ==
    ASSUME TypeInv, LedgerInv, NEW w \in Worker, NEW c \in Candidate, Take(w, c)
    PROVE  LedgerInv'
PROOF
<1> DEFINE j == [Idle EXCEPT !.pc = "metadata", !.cand = c]
<1>1. /\ job \in [Worker -> Job] /\ job' = [job EXCEPT ![w] = j]
      /\ c \in todo /\ todo' = todo \ {c} /\ up /\ w \in opts.pool
      /\ UNCHANGED <<ledger, up, opts, signal>>
  BY DEF Take, At, files, TypeInv, TypeOK
<1>2. j.pc = "metadata" /\ j.cand = c /\ ~j.cut
  BY DEF Idle
<1> HIDE DEF j
<1>3. /\ job'[w] = j
      /\ \A v \in Worker \ {w} : job'[v] = job[v]
  BY <1>1
<1>4. Judged' = Judged
  BY <1>1 DEF Judged
<1>5. OneVerdictPerKey' /\ NoVerdictFromKilled'
  BY <1>1 DEF LedgerInv, OneVerdictPerKey, NoVerdictFromKilled
<1>6. OnePlace'
  BY <1>1, <1>2, <1>3, <1>4 DEF LedgerInv, OnePlace, Busy, Unsettled
<1>7. PoolOfTheRun' /\ KilledIsHeld' /\ MirrorAfterLine'
  BY <1>1, <1>2, <1>3 DEF LedgerInv, PoolOfTheRun, KilledIsHeld, MirrorAfterLine, Busy
<1> QED BY <1>5, <1>6, <1>7 DEF LedgerInv

\* The handler kills containers of workers that have not finished, after the event is set.
LEMMA KillStep ==
    ASSUME TypeInv, LedgerInv, KillContainers
    PROVE  LedgerInv'
PROOF
<1>1. /\ job \in [Worker -> Job] /\ signal' = "handled"
      /\ UNCHANGED <<ledger, up, opts, todo>>
  BY DEF KillContainers, files, TypeInv, TypeOK
<1>3. ASSUME NEW w \in Worker
      PROVE  /\ job'[w].cand = job[w].cand
             /\ \/ job'[w] = job[w]
                \/ Unsettled(w) /\ job'[w].pc \in {"post_start", "fix_start", "decide"}
  <2>1. CASE job'[w] = job[w]
    BY <2>1
  <2>2. CASE job[w].pc \in Running /\ job'[w] = Ends(job[w], "killed")
    BY <2>2, EndsOK DEF TypeInv, Result, Running, Unsettled
  <2> QED BY <2>1, <2>2 DEF KillContainers
<1>4. Judged' = Judged
  BY <1>1 DEF Judged
<1>5. OneVerdictPerKey' /\ NoVerdictFromKilled'
  BY <1>1 DEF LedgerInv, OneVerdictPerKey, NoVerdictFromKilled
<1>6. OnePlace'
  BY <1>1, <1>3, <1>4 DEF LedgerInv, OnePlace, Busy, Unsettled
<1>7. PoolOfTheRun'
  BY <1>1, <1>3 DEF LedgerInv, PoolOfTheRun, Busy, Unsettled
<1>8. KilledIsHeld'
  BY <1>1, <1>3 DEF LedgerInv, KilledIsHeld
<1>9. MirrorAfterLine'
  BY <1>1, <1>3 DEF LedgerInv, MirrorAfterLine
<1> QED BY <1>5, <1>6, <1>7, <1>8, <1>9 DEF LedgerInv

\* Before the first run nothing is recorded and nobody works.
LEMMA LedgerInit == Init => LedgerInv
PROOF
<1> SUFFICES ASSUME Init PROVE LedgerInv
  OBVIOUS
<1>1. DOMAIN ledger = {} /\ Judged = {} /\ todo = {}
  BY DEF Init, Judged
<1>2. \A w \in Worker : job[w].pc = "idle" /\ ~job[w].cut
  BY DEF Init, Idle
<1> QED BY <1>1, <1>2 DEF LedgerInv, OneVerdictPerKey, NoVerdictFromKilled, OnePlace,
     PoolOfTheRun,
           KilledIsHeld, MirrorAfterLine, Busy, Unsettled

\* Every step of the driver keeps the invariant of the state file and the workers.
LEMMA LedgerStep == TypeInv /\ LedgerInv /\ [Next]_vars => LedgerInv'
PROOF
<1> SUFFICES ASSUME TypeInv, LedgerInv, [Next]_vars PROVE LedgerInv'
  OBVIOUS
<1>1. ASSUME NEW w \in Worker, WorkerStep(w) PROVE LedgerInv'
  <2>1. CASE Process(w)
    <3>1. CASE ~Accept(w) /\ ~Interrupted(w) /\ ~AppendState(w) /\ ~MirrorState(w)
      BY <2>1, <3>1, ProcessAdvances, AdvancesStep
    <3>2. CASE Interrupted(w)
      BY <3>2, ReleaseStep DEF Interrupted, files
    <3>3. CASE MirrorState(w)
      BY <3>3, ReleaseStep DEF MirrorState
    <3> QED BY <3>1, <3>2, <3>3, AcceptStep, AppendStep
  <2>2. CASE Raises(w)
    <3>1. Busy(w) /\ Release(w) /\ UNCHANGED <<ledger, opts, signal>>
      BY <2>2 DEF Raises, Raisable, At, Busy, files
    <3> QED BY <2>2, <3>1, ReleaseStep DEF Raises
  <2> QED BY <1>1, <2>1, <2>2, TakeStep DEF WorkerStep
<1>2. ASSUME NEW o \in Options, Start(o) PROVE LedgerInv'
  <2>1. todo' \cap Judged = {}
    BY <1>2 DEF Start, Unrecorded, Recorded
  <2> QED BY <1>2, <2>1, AllIdleStep DEF Start, files
<1>3. CASE Crash
  BY <1>3, AllIdleStep DEF Crash, files
<1>4. CASE Signal \/ HandlerSticks \/ CancelRest
  BY <1>4, QuietStep DEF Signal, HandlerSticks, CancelRest, files
<1>5. CASE Finish
  BY <1>5, QuietStep DEF Finish, Busy, files
<1>6. CASE UNCHANGED vars
  BY <1>6, QuietStep DEF vars
<1> QED BY <1>1, <1>2, <1>3, <1>4, <1>5, <1>6, KillStep, DeleteStep DEF Next

----------------------------------------------------------------------------
(* The theorems.                                                           *)

\* TypeInv and LedgerInv hold together in every state of every run.
LEMMA Invariant == Spec => [](TypeInv /\ LedgerInv)
PROOF BY TypeInit, TypeStep, LedgerInit, LedgerStep, PTL DEF Spec

\* Whatever stops, kills, resumes and edits come, no candidate gets a second line.
THEOREM OneLinePerCandidate == Spec => []OneVerdictPerKey
PROOF
<1>1. LedgerInv => OneVerdictPerKey
  BY DEF LedgerInv
<1> QED BY <1>1, Invariant, PTL

\* No line of the state file comes from a container that the shutdown killed.
THEOREM KilledNeverRecorded == Spec => []NoVerdictFromKilled
PROOF
<1>1. LedgerInv => NoVerdictFromKilled
  BY DEF LedgerInv
<1> QED BY <1>1, Invariant, PTL

\* The database's drive_state takes a status only from a line the state file has by then.
THEOREM DatabaseRepeatsLedger == Spec => MirrorFollowsLedger
PROOF
<1> DEFINE Repeats ==
      \A k \in Key :
          mirrored'[k] # mirrored[k] =>
              \E i \in DOMAIN ledger :
                  KeyOf[ledger[i].cand] = k /\ ledger[i].status = mirrored'[k]
<1>1. TypeInv /\ LedgerInv /\ [Next]_vars => [Repeats]_vars
  <2> SUFFICES ASSUME TypeInv, LedgerInv, Next, NEW k \in Key, mirrored'[k] # mirrored[k]
               PROVE  \E i \in DOMAIN ledger :
                         KeyOf[ledger[i].cand] = k /\ ledger[i].status = mirrored'[k]
    BY DEF vars
  <2>1. PICK w \in Worker : MirrorState(w)
    <3>1. ASSUME NEW w \in Worker, Process(w), ~MirrorState(w) PROVE UNCHANGED mirrored
      BY <3>1 DEF Process, files, MetadataFails, NoEntry, EntryStale, EntryDiscarded,
         EntryMatches, CommitTooLate, ImageMissing, UseImage, BuildImage, BuildFails,
         RegisterImage, IntrospectFails, StartContainer, PreExits, PostExits, FixExits,
         ContainerExits, Unreproducible, AssembleFails, OpenEntry, WriteEntry, MirrorEntry, RegenFails, RegenBuilds,
         RegenTests, RegenOpen, RegenWrites, Accept, Interrupted, AppendState
    <3>2. ASSUME NEW w \in Worker, (\E d \in Candidate : Take(w, d)) \/ Raises(w)
          PROVE  UNCHANGED mirrored
      BY <3>2 DEF Take, Raises, files
    <3>3. ASSUME \/ \E o \in Options : Start(o)
                 \/ Signal \/ KillContainers \/ HandlerSticks \/ CancelRest \/ Finish \/ Crash
                 \/ \E i \in DOMAIN ledger : DeleteLine(i)
          PROVE  UNCHANGED mirrored
      BY <3>3 DEF Start, Signal, KillContainers, HandlerSticks, CancelRest, Finish, Crash,
           DeleteLine, files
    <3> QED BY <3>1, <3>2, <3>3 DEF Next, WorkerStep
  <2>2. mirrored \in [Key -> Status \cup {"none"}]
    BY DEF TypeInv, TypeOK
  <2>3. k = KeyOf[job[w].cand] /\ mirrored'[k] = job[w].status
    BY <2>1, <2>2 DEF MirrorState
  <2> QED BY <2>1, <2>3 DEF MirrorState, At, LedgerInv, MirrorAfterLine
<1> QED BY <1>1, Invariant, PTL DEF Spec, MirrorFollowsLedger

----------------------------------------------------------------------------
(* What the mapping makes of the state file and the workers.               *)

Verdicts == [c \in Candidate |-> LastStatus(c)]
mapped == <<Verdicts, Held>>

\* The last record of a candidate that has one is that record.
LEMMA OnlyLineIsLast ==
    ASSUME NEW l \in Seq(Line), NEW i \in DOMAIN l,
           \A k \in DOMAIN l : l[k].cand = l[i].cand => k = i
    PROVE  Max({k \in DOMAIN l : l[k].cand = l[i].cand}) = i
PROOF
<1> DEFINE S == {k \in DOMAIN l : l[k].cand = l[i].cand}
<1>1. i \in Nat
  BY LenProperties
<1>2. S = {i}
  OBVIOUS
<1> HIDE DEF S
<1>3. \E x \in S : \A y \in S : x >= y
  BY <1>1, <1>2
<1>4. Max(S) \in S
  BY <1>3 DEF Max
<1> QED BY <1>2, <1>4 DEF S

\* A recorded candidate has the status of its record, any other none.
LEMMA VerdictOfLine ==
    ASSUME TypeInv, OneVerdictPerKey, NEW c \in Candidate
    PROVE  /\ \A i \in DOMAIN ledger : c = ledger[i].cand => Verdicts[c] = ledger[i].status
           /\ c \notin Judged => Verdicts[c] = "none"
PROOF
<1>1. ledger \in Seq(Line)
  BY DEF TypeInv, TypeOK
<1>2. ASSUME NEW i \in DOMAIN ledger, c = ledger[i].cand
      PROVE  LastStatus(c) = ledger[i].status
  <2>1. Max({k \in DOMAIN ledger : ledger[k].cand = ledger[i].cand}) = i
    BY <1>1, OnlyLineIsLast DEF OneVerdictPerKey
  <2>2. c \in Judged
    BY <1>2 DEF Judged
  <2> QED BY <1>2, <2>1, <2>2 DEF LastStatus
<1>3. c \notin Judged => LastStatus(c) = "none"
  BY DEF LastStatus
<1> QED BY <1>2, <1>3 DEF Verdicts

\* The same one step later.
LEMMA NextVerdictOfLine ==
    ASSUME TypeInv', OneVerdictPerKey', NEW c \in Candidate
    PROVE  /\ \A i \in DOMAIN ledger' : c = ledger'[i].cand => Verdicts'[c] = ledger'[i].status
           /\ c \notin Judged' => Verdicts'[c] = "none"
PROOF
<1>1. ledger' \in Seq(Line)
  BY DEF TypeInv, TypeOK
<1>2. ASSUME NEW i \in DOMAIN ledger', c = ledger'[i].cand
      PROVE  LastStatus(c)' = ledger'[i].status
  <2>1. Max({k \in DOMAIN ledger' : ledger'[k].cand = ledger'[i].cand}) = i
    BY <1>1, OnlyLineIsLast DEF OneVerdictPerKey
  <2>2. c \in Judged'
    BY <1>2 DEF Judged
  <2> QED BY <1>2, <2>1, <2>2 DEF LastStatus
<1>3. c \notin Judged' => LastStatus(c)' = "none"
  BY DEF LastStatus
<1> QED BY <1>2, <1>3 DEF Verdicts

\* The verdicts are a function of the candidates, now and one step later.
LEMMA VerdictsShape ==
    /\ Verdicts = [d \in Candidate |-> Verdicts[d]]
    /\ Verdicts' = [d \in Candidate |-> Verdicts'[d]]
PROOF BY DEF Verdicts

\* How the holders change when one worker's job does.
LEMMA HeldAfter ==
    ASSUME TypeInv, LedgerInv, NEW w \in Worker, NEW j, job' = [job EXCEPT ![w] = j]
    PROVE  Held' = (Held \ (IF Unsettled(w) THEN {job[w].cand} ELSE {}))
                   \cup (IF j.pc \notin {"idle", "mirror_state"} THEN {j.cand} ELSE {})
PROOF
<1> DEFINE open(k) == k.pc \notin {"idle", "mirror_state"}
<1>1. /\ job'[w] = j
      /\ \A v \in Worker \ {w} : job'[v] = job[v]
  BY DEF TypeInv, TypeOK
<1>2. \A c : c \in Held <=> \E v \in Worker : open(job[v]) /\ c = job[v].cand
  BY DEF Held
<1>3. \A c : c \in Held' <=> \E v \in Worker : open(job'[v]) /\ c = job'[v].cand
  BY DEF Held
<1>4. \A v \in Worker \ {w} : open(job[v]) /\ open(job[w]) => job[v].cand # job[w].cand
  BY DEF LedgerInv, OnePlace, Busy
<1>5. Unsettled(w) <=> open(job[w])
  BY DEF Unsettled
<1> HIDE DEF open
<1>6. \A c : c \in Held' <=> \/ c \in Held /\ ~(open(job[w]) /\ c = job[w].cand)
                             \/ open(j) /\ c = j.cand
  BY <1>1, <1>2, <1>3, <1>4
<1> USE DEF open
<1> QED BY <1>5, <1>6

\* A state file that stays keeps every verdict.
LEMMA SameVerdicts == UNCHANGED ledger => UNCHANGED Verdicts
PROOF BY DEF Verdicts, LastStatus, Judged

----------------------------------------------------------------------------
(* The steps.                                                              *)

BatchStep == Batch!BatchNext \/ UNCHANGED mapped

\* Inside process() and on the way to the state file nothing changes for the batch.
LEMMA AdvancesMaps ==
    ASSUME TypeInv, LedgerInv, NEW w \in Worker, Advances(w) \/ Accept(w)
    PROVE  UNCHANGED mapped
PROOF
<1>1. /\ UNCHANGED ledger /\ Unsettled(w)
      /\ \E j : /\ job' = [job EXCEPT ![w] = j]
                /\ j.pc \notin {"idle", "mirror_state"} /\ j.cand = job[w].cand
  <2>1. CASE Advances(w)
    BY <2>1 DEF Advances
  <2>2. CASE Accept(w)
    <3> DEFINE j == [job[w] EXCEPT !.pc = "append"]
    <3>1. job[w] \in Job /\ job[w].pc = "return" /\ job' = [job EXCEPT ![w] = j]
      BY <2>2 DEF Accept, At, Goto, TypeInv, TypeOK
    <3>2. j.pc = "append" /\ j.cand = job[w].cand
      BY <3>1 DEF Job
    <3> HIDE DEF j
    <3>3. UNCHANGED ledger
      BY <2>2 DEF Accept, files
    <3> QED BY <3>1, <3>2, <3>3 DEF Unsettled
  <2> QED BY <2>1, <2>2
<1>2. job[w].cand \in Held
  BY <1>1 DEF Held, Unsettled
<1>3. PICK j : /\ job' = [job EXCEPT ![w] = j]
               /\ j.pc \notin {"idle", "mirror_state"} /\ j.cand = job[w].cand
  BY <1>1
<1>4. Held' = (Held \ {job[w].cand}) \cup {job[w].cand}
  BY <1>1, <1>3, HeldAfter DEF Unsettled
<1>5. Held' = Held
  BY <1>2, <1>4
<1> QED BY <1>1, <1>5, SameVerdicts DEF mapped

\* Letting go of a candidate that has no line abandons it; after the line it changes nothing.
LEMMA ReleaseMaps ==
    ASSUME TypeInv, LedgerInv, NEW w \in Worker, Busy(w), Release(w), UNCHANGED ledger
    PROVE  BatchStep
PROOF
<1>1. job' = [job EXCEPT ![w] = Idle] /\ Idle.pc = "idle"
  BY DEF Release, Idle
<1>2. Held' = Held \ (IF Unsettled(w) THEN {job[w].cand} ELSE {})
  BY <1>1, HeldAfter
<1>3. CASE Unsettled(w)
  <2>1. job[w].cand \in Held /\ job[w].cand \in Candidate
    BY <1>3 DEF Held, Unsettled, TypeInv, JobOK
  <2>2. Batch!Abandon({job[w].cand})
    BY <1>2, <1>3, <2>1, SameVerdicts DEF Batch!Abandon, Verdicts
  <2> QED BY <2>1, <2>2 DEF BatchStep, Batch!BatchNext
<1>4. CASE ~Unsettled(w)
  BY <1>2, <1>4, SameVerdicts DEF BatchStep, mapped
<1> QED BY <1>3, <1>4

\* A worker takes what nobody holds and nobody has judged.
LEMMA TakeMaps ==
    ASSUME TypeInv, LedgerInv, NEW w \in Worker, NEW c \in Candidate, Take(w, c)
    PROVE  BatchStep
PROOF
<1> DEFINE j == [Idle EXCEPT !.pc = "metadata", !.cand = c]
<1>1. /\ job' = [job EXCEPT ![w] = j] /\ j.pc = "metadata" /\ j.cand = c
      /\ c \in todo /\ job[w].pc = "idle" /\ UNCHANGED ledger
  BY DEF Take, At, files, Idle
<1> HIDE DEF j
<1>2. Held' = Held \cup {c}
  BY <1>1, HeldAfter DEF Unsettled
<1>3. c \notin Judged /\ c \notin Held
  BY <1>1 DEF LedgerInv, OnePlace, Busy, Held
<1>4. Verdicts[c] = "none"
  BY <1>3, VerdictOfLine DEF LedgerInv
<1>5. Batch!Take(c)
  BY <1>1, <1>2, <1>3, <1>4, SameVerdicts DEF Batch!Take, Verdicts
<1> QED BY <1>5 DEF BatchStep, Batch!BatchNext

\* The line gives its candidate the verdict, and the worker no longer holds it.
LEMMA AppendMaps ==
    ASSUME TypeInv, LedgerInv, TypeInv', LedgerInv', NEW w \in Worker, AppendState(w)
    PROVE  BatchStep
PROOF
<1> DEFINE line == LineOf(job[w])
           n == Len(ledger)
           c == job[w].cand
           s == job[w].status
<1>1. /\ job[w].pc = "append" /\ ledger \in Seq(Line) /\ line \in Line
      /\ ledger' = Append(ledger, line)
      /\ c \in Candidate /\ s \in Status /\ job[w] \in Job
  BY LineType DEF AppendState, At, TypeInv, TypeOK, JobOK, HasStatus
<1>2. line.cand = c /\ line.status = s
  BY DEF LineOf
<1>3. Unsettled(w) /\ c \in Held /\ c \notin Judged
  BY <1>1 DEF Unsettled, Held, LedgerInv, OnePlace
<1> HIDE DEF line, c, s
<1>4. /\ n \in Nat /\ DOMAIN ledger = 1..n /\ DOMAIN ledger' = 1..(n + 1)
      /\ ledger'[n + 1] = line
      /\ \A i \in 1..n : ledger'[i] = ledger[i]
  BY <1>1, AppendProperties, LenProperties
<1> HIDE DEF n
<1>5. n + 1 \in DOMAIN ledger' /\ \A i \in 1..n : i \in DOMAIN ledger'
  BY <1>4
<1>6. Judged' = Judged \cup {c}
  BY <1>2, <1>4 DEF Judged
<1>7. Held' = Held \ {c}
  <2>1. PICK j : job' = [job EXCEPT ![w] = j] /\ j.pc \in {"idle", "mirror_state"}
    <3>1. \/ job' = [job EXCEPT ![w] = Idle]
          \/ job' = [job EXCEPT ![w] = [job[w] EXCEPT !.pc = "mirror_state"]]
      BY <1>1 DEF AppendState, Goto, Release, TypeInv, TypeOK
    <3>2. Idle.pc = "idle" /\ [job[w] EXCEPT !.pc = "mirror_state"].pc = "mirror_state"
      BY <1>1 DEF Idle, Job
    <3> QED BY <3>1, <3>2
  <2> QED BY <1>3, <2>1, HeldAfter DEF c
<1>8. Verdicts' = [Verdicts EXCEPT ![c] = s]
  <2>1. Verdicts'[c] = s
    BY <1>1, <1>2, <1>4, <1>5, NextVerdictOfLine DEF LedgerInv
  <2>2. ASSUME NEW d \in Candidate, d # c PROVE Verdicts'[d] = Verdicts[d]
    <3>1. CASE d \in Judged
      <4>1. PICK i \in DOMAIN ledger : ledger[i].cand = d
        BY <3>1 DEF Judged
      <4>2. i \in DOMAIN ledger' /\ ledger'[i] = ledger[i]
        BY <1>4, <1>5
      <4>3. Verdicts[d] = ledger[i].status
        BY <4>1, VerdictOfLine DEF LedgerInv
      <4>4. Verdicts'[d] = ledger'[i].status
        BY <4>1, <4>2, NextVerdictOfLine DEF LedgerInv
      <4> QED BY <4>2, <4>3, <4>4
    <3>2. CASE d \notin Judged
      <4>1. Verdicts[d] = "none"
        BY <3>2, VerdictOfLine DEF LedgerInv
      <4>2. Verdicts'[d] = "none"
        BY <1>6, <2>2, <3>2, NextVerdictOfLine DEF LedgerInv
      <4> QED BY <4>1, <4>2
    <3> QED BY <3>1, <3>2
  <2> QED BY <1>1, <2>1, <2>2, VerdictsShape
<1>9. Verdicts[c] = "none"
  BY <1>1, <1>3, VerdictOfLine DEF LedgerInv
<1>10. Batch!Settle(c)
  BY <1>1, <1>3, <1>7, <1>8, <1>9 DEF Batch!Settle, Verdicts
<1> QED BY <1>1, <1>10 DEF BatchStep, Batch!BatchNext

\* An operator's edit takes the verdict of one candidate back while nobody holds any.
LEMMA DeleteMaps ==
    ASSUME TypeInv, LedgerInv, TypeInv', LedgerInv', NEW i \in DOMAIN ledger, DeleteLine(i)
    PROVE  BatchStep
PROOF
<1> DEFINE n == Len(ledger)
           c == ledger[i].cand
           from(k) == IF k < i THEN k ELSE k + 1
           to(k) == IF k < i THEN k ELSE k - 1
<1>1. /\ ledger \in Seq(Line) /\ n \in Nat /\ DOMAIN ledger = 1..n /\ i \in 1..n
      /\ ledger' = RemoveAt(ledger, i) /\ ~up /\ job' = job
  BY LenProperties DEF DeleteLine, process, TypeInv, TypeOK
<1>2. /\ DOMAIN ledger' = 1..(n - 1)
      /\ \A k \in 1..(n - 1) : ledger'[k] = IF k < i THEN ledger[k] ELSE ledger[k + 1]
  <2>1. /\ ledger' \in Seq(Line) /\ Len(ledger') = n - 1
        /\ \A k \in 1..(n - 1) : ledger'[k] = IF k < i THEN ledger[k] ELSE ledger[k + 1]
    BY <1>1, RemoveAtProperties
  <2> QED BY <2>1, LenProperties
<1>3. /\ \A k \in 1..(n - 1) : from(k) \in 1..n /\ from(k) # i /\ ledger'[k] = ledger[from(k)]
      /\ \A k \in 1..n : k # i => to(k) \in 1..(n - 1) /\ from(to(k)) = k
  BY <1>1, <1>2
<1>4. c \in Candidate /\ ledger[i].status \in Status
  <2>1. ledger[i] \in Line
    BY <1>1, ElementOfSeq
  <2> QED BY <2>1 DEF Line
<1>5. \A k \in 1..n : ledger[k].cand = c => k = i
  BY <1>1 DEF LedgerInv, OneVerdictPerKey
<1> HIDE DEF from, to, n, c
<1>6. c \notin Judged'
  BY <1>2, <1>3, <1>5 DEF Judged
<1>7. \A w \in Worker : job[w].pc = "idle"
  BY <1>1 DEF LedgerInv, PoolOfTheRun, Busy
<1>8. Held = {} /\ Held' = {}
  BY <1>1, <1>7 DEF Held
<1>9. Verdicts[c] = ledger[i].status
  BY <1>4, VerdictOfLine DEF LedgerInv, c
<1>10. Verdicts' = [Verdicts EXCEPT ![c] = "none"]
  <2>1. Verdicts'[c] = "none"
    BY <1>4, <1>6, NextVerdictOfLine DEF LedgerInv
  <2>2. ASSUME NEW d \in Candidate, d # c PROVE Verdicts'[d] = Verdicts[d]
    <3>1. CASE d \in Judged
      <4>1. PICK k \in DOMAIN ledger : ledger[k].cand = d
        BY <3>1 DEF Judged
      <4>2. k # i
        BY <2>2, <4>1 DEF c
      <4>3. to(k) \in DOMAIN ledger' /\ ledger'[to(k)] = ledger[k]
        BY <1>1, <1>2, <1>3, <4>1, <4>2
      <4>4. Verdicts[d] = ledger[k].status
        BY <4>1, VerdictOfLine DEF LedgerInv
      <4>5. Verdicts'[d] = ledger'[to(k)].status
        BY <4>1, <4>3, NextVerdictOfLine DEF LedgerInv
      <4> QED BY <4>3, <4>4, <4>5
    <3>2. CASE d \notin Judged
      <4>1. d \notin Judged'
        BY <1>1, <1>2, <1>3, <3>2 DEF Judged
      <4>2. Verdicts[d] = "none"
        BY <3>2, VerdictOfLine DEF LedgerInv
      <4>3. Verdicts'[d] = "none"
        BY <4>1, NextVerdictOfLine DEF LedgerInv
      <4> QED BY <4>2, <4>3
    <3> QED BY <3>1, <3>2
  <2> QED BY <1>4, <2>1, <2>2, VerdictsShape
<1>11. Verdicts[c] # "none"
  BY <1>4, <1>9 DEF Status
<1>12. Batch!Forget(c)
  BY <1>8, <1>10, <1>11 DEF Batch!Forget, Verdicts
<1> QED BY <1>4, <1>12 DEF BatchStep, Batch!BatchNext

\* The handler's kills leave every candidate with its worker.
LEMMA KillMaps ==
    ASSUME TypeInv, LedgerInv, KillContainers
    PROVE  UNCHANGED mapped
PROOF
<1>1. job \in [Worker -> Job] /\ UNCHANGED ledger
  BY DEF KillContainers, files, TypeInv, TypeOK
<1>2. ASSUME NEW w \in Worker
      PROVE  /\ job'[w].cand = job[w].cand
             /\ job'[w].pc \in {"idle", "mirror_state"} <=> job[w].pc \in {"idle", "mirror_state"}
  <2>1. CASE job'[w] = job[w]
    BY <2>1
  <2>2. CASE job[w].pc \in Running /\ job'[w] = Ends(job[w], "killed")
    BY <2>2, EndsOK DEF TypeInv, Result, Running
  <2> QED BY <2>1, <2>2 DEF KillContainers
<1>3. Held' = Held
  BY <1>2 DEF Held
<1> QED BY <1>1, <1>3, SameVerdicts DEF mapped

\* When every worker is made idle, what was held is abandoned.
LEMMA AllIdleMaps ==
    ASSUME TypeInv, UNCHANGED ledger, job' = [w \in Worker |-> Idle]
    PROVE  BatchStep
PROOF
<1>1. Held' = {}
  BY DEF Held, Idle
<1>2. Held \subseteq Candidate
  BY DEF Held, TypeInv, JobOK
<1>3. CASE Held = {}
  BY <1>1, <1>3, SameVerdicts DEF BatchStep, mapped
<1>4. CASE Held # {}
  <2>1. Batch!Abandon(Held)
    BY <1>1, <1>4, SameVerdicts DEF Batch!Abandon, Verdicts
  <2> QED BY <1>2, <2>1 DEF BatchStep, Batch!BatchNext
<1> QED BY <1>3, <1>4

----------------------------------------------------------------------------
(* The refinement.                                                         *)

\* Every step of the driver is a step of the batch or changes nothing for it.
LEMMA NextMaps ==
    ASSUME TypeInv, LedgerInv, TypeInv', LedgerInv', [Next]_vars
    PROVE  BatchStep
PROOF
<1>1. ASSUME NEW w \in Worker, WorkerStep(w) PROVE BatchStep
  <2>1. CASE Process(w)
    <3>1. CASE Accept(w) \/ (~Accept(w) /\ ~Interrupted(w) /\ ~AppendState(w) /\ ~MirrorState(w))
      BY <2>1, <3>1, ProcessAdvances, AdvancesMaps DEF BatchStep
    <3>2. CASE Interrupted(w)
      BY <3>2, ReleaseMaps DEF Interrupted, files, At, Busy
    <3>3. CASE MirrorState(w)
      BY <3>3, ReleaseMaps DEF MirrorState, At, Busy
    <3> QED BY <3>1, <3>2, <3>3, AppendMaps
  <2>2. CASE Raises(w)
    <3>1. Busy(w) /\ Release(w) /\ UNCHANGED ledger
      BY <2>2 DEF Raises, Raisable, At, Busy, files
    <3> QED BY <3>1, ReleaseMaps
  <2> QED BY <1>1, <2>1, <2>2, TakeMaps DEF WorkerStep
<1>2. ASSUME NEW o \in Options, Start(o) PROVE BatchStep
  BY <1>2, AllIdleMaps DEF Start, files
<1>3. CASE Crash
  BY <1>3, AllIdleMaps DEF Crash, files
<1>4. CASE UNCHANGED <<ledger, job>>
  BY <1>4, SameVerdicts DEF BatchStep, mapped, Held
<1>5. Signal \/ HandlerSticks \/ CancelRest \/ Finish \/ UNCHANGED vars => UNCHANGED <<ledger, job>>
  BY DEF Signal, HandlerSticks, CancelRest, Finish, files, vars
<1>6. CASE KillContainers
  BY <1>6, KillMaps DEF BatchStep
<1> QED BY <1>1, <1>2, <1>3, <1>4, <1>5, <1>6, DeleteMaps DEF Next

\* Before the first run no candidate has a verdict and nobody holds one.
LEMMA InitMaps == Init => Batch!BatchInit
PROOF
<1> SUFFICES ASSUME Init PROVE Batch!BatchInit
  OBVIOUS
<1>1. Judged = {}
  BY DEF Init, Judged
<1>2. Held = {}
  BY DEF Init, Idle, Held
<1> QED BY <1>1, <1>2 DEF Batch!BatchInit, LastStatus

\* Over every stop, crash and resume the driver keeps the promises of the state file: one
\* holder and one verdict per candidate, taken back only by an operator
\* (cargo_drive.py:3-24, 763-775).
THEOREM DriveImplementsBatch == Spec => ImplementsBatch
PROOF
<1>1. /\ TypeInv /\ LedgerInv /\ (TypeInv /\ LedgerInv)' /\ [Next]_vars
      => [Batch!BatchNext]_mapped
  BY NextMaps DEF BatchStep
<1> QED BY <1>1, InitMaps, Invariant, PTL
        DEF Spec, ImplementsBatch, Batch!BatchSpec, Batch!batchVars, mapped, Verdicts
=============================================================================
