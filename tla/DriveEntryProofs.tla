-------------------------- MODULE DriveEntryProofs --------------------------
(***************************************************************************)
(* What the driver's entries say, for every number of candidates, workers, *)
(* tags, runs and crashes: a recorded ok stands for an entry that says     *)
(* what that run saw, a readable entry is replaced only on demand, and a   *)
(* run that ends by itself has lost no candidate.  Nothing keeps two       *)
(* candidates from one entry id; Own, in the properties, names those to    *)
(* whom these promises are made, whatever the others share.                *)
(***************************************************************************)
EXTENDS DriveProofs

----------------------------------------------------------------------------
(* The inductive invariant.                                                *)

BeforeTheVerdict == {"resolve", "register", "pre_start", "pre_run", "post_start",
                     "post_run", "fix_start", "fix_run", "decide"}

\* A readable entry whose category is what was seen.
Says(f, shown) == f.file = "whole" /\ Discovered(f.from) = shown

\* The entry as it will be, or is, on disk says what the worker has seen.
EntryHolds(j, f) ==
    /\ j.pc = "write" => j.shown = Discovered(j.from)
    /\ j.pc = "mirror_entry" => Says(f, j.shown)
    /\ j.pc \in {"rewrite_open", "rewrite"} /\ j.status = "ok" => j.shown = Discovered(j.from)
    /\ j.pc \in {"return", "append", "mirror_state"} /\ j.status = "ok" => Says(f, j.shown)

\* A candidate with a readable entry reaches its builds only to be assembled again.
EntryKept(j, f) == j.pc \in BeforeTheVerdict /\ f.file = "whole" => opts.reassemble

JobHolds(j, f) == EntryHolds(j, f) /\ EntryKept(j, f)

\* A busy worker whose candidate shares its entry with no other.
Alone(w) == Busy(w) /\ Own(job[w].cand)

EntryInv ==
    /\ \A w \in Worker : Alone(w) => JobHolds(job[w], disk[Mine(w)])
    /\ OkIsWitnessed

----------------------------------------------------------------------------
(* One worker's own steps.                                                 *)

\* Moving on changes the stage of a job and nothing else of it.
LEMMA GotoFields ==
    ASSUME TypeInv, NEW w \in Worker, NEW pc \in PC, Goto(w, pc)
    PROVE  /\ job'[w].pc = pc
           /\ job'[w].cand = job[w].cand /\ job'[w].status = job[w].status
           /\ job'[w].tag = job[w].tag /\ job'[w].from = job[w].from
           /\ job'[w].shown = job[w].shown
           /\ \A v \in Worker \ {w} : job'[v] = job[v]
PROOF
<1>1. job \in [Worker -> Job] /\ job[w] \in Job
  BY DEF TypeInv, TypeOK
<1>2. job'[w] = [job[w] EXCEPT !.pc = pc] /\ \A v \in Worker \ {w} : job'[v] = job[v]
  BY <1>1 DEF Goto
<1> QED BY <1>1, <1>2 DEF Job

\* A returned job: what was seen stays with an ok.
LEMMA ReturnedFields ==
    ASSUME NEW j, NEW s
    PROVE  /\ Returned(j, s).pc = "return" /\ Returned(j, s).cand = j.cand
           /\ Returned(j, s).status = s
           /\ s = "ok" => Returned(j, s).shown = j.shown
PROOF BY DEF Returned, Idle

\* process() returns: the same of its worker.
LEMMA ReturnFields ==
    ASSUME TypeInv, NEW w \in Worker, NEW s \in Status, Return(w, s)
    PROVE  /\ job'[w].pc = "return" /\ job'[w].status = s
           /\ job'[w].cand = job[w].cand
           /\ s = "ok" => job'[w].shown = job[w].shown
           /\ \A v \in Worker \ {w} : job'[v] = job[v]
PROOF
<1>1. job'[w] = Returned(job[w], s) /\ \A v \in Worker \ {w} : job'[v] = job[v]
  BY DEF Return, TypeInv, TypeOK
<1> QED BY <1>1, ReturnedFields

\* The end of a container: on to a stage before the verdict.
LEMMA ExitFields ==
    ASSUME TypeInv, NEW w \in Worker, PreExits(w) \/ PostExits(w) \/ FixExits(w)
    PROVE  /\ job[w].pc \in Running /\ job'[w].pc \in {"post_start", "fix_start", "decide"}
           /\ job'[w].cand = job[w].cand
           /\ \A v \in Worker \ {w} : job'[v] = job[v]
PROOF
<1>1. PICK r \in Result : job' = [job EXCEPT ![w] = Ends(job[w], r)]
  BY DEF PreExits, PostExits, FixExits, ContainerExits, Exits, Result
<1>2. job[w].pc \in Running
  BY DEF PreExits, PostExits, FixExits, ContainerExits, At, Running
<1>3. job'[w] = Ends(job[w], r) /\ JobOK(job[w]) /\ \A v \in Worker \ {w} : job'[v] = job[v]
  BY <1>1 DEF TypeInv, TypeOK
<1> QED BY <1>2, <1>3, EndsOK

\* A step inside process() that leaves what the worker's next stage relies on in order.
Handles(w) ==
    /\ Unsettled(w)
    /\ UNCHANGED <<ledger, opts>>
    /\ \A e \in Entry : e # Mine(w) => disk'[e] = disk[e]
    /\ \A v \in Worker \ {w} : job'[v] = job[v]
    /\ job'[w].cand = job[w].cand
    /\ JobHolds(job[w], disk[Mine(w)]) => JobHolds(job'[w], disk'[Mine(w)])

\* A return with a status other than ok claims nothing.
LEMMA ReturnHandles ==
    ASSUME TypeInv, NEW w \in Worker, NEW s \in Status \ {"ok"}, Return(w, s),
           Unsettled(w), UNCHANGED <<ledger, disk, opts>>
    PROVE  Handles(w)
PROOF
<1>1. /\ job'[w].pc = "return" /\ job'[w].status = s /\ job'[w].cand = job[w].cand
      /\ \A v \in Worker \ {w} : job'[v] = job[v]
  BY ReturnFields
<1>2. JobHolds(job'[w], disk[Mine(w)])
  BY <1>1 DEF JobHolds, EntryHolds, EntryKept, BeforeTheVerdict
<1> QED BY <1>1, <1>2 DEF Handles

\* Finding no entry, discarding one or going on to regenerate it.
LEMMA LookupHandles ==
    ASSUME TypeInv, NEW w \in Worker, NoEntry(w) \/ EntryDiscarded(w) \/ EntryMatches(w)
    PROVE  Handles(w)
PROOF
<1>1. /\ Unsettled(w) /\ UNCHANGED <<ledger, disk, opts>>
      /\ \/ Goto(w, "resolve") /\ (disk[Mine(w)] = Absent \/ opts.reassemble)
         \/ Goto(w, "regenerate")
  BY DEF NoEntry, EntryDiscarded, EntryMatches, At, files, Unsettled
<1>2. /\ job'[w].pc \in {"resolve", "regenerate"}
      /\ job'[w].pc = "resolve" => disk[Mine(w)] = Absent \/ opts.reassemble
      /\ job'[w].cand = job[w].cand
      /\ \A v \in Worker \ {w} : job'[v] = job[v]
  BY <1>1, GotoFields DEF PC
<1>3. JobHolds(job'[w], disk[Mine(w)])
  BY <1>1, <1>2 DEF Absent, JobHolds, EntryHolds, EntryKept, BeforeTheVerdict
<1> QED BY <1>1, <1>2, <1>3 DEF Handles

\* From the image to the end of the last container nothing is claimed and no file touched.
LEMMA BuildsHandle ==
    ASSUME TypeInv, NEW w \in Worker,
           \/ UseImage(w) \/ BuildImage(w) \/ RegisterImage(w) \/ StartContainer(w)
           \/ PreExits(w) \/ PostExits(w) \/ FixExits(w)
    PROVE  Handles(w)
PROOF
<1>1. /\ Unsettled(w) /\ job[w] \in Job /\ job \in [Worker -> Job]
      /\ UNCHANGED <<ledger, disk, opts>>
  BY DEF UseImage, BuildImage, RegisterImage, StartContainer, PreExits, PostExits, FixExits,
       ContainerExits, At, files, Unsettled, TypeInv, TypeOK
<1>2. /\ job[w].pc \in BeforeTheVerdict /\ job'[w].pc \in BeforeTheVerdict
      /\ job'[w].cand = job[w].cand
      /\ \A v \in Worker \ {w} : job'[v] = job[v]
  <2>1. CASE RegisterImage(w) \/ StartContainer(w)
    <3>1. /\ job[w].pc \in BeforeTheVerdict
          /\ \E pc \in PC : Goto(w, pc) /\ pc \in BeforeTheVerdict
      BY <2>1 DEF RegisterImage, StartContainer, At, PC, BeforeTheVerdict
    <3> QED BY <3>1, GotoFields
  <2>2. CASE UseImage(w)
    BY <1>1, <2>2 DEF UseImage, At, Job, BeforeTheVerdict
  <2>3. CASE BuildImage(w)
    BY <1>1, <2>3 DEF BuildImage, At, Job, BeforeTheVerdict
  <2>4. CASE PreExits(w) \/ PostExits(w) \/ FixExits(w)
    BY <2>4, ExitFields DEF BeforeTheVerdict, Running
  <2> QED BY <2>1, <2>2, <2>3, <2>4
<1>3. EntryHolds(job'[w], disk[Mine(w)])
  BY <1>2 DEF EntryHolds, BeforeTheVerdict
<1>4. EntryKept(job[w], disk[Mine(w)]) => EntryKept(job'[w], disk[Mine(w)])
  BY <1>1, <1>2 DEF EntryKept
<1> QED BY <1>1, <1>2, <1>3, <1>4 DEF Handles, JobHolds, EntryKept

\* The entry that is going to be written has the category of the post result.
LEMMA OpenHandles ==
    ASSUME TypeInv, NEW w \in Worker, OpenEntry(w)
    PROVE  Handles(w)
PROOF
<1>1. /\ Unsettled(w) /\ job[w] \in Job /\ UNCHANGED <<ledger, opts>>
  BY DEF OpenEntry, At, Unsettled, TypeInv, TypeOK
<1>2. \A e \in Entry : e # Mine(w) => disk'[e] = disk[e]
  BY DEF OpenEntry, Overwrite, TypeInv, TypeOK
<1>3. /\ job'[w].pc = "write" /\ job'[w].shown = Discovered(job'[w].from)
      /\ job'[w].cand = job[w].cand
      /\ \A v \in Worker \ {w} : job'[v] = job[v]
  BY <1>1 DEF OpenEntry, Job, TypeInv, TypeOK
<1>4. JobHolds(job'[w], disk'[Mine(w)])
  BY <1>3 DEF JobHolds, EntryHolds, EntryKept, BeforeTheVerdict
<1> QED BY <1>1, <1>2, <1>3, <1>4 DEF Handles

\* Writing and indexing an entry, the driver returns ok with the entry on disk.
LEMMA WriteHandles ==
    ASSUME TypeInv, NEW w \in Worker, WriteEntry(w) \/ MirrorEntry(w)
    PROVE  Handles(w)
PROOF
<1>1. /\ Unsettled(w) /\ job[w] \in Job /\ UNCHANGED <<ledger, opts>>
  BY DEF WriteEntry, MirrorEntry, At, Unsettled, TypeInv, TypeOK
<1>2. \A e \in Entry : e # Mine(w) => disk'[e] = disk[e]
  BY DEF WriteEntry, MirrorEntry, Overwrite, TypeInv, TypeOK
<1>3. /\ job'[w].pc \in {"mirror_entry", "regenerate", "return"}
      /\ job'[w].cand = job[w].cand
      /\ job'[w].pc \in {"mirror_entry", "return"} => job'[w].shown = job[w].shown
      /\ \A v \in Worker \ {w} : job'[v] = job[v]
  <2>1. \/ job'[w] = [job[w] EXCEPT !.pc = "mirror_entry"]
        \/ job'[w] = [job[w] EXCEPT !.pc = "regenerate", !.fresh = TRUE]
        \/ job'[w] = Returned(job[w], "ok")
    BY DEF WriteEntry, MirrorEntry, Wrote, TypeInv, TypeOK
  <2>2. \A v \in Worker \ {w} : job'[v] = job[v]
    BY DEF WriteEntry, MirrorEntry, TypeInv, TypeOK
  <2>3. CASE job'[w] = Returned(job[w], "ok")
    BY <2>2, <2>3, ReturnedFields
  <2>4. CASE job'[w] = [job[w] EXCEPT !.pc = "mirror_entry"]
    BY <1>1, <2>2, <2>4 DEF Job
  <2>5. CASE job'[w] = [job[w] EXCEPT !.pc = "regenerate", !.fresh = TRUE]
    BY <1>1, <2>2, <2>5 DEF Job
  <2> QED BY <2>1, <2>3, <2>4, <2>5
<1>4. JobHolds(job[w], disk[Mine(w)]) => Says(disk'[Mine(w)], job[w].shown)
  <2>1. Mine(w) \in Entry /\ disk \in [Entry -> File]
    BY <1>1, DriveAssumption DEF Mine, TypeInv, TypeOK, JobOK, Unsettled
  <2>2. CASE WriteEntry(w)
    BY <2>1, <2>2 DEF WriteEntry, At, Overwrite, JobHolds, EntryHolds, Says, Whole
  <2>3. CASE MirrorEntry(w)
    BY <2>3 DEF MirrorEntry, At, JobHolds, EntryHolds
  <2> QED BY <2>2, <2>3
<1>5. JobHolds(job[w], disk[Mine(w)]) => JobHolds(job'[w], disk'[Mine(w)])
  BY <1>3, <1>4 DEF JobHolds, EntryHolds, EntryKept, BeforeTheVerdict
<1> QED BY <1>1, <1>2, <1>3, <1>5 DEF Handles

\* regenerate agrees with an entry only when the tests show what its category says.
LEMMA RegenHandles ==
    ASSUME TypeInv, NEW w \in Worker, RegenBuilds(w) \/ RegenTests(w)
    PROVE  Handles(w)
PROOF
<1>1. /\ Unsettled(w) /\ job[w] \in Job /\ UNCHANGED <<ledger, disk, opts>>
  BY DEF RegenBuilds, RegenTests, At, files, Unsettled, TypeInv, TypeOK
<1>2. CASE RegenBuilds(w)
  <2>1. /\ job'[w].pc = "test" /\ job'[w].cand = job[w].cand
        /\ \A v \in Worker \ {w} : job'[v] = job[v]
    BY <1>1, <1>2 DEF RegenBuilds, Job, TypeInv, TypeOK
  <2>2. JobHolds(job'[w], disk[Mine(w)])
    BY <2>1 DEF JobHolds, EntryHolds, EntryKept, BeforeTheVerdict
  <2> QED BY <1>1, <2>1, <2>2 DEF Handles
<1>3. CASE RegenTests(w)
  <2>1. PICK shown \in Category \cup {"none"} :
           job' = [job EXCEPT ![w] = [job[w] EXCEPT !.pc = "rewrite_open", !.shown = shown,
                     !.status = IF Reproduces(job[w], shown) THEN "ok" ELSE "regenerate_mismatch"]]
    BY <1>3 DEF RegenTests
  <2>2. /\ job'[w].pc = "rewrite_open" /\ job'[w].cand = job[w].cand
        /\ job'[w].from = job[w].from /\ job'[w].shown = shown
        /\ job'[w].status = IF Reproduces(job[w], shown) THEN "ok" ELSE "regenerate_mismatch"
        /\ \A v \in Worker \ {w} : job'[v] = job[v]
    BY <1>1, <2>1 DEF Job, TypeInv, TypeOK
  <2>3. job'[w].status = "ok" => job'[w].shown = Discovered(job'[w].from)
    BY <2>2 DEF Reproduces
  <2>4. JobHolds(job'[w], disk[Mine(w)])
    BY <2>2, <2>3 DEF JobHolds, EntryHolds, EntryKept, BeforeTheVerdict
  <2> QED BY <1>1, <2>2, <2>4 DEF Handles
<1> QED BY <1>2, <1>3

\* What regenerate writes back is the entry it agreed with.
LEMMA RewriteHandles ==
    ASSUME TypeInv, NEW w \in Worker, RegenOpen(w) \/ RegenWrites(w)
    PROVE  Handles(w)
PROOF
<1>1. Unsettled(w) /\ UNCHANGED <<ledger, opts>>
  BY DEF RegenOpen, RegenWrites, At, Unsettled
<1>2. \A e \in Entry : e # Mine(w) => disk'[e] = disk[e]
  BY DEF RegenOpen, RegenWrites, Overwrite, TypeInv, TypeOK
<1>3. CASE RegenOpen(w)
  <2>1. job[w].pc = "rewrite_open" /\ Goto(w, "rewrite")
    BY <1>3 DEF RegenOpen, At
  <2>2. /\ job'[w].pc = "rewrite"
        /\ job'[w].cand = job[w].cand /\ job'[w].status = job[w].status
        /\ job'[w].from = job[w].from /\ job'[w].shown = job[w].shown
        /\ \A v \in Worker \ {w} : job'[v] = job[v]
    BY <2>1, GotoFields DEF PC
  <2>3. JobHolds(job[w], disk[Mine(w)]) => JobHolds(job'[w], disk'[Mine(w)])
    BY <2>1, <2>2 DEF JobHolds, EntryHolds, EntryKept, BeforeTheVerdict
  <2> QED BY <1>1, <1>2, <2>2, <2>3 DEF Handles
<1>4. CASE RegenWrites(w)
  <2>1. /\ job[w].pc = "rewrite" /\ Return(w, job[w].status)
        /\ disk' = [disk EXCEPT ![Mine(w)] = Whole(job[w])]
    BY <1>4 DEF RegenWrites, Overwrite, At
  <2>2. job[w].status \in Status /\ Mine(w) \in Entry /\ disk \in [Entry -> File]
    BY <2>1, DriveAssumption DEF Mine, TypeInv, TypeOK, JobOK, HasStatus
  <2>3. /\ job'[w].pc = "return" /\ job'[w].status = job[w].status
        /\ job'[w].cand = job[w].cand
        /\ job[w].status = "ok" => job'[w].shown = job[w].shown
        /\ \A v \in Worker \ {w} : job'[v] = job[v]
    BY <2>1, <2>2, ReturnFields
  <2>4. disk'[Mine(w)].file = "whole" /\ disk'[Mine(w)].from = job[w].from
    BY <2>1, <2>2 DEF Whole
  <2>5. JobHolds(job[w], disk[Mine(w)]) => JobHolds(job'[w], disk'[Mine(w)])
    BY <2>1, <2>3, <2>4 DEF JobHolds, EntryHolds, EntryKept, BeforeTheVerdict, Says
  <2> QED BY <1>1, <1>2, <2>3, <2>5 DEF Handles
<1> QED BY <1>3, <1>4

\* A record on its way to the state file stays as it was returned.
LEMMA AcceptHandles ==
    ASSUME TypeInv, NEW w \in Worker, Accept(w)
    PROVE  Handles(w)
PROOF
<1>1. /\ Unsettled(w) /\ job[w].pc = "return" /\ Goto(w, "append")
      /\ UNCHANGED <<ledger, disk, opts>>
  BY DEF Accept, files, At, Unsettled
<1>2. /\ job'[w].pc = "append" /\ job'[w].cand = job[w].cand /\ job'[w].status = job[w].status
      /\ job'[w].shown = job[w].shown
      /\ \A v \in Worker \ {w} : job'[v] = job[v]
  BY <1>1, GotoFields DEF PC
<1>3. JobHolds(job[w], disk[Mine(w)]) => JobHolds(job'[w], disk[Mine(w)])
  BY <1>1, <1>2 DEF JobHolds, EntryHolds, EntryKept, BeforeTheVerdict
<1> QED BY <1>1, <1>2, <1>3 DEF Handles

\* Every step of process() leaves what the next stage relies on in order.
LEMMA ProcessHandles ==
    ASSUME TypeInv, NEW w \in Worker, Process(w),
           ~Interrupted(w), ~AppendState(w), ~MirrorState(w)
    PROVE  Handles(w)
PROOF
<1>1. CASE \/ MetadataFails(w) \/ EntryStale(w) \/ CommitTooLate(w)
           \/ ImageMissing(w) \/ BuildFails(w) \/ IntrospectFails(w)
           \/ Unreproducible(w) \/ AssembleFails(w) \/ RegenFails(w)
  <2>1. Unsettled(w) /\ UNCHANGED <<ledger, disk, opts>>
    BY <1>1 DEF MetadataFails, EntryStale, CommitTooLate, ImageMissing, BuildFails,
       IntrospectFails, Unreproducible, AssembleFails, RegenFails, At, files, Unsettled
  <2>2. PICK s \in Status \ {"ok"} : Return(w, s)
    BY <1>1 DEF MetadataFails, EntryStale, CommitTooLate, ImageMissing, BuildFails,
       IntrospectFails, Unreproducible, AssembleFails, RegenFails, RegenStatus, Status
  <2> QED BY <2>1, <2>2, ReturnHandles
<1>2. CASE \/ NoEntry(w) \/ EntryDiscarded(w) \/ EntryMatches(w)
           \/ UseImage(w) \/ BuildImage(w) \/ RegisterImage(w) \/ StartContainer(w)
           \/ PreExits(w) \/ PostExits(w) \/ FixExits(w)
  BY <1>2, LookupHandles, BuildsHandle
<1>3. CASE OpenEntry(w) \/ WriteEntry(w) \/ MirrorEntry(w)
  BY <1>3, OpenHandles, WriteHandles
<1>4. CASE \/ RegenBuilds(w) \/ RegenTests(w) \/ RegenOpen(w) \/ RegenWrites(w) \/ Accept(w)
  BY <1>4, RegenHandles, RewriteHandles, AcceptHandles
<1> QED BY <1>1, <1>2, <1>3, <1>4 DEF Process

----------------------------------------------------------------------------
(* All workers and the state file.                                         *)

\* What one worker writes is not the entry of another candidate that has its own.
LEMMA EntryOfOwn ==
    ASSUME NEW c \in Candidate, NEW d \in Candidate, c # d, Own(d)
    PROVE  EntryOf[c] \in Entry /\ EntryOf[d] \in Entry /\ EntryOf[c] # EntryOf[d]
PROOF BY DriveAssumption DEF Own

\* A job that stays, over an entry that stays, holds as it did.
LEMMA JobStays ==
    ASSUME NEW v \in Worker, job'[v] = job[v], disk'[Mine(v)] = disk[Mine(v)],
           opts' = opts, JobHolds(job[v], disk[Mine(v)])
    PROVE  JobHolds(job[v], disk[Mine(v)])'
PROOF
<1>1. disk'[Mine(v)'] = disk[Mine(v)]
  BY DEF Mine
<1> QED BY <1>1 DEF JobHolds, EntryHolds, EntryKept, Says

\* The lines of the state file.
LEMMA LineTypes ==
    ASSUME TypeInv, NEW i \in DOMAIN ledger
    PROVE  ledger[i] \in Line /\ ledger[i].cand \in Candidate /\ ledger[i].cand \in Judged
PROOF
<1>1. ledger[i] \in Line
  BY ElementOfSeq, LenProperties DEF TypeInv, TypeOK
<1> QED BY <1>1 DEF Line, Judged

\* What one worker does to its entry touches neither the others nor what is recorded.
LEMMA HandlesStep ==
    ASSUME TypeInv, LedgerInv, EntryInv, NEW w \in Worker, Handles(w)
    PROVE  EntryInv'
PROOF
<1>1. /\ UNCHANGED <<ledger, opts>> /\ Busy(w)
      /\ job[w].cand \in Candidate /\ job[w].cand \notin Judged
      /\ Mine(w) = EntryOf[job[w].cand]
  BY DEF Handles, Unsettled, Busy, TypeInv, JobOK, LedgerInv, OnePlace, Mine
<1>2. ASSUME Alone(w)' PROVE JobHolds(job[w], disk[Mine(w)])'
  <2>1. Mine(w)' = Mine(w) /\ Alone(w)
    BY <1>1, <1>2 DEF Handles, Mine, Alone, Own
  <2>2. JobHolds(job[w], disk[Mine(w)])
    BY <2>1 DEF EntryInv
  <2>3. JobHolds(job'[w], disk'[Mine(w)'])
    BY <2>1, <2>2 DEF Handles
  <2> QED BY <1>1, <2>3 DEF JobHolds, EntryHolds, EntryKept, Says
<1>3. ASSUME NEW v \in Worker, v # w, Alone(v)' PROVE JobHolds(job[v], disk[Mine(v)])'
  <2>1. job'[v] = job[v] /\ Alone(v)
    BY <1>3 DEF Handles, Alone, Busy, Own
  <2>2. job[v].cand \in Candidate /\ job[v].cand # job[w].cand
    BY <1>1, <1>3, <2>1 DEF LedgerInv, OnePlace, TypeInv, JobOK, Busy, Alone
  <2>3. disk'[Mine(v)] = disk[Mine(v)]
    BY <1>1, <2>1, <2>2, EntryOfOwn DEF Handles, Mine, Alone
  <2>4. JobHolds(job[v], disk[Mine(v)])
    BY <2>1 DEF EntryInv
  <2> QED BY <1>1, <2>1, <2>3, <2>4, JobStays
<1>4. OkIsWitnessed'
  <2>1. ASSUME NEW i \in DOMAIN ledger, Own(ledger[i].cand)
        PROVE  disk'[EntryOf[ledger[i].cand]] = disk[EntryOf[ledger[i].cand]]
    <3>1. ledger[i].cand \in Candidate /\ ledger[i].cand # job[w].cand
      BY <1>1, LineTypes
    <3> QED BY <1>1, <2>1, <3>1, EntryOfOwn DEF Handles
  <2> QED BY <1>1, <2>1 DEF EntryInv, OkIsWitnessed, Own
<1> QED BY <1>2, <1>3, <1>4 DEF EntryInv

\* Steps that change neither files nor lines and leave workers as they are or idle.
LEMMA KeepingStep ==
    ASSUME EntryInv, UNCHANGED <<ledger, disk>>,
           \A v \in Worker : Busy(v)' => job'[v] = job[v] /\ opts' = opts
    PROVE  EntryInv'
PROOF
<1>1. ASSUME NEW v \in Worker, Alone(v)' PROVE JobHolds(job[v], disk[Mine(v)])'
  <2>1. job'[v] = job[v] /\ opts' = opts /\ Alone(v)
    BY <1>1 DEF Busy, Alone, Own
  <2> QED BY <2>1, JobStays DEF EntryInv
<1>2. OkIsWitnessed'
  BY DEF EntryInv, OkIsWitnessed, Own
<1> QED BY <1>1, <1>2 DEF EntryInv

\* A candidate that is taken claims nothing yet.
LEMMA TakeKeeps ==
    ASSUME TypeInv, EntryInv, NEW w \in Worker, NEW c \in Candidate, Take(w, c)
    PROVE  EntryInv'
PROOF
<1>1. /\ UNCHANGED <<ledger, disk, opts>>
      /\ job'[w] = [Idle EXCEPT !.pc = "metadata", !.cand = c]
      /\ \A v \in Worker \ {w} : job'[v] = job[v]
  BY DEF Take, files, TypeInv, TypeOK
<1>2. job'[w].pc = "metadata"
  BY <1>1 DEF Idle
<1>3. JobHolds(job[w], disk[Mine(w)])'
  BY <1>2 DEF JobHolds, EntryHolds, EntryKept, BeforeTheVerdict
<1>4. ASSUME NEW v \in Worker, v # w, Alone(v)' PROVE JobHolds(job[v], disk[Mine(v)])'
  <2>1. job'[v] = job[v] /\ Alone(v)
    BY <1>1, <1>4 DEF Busy, Alone, Own
  <2> QED BY <1>1, <2>1, JobStays DEF EntryInv
<1>5. OkIsWitnessed'
  BY <1>1 DEF EntryInv, OkIsWitnessed, Own
<1> QED BY <1>3, <1>4, <1>5 DEF EntryInv

\* A killed container leads on to a stage before the verdict, where nothing is claimed.
LEMMA KillKeeps ==
    ASSUME TypeInv, EntryInv, KillContainers
    PROVE  EntryInv'
PROOF
<1>1. /\ UNCHANGED <<ledger, disk, opts>>
      /\ \A v \in Worker :
            \/ job'[v] = job[v]
            \/ job[v].pc \in Running /\ job'[v] = Ends(job[v], "killed")
  BY DEF KillContainers, files
<1>2. ASSUME NEW v \in Worker, Alone(v)' PROVE JobHolds(job[v], disk[Mine(v)])'
  <2>1. CASE job'[v] = job[v]
    <3>1. Alone(v)
      BY <1>2, <2>1 DEF Busy, Alone, Own
    <3> QED BY <1>1, <2>1, <3>1, JobStays DEF EntryInv
  <2>2. CASE job[v].pc \in Running /\ job'[v] = Ends(job[v], "killed")
    <3>1. /\ job'[v].pc \in {"post_start", "fix_start", "decide"}
          /\ job'[v].cand = job[v].cand
      BY <2>2, EndsOK DEF TypeInv, Result
    <3>2. disk'[Mine(v)'] = disk[Mine(v)] /\ Alone(v) /\ job[v].pc \in BeforeTheVerdict
      BY <1>1, <1>2, <2>2, <3>1 DEF Mine, Alone, Busy, Own, Running, BeforeTheVerdict
    <3>3. EntryKept(job[v], disk[Mine(v)])
      BY <3>2 DEF EntryInv, JobHolds
    <3> QED BY <1>1, <3>1, <3>2, <3>3 DEF JobHolds, EntryHolds, EntryKept, BeforeTheVerdict
  <2> QED BY <1>1, <2>1, <2>2
<1>3. OkIsWitnessed'
  BY <1>1 DEF EntryInv, OkIsWitnessed, Own
<1> QED BY <1>2, <1>3 DEF EntryInv

\* The line that is appended says ok only for an entry that says what was seen.
LEMMA AppendKeeps ==
    ASSUME TypeInv, LedgerInv, EntryInv, NEW w \in Worker, AppendState(w)
    PROVE  EntryInv'
PROOF
<1> DEFINE line == LineOf(job[w])
           n == Len(ledger)
<1>1. /\ job[w].pc = "append" /\ job[w] \in Job /\ ledger \in Seq(Line) /\ line \in Line
      /\ ledger' = Append(ledger, line) /\ UNCHANGED <<disk, opts>>
  BY LineType DEF AppendState, At, TypeInv, TypeOK, JobOK, HasStatus
<1>2. line.cand = job[w].cand /\ line.status = job[w].status /\ line.shown = job[w].shown
  BY DEF LineOf
<1>3. Alone(w) => JobHolds(job[w], disk[Mine(w)])
  BY DEF EntryInv
<1> HIDE DEF line
<1>4. /\ n \in Nat /\ DOMAIN ledger = 1..n /\ DOMAIN ledger' = 1..(n + 1)
      /\ ledger'[n + 1] = line
      /\ \A i \in 1..n : ledger'[i] = ledger[i]
  BY <1>1, AppendProperties, LenProperties
<1> HIDE DEF n
<1>5. line.status = "ok" /\ Own(line.cand) => Says(disk[EntryOf[line.cand]], line.shown)
  BY <1>1, <1>2, <1>3 DEF JobHolds, EntryHolds, Mine, Alone, Busy
<1>6. OkIsWitnessed'
  <2>1. ASSUME NEW i \in 1..(n + 1), ledger'[i].status = "ok", Own(ledger'[i].cand)
        PROVE  Says(disk[EntryOf[ledger'[i].cand]], ledger'[i].shown)
    <3>1. CASE i = n + 1
      BY <1>4, <1>5, <2>1, <3>1
    <3>2. CASE i \in 1..n
      BY <1>4, <2>1, <3>2 DEF EntryInv, OkIsWitnessed, Says
    <3> QED BY <1>4, <3>1, <3>2
  <2> QED BY <1>1, <1>4, <2>1 DEF OkIsWitnessed, Own, Says
<1>7. ASSUME NEW v \in Worker, Alone(v)' PROVE JobHolds(job[v], disk[Mine(v)])'
  <2>1. CASE v # w
    <3>1. job'[v] = job[v]
      BY <2>1 DEF AppendState, Goto, Release, TypeInv, TypeOK
    <3>2. Alone(v)
      BY <1>7, <3>1 DEF Busy, Alone, Own
    <3> QED BY <1>1, <3>1, <3>2, JobStays DEF EntryInv
  <2>2. CASE v = w /\ Goto(w, "mirror_state")
    <3>1. /\ job'[w].pc = "mirror_state" /\ job'[w].cand = job[w].cand
          /\ job'[w].status = job[w].status /\ job'[w].shown = job[w].shown
      BY <2>2, GotoFields DEF PC
    <3>2. disk'[Mine(w)'] = disk[Mine(w)] /\ Alone(w)
      BY <1>1, <1>7, <2>2, <3>1 DEF Mine, Alone, Busy, Own
    <3> QED BY <1>1, <1>3, <2>2, <3>1, <3>2
            DEF JobHolds, EntryHolds, EntryKept, BeforeTheVerdict, Says
  <2>3. CASE v = w /\ Release(w)
    <3>1. job'[v].pc = "idle"
      BY <2>3 DEF Release, Idle, TypeInv, TypeOK
    <3> QED BY <1>7, <3>1 DEF Busy, Alone
  <2> QED BY <2>1, <2>2, <2>3 DEF AppendState
<1> QED BY <1>6, <1>7 DEF EntryInv

\* A line that goes takes no other with it.
LEMMA DeleteKeeps ==
    ASSUME TypeInv, LedgerInv, EntryInv, NEW i \in DOMAIN ledger, DeleteLine(i)
    PROVE  EntryInv'
PROOF
<1> DEFINE n == Len(ledger)
<1>1. /\ ledger \in Seq(Line) /\ n \in Nat /\ DOMAIN ledger = 1..n /\ i \in 1..n
      /\ ledger' = RemoveAt(ledger, i) /\ ~up /\ UNCHANGED <<disk, job>>
  BY LenProperties DEF DeleteLine, process, TypeInv, TypeOK
<1>2. /\ ledger' \in Seq(Line) /\ Len(ledger') = n - 1
      /\ \A k \in 1..(n - 1) : ledger'[k] = IF k < i THEN ledger[k] ELSE ledger[k + 1]
  BY <1>1, RemoveAtProperties
<1>3. DOMAIN ledger' = 1..(n - 1)
  BY <1>2, LenProperties
<1>4. \A k \in 1..(n - 1) : \E m \in 1..n : ledger'[k] = ledger[m]
  BY <1>1, <1>2
<1>5. OkIsWitnessed'
  <2>1. ASSUME NEW k \in 1..(n - 1), ledger'[k].status = "ok", Own(ledger'[k].cand)
        PROVE  Says(disk[EntryOf[ledger'[k].cand]], ledger'[k].shown)
    <3>1. PICK m \in 1..n : ledger'[k] = ledger[m]
      BY <1>4
    <3> QED BY <1>1, <2>1, <3>1 DEF EntryInv, OkIsWitnessed, Says
  <2> QED BY <1>1, <1>3, <2>1 DEF OkIsWitnessed, Own, Says
<1>6. \A w \in Worker : ~Busy(w)'
  BY <1>1 DEF LedgerInv, PoolOfTheRun, Busy
<1> QED BY <1>5, <1>6 DEF EntryInv, Alone

\* Letting go of a candidate.
LEMMA ReleaseKeeps ==
    ASSUME TypeInv, EntryInv, NEW w \in Worker, Release(w), UNCHANGED <<ledger, disk, opts>>
    PROVE  EntryInv'
PROOF
<1>1. ASSUME NEW v \in Worker, Busy(v)' PROVE job'[v] = job[v]
  BY <1>1 DEF Release, Idle, Busy, TypeInv, TypeOK
<1> QED BY <1>1, KeepingStep

----------------------------------------------------------------------------
(* What the state file and the entries say together.                       *)

\* Before the first run nobody works and nothing is recorded.
LEMMA EntryInit == Init => EntryInv
PROOF
<1> SUFFICES ASSUME Init PROVE EntryInv
  OBVIOUS
<1>1. DOMAIN ledger = {} /\ \A w \in Worker : ~Busy(w)
  BY DEF Init, Idle, Busy
<1> QED BY <1>1 DEF EntryInv, OkIsWitnessed, Alone

\* Every step of the driver keeps the invariant of the entries.
LEMMA EntryStep ==
    ASSUME TypeInv, LedgerInv, EntryInv, [Next]_vars
    PROVE  EntryInv'
PROOF
<1>1. ASSUME NEW w \in Worker, WorkerStep(w) PROVE EntryInv'
  <2>1. CASE Process(w)
    <3>1. CASE ~Interrupted(w) /\ ~AppendState(w) /\ ~MirrorState(w)
      BY <2>1, <3>1, ProcessHandles, HandlesStep
    <3>2. CASE Interrupted(w) \/ MirrorState(w)
      BY <3>2, ReleaseKeeps DEF Interrupted, MirrorState, files
    <3> QED BY <3>1, <3>2, AppendKeeps
  <2>2. CASE Raises(w)
    BY <2>2, ReleaseKeeps DEF Raises, files
  <2> QED BY <1>1, <2>1, <2>2, TakeKeeps DEF WorkerStep
<1>2. ASSUME NEW o \in Options, Start(o) PROVE EntryInv'
  BY <1>2, KeepingStep DEF Start, files, Busy, Idle
<1>3. CASE Crash
  BY <1>3, KeepingStep DEF Crash, files, Busy, Idle
<1>4. CASE Signal \/ HandlerSticks \/ CancelRest \/ Finish \/ UNCHANGED vars
  BY <1>4, KeepingStep DEF Signal, HandlerSticks, CancelRest, Finish, files, vars
<1> QED BY <1>1, <1>2, <1>3, <1>4, KillKeeps, DeleteKeeps DEF Next

\* The invariant of the entries holds in every state of every run.
LEMMA EntryInvariant == Spec => []EntryInv
PROOF
<1>1. TypeInv /\ LedgerInv /\ EntryInv /\ [Next]_vars => EntryInv'
  BY EntryStep
<1> QED BY <1>1, EntryInit, Invariant, PTL DEF Spec

\* A recorded ok stands for a readable entry on disk whose category is what that very run saw
\* in its builds or tests, whatever crashes, shutdowns, torn or wrong entries came before
\* (cargo_drive.py:404-426, 534-537, 617-630): for each candidate with an entry of its own.
THEOREM OkMeansWitnessed == Spec => []OkIsWitnessed
PROOF
<1>1. EntryInv => OkIsWitnessed
  BY DEF EntryInv
<1> QED BY <1>1, EntryInvariant, PTL

\* A readable entry is written over by a new reproduction only under --reassemble-stale
\* (cargo_drive.py:419-426).
THEOREM EntriesReplacedOnDemand == Spec => EntriesSurvive
PROOF
<1> DEFINE Kept == \A w \in Worker :
              (job[w].pc = "decide" /\ job'[w].pc = "write" /\ Readable(Mine(w))
                 /\ Own(job[w].cand)) => opts.reassemble
<1>1. EntryInv => Kept
  BY DEF EntryInv, Busy, Alone, JobHolds, EntryKept, BeforeTheVerdict, Readable
<1> QED BY <1>1, EntryInvariant, PTL DEF EntriesSurvive

----------------------------------------------------------------------------
(* What a worker does to the file of its candidate.                        *)

\* Only the worker of a candidate touches its entry, which is whole when it is indexed or
\* regenerated.
OnEntry(w) ==
    /\ \A e \in Entry : e # Mine(w) => disk'[e] = disk[e]
    /\ job'[w].pc \in {"mirror_entry", "regenerate"} => disk'[Mine(w)].file = "whole"

\* A step inside process() is one worker's, which keeps its candidate; the run goes on.
LEMMA ProcessMoves ==
    ASSUME TypeInv, NEW w \in Worker, Process(w),
           ~Interrupted(w), ~AppendState(w), ~MirrorState(w)
    PROVE  /\ Busy(w) /\ Busy(w)' /\ job'[w].cand = job[w].cand
           /\ \A v \in Worker \ {w} : job'[v] = job[v]
           /\ UNCHANGED <<ledger, up, opts, todo, signal>>
PROOF
<1>1. CASE Accept(w)
  <2>1. Goto(w, "append") /\ Busy(w) /\ UNCHANGED <<ledger, up, opts, todo, signal>>
    BY <1>1 DEF Accept, files, At, Busy
  <2> QED BY <2>1, GotoFields DEF PC, Busy
<1>2. CASE ~Accept(w)
  <2>1. Advances(w)
    BY <1>2, ProcessAdvances
  <2> QED BY <2>1 DEF Advances, Unsettled, Busy, TypeInv, TypeOK
<1> QED BY <1>1, <1>2

\* Every step inside process() is such a step.
LEMMA ProcessOnEntry ==
    ASSUME TypeInv, NEW w \in Worker, Process(w),
           ~Interrupted(w), ~AppendState(w), ~MirrorState(w)
    PROVE  OnEntry(w)
PROOF
<1>1. \A e \in Entry : e # Mine(w) => disk'[e] = disk[e]
  BY ProcessHandles DEF Handles
<1>2. ASSUME job'[w].pc \in {"mirror_entry", "regenerate"}
      PROVE  disk'[Mine(w)].file = "whole"
  <2>1. /\ job[w] \in Job /\ job \in [Worker -> Job] /\ disk \in [Entry -> File]
        /\ Mine(w) \in Entry
    BY ProcessMoves, DriveAssumption DEF TypeInv, TypeOK, JobOK, Busy, Mine
  <2>2. ~(\/ MetadataFails(w) \/ EntryStale(w) \/ CommitTooLate(w)
          \/ ImageMissing(w) \/ BuildFails(w) \/ IntrospectFails(w)
          \/ Unreproducible(w) \/ AssembleFails(w) \/ RegenFails(w))
    <3>1. ASSUME NEW s \in Status, Return(w, s) PROVE FALSE
      BY <1>2, <3>1, ReturnFields
    <3> QED BY <3>1 DEF MetadataFails, EntryStale, CommitTooLate, ImageMissing, BuildFails,
         IntrospectFails, Unreproducible, AssembleFails, RegenFails, RegenStatus, Status
  <2>3. ~RegenWrites(w)
    <3>1. ASSUME RegenWrites(w) PROVE FALSE
      <4>1. Return(w, job[w].status) /\ job[w].status \in Status
        BY <3>1 DEF RegenWrites, At, TypeInv, JobOK, HasStatus
      <4> QED BY <1>2, <4>1, ReturnFields
    <3> QED BY <3>1
  <2>4. ~(\/ NoEntry(w) \/ EntryDiscarded(w) \/ RegisterImage(w) \/ StartContainer(w)
          \/ RegenOpen(w) \/ Accept(w))
    <3>1. ASSUME NEW pc \in PC \ {"mirror_entry", "regenerate"}, Goto(w, pc) PROVE FALSE
      BY <1>2, <3>1, GotoFields
    <3> QED BY <3>1 DEF NoEntry, EntryDiscarded, RegisterImage, StartContainer, RegenOpen,
         Accept, PC
  <2>5. ~(PreExits(w) \/ PostExits(w) \/ FixExits(w))
    BY <1>2, ExitFields
  <2>6. ~(UseImage(w) \/ BuildImage(w))
    <3>1. ASSUME NEW t, NEW pc \in {"pre_start", "register"},
                 job' = [job EXCEPT ![w] = [job[w] EXCEPT !.pc = pc, !.tag = t]]
          PROVE  FALSE
      BY <1>2, <2>1, <3>1 DEF Job
    <3> QED BY <3>1 DEF UseImage, BuildImage
  <2>7. ~(OpenEntry(w) \/ RegenBuilds(w) \/ RegenTests(w))
    <3>1. ASSUME OpenEntry(w) PROVE FALSE
      BY <1>2, <2>1, <3>1 DEF OpenEntry, Job
    <3>2. ASSUME RegenBuilds(w) PROVE FALSE
      BY <1>2, <2>1, <3>2 DEF RegenBuilds, Job
    <3>3. ASSUME RegenTests(w) PROVE FALSE
      BY <1>2, <2>1, <3>3 DEF RegenTests, Job
    <3> QED BY <3>1, <3>2, <3>3
  <2>8. CASE EntryMatches(w) \/ MirrorEntry(w)
    BY <2>8 DEF EntryMatches, MirrorEntry, Readable, files
  <2>9. CASE WriteEntry(w)
    BY <2>1, <2>9 DEF WriteEntry, Overwrite, Whole
  <2> QED BY <2>2, <2>3, <2>4, <2>5, <2>6, <2>7, <2>8, <2>9 DEF Process
<1> QED BY <1>1, <1>2 DEF OnEntry

----------------------------------------------------------------------------
(* A run that nobody stops loses no candidate.                             *)

\* An entry that is being indexed or about to be regenerated is there.
EntryThere ==
    \A w \in Worker :
        job[w].pc \in {"mirror_entry", "regenerate"} /\ Own(job[w].cand) => Readable(Mine(w))

\* Candidates on which process() does not raise have a place.
NobodyLost ==
    up /\ signal = "none" =>
        \A c \in Sure :
            \/ c \in todo \/ KeyOf[c] \in Recorded
            \/ \E w \in Worker : Busy(w) /\ job[w].cand = c

\* Steps that leave the entry files and no worker new work.
LEMMA ThereStays ==
    ASSUME EntryThere, disk' = disk,
           \A w \in Worker : Busy(w)' => \/ job'[w] = job[w]
                                         \/ job'[w].pc \notin {"mirror_entry", "regenerate"}
    PROVE  EntryThere'
PROOF BY DEF EntryThere, Readable, Mine, Busy, Own

\* Nobody else touches the entry of a candidate that has its own in between.
LEMMA ThereStep ==
    ASSUME TypeInv, LedgerInv, EntryThere, [Next]_vars
    PROVE  EntryThere'
PROOF
<1>1. ASSUME NEW w \in Worker, Process(w), ~Interrupted(w), ~AppendState(w), ~MirrorState(w)
      PROVE  EntryThere'
  <2>1. OnEntry(w)
    BY <1>1, ProcessOnEntry
  <2>2. /\ Busy(w) /\ job'[w].cand = job[w].cand
        /\ \A v \in Worker \ {w} : job'[v] = job[v]
    BY <1>1, ProcessMoves
  <2>3. ASSUME NEW v \in Worker, job'[v].pc \in {"mirror_entry", "regenerate"},
               Own(job'[v].cand)
        PROVE  Readable(Mine(v))'
    <3>1. CASE v = w
      BY <2>1, <2>2, <2>3, <3>1 DEF OnEntry, Readable, Mine
    <3>2. CASE v # w
      <4>1. job'[v] = job[v] /\ Busy(v) /\ Mine(v)' = Mine(v) /\ Readable(Mine(v))
        BY <2>2, <2>3, <3>2 DEF EntryThere, Busy, Mine
      <4>2. job[v].cand \in Candidate /\ job[w].cand \in Candidate /\ job[v].cand # job[w].cand
        BY <2>2, <3>2, <4>1 DEF LedgerInv, OnePlace, TypeInv, JobOK, Busy
      <4>3. disk'[Mine(v)] = disk[Mine(v)]
        BY <2>1, <2>3, <4>1, <4>2, EntryOfOwn DEF Mine, OnEntry
      <4> QED BY <4>1, <4>3 DEF Readable
    <3> QED BY <3>1, <3>2
  <2> QED BY <2>3 DEF EntryThere, Own
<1>2. ASSUME NEW w \in Worker, Interrupted(w) \/ AppendState(w) \/ MirrorState(w) \/ Raises(w)
      PROVE  EntryThere'
  <2>1. disk' = disk /\ (Release(w) \/ Goto(w, "mirror_state"))
    BY <1>2 DEF Interrupted, AppendState, MirrorState, Raises, files
  <2>2. job'[w].pc \in {"idle", "mirror_state"} /\ \A v \in Worker \ {w} : job'[v] = job[v]
    BY <2>1, GotoFields DEF Release, Idle, TypeInv, TypeOK, PC
  <2> QED BY <2>1, <2>2, ThereStays
<1>3. ASSUME NEW w \in Worker, NEW c \in Candidate, Take(w, c) PROVE EntryThere'
  <2>1. disk' = disk /\ job'[w].pc = "metadata" /\ \A v \in Worker \ {w} : job'[v] = job[v]
    BY <1>3 DEF Take, files, Idle, TypeInv, TypeOK
  <2> QED BY <2>1, ThereStays
<1>4. CASE KillContainers
  <2>1. ASSUME NEW v \in Worker
        PROVE  job'[v] = job[v] \/ job'[v].pc \in {"post_start", "fix_start", "decide"}
    BY <1>4, EndsOK DEF KillContainers, TypeInv, Result
  <2> QED BY <1>4, <2>1, ThereStays DEF KillContainers, files
<1>5. CASE (\E o \in Options : Start(o)) \/ Crash
  BY <1>5, ThereStays DEF Start, Crash, files, Busy, Idle
<1>6. CASE \/ Signal \/ HandlerSticks \/ CancelRest \/ Finish \/ UNCHANGED vars
           \/ \E i \in DOMAIN ledger : DeleteLine(i)
  BY <1>6, ThereStays DEF Signal, HandlerSticks, CancelRest, Finish, DeleteLine, files,
       process, vars
<1> QED BY <1>1, <1>2, <1>3, <1>4, <1>5, <1>6 DEF Next, WorkerStep

\* A candidate that has a place, or a line, keeps one unless its worker raises or a shutdown
\* takes it away.
LEMMA LostStep ==
    ASSUME TypeInv, LedgerInv, EntryThere, NobodyLost, [Next]_vars
    PROVE  NobodyLost'
PROOF
<1> DEFINE Placed(c) == \/ c \in todo \/ KeyOf[c] \in Recorded
                        \/ \E w \in Worker : Busy(w) /\ job[w].cand = c
<1> SUFFICES ASSUME up', signal' = "none", NEW c \in Sure
             PROVE  Placed(c)'
  BY DEF NobodyLost, Sure, Own
<1>0. UNCHANGED ledger => UNCHANGED Recorded
  BY DEF Recorded, Judged
<1>1. ASSUME NEW w \in Worker, Process(w), ~Interrupted(w), ~AppendState(w), ~MirrorState(w)
      PROVE  Placed(c)'
  <2>1. /\ Busy(w) /\ Busy(w)' /\ job'[w].cand = job[w].cand
        /\ \A v \in Worker \ {w} : job'[v] = job[v]
        /\ UNCHANGED <<ledger, up, todo, signal>>
    BY <1>1, ProcessMoves
  <2>2. Placed(c)
    BY <2>1 DEF NobodyLost
  <2> QED BY <1>0, <2>1, <2>2 DEF Busy
<1>2. ASSUME NEW w \in Worker, Interrupted(w) PROVE FALSE
  BY <1>2 DEF Interrupted
<1>3. ASSUME NEW w \in Worker, AppendState(w) PROVE Placed(c)'
  <2>1. /\ Busy(w) /\ UNCHANGED <<up, todo, signal>>
        /\ \A v \in Worker \ {w} : job'[v] = job[v]
    BY <1>3 DEF AppendState, At, Busy, Goto, Release, TypeInv, TypeOK
  <2>2. Judged' = Judged \cup {job[w].cand}
    BY <1>3, AppendRecords
  <2>3. KeyOf[job[w].cand] \in Recorded' /\ Recorded \subseteq Recorded'
    BY <2>2 DEF Recorded
  <2>4. Placed(c)
    BY <2>1 DEF NobodyLost
  <2> QED BY <2>1, <2>3, <2>4 DEF Busy
<1>4. ASSUME NEW w \in Worker, MirrorState(w) PROVE Placed(c)'
  <2>1. /\ job[w].pc = "mirror_state" /\ UNCHANGED <<ledger, up, todo, signal>>
        /\ \A v \in Worker \ {w} : job'[v] = job[v]
    BY <1>4 DEF MirrorState, At, Release, TypeInv, TypeOK
  <2>2. KeyOf[job[w].cand] \in Recorded
    BY <2>1 DEF LedgerInv, MirrorAfterLine, Recorded, Judged
  <2>3. Placed(c)
    BY <2>1 DEF NobodyLost
  <2> QED BY <1>0, <2>1, <2>2, <2>3 DEF Busy
<1>5. ASSUME NEW w \in Worker, Raises(w) PROVE Placed(c)'
  <2>1. job[w].cand # c
    BY <1>5 DEF Raises, EntryThere, Sure
  <2>2. /\ UNCHANGED <<ledger, todo, signal>> \/ ~up'
        /\ up' => up
        /\ \A v \in Worker \ {w} : job'[v] = job[v]
    BY <1>5 DEF Raises, Release, At, files, TypeInv, TypeOK
  <2>3. Placed(c)
    BY <2>2 DEF NobodyLost
  <2> QED BY <1>0, <2>1, <2>2, <2>3 DEF Busy
<1>6. ASSUME NEW w \in Worker, NEW d \in Candidate, Take(w, d) PROVE Placed(c)'
  <2>1. /\ UNCHANGED <<ledger, up, signal>> /\ todo' = todo \ {d} /\ ~Busy(w)
        /\ job'[w].cand = d /\ Busy(w)'
        /\ \A v \in Worker \ {w} : job'[v] = job[v]
    BY <1>6 DEF Take, At, files, Busy, Idle, TypeInv, TypeOK
  <2>2. Placed(c)
    BY <2>1 DEF NobodyLost
  <2> QED BY <1>0, <2>1, <2>2 DEF Busy
<1>7. ASSUME NEW o \in Options, Start(o) PROVE Placed(c)'
  BY <1>0, <1>7 DEF Start, files, Unrecorded, Sure
<1>8. CASE Signal \/ KillContainers \/ HandlerSticks \/ CancelRest \/ Finish \/ Crash
  BY <1>8 DEF Signal, KillContainers, HandlerSticks, CancelRest, Finish, Crash
<1>9. ASSUME NEW i \in DOMAIN ledger, DeleteLine(i) PROVE FALSE
  BY <1>9 DEF DeleteLine, process
<1>10. CASE UNCHANGED vars
  BY <1>0, <1>10 DEF NobodyLost, vars, Busy
<1> QED
  BY <1>1, <1>2, <1>3, <1>4, <1>5, <1>6, <1>7, <1>8, <1>9, <1>10 DEF Next, WorkerStep

\* Both hold in every state of every run.
LEMMA NobodyLostInvariant == Spec => [](EntryThere /\ NobodyLost)
PROOF
<1>1. Init => EntryThere /\ NobodyLost
  BY DEF Init, Idle, EntryThere, NobodyLost
<1>2. TypeInv /\ LedgerInv /\ EntryThere /\ NobodyLost /\ [Next]_vars
         => (EntryThere /\ NobodyLost)'
  BY ThereStep, LostStep
<1> QED BY <1>1, <1>2, Invariant, PTL DEF Spec

\* A run that ends by itself leaves a line for each candidate on which process() does not
\* raise, whatever the others in the pool did and whatever runs came before
\* (cargo_drive.py:877-896).
THEOREM CompleteRuns == Spec => RunsEndComplete
PROOF
<1>1. NobodyLost => (Finish /\ signal = "none" => \A c \in Sure : KeyOf[c] \in Recorded)
  BY DEF NobodyLost, Finish, Busy
<1> QED BY <1>1, NobodyLostInvariant, PTL DEF RunsEndComplete
=============================================================================
