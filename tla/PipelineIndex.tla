----------------------------- MODULE PipelineIndex -----------------------------
(***************************************************************************)
(* The query index lib/bump_ext/db.py over the entry files: what drivers   *)
(* write into it behind each entry (cargo_drive.py:559-617), what          *)
(* scripts/rebuild_index.py makes of the files, what scripts/              *)
(* verify_index.py sees, and the files themselves, which drivers,          *)
(* regenerate and git change.  Every statement of the database commits by  *)
(* itself (isolation_level=None), so that other processes and crashes come *)
(* between any two of them.                                                *)
(***************************************************************************)
EXTENDS Naturals, Sequences

CONSTANTS
    Entry,      \* entry ids, names of the files
    Driver,     \* driver processes on one --db, each with candidates of its own
    Chunk,      \* [Driver -> SUBSET Entry]
    Rebuild,    \* the process of rebuild_index.py
    Sourceless, \* entries whose candidates name no source
    Msrv,       \* values of ecosystemMetadata's rustMsrv
    Alone,      \* operators: does one rebuild the index only while no driver runs?
    NoEntry,
    NoRow,
    NoMsrv,
    MaxWrites,  \* bound: versions of files
    MaxFlips    \* bound: flips of classifications

ASSUME IndexAssumption ==
    /\ Rebuild \notin Driver
    /\ NoEntry \notin Entry
    /\ NoMsrv \notin Msrv
    /\ NoRow \notin [hash : Nat, breaking : BOOLEAN, msrv : Msrv \cup {NoMsrv}, dated : BOOLEAN]
    /\ Chunk \in [Driver -> SUBSET Entry]
    /\ \A d, k \in Driver : d # k => Chunk[d] \cap Chunk[k] = {}
    /\ Sourceless \subseteq Entry
    /\ Alone \subseteq BOOLEAN
    /\ MaxWrites \in Nat /\ MaxFlips \in Nat

VARIABLES
    file,      \* the entry files
    row,       \* table entries
    source,    \* table ingestion_sources: who ingested the entry
    cls,       \* table classifications: the rows of each entry, oldest first
    attempts,  \* table reproduction_attempts: each by the writing it is of (its run and time)
    proc,      \* where each process is
    todo,      \* files the rebuild has still to read
    alone,     \* which of Alone this is: db.py:11 assumes a single writer
    beside,    \* has a driver been at work since the rebuild began?
    rebuilt,   \* has a rebuild gone through without, nothing having changed since?
    writes, flips

vars == <<file, row, source, cls, attempts, proc, todo, alone, beside, rebuilt, writes, flips>>
tables == <<row, source, cls, attempts>>

\* Version 0 stands for the bytes of a torn file; an invalid one parses and fails the schema.
\* Two of the columns stand for all: the category, which every entry has and which comes with
\* a failure block, and the MSRV, which an entry of an older schema has not.
MaybeMsrv == Msrv \cup {NoMsrv}
Text == [version : 0..MaxWrites, breaking : BOOLEAN, msrv : MaybeMsrv]
Nothing == [version |-> 0, breaking |-> FALSE, msrv |-> NoMsrv]
File == [kind : {"absent", "torn", "invalid", "valid"}, version : 0..MaxWrites,
         breaking : BOOLEAN, msrv : MaybeMsrv]
Absent == [kind |-> "absent", version |-> 0, breaking |-> FALSE, msrv |-> NoMsrv]
Torn == [kind |-> "torn", version |-> 0, breaking |-> FALSE, msrv |-> NoMsrv]
Row == [hash : 0..MaxWrites, breaking : BOOLEAN, msrv : MaybeMsrv, dated : BOOLEAN]

Class == [by : {"seed", "flip"}, current : BOOLEAN]

Process == Driver \cup {Rebuild}
PC == {"idle", "write", "rewrite", "read", "hash", "upsert", "patch", "source_check",
       "source", "attempt", "seed_check", "seed", "next"}
\* What a process holds of an entry: as the driver made it or the rebuild read it first, and
\* as upsert_entry_from_json read it, the hash by a second reading.
Held == [pc : PC, entry : Entry \cup {NoEntry}, made : Text, read : Text]
Idle == [pc |-> "idle", entry |-> NoEntry, made |-> Nothing, read |-> Nothing]

At(p, pc) == proc[p].pc = pc
E(p) == proc[p].entry
Becomes(p, pc, e, made, read) ==
    proc' = [proc EXCEPT ![p] = [pc |-> pc, entry |-> e, made |-> made, read |-> read]]
Goto(p, pc) == Becomes(p, pc, E(p), proc[p].made, proc[p].read)
Stop(p) == proc' = [proc EXCEPT ![p] = Idle]
MayRun(p) == alone => \A q \in Process \ {p} : p = Rebuild \/ q = Rebuild => At(q, "idle")

Init ==
    /\ file = [e \in Entry |-> Absent]
    /\ row = [e \in Entry |-> NoRow]
    /\ source = [e \in Entry |-> "none"]
    /\ cls = [e \in Entry |-> <<>>]
    /\ attempts = [e \in Entry |-> <<>>]
    /\ proc = [p \in Process |-> Idle]
    /\ todo = {}
    /\ alone \in Alone
    /\ beside = FALSE /\ rebuilt = FALSE
    /\ writes = 0 /\ flips = 0

----------------------------------------------------------------------------
(* The files.                                                              *)

\* The next version of a file; whatever a rebuild found is out of date.
Write(e, kind, b, m) ==
    /\ writes < MaxWrites
    /\ writes' = writes + 1
    /\ file' = [file EXCEPT ![e] = [kind |-> kind, version |-> writes + 1, breaking |-> b,
                                    msrv |-> m]]
    /\ rebuilt' = FALSE

TextOf(f) == [version |-> f.version, breaking |-> f.breaking, msrv |-> f.msrv]

\* A driver truncates the file of a new entry, or of one it re-assembles.
DriverOpens(d, e) ==
    /\ At(d, "idle") /\ MayRun(d)
    /\ file[e].kind # "torn"
    /\ file' = [file EXCEPT ![e] = Torn]
    /\ rebuilt' = FALSE /\ beside' = TRUE
    /\ Becomes(d, "write", e, Nothing, Nothing)
    /\ UNCHANGED <<alone, tables, todo, writes, flips>>

DriverWrites(d) ==
    /\ At(d, "write")
    /\ \E b \in BOOLEAN, m \in Msrv :
          /\ Write(E(d), "valid", b, m)
          /\ Becomes(d, "read", E(d),
                     [version |-> writes + 1, breaking |-> b, msrv |-> m], Nothing)
    /\ UNCHANGED <<alone, beside, tables, todo, flips>>

\* regenerate reads an entry and later writes it back with more in it; no table is told.
RegenerateOpens(d, e) ==
    /\ At(d, "idle") /\ MayRun(d)
    /\ file[e].kind = "valid"
    /\ file' = [file EXCEPT ![e] = Torn]
    /\ rebuilt' = FALSE /\ beside' = TRUE
    /\ Becomes(d, "rewrite", e, TextOf(file[e]), Nothing)
    /\ UNCHANGED <<alone, tables, todo, writes, flips>>

RegenerateWrites(d) ==
    /\ At(d, "rewrite")
    /\ Write(E(d), "valid", proc[d].made.breaking, proc[d].made.msrv)
    /\ Stop(d)
    /\ UNCHANGED <<alone, beside, tables, todo, flips>>

\* git brings another version of a file, or one of an older schema.
Pull(e) ==
    /\ \A p \in Process : At(p, "idle")
    /\ \/ Write(e, "invalid", FALSE, NoMsrv)
       \/ \E b \in BOOLEAN, m \in MaybeMsrv : Write(e, "valid", b, m)
    /\ UNCHANGED <<alone, beside, tables, proc, todo, flips>>

Remove(e) ==
    /\ \A p \in Process : At(p, "idle")
    /\ file[e] # Absent
    /\ file' = [file EXCEPT ![e] = Absent]
    /\ rebuilt' = FALSE
    /\ UNCHANGED <<alone, beside, tables, proc, todo, writes, flips>>

----------------------------------------------------------------------------
(* What a driver and a rebuild both call.                                  *)

\* upsert_entry_from_json reads the file; a torn one raises.
ReadsEntry(p) ==
    /\ At(p, "read") /\ file[E(p)].kind \in {"invalid", "valid"}
    /\ Becomes(p, "hash", E(p), proc[p].made, [TextOf(file[E(p)]) EXCEPT !.version = 0])
    /\ UNCHANGED <<alone, beside, file, tables, todo, rebuilt, writes, flips>>

\* The hash is of the bytes that are there by now, torn ones too.
HashesEntry(p) ==
    /\ At(p, "hash")
    /\ Becomes(p, "upsert", E(p), proc[p].made,
               [proc[p].read EXCEPT !.version = file[E(p)].version])
    /\ UNCHANGED <<alone, beside, file, tables, todo, rebuilt, writes, flips>>

Dated(r) == r # NoRow /\ r.dated
MsrvOf(r) == IF r = NoRow THEN NoMsrv ELSE r.msrv

\* COALESCE(excluded.rust_msrv, entries.rust_msrv)
Coalesce(m, r) == IF m = NoMsrv THEN MsrvOf(r) ELSE m

\* Mutant: ON CONFLICT forgets a column.
KeepsMsrv(p) ==
    LET r == row[E(p)]
    IN  [hash |-> proc[p].read.version, breaking |-> proc[p].read.breaking,
         msrv |-> IF r = NoRow THEN proc[p].read.msrv ELSE r.msrv, dated |-> Dated(r)]

\* The row as it was read and hashed; the commit date stays, and an MSRV the file has not.
RowOf(p) ==
    LET r == row[E(p)]
    IN  [hash |-> proc[p].read.version, breaking |-> proc[p].read.breaking,
         msrv |-> Coalesce(proc[p].read.msrv, r), dated |-> Dated(r)]

UpsertsEntry(p) ==
    /\ At(p, "upsert")
    /\ row' = [row EXCEPT ![E(p)] = RowOf(p)]
    /\ Becomes(p, IF p = Rebuild THEN "source_check" ELSE "patch", E(p), proc[p].made, Nothing)
    /\ UNCHANGED <<alone, beside, file, source, cls, attempts, todo, rebuilt, writes, flips>>

AfterEntry(p) == IF p = Rebuild THEN Goto(p, "next") ELSE Stop(p)

\* seed_classification_if_absent is called for an entry with a failure block only.
SeedLooks(p) ==
    /\ At(p, "seed_check")
    /\ IF proc[p].made.breaking /\ cls[E(p)] = <<>> THEN Goto(p, "seed") ELSE AfterEntry(p)
    /\ UNCHANGED <<alone, beside, file, tables, todo, rebuilt, writes, flips>>

HasCurrent(e) == \E i \in DOMAIN cls[e] : cls[e][i].current

\* Mutant: no unique index on the current classification.
SeedsUnguarded(p) ==
    /\ At(p, "seed")
    /\ cls' = [cls EXCEPT ![E(p)] = Append(@, [by |-> "seed", current |-> TRUE])]
    /\ AfterEntry(p)
    /\ UNCHANGED <<alone, beside, file, row, source, attempts, todo, rebuilt, writes, flips>>

Seeds(p) ==
    /\ At(p, "seed") /\ ~HasCurrent(E(p))
    /\ cls' = [cls EXCEPT ![E(p)] = Append(@, [by |-> "seed", current |-> TRUE])]
    /\ AfterEntry(p)
    /\ UNCHANGED <<alone, beside, file, row, source, attempts, todo, rebuilt, writes, flips>>

Unreadable(e) == file[e].kind \in {"absent", "torn"}

\* Mutant: a compound write that fails is begun again.
BeginsAgain(p) ==
    /\ At(p, "seed") /\ HasCurrent(E(p))
    /\ Goto(p, "read")
    /\ UNCHANGED <<alone, beside, file, tables, todo, rebuilt, writes, flips>>

\* A torn or missing file, or the unique index, raises: a worker drops its candidate, the
\* rebuild ends.
Raises(p) ==
    /\ \/ At(p, "read") /\ Unreadable(E(p))
       \/ p = Rebuild /\ At(p, "next") /\ \E e \in todo : Unreadable(e)
       \/ At(p, "seed") /\ HasCurrent(E(p))
    /\ Stop(p)
    /\ todo' = IF p = Rebuild THEN {} ELSE todo
    /\ UNCHANGED <<alone, beside, file, tables, rebuilt, writes, flips>>

----------------------------------------------------------------------------
(* The rest of a driver's compound write.                                  *)

\* patch_entry_metadata: what the driver has of the candidate; its UPDATEs, one for each
\* column, are one step.
Patches(d) ==
    /\ At(d, "patch")
    /\ row' = [row EXCEPT ![E(d)] = [hash |-> @.hash, breaking |-> @.breaking,
                                     msrv |-> proc[d].made.msrv, dated |-> TRUE]]
    /\ Goto(d, "source")
    /\ UNCHANGED <<alone, beside, file, source, cls, attempts, todo, rebuilt, writes, flips>>

Records(d) ==
    /\ At(d, "attempt")
    /\ attempts' = [attempts EXCEPT ![E(d)] = Append(@, proc[d].made.version)]
    /\ Goto(d, "seed_check")
    /\ UNCHANGED <<alone, beside, file, row, source, cls, todo, rebuilt, writes, flips>>

\* upsert_ingestion_source: the driver says what the candidate says, the rebuild "unknown".
SetsSource(p) ==
    /\ At(p, "source")
    /\ source' = [source EXCEPT ![E(p)] =
                     IF p = Rebuild \/ E(p) \in Sourceless THEN "unknown" ELSE "known"]
    /\ Goto(p, IF p = Rebuild THEN "seed_check" ELSE "attempt")
    /\ UNCHANGED <<alone, beside, file, row, cls, attempts, todo, rebuilt, writes, flips>>

\* The process is killed between two statements, or one of them finds the database busy for
\* longer than busy_timeout (db.py:243).
Crash(p) ==
    /\ ~At(p, "idle")
    /\ Stop(p)
    /\ todo' = IF p = Rebuild THEN {} ELSE todo
    /\ UNCHANGED <<alone, beside, file, tables, rebuilt, writes, flips>>

----------------------------------------------------------------------------
(* rebuild_index.py and flip_classification.                               *)

\* Mutant: the directory is listed with the files in it that are no entries.
ListsEveryFile ==
    /\ At(Rebuild, "idle") /\ MayRun(Rebuild)
    /\ todo' = {e \in Entry : file[e].kind # "absent"} \cup {NoEntry}
    /\ Goto(Rebuild, "next")
    /\ beside' = \E d \in Driver : ~At(d, "idle")
    /\ rebuilt' = FALSE
    /\ UNCHANGED <<alone, file, tables, writes, flips>>

RebuildStarts ==
    /\ At(Rebuild, "idle") /\ MayRun(Rebuild)
    /\ todo' = {e \in Entry : file[e].kind # "absent"}
    /\ Goto(Rebuild, "next")
    /\ beside' = \E d \in Driver : ~At(d, "idle")
    /\ rebuilt' = FALSE
    /\ UNCHANGED <<alone, file, tables, writes, flips>>

\* Mutant: a file whose hash is in the index already is passed over.
SkipsIndexed(e) ==
    /\ At(Rebuild, "next") /\ e \in todo
    /\ todo' = todo \ {e}
    /\ IF file[e].kind = "valid" /\ row[e] # NoRow /\ row[e].hash = file[e].version
         THEN UNCHANGED proc
         ELSE Becomes(Rebuild, "read", e, TextOf(file[e]), Nothing)
    /\ UNCHANGED <<alone, beside, file, tables, rebuilt, writes, flips>>

\* Reads and validates a file: one that fails the schema is skipped.
RebuildTakes(e) ==
    /\ At(Rebuild, "next") /\ e \in todo
    /\ file[e].kind \in {"invalid", "valid"}
    /\ todo' = todo \ {e}
    /\ IF file[e].kind = "invalid" THEN UNCHANGED proc
       ELSE Becomes(Rebuild, "read", e, TextOf(file[e]), Nothing)
    /\ UNCHANGED <<alone, beside, file, tables, rebuilt, writes, flips>>

\* Mutant: the source is stubbed without a look.
StubsAlways ==
    /\ At(Rebuild, "source_check")
    /\ Goto(Rebuild, "source")
    /\ UNCHANGED <<alone, beside, file, tables, todo, rebuilt, writes, flips>>

RebuildLooksForSource ==
    /\ At(Rebuild, "source_check")
    /\ Goto(Rebuild, IF source[E(Rebuild)] = "none" THEN "source" ELSE "seed_check")
    /\ UNCHANGED <<alone, beside, file, tables, todo, rebuilt, writes, flips>>

RebuildEnds ==
    /\ At(Rebuild, "next") /\ todo = {}
    /\ Stop(Rebuild)
    /\ rebuilt' = ~beside
    /\ UNCHANGED <<alone, beside, file, tables, todo, writes, flips>>

Retired(s) == [i \in DOMAIN s |-> [by |-> s[i].by, current |-> FALSE]]

\* One transaction: the current classification retires, a new one follows.
Flip(e) ==
    /\ row[e] # NoRow /\ flips < MaxFlips
    /\ flips' = flips + 1
    /\ cls' = [cls EXCEPT ![e] =
                  Append(Retired(@), [by |-> "flip", current |-> TRUE])]
    /\ UNCHANGED <<alone, beside, file, row, source, attempts, proc, todo, rebuilt, writes>>

DriverStep(d) ==
    \/ \E e \in Chunk[d] : DriverOpens(d, e) \/ RegenerateOpens(d, e)
    \/ DriverWrites(d) \/ RegenerateWrites(d) \/ Patches(d) \/ Records(d)

RebuildStep ==
    \/ RebuildStarts \/ RebuildLooksForSource \/ RebuildEnds
    \/ \E e \in Entry : RebuildTakes(e)

Next ==
    \/ \E d \in Driver : DriverStep(d)
    \/ RebuildStep
    \/ \E p \in Process :
          \/ ReadsEntry(p) \/ HashesEntry(p) \/ UpsertsEntry(p) \/ SetsSource(p)
          \/ SeedLooks(p) \/ Seeds(p) \/ Raises(p) \/ Crash(p)
    \/ \E e \in Entry : Pull(e) \/ Remove(e) \/ Flip(e)

Spec == Init /\ [][Next]_vars

----------------------------------------------------------------------------
(* verify_index.py and the properties.                                     *)

\* What verify_index compares for an entry: the file's hash and the row's.
Clean(e) ==
    IF file[e].kind = "absent" THEN row[e] = NoRow
    ELSE row[e] # NoRow /\ row[e].hash = file[e].version

\* Every variable has its type; the counters stay under their bounds.
TypeOK ==
    /\ file \in [Entry -> File]
    /\ row \in [Entry -> Row \cup {NoRow}]
    /\ source \in [Entry -> {"none", "unknown", "known"}]
    /\ cls \in [Entry -> Seq(Class)]
    /\ attempts \in [Entry -> Seq(0..MaxWrites)]
    /\ proc \in [Process -> Held]
    /\ todo \subseteq Entry
    /\ alone \in Alone
    /\ beside \in BOOLEAN /\ rebuilt \in BOOLEAN
    /\ writes \in 0..MaxWrites /\ flips \in 0..MaxFlips

\* An entry never has two current classifications, whoever seeds and flips at the same time
\* (db.py:164, 642-643).
OneCurrent ==
    \A e \in Entry : \A i, j \in DOMAIN cls[e] :
        cls[e][i].current /\ cls[e][j].current => i = j

\* A row says what the file says, in every column the file has a value for: one it has none
\* for may keep that of an older version.
Says(e) ==
    /\ row[e].breaking = file[e].breaking
    /\ file[e].msrv \in {NoMsrv, row[e].msrv}

\* Where verify_index finds no drift the row says what the file says: no stale index hides
\* behind an edited entry (verify_index.py:10-12), whatever wrote, regenerated or crashed in
\* between, if nobody rebuilds beside a driver (db.py:11).
CleanMeansFresh == alone => \A e \in Entry : Clean(e) /\ row[e] # NoRow => Says(e)

\* After a rebuild with no driver beside it every valid entry is indexed with its present
\* hash and columns, has a source and, if it has a failure block, a classification: also
\* those whose driver crashed half-way, and those that an earlier rebuild beside a driver got
\* wrong (rebuild_index.py:3-9, bootstrap.sh:116-117).
CompleteAfterRebuild ==
    rebuilt => \A e \in Entry : file[e].kind = "valid" =>
        /\ Clean(e) /\ Says(e)
        /\ source[e] # "none"
        /\ file[e].breaking => cls[e] # <<>>

\* Whoever overlaps or is killed, the attempts can be evaluated: no reproduction is recorded
\* twice, by resuming or regenerating, and the entry of an attempt is there with its commit
\* date and a source (db.py:139: entry_id REFERENCES entries(id); cargo_drive.py:589-617).
AttemptsStand ==
    \A e \in Entry :
        /\ \A i, j \in DOMAIN attempts[e] : attempts[e][i] = attempts[e][j] => i = j
        /\ attempts[e] # <<>> => Dated(row[e]) /\ source[e] # "none"

\* What only the driver knows, the source of an entry and its commit date, survives every
\* later indexing that has no driver beside it (rebuild_index.py:79-81: "If already present,
\* keep it"; db.py:387).
DriverFactsKept ==
    [][alone => \A e \in Entry :
          /\ source[e] = "known" => source'[e] = "known"
          /\ Dated(row[e]) => Dated(row'[e])]_vars
=============================================================================
