------------------------------- MODULE FatIndex -------------------------------
(***************************************************************************)
(* docker/cargo-fat/index.json, the registry of fat images, and the        *)
(* commands of pipelines/cargo/fat_image.py and the build step of          *)
(* cargo_drive.py that read it, change it in memory and write it back.     *)
(* docs/cargo/running-a-batch.md:316-319 has several drivers run side by   *)
(* side; nothing locks the file.                                           *)
(***************************************************************************)
EXTENDS Naturals, SequencesExt

CONSTANTS
    Process,     \* drivers with --build-missing-bases, and fat_image commands
    Tag,         \* fat-image tags
    NoTag,
    Alone,       \* values of alone
    MaxOps,      \* bound: operations begun
    MaxKills     \* bound: processes killed

ASSUME FatIndexAssumption ==
    /\ NoTag \notin Tag
    /\ Alone \subseteq BOOLEAN
    /\ MaxOps \in Nat /\ MaxKills \in Nat

VARIABLES
    index,       \* the tags of index.json in order, when it was last whole
    torn,        \* is the file truncated?
    committed,   \* the tags of index.json in git
    store,       \* the images in the docker image store
    alone,       \* is one process at a time all there is?
    proc,        \* what each process is doing
    crossed,     \* has a command read the registry while another was about to write it?
    relied,      \* tags a command reported registered, or a driver went on with
    ops, kills

vars == <<index, torn, committed, store, alone, crossed, proc, relied, ops, kills>>
bounds == <<ops, kills>>

\* A driver that needs a tag, fat_image build with and without --no-register, fat_image
\* register.
Op == {"drive", "build", "build_only", "register"}
PC == {"idle", "lookup", "build", "introspect", "load", "reread", "open", "write"}
\* held: the records load_index gave, and the new one.
Proc == [pc : PC, op : Op, tag : Tag \cup {NoTag}, held : Seq(Tag)]
Idle == [pc |-> "idle", op |-> "drive", tag |-> NoTag, held |-> <<>>]

At(p, pc) == proc[p].pc = pc
T(p) == proc[p].tag
Becomes(p, pc, op, t, held) ==
    proc' = [proc EXCEPT ![p] = [pc |-> pc, op |-> op, tag |-> t, held |-> held]]
Hold(p, pc, held) == Becomes(p, pc, proc[p].op, T(p), held)
Goto(p, pc) == Hold(p, pc, proc[p].held)
Exit(p) == proc' = [proc EXCEPT ![p] = Idle]
\* Between load_index and the end of save_index.
Saving(p) == proc[p].pc \in {"reread", "open", "write"}
AllQuiet == \A p \in Process : At(p, "idle")

Init ==
    /\ index = <<>> /\ committed = <<>>
    /\ torn = FALSE
    /\ store \in SUBSET Tag
    /\ alone \in Alone
    /\ proc = [p \in Process |-> Idle]
    /\ crossed = FALSE /\ relied = {}
    /\ ops = 0 /\ kills = 0

\* Mutant: the registry is not looked at before building.
NeverListed(p) == FALSE

\* Is the tag among the records read?
Listed(p) == T(p) \in Range(index)

\* Mutant: a file that does not parse is an empty registry.
ReadsTorn == TRUE

\* json.load raises on a truncated file.
Readable == ~torn

\* load_index.
Loaded == IF torn THEN <<>> ELSE index

----------------------------------------------------------------------------
(* One operation.                                                          *)

FirstStep(op) == CASE op = "drive" -> "lookup"
                   [] op = "register" -> "introspect"
                   [] OTHER -> "build"

Begin(p, op, t) ==
    /\ At(p, "idle") /\ ops < MaxOps
    /\ alone => AllQuiet
    /\ ops' = ops + 1
    /\ Becomes(p, FirstStep(op), op, t, <<>>)
    /\ UNCHANGED <<index, torn, committed, store, alone, crossed, relied, kills>>

\* A driver reads the registry: what is listed is used, whether the store has it or not; a
\* torn file raises out of process().
Lookup(p) ==
    /\ At(p, "lookup")
    /\ \/ Readable /\ ~Listed(p) /\ Goto(p, "build") /\ UNCHANGED relied
       \/ Readable /\ Listed(p) /\ Exit(p) /\ relied' = relied \cup {T(p)}
       \/ ~Readable /\ Exit(p) /\ UNCHANGED relied
    /\ UNCHANGED <<index, torn, committed, store, alone, crossed, bounds>>

Build(p) ==
    /\ At(p, "build")
    /\ store' = store \cup {T(p)}
    /\ IF proc[p].op = "build_only" THEN Exit(p) ELSE Goto(p, "introspect")
    /\ UNCHANGED <<index, torn, committed, alone, crossed, relied, bounds>>

\* The image is run to read its manifest.
Introspect(p) ==
    /\ At(p, "introspect") /\ T(p) \in store
    /\ Goto(p, "load")
    /\ UNCHANGED <<index, torn, committed, store, alone, crossed, relied, bounds>>

\* Mutant: the tags read are not compared with the new one.
NeverCollides(p) == FALSE

Collides(p) == T(p) \in Range(Loaded)

\* Mutant: the new record is saved instead of the list it was appended to.
OnlyNew(records, t) == <<t>>

\* Mutant: the record is made before its tag is known.
Untagged(records, t) == Append(records, NoTag)

WithRecord(records, t) == Append(records, t)

\* register: load_index, and the new record behind the others.
Load(p) ==
    /\ At(p, "load") /\ Readable /\ ~Collides(p)
    /\ Hold(p, "reread", WithRecord(Loaded, T(p)))
    /\ crossed' = (crossed \/ \E q \in Process : Saving(q))
    /\ UNCHANGED <<index, torn, committed, store, alone, relied, bounds>>

\* save_index reads the file once more, for its description.
Reread(p) ==
    /\ At(p, "reread") /\ Readable
    /\ Goto(p, "open")
    /\ UNCHANGED <<index, torn, committed, store, alone, crossed, relied, bounds>>

Open(p) ==
    /\ At(p, "open")
    /\ torn' = TRUE
    /\ Goto(p, "write")
    /\ UNCHANGED <<index, committed, store, alone, crossed, relied, bounds>>

Write(p) ==
    /\ At(p, "write")
    /\ index' = proc[p].held /\ torn' = FALSE
    /\ relied' = relied \cup {T(p)}
    /\ Exit(p)
    /\ UNCHANGED <<committed, store, alone, crossed, bounds>>

\* What ends an operation on the way: no image is built or found, the container that
\* prints the manifest fails, the tag is listed already, the file does not parse.
Fails(p) ==
    /\ \/ At(p, "build") \/ At(p, "introspect")
       \/ At(p, "load") /\ (~Readable \/ Collides(p))
       \/ At(p, "reread") /\ ~Readable
    /\ Exit(p)
    /\ UNCHANGED <<index, torn, committed, store, alone, crossed, relied, bounds>>

----------------------------------------------------------------------------
(* Around the operations.                                                  *)

\* The file stays as it is at that moment.
Kill(p) ==
    /\ ~At(p, "idle") /\ kills < MaxKills
    /\ kills' = kills + 1
    /\ Exit(p)
    /\ UNCHANGED <<index, torn, committed, store, alone, crossed, relied, ops>>

\* Images are pruned, and built by cargo_regenerate, which registers none.
StoreChanges(t) ==
    /\ store' = IF t \in store THEN store \ {t} ELSE store \cup {t}
    /\ UNCHANGED <<index, torn, committed, alone, crossed, proc, relied, bounds>>

GitCommit ==
    /\ ~torn /\ committed # index
    /\ committed' = index
    /\ UNCHANGED <<index, torn, store, alone, crossed, proc, relied, bounds>>

\* What was registered since the last commit has to be registered again.
GitRestore ==
    /\ torn /\ AllQuiet
    /\ index' = committed /\ torn' = FALSE
    /\ relied' = relied \cap Range(committed)
    /\ UNCHANGED <<committed, store, alone, crossed, proc, bounds>>

Step(p) ==
    \/ Lookup(p)
    \/ Build(p)
    \/ Introspect(p)
    \/ Load(p)
    \/ Reread(p)
    \/ Open(p)
    \/ Write(p)
    \/ Fails(p)
    \/ Kill(p)

Next ==
    \/ \E p \in Process : Step(p) \/ \E op \in Op, t \in Tag : Begin(p, op, t)
    \/ \E t \in Tag : StoreChanges(t)
    \/ GitCommit
    \/ GitRestore

Spec == Init /\ [][Next]_vars

----------------------------------------------------------------------------
(* What should hold.                                                       *)

\* The variables have their types.
TypeOK ==
    /\ index \in Seq(Tag) /\ committed \in Seq(Tag)
    /\ torn \in BOOLEAN /\ alone \in Alone /\ crossed \in BOOLEAN
    /\ store \in SUBSET Tag /\ relied \in SUBSET Tag
    /\ proc \in [Process -> Proc]
    /\ ops \in 0..MaxOps /\ kills \in 0..MaxKills

\* No tag is listed twice, although the driver looks long before it registers and other
\* processes come in between.
NoDuplicateTag == IsInjective(index)

\* "append-only registry of built fat images": what a command reported as registered, or a
\* driver built an entry on, is in the registry, or went with a torn file.
AppendOnly == ~torn => relied \subseteq Range(index)

\* However commands overlap otherwise, are killed, and the file is restored: records are lost
\* only where one command read the registry while another was about to write it.
AppendOnlyUncrossed == ~crossed => AppendOnly

\* A driver gives a candidate up with fat_image_build_failed, for good, only while its
\* image is not listed: processes that do not overlap never refuse each other's image.
GivenUpIsUnlisted ==
    [][\A p \in Process : alone /\ Fails(p) /\ proc[p].op = "drive"
          => ~torn /\ T(p) \notin Range(index)]_vars

\* Nor does the registry lose a record between commits otherwise, through torn files and
\* restores.
CommittedGrows == [][~crossed => IsPrefix(committed, committed')]_committed
=============================================================================
