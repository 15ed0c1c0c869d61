-------------------------- MODULE PipelineIndexProofs --------------------------
(***************************************************************************)
(* For every set of drivers and entries: what the index promises about the *)
(* entry files.  An entry has one current classification, and its          *)
(* attempts stand, whoever overlaps; a rebuild without a driver beside it  *)
(* repairs the rows and completes what crashes left, whatever came before; *)
(* and as long as no rebuild has one beside it, a clean verdict can be     *)
(* trusted and nothing only a driver knew is forgotten.                    *)
(***************************************************************************)
EXTENDS PipelineIndex, SequenceTheorems, TLAPS

----------------------------------------------------------------------------
(* The inductive invariant.                                                *)

Reading == {"read", "hash", "upsert"}
Indexed == {"patch", "source", "attempt"}

\* Drivers hold entries of their own, the rebuild any; each does its own steps, and behind
\* the upsert there is a row.
HeldInv ==
    /\ \A d \in Driver :
          ~At(d, "idle") => /\ E(d) \in Chunk[d]
                            /\ proc[d].pc \notin {"next", "source_check"}
    /\ proc[Rebuild].pc \notin {"write", "rewrite", "patch", "attempt"}
    /\ proc[Rebuild].pc \notin {"idle", "next"} => E(Rebuild) \in Entry
    /\ \A d \in Driver : proc[d].pc \in Indexed => row[E(d)] # NoRow

TypeInv == TypeOK /\ HeldInv

\* No version is older than its first write or younger than the last one.
FileVersions ==
    \A e \in Entry :
        /\ file[e].version <= writes
        /\ (file[e].version = 0) <=> (file[e].kind \in {"absent", "torn"})
        /\ row[e] # NoRow => row[e].hash <= writes
        /\ \A i \in DOMAIN attempts[e] : attempts[e][i] <= writes

HeldVersions ==
    \A p \in Process : proc[p].made.version <= writes /\ proc[p].read.version <= writes

VersionInv == FileVersions /\ HeldVersions

\* While a driver indexes what it has written, no attempt is about that; and what its entry
\* needs for one is there before it is recorded.
Attempting(d) ==
    /\ proc[d].pc \in Reading \cup Indexed =>
          \A i \in DOMAIN attempts[E(d)] : attempts[E(d)][i] # proc[d].made.version
    /\ proc[d].pc \in {"source", "attempt"} => Dated(row[E(d)])
    /\ At(d, "attempt") => source[E(d)] # "none"

AttemptInv == AttemptsStand /\ \A d \in Driver : Attempting(d)

\* The rebuild keeps away from drivers.
AloneInv == alone /\ ~At(Rebuild, "idle") => \A d \in Driver : At(d, "idle")

\* Then a row with the hash of the file says what the file says ...
RowFresh(e) ==
    row[e] # NoRow =>
        /\ row[e].hash # 0
        /\ row[e].hash = file[e].version => Says(e)

\* ... because what is read of a file, and what a driver made of it, is what it says until
\* its row is written.
ReadFresh(p) ==
    /\ proc[p].pc \in Reading => file[E(p)].kind = "valid"
    /\ proc[p].pc \in {"hash", "upsert"} =>
          proc[p].read.breaking = file[E(p)].breaking /\ proc[p].read.msrv = file[E(p)].msrv
    /\ At(p, "upsert") => proc[p].read.version = file[E(p)].version
    /\ proc[p].pc \in Reading \cup {"patch"} => proc[p].made.msrv = file[E(p)].msrv

FreshInv ==
    alone => (\A e \in Entry : RowFresh(e)) /\ (\A p \in Process : ReadFresh(p))

\* A known source is of an entry that has one, and is not stubbed over.
SourceInv ==
    /\ \A e \in Entry : source[e] = "known" => e \notin Sourceless
    /\ alone /\ At(Rebuild, "source") => source[E(Rebuild)] = "none"

\* What a rebuild has done with an entry when it goes on to the next.
Indexes(e) == Clean(e) /\ Says(e)

Done(e) ==
    file[e].kind = "valid" =>
        /\ Indexes(e)
        /\ source[e] # "none"
        /\ file[e].breaking => cls[e] # <<>>

InHand(e) == proc[Rebuild].pc \notin {"idle", "next"} /\ E(Rebuild) = e

\* What it has done with the entry in its hands.
Begun(e) ==
    InHand(e) =>
        /\ file[e].kind = "valid"
        /\ proc[Rebuild].made.breaking = file[e].breaking
        /\ proc[Rebuild].pc \in {"hash", "upsert"} =>
              /\ proc[Rebuild].read.breaking = file[e].breaking
              /\ proc[Rebuild].read.msrv = file[e].msrv
        /\ At(Rebuild, "upsert") => proc[Rebuild].read.version = file[e].version
        /\ proc[Rebuild].pc \notin Reading => Indexes(e)
        /\ proc[Rebuild].pc \in {"seed_check", "seed"} => source[e] # "none"

\* A rebuild without a driver beside it has done every entry but those before it; nobody is
\* at work when it has just gone through.
RebuildInv ==
    /\ rebuilt => \A p \in Process : At(p, "idle")
    /\ rebuilt => \A e \in Entry : Done(e)
    /\ ~beside /\ ~At(Rebuild, "idle") =>
          /\ \A d \in Driver : At(d, "idle")
          /\ \A e \in Entry : e \in todo \/ InHand(e) \/ Done(e)
          /\ \A e \in Entry : Begun(e)

IInv == /\ TypeInv /\ OneCurrent /\ VersionInv /\ AttemptInv
        /\ AloneInv /\ FreshInv /\ SourceInv /\ RebuildInv

----------------------------------------------------------------------------
(* Type correctness.                                                       *)

\* What a process holds of a file has its type.
LEMMA TextType ==
    ASSUME TypeOK
    PROVE  /\ Nothing \in Text
           /\ \A e \in Entry : TextOf(file[e]) \in Text
           /\ \A n \in 0..MaxWrites, b \in BOOLEAN, m \in MaybeMsrv :
                  [version |-> n, breaking |-> b, msrv |-> m] \in Text
PROOF
<1>1. 0 \in 0..MaxWrites
  BY IndexAssumption
<1>2. \A e \in Entry : file[e] \in File
  BY DEF TypeOK
<1> QED BY <1>1, <1>2 DEF Text, Nothing, TextOf, File, MaybeMsrv

\* What a process becomes has its type, and the others are left alone.
LEMMA BecomesType ==
    ASSUME TypeOK, NEW p \in Process, NEW pc \in PC, NEW e \in Entry \cup {NoEntry},
           NEW made \in Text, NEW read \in Text, Becomes(p, pc, e, made, read)
    PROVE  /\ proc' \in [Process -> Held]
           /\ proc'[p] = [pc |-> pc, entry |-> e, made |-> made, read |-> read]
           /\ \A q \in Process : q # p => proc'[q] = proc[q]
PROOF
<1>1. [pc |-> pc, entry |-> e, made |-> made, read |-> read] \in Held
  BY DEF Held
<1> QED BY <1>1 DEF Becomes, TypeOK

\* The parts of a process have their types.
LEMMA ProcParts ==
    ASSUME TypeInv, NEW p \in Process
    PROVE  /\ proc[p].pc \in PC /\ E(p) \in Entry \cup {NoEntry}
           /\ proc[p].made \in Text /\ proc[p].read \in Text
           /\ proc[p].pc \notin {"idle", "next"} => E(p) \in Entry
PROOF
<1>1. proc[p] \in Held
  BY DEF TypeInv, TypeOK
<1>2. proc[p].pc \notin {"idle", "next"} => E(p) \in Entry
  BY IndexAssumption DEF TypeInv, HeldInv, Process, At
<1> QED BY <1>1, <1>2 DEF Held, E

\* One that goes on keeps its entry.
LEMMA GotoType ==
    ASSUME TypeInv, NEW p \in Process, NEW pc \in PC, Goto(p, pc)
    PROVE  /\ proc' \in [Process -> Held]
           /\ proc'[p] = [pc |-> pc, entry |-> E(p), made |-> proc[p].made,
                          read |-> proc[p].read]
           /\ \A q \in Process : q # p => proc'[q] = proc[q]
PROOF BY ProcParts, BecomesType DEF Goto, TypeInv

\* One that stops is idle.
LEMMA StopType ==
    ASSUME TypeOK, NEW p \in Process, Stop(p)
    PROVE  /\ proc' \in [Process -> Held]
           /\ proc'[p] = Idle
           /\ \A q \in Process : q # p => proc'[q] = proc[q]
PROOF
<1>1. Idle \in Held
  BY TextType DEF Idle, Held, PC
<1> QED BY <1>1 DEF Stop, TypeOK

\* The next version of a file has its type.
LEMMA WriteType ==
    ASSUME TypeOK, NEW e \in Entry, NEW kind \in {"invalid", "valid"}, NEW b \in BOOLEAN,
           NEW m \in MaybeMsrv, Write(e, kind, b, m)
    PROVE  /\ file' \in [Entry -> File] /\ writes' \in 0..MaxWrites /\ writes' = writes + 1
           /\ rebuilt' = FALSE
           /\ file'[e] = [kind |-> kind, version |-> writes + 1, breaking |-> b, msrv |-> m]
           /\ \A k \in Entry : k # e => file'[k] = file[k]
PROOF
<1>1. writes \in Nat /\ MaxWrites \in Nat /\ writes + 1 \in 0..MaxWrites
  BY IndexAssumption DEF Write, TypeOK
<1>2. [kind |-> kind, version |-> writes + 1, breaking |-> b, msrv |-> m] \in File
  BY <1>1 DEF File
<1> QED BY <1>1, <1>2 DEF Write, TypeOK

\* So has every file.
LEMMA FileParts ==
    ASSUME TypeOK, NEW e \in Entry
    PROVE  /\ file[e].kind \in {"absent", "torn", "invalid", "valid"}
           /\ file[e].version \in 0..MaxWrites /\ file[e].breaking \in BOOLEAN
           /\ file[e].msrv \in MaybeMsrv
           /\ Absent \in File /\ Torn \in File
PROOF
<1>1. file[e] \in File
  BY DEF TypeOK
<1>2. 0 \in 0..MaxWrites
  BY IndexAssumption
<1> QED BY <1>1, <1>2 DEF File, Absent, Torn, MaybeMsrv

\* Rows are no NoRow.
LEMMA RowIsRow ==
    ASSUME NEW h \in 0..MaxWrites, NEW b \in BOOLEAN, NEW m \in MaybeMsrv, NEW d \in BOOLEAN
    PROVE  /\ [hash |-> h, breaking |-> b, msrv |-> m, dated |-> d] \in Row
           /\ [hash |-> h, breaking |-> b, msrv |-> m, dated |-> d] # NoRow
PROOF
<1>1. h \in Nat
  BY IndexAssumption
<1>2. [hash |-> h, breaking |-> b, msrv |-> m, dated |-> d]
          \in [hash : Nat, breaking : BOOLEAN, msrv : Msrv \cup {NoMsrv}, dated : BOOLEAN]
  BY <1>1 DEF MaybeMsrv
<1> QED BY <1>2, IndexAssumption DEF Row

\* The parts of a row have their types.
LEMMA RowParts ==
    ASSUME TypeOK, NEW e \in Entry
    PROVE  /\ Dated(row[e]) \in BOOLEAN /\ MsrvOf(row[e]) \in MaybeMsrv
           /\ row[e] # NoRow => /\ row[e].hash \in 0..MaxWrites /\ row[e].breaking \in BOOLEAN
                               /\ row[e].msrv \in MaybeMsrv /\ row[e].dated \in BOOLEAN
PROOF
<1>1. row[e] # NoRow => row[e] \in Row
  BY DEF TypeOK
<1> QED BY <1>1 DEF Row, Dated, MsrvOf, MaybeMsrv

\* What an upsert writes: what was read and hashed, but for an MSRV that was not there.
LEMMA RowOfParts ==
    ASSUME TypeOK, NEW p \in Process, E(p) \in Entry, proc[p].read \in Text
    PROVE  /\ RowOf(p) \in Row /\ RowOf(p) # NoRow
           /\ RowOf(p).hash = proc[p].read.version
           /\ RowOf(p).breaking = proc[p].read.breaking
           /\ proc[p].read.msrv \in {NoMsrv, RowOf(p).msrv}
           /\ RowOf(p).dated = Dated(row[E(p)])
PROOF
<1> DEFINE r == row[E(p)]
           t == proc[p].read
<1>1. RowOf(p) = [hash |-> t.version, breaking |-> t.breaking, msrv |-> Coalesce(t.msrv, r),
                  dated |-> Dated(r)]
  BY DEF RowOf
<1>2. t.version \in 0..MaxWrites /\ t.breaking \in BOOLEAN /\ t.msrv \in MaybeMsrv
  BY DEF Text
<1>3. Coalesce(t.msrv, r) \in MaybeMsrv /\ t.msrv \in {NoMsrv, Coalesce(t.msrv, r)}
  BY <1>2, RowParts DEF Coalesce
<1>4. Dated(r) \in BOOLEAN
  BY RowParts
<1> HIDE DEF r, t
<1>5. RowOf(p) \in Row /\ RowOf(p) # NoRow
  BY <1>1, <1>2, <1>3, <1>4, RowIsRow
<1> QED BY <1>1, <1>3, <1>5 DEF r, t

\* Retiring keeps the rows and leaves none current.
LEMMA RetiredType ==
    ASSUME NEW s \in Seq(Class)
    PROVE  /\ Retired(s) \in Seq(Class) /\ DOMAIN Retired(s) = DOMAIN s
           /\ Len(Retired(s)) = Len(s)
           /\ \A i \in DOMAIN s : ~Retired(s)[i].current
PROOF
<1>1. s \in [1..Len(s) -> Class] /\ DOMAIN s = 1..Len(s) /\ Len(s) \in Nat
  OBVIOUS
<1>2. \A i \in 1..Len(s) : [by |-> s[i].by, current |-> FALSE] \in Class
  BY <1>1 DEF Class
<1>3. Retired(s) \in [1..Len(s) -> Class]
  BY <1>1, <1>2 DEF Retired
<1>4. Retired(s) \in Seq(Class) /\ Len(Retired(s)) = Len(s)
  BY <1>1, <1>3
<1> QED BY <1>1, <1>4 DEF Retired

\* Nothing is there before the first process starts.
LEMMA TypeInit == Init => TypeInv
PROOF
<1> SUFFICES ASSUME Init PROVE TypeInv
  OBVIOUS
<1>1. Idle \in Held
  <2>1. Nothing \in Text
    BY IndexAssumption DEF Nothing, Text, MaybeMsrv
  <2> QED BY <2>1 DEF Idle, Held, PC
<1>2. Absent \in File /\ writes \in 0..MaxWrites /\ flips \in 0..MaxFlips
  BY IndexAssumption DEF Init, File, Absent, MaybeMsrv
<1>3. /\ cls \in [Entry -> Seq(Class)]
      /\ attempts \in [Entry -> Seq(0..MaxWrites)]
  BY DEF Init
<1>4. proc \in [Process -> Held] /\ \A p \in Process : proc[p].pc = "idle"
  BY <1>1 DEF Init, Idle
<1>5. TypeOK
  BY <1>2, <1>3, <1>4 DEF Init, TypeOK
<1>6. HeldInv
  BY <1>4 DEF HeldInv, At, Process, Indexed
<1> QED BY <1>5, <1>6 DEF TypeInv

\* Every step keeps the types.
LEMMA TypeStep == TypeInv /\ [Next]_vars => TypeOK'
PROOF
<1> SUFFICES ASSUME TypeInv, [Next]_vars PROVE TypeOK'
  OBVIOUS
<1> USE DEF tables
<1>t. TypeOK
  BY DEF TypeInv
<1>d. \A d \in Driver : d \in Process /\ Chunk[d] \subseteq Entry
  BY IndexAssumption DEF Process
<1>r. Rebuild \in Process
  BY DEF Process
<1>1. ASSUME NEW d \in Driver, NEW e \in Chunk[d], DriverOpens(d, e) PROVE TypeOK'
  <2>1. e \in Entry
    BY <1>d
  <2>2. proc' \in [Process -> Held]
    BY <1>1, <1>t, <1>d, <2>1, BecomesType, TextType DEF DriverOpens, PC
  <2> QED BY <1>1, <1>t, <2>1, <2>2, FileParts DEF DriverOpens, TypeOK
<1>2. ASSUME NEW d \in Driver, NEW e \in Chunk[d], RegenerateOpens(d, e) PROVE TypeOK'
  <2>1. e \in Entry /\ TextOf(file[e]) \in Text /\ Nothing \in Text
    BY <1>d, <1>t, TextType
  <2>2. proc' \in [Process -> Held]
    BY <1>2, <1>t, <1>d, <2>1, BecomesType DEF RegenerateOpens, PC
  <2> QED BY <1>2, <1>t, <2>1, <2>2, FileParts DEF RegenerateOpens, TypeOK
<1>3. ASSUME NEW d \in Driver, DriverWrites(d) PROVE TypeOK'
  <2>1. PICK b \in BOOLEAN, m \in Msrv :
            /\ Write(E(d), "valid", b, m)
            /\ Becomes(d, "read", E(d),
                       [version |-> writes + 1, breaking |-> b, msrv |-> m], Nothing)
    BY <1>3 DEF DriverWrites
  <2>2. E(d) \in Entry /\ m \in MaybeMsrv
    BY <1>3, <1>d, ProcParts DEF DriverWrites, At, MaybeMsrv
  <2>3. proc' \in [Process -> Held]
    <3>1. writes + 1 \in 0..MaxWrites
      BY <2>1, <1>t, IndexAssumption DEF Write, TypeOK
    <3> QED BY <1>t, <1>d, <2>1, <2>2, <3>1, BecomesType, TextType DEF PC
  <2> QED BY <1>3, <1>t, <2>1, <2>2, <2>3, WriteType DEF DriverWrites, TypeOK
<1>4. ASSUME NEW d \in Driver, RegenerateWrites(d) PROVE TypeOK'
  <2>1. E(d) \in Entry /\ proc[d].made \in Text
    BY <1>4, <1>d, ProcParts DEF RegenerateWrites, At
  <2>2. proc' \in [Process -> Held]
    BY <1>4, <1>t, <1>d, StopType DEF RegenerateWrites
  <2>3. proc[d].made.breaking \in BOOLEAN /\ proc[d].made.msrv \in MaybeMsrv
    BY <2>1 DEF Text
  <2> QED BY <1>4, <1>t, <2>1, <2>2, <2>3, WriteType DEF RegenerateWrites, TypeOK
<1>5. ASSUME NEW d \in Driver, Patches(d) PROVE TypeOK'
  <2>1. E(d) \in Entry /\ row[E(d)] # NoRow
    BY <1>5, <1>d, ProcParts DEF Patches, At, TypeInv, HeldInv, Indexed
  <2>2. proc' \in [Process -> Held]
    BY <1>5, <1>d, GotoType DEF Patches, PC
  <2>3. [hash |-> row[E(d)].hash, breaking |-> row[E(d)].breaking, msrv |-> proc[d].made.msrv,
         dated |-> TRUE] \in Row
    <3>1. proc[d].made.msrv \in MaybeMsrv
      BY <1>d, ProcParts DEF Text
    <3> QED BY <1>t, <2>1, <3>1, RowParts, RowIsRow
  <2> QED BY <1>5, <1>t, <2>1, <2>2, <2>3 DEF Patches, TypeOK
<1>6. ASSUME NEW d \in Driver, Records(d) PROVE TypeOK'
  <2>1. E(d) \in Entry /\ proc[d].made \in Text
    BY <1>6, <1>d, ProcParts DEF Records, At
  <2>2. proc' \in [Process -> Held]
    BY <1>6, <1>d, GotoType DEF Records, PC
  <2>3. Append(attempts[E(d)], proc[d].made.version) \in Seq(0..MaxWrites)
    BY <1>t, <2>1 DEF TypeOK, Text
  <2> QED BY <1>6, <1>t, <2>1, <2>2, <2>3 DEF Records, TypeOK
<1>7. CASE RebuildStarts
  <2>1. proc' \in [Process -> Held]
    BY <1>7, <1>r, GotoType DEF RebuildStarts, PC
  <2> QED BY <1>7, <1>t, <2>1 DEF RebuildStarts, TypeOK
<1>8. CASE RebuildLooksForSource
  <2>1. proc' \in [Process -> Held]
    BY <1>8, <1>r, GotoType DEF RebuildLooksForSource, PC
  <2> QED BY <1>8, <1>t, <2>1 DEF RebuildLooksForSource, TypeOK
<1>9. CASE RebuildEnds
  <2>1. proc' \in [Process -> Held]
    BY <1>9, <1>t, <1>r, StopType DEF RebuildEnds
  <2> QED BY <1>9, <1>t, <2>1 DEF RebuildEnds, TypeOK
<1>10. ASSUME NEW e \in Entry, RebuildTakes(e) PROVE TypeOK'
  <2>1. TextOf(file[e]) \in Text /\ Nothing \in Text
    BY <1>t, TextType
  <2>2. proc' \in [Process -> Held]
    <3>1. CASE UNCHANGED proc
      BY <3>1, <1>t DEF TypeOK
    <3>2. CASE Becomes(Rebuild, "read", e, TextOf(file[e]), Nothing)
      BY <3>2, <1>t, <1>r, <2>1, BecomesType DEF PC
    <3> QED BY <1>10, <3>1, <3>2 DEF RebuildTakes
  <2> QED BY <1>10, <1>t, <2>2 DEF RebuildTakes, TypeOK
<1>11. ASSUME NEW p \in Process, ReadsEntry(p) \/ HashesEntry(p) PROVE TypeOK'
  <2>1. /\ E(p) \in Entry /\ proc[p].made \in Text
        /\ \A t \in Text, n \in 0..MaxWrites : [t EXCEPT !.version = n] \in Text
    BY <1>11, ProcParts DEF ReadsEntry, HashesEntry, At, Text
  <2>2. /\ [TextOf(file[E(p)]) EXCEPT !.version = 0] \in Text
        /\ [proc[p].read EXCEPT !.version = file[E(p)].version] \in Text
    <3>1. TextOf(file[E(p)]) \in Text /\ proc[p].read \in Text /\ 0 \in 0..MaxWrites
      BY <1>t, <2>1, ProcParts, TextType, IndexAssumption
    <3>2. file[E(p)].version \in 0..MaxWrites
      BY <1>t, <2>1, FileParts
    <3> QED BY <2>1, <3>1, <3>2
  <2>3. proc' \in [Process -> Held]
    BY <1>11, <1>t, <2>1, <2>2, BecomesType DEF ReadsEntry, HashesEntry, PC
  <2> QED BY <1>11, <1>t, <2>3 DEF ReadsEntry, HashesEntry, TypeOK
<1>12. ASSUME NEW p \in Process, UpsertsEntry(p) PROVE TypeOK'
  <2>1. E(p) \in Entry /\ proc[p].made \in Text /\ proc[p].read \in Text
    BY <1>12, ProcParts DEF UpsertsEntry, At
  <2>2. proc' \in [Process -> Held]
    BY <1>12, <1>t, <2>1, BecomesType, TextType DEF UpsertsEntry, PC
  <2>3. RowOf(p) \in Row
    BY <1>t, <2>1, RowOfParts
  <2> QED BY <1>12, <1>t, <2>1, <2>2, <2>3 DEF UpsertsEntry, TypeOK
<1>13. ASSUME NEW p \in Process, SetsSource(p) PROVE TypeOK'
  <2>1. proc' \in [Process -> Held]
    BY <1>13, GotoType DEF SetsSource, PC
  <2> QED BY <1>13, <1>t, <2>1 DEF SetsSource, TypeOK
<1>14. ASSUME NEW p \in Process, SeedLooks(p) PROVE TypeOK'
  <2>1. proc' \in [Process -> Held]
    BY <1>14, <1>t, GotoType, StopType DEF SeedLooks, AfterEntry, PC
  <2> QED BY <1>14, <1>t, <2>1 DEF SeedLooks, TypeOK
<1>15. ASSUME NEW p \in Process, Seeds(p) PROVE TypeOK'
  <2>1. E(p) \in Entry
    BY <1>15, ProcParts DEF Seeds, At
  <2>2. proc' \in [Process -> Held]
    BY <1>15, <1>t, GotoType, StopType DEF Seeds, AfterEntry, PC
  <2>3. Append(cls[E(p)], [by |-> "seed", current |-> TRUE]) \in Seq(Class)
    BY <1>t, <2>1 DEF TypeOK, Class
  <2> QED BY <1>15, <1>t, <2>1, <2>2, <2>3 DEF Seeds, TypeOK
<1>16. ASSUME NEW p \in Process, Raises(p) \/ Crash(p) PROVE TypeOK'
  <2>1. Stop(p) /\ todo' \subseteq Entry
        /\ UNCHANGED <<alone, beside, file, row, source, cls, attempts, rebuilt, writes, flips>>
    BY <1>16, <1>t DEF Raises, Crash, TypeOK
  <2>2. proc' \in [Process -> Held]
    BY <1>t, <2>1, StopType
  <2> QED BY <1>t, <2>1, <2>2 DEF TypeOK
<1>17. ASSUME NEW e \in Entry, Pull(e) PROVE TypeOK'
  <2>1. \E kind \in {"invalid", "valid"}, b \in BOOLEAN, m \in MaybeMsrv :
            Write(e, kind, b, m)
    BY <1>17 DEF Pull, MaybeMsrv
  <2> QED BY <1>17, <1>t, <2>1, WriteType DEF Pull, TypeOK
<1>18. ASSUME NEW e \in Entry, Remove(e) PROVE TypeOK'
  BY <1>18, <1>t, FileParts DEF Remove, TypeOK
<1>19. ASSUME NEW e \in Entry, Flip(e) PROVE TypeOK'
  <2>1. flips' \in 0..MaxFlips
    BY <1>19, <1>t, IndexAssumption DEF Flip, TypeOK
  <2>2. Append(Retired(cls[e]), [by |-> "flip", current |-> TRUE]) \in Seq(Class)
    BY <1>t, RetiredType DEF TypeOK, Class
  <2>3. cls' \in [Entry -> Seq(Class)]
    BY <1>19, <1>t, <2>2 DEF Flip, TypeOK
  <2> QED BY <1>19, <1>t, <2>1, <2>3 DEF Flip, TypeOK
<1>20. CASE UNCHANGED vars
  BY <1>20, <1>t DEF vars, TypeOK
<1> QED
  BY <1>1, <1>2, <1>3, <1>4, <1>5, <1>6, <1>7, <1>8, <1>9, <1>10, <1>11, <1>12, <1>13, <1>14,
     <1>15, <1>16, <1>17, <1>18, <1>19, <1>20 DEF Next, DriverStep, RebuildStep

\* A step that moves p to h and leaves the other processes alone.
Moved(p, h) == proc'[p] = h /\ \A q \in Process : q # p => proc'[q] = proc[q]

LEMMA BecomesMoves ==
    ASSUME TypeOK, NEW p \in Process, NEW pc, NEW e, NEW made, NEW read,
           Becomes(p, pc, e, made, read)
    PROVE  Moved(p, [pc |-> pc, entry |-> e, made |-> made, read |-> read])
PROOF BY DEF Becomes, Moved, TypeOK

LEMMA GotoMoves ==
    ASSUME TypeOK, NEW p \in Process, NEW pc, Goto(p, pc)
    PROVE  Moved(p, [pc |-> pc, entry |-> E(p), made |-> proc[p].made,
                     read |-> proc[p].read])
PROOF BY BecomesMoves DEF Goto

LEMMA StopMoves ==
    ASSUME TypeOK, NEW p \in Process, Stop(p)
    PROVE  Moved(p, Idle)
PROOF BY DEF Stop, Moved, TypeOK

\* The parts of what it is moved to.
LEMMA GotoFields ==
    ASSUME TypeOK, NEW p \in Process, NEW pc, Goto(p, pc)
    PROVE  /\ proc'[p].pc = pc /\ proc'[p].entry = E(p) /\ proc'[p].made = proc[p].made
           /\ \A q \in Process : q # p => proc'[q] = proc[q]
PROOF
<1>1. Moved(p, [pc |-> pc, entry |-> E(p), made |-> proc[p].made, read |-> proc[p].read])
  BY GotoMoves
<1> QED BY <1>1 DEF Moved

LEMMA BecomesFields ==
    ASSUME TypeOK, NEW p \in Process, NEW pc, NEW e, NEW made, NEW read,
           Becomes(p, pc, e, made, read)
    PROVE  /\ proc'[p].pc = pc /\ proc'[p].entry = e /\ proc'[p].made = made
           /\ \A q \in Process : q # p => proc'[q] = proc[q]
PROOF
<1>1. Moved(p, [pc |-> pc, entry |-> e, made |-> made, read |-> read])
  BY BecomesMoves
<1> QED BY <1>1 DEF Moved

LEMMA StopFields ==
    ASSUME TypeOK, NEW p \in Process, Stop(p)
    PROVE  proc'[p].pc = "idle" /\ \A q \in Process : q # p => proc'[q] = proc[q]
PROOF BY StopMoves DEF Moved, Idle

\* A row that is there stays, and so does its date.
LEMMA RowsStay ==
    ASSUME TypeInv, [Next]_vars, NEW e \in Entry, row[e] # NoRow
    PROVE  row'[e] # NoRow /\ (Dated(row[e]) => Dated(row'[e]))
PROOF
<1> USE DEF tables, TypeInv
<1>1. CASE row' = row
  BY <1>1
<1>2. ASSUME NEW d \in Driver, Patches(d)
      PROVE  row'[e] # NoRow /\ (Dated(row[e]) => Dated(row'[e]))
  <2>1. d \in Process /\ E(d) \in Entry /\ proc[d].made.msrv \in MaybeMsrv
    BY <1>2, ProcParts DEF Patches, At, Process, Text
  <2>2. row[E(d)] # NoRow
    BY <1>2 DEF Patches, At, HeldInv, Indexed
  <2> DEFINE new == [hash |-> row[E(d)].hash, breaking |-> row[E(d)].breaking,
                     msrv |-> proc[d].made.msrv, dated |-> TRUE]
  <2>3. new # NoRow /\ new.dated
    BY <2>1, <2>2, RowParts, RowIsRow
  <2>4. row' = [row EXCEPT ![E(d)] = new]
    BY <1>2 DEF Patches
  <2> HIDE DEF new
  <2> QED BY <2>1, <2>3, <2>4 DEF TypeOK, Dated
<1>3. ASSUME NEW p \in Process, UpsertsEntry(p)
      PROVE  row'[e] # NoRow /\ (Dated(row[e]) => Dated(row'[e]))
  <2>1. E(p) \in Entry /\ proc[p].read \in Text
    BY <1>3, ProcParts DEF UpsertsEntry, At
  <2>2. RowOf(p) # NoRow /\ RowOf(p).dated = Dated(row[E(p)])
    BY <2>1, RowOfParts
  <2>3. row' = [row EXCEPT ![E(p)] = RowOf(p)]
    BY <1>3 DEF UpsertsEntry
  <2> QED BY <2>1, <2>2, <2>3 DEF TypeOK, Dated
<1> QED
  BY <1>1, <1>2, <1>3 DEF Next, DriverStep, RebuildStep, DriverOpens, RegenerateOpens,
     DriverWrites, RegenerateWrites, Records, RebuildStarts, RebuildLooksForSource,
     RebuildEnds, RebuildTakes, ReadsEntry, HashesEntry, SetsSource, SeedLooks, Seeds, Raises,
     Crash, Pull, Remove, Flip, vars

\* Every process stays where its program puts it.
LEMMA HeldStep == TypeInv /\ [Next]_vars => HeldInv'
PROOF
<1> SUFFICES ASSUME TypeInv, [Next]_vars PROVE HeldInv'
  OBVIOUS
<1> USE IndexAssumption DEF tables, At, E, Idle, Indexed
<1>t. TypeOK /\ HeldInv
  BY DEF TypeInv
<1>d. \A d \in Driver : d \in Process /\ d # Rebuild /\ Chunk[d] \subseteq Entry
  BY DEF Process
<1>r. Rebuild \in Process /\ \A p \in Process : p \in Driver \/ p = Rebuild
  BY DEF Process
<1>s. \A e \in Entry : row[e] # NoRow => row'[e] # NoRow
  BY RowsStay
<1>1. ASSUME NEW p \in Process, NEW h, Moved(p, h),
             p \in Driver /\ h.pc # "idle" =>
                 h.entry \in Chunk[p] /\ h.pc \notin {"next", "source_check"},
             p \in Driver /\ h.pc \in Indexed => row'[h.entry] # NoRow,
             p = Rebuild => h.pc \notin {"write", "rewrite", "patch", "attempt"},
             p = Rebuild /\ h.pc \notin {"idle", "next"} => h.entry \in Entry
      PROVE  HeldInv'
  BY <1>1, <1>t, <1>d, <1>r, <1>s DEF HeldInv, Moved
<1>2. CASE proc' = proc
  BY <1>2, <1>t, <1>d, <1>r, <1>s DEF HeldInv
<1>3. ASSUME NEW p \in Process, Stop(p) PROVE HeldInv'
  <2>1. Moved(p, Idle)
    BY <1>3, <1>t, StopMoves
  <2> QED BY <1>1, <2>1
<1>4. ASSUME NEW d \in Driver, NEW e \in Chunk[d], DriverOpens(d, e) \/ RegenerateOpens(d, e)
      PROVE  HeldInv'
  <2>1. \/ Moved(d, [pc |-> "write", entry |-> e, made |-> Nothing, read |-> Nothing])
        \/ Moved(d, [pc |-> "rewrite", entry |-> e, made |-> TextOf(file[e]),
                     read |-> Nothing])
    BY <1>4, <1>t, <1>d, BecomesMoves DEF DriverOpens, RegenerateOpens
  <2> QED BY <1>1, <1>d, <2>1
<1>5. ASSUME NEW d \in Driver, DriverWrites(d) PROVE HeldInv'
  <2>1. E(d) \in Chunk[d]
    BY <1>5, <1>t DEF DriverWrites, HeldInv
  <2>2. \E t : Moved(d, [pc |-> "read", entry |-> E(d), made |-> t, read |-> Nothing])
    BY <1>5, <1>t, <1>d, BecomesMoves DEF DriverWrites
  <2> QED BY <1>1, <1>d, <2>1, <2>2
<1>6. ASSUME NEW d \in Driver, NEW pc \in {"source", "seed_check"}, Goto(d, pc),
             At(d, "patch") \/ At(d, "attempt")
      PROVE  HeldInv'
  <2>1. E(d) \in Chunk[d] /\ row'[E(d)] # NoRow
    BY <1>6, <1>t, <1>d, <1>s DEF HeldInv
  <2>2. Moved(d, [pc |-> pc, entry |-> E(d), made |-> proc[d].made,
                  read |-> proc[d].read])
    BY <1>6, <1>d, <1>t, GotoMoves
  <2> QED BY <1>1, <1>d, <2>1, <2>2
<1>7. ASSUME NEW pc \in {"next", "source", "seed_check"}, Goto(Rebuild, pc),
             pc # "next" => E(Rebuild) \in Entry
      PROVE  HeldInv'
  <2>1. Moved(Rebuild, [pc |-> pc, entry |-> E(Rebuild), made |-> proc[Rebuild].made,
                        read |-> proc[Rebuild].read])
    BY <1>7, <1>r, <1>t, GotoMoves
  <2> QED BY <1>1, <1>7, <1>r, <1>d, <2>1
<1>8. ASSUME NEW e \in Entry, RebuildTakes(e), proc' # proc PROVE HeldInv'
  <2>1. Moved(Rebuild, [pc |-> "read", entry |-> e, made |-> TextOf(file[e]),
                        read |-> Nothing])
    BY <1>8, <1>t, <1>r, BecomesMoves DEF RebuildTakes
  <2> QED BY <1>1, <1>r, <1>d, <2>1
<1>9. ASSUME NEW p \in Process, ReadsEntry(p) \/ HashesEntry(p) PROVE HeldInv'
  <2>1. E(p) \in Entry /\ (p \in Driver => E(p) \in Chunk[p])
    BY <1>9, <1>t, ProcParts DEF ReadsEntry, HashesEntry, HeldInv
  <2>2. \E pc \in {"hash", "upsert"} : \E t :
            Moved(p, [pc |-> pc, entry |-> E(p), made |-> proc[p].made, read |-> t])
    <3>1. \E pc \in {"hash", "upsert"} : \E t : Becomes(p, pc, E(p), proc[p].made, t)
      BY <1>9 DEF ReadsEntry, HashesEntry
    <3> QED BY <1>t, <3>1, BecomesMoves
  <2> QED BY <1>1, <2>1, <2>2
<1>10. ASSUME NEW p \in Process, UpsertsEntry(p) PROVE HeldInv'
  <2>1. /\ E(p) \in Entry /\ proc[p].read \in Text
        /\ p \in Driver => E(p) \in Chunk[p]
    BY <1>10, <1>t, ProcParts DEF UpsertsEntry, HeldInv
  <2>2. row'[E(p)] # NoRow
    <3>1. RowOf(p) # NoRow
      BY <1>t, <2>1, RowOfParts
    <3> QED BY <1>10, <1>t, <2>1, <3>1 DEF UpsertsEntry, TypeOK
  <2>3. Moved(p, [pc |-> IF p = Rebuild THEN "source_check" ELSE "patch", entry |-> E(p),
                  made |-> proc[p].made, read |-> Nothing])
    BY <1>10, <1>t, BecomesMoves DEF UpsertsEntry
  <2> QED BY <1>1, <1>d, <2>1, <2>2, <2>3
<1>11. ASSUME NEW d \in Driver, SetsSource(d) PROVE HeldInv'
  <2>1. E(d) \in Chunk[d] /\ row'[E(d)] # NoRow
    BY <1>11, <1>t, <1>d, <1>s DEF SetsSource, HeldInv
  <2>2. Moved(d, [pc |-> "attempt", entry |-> E(d), made |-> proc[d].made,
                  read |-> proc[d].read])
    BY <1>11, <1>d, <1>t, GotoMoves DEF SetsSource
  <2> QED BY <1>1, <1>d, <2>1, <2>2
<1>12. ASSUME NEW p \in Process, SeedLooks(p) \/ Seeds(p) PROVE HeldInv'
  <2>1. E(p) \in Entry /\ (p \in Driver => E(p) \in Chunk[p])
    BY <1>12, <1>t, ProcParts DEF SeedLooks, Seeds, HeldInv
  <2>2. CASE Goto(p, "seed")
    <3>1. Moved(p, [pc |-> "seed", entry |-> E(p), made |-> proc[p].made,
                    read |-> proc[p].read])
      BY <1>t, <2>2, GotoMoves
    <3> QED BY <1>1, <2>1, <3>1
  <2> QED BY <1>3, <1>7, <1>12, <2>2 DEF SeedLooks, Seeds, AfterEntry
<1>13. CASE RebuildStarts \/ RebuildLooksForSource \/ SetsSource(Rebuild)
  BY <1>7, <1>13, <1>t DEF RebuildStarts, RebuildLooksForSource, SetsSource, HeldInv
<1>14. ASSUME NEW d \in Driver, Patches(d) \/ Records(d) PROVE HeldInv'
  BY <1>6, <1>14 DEF Patches, Records
<1> QED
  BY <1>2, <1>3, <1>4, <1>5, <1>8, <1>9, <1>10, <1>11, <1>12, <1>13, <1>14, <1>d, <1>r
  DEF Next, DriverStep, RebuildStep, RegenerateWrites, RebuildEnds, RebuildTakes, Raises, Crash,
      Pull, Remove, Flip, vars

----------------------------------------------------------------------------
(* What holds whoever overlaps.                                            *)

\* Classifications change in two steps only: one looks for a current one, the other retires it.
LEMMA OneCurrentStep == TypeInv /\ OneCurrent /\ [Next]_vars => OneCurrent'
PROOF
<1> SUFFICES ASSUME TypeInv, OneCurrent, [Next]_vars PROVE OneCurrent'
  OBVIOUS
<1> USE DEF tables
<1>t. \A e \in Entry : cls \in [Entry -> Seq(Class)] /\ cls[e] \in Seq(Class)
  BY DEF TypeInv, TypeOK
<1>1. CASE cls' = cls
  BY <1>1 DEF OneCurrent
<1>2. ASSUME NEW e \in Entry, NEW s \in Seq(Class), NEW c \in Class,
             cls' = [cls EXCEPT ![e] = Append(s, c)], \A i \in DOMAIN s : ~s[i].current
      PROVE  OneCurrent'
  <2>1. ASSUME NEW k \in Entry, NEW i \in DOMAIN cls'[k], NEW j \in DOMAIN cls'[k],
               cls'[k][i].current, cls'[k][j].current
        PROVE  i = j
    <3>1. CASE k = e
      <4>1. cls'[k] = Append(s, c)
        BY <1>2, <1>t, <3>1
      <4>2. /\ DOMAIN Append(s, c) = 1..(Len(s) + 1) /\ DOMAIN s = 1..Len(s) /\ Len(s) \in Nat
            /\ \A n \in 1..Len(s) : Append(s, c)[n] = s[n]
        OBVIOUS
      <4>3. i = Len(s) + 1 /\ j = Len(s) + 1
        BY <1>2, <2>1, <4>1, <4>2
      <4> QED BY <4>3
    <3>2. CASE k # e
      BY <1>2, <1>t, <2>1, <3>2 DEF OneCurrent
    <3> QED BY <3>1, <3>2
  <2> QED BY <2>1 DEF OneCurrent
<1>3. ASSUME NEW p \in Process, Seeds(p) PROVE OneCurrent'
  <2>1. E(p) \in Entry
    BY <1>3, ProcParts DEF Seeds, At
  <2>2. \A i \in DOMAIN cls[E(p)] : ~cls[E(p)][i].current
    BY <1>3 DEF Seeds, HasCurrent
  <2>3. [by |-> "seed", current |-> TRUE] \in Class
    BY DEF Class
  <2>4. cls' = [cls EXCEPT ![E(p)] = Append(cls[E(p)], [by |-> "seed", current |-> TRUE])]
    BY <1>3 DEF Seeds
  <2> QED BY <1>t, <1>2, <2>1, <2>2, <2>3, <2>4
<1>4. ASSUME NEW e \in Entry, Flip(e) PROVE OneCurrent'
  <2>1. [by |-> "flip", current |-> TRUE] \in Class
    BY DEF Class
  <2>2. /\ Retired(cls[e]) \in Seq(Class)
        /\ \A i \in DOMAIN Retired(cls[e]) : ~Retired(cls[e])[i].current
    BY <1>t, RetiredType
  <2>3. cls' = [cls EXCEPT ![e] = Append(Retired(cls[e]), [by |-> "flip", current |-> TRUE])]
    BY <1>4 DEF Flip
  <2> QED BY <1>2, <2>1, <2>2, <2>3
<1> QED
  BY <1>1, <1>3, <1>4 DEF Next, DriverStep, RebuildStep, DriverOpens, RegenerateOpens,
     DriverWrites, RegenerateWrites, Patches, Records, RebuildStarts, RebuildLooksForSource,
     RebuildEnds, RebuildTakes, ReadsEntry, HashesEntry, UpsertsEntry, SetsSource, SeedLooks,
     Raises, Crash,
     Pull, Remove, vars

\* A file is emptied, or gets the next version, or stays what it is.
LEMMA FileSteps ==
    ASSUME TypeInv, [Next]_vars
    PROVE  \/ file' = file /\ writes' = writes
           \/ /\ UNCHANGED tables
              /\ \E e \in Entry :
                    /\ \A k \in Entry : k # e => file'[k] = file[k]
                    /\ \/ file'[e] \in {Torn, Absent} /\ writes' = writes
                       \/ /\ writes' = writes + 1
                          /\ \E kind \in {"invalid", "valid"}, b \in BOOLEAN, m \in MaybeMsrv :
                                file'[e] = [kind |-> kind, version |-> writes + 1,
                                            breaking |-> b, msrv |-> m]
PROOF
<1> USE DEF tables, TypeInv
<1>d. \A d \in Driver : d \in Process /\ Chunk[d] \subseteq Entry
  BY IndexAssumption DEF Process
<1>1. CASE file' = file /\ writes' = writes
  BY <1>1
<1>2. ASSUME NEW e \in Entry, NEW kind \in {"invalid", "valid"}, NEW b \in BOOLEAN,
             NEW m \in MaybeMsrv, Write(e, kind, b, m), UNCHANGED tables
      PROVE  /\ UNCHANGED tables
             /\ \E k \in Entry :
                   /\ \A l \in Entry : l # k => file'[l] = file[l]
                   /\ writes' = writes + 1
                   /\ \E kd \in {"invalid", "valid"}, c \in BOOLEAN, n \in MaybeMsrv :
                         file'[k] = [kind |-> kd, version |-> writes + 1, breaking |-> c,
                                     msrv |-> n]
  <2>1. /\ file'[e] = [kind |-> kind, version |-> writes + 1, breaking |-> b, msrv |-> m]
        /\ \A l \in Entry : l # e => file'[l] = file[l]
        /\ writes' = writes + 1
    BY <1>2 DEF Write, TypeOK
  <2> QED BY <1>2, <2>1
<1>3. ASSUME NEW e \in Entry, NEW f \in {Torn, Absent}, file' = [file EXCEPT ![e] = f],
             writes' = writes, UNCHANGED tables
      PROVE  /\ UNCHANGED tables
             /\ \E k \in Entry : /\ \A l \in Entry : l # k => file'[l] = file[l]
                                 /\ file'[k] \in {Torn, Absent} /\ writes' = writes
  BY <1>3 DEF TypeOK
<1>4. ASSUME NEW d \in Driver, DriverWrites(d) \/ RegenerateWrites(d)
      PROVE  \E e \in Entry, kind \in {"invalid", "valid"}, b \in BOOLEAN, m \in MaybeMsrv :
                 Write(e, kind, b, m) /\ UNCHANGED tables
  <2>1. E(d) \in Entry /\ proc[d].made.breaking \in BOOLEAN /\ proc[d].made.msrv \in MaybeMsrv
    BY <1>4, <1>d, ProcParts DEF DriverWrites, RegenerateWrites, At, Text
  <2>2. \E b \in BOOLEAN, m \in MaybeMsrv : Write(E(d), "valid", b, m) /\ UNCHANGED tables
    BY <1>4, <2>1 DEF DriverWrites, RegenerateWrites, MaybeMsrv
  <2> QED BY <2>1, <2>2
<1>5. ASSUME NEW d \in Driver, NEW e \in Chunk[d], DriverOpens(d, e) \/ RegenerateOpens(d, e)
      PROVE  e \in Entry /\ file' = [file EXCEPT ![e] = Torn] /\ writes' = writes
             /\ UNCHANGED tables
  BY <1>5, <1>d DEF DriverOpens, RegenerateOpens
<1>6. ASSUME NEW e \in Entry, Pull(e)
      PROVE  \E kind \in {"invalid", "valid"}, b \in BOOLEAN, m \in MaybeMsrv :
                 Write(e, kind, b, m) /\ UNCHANGED tables
  BY <1>6 DEF Pull, MaybeMsrv
<1>7. ASSUME NEW e \in Entry, Remove(e)
      PROVE  file' = [file EXCEPT ![e] = Absent] /\ writes' = writes /\ UNCHANGED tables
  BY <1>7 DEF Remove
<1>8. \/ file' = file /\ writes' = writes
      \/ \E d \in Driver : DriverWrites(d) \/ RegenerateWrites(d)
      \/ \E d \in Driver : \E e \in Chunk[d] : DriverOpens(d, e) \/ RegenerateOpens(d, e)
      \/ \E e \in Entry : Pull(e) \/ Remove(e)
  BY DEF Next, DriverStep, RebuildStep, Patches, Records, RebuildStarts, RebuildLooksForSource,
         RebuildEnds, RebuildTakes, ReadsEntry, HashesEntry, UpsertsEntry, SetsSource, SeedLooks,
         Seeds,
         Raises, Crash, Flip, vars
<1> QED BY <1>1, <1>2, <1>3, <1>4, <1>5, <1>6, <1>7, <1>8

\* What a process holds is a version of its file ...
LEMMA HeldVersionStep == TypeInv /\ VersionInv /\ [Next]_vars => HeldVersions'
PROOF
<1> SUFFICES ASSUME TypeInv, VersionInv, [Next]_vars PROVE HeldVersions'
  OBVIOUS
<1>t. TypeOK /\ writes \in Nat
  BY IndexAssumption DEF TypeInv, TypeOK
<1>d. \A d \in Driver : d \in Process /\ Chunk[d] \subseteq Entry
  BY IndexAssumption DEF Process
<1>r. Rebuild \in Process
  BY DEF Process
<1>w. writes' \in Nat /\ writes <= writes'
  <2>1. writes' = writes \/ writes' = writes + 1
    BY FileSteps
  <2> QED BY <1>t, <2>1
<1>h. \A p \in Process : /\ proc[p].made \in Text /\ proc[p].read \in Text
                         /\ proc[p].made.version <= writes' /\ proc[p].read.version <= writes'
  <2>1. ASSUME NEW p \in Process
        PROVE  /\ proc[p].made \in Text /\ proc[p].read \in Text
               /\ proc[p].made.version \in Nat /\ proc[p].read.version \in Nat
    BY ProcParts, IndexAssumption DEF Text
  <2> QED BY <1>t, <1>w, <2>1 DEF VersionInv, HeldVersions
<1>f. \A e \in Entry : TextOf(file[e]).version <= writes'
  <2>1. ASSUME NEW e \in Entry PROVE file[e].version \in Nat /\ file[e].version <= writes
    BY <1>t, FileParts, IndexAssumption DEF VersionInv, FileVersions
  <2> QED BY <1>t, <1>w, <2>1 DEF TextOf
<1>0. Nothing.version <= writes'
  BY <1>w DEF Nothing
<1>1. ASSUME NEW p \in Process, NEW h, Moved(p, h),
             h.made.version <= writes', h.read.version <= writes'
      PROVE  HeldVersions'
  BY <1>1, <1>h DEF HeldVersions, Moved
<1>2. CASE proc' = proc
  BY <1>2, <1>h DEF HeldVersions
<1>3. ASSUME NEW p \in Process, Stop(p) PROVE HeldVersions'
  <2>1. Moved(p, Idle)
    BY <1>3, <1>t, StopMoves
  <2> QED BY <1>0, <1>1, <2>1 DEF Idle
<1>4. ASSUME NEW p \in Process, NEW pc, Goto(p, pc) PROVE HeldVersions'
  <2>1. Moved(p, [pc |-> pc, entry |-> E(p), made |-> proc[p].made, read |-> proc[p].read])
    BY <1>4, <1>t, GotoMoves
  <2> QED BY <1>1, <1>h, <2>1
<1>5. ASSUME NEW p \in Process, NEW pc, NEW e, NEW made, NEW read, Becomes(p, pc, e, made, read),
             made.version <= writes', read.version <= writes'
      PROVE  HeldVersions'
  <2>1. Moved(p, [pc |-> pc, entry |-> e, made |-> made, read |-> read])
    BY <1>5, <1>t, BecomesMoves
  <2> QED BY <1>1, <1>5, <2>1
<1>6. ASSUME NEW d \in Driver, NEW e \in Chunk[d], DriverOpens(d, e) \/ RegenerateOpens(d, e)
      PROVE  HeldVersions'
  BY <1>6, <1>d, <1>f, <1>0, <1>5 DEF DriverOpens, RegenerateOpens
<1>7. ASSUME NEW d \in Driver, DriverWrites(d) PROVE HeldVersions'
  <2>1. PICK b \in BOOLEAN, m \in Msrv :
            Becomes(d, "read", E(d), [version |-> writes + 1, breaking |-> b, msrv |-> m], Nothing)
    BY <1>7 DEF DriverWrites
  <2>2. [version |-> writes + 1, breaking |-> b, msrv |-> m].version <= writes'
    BY <1>7, <1>t, <1>w DEF DriverWrites, Write
  <2> QED BY <1>d, <1>0, <1>5, <2>1, <2>2
<1>8. ASSUME NEW p \in Process, ReadsEntry(p) PROVE HeldVersions'
  <2>1. [TextOf(file[E(p)]) EXCEPT !.version = 0].version <= writes'
    BY <1>w DEF TextOf
  <2> QED BY <1>8, <1>h, <1>5, <2>1 DEF ReadsEntry
<1>9. ASSUME NEW p \in Process, HashesEntry(p) PROVE HeldVersions'
  <2>1. E(p) \in Entry
    BY <1>9, ProcParts DEF HashesEntry, At
  <2>2. [proc[p].read EXCEPT !.version = file[E(p)].version].version = file[E(p)].version
    BY <1>h DEF Text
  <2> QED BY <1>9, <1>f, <1>h, <1>5, <2>1, <2>2 DEF HashesEntry, TextOf
<1>10. ASSUME NEW p \in Process, UpsertsEntry(p) PROVE HeldVersions'
  BY <1>10, <1>0, <1>h, <1>5 DEF UpsertsEntry
<1>11. ASSUME NEW e \in Entry, RebuildTakes(e) PROVE HeldVersions'
  BY <1>11, <1>r, <1>0, <1>f, <1>2, <1>5 DEF RebuildTakes
<1>12. ASSUME NEW d \in Driver, RegenerateWrites(d) \/ Patches(d) \/ Records(d) PROVE HeldVersions'
  BY <1>12, <1>d, <1>3, <1>4 DEF RegenerateWrites, Patches, Records
<1>13. CASE RebuildStarts \/ RebuildLooksForSource \/ RebuildEnds
  BY <1>13, <1>r, <1>3, <1>4 DEF RebuildStarts, RebuildLooksForSource, RebuildEnds
<1>14. ASSUME NEW p \in Process,
              SetsSource(p) \/ SeedLooks(p) \/ Seeds(p) \/ Raises(p) \/ Crash(p)
       PROVE  HeldVersions'
  BY <1>14, <1>3, <1>4 DEF SetsSource, SeedLooks, Seeds, Raises, Crash, AfterEntry
<1>15. CASE (\E e \in Entry : Pull(e) \/ Remove(e) \/ Flip(e)) \/ UNCHANGED vars
  BY <1>2, <1>15 DEF Pull, Remove, Flip, vars
<1> QED
  BY <1>6, <1>7, <1>8, <1>9, <1>10, <1>11, <1>12, <1>13, <1>14, <1>15
  DEF Next, DriverStep, RebuildStep

\* ... and so is what it puts into a row or an attempt.
LEMMA FileVersionStep == TypeInv /\ VersionInv /\ [Next]_vars => FileVersions'
PROOF
<1> SUFFICES ASSUME TypeInv, VersionInv, [Next]_vars PROVE FileVersions'
  OBVIOUS
<1> USE DEF tables
<1>t. TypeOK /\ writes \in Nat
  BY IndexAssumption DEF TypeInv, TypeOK
<1>f. \A e \in Entry : /\ file[e].version \in Nat
                       /\ row[e] # NoRow => row[e].hash \in Nat
                       /\ attempts[e] \in Seq(0..MaxWrites)
                       /\ \A i \in DOMAIN attempts[e] : attempts[e][i] \in Nat
  <2>1. \A n \in 0..MaxWrites : n \in Nat
    BY IndexAssumption
  <2>2. \A e \in Entry : attempts[e] \in Seq(0..MaxWrites)
    BY <1>t DEF TypeOK
  <2>3. ASSUME NEW e \in Entry, NEW i \in DOMAIN attempts[e]
        PROVE  attempts[e][i] \in 0..MaxWrites
    <3>1. ASSUME NEW S, NEW s \in Seq(S), NEW j \in DOMAIN s PROVE s[j] \in S
      OBVIOUS
    <3> QED BY <2>2, <3>1
  <2>4. \A e \in Entry : /\ file[e].version \in 0..MaxWrites
                         /\ row[e] # NoRow => row[e].hash \in 0..MaxWrites
    BY <1>t, FileParts, RowParts
  <2> QED BY <2>1, <2>2, <2>3, <2>4
<1>1. CASE file' # file \/ writes' # writes
  <2>1. /\ row' = row /\ attempts' = attempts
        /\ writes' \in Nat /\ writes' >= writes
    BY <1>1, <1>t, FileSteps
  <2>2. \A e \in Entry :
            /\ file'[e].version <= writes'
            /\ (file'[e].version = 0) <=> (file'[e].kind \in {"absent", "torn"})
    <3>1. PICK k \in Entry :
              /\ \A l \in Entry : l # k => file'[l] = file[l]
              /\ \/ file'[k] \in {Torn, Absent} /\ writes' = writes
                 \/ /\ writes' = writes + 1
                    /\ \E kind \in {"invalid", "valid"}, b \in BOOLEAN, m \in MaybeMsrv :
                          file'[k] = [kind |-> kind, version |-> writes + 1, breaking |-> b,
                                      msrv |-> m]
      BY <1>1, FileSteps
    <3>2. /\ file'[k].version <= writes'
          /\ (file'[k].version = 0) <=> (file'[k].kind \in {"absent", "torn"})
      <4>1. CASE file'[k] \in {Torn, Absent} /\ writes' = writes
        BY <1>t, <4>1 DEF Torn, Absent
      <4>2. ASSUME NEW kind \in {"invalid", "valid"}, NEW b \in BOOLEAN, NEW m \in MaybeMsrv,
                   writes' = writes + 1,
                   file'[k] = [kind |-> kind, version |-> writes + 1, breaking |-> b, msrv |-> m]
            PROVE  /\ file'[k].version <= writes'
                   /\ file'[k].version # 0
                   /\ file'[k].kind \notin {"absent", "torn"}
        BY <1>t, <4>2
      <4> QED BY <3>1, <4>1, <4>2
    <3>3. \A e \in Entry : e # k => file'[e] = file[e] /\ file[e].version <= writes'
      BY <1>t, <1>f, <2>1, <3>1 DEF VersionInv, FileVersions
    <3>4. ASSUME NEW e \in Entry, e # k
          PROVE  /\ file'[e].version <= writes'
                 /\ (file'[e].version = 0) <=> (file'[e].kind \in {"absent", "torn"})
      BY <3>3, <3>4 DEF VersionInv, FileVersions
    <3> QED BY <3>2, <3>4
  <2>3. \A e \in Entry :
            /\ row[e] # NoRow => row[e].hash <= writes'
            /\ \A i \in DOMAIN attempts[e] : attempts[e][i] <= writes'
    BY <1>t, <1>f, <2>1 DEF VersionInv, FileVersions
  <2> QED BY <2>1, <2>2, <2>3 DEF FileVersions
<1>2. CASE file' = file /\ writes' = writes
  <2>1. ASSUME NEW d \in Driver, Patches(d) PROVE FileVersions'
    <3>1. E(d) \in Entry /\ row[E(d)] # NoRow
      BY <2>1, ProcParts DEF Patches, At, TypeInv, HeldInv, Indexed, Process
    <3>2. /\ row'[E(d)].hash = row[E(d)].hash
          /\ \A e \in Entry : e # E(d) => row'[e] = row[e]
      BY <2>1, <3>1, <1>t DEF Patches, TypeOK
    <3> QED BY <1>2, <2>1, <3>1, <3>2 DEF VersionInv, FileVersions, Patches
  <2>2. ASSUME NEW p \in Process, UpsertsEntry(p) PROVE FileVersions'
    <3>1. E(p) \in Entry
      BY <2>2, ProcParts DEF UpsertsEntry, At
    <3>2. /\ row'[E(p)].hash = proc[p].read.version
          /\ \A e \in Entry : e # E(p) => row'[e] = row[e]
      BY <2>2, <3>1, <1>t DEF UpsertsEntry, RowOf, TypeOK
    <3>3. proc[p].read.version <= writes
      BY DEF VersionInv, HeldVersions
    <3> QED BY <1>2, <2>2, <3>1, <3>2, <3>3 DEF VersionInv, FileVersions, UpsertsEntry
  <2>3. ASSUME NEW d \in Driver, Records(d) PROVE FileVersions'
    <3>1. E(d) \in Entry /\ d \in Process
      BY <2>3, ProcParts DEF Records, At, Process
    <3>2. /\ attempts'[E(d)] = Append(attempts[E(d)], proc[d].made.version)
          /\ \A e \in Entry : e # E(d) => attempts'[e] = attempts[e]
      BY <2>3, <3>1, <1>t DEF Records, TypeOK
    <3>3. proc[d].made.version <= writes
      BY <3>1 DEF VersionInv, HeldVersions
    <3>4. \A i \in DOMAIN attempts'[E(d)] : attempts'[E(d)][i] <= writes
      BY <1>f, <3>1, <3>2, <3>3 DEF VersionInv, FileVersions
    <3> QED BY <1>2, <2>3, <3>2, <3>4 DEF VersionInv, FileVersions, Records
  <2>4. CASE row' = row /\ attempts' = attempts
    BY <1>2, <2>4 DEF VersionInv, FileVersions
  <2> QED
    BY <1>2, <2>1, <2>2, <2>3, <2>4 DEF Next, DriverStep, RebuildStep, DriverOpens,
       RegenerateOpens, DriverWrites, RegenerateWrites, RebuildStarts, RebuildLooksForSource,
       RebuildEnds, RebuildTakes, ReadsEntry, HashesEntry, SetsSource, SeedLooks, Seeds, Raises,
       Crash, Pull, Remove, Flip, vars
<1> QED BY <1>1, <1>2

\* One process takes a step at a time, and starts only when it may.
LEMMA OneMoves ==
    ASSUME TypeInv, [Next]_vars
    PROVE  /\ alone' = alone
           /\ \/ proc' = proc
              \/ \E p \in Process : /\ \A q \in Process : q # p => proc'[q] = proc[q]
                                    /\ At(p, "idle") => MayRun(p)
PROOF
<1>t. TypeOK
  BY DEF TypeInv
<1>d. \A d \in Driver : d \in Process
  BY DEF Process
<1>r. Rebuild \in Process
  BY DEF Process
<1>1. alone' = alone
  BY DEF Next, DriverStep, RebuildStep, DriverOpens, RegenerateOpens, DriverWrites,
         RegenerateWrites, Patches, Records, RebuildStarts, RebuildLooksForSource, RebuildEnds,
         RebuildTakes, ReadsEntry, HashesEntry, UpsertsEntry, SetsSource, SeedLooks, Seeds,
         Raises, Crash,
         Pull, Remove, Flip, vars
<1> DEFINE Moves(p) == /\ \A q \in Process : q # p => proc'[q] = proc[q]
                       /\ At(p, "idle") => MayRun(p)
<1>2. ASSUME NEW p \in Process, At(p, "idle") => MayRun(p),
             \/ Stop(p)
             \/ \E pc : Goto(p, pc)
             \/ \E pc, e, made, read : Becomes(p, pc, e, made, read)
      PROVE  Moves(p)
  <2>1. \E h : Moved(p, h)
    BY <1>2, <1>t, BecomesMoves, GotoMoves, StopMoves
  <2> QED BY <1>2, <2>1 DEF Moved
<1> HIDE DEF Moves
<1>3. ASSUME NEW d \in Driver, DriverStep(d) PROVE Moves(d)
  <2>1. At(d, "idle") => MayRun(d)
    BY <1>3 DEF DriverStep, DriverOpens, RegenerateOpens, DriverWrites, RegenerateWrites,
                Patches, Records, At
  <2>2. \/ Stop(d)
        \/ \E pc : Goto(d, pc)
        \/ \E pc, e, made, read : Becomes(d, pc, e, made, read)
    BY <1>3 DEF DriverStep, DriverOpens, RegenerateOpens, DriverWrites, RegenerateWrites,
                Patches, Records
  <2> QED BY <1>2, <1>d, <2>1, <2>2
<1>4. CASE RebuildStep
  <2>1. At(Rebuild, "idle") => MayRun(Rebuild)
    BY <1>4 DEF RebuildStep, RebuildStarts, RebuildLooksForSource, RebuildEnds, RebuildTakes, At
  <2>2. \/ proc' = proc
        \/ Stop(Rebuild)
        \/ \E pc : Goto(Rebuild, pc)
        \/ \E pc, e, made, read : Becomes(Rebuild, pc, e, made, read)
    BY <1>4 DEF RebuildStep, RebuildStarts, RebuildLooksForSource, RebuildEnds, RebuildTakes
  <2>3. proc' = proc \/ Moves(Rebuild)
    BY <1>2, <1>r, <2>1, <2>2
  <2> QED BY <1>1, <1>r, <2>3 DEF Moves
<1>5. ASSUME NEW p \in Process,
             \/ ReadsEntry(p) \/ HashesEntry(p) \/ UpsertsEntry(p) \/ SetsSource(p)
             \/ SeedLooks(p) \/ Seeds(p) \/ Raises(p) \/ Crash(p)
      PROVE  Moves(p)
  <2>1. At(p, "idle") => MayRun(p)
    BY <1>5
    DEF ReadsEntry, HashesEntry, UpsertsEntry, SetsSource, SeedLooks, Seeds, Raises, Crash, At
  <2>2. \/ Stop(p)
        \/ \E pc : Goto(p, pc)
        \/ \E pc, e, made, read : Becomes(p, pc, e, made, read)
    BY <1>5
    DEF ReadsEntry, HashesEntry, UpsertsEntry, SetsSource, SeedLooks, Seeds, Raises, Crash,
        AfterEntry
  <2> QED BY <1>2, <2>1, <2>2
<1>6. CASE \/ \E e \in Entry : Pull(e) \/ Remove(e) \/ Flip(e)
           \/ UNCHANGED vars
  BY <1>1, <1>6 DEF Pull, Remove, Flip, vars
<1>7. (\E p \in Process : Moves(p)) \/ RebuildStep \/ proc' = proc
  BY <1>3, <1>5, <1>6, <1>d DEF Next, Pull, Remove, Flip, vars
<1> QED BY <1>1, <1>4, <1>7 DEF Moves

\* A source that is there stays in one form or the other.
LEMMA SourceStays ==
    ASSUME TypeInv, [Next]_vars, NEW e \in Entry, source[e] # "none"
    PROVE  source'[e] # "none"
PROOF
<1> USE DEF tables
<1>1. CASE source' = source
  BY <1>1
<1>2. ASSUME NEW p \in Process, SetsSource(p) PROVE source'[e] # "none"
  BY <1>2 DEF SetsSource, TypeInv, TypeOK
<1> QED
  BY <1>1, <1>2 DEF Next, DriverStep, RebuildStep, DriverOpens, RegenerateOpens, DriverWrites,
     RegenerateWrites, Patches, Records, RebuildStarts, RebuildLooksForSource, RebuildEnds,
     RebuildTakes, ReadsEntry, HashesEntry, UpsertsEntry, SeedLooks, Seeds, Raises, Crash, Pull,
     Remove, Flip, vars

\* An attempt is recorded once: behind the record the driver is past it, and the row and the
\* source it came by are not lost to whoever else is at the entry.
LEMMA AttemptStep == TypeInv /\ VersionInv /\ AttemptInv /\ [Next]_vars => AttemptInv'
PROOF
<1> SUFFICES ASSUME TypeInv, VersionInv, AttemptInv, [Next]_vars PROVE AttemptInv'
  OBVIOUS
<1> USE DEF tables
<1>t. TypeOK /\ HeldInv
  BY DEF TypeInv
<1>d. \A d \in Driver : d \in Process /\ d # Rebuild /\ Chunk[d] \subseteq Entry
  BY IndexAssumption DEF Process
<1>r. Rebuild \in Process /\ \A p \in Process : p \in Driver \/ p = Rebuild
  BY DEF Process
<1>a. \A d \in Driver : Attempting(d) /\ (~At(d, "idle") => E(d) \in Chunk[d] /\ E(d) \in Entry)
  BY <1>t, <1>d DEF AttemptInv, HeldInv
<1>s. \A e \in Entry : /\ Dated(row[e]) => Dated(row'[e])
                       /\ source[e] # "none" => source'[e] # "none"
  BY RowsStay, SourceStays DEF Dated
\* A driver that does not move, over an entry with the attempts it had.
<1>k. ASSUME NEW k \in Driver, proc'[k] = proc[k],
             ~At(k, "idle") => attempts'[E(k)] = attempts[E(k)]
      PROVE  Attempting(k)'
  BY <1>k, <1>a, <1>s DEF Attempting, At, E, Reading, Indexed
\* One that gets behind the records.
<1>p. ASSUME NEW k \in Driver, proc'[k].pc \notin Reading \cup Indexed PROVE Attempting(k)'
  BY <1>p DEF Attempting, At, Reading, Indexed
\* No attempt is recorded.
<1>1. ASSUME attempts' = attempts PROVE AttemptsStand'
  BY <1>1, <1>s DEF AttemptInv, AttemptsStand
<1>2. ASSUME attempts' = attempts, NEW p \in Process,
             \A q \in Process : q # p => proc'[q] = proc[q], p \in Driver => Attempting(p)'
      PROVE  AttemptInv'
  <2>1. ASSUME NEW k \in Driver, k # p PROVE Attempting(k)'
    BY <1>2, <1>d, <1>k, <2>1
  <2> QED BY <1>1, <1>2, <2>1 DEF AttemptInv
<1>3. CASE proc' = proc /\ attempts' = attempts
  BY <1>1, <1>3, <1>d, <1>k DEF AttemptInv
<1>4. ASSUME attempts' = attempts, NEW p \in Process, NEW h, Moved(p, h),
             p = Rebuild \/ h.pc \notin Reading \cup Indexed
      PROVE  AttemptInv'
  BY <1>2, <1>4, <1>d, <1>p DEF Moved
<1>5. ASSUME attempts' = attempts, NEW d \in Driver, NEW h, Moved(d, h),
             proc[d].pc \in Reading \cup Indexed, h.entry = E(d), h.made = proc[d].made,
             h.pc \in {"source", "attempt"} => Dated(row'[E(d)]),
             h.pc = "attempt" => source'[E(d)] # "none"
      PROVE  AttemptInv'
  <2>1. Attempting(d)'
    BY <1>5, <1>a DEF Attempting, Moved, At, E
  <2> QED BY <1>2, <1>5, <1>d, <2>1 DEF Moved
<1>6. ASSUME NEW d \in Driver, NEW e \in Chunk[d], DriverOpens(d, e) \/ RegenerateOpens(d, e)
      PROVE  AttemptInv'
  <2>1. \E pc \in {"write", "rewrite"} : \E t :
            Moved(d, [pc |-> pc, entry |-> e, made |-> t, read |-> Nothing])
    BY <1>6, <1>t, <1>d, BecomesMoves DEF DriverOpens, RegenerateOpens
  <2>2. attempts' = attempts
    BY <1>6 DEF DriverOpens, RegenerateOpens
  <2> QED BY <1>4, <1>d, <2>1, <2>2 DEF Reading, Indexed
<1>7. ASSUME NEW d \in Driver, DriverWrites(d) PROVE AttemptInv'
  <2>1. E(d) \in Entry
    BY <1>7, <1>a DEF DriverWrites, At
  <2>2. PICK b \in BOOLEAN, m \in Msrv :
            Moved(d, [pc |-> "read", entry |-> E(d),
                      made |-> [version |-> writes + 1, breaking |-> b, msrv |-> m],
                      read |-> Nothing])
    BY <1>7, <1>t, <1>d, BecomesMoves DEF DriverWrites
  <2>3. proc'[d].pc = "read" /\ proc'[d].entry = E(d) /\ proc'[d].made.version = writes + 1
    BY <2>2 DEF Moved
  <2>4. \A i \in DOMAIN attempts[E(d)] : attempts[E(d)][i] # writes + 1
    <3>1. ASSUME NEW i \in DOMAIN attempts[E(d)] PROVE attempts[E(d)][i] # writes + 1
      <4>1. attempts[E(d)][i] <= writes /\ writes \in Nat
        BY <2>1, <1>t, IndexAssumption DEF VersionInv, FileVersions, TypeOK
      <4>2. attempts[E(d)][i] \in 0..MaxWrites
        <5>1. ASSUME NEW S, NEW s \in Seq(S), NEW j \in DOMAIN s PROVE s[j] \in S
          OBVIOUS
        <5> QED BY <2>1, <1>t, <5>1 DEF TypeOK
      <4> QED BY <4>1, <4>2, IndexAssumption
    <3> QED BY <3>1
  <2>5. attempts' = attempts
    BY <1>7 DEF DriverWrites
  <2>6. Attempting(d)'
    BY <2>3, <2>4, <2>5 DEF Attempting, E, At
  <2> QED BY <1>2, <1>d, <2>2, <2>5, <2>6 DEF Moved
<1>8. ASSUME NEW p \in Process, ReadsEntry(p) \/ HashesEntry(p) \/ UpsertsEntry(p)
      PROVE  AttemptInv'
  <2>1. \E pc \in {"hash", "upsert", "source_check", "patch"} : \E t :
            Moved(p, [pc |-> pc, entry |-> E(p), made |-> proc[p].made, read |-> t])
    <3>1. \E pc \in {"hash", "upsert", "source_check", "patch"} : \E t :
              Becomes(p, pc, E(p), proc[p].made, t)
      BY <1>8 DEF ReadsEntry, HashesEntry, UpsertsEntry
    <3>2. ASSUME NEW pc, NEW t, Becomes(p, pc, E(p), proc[p].made, t)
          PROVE  Moved(p, [pc |-> pc, entry |-> E(p), made |-> proc[p].made, read |-> t])
      BY <1>t, <3>2, BecomesMoves
    <3> QED BY <3>1, <3>2
  <2>2. attempts' = attempts /\ proc[p].pc \in Reading
    BY <1>8 DEF ReadsEntry, HashesEntry, UpsertsEntry, At, Reading
  <2> QED BY <1>4, <1>5, <1>r, <2>1, <2>2
<1>9. ASSUME NEW d \in Driver, Patches(d) PROVE AttemptInv'
  <2>1. /\ E(d) \in Entry /\ row[E(d)] # NoRow /\ d \in Process
        /\ proc[d].made.msrv \in MaybeMsrv
    BY <1>9, <1>a, <1>d, <1>t, ProcParts DEF Patches, At, HeldInv, Indexed, Text
  <2>2. Moved(d, [pc |-> "source", entry |-> E(d), made |-> proc[d].made,
                  read |-> proc[d].read])
    BY <1>9, <1>d, <1>t, GotoMoves DEF Patches
  <2>3. Dated(row'[E(d)])
    <3> DEFINE new == [hash |-> row[E(d)].hash, breaking |-> row[E(d)].breaking,
                       msrv |-> proc[d].made.msrv, dated |-> TRUE]
    <3>1. new # NoRow /\ new.dated
      BY <1>t, <2>1, RowParts, RowIsRow
    <3>2. row' = [row EXCEPT ![E(d)] = new]
      BY <1>9 DEF Patches
    <3> HIDE DEF new
    <3> QED BY <1>t, <2>1, <3>1, <3>2 DEF TypeOK, Dated
  <2>4. attempts' = attempts /\ proc[d].pc \in Indexed
    BY <1>9 DEF Patches, At, Indexed
  <2> QED BY <1>5, <2>2, <2>3, <2>4
<1>10. ASSUME NEW d \in Driver, SetsSource(d) PROVE AttemptInv'
  <2>1. E(d) \in Entry /\ Dated(row[E(d)])
    BY <1>10, <1>a DEF SetsSource, At, Attempting
  <2>2. Moved(d, [pc |-> "attempt", entry |-> E(d), made |-> proc[d].made,
                  read |-> proc[d].read])
    BY <1>10, <1>d, <1>t, GotoMoves DEF SetsSource
  <2>3. source'[E(d)] # "none" /\ Dated(row'[E(d)])
    BY <1>10, <1>s, <1>t, <2>1 DEF SetsSource, TypeOK
  <2>4. attempts' = attempts /\ proc[d].pc \in Indexed
    BY <1>10 DEF SetsSource, At, Indexed
  <2> QED BY <1>5, <2>2, <2>3, <2>4
<1>11. ASSUME NEW d \in Driver, Records(d) PROVE AttemptInv'
  <2>1. E(d) \in Chunk[d] /\ E(d) \in Entry
    BY <1>11, <1>a DEF Records, At
  <2>2. Moved(d, [pc |-> "seed_check", entry |-> E(d), made |-> proc[d].made,
                  read |-> proc[d].read])
    BY <1>11, <1>d, <1>t, GotoMoves DEF Records
  <2>3. /\ attempts'[E(d)] = Append(attempts[E(d)], proc[d].made.version)
        /\ \A e \in Entry : e # E(d) => attempts'[e] = attempts[e]
        /\ row' = row /\ source' = source
    BY <1>11, <2>1, <1>t DEF Records, TypeOK
  <2>4. /\ \A i \in DOMAIN attempts[E(d)] : attempts[E(d)][i] # proc[d].made.version
        /\ Dated(row[E(d)]) /\ source[E(d)] # "none"
    BY <1>11, <1>a DEF Attempting, At, Reading, Indexed, Records
  <2>5. AttemptsStand'
    <3>1. ASSUME NEW S, NEW s \in Seq(S), NEW x, \A i \in DOMAIN s : s[i] # x,
                 \A i, j \in DOMAIN s : s[i] = s[j] => i = j
          PROVE  \A i, j \in DOMAIN Append(s, x) : Append(s, x)[i] = Append(s, x)[j] => i = j
      <4>1. /\ DOMAIN Append(s, x) = 1..(Len(s) + 1) /\ DOMAIN s = 1..Len(s) /\ Len(s) \in Nat
            /\ \A n \in 1..Len(s) : Append(s, x)[n] = s[n]
            /\ Append(s, x)[Len(s) + 1] = x
        OBVIOUS
      <4> QED BY <3>1, <4>1
    <3>2. attempts[E(d)] \in Seq(0..MaxWrites)
      BY <1>t, <2>1 DEF TypeOK
    <3>3. \A e \in Entry : \A i, j \in DOMAIN attempts[e] : attempts[e][i] = attempts[e][j] => i = j
      BY DEF AttemptInv, AttemptsStand
    <3>4. \A i, j \in DOMAIN attempts'[E(d)] :
              attempts'[E(d)][i] = attempts'[E(d)][j] => i = j
      BY <2>1, <2>3, <2>4, <3>1, <3>2, <3>3
    <3>5. ASSUME NEW e \in Entry
          PROVE  /\ \A i, j \in DOMAIN attempts'[e] : attempts'[e][i] = attempts'[e][j] => i = j
                 /\ attempts'[e] # <<>> => Dated(row'[e]) /\ source'[e] # "none"
      <4>1. CASE e = E(d)
        BY <2>3, <2>4, <3>4, <4>1
      <4>2. CASE e # E(d)
        BY <2>3, <4>2 DEF AttemptInv, AttemptsStand
      <4> QED BY <4>1, <4>2
    <3> QED BY <3>5 DEF AttemptsStand
  <2>6. ASSUME NEW k \in Driver, k # d PROVE Attempting(k)'
    <3>1. ~At(k, "idle") => E(k) # E(d)
      BY <1>a, <2>1, <2>6, IndexAssumption
    <3> QED BY <1>a, <1>d, <1>k, <2>2, <2>3, <2>6, <3>1 DEF Moved
  <2>7. Attempting(d)'
    BY <1>p, <2>2 DEF Moved, Reading, Indexed
  <2> QED BY <2>5, <2>6, <2>7 DEF AttemptInv
\* The steps that only end a process, or are the rebuild's.
<1>12. ASSUME NEW p \in Process, attempts' = attempts,
              \/ Stop(p) \/ Goto(p, "seed")
              \/ p = Rebuild /\ \E pc : Goto(p, pc)
              \/ p = Rebuild /\ \E pc, e, made, read : Becomes(p, pc, e, made, read)
       PROVE  AttemptInv'
  <2>1. CASE Stop(p)
    <3>1. Moved(p, Idle)
      BY <1>t, <2>1, StopMoves
    <3> QED BY <1>4, <1>12, <3>1 DEF Idle, Reading, Indexed
  <2>2. CASE Goto(p, "seed")
    <3>1. Moved(p, [pc |-> "seed", entry |-> E(p), made |-> proc[p].made,
                    read |-> proc[p].read])
      BY <1>t, <2>2, GotoMoves
    <3> QED BY <1>4, <1>12, <3>1 DEF Reading, Indexed
  <2>3. ASSUME p = Rebuild, NEW h, Moved(p, h) PROVE AttemptInv'
    BY <1>4, <1>12, <2>3
  <2> QED BY <1>12, <1>t, <2>1, <2>2, <2>3, BecomesMoves, GotoMoves
<1>13. CASE RebuildStep
  BY <1>3, <1>12, <1>13, <1>r DEF RebuildStep, RebuildStarts, RebuildLooksForSource, RebuildEnds,
     RebuildTakes
<1>14. ASSUME NEW p \in Process, SeedLooks(p) \/ Seeds(p) \/ Raises(p) \/ Crash(p)
       PROVE  AttemptInv'
  BY <1>12, <1>14 DEF SeedLooks, Seeds, Raises, Crash, AfterEntry
<1>15. CASE SetsSource(Rebuild)
  BY <1>12, <1>15, <1>r DEF SetsSource
<1>16. ASSUME NEW d \in Driver, RegenerateWrites(d) PROVE AttemptInv'
  BY <1>12, <1>16, <1>d DEF RegenerateWrites
<1>17. CASE (\E e \in Entry : Pull(e) \/ Remove(e) \/ Flip(e)) \/ UNCHANGED vars
  BY <1>3, <1>17 DEF Pull, Remove, Flip, vars
<1> QED
  BY <1>6, <1>7, <1>8, <1>9, <1>10, <1>11, <1>13, <1>14, <1>15, <1>16, <1>17, <1>r
  DEF Next, DriverStep

----------------------------------------------------------------------------
(* What holds while nobody rebuilds beside a driver.                       *)

\* The rebuild starts when no driver is at work, and no driver starts while it is.
LEMMA AloneStep == TypeInv /\ AloneInv /\ [Next]_vars => AloneInv'
PROOF
<1> SUFFICES ASSUME TypeInv, AloneInv, [Next]_vars PROVE AloneInv'
  OBVIOUS
<1>1. CASE proc' = proc
  BY <1>1, OneMoves DEF AloneInv, At
<1>2. ASSUME NEW p \in Process, \A q \in Process : q # p => proc'[q] = proc[q],
             At(p, "idle") => MayRun(p)
      PROVE  AloneInv'
  <2>1. /\ Rebuild \in Process /\ Rebuild \notin Driver /\ Driver \subseteq Process
        /\ alone' = alone /\ (p \in Driver \/ p = Rebuild)
    BY OneMoves, IndexAssumption DEF Process
  <2> QED BY <1>2, <2>1 DEF AloneInv, MayRun, At
<1> QED BY <1>1, <1>2, OneMoves

\* A row gets the hash of the file in the step after the one that read it, and between the two
\* nobody else is at the file.
LEMMA FreshStep == TypeInv /\ VersionInv /\ AloneInv /\ FreshInv /\ [Next]_vars => FreshInv'
PROOF
<1> SUFFICES ASSUME TypeInv, VersionInv, AloneInv, FreshInv, [Next]_vars, alone PROVE FreshInv'
  BY OneMoves DEF FreshInv
<1> USE DEF tables
<1>t. TypeOK /\ HeldInv
  BY DEF TypeInv
<1>n. writes \in Nat
  BY <1>t, IndexAssumption DEF TypeOK
<1>d. \A d \in Driver : d \in Process /\ d # Rebuild /\ Chunk[d] \subseteq Entry
  BY IndexAssumption DEF Process
<1>r. Rebuild \in Process /\ \A p \in Process : p \in Driver \/ p = Rebuild
  BY DEF Process
<1>a. \A d \in Driver : ~At(d, "idle") => E(d) \in Chunk[d] /\ E(d) \in Entry
  BY <1>t, <1>d DEF HeldInv
<1>f. (\A e \in Entry : RowFresh(e)) /\ (\A p \in Process : ReadFresh(p))
  BY DEF FreshInv
\* A row that stays, under a file that does or is younger.
<1>e. ASSUME NEW e \in Entry, row'[e] = row[e],
             \/ file'[e] = file[e]
             \/ file'[e].version = 0
             \/ file'[e].version = writes + 1
      PROVE  RowFresh(e)'
  <2>1. row[e] # NoRow => row[e].hash <= writes /\ row[e].hash \in 0..MaxWrites
    BY <1>t, RowParts DEF VersionInv, FileVersions
  <2>2. row[e] # NoRow => row[e].hash # writes + 1
    BY <1>n, <2>1, IndexAssumption
  <2> QED BY <1>e, <1>f, <2>2 DEF RowFresh, Says
\* A process that does not read.
<1>p. ASSUME NEW p \in Process, proc'[p].pc \notin Reading \cup {"patch"} PROVE ReadFresh(p)'
  BY <1>p DEF ReadFresh, Reading, At
\* One that does not move, over a file that stays.
<1>q. ASSUME NEW p \in Process, proc'[p] = proc[p],
             At(p, "idle") \/ file'[E(p)] = file[E(p)]
      PROVE  ReadFresh(p)'
  BY <1>q, <1>f DEF ReadFresh, Reading, At, E
\* The next version.
<1>w. ASSUME NEW e \in Entry, NEW kind \in {"invalid", "valid"}, NEW b \in BOOLEAN,
             NEW m \in MaybeMsrv, Write(e, kind, b, m)
      PROVE  /\ file'[e].version = writes + 1
             /\ \A k \in Entry : k # e => file'[k] = file[k]
  <2>1. /\ file'[e] = [kind |-> kind, version |-> writes + 1, breaking |-> b, msrv |-> m]
        /\ \A k \in Entry : k # e => file'[k] = file[k]
    BY <1>w, <1>t DEF Write, TypeOK
  <2> QED BY <2>1
\* A driver changes a file of its own.
<1>1. ASSUME NEW d \in Driver, NEW e \in Chunk[d], row' = row,
             \A k \in Entry : k # e => file'[k] = file[k],
             file'[e].version = 0 \/ file'[e].version = writes + 1,
             \A q \in Process : q # d => proc'[q] = proc[q],
             ReadFresh(d)', At(Rebuild, "idle")
      PROVE  FreshInv'
  <2>1. \A k \in Entry : RowFresh(k)'
    BY <1>1, <1>e
  <2>2. ASSUME NEW q \in Process, q # d PROVE ReadFresh(q)'
    <3>1. At(q, "idle") \/ (E(q) \in Entry /\ E(q) # e)
      BY <1>1, <1>a, <1>r, <2>2, IndexAssumption
    <3> QED BY <1>1, <1>q, <2>2, <3>1
  <2> QED BY <1>1, <2>1, <2>2 DEF FreshInv
<1>2. ASSUME NEW d \in Driver, NEW e \in Chunk[d], DriverOpens(d, e) \/ RegenerateOpens(d, e)
      PROVE  FreshInv'
  <2>1. /\ row' = row /\ file'[e] = Torn /\ At(Rebuild, "idle")
        /\ \A k \in Entry : k # e => file'[k] = file[k]
    BY <1>2, <1>t, <1>d, <1>r DEF DriverOpens, RegenerateOpens, TypeOK, MayRun
  <2>2. \/ Moved(d, [pc |-> "write", entry |-> e, made |-> Nothing, read |-> Nothing])
        \/ Moved(d, [pc |-> "rewrite", entry |-> e, made |-> TextOf(file[e]),
                     read |-> Nothing])
    BY <1>2, <1>t, <1>d, BecomesMoves DEF DriverOpens, RegenerateOpens
  <2>3. ReadFresh(d)'
    BY <1>d, <1>p, <2>2 DEF Moved, Reading
  <2> QED BY <1>1, <2>1, <2>2, <2>3 DEF Moved, Torn
<1>3. ASSUME NEW d \in Driver, DriverWrites(d) PROVE FreshInv'
  <2>1. E(d) \in Chunk[d] /\ E(d) \in Entry /\ At(Rebuild, "idle")
    BY <1>3, <1>a DEF DriverWrites, At, AloneInv
  <2>2. PICK b \in BOOLEAN, m \in Msrv :
            /\ Write(E(d), "valid", b, m)
            /\ Moved(d, [pc |-> "read", entry |-> E(d),
                         made |-> [version |-> writes + 1, breaking |-> b, msrv |-> m],
                         read |-> Nothing])
    BY <1>3, <1>t, <1>d, BecomesMoves DEF DriverWrites
  <2>3. proc'[d].pc = "read" /\ proc'[d].entry = E(d) /\ proc'[d].made.msrv = m
    BY <2>2 DEF Moved
  <2>4. /\ file'[E(d)] = [kind |-> "valid", version |-> writes + 1, breaking |-> b, msrv |-> m]
        /\ \A k \in Entry : k # E(d) => file'[k] = file[k]
    BY <2>1, <2>2, <1>t DEF Write, TypeOK
  <2>5. ReadFresh(d)'
    BY <2>3, <2>4 DEF ReadFresh, E, At
  <2> QED BY <1>1, <1>3, <2>1, <2>2, <2>4, <2>5 DEF DriverWrites, Moved
<1>4. ASSUME NEW d \in Driver, RegenerateWrites(d) PROVE FreshInv'
  <2>1. /\ E(d) \in Chunk[d] /\ E(d) \in Entry /\ At(Rebuild, "idle")
        /\ proc[d].made \in Text
    BY <1>4, <1>a, <1>d, ProcParts DEF RegenerateWrites, At, AloneInv
  <2>2. Moved(d, Idle)
    BY <1>4, <1>t, <1>d, StopMoves DEF RegenerateWrites
  <2>3. /\ file'[E(d)].version = writes + 1
        /\ \A k \in Entry : k # E(d) => file'[k] = file[k]
    <3>1. /\ Write(E(d), "valid", proc[d].made.breaking, proc[d].made.msrv)
          /\ proc[d].made.breaking \in BOOLEAN /\ proc[d].made.msrv \in MaybeMsrv
      BY <1>4, <2>1 DEF RegenerateWrites, Text
    <3> QED BY <2>1, <3>1, <1>w
  <2>4. ReadFresh(d)'
    BY <1>d, <1>p, <2>2 DEF Moved, Idle, Reading
  <2> QED BY <1>1, <1>4, <2>1, <2>2, <2>3, <2>4 DEF RegenerateWrites, Moved
<1>5. ASSUME NEW e \in Entry, Pull(e) \/ Remove(e) PROVE FreshInv'
  <2>1. /\ row' = row /\ proc' = proc /\ \A p \in Process : At(p, "idle")
        /\ \A k \in Entry : k # e => file'[k] = file[k]
        /\ file'[e].version = 0 \/ file'[e].version = writes + 1
    <3>1. CASE Remove(e)
      BY <3>1, <1>t DEF Remove, Absent, TypeOK
    <3> QED BY <1>5, <1>w, <3>1 DEF Pull, MaybeMsrv
  <2> QED BY <1>e, <1>q, <2>1 DEF FreshInv
\* The files stay.
<1>6. ASSUME NEW p \in Process, \A q \in Process : q # p => proc'[q] = proc[q],
             file' = file, ReadFresh(p)',
             row' = row \/ \E e \in Entry : /\ \A k \in Entry : k # e => row'[k] = row[k]
                                           /\ RowFresh(e)'
      PROVE  FreshInv'
  BY <1>6, <1>e, <1>q DEF FreshInv
<1>7. ASSUME NEW d \in Driver, Patches(d) PROVE FreshInv'
  <2>1. E(d) \in Entry /\ row[E(d)] # NoRow
    BY <1>7, <1>a, <1>t DEF Patches, At, HeldInv, Indexed
  <2>2. Moved(d, [pc |-> "source", entry |-> E(d), made |-> proc[d].made,
                  read |-> proc[d].read])
    BY <1>7, <1>d, <1>t, GotoMoves DEF Patches
  <2>3. /\ row'[E(d)].hash = row[E(d)].hash /\ row'[E(d)].breaking = row[E(d)].breaking
        /\ row'[E(d)].msrv = file[E(d)].msrv
        /\ \A e \in Entry : e # E(d) => row'[e] = row[e]
        /\ file' = file
    BY <1>7, <1>d, <1>f, <2>1, <1>t DEF Patches, TypeOK, ReadFresh, At
  <2>4. \A e \in Entry : e = E(d) => RowFresh(e)'
    <3>1. /\ row[E(d)].hash # 0
          /\ row[E(d)].hash = file[E(d)].version => row[E(d)].breaking = file[E(d)].breaking
      BY <1>f, <2>1 DEF RowFresh, Says
    <3> QED BY <2>3, <3>1 DEF RowFresh, Says
  <2>5. ReadFresh(d)'
    BY <1>d, <1>p, <2>2 DEF Moved, Reading
  <2>6. \E e \in Entry : (\A k \in Entry : k # e => row'[k] = row[k]) /\ RowFresh(e)'
    BY <2>1, <2>3, <2>4
  <2> QED BY <1>d, <1>6, <2>2, <2>3, <2>5, <2>6 DEF Moved
<1>8. ASSUME NEW p \in Process, UpsertsEntry(p) PROVE FreshInv'
  <2>1. /\ E(p) \in Entry /\ proc[p].read \in Text
        /\ proc[p].read.version = file[E(p)].version /\ file[E(p)].version # 0
        /\ proc[p].read.breaking = file[E(p)].breaking /\ proc[p].read.msrv = file[E(p)].msrv
        /\ proc[p].made.msrv = file[E(p)].msrv
    BY <1>8, <1>f, ProcParts DEF UpsertsEntry, At, ReadFresh, Reading, VersionInv, FileVersions
  <2>2. Moved(p, [pc |-> IF p = Rebuild THEN "source_check" ELSE "patch", entry |-> E(p),
                  made |-> proc[p].made, read |-> Nothing])
    BY <1>8, <1>t, BecomesMoves DEF UpsertsEntry
  <2>3. /\ row'[E(p)] = RowOf(p) /\ file' = file
        /\ \A e \in Entry : e # E(p) => row'[e] = row[e]
    BY <1>8, <2>1, <1>t DEF UpsertsEntry, TypeOK
  <2>4. \E e \in Entry : (\A k \in Entry : k # e => row'[k] = row[k]) /\ RowFresh(e)'
    <3>1. /\ RowOf(p).hash = file[E(p)].version /\ RowOf(p).breaking = file[E(p)].breaking
          /\ file[E(p)].msrv \in {NoMsrv, RowOf(p).msrv}
      BY <1>t, <2>1, RowOfParts
    <3>2. ASSUME NEW e \in Entry, e = E(p) PROVE RowFresh(e)'
      BY <2>1, <2>3, <3>1, <3>2 DEF RowFresh, Says
    <3> QED BY <2>1, <2>3, <3>2
  <2>5. ReadFresh(p)'
    BY <2>1, <2>2, <2>3 DEF ReadFresh, Moved, Reading, At, E
  <2> QED BY <1>6, <2>2, <2>3, <2>4, <2>5 DEF Moved
<1>9. ASSUME NEW p \in Process, ReadsEntry(p) \/ HashesEntry(p) PROVE FreshInv'
  <2>1. PICK h : Moved(p, h) /\ h.entry = E(p) /\ h.made = proc[p].made
                 /\ \/ /\ At(p, "read") /\ h.pc = "hash"
                       /\ h.read = [TextOf(file[E(p)]) EXCEPT !.version = 0]
                    \/ /\ At(p, "hash") /\ h.pc = "upsert"
                       /\ h.read = [proc[p].read EXCEPT !.version = file[E(p)].version]
    <3>1. CASE ReadsEntry(p)
      <4> DEFINE h == [pc |-> "hash", entry |-> E(p), made |-> proc[p].made,
                       read |-> [TextOf(file[E(p)]) EXCEPT !.version = 0]]
      <4>1. Moved(p, h) /\ At(p, "read")
        BY <3>1, <1>t, BecomesMoves DEF ReadsEntry
      <4> QED BY <4>1
    <3>2. CASE HashesEntry(p)
      <4> DEFINE h == [pc |-> "upsert", entry |-> E(p), made |-> proc[p].made,
                       read |-> [proc[p].read EXCEPT !.version = file[E(p)].version]]
      <4>1. Moved(p, h) /\ At(p, "hash")
        BY <3>2, <1>t, BecomesMoves DEF HashesEntry
      <4> QED BY <4>1
    <3> QED BY <1>9, <3>1, <3>2
  <2>2. /\ file[E(p)].kind = "valid" /\ proc[p].made.msrv = file[E(p)].msrv
        /\ file' = file /\ row' = row /\ proc[p].read \in Text
    BY <1>9, <1>f, ProcParts DEF ReadsEntry, HashesEntry, ReadFresh, At, Reading
  <2>3. h.read.breaking = file[E(p)].breaking /\ h.read.msrv = file[E(p)].msrv
    <3>1. [TextOf(file[E(p)]) EXCEPT !.version = 0].breaking = file[E(p)].breaking
          /\ [TextOf(file[E(p)]) EXCEPT !.version = 0].msrv = file[E(p)].msrv
      BY DEF TextOf
    <3>2. CASE At(p, "hash") /\ h.read = [proc[p].read EXCEPT !.version = file[E(p)].version]
      <4>1. proc[p].read.breaking = file[E(p)].breaking /\ proc[p].read.msrv = file[E(p)].msrv
        BY <1>f, <3>2 DEF ReadFresh, At
      <4> QED BY <2>2, <3>2, <4>1 DEF Text
    <3> QED BY <2>1, <3>1, <3>2
  <2>4. h.pc = "upsert" => h.read.version = file[E(p)].version
    BY <2>1, <2>2 DEF Text
  <2>5. ReadFresh(p)'
    BY <2>1, <2>2, <2>3, <2>4 DEF ReadFresh, Moved, E, At, Reading
  <2> QED BY <1>6, <2>1, <2>2, <2>5 DEF Moved
<1>10. ASSUME NEW e \in Entry, RebuildTakes(e), proc' # proc PROVE FreshInv'
  <2>1. /\ Moved(Rebuild, [pc |-> "read", entry |-> e, made |-> TextOf(file[e]),
                           read |-> Nothing])
        /\ file[e].kind = "valid" /\ file' = file /\ row' = row
    BY <1>10, <1>t, <1>r, BecomesMoves DEF RebuildTakes
  <2>2. proc'[Rebuild].pc = "read" /\ proc'[Rebuild].entry = e
        /\ proc'[Rebuild].made.msrv = file[e].msrv
    BY <2>1 DEF Moved, TextOf
  <2>3. ReadFresh(Rebuild)'
    BY <2>1, <2>2 DEF ReadFresh, E, At
  <2> QED BY <1>r, <1>6, <2>1, <2>3 DEF Moved
\* The steps that read and write neither files nor rows.
<1>11. ASSUME NEW p \in Process, file' = file, row' = row,
              \/ Stop(p)
              \/ \E pc \in {"source", "seed_check", "attempt", "seed", "next"} : Goto(p, pc)
       PROVE  FreshInv'
  <2>1. CASE Stop(p)
    <3>1. Moved(p, Idle)
      BY <1>t, <2>1, StopMoves
    <3>2. ReadFresh(p)'
      BY <1>p, <3>1 DEF Moved, Idle, Reading
    <3> QED BY <1>6, <1>11, <3>1, <3>2 DEF Moved
  <2>2. ASSUME NEW pc \in {"source", "seed_check", "attempt", "seed", "next"}, Goto(p, pc)
        PROVE  FreshInv'
    <3>1. Moved(p, [pc |-> pc, entry |-> E(p), made |-> proc[p].made,
                    read |-> proc[p].read])
      BY <1>t, <2>2, GotoMoves
    <3>2. ReadFresh(p)'
      BY <1>p, <3>1 DEF Moved, Reading
    <3> QED BY <1>6, <1>11, <3>1, <3>2 DEF Moved
  <2> QED BY <1>11, <2>1, <2>2
<1>12. ASSUME NEW p \in Process, SetsSource(p) \/ SeedLooks(p) \/ Seeds(p) \/ Raises(p) \/ Crash(p)
       PROVE  FreshInv'
  BY <1>11, <1>12 DEF SetsSource, SeedLooks, Seeds, Raises, Crash, AfterEntry
<1>13. ASSUME NEW d \in Driver, Records(d) PROVE FreshInv'
  BY <1>11, <1>13, <1>d DEF Records
<1>14. CASE RebuildStarts \/ RebuildLooksForSource \/ RebuildEnds
  BY <1>11, <1>14, <1>r DEF RebuildStarts, RebuildLooksForSource, RebuildEnds
<1>15. CASE proc' = proc /\ file' = file /\ row' = row
  BY <1>15, <1>e, <1>q DEF FreshInv
<1> QED
  BY <1>2, <1>3, <1>4, <1>5, <1>7, <1>8, <1>9, <1>10, <1>12, <1>13, <1>14, <1>15
  DEF Next, DriverStep, RebuildStep, RebuildTakes, Flip, vars

\* No driver is at work: whatever happens is a step of the rebuild, a flip, or a driver that
\* starts in spite of it.
LEMMA RebuildAtWork ==
    ASSUME TypeInv, [Next]_vars, \A d \in Driver : At(d, "idle"), ~At(Rebuild, "idle")
    PROVE  \/ RebuildLooksForSource \/ RebuildEnds \/ \E e \in Entry : RebuildTakes(e)
           \/ ReadsEntry(Rebuild) \/ HashesEntry(Rebuild) \/ UpsertsEntry(Rebuild)
           \/ SetsSource(Rebuild)
           \/ SeedLooks(Rebuild) \/ Seeds(Rebuild) \/ Raises(Rebuild) \/ Crash(Rebuild)
           \/ \E e \in Entry : Flip(e)
           \/ ~alone /\ beside'
           \/ UNCHANGED vars
PROOF
<1>1. \A d \in Driver : At(d, "idle") /\ d \in Process
  BY DEF Process
<1>2. Rebuild \in Process /\ \A p \in Process : p \in Driver \/ p = Rebuild
  BY DEF Process
<1>3. ASSUME NEW d \in Driver, DriverStep(d) PROVE ~alone /\ beside'
  <2>1. d # Rebuild
    BY IndexAssumption
  <2>2. MayRun(d) /\ beside'
    BY <1>1, <1>3 DEF DriverStep, DriverOpens, RegenerateOpens, DriverWrites,
             RegenerateWrites, Patches, Records, At
  <2> QED BY <1>2, <2>1, <2>2 DEF MayRun
<1>4. ~RebuildStarts
  BY DEF RebuildStarts
<1>5. ASSUME NEW p \in Process,
             \/ ReadsEntry(p) \/ HashesEntry(p) \/ UpsertsEntry(p) \/ SetsSource(p)
             \/ SeedLooks(p) \/ Seeds(p) \/ Raises(p) \/ Crash(p)
      PROVE  p = Rebuild
  BY <1>1, <1>2, <1>5
  DEF ReadsEntry, HashesEntry, UpsertsEntry, SetsSource, SeedLooks, Seeds, Raises, Crash, At
<1>6. \A e \in Entry : ~Pull(e) /\ ~Remove(e)
  BY <1>2 DEF Pull, Remove
<1> QED BY <1>3, <1>4, <1>5, <1>6 DEF Next, RebuildStep

\* That a driver has been beside the rebuild is not forgotten before the rebuild is begun anew,
\* and a rebuild with a driver beside it is not said to have gone through.
LEMMA BesideStays ==
    ASSUME TypeInv, [Next]_vars, ~At(Rebuild, "idle")
    PROVE  /\ beside => beside'
           /\ rebuilt' /\ ~rebuilt => ~beside'
PROOF
<1> USE DEF tables
<1>1. ~RebuildStarts
  BY DEF RebuildStarts
<1>2. CASE RebuildEnds
  BY <1>2 DEF RebuildEnds
<1>3. CASE UNCHANGED vars
  BY <1>3 DEF vars
<1>4. ASSUME UNCHANGED <<beside, rebuilt>> \/ (beside' = TRUE /\ rebuilt' = FALSE)
             \/ (beside' = beside /\ rebuilt' = FALSE)
      PROVE  /\ beside => beside'
             /\ rebuilt' /\ ~rebuilt => ~beside'
  BY <1>4
<1>5. ASSUME NEW d \in Driver, DriverStep(d)
      PROVE  UNCHANGED <<beside, rebuilt>> \/ (beside' = TRUE /\ rebuilt' = FALSE)
             \/ (beside' = beside /\ rebuilt' = FALSE)
  BY <1>5 DEF DriverStep, DriverOpens, RegenerateOpens, DriverWrites,
     RegenerateWrites, Patches, Records, Write
<1>6. ASSUME RebuildStep, ~RebuildEnds PROVE UNCHANGED <<beside, rebuilt>>
  BY <1>1, <1>6 DEF RebuildStep, RebuildLooksForSource, RebuildTakes
<1>7. ASSUME NEW p \in Process,
             \/ ReadsEntry(p) \/ HashesEntry(p) \/ UpsertsEntry(p) \/ SetsSource(p)
             \/ SeedLooks(p) \/ Seeds(p) \/ Raises(p) \/ Crash(p)
      PROVE  UNCHANGED <<beside, rebuilt>>
  BY <1>7 DEF ReadsEntry, HashesEntry, UpsertsEntry, SetsSource, SeedLooks, Seeds, Raises, Crash
<1>8. ASSUME NEW e \in Entry, Pull(e) \/ Remove(e) \/ Flip(e)
      PROVE  UNCHANGED <<beside, rebuilt>> \/ (beside' = beside /\ rebuilt' = FALSE)
  BY <1>8 DEF Pull, Remove, Flip, Write
<1> QED BY <1>2, <1>3, <1>4, <1>5, <1>6, <1>7, <1>8 DEF Next

\* A rebuild that is not running starts or is left alone.
LEMMA RebuildAtRest ==
    ASSUME TypeInv, [Next]_vars, At(Rebuild, "idle")
    PROVE  proc'[Rebuild] = proc[Rebuild] \/ RebuildStarts
PROOF
<1>t. TypeOK
  BY DEF TypeInv
<1>r. Rebuild \in Process
  BY DEF Process
<1>1. ASSUME NEW p \in Process, p # Rebuild,
             \/ Stop(p) \/ \E pc : Goto(p, pc)
             \/ \E pc, e, made, read : Becomes(p, pc, e, made, read)
      PROVE  proc'[Rebuild] = proc[Rebuild]
  <2>1. \E h : Moved(p, h)
    BY <1>t, <1>1, BecomesMoves, GotoMoves, StopMoves
  <2> QED BY <1>r, <1>1, <2>1 DEF Moved
<1>2. ASSUME NEW d \in Driver, DriverStep(d)
      PROVE  proc'[Rebuild] = proc[Rebuild]
  <2>1. d \in Process /\ d # Rebuild
    BY IndexAssumption DEF Process
  <2>2. \/ Stop(d) \/ \E pc : Goto(d, pc)
        \/ \E pc, e, made, read : Becomes(d, pc, e, made, read)
    BY <1>2 DEF DriverStep, DriverOpens, RegenerateOpens, DriverWrites,
                RegenerateWrites, Patches, Records
  <2> QED BY <1>1, <2>1, <2>2
<1>3. ASSUME NEW p \in Process,
             \/ ReadsEntry(p) \/ HashesEntry(p) \/ UpsertsEntry(p) \/ SetsSource(p)
             \/ SeedLooks(p) \/ Seeds(p) \/ Raises(p) \/ Crash(p)
      PROVE  proc'[Rebuild] = proc[Rebuild]
  <2>1. p # Rebuild
    BY <1>3
    DEF ReadsEntry, HashesEntry, UpsertsEntry, SetsSource, SeedLooks, Seeds, Raises, Crash, At
  <2>2. \/ Stop(p) \/ \E pc : Goto(p, pc)
        \/ \E pc, e, made, read : Becomes(p, pc, e, made, read)
    BY <1>3 DEF ReadsEntry, HashesEntry, UpsertsEntry, SetsSource, SeedLooks, Seeds, Raises, Crash,
                AfterEntry
  <2> QED BY <1>1, <2>1, <2>2
<1>4. RebuildStep => RebuildStarts
  BY DEF RebuildStep, RebuildLooksForSource, RebuildEnds, RebuildTakes, At
<1>5. ASSUME (\E e \in Entry : Pull(e) \/ Remove(e) \/ Flip(e)) \/ UNCHANGED vars
      PROVE  proc' = proc
  BY <1>5 DEF Pull, Remove, Flip, vars
<1> QED BY <1>2, <1>3, <1>4, <1>5 DEF Next

\* A source is stubbed where there was none, and no driver comes between.
LEMMA SourceStep == TypeInv /\ AloneInv /\ SourceInv /\ [Next]_vars => SourceInv'
PROOF
<1> SUFFICES ASSUME TypeInv, AloneInv, SourceInv, [Next]_vars PROVE SourceInv'
  OBVIOUS
<1> USE DEF tables
<1>t. TypeOK
  BY DEF TypeInv
<1>r. Rebuild \in Process
  BY DEF Process
<1>1. \A e \in Entry : source'[e] = "known" => e \notin Sourceless
  <2>1. CASE source' = source
    BY <2>1 DEF SourceInv
  <2>2. ASSUME NEW p \in Process, SetsSource(p)
        PROVE  \A e \in Entry : source'[e] = "known" => e \notin Sourceless
    BY <2>2, <1>t DEF SetsSource, SourceInv, TypeOK
  <2> QED
    BY <2>1, <2>2 DEF Next, DriverStep, RebuildStep, DriverOpens, RegenerateOpens, DriverWrites,
       RegenerateWrites, Patches, Records, RebuildStarts, RebuildLooksForSource, RebuildEnds,
       RebuildTakes, ReadsEntry, HashesEntry, UpsertsEntry, SeedLooks, Seeds, Raises, Crash,
       Pull, Remove,
       Flip, vars
<1>2. ASSUME alone, At(Rebuild, "source")' PROVE source'[E(Rebuild)'] = "none"
  <2>1. CASE At(Rebuild, "idle")
    <3>1. CASE proc'[Rebuild] = proc[Rebuild]
      BY <1>2, <2>1, <3>1 DEF At
    <3>2. CASE RebuildStarts
      <4>1. Goto(Rebuild, "next")
        BY <3>2 DEF RebuildStarts
      <4> QED BY <1>t, <1>r, <1>2, <4>1, GotoFields DEF At
    <3> QED BY <2>1, <3>1, <3>2, RebuildAtRest
  <2>2. CASE ~At(Rebuild, "idle")
    <3>1. CASE RebuildLooksForSource
      <4>1. Goto(Rebuild, IF source[E(Rebuild)] = "none" THEN "source" ELSE "seed_check")
        BY <3>1 DEF RebuildLooksForSource
      <4>2. /\ proc'[Rebuild].pc = IF source[E(Rebuild)] = "none" THEN "source" ELSE "seed_check"
            /\ proc'[Rebuild].entry = E(Rebuild)
        BY <1>t, <1>r, <4>1, GotoFields
      <4> QED BY <1>2, <3>1, <4>2 DEF RebuildLooksForSource, At, E
    <3>2. CASE proc' = proc /\ source' = source
      BY <1>2, <3>2 DEF SourceInv, At, E
    <3>3. ASSUME \/ Stop(Rebuild)
                 \/ \E pc \in {"seed_check", "seed", "next"} : Goto(Rebuild, pc)
                 \/ \E pc \in {"read", "hash", "upsert", "source_check"} :
                        \E e, made, read : Becomes(Rebuild, pc, e, made, read)
          PROVE  FALSE
      <4>1. proc'[Rebuild].pc # "source"
        <5>1. CASE Stop(Rebuild)
          BY <1>t, <1>r, <5>1, StopFields
        <5>2. ASSUME NEW pc \in {"seed_check", "seed", "next"}, Goto(Rebuild, pc)
              PROVE  proc'[Rebuild].pc = pc
          BY <1>t, <1>r, <5>2, GotoFields
        <5>3. ASSUME NEW pc \in {"read", "hash", "upsert", "source_check"}, NEW e, NEW made,
                     NEW read,
                     Becomes(Rebuild, pc, e, made, read)
              PROVE  proc'[Rebuild].pc = pc
          BY <1>t, <1>r, <5>3, BecomesFields
        <5> QED BY <3>3, <5>1, <5>2, <5>3
      <4> QED BY <1>2, <4>1 DEF At
    <3>4. \/ RebuildLooksForSource
          \/ proc' = proc /\ source' = source
          \/ Stop(Rebuild)
          \/ \E pc \in {"seed_check", "seed", "next"} : Goto(Rebuild, pc)
          \/ \E pc \in {"read", "hash", "upsert", "source_check"} :
                 \E e, made, read : Becomes(Rebuild, pc, e, made, read)
      <4>1. \A d \in Driver : At(d, "idle")
        BY <1>2, <2>2 DEF AloneInv
      <4> QED
        BY <1>2, <2>2, <4>1, RebuildAtWork
        DEF RebuildEnds, RebuildTakes, ReadsEntry, HashesEntry, UpsertsEntry,
           SetsSource, SeedLooks, Seeds, Raises, Crash, AfterEntry, Flip, vars
    <3> QED BY <3>1, <3>2, <3>3, <3>4
  <2> QED BY <2>1, <2>2
<1> QED BY <1>1, <1>2, OneMoves DEF SourceInv

\* The rebuild leaves an entry when it is done with it, and nobody undoes that before it ends.
LEMMA CompletionStep == TypeInv /\ RebuildInv /\ [Next]_vars => RebuildInv'
PROOF
<1> SUFFICES ASSUME TypeInv, RebuildInv, [Next]_vars PROVE RebuildInv'
  OBVIOUS
<1> USE DEF tables
<1>t. TypeOK
  BY DEF TypeInv
<1>r. Rebuild \in Process
  BY DEF Process
\* What is done stays done.
<1>k. ASSUME file' = file, NEW k \in Entry, Done(k), row'[k] = row[k], source'[k] = source[k],
             cls'[k] = cls[k] \/ cls'[k] # <<>>
      PROVE  Done(k)'
  BY <1>k DEF Done, Indexes, Says, Clean
<1>1. CASE At(Rebuild, "idle")
  <2>1. CASE RebuildStarts
    <3>1. /\ Goto(Rebuild, "next") /\ todo' = {e \in Entry : file[e].kind # "absent"}
          /\ rebuilt' = FALSE /\ file' = file
          /\ ~beside' => \A d \in Driver : At(d, "idle")
      BY <2>1 DEF RebuildStarts
    <3>2. proc'[Rebuild].pc = "next" /\ \A q \in Process : q # Rebuild => proc'[q] = proc[q]
      BY <1>t, <1>r, <3>1, GotoFields
    <3>3. \A e \in Entry : e \in todo' \/ Done(e)'
      BY <3>1 DEF Done
    <3>4. ~beside' => \A d \in Driver : At(d, "idle")'
      BY <3>1, <3>2, IndexAssumption DEF At, Process
    <3> QED BY <3>1, <3>2, <3>3, <3>4 DEF RebuildInv, Begun, InHand
  <2>2. CASE proc'[Rebuild] = proc[Rebuild]
    <3>1. At(Rebuild, "idle")'
      BY <1>1, <2>2 DEF At
    <3>2. ASSUME rebuilt' PROVE (\A p \in Process : At(p, "idle")') /\ \A e \in Entry : Done(e)'
      <4>1. (\E e \in Entry : Flip(e)) \/ UNCHANGED vars
        <5>1. rebuilt
          BY <1>1, <3>2 DEF Next, DriverStep, RebuildStep, DriverOpens, RegenerateOpens,
             DriverWrites, RegenerateWrites, Patches, Records, RebuildStarts,
             RebuildLooksForSource, RebuildEnds, RebuildTakes, ReadsEntry, HashesEntry,
             UpsertsEntry,
             SetsSource, SeedLooks, Seeds, Raises, Crash, Pull, Remove, Flip, Write, At, vars
        <5>2. \A p \in Process : proc[p].pc = "idle"
          BY <5>1 DEF RebuildInv, At
        <5>3. \A d \in Driver : d \in Process
          BY DEF Process
        <5>4. \A d \in Driver : ~DriverStep(d)
          BY <3>2, <5>2, <5>3 DEF DriverStep, DriverOpens, RegenerateOpens, DriverWrites,
             RegenerateWrites, Patches, Records, At
        <5>5. ~RebuildStep
          BY <1>r, <3>2, <5>2 DEF RebuildStep, RebuildStarts, RebuildLooksForSource, RebuildEnds,
             RebuildTakes, At
        <5>6. \A p \in Process : ~(\/ ReadsEntry(p) \/ HashesEntry(p) \/ UpsertsEntry(p)
                                   \/ SetsSource(p)
                                 \/ SeedLooks(p) \/ Seeds(p) \/ Raises(p) \/ Crash(p))
          BY <5>2
          DEF ReadsEntry, HashesEntry, UpsertsEntry, SetsSource, SeedLooks, Seeds, Raises, Crash, At
        <5>7. \A e \in Entry : ~Pull(e) /\ ~Remove(e)
          BY <3>2 DEF Pull, Remove, Write
        <5> QED BY <5>4, <5>5, <5>6, <5>7 DEF Next
      <4>2. rebuilt /\ proc' = proc /\ file' = file /\ row' = row /\ source' = source
        BY <3>2, <4>1 DEF Flip, vars
      <4>3. \A e \in Entry : cls'[e] = cls[e] \/ cls'[e] # <<>>
        <5>1. ASSUME NEW e \in Entry, Flip(e), NEW k \in Entry
              PROVE  cls'[k] = cls[k] \/ cls'[k] # <<>>
          <6>1. /\ cls' = [cls EXCEPT ![e] = Append(Retired(cls[e]),
                                                [by |-> "flip", current |-> TRUE])]
                /\ cls[e] \in Seq(Class) /\ cls \in [Entry -> Seq(Class)]
            BY <1>t, <5>1 DEF Flip, TypeOK
          <6>2. Append(Retired(cls[e]), [by |-> "flip", current |-> TRUE]) # <<>>
            BY <6>1, RetiredType DEF Class
          <6> QED BY <5>1, <6>1, <6>2
        <5> QED BY <4>1, <5>1 DEF vars
      <4>4. (\A p \in Process : At(p, "idle")) /\ \A e \in Entry : Done(e)
        BY <4>2 DEF RebuildInv
      <4>5. \A e \in Entry : Done(e)'
        BY <1>k, <4>2, <4>3, <4>4
      <4> QED BY <4>2, <4>4, <4>5 DEF At
    <3> QED BY <3>1, <3>2 DEF RebuildInv
  <2> QED BY <1>1, <2>1, <2>2, RebuildAtRest
<1>3. CASE ~At(Rebuild, "idle") /\ beside'
  <2>1. ~rebuilt'
    BY <1>3, <1>r, BesideStays DEF RebuildInv
  <2> QED BY <1>3, <2>1 DEF RebuildInv
<1>2. CASE ~At(Rebuild, "idle") /\ ~beside'
  <2>n. /\ ~rebuilt /\ ~beside
        /\ \A d \in Driver : At(d, "idle")
        /\ \A e \in Entry : e \in todo \/ InHand(e) \/ Done(e)
        /\ \A e \in Entry : Begun(e)
    BY <1>2, <1>r, BesideStays DEF RebuildInv
  \* Drivers stay away from it.
  <2>w. ASSUME \A q \in Process : q # Rebuild => proc'[q] = proc[q]
        PROVE  \A d \in Driver : At(d, "idle")'
    BY <2>n, <2>w, IndexAssumption DEF At, Process
  \* It goes on with the entry in its hands ...
  <2>h. ASSUME NEW e \in Entry, InHand(e), proc'[Rebuild].pc \notin {"idle", "next"},
               proc'[Rebuild].entry = E(Rebuild), file' = file, todo' = todo, rebuilt' = rebuilt,
               \A q \in Process : q # Rebuild => proc'[q] = proc[q],
               \A k \in Entry : k # e => /\ row'[k] = row[k] /\ source'[k] = source[k]
                                        /\ cls'[k] = cls[k],
               Begun(e)'
        PROVE  RebuildInv'
    <3>1. \A k \in Entry : InHand(k)' <=> k = e
      BY <2>h DEF InHand, E
    <3>2. \A k \in Entry : InHand(k) => k = e
      BY <2>h DEF InHand
    <3>3. \A k \in Entry : k # e /\ Done(k) => Done(k)'
      BY <1>k, <2>h
    <3>4. \A k \in Entry : k \in todo' \/ InHand(k)' \/ Done(k)'
      BY <2>n, <2>h, <3>1, <3>2, <3>3
    <3>5. \A k \in Entry : Begun(k)'
      BY <2>h, <3>1 DEF Begun
    <3> QED BY <2>n, <2>h, <2>w, <3>4, <3>5 DEF RebuildInv
  \* ... or to the next one, having done it.
  <2>d. ASSUME NEW e \in Entry, InHand(e), proc'[Rebuild].pc = "next",
               file' = file, todo' = todo, rebuilt' = rebuilt,
               \A q \in Process : q # Rebuild => proc'[q] = proc[q],
               \A k \in Entry : k # e => /\ row'[k] = row[k] /\ source'[k] = source[k]
                                        /\ cls'[k] = cls[k],
               Done(e)'
        PROVE  RebuildInv'
    <3>1. \A k \in Entry : ~InHand(k)' /\ (InHand(k) => k = e)
      BY <2>d DEF InHand
    <3>2. \A k \in Entry : k # e /\ Done(k) => Done(k)'
      BY <1>k, <2>d
    <3>3. \A k \in Entry : k \in todo' \/ Done(k)'
      BY <2>n, <2>d, <3>1, <3>2
    <3> QED BY <2>n, <2>d, <2>w, <3>1, <3>3 DEF RebuildInv, Begun
  <2>p. ASSUME proc[Rebuild].pc # "next"
        PROVE  E(Rebuild) \in Entry /\ InHand(E(Rebuild)) /\ Begun(E(Rebuild))
    BY <1>2, <1>r, <2>n, <2>p, ProcParts DEF InHand, At
  <2>1. CASE RebuildLooksForSource
    <3>1. InHand(E(Rebuild)) /\ Begun(E(Rebuild)) /\ E(Rebuild) \in Entry
      BY <2>1, <2>p DEF RebuildLooksForSource, At
    <3>2. Goto(Rebuild, IF source[E(Rebuild)] = "none" THEN "source" ELSE "seed_check")
      BY <2>1 DEF RebuildLooksForSource
    <3>3. /\ proc'[Rebuild].pc = IF source[E(Rebuild)] = "none" THEN "source" ELSE "seed_check"
          /\ proc'[Rebuild].entry = E(Rebuild) /\ proc'[Rebuild].made = proc[Rebuild].made
          /\ \A q \in Process : q # Rebuild => proc'[q] = proc[q]
      BY <1>t, <1>r, <3>2, GotoFields
    <3>4. /\ file' = file /\ row' = row /\ source' = source /\ cls' = cls
          /\ todo' = todo /\ rebuilt' = rebuilt
      BY <2>1 DEF RebuildLooksForSource
    <3>5. ASSUME NEW e \in Entry, e = E(Rebuild) PROVE Begun(e)'
      BY <2>1, <3>1, <3>3, <3>4, <3>5
      DEF Begun, Indexes, Says, InHand, Clean, E, RebuildLooksForSource, At, Reading
    <3> QED BY <2>h, <3>1, <3>3, <3>4, <3>5
  <2>2. CASE RebuildEnds
    <3>1. /\ Stop(Rebuild) /\ file' = file /\ row' = row /\ source' = source
          /\ cls' = cls /\ todo = {} /\ proc[Rebuild].pc = "next"
      BY <2>2 DEF RebuildEnds, At
    <3>2. proc'[Rebuild].pc = "idle" /\ \A q \in Process : q # Rebuild => proc'[q] = proc[q]
      BY <1>t, <1>r, <3>1, StopFields
    <3>3. \A p \in Process : At(p, "idle")'
      BY <2>w, <3>2 DEF At, Process
    <3>4. \A e \in Entry : Done(e)'
      BY <1>k, <2>n, <3>1 DEF InHand
    <3> QED BY <3>2, <3>3, <3>4 DEF RebuildInv, Begun, InHand, At
  <2>3. ASSUME NEW e \in Entry, RebuildTakes(e) PROVE RebuildInv'
    <3>1. /\ file' = file /\ row' = row /\ source' = source /\ cls' = cls /\ rebuilt' = rebuilt
          /\ todo' = todo \ {e} /\ proc[Rebuild].pc = "next"
      BY <2>3 DEF RebuildTakes, At
    <3>2. \A k \in Entry : k # e => k \in todo' \/ Done(k)'
      BY <1>k, <2>n, <3>1 DEF InHand
    <3>3. CASE file[e].kind = "invalid"
      <4>1. proc' = proc /\ Done(e)'
        BY <2>3, <3>1, <3>3 DEF RebuildTakes, Done
      <4> QED BY <2>n, <2>w, <3>1, <3>2, <4>1 DEF RebuildInv, Begun, InHand
    <3>4. CASE file[e].kind # "invalid"
      <4>1. file[e].kind = "valid"
        BY <2>3, <3>4 DEF RebuildTakes
      <4>2. Becomes(Rebuild, "read", e, TextOf(file[e]), Nothing)
        BY <2>3, <3>4 DEF RebuildTakes
      <4>3. /\ proc'[Rebuild].pc = "read" /\ proc'[Rebuild].entry = e
            /\ proc'[Rebuild].made.breaking = file[e].breaking
            /\ \A q \in Process : q # Rebuild => proc'[q] = proc[q]
        <5>1. /\ proc'[Rebuild].pc = "read" /\ proc'[Rebuild].entry = e
              /\ proc'[Rebuild].made = TextOf(file[e])
              /\ \A q \in Process : q # Rebuild => proc'[q] = proc[q]
          BY <1>t, <1>r, <4>2, BecomesFields
        <5> QED BY <5>1 DEF TextOf
      <4>4. \A k \in Entry : InHand(k)' <=> k = e
        BY <4>3 DEF InHand, E
      <4>5. \A k \in Entry : Begun(k)'
        BY <3>1, <4>1, <4>3, <4>4 DEF Begun, Reading, At
      <4> QED BY <2>n, <2>w, <3>1, <3>2, <4>3, <4>4, <4>5 DEF RebuildInv
    <3> QED BY <3>3, <3>4
  <2>4. CASE ReadsEntry(Rebuild)
    <3>1. InHand(E(Rebuild)) /\ Begun(E(Rebuild)) /\ E(Rebuild) \in Entry
      BY <2>4, <2>p DEF ReadsEntry, At
    <3>2. Becomes(Rebuild, "hash", E(Rebuild), proc[Rebuild].made,
                  [TextOf(file[E(Rebuild)]) EXCEPT !.version = 0])
      BY <2>4 DEF ReadsEntry
    <3>3. /\ proc'[Rebuild].pc = "hash" /\ proc'[Rebuild].entry = E(Rebuild)
          /\ proc'[Rebuild].made = proc[Rebuild].made
          /\ \A q \in Process : q # Rebuild => proc'[q] = proc[q]
      <4>1. ASSUME NEW t, Becomes(Rebuild, "hash", E(Rebuild), proc[Rebuild].made, t)
            PROVE  /\ proc'[Rebuild].pc = "hash" /\ proc'[Rebuild].entry = E(Rebuild)
                   /\ proc'[Rebuild].made = proc[Rebuild].made
                   /\ \A q \in Process : q # Rebuild => proc'[q] = proc[q]
        BY <1>t, <1>r, <4>1, BecomesFields
      <4> QED BY <3>2, <4>1
    <3>4. /\ file' = file /\ row' = row /\ source' = source /\ cls' = cls
          /\ todo' = todo /\ rebuilt' = rebuilt
      BY <2>4 DEF ReadsEntry
    <3>5. /\ proc'[Rebuild].read.breaking = file[E(Rebuild)].breaking
          /\ proc'[Rebuild].read.msrv = file[E(Rebuild)].msrv
      <4>1. proc'[Rebuild].read = [TextOf(file[E(Rebuild)]) EXCEPT !.version = 0]
        BY <1>t, <1>r, <3>2 DEF Becomes, TypeOK
      <4> QED BY <4>1 DEF TextOf
    <3>6. ASSUME NEW e \in Entry, e = E(Rebuild) PROVE Begun(e)'
      BY <3>1, <3>3, <3>4, <3>5, <3>6 DEF Begun, InHand, E, Reading, At
    <3> QED BY <2>h, <3>1, <3>3, <3>4, <3>6
  <2>12. CASE HashesEntry(Rebuild)
    <3>1. InHand(E(Rebuild)) /\ Begun(E(Rebuild)) /\ E(Rebuild) \in Entry
      BY <2>12, <2>p DEF HashesEntry, At
    <3>2. Becomes(Rebuild, "upsert", E(Rebuild), proc[Rebuild].made,
                  [proc[Rebuild].read EXCEPT !.version = file[E(Rebuild)].version])
      BY <2>12 DEF HashesEntry
    <3>3. /\ proc'[Rebuild].pc = "upsert" /\ proc'[Rebuild].entry = E(Rebuild)
          /\ proc'[Rebuild].made = proc[Rebuild].made
          /\ \A q \in Process : q # Rebuild => proc'[q] = proc[q]
      <4>1. ASSUME NEW t, Becomes(Rebuild, "upsert", E(Rebuild), proc[Rebuild].made, t)
            PROVE  /\ proc'[Rebuild].pc = "upsert" /\ proc'[Rebuild].entry = E(Rebuild)
                   /\ proc'[Rebuild].made = proc[Rebuild].made
                   /\ \A q \in Process : q # Rebuild => proc'[q] = proc[q]
        BY <1>t, <1>r, <4>1, BecomesFields
      <4> QED BY <3>2, <4>1
    <3>4. /\ file' = file /\ row' = row /\ source' = source /\ cls' = cls
          /\ todo' = todo /\ rebuilt' = rebuilt
      BY <2>12 DEF HashesEntry
    <3>5. /\ proc'[Rebuild].read.breaking = proc[Rebuild].read.breaking
          /\ proc'[Rebuild].read.msrv = proc[Rebuild].read.msrv
          /\ proc'[Rebuild].read.version = file[E(Rebuild)].version
      <4>1. proc'[Rebuild].read = [proc[Rebuild].read EXCEPT !.version = file[E(Rebuild)].version]
        BY <1>t, <1>r, <3>2 DEF Becomes, TypeOK
      <4> QED BY <1>r, <4>1, ProcParts DEF Text
    <3>6. ASSUME NEW e \in Entry, e = E(Rebuild) PROVE Begun(e)'
      BY <2>12, <3>1, <3>3, <3>4, <3>5, <3>6 DEF Begun, InHand, E, Reading, At, HashesEntry
    <3> QED BY <2>h, <3>1, <3>3, <3>4, <3>6
  <2>5. CASE UpsertsEntry(Rebuild)
    <3>1. InHand(E(Rebuild)) /\ Begun(E(Rebuild)) /\ E(Rebuild) \in Entry
      BY <2>5, <2>p DEF UpsertsEntry, At
    <3>2. Becomes(Rebuild, "source_check", E(Rebuild), proc[Rebuild].made, Nothing)
      BY <2>5 DEF UpsertsEntry
    <3>3. /\ proc'[Rebuild].pc = "source_check" /\ proc'[Rebuild].entry = E(Rebuild)
          /\ proc'[Rebuild].made = proc[Rebuild].made
          /\ \A q \in Process : q # Rebuild => proc'[q] = proc[q]
      BY <1>t, <1>r, <3>2, BecomesFields
    <3>4. /\ file' = file /\ source' = source /\ cls' = cls
          /\ todo' = todo /\ rebuilt' = rebuilt
          /\ row'[E(Rebuild)] = RowOf(Rebuild)
          /\ \A k \in Entry : k # E(Rebuild) => row'[k] = row[k]
      BY <1>t, <2>5, <3>1 DEF UpsertsEntry, TypeOK
    <3>5. /\ RowOf(Rebuild) # NoRow /\ RowOf(Rebuild).hash = file[E(Rebuild)].version
          /\ RowOf(Rebuild).breaking = file[E(Rebuild)].breaking
          /\ file[E(Rebuild)].msrv \in {NoMsrv, RowOf(Rebuild).msrv}
      BY <1>t, <1>r, <2>5, <3>1, ProcParts, RowOfParts DEF Begun, UpsertsEntry, At
    <3>6. ASSUME NEW e \in Entry, e = E(Rebuild) PROVE Begun(e)'
      BY <3>1, <3>3, <3>4, <3>5, <3>6 DEF Begun, Indexes, Says, InHand, Clean, E, Reading, At
    <3> QED BY <2>h, <3>1, <3>3, <3>4, <3>6
  <2>6. CASE SetsSource(Rebuild)
    <3>1. InHand(E(Rebuild)) /\ Begun(E(Rebuild)) /\ E(Rebuild) \in Entry
      BY <2>6, <2>p DEF SetsSource, At
    <3>2. Goto(Rebuild, "seed_check")
      BY <2>6 DEF SetsSource
    <3>3. /\ proc'[Rebuild].pc = "seed_check" /\ proc'[Rebuild].entry = E(Rebuild)
          /\ proc'[Rebuild].made = proc[Rebuild].made
          /\ \A q \in Process : q # Rebuild => proc'[q] = proc[q]
      BY <1>t, <1>r, <3>2, GotoFields
    <3>4. /\ file' = file /\ row' = row /\ cls' = cls
          /\ todo' = todo /\ rebuilt' = rebuilt
          /\ source'[E(Rebuild)] = "unknown"
          /\ \A k \in Entry : k # E(Rebuild) => source'[k] = source[k]
      BY <1>t, <2>6, <3>1 DEF SetsSource, TypeOK
    <3>5. ASSUME NEW e \in Entry, e = E(Rebuild) PROVE Begun(e)'
      BY <2>6, <3>1, <3>3, <3>4, <3>5
      DEF Begun, Indexes, Says, InHand, Clean, E, Reading, SetsSource, At
    <3> QED BY <2>h, <3>1, <3>3, <3>4, <3>5
  <2>7. CASE SeedLooks(Rebuild)
    <3>1. InHand(E(Rebuild)) /\ Begun(E(Rebuild)) /\ E(Rebuild) \in Entry
      BY <2>7, <2>p DEF SeedLooks, At
    <3>2. /\ file' = file /\ row' = row /\ source' = source /\ cls' = cls
          /\ todo' = todo /\ rebuilt' = rebuilt
      BY <2>7 DEF SeedLooks
    <3>3. CASE proc[Rebuild].made.breaking /\ cls[E(Rebuild)] = <<>>
      <4>1. Goto(Rebuild, "seed")
        BY <2>7, <3>3 DEF SeedLooks
      <4>2. /\ proc'[Rebuild].pc = "seed" /\ proc'[Rebuild].entry = E(Rebuild)
            /\ proc'[Rebuild].made = proc[Rebuild].made
            /\ \A q \in Process : q # Rebuild => proc'[q] = proc[q]
        BY <1>t, <1>r, <4>1, GotoFields
      <4>3. ASSUME NEW e \in Entry, e = E(Rebuild) PROVE Begun(e)'
        BY <2>7, <3>1, <3>2, <4>2, <4>3
        DEF Begun, Indexes, Says, InHand, Clean, E, Reading, SeedLooks, At
      <4> QED BY <2>h, <3>1, <3>2, <4>2, <4>3
    <3>4. CASE ~(proc[Rebuild].made.breaking /\ cls[E(Rebuild)] = <<>>)
      <4>1. Goto(Rebuild, "next")
        BY <2>7, <3>4 DEF SeedLooks, AfterEntry
      <4>2. proc'[Rebuild].pc = "next" /\ \A q \in Process : q # Rebuild => proc'[q] = proc[q]
        BY <1>t, <1>r, <4>1, GotoFields
      <4>3. ASSUME NEW e \in Entry, e = E(Rebuild) PROVE Done(e)'
        BY <2>7, <3>1, <3>2, <3>4, <4>3
        DEF Begun, Done, Indexes, Says, Clean, Reading, SeedLooks, At
      <4> QED BY <2>d, <3>1, <3>2, <4>2, <4>3
    <3> QED BY <3>3, <3>4
  <2>8. CASE Seeds(Rebuild)
    <3>1. InHand(E(Rebuild)) /\ Begun(E(Rebuild)) /\ E(Rebuild) \in Entry
      BY <2>8, <2>p DEF Seeds, At
    <3>2. Goto(Rebuild, "next")
      BY <2>8 DEF Seeds, AfterEntry
    <3>3. proc'[Rebuild].pc = "next" /\ \A q \in Process : q # Rebuild => proc'[q] = proc[q]
      BY <1>t, <1>r, <3>2, GotoFields
    <3>4. /\ file' = file /\ row' = row /\ source' = source
          /\ todo' = todo /\ rebuilt' = rebuilt
          /\ cls'[E(Rebuild)] = Append(cls[E(Rebuild)], [by |-> "seed", current |-> TRUE])
          /\ \A k \in Entry : k # E(Rebuild) => cls'[k] = cls[k]
      BY <1>t, <2>8, <3>1 DEF Seeds, TypeOK
    <3>5. cls'[E(Rebuild)] # <<>>
      <4>1. cls[E(Rebuild)] \in Seq(Class) /\ [by |-> "seed", current |-> TRUE] \in Class
        BY <1>t, <3>1 DEF TypeOK, Class
      <4>2. Append(cls[E(Rebuild)], [by |-> "seed", current |-> TRUE]) # <<>>
        BY <4>1, AppendProperties
      <4> QED BY <3>4, <4>2
    <3>6. ASSUME NEW e \in Entry, e = E(Rebuild) PROVE Done(e)'
      BY <2>8, <3>1, <3>4, <3>5, <3>6 DEF Begun, Done, Indexes, Says, Clean, Reading, Seeds, At
    <3> QED BY <2>d, <3>1, <3>3, <3>4, <3>6
  <2>9. CASE Raises(Rebuild) \/ Crash(Rebuild)
    <3>1. Stop(Rebuild) /\ rebuilt' = rebuilt
      BY <2>9 DEF Raises, Crash
    <3>2. proc'[Rebuild].pc = "idle"
      BY <1>t, <1>r, <3>1, StopFields
    <3> QED BY <2>n, <3>1, <3>2 DEF RebuildInv, Begun, InHand, At
  <2>10. ASSUME NEW e \in Entry, Flip(e) PROVE RebuildInv'
    <3>1. /\ proc' = proc /\ file' = file /\ row' = row /\ source' = source
          /\ todo' = todo /\ rebuilt' = rebuilt
          /\ cls' = [cls EXCEPT ![e] = Append(Retired(cls[e]), [by |-> "flip", current |-> TRUE])]
          /\ cls[e] \in Seq(Class) /\ cls \in [Entry -> Seq(Class)]
      BY <1>t, <2>10 DEF Flip, TypeOK
    <3>2. Append(Retired(cls[e]), [by |-> "flip", current |-> TRUE]) # <<>>
      <4>1. Retired(cls[e]) \in Seq(Class)
        BY <3>1, RetiredType
      <4> QED BY <4>1
    <3>3. \A k \in Entry : cls'[k] = cls[k] \/ cls'[k] # <<>>
      BY <3>1, <3>2
    <3>4. \A k \in Entry : Done(k) => Done(k)'
      BY <1>k, <3>1, <3>3
    <3>5. \A k \in Entry : Begun(k)'
      BY <2>n, <3>1 DEF Begun, Indexes, Says, InHand, Clean, E, At
    <3> QED BY <2>n, <2>w, <3>1, <3>4, <3>5 DEF RebuildInv, InHand, E
  <2>11. CASE UNCHANGED vars
    <3>1. \A e \in Entry : /\ Begun(e)' <=> Begun(e)
                           /\ Done(e)' <=> Done(e)
                           /\ InHand(e)' <=> InHand(e)
      BY <2>11 DEF vars, Begun, Done, Indexes, Says, InHand, Clean, E, At
    <3> QED BY <2>n, <2>w, <2>11, <3>1 DEF RebuildInv, vars
  <2> QED
    BY <1>2, <2>n, <2>1, <2>2, <2>3, <2>4, <2>5, <2>6, <2>7, <2>8, <2>9, <2>10, <2>11,
       <2>12, RebuildAtWork
<1> QED BY <1>1, <1>2, <1>3

----------------------------------------------------------------------------
(* What follows.                                                           *)

\* The invariant holds of every behaviour.
LEMMA Invariant == Spec => []IInv
PROOF
<1>1. Init => IInv
  <2> SUFFICES ASSUME Init PROVE IInv
    OBVIOUS
  <2>1. TypeInv
    BY TypeInit
  <2>2. /\ \A e \in Entry : /\ file[e] = Absent /\ row[e] = NoRow /\ source[e] = "none"
                            /\ cls[e] = <<>> /\ attempts[e] = <<>>
        /\ \A p \in Process : proc[p] = Idle
        /\ writes = 0 /\ ~rebuilt /\ ~beside
    BY DEF Init
  <2>3. /\ \A p \in Process : proc[p].pc = "idle"
        /\ Rebuild \in Process /\ Driver \subseteq Process
    BY <2>2 DEF Idle, Process
  <2>4. OneCurrent
    BY <2>2 DEF OneCurrent
  <2>5. VersionInv
    <3>1. Absent.version = 0 /\ Absent.kind = "absent"
          /\ Idle.made.version = 0 /\ Idle.read.version = 0
      BY DEF Absent, Idle, Nothing
    <3>2. ASSUME NEW e \in Entry
          PROVE  /\ file[e].version = 0 /\ file[e].kind = "absent"
                 /\ row[e] = NoRow /\ DOMAIN attempts[e] = {}
      BY <2>2, <3>1
    <3>3. ASSUME NEW e \in Entry
          PROVE  /\ file[e].version <= writes
                 /\ (file[e].version = 0) <=> (file[e].kind \in {"absent", "torn"})
                 /\ \A i \in DOMAIN attempts[e] : attempts[e][i] <= writes
      BY <2>2, <3>2
    <3>4. FileVersions
      BY <3>2, <3>3, Zenon DEF FileVersions
    <3>5. \A p \in Process : proc[p].made.version <= writes /\ proc[p].read.version <= writes
      BY <2>2, <3>1
    <3> QED BY <3>4, <3>5 DEF VersionInv, HeldVersions
  <2>6. AttemptInv
    BY <2>2, <2>3 DEF AttemptInv, AttemptsStand, Attempting, At, Reading, Indexed
  <2>7. AloneInv
    BY <2>3 DEF AloneInv, At
  <2>8. FreshInv
    BY <2>2, <2>3 DEF FreshInv, RowFresh, ReadFresh, Reading, At
  <2>9. SourceInv
    BY <2>2, <2>3 DEF SourceInv, At
  <2>10. RebuildInv
    BY <2>2, <2>3 DEF RebuildInv, Begun, InHand, At
  <2> QED BY <2>1, <2>4, <2>5, <2>6, <2>7, <2>8, <2>9, <2>10 DEF IInv
<1>2. IInv /\ [Next]_vars => IInv'
  <2>1. TypeInv /\ [Next]_vars => TypeInv'
    BY TypeStep, HeldStep DEF TypeInv
  <2>2. TypeInv /\ VersionInv /\ [Next]_vars => VersionInv'
    BY FileVersionStep, HeldVersionStep DEF VersionInv
  <2> QED BY <2>1, <2>2, OneCurrentStep, AttemptStep, AloneStep, FreshStep, SourceStep,
             CompletionStep DEF IInv
<1> QED BY <1>1, <1>2, PTL DEF Spec

\* The tables, the files and what the processes hold of them have their types.
THEOREM TypeCorrect == Spec => []TypeOK
PROOF
<1>1. IInv => TypeOK
  BY DEF IInv, TypeInv
<1> QED BY <1>1, Invariant, PTL

\* Whoever seeds and flips at the same time, an entry has one current classification.
THEOREM OneCurrentClassification == Spec => []OneCurrent
PROOF
<1>1. IInv => OneCurrent
  BY DEF IInv
<1> QED BY <1>1, Invariant, PTL

\* Whoever overlaps, is killed or raises, no reproduction is recorded twice, and an entry with
\* an attempt has its commit date and a source.
THEOREM RecordedOnce == Spec => []AttemptsStand
PROOF
<1>1. IInv => AttemptsStand
  BY DEF IInv, AttemptInv
<1> QED BY <1>1, Invariant, PTL

\* A rebuild with no driver beside it leaves every valid entry with a row that says what the
\* file says, a source and a classification, whatever crashed or overlapped before it.
THEOREM RebuildCompletes == Spec => []CompleteAfterRebuild
PROOF
<1>1. IInv => CompleteAfterRebuild
  BY DEF IInv, RebuildInv, CompleteAfterRebuild, Done, Indexes
<1> QED BY <1>1, Invariant, PTL

\* While no rebuild has a driver beside it, a row that verify_index finds clean says what the
\* file says, in every column the file has a value for ...
THEOREM CleanIsFresh == Spec => []CleanMeansFresh
PROOF
<1>1. ASSUME IInv PROVE CleanMeansFresh
  <2>1. ASSUME alone, NEW e \in Entry, Clean(e), row[e] # NoRow
        PROVE  Says(e)
    BY <1>1, <2>1 DEF IInv, FreshInv, RowFresh, Clean
  <2> QED BY <2>1 DEF CleanMeansFresh
<1> QED BY <1>1, Invariant, PTL

\* ... and what only the driver knew survives every later indexing.
THEOREM FactsKept == Spec => DriverFactsKept
PROOF
<1> DEFINE Kept ==
        alone => \A e \in Entry :
            /\ source[e] = "known" => source'[e] = "known"
            /\ Dated(row[e]) => Dated(row'[e])
<1>1. IInv /\ [Next]_vars => [Kept]_vars
  <2> SUFFICES ASSUME IInv, [Next]_vars, alone PROVE Kept
    OBVIOUS
  <2> USE DEF tables
  <2>t. TypeInv /\ TypeOK /\ HeldInv /\ SourceInv
    BY DEF IInv, TypeInv
  <2>1. ASSUME NEW p \in Process, SetsSource(p) PROVE Kept
    <3>1. /\ source' = [source EXCEPT ![E(p)] =
                           IF p = Rebuild \/ E(p) \in Sourceless THEN "unknown" ELSE "known"]
          /\ row' = row /\ At(p, "source")
      BY <2>1 DEF SetsSource
    <3>2. p = Rebuild => source[E(p)] = "none"
      BY <2>t, <3>1 DEF SourceInv
    <3>3. \A e \in Entry : source[e] = "known" => e \notin Sourceless
      BY <2>t DEF SourceInv
    <3> QED BY <2>t, <3>1, <3>2, <3>3 DEF TypeOK
  <2>2. ASSUME NEW p \in Process, Patches(p) \/ UpsertsEntry(p) PROVE Kept
    <3>1. source' = source
      BY <2>2 DEF Patches, UpsertsEntry
    <3>2. \A e \in Entry : Dated(row[e]) => Dated(row'[e])
      BY <2>t, RowsStay DEF Dated
    <3> QED BY <3>1, <3>2
  <2>3. \A d \in Driver : d \in Process
    BY DEF Process
  <2>4. CASE source' = source /\ row' = row
    BY <2>4
  <2> QED
    BY <2>1, <2>2, <2>3, <2>4 DEF Next, DriverStep, RebuildStep, DriverOpens, RegenerateOpens,
       DriverWrites, RegenerateWrites, Records, RebuildStarts, RebuildLooksForSource, RebuildEnds,
       RebuildTakes, ReadsEntry, HashesEntry, SeedLooks, Seeds, Raises, Crash, Pull, Remove,
       Flip, vars
<1> QED BY <1>1, Invariant, PTL DEF Spec, DriverFactsKept
=============================================================================
