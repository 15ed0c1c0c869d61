---------------------------- MODULE FatIndexProofs ----------------------------
(***************************************************************************)
(* For every set of processes and tags: the registry of fat images lists   *)
(* no tag twice, however processes overlap; it only grows unless one has   *)
(* read it while another was about to write it; and while processes do not *)
(* overlap, no driver is refused an image another has registered.          *)
(***************************************************************************)
EXTENDS FatIndex, SequenceTheorems, TLAPS

----------------------------------------------------------------------------
(* The inductive invariant.                                                *)

\* What is about to be written lists no tag twice either.
UniqueInv ==
    /\ IsInjective(index)
    /\ IsInjective(committed)
    /\ \A p \in Process : Saving(p) => IsInjective(proc[p].held)

\* One process at a time.
AloneInv == alone => \A p, q \in Process : p # q => At(p, "idle") \/ At(q, "idle")

\* One is about to write the registry at a time, and what it writes is the registry as it is
\* and its own tag.
CrossInv ==
    ~crossed =>
        /\ \A p, q \in Process : Saving(p) /\ Saving(q) => p = q
        /\ \A p \in Process : Saving(p) => proc[p].held = Append(index, T(p))
        /\ relied \subseteq Range(index)
        /\ IsPrefix(committed, index)

\* A driver that builds found a whole registry without its tag, and none changed since.
UnlistedInv ==
    \A p \in Process :
        alone /\ proc[p].op = "drive" /\ proc[p].pc \in {"build", "introspect", "load", "reread"}
        => ~torn /\ T(p) \notin Range(index)

\* A process that does something does it for a tag.
TaggedInv == \A p \in Process : ~At(p, "idle") => T(p) \in Tag

TypeInv == TypeOK /\ TaggedInv

IInv == TypeInv /\ UniqueInv /\ AloneInv /\ CrossInv /\ UnlistedInv

----------------------------------------------------------------------------
(* Sequences.                                                              *)

\* A record put behind a list that does not have it leaves the list without repetitions.
LEMMA AppendFresh ==
    ASSUME NEW S, NEW s \in Seq(S), NEW e \in S, IsInjective(s), e \notin Range(s)
    PROVE  IsInjective(Append(s, e))
PROOF
<1>1. /\ DOMAIN Append(s, e) = 1..(Len(s) + 1)
      /\ DOMAIN s = 1..Len(s)
      /\ \A i \in 1..(Len(s) + 1) : Append(s, e)[i] = IF i = Len(s) + 1 THEN e ELSE s[i]
      /\ Len(s) \in Nat
  OBVIOUS
<1>2. \A i \in 1..Len(s) : s[i] # e
  BY <1>1 DEF Range
<1>3. \A i, j \in 1..Len(s) : s[i] = s[j] => i = j
  BY <1>1 DEF IsInjective
<1>4. ASSUME NEW i \in 1..(Len(s) + 1), NEW j \in 1..(Len(s) + 1),
             Append(s, e)[i] = Append(s, e)[j]
      PROVE  i = j
  <2>1. (i \in 1..Len(s) \/ i = Len(s) + 1) /\ (j \in 1..Len(s) \/ j = Len(s) + 1)
    BY <1>1
  <2> QED BY <1>1, <1>2, <1>3, <1>4, <2>1
<1> QED BY <1>1, <1>4 DEF IsInjective

\* ... and adds the record to its range.
LEMMA AppendRange ==
    ASSUME NEW S, NEW s \in Seq(S), NEW e \in S
    PROVE  Range(Append(s, e)) = Range(s) \cup {e}
PROOF
<1>1. /\ DOMAIN Append(s, e) = 1..(Len(s) + 1)
      /\ DOMAIN s = 1..Len(s)
      /\ \A i \in 1..(Len(s) + 1) : Append(s, e)[i] = IF i = Len(s) + 1 THEN e ELSE s[i]
      /\ Len(s) \in Nat
  OBVIOUS
<1>2. ASSUME NEW x \in Range(Append(s, e)) PROVE x \in Range(s) \cup {e}
  <2>1. PICK i \in 1..(Len(s) + 1) : Append(s, e)[i] = x
    BY <1>1, <1>2 DEF Range
  <2>2. CASE i = Len(s) + 1
    BY <2>1, <2>2, <1>1
  <2>3. CASE i \in 1..Len(s)
    BY <2>1, <2>3, <1>1 DEF Range
  <2> QED BY <1>1, <2>2, <2>3
<1>3. ASSUME NEW x \in Range(s) PROVE x \in Range(Append(s, e))
  <2>1. PICK i \in 1..Len(s) : s[i] = x
    BY <1>1, <1>3 DEF Range
  <2>2. i \in 1..(Len(s) + 1) /\ Append(s, e)[i] = x
    BY <1>1, <2>1
  <2> QED BY <1>1, <2>2 DEF Range
<1>4. e \in Range(Append(s, e))
  <2>1. Len(s) + 1 \in 1..(Len(s) + 1) /\ Append(s, e)[Len(s) + 1] = e
    BY <1>1
  <2> QED BY <1>1, <2>1 DEF Range
<1> QED BY <1>2, <1>3, <1>4

\* Prefixes, element by element.
LEMMA PrefixPointwise ==
    ASSUME NEW S, NEW s \in Seq(S), NEW t \in Seq(S)
    PROVE  IsPrefix(s, t) <=> Len(s) <= Len(t) /\ \A i \in 1..Len(s) : s[i] = t[i]
PROOF
<1>1. CASE Len(s) <= Len(t)
  <2>1. /\ SubSeq(s, 1, Len(s)) = [i \in 1..Len(s) |-> s[i]]
        /\ SubSeq(t, 1, Len(s)) = [i \in 1..Len(s) |-> t[i]]
    BY <1>1, SubSeqProperties
  <2> QED BY <1>1, <2>1 DEF IsPrefix
<1>2. CASE ~(Len(s) <= Len(t))
  BY <1>2 DEF IsPrefix
<1> QED BY <1>1, <1>2

\* A sequence is a prefix of what comes of it by appending.
LEMMA PrefixAppend ==
    ASSUME NEW S, NEW s \in Seq(S), NEW t \in Seq(S), NEW e \in S, IsPrefix(s, t)
    PROVE  IsPrefix(s, Append(t, e))
PROOF
<1>1. /\ Append(t, e) \in Seq(S) /\ Len(Append(t, e)) = Len(t) + 1
      /\ \A i \in 1..Len(t) : Append(t, e)[i] = t[i]
      /\ Len(s) \in Nat /\ Len(t) \in Nat
  OBVIOUS
<1>2. Len(s) <= Len(t) /\ \A i \in 1..Len(s) : s[i] = t[i]
  BY PrefixPointwise
<1>3. Len(s) <= Len(Append(t, e)) /\ \A i \in 1..Len(s) : s[i] = Append(t, e)[i]
  BY <1>1, <1>2
<1> QED BY <1>1, <1>3, PrefixPointwise

\* ... and of itself.
LEMMA PrefixSelf ==
    ASSUME NEW S, NEW s \in Seq(S)
    PROVE  IsPrefix(s, s)
PROOF BY DEF IsPrefix

----------------------------------------------------------------------------
(* Type correctness.                                                       *)

\* Before the first command the variables have their types, and no process has a tag.
LEMMA TypeInit == Init => TypeInv
PROOF
<1> SUFFICES ASSUME Init PROVE TypeInv
  OBVIOUS
<1>1. Idle \in Proc
  BY DEF Idle, Proc, PC, Op
<1>2. TypeOK
  <2>1. proc \in [Process -> Proc]
    BY <1>1 DEF Init
  <2>2. <<>> \in Seq(Tag)
    OBVIOUS
  <2>3. index \in Seq(Tag) /\ committed \in Seq(Tag)
    BY <2>2 DEF Init
  <2>4. torn \in BOOLEAN /\ alone \in Alone /\ store \in SUBSET Tag /\ relied \in SUBSET Tag
    BY DEF Init
  <2>5. ops \in 0..MaxOps /\ kills \in 0..MaxKills
    BY FatIndexAssumption, SMT DEF Init
  <2>6. crossed \in BOOLEAN
    BY DEF Init
  <2> QED BY <2>1, <2>3, <2>4, <2>5, <2>6 DEF TypeOK
<1>3. TaggedInv
  BY DEF Init, Idle, TaggedInv, At
<1> QED BY <1>2, <1>3 DEF TypeInv

\* What a process becomes has its type.
LEMMA BecomesType ==
    ASSUME TypeInv, NEW p \in Process, NEW pc \in PC, NEW op \in Op, NEW t \in Tag,
           NEW held \in Seq(Tag), Becomes(p, pc, op, t, held)
    PROVE  proc' \in [Process -> Proc] /\ TaggedInv'
PROOF
<1>1. [pc |-> pc, op |-> op, tag |-> t, held |-> held] \in Proc
  BY DEF Proc
<1> QED BY <1>1 DEF Becomes, TypeInv, TypeOK, TaggedInv, At, T

\* The parts of a process have their types.
LEMMA ProcParts ==
    ASSUME TypeInv, NEW p \in Process
    PROVE  /\ proc[p].pc \in PC /\ proc[p].op \in Op /\ proc[p].held \in Seq(Tag)
           /\ ~At(p, "idle") => T(p) \in Tag
PROOF BY DEF TypeInv, TypeOK, TaggedInv, Proc, T

\* So has a process that ends.
LEMMA ExitType ==
    ASSUME TypeInv, NEW p \in Process, Exit(p)
    PROVE  proc' \in [Process -> Proc] /\ TaggedInv'
PROOF
<1>1. Idle \in Proc
  BY DEF Idle, Proc, PC, Op
<1> QED BY <1>1 DEF Exit, Idle, TypeInv, TypeOK, TaggedInv, At, T

\* ... and one that goes on.
LEMMA HoldType ==
    ASSUME TypeInv, NEW p \in Process, ~At(p, "idle"), NEW pc \in PC, NEW held \in Seq(Tag),
           Hold(p, pc, held)
    PROVE  proc' \in [Process -> Proc] /\ TaggedInv'
PROOF BY BecomesType, ProcParts DEF Hold

\* Every step keeps the types.
LEMMA TypeStep == TypeInv /\ [Next]_vars => TypeInv'
PROOF
<1> SUFFICES ASSUME TypeInv, [Next]_vars PROVE TypeInv'
  OBVIOUS
<1> USE DEF bounds, Goto, PC
<1>1. ASSUME NEW p \in Process, Step(p) PROVE TypeInv'
  <2>1. ~At(p, "idle") /\ T(p) \in Tag /\ proc[p].held \in Seq(Tag)
    BY <1>1, ProcParts DEF Step, Lookup, Build, Introspect, Load, Reread, Open, Write, Fails,
                           Kill, At
  <2>2. WithRecord(Loaded, T(p)) \in Seq(Tag)
    BY <2>1 DEF WithRecord, Loaded, TypeInv, TypeOK
  <2>3. proc' \in [Process -> Proc] /\ TaggedInv'
    <3>1. \/ Exit(p)
          \/ \E pc \in PC, held \in Seq(Tag) : Hold(p, pc, held)
      BY <1>1, <2>1, <2>2 DEF Step, Lookup, Build, Introspect, Load, Reread, Open, Write, Fails,
                              Kill
    <3> QED BY <2>1, <3>1, ExitType, HoldType
  <2>4. /\ index' \in Seq(Tag) /\ committed' \in Seq(Tag) /\ torn' \in BOOLEAN
        /\ alone' \in Alone /\ crossed' \in BOOLEAN
        /\ store' \in SUBSET Tag /\ relied' \in SUBSET Tag
        /\ ops' \in 0..MaxOps /\ kills' \in 0..MaxKills
    <3>1. /\ committed' = committed /\ alone' = alone /\ ops' = ops
          /\ crossed' = crossed \/ crossed' = (crossed \/ \E q \in Process : Saving(q))
          /\ index' = index \/ index' = proc[p].held
          /\ torn' = torn \/ torn' = TRUE \/ torn' = FALSE
          /\ store' = store \/ store' = store \cup {T(p)}
          /\ relied' = relied \/ relied' = relied \cup {T(p)}
          /\ kills' = kills \/ (kills < MaxKills /\ kills' = kills + 1)
      <4>1. CASE Lookup(p) \/ Build(p) \/ Introspect(p)
        BY <4>1 DEF Lookup, Build, Introspect
      <4>2. CASE Load(p) \/ Reread(p) \/ Open(p)
        BY <4>2 DEF Load, Reread, Open
      <4>3. CASE Write(p) \/ Fails(p) \/ Kill(p)
        BY <4>3 DEF Write, Fails, Kill
      <4> QED BY <1>1, <4>1, <4>2, <4>3 DEF Step
    <3>2. kills' \in 0..MaxKills /\ ops' \in 0..MaxOps
      BY <3>1, FatIndexAssumption DEF TypeInv, TypeOK
    <3>3. index' \in Seq(Tag) /\ store' \in SUBSET Tag /\ relied' \in SUBSET Tag
      BY <2>1, <3>1 DEF TypeInv, TypeOK
    <3>4. committed' \in Seq(Tag) /\ torn' \in BOOLEAN /\ alone' \in Alone /\ crossed' \in BOOLEAN
      BY <3>1 DEF TypeInv, TypeOK
    <3> QED BY <3>2, <3>3, <3>4
  <2> QED BY <2>3, <2>4 DEF TypeInv, TypeOK
<1>2. ASSUME NEW p \in Process, NEW op \in Op, NEW t \in Tag, Begin(p, op, t) PROVE TypeInv'
  <2>1. FirstStep(op) \in PC /\ <<>> \in Seq(Tag)
    BY DEF FirstStep
  <2>2. proc' \in [Process -> Proc] /\ TaggedInv'
    BY <1>2, <2>1, BecomesType DEF Begin
  <2> QED BY <1>2, <2>2, FatIndexAssumption DEF Begin, TypeInv, TypeOK
<1>3. CASE \E t \in Tag : StoreChanges(t)
  BY <1>3 DEF StoreChanges, TypeInv, TypeOK, TaggedInv, At, T
<1>4. CASE GitCommit
  BY <1>4 DEF GitCommit, TypeInv, TypeOK, TaggedInv, At, T
<1>5. CASE GitRestore
  BY <1>5 DEF GitRestore, TypeInv, TypeOK, TaggedInv, At, T
<1>6. CASE UNCHANGED vars
  BY <1>6 DEF vars, TypeInv, TypeOK, TaggedInv, At, T
<1> QED BY <1>1, <1>2, <1>3, <1>4, <1>5, <1>6 DEF Next

----------------------------------------------------------------------------
(* What a step does to the processes.                                      *)

\* A process that goes on keeps its tag and its operation; the others are left alone.
LEMMA Held ==
    ASSUME TypeInv, NEW p \in Process, NEW pc, NEW held, Hold(p, pc, held)
    PROVE  /\ proc'[p].pc = pc /\ proc'[p].held = held
           /\ proc'[p].op = proc[p].op /\ proc'[p].tag = proc[p].tag
           /\ \A q \in Process : q # p => proc'[q] = proc[q]
PROOF BY DEF Hold, Becomes, T, TypeInv, TypeOK

\* A process that ends is idle; the others are left alone.
LEMMA Ended ==
    ASSUME TypeInv, NEW p \in Process, Exit(p)
    PROVE  proc'[p].pc = "idle" /\ \A q \in Process : q # p => proc'[q] = proc[q]
PROOF BY DEF Exit, Idle, TypeInv, TypeOK

\* A step is taken by a process that is not idle, and changes no other.
LEMMA StepOfOne ==
    ASSUME TypeInv, NEW p \in Process, Step(p)
    PROVE  /\ ~At(p, "idle") /\ alone' = alone /\ committed' = committed
           /\ ~crossed' => /\ ~crossed
                           /\ Load(p) => \A q \in Process : ~Saving(q)
           /\ \A q \in Process : q # p => proc'[q] = proc[q]
PROOF
<1>1. ~At(p, "idle") /\ alone' = alone /\ committed' = committed
  BY DEF Step, Lookup, Build, Introspect, Load, Reread, Open, Write, Fails, Kill, At
<1>2. Exit(p) \/ \E pc, held : Hold(p, pc, held)
  BY DEF Step, Lookup, Build, Introspect, Load, Reread, Open, Write, Fails, Kill, Goto
<1>3. ~crossed' => ~crossed /\ (Load(p) => \A q \in Process : ~Saving(q))
  <2>1. CASE Load(p)
    BY <2>1 DEF Load
  <2>2. CASE ~Load(p)
    BY <2>2 DEF Step, Lookup, Build, Introspect, Reread, Open, Write, Fails, Kill
  <2> QED BY <2>1, <2>2
<1> QED BY <1>1, <1>2, <1>3, Held, Ended

\* The registry changes in Write alone. Behind every other step a process that is about to
\* write has just read, or was about to write before.
LEMMA StepIndex ==
    ASSUME TypeInv, NEW p \in Process, Step(p)
    PROVE  \/ Write(p)
           \/ /\ index' = index
              /\ ~Saving(p)'
           \/ /\ index' = index /\ torn' = torn /\ relied' = relied
              /\ ~torn /\ T(p) \in Tag /\ T(p) \notin Range(index)
              /\ proc'[p].held = Append(index, T(p)) /\ T(p)' = T(p)
              /\ Load(p) /\ At(p, "load") /\ proc'[p].op = proc[p].op
           \/ /\ index' = index /\ relied' = relied
              /\ Saving(p) /\ proc'[p].held = proc[p].held /\ T(p)' = T(p)
              /\ proc'[p].pc \notin {"build", "introspect", "load", "reread"}
PROOF
<1> USE DEF Goto, T
<1>1. CASE Lookup(p) \/ Build(p) \/ Introspect(p)
  <2>1. Exit(p) \/ Hold(p, "build", proc[p].held) \/ Hold(p, "introspect", proc[p].held)
        \/ Hold(p, "load", proc[p].held)
    BY <1>1 DEF Lookup, Build, Introspect
  <2>2. ~Saving(p)'
    BY <2>1, Held, Ended DEF Saving
  <2> QED BY <1>1, <2>2 DEF Lookup, Build, Introspect
<1>2. CASE Load(p)
  <2>1. T(p) \in Tag
    BY <1>2, ProcParts DEF Load, At
  <2>2. WithRecord(Loaded, T(p)) = Append(index, T(p)) /\ T(p) \notin Range(index)
    BY <1>2 DEF Load, Readable, WithRecord, Loaded, Collides
  <2>3. /\ index' = index /\ torn' = torn /\ relied' = relied
        /\ ~torn /\ At(p, "load")
        /\ Hold(p, "reread", Append(index, T(p)))
    BY <1>2, <2>2 DEF Load, Readable
  <2>4. proc'[p].held = Append(index, T(p)) /\ T(p)' = T(p) /\ proc'[p].op = proc[p].op
    BY <2>3 DEF Hold, Becomes, TypeInv, TypeOK
  <2> QED BY <1>2, <2>1, <2>2, <2>3, <2>4
<1>3. CASE Reread(p)
  BY <1>3, Held DEF Reread, Saving, At
<1>4. CASE Open(p)
  BY <1>4, Held DEF Open, Saving, At
<1>5. CASE Fails(p) \/ Kill(p)
  BY <1>5, Ended DEF Fails, Kill, Saving
<1> QED BY <1>1, <1>2, <1>3, <1>4, <1>5 DEF Step

----------------------------------------------------------------------------
(* Every step keeps the rest of the invariant.                             *)

\* No list, on disk or about to be, gets a repetition.
LEMMA UniqueStep == TypeInv /\ UniqueInv /\ [Next]_vars => UniqueInv'
PROOF
<1> SUFFICES ASSUME TypeInv, UniqueInv, [Next]_vars PROVE UniqueInv'
  OBVIOUS
<1>1. ASSUME NEW p \in Process, Step(p) PROVE UniqueInv'
  <2>1. \A q \in Process : q # p => (Saving(q)' <=> Saving(q)) /\ proc'[q] = proc[q]
    BY <1>1, StepOfOne DEF Saving
  <2>2. IsInjective(committed')
    BY <1>1, StepOfOne DEF UniqueInv
  <2>3. CASE Write(p)
    <3>1. IsInjective(index') /\ ~Saving(p)'
      BY <2>3, Ended DEF Write, Saving, At, UniqueInv
    <3> QED BY <2>1, <2>2, <3>1 DEF UniqueInv
  <2>4. CASE ~Write(p)
    <3>1. IsInjective(index')
      BY <1>1, <2>4, StepIndex DEF UniqueInv
    <3>2. Saving(p)' => IsInjective(proc'[p].held)
      <4>1. ASSUME T(p) \in Tag, T(p) \notin Range(index)
            PROVE  IsInjective(Append(index, T(p)))
        BY <4>1, AppendFresh DEF TypeInv, TypeOK, UniqueInv
      <4> QED BY <1>1, <2>4, <4>1, StepIndex DEF UniqueInv
    <3> QED BY <2>1, <2>2, <3>1, <3>2 DEF UniqueInv
  <2> QED BY <2>3, <2>4
<1>2. ASSUME NEW p \in Process, NEW op \in Op, NEW t \in Tag, Begin(p, op, t) PROVE UniqueInv'
  <2>1. ~Saving(p)'
    BY <1>2 DEF Begin, Becomes, FirstStep, Saving, TypeInv, TypeOK
  <2>2. \A q \in Process : q # p => (Saving(q)' <=> Saving(q)) /\ proc'[q] = proc[q]
    BY <1>2 DEF Begin, Becomes, Saving, TypeInv, TypeOK
  <2> QED BY <1>2, <2>1, <2>2 DEF Begin, UniqueInv
<1>3. CASE \E t \in Tag : StoreChanges(t)
  BY <1>3 DEF StoreChanges, UniqueInv, Saving
<1>4. CASE GitCommit \/ GitRestore
  BY <1>4 DEF GitCommit, GitRestore, UniqueInv, Saving
<1>5. CASE UNCHANGED vars
  BY <1>5 DEF vars, UniqueInv, Saving
<1> QED BY <1>1, <1>2, <1>3, <1>4, <1>5 DEF Next

\* No process begins while another is at work, if they are not to overlap.
LEMMA AloneStep == TypeInv /\ AloneInv /\ [Next]_vars => AloneInv'
PROOF
<1> SUFFICES ASSUME TypeInv, AloneInv, [Next]_vars, alone' PROVE AloneInv'
  BY DEF AloneInv
<1>1. ASSUME NEW p \in Process, Step(p) PROVE AloneInv'
  BY <1>1, StepOfOne DEF AloneInv, At
<1>2. ASSUME NEW p \in Process, NEW op \in Op, NEW t \in Tag, Begin(p, op, t) PROVE AloneInv'
  <2>1. \A q \in Process : q # p => At(q, "idle")'
    BY <1>2 DEF Begin, Becomes, AllQuiet, At, TypeInv, TypeOK
  <2> QED BY <2>1 DEF AloneInv
<1>3. CASE (\E t \in Tag : StoreChanges(t)) \/ GitCommit \/ GitRestore \/ UNCHANGED vars
  BY <1>3 DEF StoreChanges, GitCommit, GitRestore, vars, AloneInv, At
<1> QED BY <1>1, <1>2, <1>3 DEF Next

\* Where one saves at a time, what it writes is what there is and one more, whoever else looks,
\* builds, fails or is killed in the meantime.
LEMMA CrossStep == TypeInv /\ CrossInv /\ [Next]_vars => CrossInv'
PROOF
<1> SUFFICES ASSUME TypeInv, CrossInv, [Next]_vars, ~crossed' PROVE CrossInv'
  BY DEF CrossInv
<1>1. ASSUME NEW p \in Process, Step(p) PROVE CrossInv'
  <2>1. /\ ~crossed /\ (Load(p) => \A q \in Process : ~Saving(q))
        /\ \A q \in Process : q # p => proc'[q] = proc[q]
    BY <1>1, StepOfOne
  <2>2. \A q \in Process : q # p => (Saving(q)' <=> Saving(q)) /\ T(q)' = T(q)
    BY <2>1 DEF Saving, T
  <2>3. committed' = committed /\ committed \in Seq(Tag) /\ index \in Seq(Tag)
    BY <1>1, StepOfOne DEF TypeInv, TypeOK
  <2>4. CASE Write(p)
    <3>1. T(p) \in Tag /\ Saving(p) /\ ~Saving(p)'
      BY <2>4, ProcParts, Ended DEF Write, At, Saving
    <3>2. index' = Append(index, T(p)) /\ relied' = relied \cup {T(p)}
      BY <2>1, <2>4, <3>1 DEF Write, CrossInv
    <3>3. relied' \subseteq Range(index') /\ IsPrefix(committed', index')
      BY <2>1, <2>3, <3>1, <3>2, AppendRange, PrefixAppend DEF CrossInv
    <3>4. \A q \in Process : ~Saving(q)'
      BY <2>1, <2>2, <3>1 DEF CrossInv
    <3> QED BY <3>3, <3>4 DEF CrossInv
  <2>5. CASE ~Write(p)
    <3>1. index' = index
      BY <1>1, <2>5, StepIndex
    <3>2. Saving(p)' => proc'[p].held = Append(index', T(p)')
      BY <1>1, <2>1, <2>5, StepIndex DEF CrossInv
    <3>3. \A q \in Process : q # p /\ Saving(q)' => ~Saving(p)'
      <4>1. ASSUME NEW q \in Process, q # p, Saving(q)', Saving(p)' PROVE FALSE
        <5>1. Saving(q) /\ ~Saving(p)
          BY <2>1, <2>2, <4>1 DEF CrossInv
        <5>2. Load(p)
          BY <1>1, <2>5, <4>1, <5>1, StepIndex
        <5> QED BY <2>1, <5>1, <5>2
      <4> QED BY <4>1
    <3>4. relied' \subseteq Range(index')
      <4>1. relied' = relied \/ (Listed(p) /\ relied' = relied \cup {T(p)})
        BY <1>1, <2>5 DEF Step, Lookup, Build, Introspect, Load, Reread, Open, Fails, Kill
      <4> QED BY <2>1, <3>1, <4>1 DEF CrossInv, Listed
    <3>5. \A q, r \in Process : Saving(q)' /\ Saving(r)' => q = r
      BY <2>1, <2>2, <3>3 DEF CrossInv
    <3>6. \A q \in Process : Saving(q)' => proc'[q].held = Append(index', T(q)')
      BY <2>1, <2>2, <3>1, <3>2 DEF CrossInv
    <3> QED BY <2>1, <2>3, <3>1, <3>4, <3>5, <3>6 DEF CrossInv
  <2> QED BY <2>4, <2>5
<1>2. ASSUME NEW p \in Process, NEW op \in Op, NEW t \in Tag, Begin(p, op, t) PROVE CrossInv'
  <2>1. ~Saving(p)'
    BY <1>2 DEF Begin, Becomes, FirstStep, Saving, TypeInv, TypeOK
  <2>2. \A q \in Process : q # p => (Saving(q)' <=> Saving(q)) /\ proc'[q] = proc[q]
    BY <1>2 DEF Begin, Becomes, Saving, TypeInv, TypeOK
  <2> QED BY <1>2, <2>1, <2>2 DEF Begin, CrossInv, T
<1>3. CASE \E t \in Tag : StoreChanges(t)
  BY <1>3 DEF StoreChanges, CrossInv, Saving, T
<1>4. CASE GitCommit
  BY <1>4, PrefixSelf DEF GitCommit, CrossInv, Saving, T, TypeInv, TypeOK
<1>5. CASE GitRestore
  <2>1. \A q \in Process : ~Saving(q)'
    BY <1>5 DEF GitRestore, AllQuiet, At, Saving
  <2>2. IsPrefix(committed', index') /\ relied' \subseteq Range(index')
    BY <1>5, PrefixSelf DEF GitRestore, TypeInv, TypeOK
  <2> QED BY <2>1, <2>2 DEF CrossInv
<1>6. CASE UNCHANGED vars
  BY <1>6 DEF vars, CrossInv, Saving, T
<1> QED BY <1>1, <1>2, <1>3, <1>4, <1>5, <1>6 DEF Next

\* Without overlap, what a building driver has seen of the registry still holds.
LEMMA UnlistedStep == TypeInv /\ AloneInv /\ UnlistedInv /\ [Next]_vars => UnlistedInv'
PROOF
<1> DEFINE Building(p) == /\ proc[p].op = "drive"
                          /\ proc[p].pc \in {"build", "introspect", "load", "reread"}
<1> SUFFICES ASSUME TypeInv, AloneInv, UnlistedInv, [Next]_vars, alone',
                    NEW d \in Process, Building(d)'
             PROVE  ~torn' /\ T(d)' \notin Range(index')
  BY DEF UnlistedInv
<1>1. ASSUME NEW p \in Process, Step(p) PROVE ~torn' /\ T(d)' \notin Range(index')
  <2>1. /\ alone
        /\ \A q \in Process : q # p => At(q, "idle") /\ proc'[q] = proc[q]
    BY <1>1, StepOfOne DEF AloneInv
  <2>2. d = p
    BY <2>1 DEF At
  <2>3. CASE Lookup(p)
    BY <2>2, <2>3, Held, Ended DEF Lookup, Goto, Readable, Listed, T
  <2>4. CASE Build(p) \/ Introspect(p)
    <3>1. Building(p) /\ T(p)' = T(p)
      BY <2>2, <2>4, Held, Ended DEF Build, Introspect, Goto, At, T
    <3> QED BY <2>1, <2>2, <2>4, <3>1 DEF UnlistedInv, Build, Introspect
  <2>5. CASE ~(Lookup(p) \/ Build(p) \/ Introspect(p))
    <3>1. CASE Load(p)
      BY <2>2, <3>1, <1>1, Held DEF Load, Readable, Collides, Loaded, T
    <3>2. CASE ~Load(p)
      <4>1. proc'[p].pc \notin {"build", "introspect", "load", "reread"}
        <5>1. CASE Reread(p) \/ Open(p)
          <6>1. Hold(p, "open", proc[p].held) \/ Hold(p, "write", proc[p].held)
            BY <5>1 DEF Reread, Open, Goto
          <6>2. proc'[p].pc = "open" \/ proc'[p].pc = "write"
            BY <6>1, Held
          <6> QED BY <6>2
        <5>2. CASE Write(p) \/ Fails(p) \/ Kill(p)
          BY <5>2, Ended DEF Write, Fails, Kill
        <5> QED BY <1>1, <2>5, <3>2, <5>1, <5>2 DEF Step
      <4> QED BY <2>2, <4>1
    <3> QED BY <3>1, <3>2
  <2> QED BY <2>3, <2>4, <2>5
<1>2. ASSUME NEW p \in Process, NEW op \in Op, NEW t \in Tag, Begin(p, op, t) PROVE FALSE
  <2>1. \A q \in Process : proc[q].pc = "idle"
    BY <1>2 DEF Begin, AllQuiet, At
  <2>2. d = p
    BY <1>2, <2>1 DEF Begin, Becomes, TypeInv, TypeOK
  <2>3. proc'[p].op = op /\ proc'[p].pc = FirstStep(op)
    BY <1>2 DEF Begin, Becomes, TypeInv, TypeOK
  <2> QED BY <2>2, <2>3 DEF FirstStep
<1>3. CASE \E t \in Tag : StoreChanges(t)
  BY <1>3 DEF StoreChanges, UnlistedInv, T
<1>4. CASE GitCommit
  BY <1>4 DEF GitCommit, UnlistedInv, T
<1>5. CASE GitRestore
  BY <1>5 DEF GitRestore, AllQuiet, At
<1>6. CASE UNCHANGED vars
  BY <1>6 DEF vars, UnlistedInv, T
<1> QED BY <1>1, <1>2, <1>3, <1>4, <1>5, <1>6 DEF Next

----------------------------------------------------------------------------
(* What follows.                                                           *)

\* The invariant holds of every behaviour.
LEMMA Invariant == Spec => []IInv
PROOF
<1>1. Init => IInv
  <2> SUFFICES ASSUME Init PROVE IInv
    OBVIOUS
  <2>1. TypeInv
    BY TypeInit
  <2>2. /\ index = <<>> /\ committed = <<>> /\ relied = {}
        /\ \A p \in Process : proc[p].pc = "idle"
    BY DEF Init, Idle
  <2>3. UniqueInv
    BY <2>2 DEF UniqueInv, Saving, IsInjective
  <2>4. AloneInv /\ CrossInv
    <3>1. <<>> \in Seq(Tag)
      OBVIOUS
    <3> QED BY <2>2, <3>1, PrefixSelf DEF AloneInv, CrossInv, At, Saving
  <2>5. UnlistedInv
    BY <2>2 DEF UnlistedInv
  <2> QED BY <2>1, <2>3, <2>4, <2>5 DEF IInv
<1>2. IInv /\ [Next]_vars => IInv'
  BY TypeStep, UniqueStep, AloneStep, CrossStep, UnlistedStep DEF IInv
<1> QED BY <1>1, <1>2, PTL DEF Spec

\* The registry and what the commands keep in memory have their types.
THEOREM TypeCorrect == Spec => []TypeOK
PROOF
<1>1. IInv => TypeOK
  BY DEF IInv, TypeInv
<1> QED BY <1>1, Invariant, PTL

\* However the commands overlap, and wherever they are killed, index.json never lists a tag
\* twice: register compares with the list it writes back, not with the file as it then is.
THEOREM NeverListedTwice == Spec => []NoDuplicateTag
PROOF
<1>1. IInv => NoDuplicateTag
  BY DEF IInv, UniqueInv, NoDuplicateTag
<1> QED BY <1>1, Invariant, PTL

\* What a command reported as registered, or a driver went on with, stays listed, unless two
\* commands were between load_index and the end of save_index at once.
THEOREM RegistryOnlyGrows == Spec => []AppendOnlyUncrossed
PROOF
<1>1. IInv => AppendOnlyUncrossed
  BY DEF IInv, CrossInv, AppendOnlyUncrossed, AppendOnly
<1> QED BY <1>1, Invariant, PTL

\* ... and what is committed of the registry is only ever added to.
THEOREM CommitsOnlyAdd == Spec => CommittedGrows
PROOF
<1>1. IInv /\ [Next]_vars => [~crossed => IsPrefix(committed, committed')]_committed
  <2> SUFFICES ASSUME IInv, [Next]_vars, ~crossed, committed' # committed
               PROVE  IsPrefix(committed, committed')
    OBVIOUS
  <2>1. GitCommit
    BY StepOfOne DEF IInv, Next, Begin, StoreChanges, GitRestore, vars
  <2> QED BY <2>1 DEF GitCommit, IInv, CrossInv
<1> QED BY <1>1, Invariant, PTL DEF Spec, CommittedGrows

\* While commands do not overlap, a driver gives a candidate up for its image only if the image
\* is not listed.
THEOREM NoRefusalOfAListedImage == Spec => GivenUpIsUnlisted
PROOF
<1> DEFINE Refuses == \A p \in Process : alone /\ Fails(p) /\ proc[p].op = "drive"
                          => ~torn /\ T(p) \notin Range(index)
<1>1. IInv /\ [Next]_vars => [Refuses]_vars
  BY DEF IInv, UnlistedInv, Fails, At
<1> QED BY <1>1, Invariant, PTL DEF Spec, GivenUpIsUnlisted
=============================================================================
