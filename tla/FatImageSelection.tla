-------------------------- MODULE FatImageSelection --------------------------
(***************************************************************************)
(* Which fat image a candidate is reproduced in: the milestone, the Debian *)
(* era and the snapshot date (fat_image.py:57-367, cargo_toolchain.py:     *)
(* 183-208), as the planner (cargo_plan_fat_images.py) and the driver      *)
(* (cargo_drive.py:65-87, 366-391, 448-478) compute it, each from what it  *)
(* knows of the candidate, with Docker Hub's publication dates behind a    *)
(* cache of 24 hours.  Versions 1.x.y are written 100 * x + y and dates    *)
(* yyyymmdd.                                                               *)
(***************************************************************************)
EXTENDS Naturals, FiniteSetsExt

CONSTANTS
    Msrv,        \* versions that candidates declare
    Undeclared,  \* no toolchain file and no rust-version says anything
    NotSemver,   \* a channel such as nightly-2021-03-01
    Dates,       \* commit dates
    Published,   \* dates Docker Hub may give for a base image
    NoAnswer,    \* Docker Hub is unreachable or does not know the tag
    None,        \* no milestone, no bucket, no tag yet
    MaxSdeDate,  \* --max-sde-date
    MaxMoves     \* bound: changes on Docker Hub and expiries of the cache

ASSUME SelectionAssumption ==
    /\ Msrv \subseteq Nat /\ Dates \subseteq Nat /\ Published \subseteq Nat
    /\ Msrv # {} /\ Dates # {} /\ Published # {}
    /\ {Undeclared, NotSemver, NoAnswer, None} \cap Nat = {}
    /\ Undeclared # NotSemver
    /\ \A d \in Dates : d % 10000 <= 1231   \* no day is after the last of December
    /\ MaxSdeDate \in Nat /\ MaxMoves \in Nat

----------------------------------------------------------------------------
(* The tables.                                                             *)

\* MILESTONES and MILESTONE_RELEASE_DATES.
Milestone == {3900, 4900, 5600, 6500, 7500, 8500, 9200}
Released ==
    [m \in Milestone |->
        CASE m = 3900 -> 20191107 [] m = 4900 -> 20201231 [] m = 5600 -> 20211021
          [] m = 6500 -> 20221103 [] m = 7500 -> 20231228 [] m = 8500 -> 20250220
          [] m = 9200 -> 20251211]

\* MILESTONE_DEBIAN_SUPPORTED.
Debian == {"stretch", "buster", "bullseye", "bookworm", "trixie"}
Supports ==
    [stretch  |-> {3900},
     buster   |-> {3900, 4900, 5600, 6500, 7500},
     bullseye |-> {5600, 6500, 7500, 8500, 9200},
     bookworm |-> {7500, 8500, 9200},
     trixie   |-> {9200}]

\* Mutant: the day of a Debian release still belongs to the release before it.
LateCutover(d) ==
    IF d <= 20190706 THEN "stretch"
    ELSE IF d <= 20210814 THEN "buster"
    ELSE IF d <= 20230610 THEN "bullseye"
    ELSE IF d <= 20250809 THEN "bookworm"
    ELSE "trixie"

DebianFor(d) ==
    IF d < 20190706 THEN "stretch"
    ELSE IF d < 20210814 THEN "buster"
    ELSE IF d < 20230610 THEN "bullseye"
    ELSE IF d < 20250809 THEN "bookworm"
    ELSE "trixie"

\* The least milestone of S, if there is one: the loops go through MILESTONES in order.
Least(S) == IF S = {} THEN None ELSE Min(S)

----------------------------------------------------------------------------
(* bucket_for and canonical_sde_for.                                       *)

\* Mutant: rounds down to a milestone the code may be too new for.
RoundDown(v) ==
    IF v = NotSemver THEN None
    ELSE LET S == {m \in Milestone : m <= v} IN IF S = {} THEN None ELSE Max(S)

RoundUp(v) == IF v = NotSemver THEN None ELSE Least({m \in Milestone : m >= v})

LatestBefore(d) ==
    LET below == {m \in Milestone : Released[m] <= d}
    IN  IF below = {} THEN Min(Milestone) ELSE Max(below)

\* Mutant: an unpublished pair is refused.
ExactOnly(m, debian) == IF m \in Supports[debian] THEN m ELSE None

\* The Debian stays, the milestone goes up.
Reroute(m, debian) == Least({n \in Supports[debian] : n >= m})

NoBucket == [milestone |-> None]

BucketFor(v, d) ==
    LET wanted == IF v = Undeclared THEN LatestBefore(d) ELSE RoundUp(v)
        milestone == IF wanted = None THEN None ELSE Reroute(wanted, DebianFor(d))
    IN  IF milestone = None THEN NoBucket
        ELSE [milestone |-> milestone, year |-> d \div 10000, debian |-> DebianFor(d)]

Base(b) == <<b.milestone, b.debian>>

\* Mutant: the day the base was published, if it is known.
SdeAtPublication(b, pub) ==
    IF pub # NoAnswer THEN pub ELSE b.year * 10000 + 1231

\* The last day of the bucket's year, or a later day on which the base was published.
SdeDate(b, pub) ==
    LET target == b.year * 10000 + 1231
    IN  IF pub # NoAnswer /\ target < pub THEN pub ELSE target

TagFor(b, pub) == [milestone |-> b.milestone, debian |-> b.debian, sde |-> SdeDate(b, pub)]

----------------------------------------------------------------------------
(* The two users.                                                          *)

\* What the candidates file leaves out is read from GitHub at the commit: by the driver
\* always, by the planner with --resolve-missing.  A read that fails, and a planner that does
\* not ask, leave the version undeclared; who has no date makes no bucket.
Knows(c) == IF c.listed THEN {TRUE} ELSE BOOLEAN

Version(c, known) == IF known THEN c.msrv ELSE Undeclared

PlannerBucket(c, known) ==
    IF c.date > MaxSdeDate THEN NoBucket ELSE BucketFor(Version(c, known), c.date)

\* _msrv_floor_for: what the driver puts in the place of an undeclared version.
FloorFor(d) == IF d < 20200101 THEN 3900 ELSE 5600

DriverMsrv(c, known) ==
    IF Version(c, known) = Undeclared THEN FloorFor(c.date) ELSE Version(c, known)

DriverBucket(c, known) ==
    IF c.date > MaxSdeDate THEN NoBucket ELSE BucketFor(DriverMsrv(c, known), c.date)

Buckets(c) == {PlannerBucket(c, k) : k \in Knows(c)} \cup {DriverBucket(c, k) : k \in Knows(c)}

Bases(c) == {Base(b) : b \in Buckets(c) \ {NoBucket}}

VARIABLES
    cand,     \* the candidate: what it declares, its day, whether the file lists what it declares
    hub,      \* what Docker Hub answers for its base images
    cache,    \* rust-base-pub.json: a date, "fresh" for 24 hours, or nothing
    planned,  \* the tag the planner proposed
    chosen,   \* the tag the driver resolved last
    knew,     \* whether planner and driver then knew the version
    current,  \* which of the two tags are of an answer since the cache expired last
    moves

vars == <<cand, hub, cache, planned, chosen, knew, current, moves>>

NoTag == [milestone |-> None]

Candidate ==
    {c \in [msrv : Msrv \cup {Undeclared, NotSemver}, date : Dates, listed : BOOLEAN] :
        c.listed => c.msrv # Undeclared}

Init ==
    /\ cand \in Candidate
    /\ hub \in [Bases(cand) -> Published \cup {NoAnswer}]
    /\ cache = [b \in Bases(cand) |-> [pub |-> NoAnswer, fresh |-> FALSE]]
    /\ planned = NoTag /\ chosen = NoTag
    /\ knew = [planner |-> FALSE, driver |-> FALSE]
    /\ current = {}
    /\ moves = 0

\* Mutant: what Docker Hub answers today comes before what is remembered.
HubFirst(b) == IF hub[b] # NoAnswer THEN hub[b] ELSE cache[b].pub

\* _rust_base_published_cached: a fresh entry is the answer; an old one is not, even when
\* Docker Hub gives none.
Lookup(b) == IF cache[b].fresh THEN cache[b].pub ELSE hub[b]

\* Mutant: a failed lookup is remembered too.
RemembersFailure(b) == cache' = [cache EXCEPT ![b] = [pub |-> Lookup(b), fresh |-> TRUE]]

Remember(b) ==
    cache' = IF Lookup(b) = NoAnswer THEN cache
             ELSE [cache EXCEPT ![b] = [pub |-> Lookup(b), fresh |-> TRUE]]

\* Whether the tag that is made for the base is of an answer.
Keeps(which, b) ==
    current' = IF Lookup(b) = NoAnswer THEN current \ {which} ELSE current \cup {which}

Plan ==
    \E known \in Knows(cand) :
        LET b == PlannerBucket(cand, known) IN
        /\ b # NoBucket
        /\ planned' = TagFor(b, Lookup(Base(b)))
        /\ Remember(Base(b)) /\ Keeps("planned", Base(b))
        /\ knew' = [knew EXCEPT !.planner = known]
        /\ UNCHANGED <<cand, hub, chosen, moves>>

\* process() and preflight take the same way.
Resolve ==
    \E known \in Knows(cand) :
        LET b == DriverBucket(cand, known) IN
        /\ b # NoBucket
        /\ chosen' = TagFor(b, Lookup(Base(b)))
        /\ Remember(Base(b)) /\ Keeps("chosen", Base(b))
        /\ knew' = [knew EXCEPT !.driver = known]
        /\ UNCHANGED <<cand, hub, planned, moves>>

\* Docker Hub pushes a base image again (last_updated), stops or starts answering.
HubMoves(b, d) ==
    /\ moves < MaxMoves
    /\ hub[b] # d
    /\ hub' = [hub EXCEPT ![b] = d]
    /\ moves' = moves + 1
    /\ UNCHANGED <<cand, cache, planned, chosen, knew, current>>

Expires(b) ==
    /\ moves < MaxMoves
    /\ cache[b].fresh
    /\ cache' = [cache EXCEPT ![b].fresh = FALSE]
    /\ current' = {}
    /\ moves' = moves + 1
    /\ UNCHANGED <<cand, hub, planned, chosen, knew>>

Next ==
    \/ Plan \/ Resolve
    \/ \E b \in DOMAIN hub :
          Expires(b) \/ \E d \in Published \cup {NoAnswer} : HubMoves(b, d)

Spec == Init /\ [][Next]_vars

----------------------------------------------------------------------------
(* Properties.                                                             *)

Tag == [milestone : Milestone, debian : Debian, sde : Nat]

\* Every variable has its type; only answers are kept for 24 hours.
TypeOK ==
    /\ planned \in Tag \cup {NoTag}
    /\ chosen \in Tag \cup {NoTag}
    /\ DOMAIN hub = Bases(cand) /\ DOMAIN cache = Bases(cand)
    /\ \A b \in Bases(cand) :
          /\ cache[b].pub \in Published \cup {NoAnswer}
          /\ cache[b].fresh => cache[b].pub \in Published
    /\ knew \in [planner : BOOLEAN, driver : BOOLEAN]
    /\ current \subseteq {"planned", "chosen"}
    /\ moves \in 0..MaxMoves

\* The image can build the candidate whose version the driver came to know: its compiler is
\* no older than that, Docker Hub publishes the pair, and no older published compiler of that
\* Debian would do.
RightCompiler ==
    chosen # NoTag /\ knew.driver /\ cand.msrv \in Msrv =>
        /\ chosen.milestone \in Supports[chosen.debian]
        /\ chosen.milestone >= cand.msrv
        /\ \A m \in Supports[chosen.debian] : m >= cand.msrv => m >= chosen.milestone

\* A declared version is refused only if no milestone of the Debian of its day serves it.
RefusedForAReason ==
    cand.msrv \in Msrv /\ cand.date <= MaxSdeDate /\ DriverBucket(cand, TRUE) = NoBucket =>
        \A m \in Milestone : m \in Supports[DebianFor(cand.date)] => m < cand.msrv

\* When each Debian came out.
DebianReleased ==
    [stretch |-> 0, buster |-> 20190706, bullseye |-> 20210814, bookworm |-> 20230610,
     trixie |-> 20250809]

\* The Debian of the image was the current one on the day of the commit: released by then,
\* its successor not yet (image-selection.md, step 1).
RightEra ==
    chosen # NoTag =>
        /\ DebianReleased[chosen.debian] <= cand.date
        /\ \A x \in Debian : DebianReleased[x] <= cand.date
                                => DebianReleased[x] <= DebianReleased[chosen.debian]

\* The apt snapshot is not older than the commit, so that what it depended on exists.
SnapshotAfterCommit == chosen # NoTag => chosen.sde >= cand.date

\* Within 24 hours of a plan that Docker Hub had an answer for, the driver asks for the image
\* planned, whatever Docker Hub answers by then, if both know the declared version.
PlanOutlivesHub ==
    /\ {"planned", "chosen"} \subseteq current
    /\ knew.planner /\ knew.driver /\ cand.msrv # Undeclared
    => chosen = planned
=============================================================================
