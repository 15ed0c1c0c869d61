------------------------ MODULE FatImageSelectionProofs ------------------------
(***************************************************************************)
(* For every declared version, every date, every answer of Docker Hub and  *)
(* every number of its changes: the image chosen can build the candidate,  *)
(* is of its era, has the packages of its day, and is the one planned as   *)
(* long as the cache keeps the answer the plan was made with.              *)
(***************************************************************************)
EXTENDS FatImageSelection, TLAPS

----------------------------------------------------------------------------
(* The inductive invariant.                                                *)

Answer == Published \cup {NoAnswer}
MaybeMsrv == Msrv \cup {Undeclared, NotSemver}

\* The environment's side of the types.
HubInv ==
    /\ cand \in Candidate
    /\ hub \in [Bases(cand) -> Answer]
    /\ cache \in [Bases(cand) -> [pub : Answer, fresh : BOOLEAN]]

TypeInv == TypeOK /\ HubInv

\* What a user picked is the tag of its bucket, for some answer.
Picked(tag, b) == tag # NoTag => b # NoBucket /\ \E pub \in Answer : tag = TagFor(b, pub)

PickedInv ==
    /\ Picked(planned, PlannerBucket(cand, knew.planner))
    /\ Picked(chosen, DriverBucket(cand, knew.driver))

\* A tag that is current is that of the answer the cache has.
Current(tag, b) ==
    /\ tag # NoTag /\ Base(b) \in Bases(cand)
    /\ cache[Base(b)].fresh /\ tag = TagFor(b, cache[Base(b)].pub)

CurrentInv ==
    /\ "planned" \in current => Current(planned, PlannerBucket(cand, knew.planner))
    /\ "chosen" \in current => Current(chosen, DriverBucket(cand, knew.driver))

IInv == TypeInv /\ PickedInv /\ CurrentInv

----------------------------------------------------------------------------
(* Milestones.                                                             *)

\* A set of milestones that is not empty has a least one.
LEMMA LeastMilestone ==
    ASSUME NEW S \in SUBSET Milestone, S # {}
    PROVE  Min(S) \in S /\ \A m \in S : Min(S) <= m
PROOF
<1>1. \E x \in S : \A y \in S : x <= y
  <2>1. CASE 3900 \in S  BY <2>1, SMT DEF Milestone
  <2>2. CASE S \cap {3900} = {} /\ 4900 \in S  BY <2>2, SMT DEF Milestone
  <2>3. CASE S \cap {3900, 4900} = {} /\ 5600 \in S  BY <2>3, SMT DEF Milestone
  <2>4. CASE S \cap {3900, 4900, 5600} = {} /\ 6500 \in S  BY <2>4, SMT DEF Milestone
  <2>5. CASE S \cap {3900, 4900, 5600, 6500} = {} /\ 7500 \in S  BY <2>5, SMT DEF Milestone
  <2>6. CASE S \cap {3900, 4900, 5600, 6500, 7500} = {} /\ 8500 \in S  BY <2>6, SMT DEF Milestone
  <2>7. CASE S \cap {3900, 4900, 5600, 6500, 7500, 8500} = {} /\ 9200 \in S  BY <2>7, SMT DEF Milestone
  <2>8. \E m \in Milestone : m \in S
    OBVIOUS
  <2> QED BY <2>1, <2>2, <2>3, <2>4, <2>5, <2>6, <2>7, <2>8, SMT DEF Milestone
<1> QED BY <1>1 DEF Min

\* And a latest one.
LEMMA LatestMilestone ==
    ASSUME NEW S \in SUBSET Milestone, S # {}
    PROVE  Max(S) \in S
PROOF
<1>1. \E x \in S : \A y \in S : x >= y
  <2>1. CASE 9200 \in S  BY <2>1, SMT DEF Milestone
  <2>2. CASE S \cap {9200} = {} /\ 8500 \in S  BY <2>2, SMT DEF Milestone
  <2>3. CASE S \cap {9200, 8500} = {} /\ 7500 \in S  BY <2>3, SMT DEF Milestone
  <2>4. CASE S \cap {9200, 8500, 7500} = {} /\ 6500 \in S  BY <2>4, SMT DEF Milestone
  <2>5. CASE S \cap {9200, 8500, 7500, 6500} = {} /\ 5600 \in S  BY <2>5, SMT DEF Milestone
  <2>6. CASE S \cap {9200, 8500, 7500, 6500, 5600} = {} /\ 4900 \in S  BY <2>6, SMT DEF Milestone
  <2>7. CASE S \cap {9200, 8500, 7500, 6500, 5600, 4900} = {} /\ 3900 \in S  BY <2>7, SMT DEF Milestone
  <2>8. \E m \in Milestone : m \in S
    OBVIOUS
  <2> QED BY <2>1, <2>2, <2>3, <2>4, <2>5, <2>6, <2>7, <2>8, SMT DEF Milestone
<1> QED BY <1>1 DEF Max

\* None is no number.
LEMMA NoneIsNoNumber ==
    /\ None \notin Nat /\ Undeclared \notin Nat /\ NotSemver \notin Nat /\ NoAnswer \notin Nat
    /\ None \notin Milestone
PROOF BY SelectionAssumption DEF Milestone

\* The least milestone of a set is none only where there is none.
LEMMA LeastIsLeast ==
    ASSUME NEW S \in SUBSET Milestone
    PROVE  /\ Least(S) = None <=> S = {}
           /\ Least(S) # None => Least(S) \in S /\ \A m \in S : Least(S) <= m
PROOF
<1>1. CASE S = {}
  BY <1>1 DEF Least
<1>2. CASE S # {}
  BY <1>2, LeastMilestone, NoneIsNoNumber DEF Least
<1> QED BY <1>1, <1>2

\* The Debian of a day is one of the five, and the tables have it.
LEMMA EraTables ==
    ASSUME NEW d \in Nat
    PROVE  DebianFor(d) \in Debian /\ Supports[DebianFor(d)] \in SUBSET Milestone
PROOF
<1>1. DebianFor(d) \in Debian
  BY SMT DEF DebianFor, Debian
<1>2. \A x \in Debian : Supports[x] \in SUBSET Milestone
  BY SMT DEF Supports, Debian, Milestone
<1> QED BY <1>1, <1>2

\* The Debian of a day was out by then, and no later one.
LEMMA EraOfTheDay ==
    ASSUME NEW d \in Nat
    PROVE  /\ DebianReleased[DebianFor(d)] <= d
           /\ \A x \in Debian : DebianReleased[x] <= d
                 => DebianReleased[x] <= DebianReleased[DebianFor(d)]
PROOF BY SMT DEF DebianFor, Debian, DebianReleased

----------------------------------------------------------------------------
(* Buckets and tags.                                                       *)

\* What a bucket is: the Debian and the year of the day, and a milestone published there.
LEMMA BucketParts ==
    ASSUME NEW v \in Nat \cup {Undeclared, NotSemver}, NEW d \in Nat,
           BucketFor(v, d) # NoBucket
    PROVE  /\ BucketFor(v, d).debian = DebianFor(d)
           /\ BucketFor(v, d).year = d \div 10000
           /\ BucketFor(v, d).milestone \in Supports[DebianFor(d)]
           /\ BucketFor(v, d).milestone \in Milestone
           /\ v \in Nat => /\ BucketFor(v, d).milestone >= v
                           /\ \A m \in Supports[DebianFor(d)] :
                                 m >= v => m >= BucketFor(v, d).milestone
PROOF
<1> DEFINE wanted == IF v = Undeclared THEN LatestBefore(d) ELSE RoundUp(v)
           found == IF wanted = None THEN None ELSE Reroute(wanted, DebianFor(d))
           above == {n \in Supports[DebianFor(d)] : n >= wanted}
<1>1. found # None /\ BucketFor(v, d) = [milestone |-> found, year |-> d \div 10000,
                                         debian |-> DebianFor(d)]
  BY DEF BucketFor
<1>2. wanted # None /\ found = Least(above)
  BY <1>1 DEF Reroute
<1>3. above \in SUBSET Milestone
  BY EraTables
<1>4. found \in above /\ \A m \in above : found <= m
  <2> HIDE DEF found, above
  <2> QED BY <1>1, <1>2, <1>3, LeastIsLeast
<1>5. ASSUME v \in Nat
      PROVE  wanted >= v /\ \A m \in Milestone : m >= v => m >= wanted
  <2>1. wanted = Least({m \in Milestone : m >= v})
    BY <1>5, <1>2, NoneIsNoNumber DEF RoundUp
  <2>2. {m \in Milestone : m >= v} \in SUBSET Milestone
    OBVIOUS
  <2>3. wanted \in {m \in Milestone : m >= v} /\ \A m \in {n \in Milestone : n >= v} : wanted <= m
    BY <2>1, <2>2, <1>2, LeastIsLeast
  <2> QED BY <2>3, SMT DEF Milestone
<1>6. wanted \in Milestone
  <2>1. CASE v = Undeclared
    <3>1. wanted = LatestBefore(d)
      BY <2>1
    <3>2. LatestBefore(d) \in Milestone
      <4> DEFINE below == {m \in Milestone : Released[m] <= d}
      <4>1. CASE below = {}
        <5>1. Milestone # {} /\ Milestone \in SUBSET Milestone
          BY SMT DEF Milestone
        <5> QED BY <4>1, <5>1, LeastMilestone DEF LatestBefore
      <4>2. CASE below # {}
        BY <4>2, LatestMilestone DEF LatestBefore
      <4> QED BY <4>1, <4>2
    <3> QED BY <3>1, <3>2
  <2>2. CASE v = NotSemver
    BY <2>2, <1>2, SelectionAssumption DEF RoundUp
  <2>3. CASE v \in Nat
    <3>1. wanted = Least({m \in Milestone : m >= v})
      BY <2>3, <1>2, NoneIsNoNumber DEF RoundUp
    <3> QED BY <3>1, <1>2, LeastIsLeast
  <2> QED BY <2>1, <2>2, <2>3
<1>7. found \in Supports[DebianFor(d)] /\ found \in Milestone /\ found >= wanted
  BY <1>3, <1>4
<1>8. ASSUME v \in Nat
      PROVE  found >= v /\ \A m \in Supports[DebianFor(d)] : m >= v => m >= found
  <2>1. found >= v
    BY <1>5, <1>6, <1>7, <1>8, SMT DEF Milestone
  <2>2. ASSUME NEW m \in Supports[DebianFor(d)], m >= v  PROVE m >= found
    <3>1. m \in Milestone /\ m >= wanted
      BY <2>2, <1>5, <1>8, EraTables
    <3> QED BY <3>1, <1>4, <1>7, SMT DEF Milestone
  <2> QED BY <2>1, <2>2
<1> HIDE DEF wanted, found, above
<1> QED BY <1>1, <1>7, <1>8

\* Where the Debian of the day has a milestone no older than a version, the version gets a
\* bucket.
LEMMA BucketExists ==
    ASSUME NEW v \in Nat, NEW d \in Nat, NEW m \in Supports[DebianFor(d)], m >= v
    PROVE  BucketFor(v, d) # NoBucket
PROOF
<1> DEFINE up == {n \in Milestone : n >= v}
           above == {n \in Supports[DebianFor(d)] : n >= Least(up)}
           bucket == [milestone |-> Least(above), year |-> d \div 10000,
                      debian |-> DebianFor(d)]
<1>1. up \in SUBSET Milestone /\ above \in SUBSET Milestone /\ m \in Milestone
  BY EraTables
<1>2. m \in up
  BY <1>1
<1>3. Least(up) # None /\ m >= Least(up)
  <2> HIDE DEF up
  <2>1. Least(up) # None /\ Least(up) <= m /\ Least(up) \in up
    BY <1>1, <1>2, LeastIsLeast
  <2>2. Least(up) \in Milestone
    BY <1>1, <2>1
  <2> QED BY <1>1, <2>1, <2>2, SMT DEF Milestone
<1>4. m \in above
  BY <1>3
<1>5. Least(above) # None
  <2> HIDE DEF above
  <2> QED BY <1>1, <1>4, LeastIsLeast
<1>6. BucketFor(v, d) = bucket
  <2>1. RoundUp(v) = Least(up) /\ v # Undeclared
    BY NoneIsNoNumber DEF RoundUp
  <2>2. Reroute(RoundUp(v), DebianFor(d)) = Least(above)
    BY <2>1 DEF Reroute
  <2> HIDE DEF up, above
  <2> QED BY <1>3, <1>5, <2>1, <2>2 DEF BucketFor
<1> HIDE DEF above
<1>7. bucket.milestone # NoBucket.milestone
  BY <1>5 DEF NoBucket
<1> QED BY <1>6, <1>7

\* The driver always has a version to round up.
LEMMA DriverMsrvType ==
    ASSUME cand \in Candidate, NEW known \in BOOLEAN
    PROVE  /\ cand.date \in Nat
           /\ Version(cand, known) \in Nat \cup {Undeclared, NotSemver}
           /\ DriverMsrv(cand, known) \in Nat \cup {NotSemver}
           /\ cand.msrv # Undeclared /\ known => DriverMsrv(cand, known) = cand.msrv
           /\ cand.msrv \in Msrv => cand.msrv \in Nat /\ cand.msrv # Undeclared
PROOF
<1>1. FloorFor(cand.date) \in Nat
  BY SMT DEF FloorFor
<1>2. cand.msrv \in MaybeMsrv /\ cand.date \in Dates
  BY DEF Candidate, MaybeMsrv
<1>3. Msrv \subseteq Nat /\ Dates \subseteq Nat
  BY SelectionAssumption
<1>4. /\ Version(cand, known) = IF known THEN cand.msrv ELSE Undeclared
      /\ DriverMsrv(cand, known) = IF Version(cand, known) = Undeclared THEN FloorFor(cand.date)
                                   ELSE Version(cand, known)
  BY DEF DriverMsrv, Version
<1> QED BY <1>1, <1>2, <1>3, <1>4, NoneIsNoNumber DEF MaybeMsrv

\* The bucket of either user is one of bucket_for.
IsBucket(b) == \E v \in Nat \cup {Undeclared, NotSemver} : b = BucketFor(v, cand.date)

LEMMA KnowsBoolean == \A known \in Knows(cand) : known \in BOOLEAN
PROOF BY DEF Knows

LEMMA UsersBuckets ==
    ASSUME cand \in Candidate, NEW known \in Knows(cand),
           NEW b \in {PlannerBucket(cand, known), DriverBucket(cand, known)}, b # NoBucket
    PROVE  IsBucket(b) /\ Base(b) \in Bases(cand)
PROOF
<1>0. known \in BOOLEAN
  BY KnowsBoolean
<1>1. CASE b = PlannerBucket(cand, known)
  <2>1. b = BucketFor(Version(cand, known), cand.date)
    BY <1>1 DEF PlannerBucket
  <2> QED BY <1>0, <1>1, <2>1, DriverMsrvType DEF IsBucket, Bases, Buckets
<1>2. CASE b = DriverBucket(cand, known)
  <2>1. b = BucketFor(DriverMsrv(cand, known), cand.date)
    BY <1>2 DEF DriverBucket
  <2> QED BY <1>0, <1>2, <2>1, DriverMsrvType DEF IsBucket, Bases, Buckets
<1> QED BY <1>1, <1>2

\* A tag of a bucket has its milestone and Debian, and a date no earlier than the day.
LEMMA TagParts ==
    ASSUME cand \in Candidate,
           NEW b, b # NoBucket, IsBucket(b), NEW pub \in Answer
    PROVE  /\ TagFor(b, pub) \in Tag
           /\ TagFor(b, pub) # NoTag
           /\ TagFor(b, pub).milestone = b.milestone
           /\ TagFor(b, pub).debian = b.debian
           /\ TagFor(b, pub).sde >= cand.date
PROOF
<1>1. PICK v \in Nat \cup {Undeclared, NotSemver} : b = BucketFor(v, cand.date)
  BY DEF IsBucket
<1>2. PICK d \in Dates : d = cand.date
  BY DEF Candidate
<1>3. d \in Nat /\ d % 10000 <= 1231
  BY SelectionAssumption
<1>4. /\ b.debian = DebianFor(d) /\ b.year = d \div 10000
      /\ b.milestone \in Milestone
  BY <1>1, <1>2, <1>3, BucketParts
<1>5. pub # NoAnswer => pub \in Nat
  BY SelectionAssumption DEF Answer
<1>6. b.year * 10000 + 1231 \in Nat /\ b.year * 10000 + 1231 >= d
  BY <1>3, <1>4, SMT
<1>7. SdeDate(b, pub) \in Nat /\ SdeDate(b, pub) >= d
  <2> DEFINE target == b.year * 10000 + 1231
  <2>1. target \in Nat /\ target >= d
    BY <1>6
  <2>2. SdeDate(b, pub) = IF pub # NoAnswer /\ target < pub THEN pub ELSE target
    BY DEF SdeDate
  <2> HIDE DEF target
  <2> QED BY <2>1, <2>2, <1>3, <1>5, SMT
<1>8. b.debian \in Debian
  BY <1>3, <1>4, EraTables
<1>9. TagFor(b, pub) = [milestone |-> b.milestone, debian |-> b.debian, sde |-> SdeDate(b, pub)]
  BY DEF TagFor
<1>10. TagFor(b, pub) \in Tag
  BY <1>4, <1>7, <1>8, <1>9 DEF Tag
<1>11. TagFor(b, pub) # NoTag
  BY <1>4, <1>9, NoneIsNoNumber DEF NoTag
<1> QED BY <1>2, <1>7, <1>9, <1>10, <1>11

----------------------------------------------------------------------------
(* The invariant.                                                          *)

\* What is looked up is an answer, that of the cache if it is fresh.
LEMMA LookupAnswer ==
    ASSUME TypeInv, NEW b \in Bases(cand)
    PROVE  /\ Lookup(b) \in Answer
           /\ cache[b].fresh => Lookup(b) = cache[b].pub /\ Lookup(b) # NoAnswer
PROOF
<1>1. cache[b].fresh => cache[b].pub \in Published
  BY DEF TypeInv, TypeOK
<1>2. NoAnswer \notin Published
  BY SelectionAssumption
<1> QED BY <1>1, <1>2 DEF TypeInv, HubInv, Lookup

\* What is kept has its type and is what was looked up, and nothing fresh is replaced.
LEMMA RememberType ==
    ASSUME TypeInv, NEW b \in Bases(cand), Remember(b)
    PROVE  /\ cache' \in [Bases(cand) -> [pub : Answer, fresh : BOOLEAN]]
           /\ \A c \in Bases(cand) : cache'[c].fresh => cache'[c].pub \in Published
           /\ \A c \in Bases(cand) : cache[c].fresh => cache'[c] = cache[c]
           /\ Lookup(b) # NoAnswer => cache'[b].fresh /\ cache'[b].pub = Lookup(b)
PROOF
<1>1. /\ Lookup(b) \in Answer
      /\ cache[b].fresh => Lookup(b) = cache[b].pub /\ Lookup(b) # NoAnswer
  BY LookupAnswer
<1>2. cache \in [Bases(cand) -> [pub : Answer, fresh : BOOLEAN]]
  BY DEF TypeInv, HubInv
<1>3. \A c \in Bases(cand) : cache[c].fresh => cache[c].pub \in Published
  BY DEF TypeInv, TypeOK
<1>4. CASE Lookup(b) = NoAnswer
  BY <1>2, <1>3, <1>4 DEF Remember
<1>5. CASE Lookup(b) # NoAnswer
  <2>1. cache' = [cache EXCEPT ![b] = [pub |-> Lookup(b), fresh |-> TRUE]]
    BY <1>5 DEF Remember
  <2>2. Lookup(b) \in Published
    BY <1>1, <1>5 DEF Answer
  <2>3. cache'[b] = [pub |-> Lookup(b), fresh |-> TRUE]
    BY <2>1, <1>2
  <2>4. \A c \in Bases(cand) : c # b => cache'[c] = cache[c]
    BY <2>1, <1>2
  <2>5. cache' \in [Bases(cand) -> [pub : Answer, fresh : BOOLEAN]]
    BY <2>1, <1>1, <1>2
  <2>6. cache[b].fresh => cache'[b] = cache[b]
    <3>1. cache[b] \in [pub : Answer, fresh : BOOLEAN]
      BY <1>2
    <3> QED BY <1>1, <2>3, <3>1
  <2>7. ASSUME NEW c \in Bases(cand), cache'[c].fresh PROVE cache'[c].pub \in Published
    <3>1. CASE c = b
      BY <3>1, <2>2, <2>3
    <3>2. CASE c # b
      BY <3>2, <2>4, <2>7, <1>3
    <3> QED BY <3>1, <3>2
  <2>8. cache'[b].fresh /\ cache'[b].pub = Lookup(b)
    BY <2>3
  <2> QED BY <2>4, <2>5, <2>6, <2>7, <2>8
<1> QED BY <1>4, <1>5

LEMMA InitIInv == Init => IInv
PROOF
<1> SUFFICES ASSUME Init PROVE IInv
  OBVIOUS
<1>1. HubInv
  BY DEF Init, HubInv, Answer
<1>2. TypeOK
  BY <1>1, SelectionAssumption DEF Init, TypeOK, HubInv
<1>3. PickedInv
  BY DEF Init, PickedInv, Picked
<1>4. CurrentInv
  BY DEF Init, CurrentInv
<1> QED BY <1>1, <1>2, <1>3, <1>4 DEF IInv, TypeInv

\* A user that resolves its bucket gets the tag of an answer, which is current if it is one;
\* what was current stays so.
LEMMA ResolvesTag ==
    ASSUME IInv, NEW known \in Knows(cand),
           NEW b \in {PlannerBucket(cand, known), DriverBucket(cand, known)}, b # NoBucket,
           Remember(Base(b)), cand' = cand, NEW tag, tag = TagFor(b, Lookup(Base(b)))
    PROVE  /\ tag \in Tag
           /\ Picked(tag, b)
           /\ Lookup(Base(b)) # NoAnswer =>
                 /\ tag # NoTag /\ Base(b) \in Bases(cand)
                 /\ cache'[Base(b)].fresh /\ tag = TagFor(b, cache'[Base(b)].pub)
           /\ \A other, c : Current(other, c) =>
                 /\ other # NoTag /\ Base(c) \in Bases(cand)
                 /\ cache'[Base(c)].fresh /\ other = TagFor(c, cache'[Base(c)].pub)
           /\ cache' \in [Bases(cand) -> [pub : Answer, fresh : BOOLEAN]]
           /\ \A c \in Bases(cand) : cache'[c].fresh => cache'[c].pub \in Published
PROOF
<1>1. cand \in Candidate
  BY DEF IInv, TypeInv, HubInv
<1>2. IsBucket(b) /\ Base(b) \in Bases(cand)
  BY <1>1, UsersBuckets
<1>3. Lookup(Base(b)) \in Answer
  BY <1>2, LookupAnswer DEF IInv
<1>4. tag \in Tag /\ tag # NoTag
  BY <1>1, <1>2, <1>3, TagParts
<1>5. Picked(tag, b)
  BY <1>3 DEF Picked
<1>6. /\ cache' \in [Bases(cand) -> [pub : Answer, fresh : BOOLEAN]]
      /\ \A c \in Bases(cand) : cache'[c].fresh => cache'[c].pub \in Published
      /\ \A c \in Bases(cand) : cache[c].fresh => cache'[c] = cache[c]
      /\ Lookup(Base(b)) # NoAnswer =>
            cache'[Base(b)].fresh /\ cache'[Base(b)].pub = Lookup(Base(b))
  BY <1>2, RememberType DEF IInv
<1>7. ASSUME NEW other, NEW c, Current(other, c)
      PROVE  /\ other # NoTag /\ Base(c) \in Bases(cand)
             /\ cache'[Base(c)].fresh /\ other = TagFor(c, cache'[Base(c)].pub)
  <2>1. Base(c) \in Bases(cand) /\ cache[Base(c)].fresh
    BY <1>7 DEF Current
  <2>2. cache'[Base(c)] = cache[Base(c)]
    BY <1>6, <2>1
  <2> QED BY <1>7, <2>1, <2>2 DEF Current
<1> QED BY <1>2, <1>4, <1>5, <1>6, <1>7

LEMMA NextIInv == IInv /\ [Next]_vars => IInv'
PROOF
<1> SUFFICES ASSUME IInv, [Next]_vars PROVE IInv'
  OBVIOUS
<1> USE DEF IInv
<1>0. /\ knew \in [planner : BOOLEAN, driver : BOOLEAN] /\ current \subseteq {"planned", "chosen"}
      /\ planned \in Tag \cup {NoTag} /\ chosen \in Tag \cup {NoTag}
  BY DEF TypeInv, TypeOK
<1>1. ASSUME Plan PROVE IInv'
  <2>1. PICK known \in Knows(cand) :
           LET b == PlannerBucket(cand, known) IN
           /\ b # NoBucket
           /\ planned' = TagFor(b, Lookup(Base(b)))
           /\ Remember(Base(b)) /\ Keeps("planned", Base(b))
           /\ knew' = [knew EXCEPT !.planner = known]
           /\ UNCHANGED <<cand, hub, chosen, moves>>
    BY <1>1 DEF Plan
  <2> DEFINE b == PlannerBucket(cand, known)
  <2>2. /\ planned' \in Tag /\ Picked(planned', b)
        /\ Lookup(Base(b)) # NoAnswer =>
              /\ planned' # NoTag /\ Base(b) \in Bases(cand)
              /\ cache'[Base(b)].fresh /\ planned' = TagFor(b, cache'[Base(b)].pub)
        /\ \A other, c : Current(other, c) =>
              /\ other # NoTag /\ Base(c) \in Bases(cand)
              /\ cache'[Base(c)].fresh /\ other = TagFor(c, cache'[Base(c)].pub)
        /\ cache' \in [Bases(cand) -> [pub : Answer, fresh : BOOLEAN]]
        /\ \A c \in Bases(cand) : cache'[c].fresh => cache'[c].pub \in Published
    BY <2>1, ResolvesTag
  <2>3. knew'.planner = known /\ knew'.driver = knew.driver /\ knew' \in [planner : BOOLEAN, driver : BOOLEAN]
    BY <1>0, <2>1, KnowsBoolean
  <2>4. /\ current' \subseteq {"planned", "chosen"}
        /\ "planned" \in current' => Lookup(Base(b)) # NoAnswer
        /\ "chosen" \in current' => "chosen" \in current
    BY <1>0, <2>1 DEF Keeps
  <2>5. TypeInv'
    BY <2>1, <2>2, <2>3, <2>4 DEF TypeInv, TypeOK, HubInv, Bases, Answer
  <2>6. PickedInv'
    BY <2>1, <2>2, <2>3 DEF PickedInv, Picked
  <2>7. Current(planned, PlannerBucket(cand, knew.planner))' \/ "planned" \notin current'
    BY <2>1, <2>2, <2>3, <2>4 DEF Current
  <2>8. Current(chosen, DriverBucket(cand, knew.driver))' \/ "chosen" \notin current'
    <3>1. ASSUME "chosen" \in current' PROVE Current(chosen, DriverBucket(cand, knew.driver))
      BY <2>4, <3>1 DEF CurrentInv
    <3> QED BY <2>1, <2>2, <2>3, <3>1 DEF Current
  <2> QED BY <2>5, <2>6, <2>7, <2>8 DEF CurrentInv
<1>2. ASSUME Resolve PROVE IInv'
  <2>1. PICK known \in Knows(cand) :
           LET b == DriverBucket(cand, known) IN
           /\ b # NoBucket
           /\ chosen' = TagFor(b, Lookup(Base(b)))
           /\ Remember(Base(b)) /\ Keeps("chosen", Base(b))
           /\ knew' = [knew EXCEPT !.driver = known]
           /\ UNCHANGED <<cand, hub, planned, moves>>
    BY <1>2 DEF Resolve
  <2> DEFINE b == DriverBucket(cand, known)
  <2>2. /\ chosen' \in Tag /\ Picked(chosen', b)
        /\ Lookup(Base(b)) # NoAnswer =>
              /\ chosen' # NoTag /\ Base(b) \in Bases(cand)
              /\ cache'[Base(b)].fresh /\ chosen' = TagFor(b, cache'[Base(b)].pub)
        /\ \A other, c : Current(other, c) =>
              /\ other # NoTag /\ Base(c) \in Bases(cand)
              /\ cache'[Base(c)].fresh /\ other = TagFor(c, cache'[Base(c)].pub)
        /\ cache' \in [Bases(cand) -> [pub : Answer, fresh : BOOLEAN]]
        /\ \A c \in Bases(cand) : cache'[c].fresh => cache'[c].pub \in Published
    BY <2>1, ResolvesTag
  <2>3. knew'.driver = known /\ knew'.planner = knew.planner /\ knew' \in [planner : BOOLEAN, driver : BOOLEAN]
    BY <1>0, <2>1, KnowsBoolean
  <2>4. /\ current' \subseteq {"planned", "chosen"}
        /\ "chosen" \in current' => Lookup(Base(b)) # NoAnswer
        /\ "planned" \in current' => "planned" \in current
    BY <1>0, <2>1 DEF Keeps
  <2>5. TypeInv'
    BY <2>1, <2>2, <2>3, <2>4 DEF TypeInv, TypeOK, HubInv, Bases, Answer
  <2>6. PickedInv'
    BY <2>1, <2>2, <2>3 DEF PickedInv, Picked
  <2>7. Current(chosen, DriverBucket(cand, knew.driver))' \/ "chosen" \notin current'
    BY <2>1, <2>2, <2>3, <2>4 DEF Current
  <2>8. Current(planned, PlannerBucket(cand, knew.planner))' \/ "planned" \notin current'
    <3>1. ASSUME "planned" \in current' PROVE Current(planned, PlannerBucket(cand, knew.planner))
      BY <2>4, <3>1 DEF CurrentInv
    <3> QED BY <2>1, <2>2, <2>3, <3>1 DEF Current
  <2> QED BY <2>5, <2>6, <2>7, <2>8 DEF CurrentInv
<1>3. ASSUME NEW b \in DOMAIN hub, NEW d \in Answer, HubMoves(b, d)
      PROVE  IInv'
  <2>1. /\ moves < MaxMoves /\ hub' = [hub EXCEPT ![b] = d] /\ moves' = moves + 1
        /\ UNCHANGED <<cand, cache, planned, chosen, knew, current>>
    BY <1>3 DEF HubMoves
  <2>2. moves' \in 0..MaxMoves
    BY <2>1, SelectionAssumption DEF TypeInv, TypeOK
  <2>3. TypeInv'
    BY <2>1, <2>2 DEF TypeInv, TypeOK, HubInv, Bases
  <2>4. PickedInv' /\ CurrentInv'
    BY <2>1 DEF PickedInv, Picked, CurrentInv, Current
  <2> QED BY <2>3, <2>4
<1>4. ASSUME NEW b \in DOMAIN hub, Expires(b)
      PROVE  IInv'
  <2>1. /\ moves < MaxMoves /\ cache' = [cache EXCEPT ![b].fresh = FALSE] /\ current' = {}
        /\ moves' = moves + 1 /\ UNCHANGED <<cand, hub, planned, chosen, knew>>
    BY <1>4 DEF Expires
  <2>2. moves' \in 0..MaxMoves
    BY <2>1, SelectionAssumption DEF TypeInv, TypeOK
  <2>3. TypeInv'
    BY <2>1, <2>2 DEF TypeInv, TypeOK, HubInv, Bases
  <2>4. PickedInv' /\ CurrentInv'
    BY <2>1 DEF PickedInv, Picked, CurrentInv
  <2> QED BY <2>3, <2>4
<1>5. CASE UNCHANGED vars
  BY <1>5 DEF vars, TypeInv, TypeOK, HubInv, PickedInv, Picked, CurrentInv, Current, Bases
<1> QED BY <1>1, <1>2, <1>3, <1>4, <1>5 DEF Next, Answer

\* The invariant holds in every reachable state.
LEMMA Invariance == Spec => []IInv
PROOF BY InitIInv, NextIInv, PTL DEF Spec

----------------------------------------------------------------------------
(* The theorems.                                                           *)

\* What the driver chose is a tag of its bucket.
LEMMA ChosenParts ==
    ASSUME IInv, chosen # NoTag
    PROVE  /\ cand \in Candidate /\ cand.date \in Nat /\ knew.driver \in BOOLEAN
           /\ DriverBucket(cand, knew.driver)
                 = BucketFor(DriverMsrv(cand, knew.driver), cand.date)
           /\ DriverBucket(cand, knew.driver) # NoBucket
           /\ chosen.milestone = DriverBucket(cand, knew.driver).milestone
           /\ chosen.debian = DriverBucket(cand, knew.driver).debian
           /\ chosen.sde >= cand.date
PROOF
<1> DEFINE b == DriverBucket(cand, knew.driver)
<1>1. cand \in Candidate /\ knew.driver \in BOOLEAN
  BY DEF IInv, TypeInv, TypeOK, HubInv
<1>2. cand.date \in Nat
  BY <1>1, DriverMsrvType
<1>3. b # NoBucket
  BY DEF IInv, PickedInv, Picked
<1>4. PICK pub \in Answer : chosen = TagFor(b, pub)
  BY DEF IInv, PickedInv, Picked
<1>5. b = BucketFor(DriverMsrv(cand, knew.driver), cand.date)
  BY <1>3 DEF DriverBucket
<1>6. IsBucket(b)
  BY <1>1, <1>5, DriverMsrvType DEF IsBucket
<1> QED BY <1>1, <1>2, <1>3, <1>4, <1>5, <1>6, TagParts

\* Every variable keeps its type, and only answers are kept (TypeOK).
THEOREM TypeCorrect == Spec => []TypeOK
PROOF
<1>1. IInv => TypeOK
  BY DEF IInv, TypeInv
<1> QED BY <1>1, Invariance, PTL

\* The image of a candidate whose version the driver knows is published, no older than that
\* version, and the oldest such (fat_image.py:bucket_for).
THEOREM ChosenCanBuild == Spec => []RightCompiler
PROOF
<1>1. ASSUME IInv, chosen # NoTag, knew.driver, cand.msrv \in Msrv
      PROVE  /\ chosen.milestone \in Supports[chosen.debian]
             /\ chosen.milestone >= cand.msrv
             /\ \A m \in Supports[chosen.debian] : m >= cand.msrv => m >= chosen.milestone
  <2>1. /\ DriverMsrv(cand, knew.driver) \in Nat
        /\ DriverMsrv(cand, knew.driver) = cand.msrv
    BY <1>1, ChosenParts, DriverMsrvType
  <2> DEFINE b == BucketFor(cand.msrv, cand.date)
  <2>2. /\ cand.msrv \in Nat /\ cand.date \in Nat /\ b # NoBucket
        /\ chosen.milestone = b.milestone /\ chosen.debian = b.debian
    BY <1>1, <2>1, ChosenParts
  <2>3. /\ b.debian = DebianFor(cand.date)
        /\ b.milestone \in Supports[DebianFor(cand.date)]
        /\ b.milestone >= cand.msrv
        /\ \A m \in Supports[DebianFor(cand.date)] : m >= cand.msrv => m >= b.milestone
    <3> HIDE DEF b
    <3> QED BY <2>2, BucketParts DEF b
  <2> QED BY <2>2, <2>3
<1>2. IInv => RightCompiler
  BY <1>1 DEF RightCompiler
<1> QED BY <1>2, Invariance, PTL

\* The Debian of the image is that of the day of the commit (cargo_toolchain.py:203-208).
THEOREM ChosenIsOfItsEra == Spec => []RightEra
PROOF
<1>1. ASSUME IInv, chosen # NoTag
      PROVE  /\ DebianReleased[chosen.debian] <= cand.date
             /\ \A x \in Debian : DebianReleased[x] <= cand.date
                                     => DebianReleased[x] <= DebianReleased[chosen.debian]
  <2> DEFINE v == DriverMsrv(cand, knew.driver)
             d == cand.date
  <2>1. /\ d \in Nat /\ v \in Nat \cup {Undeclared, NotSemver}
        /\ DriverBucket(cand, knew.driver) = BucketFor(v, d)
        /\ DriverBucket(cand, knew.driver) # NoBucket
        /\ chosen.debian = DriverBucket(cand, knew.driver).debian
    BY <1>1, ChosenParts, DriverMsrvType
  <2>2. chosen.debian = DebianFor(d)
    <3> HIDE DEF v, d
    <3> QED BY <2>1, BucketParts
  <2> QED BY <2>1, <2>2, EraOfTheDay
<1>2. IInv => RightEra
  BY <1>1 DEF RightEra
<1> QED BY <1>2, Invariance, PTL

\* The packages of the image are not older than the commit (fat_image.py:canonical_sde_for).
THEOREM ChosenHasItsPackages == Spec => []SnapshotAfterCommit
PROOF
<1>1. IInv => SnapshotAfterCommit
  BY ChosenParts DEF SnapshotAfterCommit
<1> QED BY <1>1, Invariance, PTL

\* What the planner had built is what the driver asks for within 24 hours, whatever Docker
\* Hub answers by then, if it answered the planner and both know the declared version: the
\* cache, and nothing else, keeps the two together (fat_image.py:_rust_base_published_cached).
THEOREM ChosenIsPlanned == Spec => []PlanOutlivesHub
PROOF
<1>1. ASSUME IInv, {"planned", "chosen"} \subseteq current, knew.planner, knew.driver,
             cand.msrv # Undeclared
      PROVE  chosen = planned
  <2>1. /\ Version(cand, knew.planner) = cand.msrv
        /\ DriverMsrv(cand, knew.driver) = cand.msrv
    BY <1>1 DEF Version, DriverMsrv
  <2>2. PlannerBucket(cand, knew.planner) = DriverBucket(cand, knew.driver)
    BY <2>1 DEF PlannerBucket, DriverBucket
  <2> QED BY <1>1, <2>2 DEF IInv, CurrentInv, Current
<1>2. IInv => PlanOutlivesHub
  BY <1>1 DEF PlanOutlivesHub
<1> QED BY <1>2, Invariance, PTL

\* No declared version is refused that a milestone of its day's Debian could serve.
THEOREM RefusedOnlyForAReason == Spec => []RefusedForAReason
PROOF
<1>1. ASSUME IInv, cand.msrv \in Msrv, cand.date <= MaxSdeDate,
             DriverBucket(cand, TRUE) = NoBucket,
             NEW m \in Milestone, m \in Supports[DebianFor(cand.date)]
      PROVE  m < cand.msrv
  <2>1. /\ cand.msrv \in Nat /\ cand.date \in Nat /\ DriverMsrv(cand, TRUE) = cand.msrv
    BY <1>1, DriverMsrvType, NoneIsNoNumber DEF IInv, TypeInv, HubInv
  <2>2. BucketFor(cand.msrv, cand.date) = NoBucket
    <3>1. MaxSdeDate \in Nat
      BY SelectionAssumption
    <3>2. ~(cand.date > MaxSdeDate)
      BY <1>1, <2>1, <3>1, SMT
    <3> QED BY <1>1, <2>1, <3>2 DEF DriverBucket
  <2>3. ~(m >= cand.msrv)
    BY <1>1, <2>1, <2>2, BucketExists
  <2> QED BY <2>1, <2>3, SMT DEF Milestone
<1>2. IInv => RefusedForAReason
  BY <1>1 DEF RefusedForAReason
<1> QED BY <1>2, Invariance, PTL

\* A candidate that declares no version, or whose version the driver could not read, is never
\* refused for its image: the floor that stands in for it (cargo_drive.py:65-87) is below some
\* milestone of every Debian's days.
THEOREM UndeclaredIsServed ==
    Spec => [](cand.date <= MaxSdeDate =>
                   /\ DriverBucket(cand, FALSE) # NoBucket
                   /\ cand.msrv = Undeclared => DriverBucket(cand, TRUE) # NoBucket)
PROOF
<1>1. ASSUME NEW d \in Nat
      PROVE  /\ FloorFor(d) \in Nat
             /\ \E m \in Supports[DebianFor(d)] : m >= FloorFor(d)
  <2>1. FloorFor(d) \in {3900, 5600} /\ (d < 20190706 => FloorFor(d) = 3900)
    BY SMT DEF FloorFor
  <2>2. CASE d < 20190706
    <3>1. 3900 \in Supports[DebianFor(d)]
      BY <2>2, SMT DEF DebianFor, Supports
    <3> QED BY <2>1, <2>2, <3>1, SMT
  <2>3. CASE ~(d < 20190706)
    <3>1. 7500 \in Supports[DebianFor(d)] \/ 9200 \in Supports[DebianFor(d)]
      BY <2>3, SMT DEF DebianFor, Supports
    <3> QED BY <2>1, <3>1, SMT
  <2> QED BY <2>2, <2>3
<1>2. ASSUME IInv, cand.date <= MaxSdeDate, NEW known \in BOOLEAN,
             Version(cand, known) = Undeclared
      PROVE  DriverBucket(cand, known) # NoBucket
  <2>1. cand.date \in Nat /\ DriverMsrv(cand, known) = FloorFor(cand.date)
    BY <1>2, DriverMsrvType DEF IInv, TypeInv, HubInv, DriverMsrv
  <2>2. BucketFor(FloorFor(cand.date), cand.date) # NoBucket
    BY <1>1, <2>1, BucketExists
  <2>3. ~(cand.date > MaxSdeDate)
    BY <1>2, <2>1, SelectionAssumption, SMT
  <2> QED BY <2>1, <2>2, <2>3 DEF DriverBucket
<1>3. Version(cand, FALSE) = Undeclared /\ (cand.msrv = Undeclared => Version(cand, TRUE) = Undeclared)
  BY DEF Version
<1>4. IInv /\ cand.date <= MaxSdeDate =>
         /\ DriverBucket(cand, FALSE) # NoBucket
         /\ cand.msrv = Undeclared => DriverBucket(cand, TRUE) # NoBucket
  BY <1>2, <1>3
<1> QED BY <1>4, Invariance, PTL

\* A candidate that needs a newer compiler gets no older one than another of its day, and
\* whoever needs less is served as well (fat_image.py:223-247).
THEOREM NewerNeedsNoOlder ==
    ASSUME NEW v \in Nat, NEW w \in Nat, v <= w, NEW d \in Nat, BucketFor(w, d) # NoBucket
    PROVE  /\ BucketFor(v, d) # NoBucket
           /\ BucketFor(v, d).milestone <= BucketFor(w, d).milestone
PROOF
<1> DEFINE m == BucketFor(w, d).milestone
<1>1. m \in Supports[DebianFor(d)] /\ m >= w /\ m \in Nat
  BY BucketParts, SMT DEF Milestone
<1>2. m >= v
  BY <1>1, SMT
<1> HIDE DEF m
<1>3. BucketFor(v, d) # NoBucket
  BY <1>1, <1>2, BucketExists
<1>4. BucketFor(v, d).milestone \in Milestone /\ m >= BucketFor(v, d).milestone
  BY <1>1, <1>2, <1>3, BucketParts
<1>5. BucketFor(v, d).milestone <= m
  BY <1>1, <1>4, SMT DEF Milestone
<1> QED BY <1>3, <1>5 DEF m
=============================================================================
