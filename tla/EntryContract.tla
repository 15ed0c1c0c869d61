----------------------------- MODULE EntryContract -----------------------------
(***************************************************************************)
(* What a published entry promises its readers about reproducing it        *)
(* (pipelines/cargo/README.md:166-178): the environment recorded for a     *)
(* platform is never another one later, and verifications are added, never *)
(* taken back.                                                             *)
(***************************************************************************)
EXTENDS Sequences, SequencesExt

CONSTANTS
    Platform,      \* container platforms
    PlatformOf,    \* the platform of each host's containers
    Digest,        \* environments
    Record,        \* possible records of verifiedOn
    NoDigest

VARIABLES
    fingerprints,    \* reproduction.environmentFingerprints, by platform
    verifiedOn       \* reproduction.verifiedOn, oldest first

Init ==
    /\ fingerprints \in [Platform -> Digest \cup {NoDigest}]
    /\ verifiedOn = <<>>

\* A new version of the entry is published: one or more verifications, each by a
\* platform whose environment is recorded by then.
Publish ==
    /\ \A p \in Platform : fingerprints[p] # NoDigest => fingerprints'[p] = fingerprints[p]
    /\ IsStrictPrefix(verifiedOn, verifiedOn')
    /\ \A i \in DOMAIN verifiedOn' :
          /\ verifiedOn'[i] \in Record
          /\ fingerprints'[PlatformOf[verifiedOn'[i].host]] # NoDigest

Spec == Init /\ [][Publish]_<<fingerprints, verifiedOn>>
=============================================================================
