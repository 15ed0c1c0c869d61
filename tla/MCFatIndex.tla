------------------------------ MODULE MCFatIndex ------------------------------
(* Two processes and two images.                                           *)
EXTENDS FatIndex, TLC

CONSTANTS p1, p2, t1, t2

\* Processes and tags differ in name only.
Alike == Permutations({p1, p2}) \cup Permutations({t1, t2})
=============================================================================
