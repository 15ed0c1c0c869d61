----------------------------- MODULE MCRegenerate -----------------------------
(* Two runs on one host, one on another with another platform.             *)
EXTENDS Regenerate, TLC

CONSTANTS r1, r2, r3, h1, h2, p1, p2, d1, d2

Hosts == (r1 :> h1) @@ (r2 :> h1) @@ (r3 :> h2)
Platforms == (h1 :> p1) @@ (h2 :> p2)

\* The runs on one host, and the environments, differ in name only.
Alike == Permutations({r1, r2}) \cup Permutations({d1, d2})
=============================================================================
