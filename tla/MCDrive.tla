------------------------------ MODULE MCDrive ------------------------------
(* Small instances of the driver.                                          *)
EXTENDS Drive, TLC

CONSTANTS c1, c2, c3, k1, k2, e1, e2, e3, w1, w2, t1, t2

MCEntryOf == (c1 :> e1) @@ (c2 :> e2)

MCKeyOf == (c1 :> k1) @@ (c2 :> k2)

\* The third line has the key of the second, mined again after a push to the same request
\* which lies behind --max-sde-date.
ThreeEntryOf == MCEntryOf @@ (c3 :> e3)
ThreeKeyOf == MCKeyOf @@ (c3 :> k2)

Plain == [pool |-> {w1, w2}, bucket |-> [c \in Candidate |-> t1], late |-> {},
          force |-> NoTag, build |-> FALSE, skip |-> FALSE, reassemble |-> FALSE,
          verify |-> FALSE, db |-> FALSE]

\* Two workers with a database; a serial run that may build images for another bucketing; a
\* re-assembling and verifying one without preflight; one with an earlier --max-sde-date, a
\* candidate nobody can bucket and a forced tag.  Either worker may be the serial one.
MCOptions ==
    {[Plain EXCEPT !.db = TRUE]} \cup
    UNION {{[Plain EXCEPT !.pool = {w}, !.bucket = (c1 :> t2) @@ (c2 :> t2), !.build = TRUE],
            [Plain EXCEPT !.pool = {w}, !.bucket = (c1 :> t2) @@ (c2 :> t1),
                          !.reassemble = TRUE, !.skip = TRUE, !.verify = TRUE],
            [Plain EXCEPT !.pool = {w}, !.bucket = (c1 :> NoTag) @@ (c2 :> t1), !.late = {c2},
                          !.force = t1]} : w \in {w1, w2}}

SameWorkers == Permutations({w1, w2})

\* One pool of two workers, alone or with a serial run, for the other two configurations.
PoolOnly == {[Plain EXCEPT !.db = TRUE]}
PoolAndSerial == {[Plain EXCEPT !.late = {c3}, !.db = TRUE, !.verify = TRUE],
                  [Plain EXCEPT !.late = {c3}, !.pool = {w1}]}
=============================================================================
