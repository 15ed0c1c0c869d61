---------------------------- MODULE BatchLedger ----------------------------
(***************************************************************************)
(* What the state file of a batch promises (cargo_drive.py:3-24, 130-149): *)
(* a candidate is worked on by one worker at a time, is given a verdict    *)
(* only by the worker that holds it, keeps that verdict over every stop,   *)
(* crash and resume, and is taken again only after an operator removed its *)
(* record.  Drive implements this specification.                           *)
(***************************************************************************)

CONSTANTS Candidate,   \* lines of the candidates file
          Verdict,     \* the terminal statuses
          NoVerdict    \* what a candidate without a record has

VARIABLES verdict,     \* the last record about each candidate
          inFlight     \* candidates a worker holds

batchVars == <<verdict, inFlight>>

BatchTypeOK ==
    /\ verdict \in [Candidate -> Verdict \cup {NoVerdict}]
    /\ inFlight \subseteq Candidate

BatchInit ==
    /\ verdict = [c \in Candidate |-> NoVerdict]
    /\ inFlight = {}

\* A worker takes a candidate nobody holds and nobody has judged.
Take(c) ==
    /\ c \notin inFlight
    /\ inFlight' = inFlight \cup {c}
    /\ verdict[c] = NoVerdict
    /\ UNCHANGED verdict

\* The worker that holds the candidate writes its verdict.
Settle(c) ==
    /\ c \in inFlight
    /\ inFlight' = inFlight \ {c}
    /\ verdict[c] = NoVerdict
    /\ \E v \in Verdict : verdict' = [verdict EXCEPT ![c] = v]

\* A shutdown, a crash or an exception lets go of candidates without a verdict.
Abandon(S) ==
    /\ S # {}
    /\ inFlight' = inFlight \ S
    /\ UNCHANGED verdict

\* An operator deletes the line of a candidate while no driver runs.
Forget(c) ==
    /\ inFlight = {}
    /\ verdict[c] # NoVerdict
    /\ verdict' = [verdict EXCEPT ![c] = NoVerdict]
    /\ UNCHANGED inFlight

BatchNext ==
    \/ \E c \in Candidate : Take(c) \/ Settle(c) \/ Forget(c)
    \/ \E S \in SUBSET inFlight : Abandon(S)

BatchSpec == BatchInit /\ [][BatchNext]_batchVars
=============================================================================
