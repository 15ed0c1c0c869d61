--------------------------- MODULE MCClassification ---------------------------
(* Logs of up to MaxLines markers.                                         *)
EXTENDS Classification
=============================================================================
