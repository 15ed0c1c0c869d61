-------------------------- MODULE MCPipelineIndex --------------------------
(* A small instance of the index.                                          *)
EXTENDS PipelineIndex, TLC

CONSTANTS e1, e2, d1, m1

\* One driver with both entries.
OneDriver == d1 :> {e1, e2}
=============================================================================
