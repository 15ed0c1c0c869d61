--------------------------- MODULE MCContainers ---------------------------
(* Small instances of the container registry.                              *)
EXTENDS Containers
CONSTANTS w1, w2, n1, n2, n3, n4
=============================================================================
