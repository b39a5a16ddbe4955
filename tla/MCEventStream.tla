--------------------------- MODULE MCEventStream ---------------------------
(* Constants for TLC.                                                      *)
EXTENDS EventStream

CONSTANTS w1, w2

MCTwoWriters == {w1, w2}
=============================================================================
