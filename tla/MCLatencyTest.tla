--------------------------- MODULE MCLatencyTest ---------------------------
(* LatencyTest for TLC.                                                    *)
EXTENDS LatencyTest
=============================================================================
