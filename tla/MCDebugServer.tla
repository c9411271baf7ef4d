--------------------------- MODULE MCDebugServer ---------------------------
(* Small instances of DebugServer.  Handles are interchangeable in every   *)
(* run that checks no liveness.                                            *)
EXTENDS DebugServer, TLC

HandleSymmetry == Permutations(Handles)
=============================================================================
