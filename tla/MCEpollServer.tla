--------------------------- MODULE MCEpollServer ---------------------------
(* A small instance of EpollServer: the first byte of c1 is a 0.  No       *)
(* symmetry: the run checks liveness as well.                              *)
EXTENDS EpollServer

CONSTANTS c1, c2

MCZeros == {<<c1, 1>>}
=============================================================================
