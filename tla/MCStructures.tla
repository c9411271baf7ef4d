---------------------------- MODULE MCStructures ----------------------------
(***************************************************************************)
(* The sequential code of the repository that works on data in memory: one *)
(* of the three runs, the others are at rest as after their end.           *)
(***************************************************************************)
EXTENDS MultiDelegate, QuickSort, ReverList

VARIABLE program

vars == <<dvars, svars, lvars, program>>

SortAtRest == array = <<>> /\ calls = <<>> /\ given = <<>>

ListAtRest ==
  /\ next = [p \in Nodes |-> NIL] /\ live = {} /\ count = 1
  /\ node = NIL /\ phase = "freelist"

Init ==
  /\ DInit
  /\ \/ program = "delegate" /\ SortAtRest /\ ListAtRest
     \/ program = "qsort" /\ SInit /\ ListAtRest
     \/ program = "reverlist" /\ SortAtRest /\ LInit

Next ==
  \/ program = "delegate" /\ DNext /\ UNCHANGED <<svars, lvars, program>>
  \/ program = "qsort" /\ SNext /\ UNCHANGED <<dvars, lvars, program>>
  \/ program = "reverlist" /\ LNext /\ UNCHANGED <<dvars, svars, program>>

Spec == Init /\ [][Next]_vars /\ SFairness

\* The types of the variables of the three programs.
StructuresTypeOK == DelegateTypeOK /\ SortTypeOK /\ ListTypeOK
=============================================================================
