----------------------------- MODULE ReverList -----------------------------
(***************************************************************************)
(* The linked list of project/test/node/reverlist: built by initlist,      *)
(* reversed in place by reverlist, freed by freelist.  Node 0 is the       *)
(* header, node i the one with data = i - 1.                               *)
(***************************************************************************)
EXTENDS Integers, Sequences, FiniteSets

CONSTANT MaxCount   \* longest list

ASSUME CountAssumption == MaxCount \in Nat \ {0}

VARIABLES next,    \* the next pointer of each node
          live,    \* the nodes that are allocated
          count,   \* the number of nodes asked for
          node,    \* the local pointer: temp of initlist, node of reverlist,
                   \* per of freelist
          phase    \* the function that runs

lvars == <<next, live, count, node, phase>>

NIL == -1
Nodes == 0 .. MaxCount
header == 0

\* The header comes from "new Node", which leaves its next undetermined.
LInit ==
  /\ count \in 1 .. MaxCount
  /\ \E junk \in Nodes \cup {NIL} : next = [p \in Nodes |-> IF p = header THEN junk ELSE NIL]
  /\ live = {header} /\ node = header /\ phase = "initlist"

\* initlist: one more node, value-initialised, behind the last one.
InitList ==
  /\ phase = "initlist" /\ Cardinality(live) <= count
  /\ LET p == Cardinality(live) IN
     /\ next' = [next EXCEPT ![node] = p, ![p] = NIL]
     /\ live' = live \cup {p} /\ node' = p
  /\ UNCHANGED <<count, phase>>

\* reverlist takes the list off the header ...
StartReverse ==
  /\ phase = "initlist" /\ Cardinality(live) > count
  /\ node' = next[header] /\ next' = [next EXCEPT ![header] = NIL]
  /\ phase' = "reverlist"
  /\ UNCHANGED <<live, count>>

\* Mutant: next is read after node->next was set.
RelinkLosesNext ==
  /\ phase = "reverlist" /\ node # NIL
  /\ next' = [next EXCEPT ![header] = node, ![node] = next[header]]
  /\ node' = next[header]
  /\ UNCHANGED <<live, count, phase>>

\* ... and puts its nodes back in front, one by one.
RelinkNode ==
  /\ phase = "reverlist" /\ node # NIL
  /\ next' = [next EXCEPT ![header] = node, ![node] = next[header]]
  /\ node' = next[node]
  /\ UNCHANGED <<live, count, phase>>

StartFree ==
  /\ phase = "reverlist" /\ node = NIL
  /\ node' = header /\ phase' = "freelist"
  /\ UNCHANGED <<next, live, count>>

\* freelist reads next before it deletes the node.
FreeNode ==
  /\ phase = "freelist" /\ node # NIL
  /\ live' = live \ {node} /\ node' = next[node]
  /\ UNCHANGED <<next, count, phase>>

LNext == InitList \/ StartReverse \/ RelinkNode \/ StartFree \/ FreeNode

-----------------------------------------------------------------------------
(* Properties                                                              *)

\* The types: every pointer that is followed or stored is a node or null.
ListTypeOK ==
  /\ next \in [Nodes -> Nodes \cup {NIL}] /\ live \subseteq Nodes
  /\ count \in 1 .. MaxCount /\ node \in Nodes \cup {NIL}
  /\ phase \in {"initlist", "reverlist", "freelist"}

\* The nodes met from p on, at most as many as there are: a chain of that
\* length is a cycle.
Chain(p) ==
  LET met[i \in 0 .. MaxCount] ==
        IF i = 0 THEN p ELSE IF met[i - 1] = NIL THEN NIL ELSE next[met[i - 1]]
  IN  [i \in 1 .. Cardinality({n \in 0 .. MaxCount : met[n] # NIL}) |-> met[i - 1]]

\* While the list is reversed its nodes are, between them, on the chain of the
\* header and on that of node: those done already in descending, the others
\* in ascending order, none lost, none twice, and no cycle.
ReversingKeepsAll ==
  phase = "reverlist" =>
    LET done == Len(Chain(next[header])) IN
    /\ Chain(next[header]) = [i \in 1 .. done |-> done + 1 - i]
    /\ Chain(node) = [i \in 1 .. count - done |-> done + i]

\* Freeing follows the reversed list from the header on: what it deletes is
\* allocated, what is left is ahead of it, and it ends when all are deleted.
FreesEachOnce ==
  phase = "freelist" =>
    /\ node # NIL => node \in live
    /\ live = {Chain(node)[i] : i \in DOMAIN Chain(node)}

\* From reversing to freeing, no node of the list is lost, met twice or used
\* after it was deleted, whatever the header's next held at first.
ListKept == ReversingKeepsAll /\ FreesEachOnce
=============================================================================
