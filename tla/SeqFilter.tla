----------------------------- MODULE SeqFilter -----------------------------
(***************************************************************************)
(* The elements of a sequence that are in a set, in their order: SelectSeq *)
(* of the Sequences module for a test that is membership, written as a     *)
(* recursive function so that it can be reasoned about.                    *)
(***************************************************************************)
EXTENDS Integers, Sequences

Only(s, S) ==
  LET only[i \in 0 .. Len(s)] ==
        IF i = 0 THEN <<>>
        ELSE IF s[i] \in S THEN Append(only[i - 1], s[i]) ELSE only[i - 1]
  IN  only[Len(s)]
=============================================================================
