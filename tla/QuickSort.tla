----------------------------- MODULE QuickSort -----------------------------
(***************************************************************************)
(* qsort of project/test/node/quicksort: sorts array[start .. end] in      *)
(* descending order, in place.  One action is one turn of the partition    *)
(* loop, or one return; the recursion is the stack calls, whose last       *)
(* element is the call that runs.                                          *)
(***************************************************************************)
EXTENDS Integers, Sequences, FiniteSets, SequencesExt

CONSTANTS Values,  \* the values an array is made of
          MaxSize  \* longest array

ASSUME SortAssumption == Values \subseteq Int /\ MaxSize \in Nat \ {0}

VARIABLES array,   \* the array, indexed from 0
          calls,   \* for each qsort in progress its locals and where it is
          given    \* the array as it was given, to compare with

svars == <<array, calls, given>>

Indices == DOMAIN array

\* The locals of a call that has passed the tests for a range of one or none.
Locals(start, end) ==
  LET mid == (end - start + 1) \div 2 + start
  IN  [start |-> start, end |-> end, mid |-> mid, j |-> start, k |-> end, at |-> "loop"]

\* qsort(array, start, end) called by the calls that are in progress.
Calling(stack, start, end) ==
  IF end <= start THEN stack ELSE Append(stack, Locals(start, end))

SInit ==
  /\ \E n \in 1 .. MaxSize : given \in [0 .. n - 1 -> Values]
  /\ array = given
  /\ calls = Calling(<<>>, 0, Cardinality(DOMAIN given) - 1)

-----------------------------------------------------------------------------

Swap(a, i, l) == [a EXCEPT ![i] = a[l], ![l] = a[i]]

\* Mutant: j moves only when elements are swapped.
LeftHalfStays(s) ==
  IF s.j >= s.mid \/ s.a[s.mid] <= s.a[s.j] THEN s
  ELSE [s EXCEPT !.a = Swap(@, s.j, s.mid), !.mid = s.j, !.j = @ + 1]

\* The first half of a turn: j moves up to mid, and a smaller element under
\* it changes places with the pivot.
LeftHalf(s) ==
  IF s.j >= s.mid THEN s
  ELSE LET swap == s.a[s.mid] > s.a[s.j]
       IN  [s EXCEPT !.a = IF swap THEN Swap(@, s.j, s.mid) ELSE @,
                     !.mid = IF swap THEN s.j ELSE @,
                     !.j = @ + 1]

\* The second half: k moves down to mid, likewise.
RightHalf(s) ==
  IF s.k <= s.mid THEN s
  ELSE LET swap == s.a[s.mid] < s.a[s.k]
       IN  [s EXCEPT !.a = IF swap THEN Swap(@, s.k, s.mid) ELSE @,
                     !.mid = IF swap THEN s.k ELSE @,
                     !.k = @ - 1]

top == Last(calls)

Partition ==
  /\ calls # <<>> /\ top.at = "loop" /\ top.j <= top.k
  /\ LET s == RightHalf(LeftHalf([a |-> array, mid |-> top.mid, j |-> top.j, k |-> top.k]))
     IN  /\ array' = s.a
         /\ calls' = [calls EXCEPT ![Len(calls)].mid = s.mid, ![Len(calls)].j = s.j,
                                   ![Len(calls)].k = s.k]
  /\ UNCHANGED given

\* The loop ends: the upper part is sorted first, ...
SortUpper ==
  /\ calls # <<>> /\ top.at = "loop" /\ top.j > top.k
  /\ calls' = Calling([calls EXCEPT ![Len(calls)].at = "upper"], top.mid + 1, top.end)
  /\ UNCHANGED <<array, given>>

\* Mutant: the lower part ends one too early.
SortLowerShort ==
  /\ calls # <<>> /\ top.at = "upper"
  /\ calls' = Calling([calls EXCEPT ![Len(calls)].at = "lower"], top.start, top.mid - 2)
  /\ UNCHANGED <<array, given>>

\* ... then the lower part, ...
SortLower ==
  /\ calls # <<>> /\ top.at = "upper"
  /\ calls' = Calling([calls EXCEPT ![Len(calls)].at = "lower"], top.start, top.mid - 1)
  /\ UNCHANGED <<array, given>>

\* ... and the call returns.
SortReturn ==
  /\ calls # <<>> /\ top.at = "lower"
  /\ calls' = Front(calls)
  /\ UNCHANGED <<array, given>>

SNext == Partition \/ SortUpper \/ SortLower \/ SortReturn

SFairness == WF_svars(SNext)

SSpec == SInit /\ [][SNext]_svars /\ SFairness

-----------------------------------------------------------------------------
(* Properties                                                              *)

\* The types: start, end, mid, j and k of every call stay in the range it was
\* given, j and k at most one past its ends, so that no access is out of bounds.
SortTypeOK ==
  /\ array \in [DOMAIN given -> Values]
  /\ \A d \in DOMAIN calls :
       /\ calls[d].start \in Indices /\ calls[d].end \in Indices
       /\ calls[d].mid \in calls[d].start .. calls[d].end
       /\ calls[d].j \in calls[d].start .. calls[d].end + 1
       /\ calls[d].k \in calls[d].start - 1 .. calls[d].end
       /\ calls[d].at \in {"loop", "upper", "lower"}

\* At every moment the array holds the given elements, each as often as it
\* was given: no swap of the partition, with its moving pivot, loses one.
Rearranged ==
  \A v \in Values : Cardinality({i \in Indices : array[i] = v})
                      = Cardinality({i \in Indices : given[i] = v})

\* When the outermost call has returned the array is in descending order, and
\* it has kept its elements.
SortedAtEnd ==
  /\ Rearranged
  /\ calls = <<>> => \A i, l \in Indices : i < l => array[i] >= array[l]

\* Both indices of the running partition loop have come to mid.
Stuck == calls # <<>> /\ top.at = "loop" /\ top.j = top.mid /\ top.k = top.mid

\* The loop runs while j <= k, but moves neither when both have come to mid:
\* a sort comes to its end, or to this point, and nowhere else.
EndsOrSticks == <>(calls = <<>> \/ Stuck)
=============================================================================
