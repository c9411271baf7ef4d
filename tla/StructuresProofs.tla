-------------------------- MODULE StructuresProofs --------------------------
(***************************************************************************)
(* The delegate list, qsort and the linked list for any targets, values    *)
(* and sizes.                                                              *)
(*                                                                         *)
(* OwnInv: the pointers of the list are, but for nulls, the allocated      *)
(* addresses without repetition.  HeapInv: they call different targets,    *)
(* which is why -= may stop at the first one it finds.  SortInv: what the  *)
(* indices of a partition loop have passed is on its side of the pivot; a  *)
(* call in progress has its two parts on either side of its pivot, the     *)
(* parts that are finished in order, and the calls above it inside the     *)
(* part it is waiting for.  LinkInv: the nodes that reverlist has moved    *)
(* lead down from the header, the others up from the node it is at.        *)
(***************************************************************************)
EXTENDS MCStructures, SequenceFacts, FiniteSetTheorems

\* A call of operator() that has called a delegate stands inside the list, one
\* that looks for the next delegate at most behind its end.
IterInv ==
  /\ \A d \in DOMAIN iters :
       IF d = Len(iters) /\ mode = "loop" THEN iters[d].at <= Len(mListDelegates) + 1
                                          ELSE iters[d].at <= Len(mListDelegates)
  /\ mode = "loop" => iters # <<>>

\* The pointers of the list, nulls apart, are the allocated addresses, each once.
OwnInv ==
  /\ \A i \in DOMAIN mListDelegates : mListDelegates[i] \in Allocated \cup {NULL}
  /\ \A a \in Allocated : \E i \in DOMAIN mListDelegates : mListDelegates[i] = a
  /\ \A i, l \in DOMAIN mListDelegates :
       mListDelegates[i] = mListDelegates[l] /\ mListDelegates[i] # NULL => i = l

\* temp of initlist, whose next it sets, is a node.
ListInv == phase = "initlist" => node # NIL

-----------------------------------------------------------------------------
(* The invariant of qsort                                                  *)

\* a is in descending order from lo to hi.
Desc(a, lo, hi) ==
  \A i, l \in DOMAIN a : lo <= i /\ i < l /\ l <= hi => a[i] >= a[l]

\* What j and k of a partition loop have passed is on its side of the pivot.
Passed(a, lo, hi, mid, j, k) ==
  /\ j <= mid + 1 /\ k >= mid - 1
  /\ \A i \in DOMAIN a : lo <= i /\ i < j /\ i # mid => a[i] >= a[mid]
  /\ \A i \in DOMAIN a : k < i /\ i <= hi /\ i # mid => a[i] <= a[mid]

\* The parts on either side of mid are on their side of the pivot.
Split(a, lo, hi, mid) ==
  /\ \A i \in DOMAIN a : lo <= i /\ i < mid => a[i] >= a[mid]
  /\ \A i \in DOMAIN a : mid < i /\ i <= hi => a[i] <= a[mid]

\* The indices are finitely many integers without a gap.
Contiguous ==
  /\ DOMAIN given \subseteq Int /\ IsFiniteSet(DOMAIN given)
  /\ \A i, l \in DOMAIN given : \A x \in Int : i <= x /\ x <= l => x \in DOMAIN given

Frames == [start : Int, end : Int, mid : Int, j : Int, k : Int,
           at : {"loop", "upper", "lower"}]

\* What is true of call c, whether or not it is the one that runs.
FrameInv(a, c) ==
  /\ c.at = "loop" => Passed(a, c.start, c.end, c.mid, c.j, c.k)
  /\ c.at # "loop" => Split(a, c.start, c.end, c.mid)
  /\ c.at = "lower" => Desc(a, c.mid + 1, c.end)

\* Call c runs: the parts it has called qsort for are in order.
TopInv(a, c) ==
  /\ c.at = "upper" => Desc(a, c.mid + 1, c.end)
  /\ c.at = "lower" => Desc(a, c.start, c.mid - 1)

\* Call e works inside the part that call c is waiting for.
Inside(c, e) ==
  /\ c.at = "upper" => c.mid + 1 <= e.start /\ e.end <= c.end
  /\ c.at = "lower" => c.start <= e.start /\ e.end <= c.mid - 1

\* Call e works on the whole of the part that call c is waiting for.
Covers(c, e) ==
  /\ c.at = "upper" => e.start = c.mid + 1 /\ e.end = c.end
  /\ c.at = "lower" => e.start = c.start /\ e.end = c.mid - 1

StackInv ==
  /\ calls \in Seq(Frames)
  /\ \A d \in DOMAIN calls : FrameInv(array, calls[d])
  /\ calls # <<>> => TopInv(array, calls[Len(calls)])
  /\ \A d, e \in DOMAIN calls : d < e => calls[d].at # "loop" /\ Inside(calls[d], calls[e])
  /\ \A d, e \in DOMAIN calls : e = d + 1 => Covers(calls[d], calls[e])
  /\ calls # <<>> => \A i \in DOMAIN given : calls[1].start <= i /\ i <= calls[1].end
  /\ calls = <<>> => \A i, l \in DOMAIN given : i < l => array[i] >= array[l]

SortInv == SortTypeOK /\ Contiguous /\ StackInv /\ Rearranged

-----------------------------------------------------------------------------
(* One program runs, the others rest                                       *)

\* A step of the whole is a step of each program, or leaves it alone.
LEMMA OneRuns ==
  ASSUME [Next]_vars
  PROVE  [DNext]_dvars /\ [SNext]_svars /\ [LNext]_lvars
  BY DEF Next, vars, dvars, svars, lvars

-----------------------------------------------------------------------------
(* Sequences                                                               *)

\* erase: what stood behind the element moves one place forward.
LEMMA Removed ==
  ASSUME NEW S, NEW s \in Seq(S), NEW i \in DOMAIN s
  PROVE  /\ RemoveAt(s, i) \in Seq(S) /\ Len(RemoveAt(s, i)) = Len(s) - 1
         /\ \A l \in DOMAIN RemoveAt(s, i) :
              RemoveAt(s, i)[l] = IF l < i THEN s[l] ELSE s[l + 1]
  <1> DEFINE p == SubSeq(s, 1, i - 1)
             q == SubSeq(s, i + 1, Len(s))
  <1>1. i \in 1 .. Len(s) /\ Len(s) \in Nat
    OBVIOUS
  <1>2. p \in Seq(S) /\ Len(p) = i - 1 /\ \A l \in 1 .. i - 1 : p[l] = s[l]
    BY <1>1
  <1>3. q \in Seq(S) /\ Len(q) = Len(s) - i /\ \A l \in 1 .. Len(s) - i : q[l] = s[i + l]
    BY <1>1
  <1>4. RemoveAt(s, i) = p \o q
    BY DEF RemoveAt
  <1> HIDE DEF p, q
  <1>5. p \o q \in Seq(S) /\ Len(p \o q) = Len(s) - 1
    BY <1>1, <1>2, <1>3
  <1>6. \A l \in 1 .. Len(p) + Len(q) :
          (p \o q)[l] = IF l <= Len(p) THEN p[l] ELSE q[l - Len(p)]
    BY <1>2, <1>3, ConcatProperties
  <1>7. ASSUME NEW l \in 1 .. Len(s) - 1
        PROVE  (p \o q)[l] = IF l < i THEN s[l] ELSE s[l + 1]
    <2>1. CASE l < i
      BY <1>1, <1>2, <1>3, <1>6, <2>1
    <2>2. CASE ~(l < i)
      <3>1. l - (i - 1) \in 1 .. Len(s) - i /\ i + (l - (i - 1)) = l + 1
        BY <1>1, <2>2
      <3>2. q[l - (i - 1)] = s[l + 1]
        BY <1>3, <3>1
      <3> QED  BY <1>1, <1>2, <1>3, <1>6, <2>2, <3>2
    <2> QED  BY <2>1, <2>2
  <1>8. DOMAIN (p \o q) = 1 .. Len(s) - 1
    BY <1>1, <1>5
  <1> QED  BY <1>4, <1>5, <1>7, <1>8

\* What is left when the last element is taken off.
LEMMA Fronted ==
  ASSUME NEW S, NEW s \in Seq(S), s # <<>>
  PROVE  /\ Front(s) \in Seq(S) /\ Len(Front(s)) = Len(s) - 1
         /\ \A l \in DOMAIN Front(s) : Front(s)[l] = s[l]
  <1>1. Len(s) \in Nat \ {0} /\ \A l \in 1 .. Len(s) - 1 : s[l] \in S
    OBVIOUS
  <1>2. /\ SubSeq(s, 1, Len(s) - 1) \in Seq(S) /\ Len(SubSeq(s, 1, Len(s) - 1)) = Len(s) - 1
        /\ \A l \in 1 .. Len(s) - 1 : SubSeq(s, 1, Len(s) - 1)[l] = s[l]
    <2>1. 1 \in Int /\ Len(s) - 1 \in Int
      BY <1>1
    <2>2. /\ SubSeq(s, 1, Len(s) - 1) \in Seq(S)
          /\ Len(SubSeq(s, 1, Len(s) - 1))
               = IF 1 <= Len(s) - 1 THEN (Len(s) - 1) - 1 + 1 ELSE 0
          /\ \A l \in 1 .. (Len(s) - 1) - 1 + 1 :
               SubSeq(s, 1, Len(s) - 1)[l] = s[1 + l - 1]
      BY <1>1, <2>1, SubSeqProperties
    <2>3. (Len(s) - 1) - 1 + 1 = Len(s) - 1
          /\ \A l \in 1 .. Len(s) - 1 : 1 + l - 1 = l
      BY <1>1
    <2>4. \A l \in 1 .. Len(s) - 1 : SubSeq(s, 1, Len(s) - 1)[l] = s[l]
      BY <2>2, <2>3
    <2>5. (IF 1 <= Len(s) - 1 THEN (Len(s) - 1) - 1 + 1 ELSE 0) = Len(s) - 1
      <3>1. \A n \in Nat \ {0} : (IF 1 <= n - 1 THEN (n - 1) - 1 + 1 ELSE 0) = n - 1
        OBVIOUS
      <3> QED  BY <1>1, <3>1
    <2> QED  BY <2>2, <2>4, <2>5
  <1>3. DOMAIN SubSeq(s, 1, Len(s) - 1) = 1 .. Len(s) - 1
    BY <1>1, <1>2
  <1> QED  BY <1>2, <1>3 DEF Front

-----------------------------------------------------------------------------
(* The delegates                                                           *)

Iters == [at : 0 .. MaxLen + 1, valid : BOOLEAN]

\* The iterators stay in the list's bounds through every operation.
LEMMA DelegateStep ==
  ASSUME DelegateTypeOK, IterInv, [DNext]_dvars
  PROVE  DelegateTypeOK' /\ IterInv'
  <1> USE DelegateAssumption
  <1>0. /\ Len(mListDelegates) \in Nat /\ DOMAIN mListDelegates = 1 .. Len(mListDelegates)
        /\ Len(iters) \in Nat /\ DOMAIN iters = 1 .. Len(iters) /\ iters \in Seq(Iters)
    BY DEF DelegateTypeOK, Iters
  <1>c. \A d \in DOMAIN iters : iters[d] \in Iters
    BY <1>0
  <1>a. \A d \in DOMAIN iters : /\ iters[d] \in Iters
                               /\ iters[d].at \in 0 .. MaxLen + 1
    BY <1>c DEF Iters
  <1>b. NULL \notin Addrs
    BY DEF NULL
  <1>1. ASSUME NEW a \in Addrs, NEW t \in Targets, AddDelegate(a, t)
        PROVE  DelegateTypeOK' /\ IterInv'
    <2>1. CASE UNCHANGED <<heap, mListDelegates>>
      BY <1>1, <2>1 DEF AddDelegate, DelegateTypeOK, IterInv
    <2>2. CASE /\ Len(mListDelegates) < MaxLen
               /\ mListDelegates' = Append(mListDelegates, a)
               /\ heap' = [heap EXCEPT ![a] = t]
      <3>1. UNCHANGED <<iters, mode, undefined>>
        BY <1>1 DEF AddDelegate
      <3>2. /\ mListDelegates' \in Seq(Addrs \cup {NULL})
            /\ Len(mListDelegates') = Len(mListDelegates) + 1
        BY <2>2 DEF DelegateTypeOK
      <3>3. DelegateTypeOK'
        BY <1>0, <2>2, <3>1, <3>2 DEF DelegateTypeOK
      <3> QED  BY <1>0, <1>a, <3>1, <3>2, <3>3 DEF IterInv
    <2> QED  BY <1>1, <2>1, <2>2 DEF AddDelegate
  <1>2. ASSUME NEW t \in Targets, RemoveDelegate(t)
        PROVE  DelegateTypeOK' /\ IterInv'
    <2>1. CASE Equal(t) = {}
      BY <1>2, <2>1 DEF RemoveDelegate, DelegateTypeOK, IterInv
    <2>2. CASE Equal(t) # {}
      <3>1. Equal(t) \subseteq Nat
        BY <1>0 DEF Equal
      <3>2. \E i \in Equal(t) : \A l \in Equal(t) : i <= l
        BY <2>2, <3>1, LeastNat
      <3> DEFINE i == CHOOSE k \in Equal(t) : \A l \in Equal(t) : k <= l
      <3>3. i \in Equal(t)
        BY <3>2
      <3>4. i \in DOMAIN mListDelegates /\ mListDelegates[i] \in Addrs
        BY <3>3, <1>0 DEF Equal, compare, DelegateTypeOK
      <3>5. /\ heap' = [heap EXCEPT ![mListDelegates[i]] = NoTarget]
            /\ mListDelegates' = [mListDelegates EXCEPT ![i] = NULL]
        BY <1>2, <2>2 DEF RemoveDelegate
      <3>6. UNCHANGED <<iters, mode, undefined>>
        BY <1>2 DEF RemoveDelegate
      <3> HIDE DEF i
      <3>7. /\ mListDelegates' \in Seq(Addrs \cup {NULL})
            /\ Len(mListDelegates') = Len(mListDelegates)
        BY <3>4, <3>5 DEF DelegateTypeOK
      <3> QED  BY <3>4, <3>5, <3>6, <3>7 DEF DelegateTypeOK, IterInv
    <2> QED  BY <2>1, <2>2
  <1>3. ASSUME ClearDelegates
        PROVE  DelegateTypeOK' /\ IterInv'
    BY <1>0, <1>3 DEF ClearDelegates, DelegateTypeOK, IterInv
  <1>4. ASSUME Call
        PROVE  DelegateTypeOK' /\ IterInv'
    <2>1. iters' = Append(iters, [at |-> 1, valid |-> TRUE]) /\ [at |-> 1, valid |-> TRUE] \in Iters
      BY <1>4 DEF Call, Iters
    <2>2. /\ iters' \in Seq(Iters) /\ Len(iters') = Len(iters) + 1
          /\ iters'[Len(iters')].at = 1
          /\ \A d \in DOMAIN iters' : d # Len(iters') => d \in DOMAIN iters /\ iters'[d] = iters[d]
      BY <1>0, <2>1
    <2>3. /\ UNCHANGED <<heap, mListDelegates, undefined>> /\ mode' = "loop" /\ mode = "user"
          /\ Len(iters) < MaxDepth
      BY <1>4 DEF Call, User
    <2> QED  BY <1>0, <2>2, <2>3 DEF DelegateTypeOK, IterInv, Iters
  <1>5. ASSUME EraseNull
        PROVE  DelegateTypeOK' /\ IterInv'
    <2>1. mode = "loop" /\ UNCHANGED <<heap, mode, undefined>>
      BY <1>5 DEF EraseNull, Looping
    <2>a. /\ iter \in 1 .. Len(mListDelegates) /\ iter = iters[Len(iters)].at
          /\ Len(iters) \in DOMAIN iters
      <3>1. iters # <<>> /\ iter \in DOMAIN mListDelegates
        BY <1>5, <2>1 DEF EraseNull, IterInv
      <3>2. Len(iters) \in DOMAIN iters
        BY <1>0, <3>1
      <3>3. iter = iters[Len(iters)].at
        BY DEF iter, Last
      <3> QED  BY <1>0, <3>1, <3>2, <3>3
    <2>2. /\ mListDelegates' \in Seq(Addrs \cup {NULL})
          /\ Len(mListDelegates') = Len(mListDelegates) - 1
      <3>1. mListDelegates \in Seq(Addrs \cup {NULL}) /\ iter \in DOMAIN mListDelegates
        BY <1>5 DEF EraseNull, DelegateTypeOK
      <3>2. mListDelegates' = RemoveAt(mListDelegates, iter)
        BY <1>5 DEF EraseNull
      <3> QED  BY <3>1, <3>2, Removed
    <2> DEFINE kept(d) == iters[d].valid /\ iters[d].at # iter
    <2>3. iters' = [d \in 1 .. Len(iters) |->
                      IF d = Len(iters) \/ iters[d].at < iter THEN iters[d]
                      ELSE [at |-> iters[d].at - 1, valid |-> kept(d)]]
      BY <1>0, <1>5 DEF EraseNull
    <2>k. \A d \in DOMAIN iters : kept(d) \in BOOLEAN
      BY Zenon
    <2> HIDE DEF kept
    <2>4. \A d \in 1 .. Len(iters) :
            /\ iters'[d] \in Iters
            /\ d = Len(iters) => iters'[d].at <= Len(mListDelegates') + 1
            /\ d # Len(iters) => iters'[d].at <= Len(mListDelegates')
      <3> SUFFICES ASSUME NEW d \in 1 .. Len(iters)
                   PROVE  /\ iters'[d] \in Iters
                          /\ d = Len(iters) => iters'[d].at <= Len(mListDelegates') + 1
                          /\ d # Len(iters) => iters'[d].at <= Len(mListDelegates')
        OBVIOUS
      <3>1. CASE d = Len(iters) \/ iters[d].at < iter
        <4>1. iters'[d] = iters[d]
          BY <2>3, <3>1
        <4>2. iters[d] \in Iters /\ iters[d].at \in Int
          BY <1>0, <1>a
        <4>3. Len(mListDelegates') = Len(mListDelegates) - 1
          BY <2>2
        <4>4. iters[d].at <= iter /\ (d # Len(iters) => iters[d].at < iter)
          BY <2>a, <3>1, <4>2
        <4>5. iter \in Int /\ iter <= Len(mListDelegates) /\ Len(mListDelegates) \in Int
          BY <1>0, <2>a
        <4>6. iters[d].at <= Len(mListDelegates') + 1
          BY <4>2, <4>3, <4>4, <4>5
        <4>7. d # Len(iters) => iters[d].at <= Len(mListDelegates')
          BY <4>2, <4>3, <4>4, <4>5
        <4> QED  BY <4>1, <4>2, <4>6, <4>7
      <3>2. CASE ~(d = Len(iters) \/ iters[d].at < iter)
        <4>1. iters'[d] = [at |-> iters[d].at - 1, valid |-> kept(d)]
          BY <2>3, <3>2, Zenon
        <4>2. iters[d].at \in 0 .. MaxLen + 1 /\ iters[d].at <= Len(mListDelegates)
          BY <1>0, <1>a, <3>2 DEF IterInv
        <4>3. iters[d].at - 1 \in 0 .. MaxLen + 1 /\ iters[d].at - 1 <= Len(mListDelegates')
          <5>1. /\ iters[d].at \in Int /\ MaxLen \in Int /\ Len(mListDelegates) \in Int
                /\ 0 <= iters[d].at /\ iters[d].at <= MaxLen + 1
                /\ iter \in Int /\ 1 <= iter
            BY <1>0, <2>a, <4>2
          <5>2. iter <= iters[d].at
            BY <3>2, <5>1
          <5>3. Len(mListDelegates') = Len(mListDelegates) - 1
            BY <2>2
          <5>4. iters[d].at - 1 \in 0 .. MaxLen + 1
            BY <5>1, <5>2
          <5>5. iters[d].at - 1 <= Len(mListDelegates')
            BY <4>2, <5>1, <5>3
          <5> QED  BY <5>4, <5>5
        <4>4. iters'[d] \in Iters
          BY <1>0, <2>k, <4>1, <4>3 DEF Iters
        <4> QED  BY <3>2, <4>1, <4>3, <4>4
      <3> QED  BY <3>1, <3>2
    <2>5. iters' \in Seq(Iters) /\ Len(iters') = Len(iters)
      <3>1. iters' \in [1 .. Len(iters) -> Iters]
        BY <2>3, <2>4
      <3> QED  BY <1>0, <3>1
    <2>6. DelegateTypeOK'
      <3>1. Len(mListDelegates) <= MaxLen /\ Len(iters) <= MaxDepth
        BY DEF DelegateTypeOK
      <3>2. Len(mListDelegates') <= MaxLen /\ Len(iters') <= MaxDepth
        BY <1>0, <2>2, <2>5, <3>1
      <3>3. heap' \in [Addrs -> Targets \cup {NoTarget}]
        BY <2>1 DEF DelegateTypeOK
      <3>4. mode' \in {"user", "loop"}
        BY <2>1
      <3>5. undefined' \in BOOLEAN
        BY <2>1, Zenon DEF DelegateTypeOK
      <3> QED  BY <2>2, <2>5, <3>2, <3>3, <3>4, <3>5, Zenon DEF DelegateTypeOK, Iters
    <2>7. IterInv'
      <3>1. DOMAIN iters' = 1 .. Len(iters) /\ iters' # <<>>
        BY <1>0, <2>a, <2>5
      <3> QED  BY <2>1, <2>4, <2>5, <3>1 DEF IterInv
    <2> QED  BY <2>6, <2>7
  <1>6. ASSUME Invoke
        PROVE  DelegateTypeOK' /\ IterInv'
    BY <1>0, <1>6 DEF Invoke, Looping, iter, Last, DelegateTypeOK, IterInv
  <1>7. ASSUME Returned
        PROVE  DelegateTypeOK' /\ IterInv'
    <2>1. /\ mode = "user" /\ mode' = "loop" /\ UNCHANGED <<heap, mListDelegates>>
          /\ iters # <<>>
          /\ iters' = [iters EXCEPT ![Len(iters)].at = @ + 1]
          /\ undefined' = ~iters[Len(iters)].valid
      BY <1>7 DEF Returned, User, Last
    <2>b. Len(iters) \in DOMAIN iters
      BY <1>0, <2>1
    <2>2. iters[Len(iters)] \in Iters /\ iters[Len(iters)].at <= Len(mListDelegates)
      BY <1>a, <2>1, <2>b DEF IterInv
    <2> DEFINE moved == [iters[Len(iters)] EXCEPT !.at = @ + 1]
    <2>c. moved \in Iters /\ moved.at = iters[Len(iters)].at + 1
      <3>1. Len(mListDelegates) <= MaxLen /\ MaxLen \in Nat
        BY DEF DelegateTypeOK
      <3>2. iters[Len(iters)].at + 1 \in 0 .. MaxLen + 1
        BY <1>0, <1>a, <2>b, <2>2, <3>1
      <3> QED  BY <2>2, <3>2 DEF Iters
    <2>d. iters' = [iters EXCEPT ![Len(iters)] = moved]
      BY <2>1
    <2> HIDE DEF moved
    <2>3. /\ iters' \in Seq(Iters) /\ Len(iters') = Len(iters)
          /\ iters'[Len(iters)].at = iters[Len(iters)].at + 1
          /\ \A d \in DOMAIN iters : d # Len(iters) => iters'[d] = iters[d]
      BY <1>0, <2>b, <2>c, <2>d
    <2>4. undefined' \in BOOLEAN
      BY <2>1
    <2>5. DelegateTypeOK'
      BY <2>1, <2>3, <2>4 DEF DelegateTypeOK, Iters
    <2>6. DOMAIN iters' = 1 .. Len(iters) /\ iters' # <<>>
      BY <1>0, <2>b, <2>3
    <2>7. \A d \in DOMAIN iters : iters[d].at <= Len(mListDelegates)
      BY <2>1 DEF IterInv
    <2>8. iters[Len(iters)].at + 1 <= Len(mListDelegates) + 1
      BY <1>0, <1>a, <2>b, <2>2
    <2> QED  BY <1>0, <2>1, <2>3, <2>5, <2>6, <2>7, <2>8 DEF IterInv
  <1>8. ASSUME CallEnds
        PROVE  DelegateTypeOK' /\ IterInv'
    <2>1. /\ mode = "loop" /\ mode' = "user" /\ UNCHANGED <<heap, mListDelegates, undefined>>
          /\ iters' = Front(iters) /\ iters # <<>>
      <3>1. mode = "loop"
        BY <1>8 DEF CallEnds, Looping
      <3>2. iters # <<>>
        BY <3>1, Zenon DEF IterInv
      <3> QED  BY <1>8, <3>1, <3>2, Zenon DEF CallEnds
    <2>2. /\ iters' \in Seq(Iters) /\ Len(iters') = Len(iters) - 1
          /\ \A d \in DOMAIN iters' : iters'[d] = iters[d]
      BY <1>0, <2>1, Fronted
    <2>3. DelegateTypeOK'
      BY <1>0, <2>1, <2>2 DEF DelegateTypeOK, Iters
    <2>4. \A d \in DOMAIN iters' : d \in DOMAIN iters /\ d # Len(iters)
      BY <1>0, <2>2
    <2> QED  BY <2>1, <2>2, <2>3, <2>4 DEF IterInv
  <1>9. CASE UNCHANGED dvars
    BY <1>9 DEF dvars, DelegateTypeOK, IterInv
  <1> QED  BY <1>1, <1>2, <1>3, <1>4, <1>5, <1>6, <1>7, <1>8, <1>9 DEF DNext

\* The list owns its delegates through every operation.
LEMMA OwnStep ==
  ASSUME DelegateTypeOK, IterInv, OwnInv, [DNext]_dvars
  PROVE  OwnInv'
  <1> USE DelegateAssumption
  <1>0. /\ Len(mListDelegates) \in Nat /\ DOMAIN mListDelegates = 1 .. Len(mListDelegates)
        /\ NULL \notin Addrs /\ heap \in [Addrs -> Targets \cup {NoTarget}]
        /\ mListDelegates \in Seq(Addrs \cup {NULL})
    BY DEF DelegateTypeOK, NULL
  <1>1. ASSUME NEW a \in Addrs, NEW t \in Targets, AddDelegate(a, t)
        PROVE  OwnInv'
    <2>1. CASE UNCHANGED <<heap, mListDelegates>>
      BY <2>1 DEF OwnInv, Allocated
    <2>2. CASE /\ mListDelegates' = Append(mListDelegates, a)
               /\ heap' = [heap EXCEPT ![a] = t]
      <3>1. a \notin Allocated /\ t # NoTarget
        BY <1>1 DEF AddDelegate, newDelegate
      <3>2. Allocated' = Allocated \cup {a}
        BY <1>0, <2>2, <3>1 DEF Allocated
      <3>3. /\ DOMAIN mListDelegates' = 1 .. Len(mListDelegates) + 1
            /\ mListDelegates'[Len(mListDelegates) + 1] = a
            /\ \A i \in DOMAIN mListDelegates : mListDelegates'[i] = mListDelegates[i]
        BY <1>0, <2>2
      <3>4. \A i \in DOMAIN mListDelegates : mListDelegates[i] # a
        BY <1>0, <3>1 DEF OwnInv
      <3>5. \A i \in DOMAIN mListDelegates' : mListDelegates'[i] \in Allocated' \cup {NULL}
        BY <1>0, <3>2, <3>3 DEF OwnInv
      <3>6. \A b \in Allocated' : \E i \in DOMAIN mListDelegates' : mListDelegates'[i] = b
        BY <1>0, <3>2, <3>3 DEF OwnInv
      <3>7. \A i, l \in DOMAIN mListDelegates' :
              mListDelegates'[i] = mListDelegates'[l] /\ mListDelegates'[i] # NULL => i = l
        BY <1>0, <3>3, <3>4 DEF OwnInv
      <3> QED  BY <3>5, <3>6, <3>7 DEF OwnInv, NULL
    <2> QED  BY <1>1, <2>1, <2>2 DEF AddDelegate
  <1>2. ASSUME NEW t \in Targets, RemoveDelegate(t)
        PROVE  OwnInv'
    <2>1. CASE Equal(t) = {}
      BY <1>2, <2>1 DEF RemoveDelegate, OwnInv, Allocated
    <2>2. CASE Equal(t) # {}
      <3>1. Equal(t) \subseteq Nat
        BY <1>0 DEF Equal
      <3>2. \E i \in Equal(t) : \A l \in Equal(t) : i <= l
        BY <2>2, <3>1, LeastNat
      <3> DEFINE i == CHOOSE k \in Equal(t) : \A l \in Equal(t) : k <= l
      <3>3. i \in Equal(t)
        BY <3>2
      <3>4. i \in DOMAIN mListDelegates /\ mListDelegates[i] # NULL /\ mListDelegates[i] \in Addrs
        BY <3>3, <1>0 DEF Equal, compare
      <3>5. /\ heap' = [heap EXCEPT ![mListDelegates[i]] = NoTarget]
            /\ mListDelegates' = [mListDelegates EXCEPT ![i] = NULL]
        BY <1>2, <2>2 DEF RemoveDelegate
      <3> HIDE DEF i
      <3>6. Allocated' = Allocated \ {mListDelegates[i]}
        BY <1>0, <3>4, <3>5 DEF Allocated
      <3>7. /\ DOMAIN mListDelegates' = DOMAIN mListDelegates /\ mListDelegates'[i] = NULL
            /\ \A l \in DOMAIN mListDelegates : l # i => mListDelegates'[l] = mListDelegates[l]
        BY <1>0, <3>4, <3>5
      <3>8. \A l \in DOMAIN mListDelegates' : mListDelegates'[l] \in Allocated' \cup {NULL}
        BY <3>4, <3>6, <3>7 DEF OwnInv
      <3>9. \A b \in Allocated' : \E l \in DOMAIN mListDelegates' : mListDelegates'[l] = b
        BY <3>4, <3>6, <3>7 DEF OwnInv
      <3>10. \A k, l \in DOMAIN mListDelegates' :
               mListDelegates'[k] = mListDelegates'[l] /\ mListDelegates'[k] # NULL => k = l
        BY <3>7 DEF OwnInv
      <3> QED  BY <3>8, <3>9, <3>10 DEF OwnInv, NULL
    <2> QED  BY <2>1, <2>2
  <1>3. ASSUME ClearDelegates
        PROVE  OwnInv'
    <2>1. Allocated' = {}
      BY <1>0, <1>3 DEF ClearDelegates, Allocated, OwnInv
    <2>2. \A i \in DOMAIN mListDelegates' : mListDelegates'[i] = NULL
      BY <1>3 DEF ClearDelegates
    <2> QED  BY <2>1, <2>2 DEF OwnInv, NULL
  <1>4. ASSUME EraseNull
        PROVE  OwnInv'
    <2>1. /\ iter \in DOMAIN mListDelegates /\ mListDelegates[iter] = NULL
          /\ mListDelegates' = RemoveAt(mListDelegates, iter) /\ UNCHANGED heap
      BY <1>4 DEF EraseNull
    <2>2. /\ RemoveAt(mListDelegates, iter) \in Seq(Addrs \cup {NULL})
          /\ Len(RemoveAt(mListDelegates, iter)) = Len(mListDelegates) - 1
          /\ \A l \in DOMAIN RemoveAt(mListDelegates, iter) :
               RemoveAt(mListDelegates, iter)[l]
                 = IF l < iter THEN mListDelegates[l] ELSE mListDelegates[l + 1]
      BY <1>0, <2>1, Removed, Zenon
    <2>3. /\ DOMAIN mListDelegates' = 1 .. Len(mListDelegates) - 1
          /\ \A l \in DOMAIN mListDelegates' :
               mListDelegates'[l] = IF l < iter THEN mListDelegates[l] ELSE mListDelegates[l + 1]
      BY <1>0, <2>1, <2>2
    <2>4. Allocated' = Allocated
      BY <2>1 DEF Allocated
    <2>5. \A l \in DOMAIN mListDelegates' :
            /\ l \in DOMAIN mListDelegates /\ l + 1 \in DOMAIN mListDelegates
            /\ l \in Int
      BY <1>0, <2>3
    <2>6. iter \in Int /\ iter >= 1 /\ iter <= Len(mListDelegates)
      BY <1>0, <2>1
    <2>7. \A l \in DOMAIN mListDelegates' : mListDelegates'[l] \in Allocated' \cup {NULL}
      BY <2>3, <2>4, <2>5 DEF OwnInv
    <2>8. ASSUME NEW b \in Allocated'
          PROVE  \E l \in DOMAIN mListDelegates' : mListDelegates'[l] = b
      <3>1. PICK i \in DOMAIN mListDelegates : mListDelegates[i] = b
        BY <2>4 DEF OwnInv
      <3>2. b # NULL
        BY <1>0, <2>4 DEF Allocated
      <3>3. CASE i < iter
        BY <1>0, <2>3, <2>6, <3>1, <3>3
      <3>4. CASE i > iter
        <4>1. i - 1 \in DOMAIN mListDelegates' /\ ~(i - 1 < iter) /\ (i - 1) + 1 = i
          BY <1>0, <2>3, <2>6, <3>4
        <4> QED  BY <2>3, <3>1, <4>1
      <3> QED  BY <1>0, <2>1, <2>6, <3>1, <3>2, <3>3, <3>4
    <2>9. ASSUME NEW k \in DOMAIN mListDelegates', NEW l \in DOMAIN mListDelegates',
                 mListDelegates'[k] = mListDelegates'[l], mListDelegates'[k] # NULL
          PROVE  k = l
      <3> DEFINE old(x) == IF x < iter THEN x ELSE x + 1
      <3>1. /\ mListDelegates'[k] = mListDelegates[old(k)] /\ old(k) \in DOMAIN mListDelegates
            /\ mListDelegates'[l] = mListDelegates[old(l)] /\ old(l) \in DOMAIN mListDelegates
        BY <2>3, <2>5
      <3>2. old(k) = old(l)
        BY <2>9, <3>1 DEF OwnInv
      <3> QED  BY <2>5, <2>6, <3>2
    <2> QED  BY <2>7, <2>8, <2>9 DEF OwnInv, NULL
  <1>5. CASE UNCHANGED <<heap, mListDelegates>>
    BY <1>5 DEF OwnInv, Allocated
  <1>6. ASSUME Call \/ Invoke \/ Returned \/ CallEnds \/ UNCHANGED dvars
        PROVE  UNCHANGED <<heap, mListDelegates>>
    BY <1>6 DEF Call, Invoke, Returned, CallEnds, dvars
  <1> QED  BY <1>1, <1>2, <1>3, <1>4, <1>5, <1>6 DEF DNext

\* Every address occurs once where it occurs: the count OwnedOnce asks for.
LEMMA OwnedFromInv ==
  ASSUME DelegateTypeOK, OwnInv
  PROVE  OwnedOnce
  <1>1. NULL \notin Addrs
    BY DelegateAssumption DEF NULL
  <1>2. ASSUME NEW a \in Allocated
        PROVE  Cardinality({i \in DOMAIN mListDelegates : mListDelegates[i] = a}) = 1
    <2>1. a # NULL
      BY <1>1 DEF Allocated
    <2>2. PICK i \in DOMAIN mListDelegates : mListDelegates[i] = a
      BY DEF OwnInv
    <2>3. {l \in DOMAIN mListDelegates : mListDelegates[l] = a} = {i}
      BY <2>1, <2>2 DEF OwnInv
    <2> QED  BY <2>3, FS_Singleton
  <1> QED  BY <1>2 DEF OwnedOnce, OwnInv

\* An empty list owns nothing.
LEMMA DelegateInit ==
  ASSUME DInit
  PROVE  DelegateTypeOK /\ IterInv /\ OwnInv
  <1>1. mListDelegates = <<>> /\ iters = <<>>
    BY DEF DInit
  <1>2. DOMAIN mListDelegates = {} /\ Len(mListDelegates) = 0 /\ DOMAIN iters = {} /\ Len(iters) = 0
    BY <1>1
  <1>3. mListDelegates \in Seq(Addrs \cup {NULL}) /\ iters \in Seq([at : 0 .. MaxLen + 1, valid : BOOLEAN])
    BY <1>1
  <1>4. Allocated = {}
    BY DEF DInit, Allocated
  <1>5. /\ heap \in [Addrs -> Targets \cup {NoTarget}] /\ mode = "user"
        /\ undefined \in BOOLEAN
    BY DEF DInit
  <1>6. 0 <= MaxLen /\ 0 <= MaxDepth
    BY DelegateAssumption
  <1>7. DelegateTypeOK
    BY <1>2, <1>3, <1>5, <1>6 DEF DelegateTypeOK
  <1> QED  BY <1>2, <1>4, <1>5, <1>7 DEF IterInv, OwnInv

\* Only erase makes an iterator dangle, and only that of a call further out.
LEMMA KeptStep ==
  ASSUME DelegateTypeOK, IterInv, [DNext]_dvars,
         NEW d \in DOMAIN iters \cap DOMAIN iters', iters[d].valid, ~iters'[d].valid
  PROVE  d < Len(iters) /\ mListDelegates[iters[d].at] = NULL
  <1>0. /\ Len(iters) \in Nat /\ DOMAIN iters = 1 .. Len(iters) /\ iters \in Seq(Iters)
        /\ d \in DOMAIN iters
    BY DEF DelegateTypeOK, Iters
  <1>1. ASSUME EraseNull
        PROVE  d < Len(iters) /\ mListDelegates[iters[d].at] = NULL
    <2>1. iters'[d] = IF d = Len(iters) \/ iters[d].at < iter THEN iters[d]
                      ELSE [at |-> iters[d].at - 1,
                            valid |-> iters[d].valid /\ iters[d].at # iter]
      BY <1>0, <1>1 DEF EraseNull
    <2>2. ~(d = Len(iters) \/ iters[d].at < iter)
      BY <2>1
    <2>3. iters'[d].valid = (iters[d].valid /\ iters[d].at # iter)
      BY <2>1, <2>2
    <2>4. iters[d].at = iter
      BY <2>3
    <2>5. mListDelegates[iter] = NULL
      BY <1>1 DEF EraseNull
    <2>6. d < Len(iters)
      BY <1>0, <2>2
    <2> QED  BY <2>4, <2>5, <2>6
  <1>2. ASSUME Call
        PROVE  iters'[d] = iters[d]
    <2>1. iters' = Append(iters, [at |-> 1, valid |-> TRUE])
      BY <1>2 DEF Call
    <2> QED  BY <1>0, <2>1
  <1>3. ASSUME Returned
        PROVE  iters'[d].valid = iters[d].valid
    <2>1. iters' = [iters EXCEPT ![Len(iters)].at = @ + 1]
      BY <1>3 DEF Returned
    <2>2. iters[d] \in Iters
      BY <1>0
    <2> QED  BY <1>0, <2>1, <2>2 DEF Iters
  <1>4. ASSUME CallEnds
        PROVE  iters'[d] = iters[d]
    <2>1. iters' = Front(iters) /\ iters # <<>>
      BY <1>4 DEF CallEnds, Looping, IterInv
    <2> QED  BY <1>0, <2>1, Fronted
  <1>5. ASSUME UNCHANGED iters
        PROVE  iters'[d] = iters[d]
    BY <1>5
  <1>6. ASSUME \/ \E t \in Targets : RemoveDelegate(t) \/ \E a \in Addrs : AddDelegate(a, t)
               \/ ClearDelegates \/ Invoke \/ UNCHANGED dvars
        PROVE  UNCHANGED iters
    BY <1>6 DEF RemoveDelegate, AddDelegate, ClearDelegates, Invoke, dvars
  <1> QED  BY <1>1, <1>2, <1>3, <1>4, <1>5, <1>6 DEF DNext

\* Nothing leaks, is deleted twice or is called after its deletion: through
\* every sequence of +=, -=, clear and nested calls the list holds each allocated
\* delegate exactly once, and nothing else but nulls.
THEOREM DelegatesOwned == Spec => []OwnedOnce
  <1>1. Init => DelegateTypeOK /\ IterInv /\ OwnInv
    BY DelegateInit DEF Init
  <1>2. DelegateTypeOK /\ IterInv /\ OwnInv /\ [Next]_vars => (DelegateTypeOK /\ IterInv /\ OwnInv)'
    BY OneRuns, DelegateStep, OwnStep
  <1>3. DelegateTypeOK /\ OwnInv => OwnedOnce
    BY OwnedFromInv
  <1> QED  BY <1>1, <1>2, <1>3, PTL DEF Spec

\* Adding, removing and clearing leave the iterators of the running calls on
\* their nodes; a nested call can erase the node of one around it, and only
\* when the delegate that one is calling has been removed.
THEOREM IteratorsStay == Spec => IteratorsKept
  <1>1. Init => DelegateTypeOK /\ IterInv
    BY DelegateInit DEF Init
  <1>2. DelegateTypeOK /\ IterInv /\ [Next]_vars => (DelegateTypeOK /\ IterInv)'
    BY OneRuns, DelegateStep
  <1>3. DelegateTypeOK /\ IterInv /\ [Next]_vars =>
          [\A d \in DOMAIN iters \cap DOMAIN iters' :
             iters[d].valid /\ ~iters'[d].valid =>
               d < Len(iters) /\ mListDelegates[iters[d].at] = NULL]_dvars
    <2> SUFFICES ASSUME DelegateTypeOK, IterInv, [Next]_vars,
                        NEW d \in DOMAIN iters \cap DOMAIN iters',
                        iters[d].valid, ~iters'[d].valid
                 PROVE  d < Len(iters) /\ mListDelegates[iters[d].at] = NULL
      BY Zenon
    <2> QED  BY OneRuns, KeptStep
  <1> QED  BY <1>1, <1>2, <1>3, PTL DEF Spec, IteratorsKept

-----------------------------------------------------------------------------
(* The delegates as a multicast                                            *)

Pointers == Addrs \cup {NULL}

\* The targets at the addresses o of heap h, and at those of list l.
At(h, o) == [i \in DOMAIN o |-> h[o[i]]]
Heard(h, l) == At(h, Only(l, Addrs))

LEMMA CalleesHeard == \A l : Callees(l) = Heard(heap, l)
  BY DEF Callees, Heard, At

LEMMA AtAppend ==
  ASSUME NEW V, NEW h \in [Addrs -> V], NEW o \in Seq(Addrs), NEW x \in Addrs
  PROVE  /\ At(h, o) \in Seq(V) /\ Len(At(h, o)) = Len(o)
         /\ At(h, Append(o, x)) = Append(At(h, o), h[x])
  <1>1. Len(o) \in Nat /\ DOMAIN o = 1 .. Len(o) /\ \A i \in DOMAIN o : o[i] \in Addrs
    OBVIOUS
  <1>2. At(h, o) \in Seq(V) /\ Len(At(h, o)) = Len(o) /\ DOMAIN At(h, o) = DOMAIN o
    BY <1>1 DEF At
  <1>3. /\ DOMAIN Append(o, x) = 1 .. Len(o) + 1 /\ Append(o, x)[Len(o) + 1] = x
        /\ \A i \in 1 .. Len(o) : Append(o, x)[i] = o[i]
    BY <1>1
  <1> DEFINE v == At(h, Append(o, x))
             w == Append(At(h, o), h[x])
  <1>4. DOMAIN v = 1 .. Len(o) + 1 /\ \A i \in 1 .. Len(o) + 1 : v[i] = h[Append(o, x)[i]]
    BY <1>3 DEF At
  <1>5. /\ w \in Seq(V) /\ Len(w) = Len(o) + 1 /\ w[Len(o) + 1] = h[x]
        /\ \A i \in 1 .. Len(o) : w[i] = At(h, o)[i]
    BY <1>1, <1>2, AppendProperties
  <1>6. \A i \in 1 .. Len(o) : At(h, o)[i] = h[o[i]]
    BY <1>1 DEF At
  <1>7. v = [i \in 1 .. Len(o) + 1 |-> v[i]]
    BY <1>3 DEF At
  <1>8. w = [i \in 1 .. Len(o) + 1 |-> w[i]]
    <2> HIDE DEF w
    <2>1. w = [i \in 1 .. Len(w) |-> w[i]]
      BY <1>5
    <2> QED  BY <1>5, <2>1
  <1>9. \A i \in 1 .. Len(o) + 1 : i \in 1 .. Len(o) \/ i = Len(o) + 1
    BY <1>1
  <1> HIDE DEF v, w
  <1>10. \A i \in 1 .. Len(o) + 1 : v[i] = w[i]
    <2> SUFFICES ASSUME NEW i \in 1 .. Len(o) + 1 PROVE v[i] = w[i]
      OBVIOUS
    <2>1. v[i] = h[Append(o, x)[i]]
      BY <1>4
    <2> DEFINE y == Append(o, x)
    <2> HIDE DEF y
    <2>2. v[i] = h[y[i]] /\ y[Len(o) + 1] = x /\ \A k \in 1 .. Len(o) : y[k] = o[k]
      BY <1>3, <2>1 DEF y
    <2>3. CASE i = Len(o) + 1
      BY <1>5, <2>2, <2>3, Zenon
    <2>4. CASE i \in 1 .. Len(o)
      BY <1>5, <1>6, <2>2, <2>4, Zenon
    <2> QED  BY <1>9, <2>3, <2>4, Zenon
  <1>11. v = w
    BY <1>7, <1>8, <1>10
  <1> QED  BY <1>2, <1>11 DEF v, w

LEMMA HeardType ==
  ASSUME NEW V, NEW h \in [Addrs -> V], NEW l \in Seq(Pointers)
  PROVE  Heard(h, l) \in Seq(V)
  <1>1. Only(l, Addrs) \in Seq(Addrs)
    BY OnlyType
  <1> DEFINE o == Only(l, Addrs)
  <1> HIDE DEF o
  <1>2. o \in Seq(Addrs)
    BY <1>1 DEF o
  <1>3. At(h, o) \in Seq(V)
    BY <1>2 DEF At
  <1> QED  BY <1>3 DEF Heard, o

LEMMA HeardEmpty ==
  ASSUME NEW h
  PROVE  Heard(h, <<>>) = <<>>
  BY OnlyEmpty DEF Heard, At

LEMMA HeardAppend ==
  ASSUME NEW V, NEW h \in [Addrs -> V], NEW l \in Seq(Pointers), NEW x \in Pointers
  PROVE  Heard(h, Append(l, x)) = IF x \in Addrs THEN Append(Heard(h, l), h[x]) ELSE Heard(h, l)
  <1> DEFINE o == Only(l, Addrs)
  <1>1. o \in Seq(Addrs)
    BY OnlyType
  <1>2. Only(Append(l, x), Addrs) = IF x \in Addrs THEN Append(o, x) ELSE o
    BY OnlyAppend, Zenon
  <1> HIDE DEF o
  <1>3. x \in Addrs => At(h, Append(o, x)) = Append(At(h, o), h[x])
    BY <1>1, AtAppend
  <1> QED  BY <1>2, <1>3, Zenon DEF Heard, o

LEMMA HeardConcat ==
  ASSUME NEW V, NEW h \in [Addrs -> V], NEW l \in Seq(Pointers), NEW m \in Seq(Pointers)
  PROVE  Heard(h, l \o m) = Heard(h, l) \o Heard(h, m)
  <1> DEFINE T == {r \in Seq(Pointers) : Heard(h, l \o r) = Heard(h, l) \o Heard(h, r)}
  <1>1. <<>> \in T
    <2>1. l \o <<>> = l /\ Heard(h, l) \o <<>> = Heard(h, l) /\ <<>> \in Seq(Pointers)
      BY HeardType, ConcatEmptySeq
    <2> QED  BY <2>1, HeardEmpty, Zenon
  <1>2. ASSUME NEW r \in Seq(Pointers), NEW x \in Pointers, r \in T
        PROVE  Append(r, x) \in T
    <2>1. l \o r \in Seq(Pointers) /\ Append(r, x) \in Seq(Pointers) /\ Shifts(l, r, x)
      BY AppendLast
    <2>2. Heard(h, l) \in Seq(V) /\ Heard(h, r) \in Seq(V)
      BY HeardType
    <2>3. x \in Addrs => Shifts(Heard(h, l), Heard(h, r), h[x])
      BY <2>2, AppendLast
    <2>4. Heard(h, Append(l \o r, x))
            = IF x \in Addrs THEN Append(Heard(h, l \o r), h[x]) ELSE Heard(h, l \o r)
      BY <2>1, HeardAppend, Zenon
    <2>5. Heard(h, Append(r, x)) = IF x \in Addrs THEN Append(Heard(h, r), h[x]) ELSE Heard(h, r)
      BY HeardAppend, Zenon
    <2>6. Heard(h, l \o Append(r, x)) = Heard(h, l) \o Heard(h, Append(r, x))
      BY <1>2, <2>1, <2>3, <2>4, <2>5, Zenon DEF Shifts
    <2> QED  BY <2>1, <2>6
  <1> HIDE DEF T
  <1>3. m \in T
    BY <1>1, <1>2, SeqInduction
  <1> QED  BY <1>3 DEF T

\* What an address that is not in the list holds does not matter.
LEMMA HeardSame ==
  ASSUME NEW V, NEW h \in [Addrs -> V], NEW g \in [Addrs -> V], NEW l \in Seq(Pointers),
         \A i \in DOMAIN l : l[i] \in Addrs => h[l[i]] = g[l[i]]
  PROVE  Heard(h, l) = Heard(g, l)
  <1> DEFINE A == {x \in Pointers : x \in Addrs => h[x] = g[x]}
             T == {r \in Seq(A) : Heard(h, r) = Heard(g, r)}
  <1>1. <<>> \in T
    BY HeardEmpty
  <1>2. ASSUME NEW r \in Seq(A), NEW x \in A, r \in T
        PROVE  Append(r, x) \in T
    <2>1. r \in Seq(Pointers) /\ x \in Pointers /\ Append(r, x) \in Seq(A)
      OBVIOUS
    <2>2. Heard(h, Append(r, x)) = IF x \in Addrs THEN Append(Heard(h, r), h[x]) ELSE Heard(h, r)
      BY <2>1, HeardAppend, Zenon
    <2>3. Heard(g, Append(r, x)) = IF x \in Addrs THEN Append(Heard(g, r), g[x]) ELSE Heard(g, r)
      BY <2>1, HeardAppend, Zenon
    <2>4. x \in Addrs => h[x] = g[x]
      OBVIOUS
    <2>5. Heard(h, Append(r, x)) = Heard(g, Append(r, x))
      BY <1>2, <2>2, <2>3, <2>4
    <2> QED  BY <2>1, <2>5
  <1>3. l \in Seq(A)
    <2>1. \A i \in 1 .. Len(l) : l[i] \in A
      OBVIOUS
    <2> QED  BY <2>1
  <1> HIDE DEF T, A
  <1>4. l \in T
    BY <1>1, <1>2, <1>3, SeqInduction
  <1> QED  BY <1>4 DEF T

LEMMA HeardOne ==
  ASSUME NEW V, NEW h \in [Addrs -> V], NEW x \in Pointers
  PROVE  Heard(h, <<x>>) = IF x \in Addrs THEN <<h[x]>> ELSE <<>>
  <1>1. <<>> \in Seq(Pointers) /\ Append(<<>>, x) = <<x>>
    OBVIOUS
  <1>2. Heard(h, Append(<<>>, x))
          = IF x \in Addrs THEN Append(Heard(h, <<>>), h[x]) ELSE Heard(h, <<>>)
    BY <1>1, HeardAppend, Zenon
  <1>3. Append(<<>>, h[x]) = <<h[x]>>
    OBVIOUS
  <1> QED  BY <1>1, <1>2, <1>3, HeardEmpty

LEMMA HeardNulls ==
  ASSUME NEW V, NEW h \in [Addrs -> V], NEW l \in Seq({NULL})
  PROVE  Heard(h, l) = <<>>
  <1> DEFINE T == {r \in Seq({NULL}) : Heard(h, r) = <<>>}
  <1>1. <<>> \in T
    BY HeardEmpty
  <1>2. ASSUME NEW r \in Seq({NULL}), NEW x \in {NULL}, r \in T
        PROVE  Append(r, x) \in T
    <2>1. r \in Seq(Pointers) /\ x \in Pointers /\ Append(r, x) \in Seq({NULL}) /\ x \notin Addrs
      BY DelegateAssumption DEF Pointers, NULL
    <2>2. Heard(h, Append(r, x)) = Heard(h, r)
      BY <2>1, HeardAppend, Zenon
    <2> QED  BY <1>2, <2>1, <2>2
  <1> HIDE DEF T
  <1>3. l \in T
    BY <1>1, <1>2, SeqInduction
  <1> QED  BY <1>3 DEF T

\* Only who is in the list is heard.
LEMMA HeardFrom ==
  ASSUME NEW V, NEW h \in [Addrs -> V], NEW l \in Seq(Pointers), NEW t,
         \A i \in DOMAIN l : l[i] \in Addrs => h[l[i]] # t
  PROVE  \A i \in 1 .. Len(Heard(h, l)) : Heard(h, l)[i] # t
  <1> DEFINE A == {x \in Pointers : x \in Addrs => h[x] # t}
             T == {r \in Seq(A) : \A i \in 1 .. Len(Heard(h, r)) : Heard(h, r)[i] # t}
  <1>1. <<>> \in T
    BY HeardEmpty
  <1>2. ASSUME NEW r \in Seq(A), NEW x \in A, r \in T
        PROVE  Append(r, x) \in T
    <2>1. r \in Seq(Pointers) /\ x \in Pointers /\ Append(r, x) \in Seq(A)
      OBVIOUS
    <2> DEFINE u == Heard(h, r)
    <2>2. Heard(h, Append(r, x)) = IF x \in Addrs THEN Append(u, h[x]) ELSE u
      BY <2>1, HeardAppend, Zenon
    <2>3. (x \in Addrs => h[x] # t) /\ \A i \in 1 .. Len(u) : u[i] # t
      BY <1>2
    <2>4. u \in Seq(V)
      BY <2>1, HeardType
    <2> HIDE DEF u
    <2>5. CASE x \in Addrs
      <3>1. h[x] \in V
        BY <2>5
      <3>2. \A i \in 1 .. Len(Append(u, h[x])) : Append(u, h[x])[i] # t
        BY <2>3, <2>4, <2>5, <3>1
      <3> QED  BY <2>1, <2>2, <2>5, <3>2
    <2>6. CASE x \notin Addrs
      BY <2>1, <2>2, <2>3, <2>6
    <2> QED  BY <2>5, <2>6
  <1>3. l \in Seq(A)
    <2>1. \A i \in 1 .. Len(l) : l[i] \in A
      OBVIOUS
    <2> QED  BY <2>1
  <1> HIDE DEF T, A
  <1>4. l \in T
    BY <1>1, <1>2, <1>3, SeqInduction
  <1> QED  BY <1>4 DEF T

\* The list l when the delegates that call t are nulled.
Nulled(h, l, t) == [i \in DOMAIN l |-> IF l[i] \in Addrs /\ h[l[i]] = t THEN NULL ELSE l[i]]

LEMMA NulledAppend ==
  ASSUME NEW h, NEW t, NEW l \in Seq(Pointers), NEW x \in Pointers
  PROVE  /\ Nulled(h, l, t) \in Seq(Pointers) /\ Len(Nulled(h, l, t)) = Len(l)
         /\ Nulled(h, Append(l, x), t)
              = Append(Nulled(h, l, t), IF x \in Addrs /\ h[x] = t THEN NULL ELSE x)
  <1> DEFINE N(y) == IF y \in Addrs /\ h[y] = t THEN NULL ELSE y
             n == Nulled(h, l, t)
             v == Nulled(h, Append(l, x), t)
             w == Append(n, N(x))
  <1>1. \A y \in Pointers : N(y) \in Pointers
    BY DEF Pointers
  <1>2. Len(l) \in Nat /\ DOMAIN l = 1 .. Len(l) /\ \A i \in DOMAIN l : l[i] \in Pointers
    OBVIOUS
  <1>3. n = [i \in 1 .. Len(l) |-> N(l[i])]
    BY <1>2 DEF Nulled
  <1>4. v = [i \in 1 .. Len(l) + 1 |-> N(Append(l, x)[i])]
    BY <1>2 DEF Nulled
  <1> HIDE DEF N, n, v
  <1>5. n \in Seq(Pointers) /\ Len(n) = Len(l)
    BY <1>1, <1>2, <1>3
  <1>6. /\ w \in Seq(Pointers) /\ Len(w) = Len(l) + 1 /\ w[Len(l) + 1] = N(x)
        /\ \A i \in 1 .. Len(l) : w[i] = n[i]
    BY <1>1, <1>2, <1>5, AppendProperties
  <1> HIDE DEF w
  <1>7. \A i \in 1 .. Len(l) + 1 : Append(l, x)[i] = IF i = Len(l) + 1 THEN x ELSE l[i]
    BY <1>2
  <1>8. v \in Seq(Pointers) /\ Len(v) = Len(l) + 1
    <2>1. \A i \in 1 .. Len(l) + 1 : Append(l, x)[i] \in Pointers
      BY <1>2
    <2> QED  BY <1>1, <1>2, <1>4, <2>1
  <1>9. ASSUME NEW i \in 1 .. Len(l) + 1
        PROVE  v[i] = w[i]
    <2>1. v[i] = N(IF i = Len(l) + 1 THEN x ELSE l[i])
      BY <1>4, <1>7
    <2>2. i # Len(l) + 1 => i \in 1 .. Len(l)
      BY <1>2
    <2> QED  BY <1>3, <1>6, <2>1, <2>2
  <1>10. v = w
    BY <1>6, <1>8, <1>9, SeqEqual
  <1> QED  BY <1>5, <1>10 DEF v, w, n, N

\* Nulling the delegates that call t unsubscribes t.
LEMMA HeardNulled ==
  ASSUME NEW h \in [Addrs -> Targets \cup {NoTarget}], NEW t \in Targets,
         NEW l \in Seq(Pointers), \A i \in DOMAIN l : l[i] \in Addrs => h[l[i]] \in Targets
  PROVE  Heard(h, Nulled(h, l, t)) = Only(Heard(h, l), Targets \ {t})
  <1> DEFINE A == {x \in Pointers : x \in Addrs => h[x] \in Targets}
             V == Targets \cup {NoTarget}
             S == Targets \ {t}
             T == {r \in Seq(A) : Heard(h, Nulled(h, r, t)) = Only(Heard(h, r), S)}
  <1>0. NULL \notin Addrs
    BY DelegateAssumption DEF NULL
  <1>1. <<>> \in T
    <2>1. Nulled(h, <<>>, t) = <<>>
      BY DEF Nulled
    <2> QED  BY <2>1, HeardEmpty, OnlyEmpty
  <1>2. ASSUME NEW r \in Seq(A), NEW x \in A, r \in T
        PROVE  Append(r, x) \in T
    <2>1. r \in Seq(Pointers) /\ x \in Pointers /\ Append(r, x) \in Seq(A)
      OBVIOUS
    <2>2. x \in Addrs => h[x] \in Targets
      OBVIOUS
    <2> DEFINE n == Nulled(h, r, t)
               y == IF x \in Addrs /\ h[x] = t THEN NULL ELSE x
    <2>3. n \in Seq(Pointers) /\ Nulled(h, Append(r, x), t) = Append(n, y)
      BY <2>1, NulledAppend
    <2>4. y \in Pointers
      BY <2>1 DEF Pointers
    <2> HIDE DEF n
    <2>5. Heard(h, Append(n, y)) = IF y \in Addrs THEN Append(Heard(h, n), h[y]) ELSE Heard(h, n)
      <3> HIDE DEF y
      <3> QED  BY <2>3, <2>4, HeardAppend, Zenon
    <2>6. Heard(h, Append(r, x)) = IF x \in Addrs THEN Append(Heard(h, r), h[x]) ELSE Heard(h, r)
      BY <2>1, HeardAppend, Zenon
    <2>7. Heard(h, r) \in Seq(V)
      BY <2>1, HeardType
    <2>8. x \in Addrs => Only(Append(Heard(h, r), h[x]), S)
                           = IF h[x] \in S THEN Append(Only(Heard(h, r), S), h[x])
                                           ELSE Only(Heard(h, r), S)
      <3> SUFFICES ASSUME x \in Addrs
                   PROVE  Only(Append(Heard(h, r), h[x]), S)
                            = IF h[x] \in S THEN Append(Only(Heard(h, r), S), h[x])
                                            ELSE Only(Heard(h, r), S)
        OBVIOUS
      <3>1. h[x] \in V
        OBVIOUS
      <3> HIDE DEF S, V
      <3> QED  BY <2>7, <3>1, OnlyAppend
    <2>9. Heard(h, n) = Only(Heard(h, r), S)
      BY <1>2 DEF n
    <2>10. Heard(h, Append(n, y)) = Only(Heard(h, Append(r, x)), S)
      <3>1. CASE x \notin Addrs
        <4>1. y = x
          BY <3>1
        <4> QED  BY <2>5, <2>6, <2>9, <3>1, <4>1
      <3>2. CASE x \in Addrs /\ h[x] = t
        <4>1. y \notin Addrs /\ h[x] \notin S
          BY <1>0, <3>2
        <4> HIDE DEF y, S
        <4> QED  BY <2>5, <2>6, <2>8, <2>9, <3>2, <4>1
      <3>3. CASE x \in Addrs /\ h[x] # t
        <4>1. y = x /\ h[x] \in S
          BY <2>2, <3>3
        <4> HIDE DEF y, S
        <4> QED  BY <2>5, <2>6, <2>8, <2>9, <3>3, <4>1
      <3> QED  BY <3>1, <3>2, <3>3
    <2> QED  BY <2>1, <2>3, <2>10
  <1>3. l \in Seq(A)
    <2>1. \A i \in 1 .. Len(l) : l[i] \in A
      OBVIOUS
    <2> QED  BY <2>1
  <1> HIDE DEF T, A
  <1>4. l \in T
    BY <1>1, <1>2, <1>3, SeqInduction
  <1> QED  BY <1>4 DEF T

-----------------------------------------------------------------------------
(* What a call has still in front of it                                    *)

\* The list from position k on.
Rest(l, k) == SubSeq(l, k, Len(l))

LEMMA RestDef ==
  ASSUME NEW S, NEW l \in Seq(S), NEW k \in 1 .. Len(l) + 1
  PROVE  /\ Rest(l, k) \in Seq(S) /\ Len(Rest(l, k)) = Len(l) - k + 1
         /\ \A i \in 1 .. Len(l) - k + 1 : Rest(l, k)[i] = l[k + i - 1]
  <1>1. Len(l) \in k - 1 .. Len(l)
    OBVIOUS
  <1> QED  BY <1>1, Part DEF Rest

LEMMA RestAppend ==
  ASSUME NEW S, NEW l \in Seq(S), NEW k \in 1 .. Len(l) + 1, NEW x \in S
  PROVE  Rest(Append(l, x), k) = Append(Rest(l, k), x)
  <1> DEFINE m == Append(l, x)
             r == Rest(l, k)
             u == Rest(m, k)
             v == Append(r, x)
  <1>1. /\ m \in Seq(S) /\ Len(m) = Len(l) + 1 /\ Len(l) \in Nat /\ m[Len(l) + 1] = x
        /\ \A i \in 1 .. Len(l) : m[i] = l[i]
    BY AppendProperties
  <1>2. /\ r \in Seq(S) /\ Len(r) = Len(l) - k + 1
        /\ \A i \in 1 .. Len(l) - k + 1 : r[i] = l[k + i - 1]
    BY RestDef
  <1> HIDE DEF m, r
  <1>3. k \in 1 .. Len(m) + 1
    BY <1>1
  <1>4. /\ u \in Seq(S) /\ Len(u) = Len(m) - k + 1
        /\ \A i \in 1 .. Len(m) - k + 1 : u[i] = m[k + i - 1]
    BY <1>1, <1>3, RestDef
  <1>5. /\ v \in Seq(S) /\ Len(v) = Len(r) + 1 /\ v[Len(r) + 1] = x
        /\ \A i \in 1 .. Len(r) : v[i] = r[i]
    BY <1>2, AppendProperties, ZenonT(40)
  <1> HIDE DEF u, v
  <1>6. Len(u) = Len(v)
    BY <1>1, <1>2, <1>4, <1>5
  <1>7. ASSUME NEW i \in 1 .. Len(u)
        PROVE  u[i] = v[i]
    <2>1. CASE i = Len(r) + 1
      <3>1. i \in 1 .. Len(m) - k + 1 /\ k + i - 1 = Len(l) + 1
        BY <1>1, <1>2, <1>4, <2>1
      <3>2. u[i] = m[k + i - 1] /\ v[i] = x
        BY <1>4, <1>5, <2>1, <3>1
      <3> QED  BY <1>1, <3>1, <3>2
    <2>2. CASE i # Len(r) + 1
      <3>1. i \in 1 .. Len(r) /\ i \in 1 .. Len(l) - k + 1 /\ k + i - 1 \in 1 .. Len(l)
        BY <1>1, <1>2, <1>4, <2>2
      <3>2. i \in 1 .. Len(m) - k + 1
        BY <1>4
      <3> QED  BY <1>1, <1>2, <1>4, <1>5, <3>1, <3>2
    <2> QED  BY <2>1, <2>2
  <1>8. u = v
    BY <1>4, <1>5, <1>6, <1>7, SeqEqual
  <1> QED  BY <1>8 DEF u, v, m, r

\* The list from position k on, when every element is replaced by another.
LEMMA RestPointwise ==
  ASSUME NEW S, NEW l \in Seq(S), NEW m \in Seq(S), Len(m) = Len(l),
         NEW k \in 1 .. Len(l) + 1
  PROVE  /\ DOMAIN Rest(l, k) = 1 .. Len(l) - k + 1
         /\ Rest(m, k) = [i \in DOMAIN Rest(l, k) |-> m[k + i - 1]]
  <1>1. /\ Rest(l, k) \in Seq(S) /\ Len(Rest(l, k)) = Len(l) - k + 1
    BY RestDef
  <1>2. DOMAIN Rest(l, k) = 1 .. Len(l) - k + 1
    BY <1>1
  <1>3. /\ Rest(m, k) \in Seq(S) /\ Len(Rest(m, k)) = Len(l) - k + 1
        /\ \A i \in 1 .. Len(l) - k + 1 : Rest(m, k)[i] = m[k + i - 1]
    BY RestDef
  <1> DEFINE r == Rest(m, k)
  <1> HIDE DEF r
  <1>4. r \in Seq(S) /\ Len(r) = Len(l) - k + 1
        /\ \A i \in 1 .. Len(l) - k + 1 : r[i] = m[k + i - 1]
    BY <1>3 DEF r
  <1>5. r = [i \in 1 .. Len(l) - k + 1 |-> m[k + i - 1]]
    <2>1. r = [i \in 1 .. Len(r) |-> r[i]]
      BY <1>4
    <2> QED  BY <1>4, <2>1
  <1> QED  BY <1>2, <1>5 DEF r

\* From position k on the list is its element there and the list from k + 1 on.
LEMMA RestSplits ==
  ASSUME NEW S, NEW l \in Seq(S), NEW k \in 1 .. Len(l)
  PROVE  Rest(l, k) = <<l[k]>> \o Rest(l, k + 1) /\ Rest(l, k + 1) \in Seq(S)
  <1>1. Rest(l, k) # <<>> /\ Head(Rest(l, k)) = l[k] /\ Tail(Rest(l, k)) = Rest(l, k + 1)
    BY PartStarts DEF Rest
  <1>2. Rest(l, k) \in Seq(S)
    <2>1. k \in 1 .. Len(l) + 1
      OBVIOUS
    <2> QED  BY <2>1, RestDef
  <1>3. k + 1 \in 1 .. Len(l) + 1
    OBVIOUS
  <1>4. Rest(l, k + 1) \in Seq(S)
    BY <1>3, RestDef
  <1> DEFINE r == Rest(l, k)
  <1> HIDE DEF r
  <1>5. r \in Seq(S) /\ r # <<>>
    BY <1>1, <1>2 DEF r
  <1>6. r = <<Head(r)>> \o Tail(r)
    BY <1>5
  <1> QED  BY <1>1, <1>4, <1>6 DEF r

\* Behind an element that is removed the list is what it was.
LEMMA RestBehind ==
  ASSUME NEW S, NEW l \in Seq(S), NEW i \in DOMAIN l, NEW k \in i + 1 .. Len(l) + 1
  PROVE  Rest(RemoveAt(l, i), k - 1) = Rest(l, k)
  <1> DEFINE m == RemoveAt(l, i)
             u == Rest(m, k - 1)
             v == Rest(l, k)
  <1>1. Len(l) \in Nat /\ DOMAIN l = 1 .. Len(l) /\ i \in 1 .. Len(l) /\ k \in 1 .. Len(l) + 1
    OBVIOUS
  <1>2. /\ m \in Seq(S) /\ Len(m) = Len(l) - 1
        /\ \A x \in DOMAIN m : m[x] = IF x < i THEN l[x] ELSE l[x + 1]
    BY Removed, Zenon
  <1>3. v \in Seq(S) /\ Len(v) = Len(l) - k + 1 /\ \A x \in 1 .. Len(l) - k + 1 : v[x] = l[k + x - 1]
    BY <1>1, RestDef
  <1> HIDE DEF m
  <1>4. DOMAIN m = 1 .. Len(m) /\ k - 1 \in 1 .. Len(m) + 1
    BY <1>1, <1>2
  <1>5. /\ u \in Seq(S) /\ Len(u) = Len(m) - (k - 1) + 1
        /\ \A x \in 1 .. Len(m) - (k - 1) + 1 : u[x] = m[(k - 1) + x - 1]
    BY <1>2, <1>4, RestDef
  <1> HIDE DEF u, v
  <1>6. Len(u) = Len(v) /\ Len(u) = Len(l) - k + 1
    BY <1>1, <1>2, <1>3, <1>5
  <1>7. ASSUME NEW x \in 1 .. Len(u)
        PROVE  u[x] = v[x]
    <2>1. /\ x \in 1 .. Len(l) - k + 1 /\ x \in 1 .. Len(m) - (k - 1) + 1
          /\ (k - 1) + x - 1 \in 1 .. Len(m) /\ ~((k - 1) + x - 1 < i)
          /\ (k - 1) + x - 1 + 1 = k + x - 1
      BY <1>1, <1>2, <1>6
    <2>2. u[x] = m[(k - 1) + x - 1] /\ v[x] = l[k + x - 1]
      BY <1>3, <1>5, <2>1
    <2>3. m[(k - 1) + x - 1] = l[(k - 1) + x - 1 + 1]
      BY <1>2, <1>4, <2>1
    <2> QED  BY <2>1, <2>2, <2>3
  <1>8. u = v
    BY <1>3, <1>5, <1>6, <1>7, SeqEqual
  <1> QED  BY <1>8 DEF u, v, m

\* In front of it the list consists of the same two parts.
LEMMA RestAround ==
  ASSUME NEW S, NEW l \in Seq(S), NEW i \in DOMAIN l, NEW k \in 1 .. i
  PROVE  /\ SubSeq(l, k, i - 1) \in Seq(S) /\ Rest(l, i + 1) \in Seq(S) /\ Rest(l, i) \in Seq(S)
         /\ Rest(RemoveAt(l, i), k) = SubSeq(l, k, i - 1) \o Rest(l, i + 1)
         /\ Rest(l, k) = SubSeq(l, k, i - 1) \o Rest(l, i)
  <1> DEFINE m == RemoveAt(l, i)
             u == Rest(m, k)
             p == SubSeq(l, k, i - 1)
             q == Rest(l, i + 1)
             v == p \o q
  <1>1. /\ Len(l) \in Nat /\ DOMAIN l = 1 .. Len(l) /\ i \in 1 .. Len(l) /\ i \in Int
        /\ k \in Int /\ k \in 1 .. Len(l) + 1 /\ i - 1 \in k - 1 .. Len(l)
        /\ i + 1 \in 1 .. Len(l) + 1 /\ i \in 1 .. Len(l) + 1
        /\ Len(l) \in i - 1 .. Len(l)
    OBVIOUS
  <1>2. /\ m \in Seq(S) /\ Len(m) = Len(l) - 1
        /\ \A x \in DOMAIN m : m[x] = IF x < i THEN l[x] ELSE l[x + 1]
    BY Removed, Zenon
  <1>3. /\ p \in Seq(S) /\ Len(p) = (i - 1) - k + 1
        /\ \A x \in 1 .. (i - 1) - k + 1 : p[x] = l[k + x - 1]
    BY <1>1, Part
  <1>4. /\ q \in Seq(S) /\ Len(q) = Len(l) - (i + 1) + 1
        /\ \A x \in 1 .. Len(l) - (i + 1) + 1 : q[x] = l[(i + 1) + x - 1]
    BY <1>1, RestDef
  <1> HIDE DEF m, p, q
  <1>5. DOMAIN m = 1 .. Len(m) /\ k \in 1 .. Len(m) + 1
    BY <1>1, <1>2
  <1>6. /\ u \in Seq(S) /\ Len(u) = Len(m) - k + 1
        /\ \A x \in 1 .. Len(m) - k + 1 : u[x] = m[k + x - 1]
    BY <1>2, <1>5, RestDef
  <1>7. /\ v \in Seq(S) /\ Len(v) = Len(p) + Len(q)
        /\ \A x \in 1 .. Len(p) + Len(q) : v[x] = IF x <= Len(p) THEN p[x] ELSE q[x - Len(p)]
    BY <1>3, <1>4, ConcatProperties
  <1> HIDE DEF u, v
  <1>n. PICK n \in Nat : n = Len(l)
    BY <1>1
  <1>8. Len(u) = n - k /\ Len(v) = n - k /\ Len(p) = i - k /\ Len(q) = n - i /\ Len(m) = n - 1
    <2>0. i \in Int /\ k \in Int /\ n \in Int
      BY <1>1
    <2>1. /\ (i - 1) - k + 1 = i - k /\ n - (i + 1) + 1 = n - i /\ n - 1 - k + 1 = n - k
          /\ (i - k) + (n - i) = n - k
      BY <2>0
    <2> QED  BY <1>2, <1>3, <1>4, <1>6, <1>7, <1>n, <2>1
  <1>9. ASSUME NEW x \in 1 .. Len(u)
        PROVE  u[x] = v[x]
    <2>0. x \in 1 .. n - k /\ i \in 1 .. n /\ k \in 1 .. i
      BY <1>1, <1>8, <1>n
    <2>1. /\ x \in 1 .. Len(m) - k + 1 /\ x \in 1 .. Len(p) + Len(q) /\ k + x - 1 \in 1 .. Len(m)
          /\ x \in Int
      <3>1. /\ x \in 1 .. n - 1 - k + 1 /\ x \in 1 .. (i - k) + (n - i) /\ k + x - 1 \in 1 .. n - 1
        BY <2>0
      <3> QED  BY <1>8, <2>0, <3>1
    <2>2. u[x] = IF k + x - 1 < i THEN l[k + x - 1] ELSE l[k + x - 1 + 1]
      BY <1>2, <1>5, <1>6, <2>1
    <2>3. v[x] = IF x <= Len(p) THEN p[x] ELSE q[x - Len(p)]
      BY <1>7, <2>1
    <2>4. CASE k + x - 1 < i
      <3>1. x <= i - k /\ x \in 1 .. (i - 1) - k + 1
        BY <2>0, <2>4
      <3> QED  BY <1>3, <1>8, <2>2, <2>3, <2>4, <3>1
    <2>5. CASE ~(k + x - 1 < i)
      <3>1. /\ ~(x <= i - k) /\ x - (i - k) \in 1 .. n - (i + 1) + 1
            /\ (i + 1) + (x - (i - k)) - 1 = k + x - 1 + 1
        BY <2>0, <2>5
      <3>2. q[x - (i - k)] = l[(i + 1) + (x - (i - k)) - 1]
        BY <1>4, <1>n, <3>1
      <3> QED  BY <1>8, <2>2, <2>3, <2>5, <3>1, <3>2
    <2> QED  BY <2>4, <2>5
  <1>10. u = v
    <2>1. Len(u) = Len(v)
      BY <1>8
    <2> QED  BY <1>6, <1>7, <1>9, <2>1, SeqEqual
  <1>11. SubSeq(l, k, i - 1) \o SubSeq(l, (i - 1) + 1, Len(l)) = SubSeq(l, k, Len(l))
    BY <1>1, ConcatAdjacentSubSeq
  <1>12. (i - 1) + 1 = i
    BY <1>1
  <1>13. Rest(l, k) = p \o Rest(l, i)
    BY <1>11, <1>12 DEF Rest, p
  <1>14. Rest(l, i) \in Seq(S)
    BY <1>1, RestDef
  <1> QED  BY <1>3, <1>4, <1>10, <1>13, <1>14 DEF u, v, p, q, m

\* Erasing a null does not change who is to come.
LEMMA HeardErased ==
  ASSUME NEW V, NEW h \in [Addrs -> V], NEW l \in Seq(Pointers), NEW i \in DOMAIN l,
         l[i] = NULL, NEW k \in 1 .. i
  PROVE  Heard(h, Rest(RemoveAt(l, i), k)) = Heard(h, Rest(l, k))
  <1> DEFINE p == SubSeq(l, k, i - 1)
             q == Rest(l, i + 1)
  <1>1. /\ p \in Seq(Pointers) /\ q \in Seq(Pointers) /\ Rest(l, i) \in Seq(Pointers)
        /\ Rest(RemoveAt(l, i), k) = p \o q /\ Rest(l, k) = p \o Rest(l, i)
    BY RestAround, Zenon
  <1>2. Rest(l, i) = <<NULL>> \o q
    <2>1. i \in 1 .. Len(l)
      OBVIOUS
    <2> QED  BY <2>1, RestSplits
  <1> HIDE DEF p, q
  <1>3. NULL \in Pointers /\ NULL \notin Addrs /\ <<NULL>> \in Seq(Pointers)
    BY DelegateAssumption DEF NULL, Pointers
  <1>4. Heard(h, <<NULL>>) = <<>>
    BY <1>3, HeardOne
  <1>5. Heard(h, Rest(l, i)) = <<>> \o Heard(h, q)
    <2>1. Heard(h, <<NULL>> \o q) = Heard(h, <<NULL>>) \o Heard(h, q)
      BY <1>1, <1>3, HeardConcat
    <2> QED  BY <1>2, <1>4, <2>1, Zenon
  <1>6. Heard(h, q) \in Seq(V)
    BY <1>1, HeardType
  <1>7. Heard(h, Rest(l, i)) = Heard(h, q)
    BY <1>5, <1>6, ConcatEmptySeq
  <1>8. Heard(h, p \o q) = Heard(h, p) \o Heard(h, q)
    BY <1>1, HeardConcat
  <1>9. Heard(h, p \o Rest(l, i)) = Heard(h, p) \o Heard(h, Rest(l, i))
    BY <1>1, HeardConcat
  <1> QED  BY <1>1, <1>7, <1>8, <1>9

\* The list from position k on, when t is nulled in it.
LEMMA RestNulled ==
  ASSUME NEW h, NEW t, NEW l \in Seq(Pointers), NEW k \in 1 .. Len(l) + 1
  PROVE  Rest(Nulled(h, l, t), k) = Nulled(h, Rest(l, k), t)
  <1> DEFINE N(y) == IF y \in Addrs /\ h[y] = t THEN NULL ELSE y
             n == Nulled(h, l, t)
             r == Rest(l, k)
  <1>1. n = [i \in DOMAIN l |-> N(l[i])]
    BY DEF Nulled
  <1>2. Nulled(h, r, t) = [i \in DOMAIN r |-> N(r[i])]
    BY DEF Nulled
  <1>3. n \in Seq(Pointers) /\ Len(n) = Len(l)
    <2>1. \A y \in Pointers : N(y) \in Pointers
      BY DEF Pointers
    <2>2. Len(l) \in Nat /\ DOMAIN l = 1 .. Len(l) /\ \A i \in DOMAIN l : l[i] \in Pointers
      OBVIOUS
    <2> HIDE DEF N, n
    <2> QED  BY <1>1, <2>1, <2>2
  <1> HIDE DEF N, n
  <1>4. /\ DOMAIN r = 1 .. Len(l) - k + 1
        /\ Rest(n, k) = [i \in DOMAIN r |-> n[k + i - 1]]
    BY <1>3, RestPointwise
  <1>5. \A i \in 1 .. Len(l) - k + 1 : r[i] = l[k + i - 1]
    BY RestDef
  <1> HIDE DEF r
  <1>6. \A i \in DOMAIN r : n[k + i - 1] = N(r[i])
    <2> SUFFICES ASSUME NEW i \in 1 .. Len(l) - k + 1 PROVE n[k + i - 1] = N(r[i])
      BY <1>4
    <2>1. k + i - 1 \in DOMAIN l
      OBVIOUS
    <2> QED  BY <1>1, <1>5, <2>1
  <1>7. Rest(n, k) = Nulled(h, r, t)
    BY <1>2, <1>4, <1>6
  <1> QED  BY <1>7 DEF n, r

\* The whole list, and the list behind its end.
LEMMA RestEnds ==
  ASSUME NEW S, NEW l \in Seq(S)
  PROVE  Rest(l, 1) = l /\ Rest(l, Len(l) + 1) = <<>>
  <1>1. Rest(l, 1) = l
    <2>1. /\ Rest(l, 1) \in Seq(S) /\ Len(Rest(l, 1)) = Len(l) - 1 + 1
          /\ \A i \in 1 .. Len(l) - 1 + 1 : Rest(l, 1)[i] = l[1 + i - 1]
      <3>1. 1 \in 1 .. Len(l) + 1
        OBVIOUS
      <3> QED  BY <3>1, RestDef
    <2> DEFINE r == Rest(l, 1)
    <2> HIDE DEF r
    <2>2. r \in Seq(S) /\ Len(r) = Len(l) /\ \A i \in 1 .. Len(r) : r[i] = l[i]
      BY <2>1 DEF r
    <2>3. r = l
      BY <2>2, SeqEqual
    <2> QED  BY <2>3 DEF r
  <1>2. Rest(l, Len(l) + 1) = <<>>
    <2>1. Len(l) + 1 \in 1 .. Len(l) + 1 /\ Len(l) - (Len(l) + 1) + 1 = 0
      OBVIOUS
    <2>2. Rest(l, Len(l) + 1) \in Seq(S) /\ Len(Rest(l, Len(l) + 1)) = Len(l) - (Len(l) + 1) + 1
      BY <2>1, RestDef
    <2> DEFINE r == Rest(l, Len(l) + 1)
    <2> HIDE DEF r
    <2>3. r \in Seq(S) /\ Len(r) = 0
      BY <2>1, <2>2 DEF r
    <2>4. r = <<>>
      BY <2>3, EmptySeq
    <2> QED  BY <2>4 DEF r
  <1> QED  BY <1>1, <1>2

LEMMA RestIn ==
  ASSUME NEW S, NEW l \in Seq(S), NEW k \in 1 .. Len(l) + 1
  PROVE  \A i \in DOMAIN Rest(l, k) : \E x \in DOMAIN l : Rest(l, k)[i] = l[x]
  <1> DEFINE r == Rest(l, k)
  <1>1. /\ r \in Seq(S) /\ Len(r) = Len(l) - k + 1
        /\ \A i \in 1 .. Len(l) - k + 1 : r[i] = l[k + i - 1]
    BY RestDef
  <1> HIDE DEF r
  <1>2. ASSUME NEW i \in DOMAIN r
        PROVE  \E x \in DOMAIN l : r[i] = l[x]
    <2>1. i \in 1 .. Len(l) - k + 1 /\ k + i - 1 \in DOMAIN l
      BY <1>1
    <2> QED  BY <1>1, <2>1
  <1> QED  BY <1>2 DEF r

-----------------------------------------------------------------------------
(* Refinement: every operation is one of the multicast, or none            *)

\* No two delegates of the list call the same target.
HeapInv == \A a, b \in Allocated : heap[a] = heap[b] => a = b

\* A call that looks for the next delegate is not in front of the list.
LoopInv == mode = "loop" => iters[Len(iters)].at >= 1

\* Where call d goes on.
Pos(d) == IF d = Len(iters) /\ mode = "loop" THEN iters[d].at ELSE iters[d].at + 1

Subs == Heard(heap, mListDelegates)
Come == [d \in DOMAIN iters |-> Heard(heap, Rest(mListDelegates, Pos(d)))]

LEMMA Views ==
  /\ Callees(mListDelegates) = Subs /\ [d \in DOMAIN iters |-> ToCome(d)] = Come
  /\ Callees(mListDelegates)' = Subs' /\ [d \in DOMAIN iters |-> ToCome(d)]' = Come'
  BY DEF Callees, Subs, Come, Heard, At, ToCome, Pos, Rest

\* What the steps of the multicast are, in terms of the list.
LEMMA AbsSubscribe ==
  ASSUME NEW t \in Targets, mode = "user", mode' = "user",
         \A i \in 1 .. Len(Subs) : Subs[i] # t, Subs' = Append(Subs, t),
         Come' = [d \in DOMAIN Come |-> Append(Come[d], t)]
  PROVE  Subscribers!MNext
  <1>1. Subscribers!Subscribe(t)
    BY Views DEF Subscribers!Subscribe, Subscribers!Contains
  <1> QED  BY <1>1 DEF Subscribers!MNext

LEMMA AbsUnsubscribe ==
  ASSUME NEW t \in Targets, mode = "user", mode' = "user",
         Subs' = Only(Subs, Targets \ {t}),
         Come' = [d \in DOMAIN Come |-> Only(Come[d], Targets \ {t})]
  PROVE  Subscribers!MNext
  <1>1. \A s : Subscribers!Without(s, t) = Only(s, Targets \ {t})
    BY DEF Subscribers!Without, Subscribers!Only, Only
  <1>2. Subscribers!Unsubscribe(t)
    BY <1>1, Views DEF Subscribers!Unsubscribe
  <1> QED  BY <1>2 DEF Subscribers!MNext

LEMMA AbsUnsubscribeAll ==
  ASSUME mode = "user", mode' = "user", Subs' = <<>>, Come' = [d \in DOMAIN Come |-> <<>>]
  PROVE  Subscribers!MNext
  <1>1. Subscribers!UnsubscribeAll
    BY Views DEF Subscribers!UnsubscribeAll
  <1> QED  BY <1>1 DEF Subscribers!MNext

LEMMA AbsPublish ==
  ASSUME mode = "user", mode' = "loop", Subs' = Subs, Come' = Append(Come, Subs)
  PROVE  Subscribers!MNext
  <1>1. Subscribers!Publish
    BY Views DEF Subscribers!Publish
  <1> QED  BY <1>1 DEF Subscribers!MNext

LEMMA AbsDeliver ==
  ASSUME mode = "loop", mode' = "user", Subs' = Subs, Come[Len(Come)] # <<>>,
         Come' = [Come EXCEPT ![Len(Come)] = Tail(Come[Len(Come)])]
  PROVE  Subscribers!MNext
  <1>1. Subscribers!Deliver
    BY Views DEF Subscribers!Deliver
  <1> QED  BY <1>1 DEF Subscribers!MNext

LEMMA AbsDelivered ==
  ASSUME mode = "user", mode' = "loop", Subs' = Subs, Come # <<>>, Come' = Come
  PROVE  Subscribers!MNext
  <1>1. Subscribers!Delivered
    BY Views DEF Subscribers!Delivered
  <1> QED  BY <1>1 DEF Subscribers!MNext

LEMMA AbsPublished ==
  ASSUME mode = "loop", mode' = "user", Subs' = Subs, Come[Len(Come)] = <<>>,
         Come' = SubSeq(Come, 1, Len(Come) - 1)
  PROVE  Subscribers!MNext
  <1>1. Subscribers!Published
    BY Views DEF Subscribers!Published, Subscribers!Last, Subscribers!Front
  <1> QED  BY <1>1 DEF Subscribers!MNext

LEMMA AbsStutter ==
  ASSUME mode' = mode, Subs' = Subs, Come' = Come
  PROVE  UNCHANGED Subscribers!mvars
  BY Views DEF Subscribers!mvars

\* A call goes on inside the list, or behind its end.
LEMMA PosIn ==
  ASSUME DelegateTypeOK, IterInv, LoopInv
  PROVE  \A d \in DOMAIN iters : Pos(d) \in 1 .. Len(mListDelegates) + 1
  <1> SUFFICES ASSUME NEW d \in DOMAIN iters
               PROVE  Pos(d) \in 1 .. Len(mListDelegates) + 1
    OBVIOUS
  <1>0. iters \in Seq(Iters) /\ mListDelegates \in Seq(Addrs \cup {NULL})
    BY DEF DelegateTypeOK, Iters
  <1>1. iters[d] \in Iters /\ Len(mListDelegates) \in Nat
    BY <1>0
  <1>2. iters[d].at \in Nat
    BY <1>1 DEF Iters
  <1>3. CASE d = Len(iters) /\ mode = "loop"
    BY <1>1, <1>2, <1>3 DEF Pos, IterInv, LoopInv
  <1>4. CASE ~(d = Len(iters) /\ mode = "loop")
    BY <1>1, <1>2, <1>4 DEF Pos, IterInv
  <1> QED  BY <1>3, <1>4

LEMMA HeapStep ==
  ASSUME DelegateTypeOK, IterInv, OwnInv, HeapInv, LoopInv, [DNext]_dvars
  PROVE  HeapInv' /\ LoopInv'
  <1>0. /\ heap \in [Addrs -> Targets \cup {NoTarget}] /\ NULL \notin Addrs
        /\ iters \in Seq(Iters) /\ Len(iters) \in Nat /\ DOMAIN iters = 1 .. Len(iters)
    BY DelegateAssumption DEF DelegateTypeOK, Iters, NULL
  <1>1. ASSUME NEW a \in Addrs, NEW t \in Targets, AddDelegate(a, t)
        PROVE  HeapInv' /\ LoopInv'
    <2>1. CASE UNCHANGED <<heap, mListDelegates>>
      BY <1>1, <2>1 DEF AddDelegate, HeapInv, Allocated, LoopInv
    <2>2. CASE Equal(t) = {} /\ heap' = [heap EXCEPT ![a] = t]
      <3>1. \A b \in Allocated : heap[b] # t
        BY <1>0, <2>2 DEF OwnInv, Equal, compare, Allocated
      <3>2. \A b \in Allocated' : b = a \/ b \in Allocated
        BY <1>0, <2>2 DEF Allocated
      <3>3. \A b \in Addrs : heap'[b] = IF b = a THEN t ELSE heap[b]
        BY <1>0, <2>2
      <3>4. \A b \in Allocated' : b \in Addrs
        BY DEF Allocated
      <3>5. HeapInv'
        BY <3>1, <3>2, <3>3, <3>4 DEF HeapInv
      <3> QED  BY <1>1, <3>5 DEF AddDelegate, LoopInv
    <2> QED  BY <1>1, <2>1, <2>2 DEF AddDelegate
  <1>2. ASSUME NEW t \in Targets, RemoveDelegate(t)
        PROVE  HeapInv' /\ LoopInv'
    <2>1. \A b \in Addrs : heap'[b] = heap[b] \/ heap'[b] = NoTarget
      BY <1>0, <1>2 DEF RemoveDelegate
    <2>2. \A b \in Allocated' : b \in Allocated /\ heap'[b] = heap[b]
      BY <2>1 DEF Allocated
    <2> QED  BY <1>2, <2>2 DEF HeapInv, RemoveDelegate, LoopInv
  <1>3. ASSUME ClearDelegates
        PROVE  HeapInv' /\ LoopInv'
    <2>1. \A b \in Addrs : heap'[b] = heap[b] \/ heap'[b] = NoTarget
      BY <1>0, <1>3 DEF ClearDelegates
    <2>2. \A b \in Allocated' : b \in Allocated /\ heap'[b] = heap[b]
      BY <2>1 DEF Allocated
    <2>3. HeapInv'
      BY <2>2 DEF HeapInv
    <2>4. UNCHANGED <<iters, mode>>
      BY <1>3 DEF ClearDelegates
    <2> QED  BY <2>3, <2>4 DEF LoopInv
  <1>4. ASSUME Call
        PROVE  HeapInv' /\ LoopInv'
    <2>1. iters' = Append(iters, [at |-> 1, valid |-> TRUE]) /\ [at |-> 1, valid |-> TRUE] \in Iters
      BY <1>4, DelegateAssumption DEF Call, Iters
    <2>2. iters'[Len(iters')] = [at |-> 1, valid |-> TRUE]
      BY <1>0, <2>1
    <2> QED  BY <1>4, <2>2 DEF Call, HeapInv, LoopInv, Allocated
  <1>5. ASSUME EraseNull
        PROVE  HeapInv' /\ LoopInv'
    <2>1. iters # <<>> /\ mode = "loop"
      BY <1>5 DEF EraseNull, Looping, IterInv
    <2>2. Len(iters) \in DOMAIN iters
      BY <1>0, <2>1
    <2>3. DOMAIN iters' = 1 .. Len(iters) /\ iters'[Len(iters)] = iters[Len(iters)]
      BY <1>0, <1>5, <2>2 DEF EraseNull
    <2>4. Len(iters') = Len(iters)
      BY <1>0, <1>5, <2>3 DEF EraseNull
    <2> QED  BY <1>5, <2>3, <2>4 DEF EraseNull, HeapInv, LoopInv, Allocated
  <1>6. ASSUME Returned
        PROVE  HeapInv' /\ LoopInv'
    <2>1. iters # <<>> /\ iters' = [iters EXCEPT ![Len(iters)].at = @ + 1]
      BY <1>6 DEF Returned
    <2>2. Len(iters) \in DOMAIN iters /\ iters[Len(iters)] \in Iters
      BY <1>0, <2>1
    <2>3. iters[Len(iters)].at \in Nat
      BY <2>2 DEF Iters
    <2>4. Len(iters') = Len(iters) /\ iters'[Len(iters)].at = iters[Len(iters)].at + 1
      BY <1>0, <2>1, <2>2 DEF Iters
    <2> QED  BY <1>6, <2>3, <2>4 DEF Returned, HeapInv, LoopInv, Allocated
  <1>7. ASSUME Invoke \/ CallEnds
        PROVE  HeapInv' /\ LoopInv'
    BY <1>7 DEF Invoke, CallEnds, HeapInv, LoopInv, Allocated
  <1>8. CASE UNCHANGED dvars
    BY <1>8 DEF dvars, HeapInv, LoopInv, Allocated
  <1> QED  BY <1>1, <1>2, <1>3, <1>4, <1>5, <1>6, <1>7, <1>8 DEF DNext

DInv == DelegateTypeOK /\ IterInv /\ OwnInv /\ HeapInv /\ LoopInv

LEMMA Basics ==
  ASSUME DInv
  PROVE  /\ mListDelegates \in Seq(Pointers) /\ NULL \notin Addrs
         /\ heap \in [Addrs -> Targets \cup {NoTarget}]
         /\ Len(mListDelegates) \in Nat /\ DOMAIN mListDelegates = 1 .. Len(mListDelegates)
         /\ iters \in Seq(Iters) /\ Len(iters) \in Nat /\ DOMAIN iters = 1 .. Len(iters)
         /\ \A d \in DOMAIN iters : Pos(d) \in 1 .. Len(mListDelegates) + 1
         /\ \A i \in DOMAIN mListDelegates :
              mListDelegates[i] \in Addrs => mListDelegates[i] \in Allocated
         /\ \A a \in Allocated : heap[a] \in Targets
         /\ DOMAIN Come = DOMAIN iters
  <1>1. /\ mListDelegates \in Seq(Pointers) /\ heap \in [Addrs -> Targets \cup {NoTarget}]
        /\ iters \in Seq(Iters)
    BY DEF DInv, DelegateTypeOK, Pointers, Iters
  <1>2. NULL \notin Addrs
    BY DelegateAssumption DEF NULL
  <1>3. \A d \in DOMAIN iters : Pos(d) \in 1 .. Len(mListDelegates) + 1
    BY PosIn DEF DInv
  <1>4. \A i \in DOMAIN mListDelegates :
          mListDelegates[i] \in Addrs => mListDelegates[i] \in Allocated
    BY <1>2 DEF DInv, OwnInv
  <1>5. \A a \in Allocated : heap[a] \in Targets
    BY <1>1 DEF Allocated
  <1>6. DOMAIN Come = DOMAIN iters
    BY DEF Come
  <1> QED  BY <1>1, <1>2, <1>3, <1>4, <1>5, <1>6

\* The position of every call is the same when its iterator is.
LEMMA SamePos ==
  ASSUME UNCHANGED <<iters, mode>>
  PROVE  \A d : Pos(d)' = Pos(d)
  BY DEF Pos

\* += subscribes, or finds its target subscribed.
LEMMA AddRefines ==
  ASSUME DInv, NEW a \in Addrs, NEW t \in Targets, AddDelegate(a, t)
  PROVE  [Subscribers!MNext]_Subscribers!mvars
  <1> DEFINE V == Targets \cup {NoTarget}
  <1>1. /\ mode = "user" /\ UNCHANGED <<iters, mode>> /\ a \notin Allocated
    BY DEF AddDelegate, User, newDelegate
  <1>2. CASE UNCHANGED <<heap, mListDelegates>>
    <2>1. UNCHANGED <<heap, mListDelegates, iters, mode>>
      BY <1>1, <1>2
    <2>2. Subs' = Subs /\ Come' = Come
      BY <2>1 DEF Subs, Come, Pos
    <2> QED  BY <1>1, <2>2, AbsStutter
  <1>3. CASE /\ Equal(t) = {} /\ mListDelegates' = Append(mListDelegates, a)
             /\ heap' = [heap EXCEPT ![a] = t]
    <2>1. /\ mListDelegates \in Seq(Pointers) /\ heap \in [Addrs -> V] /\ a \in Pointers
          /\ \A d \in DOMAIN iters : Pos(d) \in 1 .. Len(mListDelegates) + 1
          /\ DOMAIN Come = DOMAIN iters
      BY Basics DEF Pointers
    <2>2. heap' \in [Addrs -> V] /\ heap'[a] = t /\ \A b \in Addrs : b # a => heap'[b] = heap[b]
      BY <1>3, <2>1
    <2>3. \A i \in DOMAIN mListDelegates : mListDelegates[i] # a
      BY <1>1, Basics
    <2>4. ASSUME NEW m \in Seq(Pointers), \A i \in DOMAIN m : m[i] # a
          PROVE  Heard(heap', Append(m, a)) = Append(Heard(heap, m), t)
      <3>1. Heard(heap', Append(m, a)) = Append(Heard(heap', m), heap'[a])
        BY <2>1, <2>2, HeardAppend
      <3>2. \A i \in DOMAIN m : m[i] \in Addrs => heap'[m[i]] = heap[m[i]]
        BY <2>2, <2>4
      <3>3. Heard(heap', m) = Heard(heap, m)
        BY <2>1, <2>2, <3>2, HeardSame
      <3> QED  BY <2>2, <3>1, <3>3
    <2>5. Subs' = Append(Subs, t)
      BY <1>3, <2>1, <2>3, <2>4 DEF Subs
    <2>6. Come' = [d \in DOMAIN Come |-> Append(Come[d], t)]
      <3>1. ASSUME NEW d \in DOMAIN iters
            PROVE  Heard(heap', Rest(mListDelegates', Pos(d))) = Append(Come[d], t)
        <4> DEFINE r == Rest(mListDelegates, Pos(d))
        <4>1. mListDelegates \in Seq(Pointers) /\ Pos(d) \in 1 .. Len(mListDelegates) + 1
          BY <2>1
        <4>2. Rest(mListDelegates', Pos(d)) = Append(r, a)
          BY <1>3, <2>1, <4>1, RestAppend
        <4>3. r \in Seq(Pointers)
          BY <2>1, <4>1, RestDef
        <4>4. \A i \in DOMAIN r : r[i] # a
          <5>1. \A i \in DOMAIN r : \E x \in DOMAIN mListDelegates : r[i] = mListDelegates[x]
            BY <4>1, RestIn, ZenonT(40)
          <5> QED  BY <2>3, <5>1
        <4>5. Come[d] = Heard(heap, r)
          BY DEF Come
        <4> HIDE DEF r
        <4> QED  BY <2>4, <4>2, <4>3, <4>4, <4>5
      <3>2. Come' = [d \in DOMAIN iters |-> Heard(heap', Rest(mListDelegates', Pos(d)))]
        BY <1>1, SamePos DEF Come
      <3> QED  BY <2>1, <3>1, <3>2
    <2>7. \A i \in 1 .. Len(Subs) : Subs[i] # t
      <3>1. \A i \in DOMAIN mListDelegates : mListDelegates[i] \in Addrs => heap[mListDelegates[i]] # t
        BY <1>3, Basics DEF Equal, compare
      <3> QED  BY <2>1, <3>1, HeardFrom DEF Subs
    <2> QED  BY <1>1, <2>5, <2>6, <2>7, AbsSubscribe
  <1> QED  BY <1>2, <1>3 DEF AddDelegate

\* -= unsubscribes: the first delegate it finds is the only one that calls t.
LEMMA RemoveRefines ==
  ASSUME DInv, NEW t \in Targets, RemoveDelegate(t)
  PROVE  [Subscribers!MNext]_Subscribers!mvars
  <1> DEFINE V == Targets \cup {NoTarget}
             S == Targets \ {t}
             n == Nulled(heap, mListDelegates, t)
  <1>1. mode = "user" /\ UNCHANGED <<iters, mode>>
    BY DEF RemoveDelegate, User
  <1>2. /\ mListDelegates \in Seq(Pointers) /\ heap \in [Addrs -> V] /\ NULL \notin Addrs
        /\ \A d \in DOMAIN iters : Pos(d) \in 1 .. Len(mListDelegates) + 1
        /\ DOMAIN Come = DOMAIN iters
        /\ Len(mListDelegates) \in Nat /\ DOMAIN mListDelegates = 1 .. Len(mListDelegates)
    BY Basics
  <1>3. /\ heap' \in [Addrs -> V]
        /\ \A b \in Addrs : heap[b] # t => heap'[b] = heap[b]
        /\ mListDelegates' = n
    <2>1. CASE Equal(t) = {}
      <3>1. UNCHANGED <<heap, mListDelegates>>
        BY <2>1 DEF RemoveDelegate
      <3>2. \A i \in DOMAIN mListDelegates : ~(mListDelegates[i] \in Addrs /\ heap[mListDelegates[i]] = t)
        BY <1>2, <2>1 DEF Equal, compare
      <3>3. n = mListDelegates
        BY <1>2, <3>2 DEF Nulled
      <3> QED  BY <1>2, <3>1, <3>3
    <2>2. CASE Equal(t) # {}
      <3>1. Equal(t) \subseteq Nat
        BY <1>2 DEF Equal
      <3>2. \E i \in Equal(t) : \A l \in Equal(t) : i <= l
        BY <2>2, <3>1, LeastNat
      <3> DEFINE i == CHOOSE k \in Equal(t) : \A l \in Equal(t) : k <= l
      <3>3. i \in Equal(t)
        BY <3>2
      <3>4. /\ heap' = [heap EXCEPT ![mListDelegates[i]] = NoTarget]
            /\ mListDelegates' = [mListDelegates EXCEPT ![i] = NULL]
        BY <2>2 DEF RemoveDelegate
      <3> HIDE DEF i
      <3>5. /\ i \in DOMAIN mListDelegates /\ mListDelegates[i] # NULL
            /\ mListDelegates[i] \in Addrs /\ heap[mListDelegates[i]] = t
        BY <1>2, <3>3 DEF Equal, compare, Pointers
      <3>6. ASSUME NEW l \in DOMAIN mListDelegates,
                   mListDelegates[l] \in Addrs, heap[mListDelegates[l]] = t
            PROVE  l = i
        <4>1. mListDelegates[l] \in Allocated /\ mListDelegates[i] \in Allocated
          BY <3>5, <3>6, Basics
        <4>2. mListDelegates[l] = mListDelegates[i]
          BY <3>5, <3>6, <4>1 DEF DInv, HeapInv
        <4> QED  BY <3>5, <4>2 DEF DInv, OwnInv
      <3>7. n = [mListDelegates EXCEPT ![i] = NULL]
        <4>1. \A l \in DOMAIN mListDelegates :
                (mListDelegates[l] \in Addrs /\ heap[mListDelegates[l]] = t) <=> l = i
          BY <3>5, <3>6
        <4> QED  BY <1>2, <4>1 DEF Nulled
      <3> HIDE DEF n
      <3> QED  BY <1>2, <3>4, <3>5, <3>7
    <2> QED  BY <2>1, <2>2
  <1>4. \A i \in DOMAIN mListDelegates :
          mListDelegates[i] \in Addrs => heap[mListDelegates[i]] \in Targets
    BY Basics
  <1>5. ASSUME NEW m \in Seq(Pointers),
               \A i \in DOMAIN m : \E x \in DOMAIN mListDelegates : m[i] = mListDelegates[x]
        PROVE  Heard(heap', Nulled(heap, m, t)) = Only(Heard(heap, m), S)
    <2>1. \A i \in DOMAIN m : m[i] \in Addrs => heap[m[i]] \in Targets
      BY <1>4, <1>5
    <2>2. Heard(heap, Nulled(heap, m, t)) = Only(Heard(heap, m), S)
      BY <1>2, <2>1, HeardNulled
    <2>3. Nulled(heap, m, t) \in Seq(Pointers)
      <3>1. NULL \in Pointers
        BY DEF Pointers
      <3> QED  BY <3>1, NulledAppend, Zenon
    <2>4. \A i \in DOMAIN Nulled(heap, m, t) : Nulled(heap, m, t)[i] \in Addrs =>
            heap'[Nulled(heap, m, t)[i]] = heap[Nulled(heap, m, t)[i]]
      BY <1>2, <1>3 DEF Nulled
    <2>5. Heard(heap', Nulled(heap, m, t)) = Heard(heap, Nulled(heap, m, t))
      <3> DEFINE k == Nulled(heap, m, t)
      <3> HIDE DEF k, V, n
      <3>1. k \in Seq(Pointers) /\ \A i \in DOMAIN k : k[i] \in Addrs => heap'[k[i]] = heap[k[i]]
        BY <2>3, <2>4 DEF k
      <3>2. heap \in [Addrs -> V] /\ heap' \in [Addrs -> V]
        BY <1>2, <1>3
      <3>3. Heard(heap', k) = Heard(heap, k)
        BY <3>1, <3>2, HeardSame
      <3> QED  BY <3>3 DEF k
    <2> QED  BY <2>2, <2>5
  <1> HIDE DEF S
  <1>6. Subs' = Only(Subs, S)
    BY <1>2, <1>3, <1>5 DEF Subs
  <1>7. Come' = [d \in DOMAIN Come |-> Only(Come[d], S)]
    <2>1. ASSUME NEW d \in DOMAIN iters
          PROVE  Heard(heap', Rest(mListDelegates', Pos(d))) = Only(Come[d], S)
      <3> DEFINE r == Rest(mListDelegates, Pos(d))
      <3>1. Pos(d) \in 1 .. Len(mListDelegates) + 1
        BY <1>2
      <3>2. Rest(mListDelegates', Pos(d)) = Nulled(heap, r, t)
        BY <1>2, <1>3, <3>1, RestNulled
      <3>3. r \in Seq(Pointers)
        BY <1>2, <3>1, RestDef
      <3>4. \A i \in DOMAIN r : \E x \in DOMAIN mListDelegates : r[i] = mListDelegates[x]
        BY <1>2, <3>1, RestIn
      <3>5. Come[d] = Heard(heap, r)
        BY DEF Come
      <3> HIDE DEF r
      <3> QED  BY <1>5, <3>2, <3>3, <3>4, <3>5
    <2>2. Come' = [d \in DOMAIN iters |-> Heard(heap', Rest(mListDelegates', Pos(d)))]
      BY <1>1, SamePos DEF Come
    <2> QED  BY <1>2, <2>1, <2>2
  <1> QED  BY <1>1, <1>6, <1>7, AbsUnsubscribe DEF S

LEMMA ComeType ==
  ASSUME DInv
  PROVE  /\ Subs \in Seq(Targets \cup {NoTarget})
         /\ Come \in Seq(Seq(Targets \cup {NoTarget})) /\ Len(Come) = Len(iters)
  <1> DEFINE V == Targets \cup {NoTarget}
  <1>1. /\ mListDelegates \in Seq(Pointers) /\ heap \in [Addrs -> V]
        /\ \A d \in DOMAIN iters : Pos(d) \in 1 .. Len(mListDelegates) + 1
        /\ Len(iters) \in Nat /\ DOMAIN iters = 1 .. Len(iters)
    BY Basics
  <1> HIDE DEF V
  <1>2. Subs \in Seq(V)
    BY <1>1, HeardType DEF Subs
  <1>3. ASSUME NEW d \in DOMAIN iters
        PROVE  Heard(heap, Rest(mListDelegates, Pos(d))) \in Seq(V)
    <2>1. Pos(d) \in 1 .. Len(mListDelegates) + 1
      BY <1>1
    <2>2. Rest(mListDelegates, Pos(d)) \in Seq(Pointers)
      BY <1>1, <2>1, RestDef
    <2> QED  BY <1>1, <2>2, HeardType
  <1>4. Come \in [1 .. Len(iters) -> Seq(V)]
    BY <1>1, <1>3 DEF Come
  <1> DEFINE W == Seq(V)
  <1> HIDE DEF W
  <1>5. Come \in Seq(W) /\ Len(Come) = Len(iters)
    <2>1. Come \in [1 .. Len(iters) -> W]
      BY <1>4 DEF W
    <2> QED  BY <1>1, <2>1
  <1> QED  BY <1>2, <1>5 DEF V, W

\* clear unsubscribes everybody.
LEMMA ClearRefines ==
  ASSUME DInv, ClearDelegates
  PROVE  [Subscribers!MNext]_Subscribers!mvars
  <1> DEFINE V == Targets \cup {NoTarget}
  <1>1. /\ mode = "user" /\ UNCHANGED <<iters, mode>>
        /\ mListDelegates' = [i \in DOMAIN mListDelegates |-> NULL]
    BY DEF ClearDelegates, User
  <1>2. /\ mListDelegates \in Seq(Pointers) /\ heap \in [Addrs -> V]
        /\ Len(mListDelegates) \in Nat /\ DOMAIN mListDelegates = 1 .. Len(mListDelegates)
        /\ \A d \in DOMAIN iters : Pos(d) \in 1 .. Len(mListDelegates) + 1
        /\ DOMAIN Come = DOMAIN iters
    BY Basics
  <1>3. heap' \in [Addrs -> V]
    BY <1>2 DEF ClearDelegates
  <1>4. mListDelegates' \in Seq({NULL}) /\ Len(mListDelegates') = Len(mListDelegates)
    BY <1>1, <1>2
  <1> HIDE DEF V
  <1>5. Subs' = <<>>
    BY <1>3, <1>4, HeardNulls DEF Subs
  <1>6. Come' = [d \in DOMAIN Come |-> <<>>]
    <2>1. ASSUME NEW d \in DOMAIN iters
          PROVE  Heard(heap', Rest(mListDelegates', Pos(d))) = <<>>
      <3>1. Pos(d) \in 1 .. Len(mListDelegates') + 1
        BY <1>2, <1>4
      <3>2. Rest(mListDelegates', Pos(d)) \in Seq({NULL})
        BY <1>4, <3>1, RestDef
      <3> QED  BY <1>3, <3>2, HeardNulls
    <2>2. Come' = [d \in DOMAIN iters |-> Heard(heap', Rest(mListDelegates', Pos(d)))]
      BY <1>1, SamePos DEF Come
    <2> QED  BY <1>2, <2>1, <2>2
  <1> QED  BY <1>1, <1>5, <1>6, AbsUnsubscribeAll

\* A call of operator() has every subscriber in front of it.
LEMMA CallRefines ==
  ASSUME DInv, Call
  PROVE  [Subscribers!MNext]_Subscribers!mvars
  <1> DEFINE W == Seq(Targets \cup {NoTarget})
             n == Len(iters)
             first == [at |-> 1, valid |-> TRUE]
  <1>1. /\ mode = "user" /\ mode' = "loop" /\ UNCHANGED <<heap, mListDelegates>>
        /\ iters' = Append(iters, first)
    BY DEF Call, User
  <1>2. /\ mListDelegates \in Seq(Pointers) /\ iters \in Seq(Iters) /\ n \in Nat
        /\ DOMAIN iters = 1 .. n /\ first \in Iters
    BY Basics, DelegateAssumption DEF Iters
  <1>3. /\ DOMAIN iters' = 1 .. n + 1 /\ Len(iters') = n + 1 /\ iters'[n + 1] = first
        /\ \A d \in 1 .. n : iters'[d] = iters[d]
    BY <1>1, <1>2
  <1>4. Subs' = Subs
    BY <1>1 DEF Subs
  <1>5. Come \in Seq(W) /\ Len(Come) = n /\ Subs \in W
    BY ComeType
  <1> HIDE DEF W
  <1>6. Come' = Append(Come, Subs)
    <2>1. Append(Come, Subs) = [d \in 1 .. n + 1 |-> IF d = n + 1 THEN Subs ELSE Come[d]]
      <3> DEFINE w == Append(Come, Subs)
      <3>1. /\ w \in Seq(W) /\ Len(w) = n + 1 /\ w[n + 1] = Subs
            /\ \A d \in 1 .. n : w[d] = Come[d]
        BY <1>5, AppendProperties
      <3> HIDE DEF w
      <3>2. w = [d \in 1 .. n + 1 |-> w[d]]
        BY <3>1
      <3>3. \A d \in 1 .. n + 1 : d = n + 1 \/ d \in 1 .. n
        BY <1>2
      <3>4. \A d \in 1 .. n + 1 : w[d] = IF d = n + 1 THEN Subs ELSE Come[d]
        BY <3>1, <3>3, Zenon
      <3> QED  BY <3>2, <3>4 DEF w
    <2>2. ASSUME NEW d \in 1 .. n + 1
          PROVE  Heard(heap', Rest(mListDelegates', Pos(d)')) = IF d = n + 1 THEN Subs ELSE Come[d]
      <3>1. CASE d = n + 1
        <4>1. Pos(d)' = 1
          BY <1>1, <1>3, <3>1 DEF Pos
        <4>2. Rest(mListDelegates, 1) = mListDelegates
          BY <1>2, RestEnds
        <4> QED  BY <1>1, <3>1, <4>1, <4>2 DEF Subs
      <3>2. CASE d # n + 1
        <4>1. d \in 1 .. n
          BY <1>2, <3>2
        <4>2. Pos(d)' = Pos(d)
          BY <1>1, <1>3, <3>2, <4>1 DEF Pos
        <4> QED  BY <1>1, <1>2, <3>2, <4>1, <4>2 DEF Come
      <3> QED  BY <3>1, <3>2
    <2>3. Come' = [d \in 1 .. n + 1 |-> Heard(heap', Rest(mListDelegates', Pos(d)'))]
      BY <1>3 DEF Come
    <2> QED  BY <2>1, <2>2, <2>3
  <1> QED  BY <1>1, <1>4, <1>6, AbsPublish

\* Erasing a null is no step of the multicast.
LEMMA EraseRefines ==
  ASSUME DInv, EraseNull
  PROVE  [Subscribers!MNext]_Subscribers!mvars
  <1> DEFINE V == Targets \cup {NoTarget}
             n == Len(iters)
  <1>1. /\ mode = "loop" /\ UNCHANGED <<heap, mode>> /\ iter \in DOMAIN mListDelegates
        /\ mListDelegates[iter] = NULL /\ mListDelegates' = RemoveAt(mListDelegates, iter)
        /\ iters' = [d \in DOMAIN iters |->
                       IF d = n \/ iters[d].at < iter THEN iters[d]
                       ELSE [at |-> iters[d].at - 1,
                             valid |-> iters[d].valid /\ iters[d].at # iter]]
    BY DEF EraseNull, Looping
  <1>2. /\ mListDelegates \in Seq(Pointers) /\ heap \in [Addrs -> V]
        /\ iters \in Seq(Iters) /\ n \in Nat /\ DOMAIN iters = 1 .. n
        /\ Len(mListDelegates) \in Nat /\ DOMAIN mListDelegates = 1 .. Len(mListDelegates)
        /\ \A d \in DOMAIN iters : Pos(d) \in 1 .. Len(mListDelegates) + 1
    BY Basics
  <1>3. iters[n].at = iter
    BY DEF iter, Last
  <1>4. Len(iters') = n /\ DOMAIN iters' = 1 .. n
    BY <1>1, <1>2
  <1> HIDE DEF V
  <1>5. ASSUME NEW k \in 1 .. iter
        PROVE  Heard(heap, Rest(mListDelegates', k)) = Heard(heap, Rest(mListDelegates, k))
    BY <1>1, <1>2, HeardErased
  <1>6. ASSUME NEW k \in iter + 1 .. Len(mListDelegates) + 1
        PROVE  Rest(mListDelegates', k - 1) = Rest(mListDelegates, k)
    BY <1>1, <1>2, RestBehind
  <1>7. Subs' = Subs
    <2>1. mListDelegates' \in Seq(Pointers)
      BY <1>1, <1>2, Removed
    <2>2. Rest(mListDelegates', 1) = mListDelegates' /\ Rest(mListDelegates, 1) = mListDelegates
      BY <1>2, <2>1, RestEnds
    <2>3. 1 \in 1 .. iter
      BY <1>1, <1>2
    <2>4. Heard(heap, Rest(mListDelegates', 1)) = Heard(heap, Rest(mListDelegates, 1))
      BY <1>5, <2>3
    <2> QED  BY <1>1, <2>2, <2>4 DEF Subs
  <1>8. ASSUME NEW d \in 1 .. n
        PROVE  Heard(heap', Rest(mListDelegates', Pos(d)')) = Heard(heap, Rest(mListDelegates, Pos(d)))
    <2>1. iters[d] \in Iters /\ Pos(d) \in 1 .. Len(mListDelegates) + 1
      BY <1>2
    <2>2. iters[d].at \in Nat /\ iter \in Nat /\ iter \in 1 .. iter
      BY <1>1, <1>2, <2>1 DEF Iters
    <2>3. CASE d = n
      <3>1. Pos(d) = iter /\ iters'[d] = iters[d]
        BY <1>1, <1>2, <1>3, <2>3 DEF Pos
      <3>2. Pos(d)' = Pos(d)
        BY <1>1, <1>4, <2>3, <3>1 DEF Pos
      <3>3. Pos(d) \in 1 .. iter
        BY <2>2, <3>1
      <3> QED  BY <1>1, <1>5, <3>2, <3>3
    <2>4. CASE d # n /\ iters[d].at < iter
      <3>1. iters'[d] = iters[d]
        BY <1>1, <1>2, <2>4
      <3>2. Pos(d)' = Pos(d) /\ Pos(d) = iters[d].at + 1
        BY <1>4, <2>4, <3>1 DEF Pos
      <3>3. Pos(d) \in 1 .. iter
        BY <2>2, <2>4, <3>2
      <3> QED  BY <1>1, <1>5, <3>2, <3>3
    <2>5. CASE d # n /\ ~(iters[d].at < iter)
      <3>1. iters'[d].at = iters[d].at - 1
        BY <1>1, <1>2, <2>5
      <3>2. Pos(d)' = iters[d].at - 1 + 1 /\ Pos(d) = iters[d].at + 1
        BY <1>4, <2>5, <3>1 DEF Pos
      <3>3. Pos(d)' = Pos(d) - 1 /\ Pos(d) \in iter + 1 .. Len(mListDelegates) + 1
        <4>1. \A x, y, z \in Nat : ~(x < y) /\ x + 1 \in 1 .. z + 1 =>
                x - 1 + 1 = (x + 1) - 1 /\ x + 1 \in y + 1 .. z + 1
          OBVIOUS
        <4>2. iters[d].at + 1 \in 1 .. Len(mListDelegates) + 1
          BY <2>1, <3>2
        <4>3. /\ iters[d].at - 1 + 1 = (iters[d].at + 1) - 1
              /\ iters[d].at + 1 \in iter + 1 .. Len(mListDelegates) + 1
          BY <1>2, <2>2, <2>5, <4>1, <4>2, Zenon
        <4> QED  BY <3>2, <4>3, Zenon
      <3>4. Rest(mListDelegates', Pos(d) - 1) = Rest(mListDelegates, Pos(d))
        BY <1>6, <3>3
      <3> QED  BY <1>1, <3>3, <3>4
    <2> QED  BY <2>3, <2>4, <2>5
  <1>9. Come' = [d \in 1 .. n |-> Heard(heap', Rest(mListDelegates', Pos(d)'))]
    BY <1>4 DEF Come
  <1>10. Come' = Come
    BY <1>2, <1>8, <1>9 DEF Come
  <1> QED  BY <1>1, <1>7, <1>10, AbsStutter

\* operator() calls the first of those it has in front of it.
LEMMA InvokeRefines ==
  ASSUME DInv, Invoke
  PROVE  [Subscribers!MNext]_Subscribers!mvars
  <1> DEFINE V == Targets \cup {NoTarget}
             n == Len(iters)
             b == mListDelegates[iter]
             rest == Rest(mListDelegates, iter + 1)
  <1>1. /\ mode = "loop" /\ mode' = "user" /\ UNCHANGED <<heap, mListDelegates, iters>>
        /\ iter \in DOMAIN mListDelegates /\ mListDelegates[iter] # NULL
    BY DEF Invoke, Looping
  <1>2. /\ mListDelegates \in Seq(Pointers) /\ heap \in [Addrs -> V] /\ NULL \notin Addrs
        /\ Len(mListDelegates) \in Nat /\ DOMAIN mListDelegates = 1 .. Len(mListDelegates)
        /\ n \in Nat /\ DOMAIN iters = 1 .. n
    BY Basics
  <1>3. n \in DOMAIN iters /\ iters[n].at = iter
    <2>1. iters # <<>>
      BY <1>1 DEF DInv, IterInv
    <2>2. iters \in Seq(Iters)
      BY Basics
    <2>3. n # 0
      BY <2>1, <2>2, EmptySeq
    <2> QED  BY <1>2, <2>3 DEF iter, Last
  <1>4. Len(Come) = n /\ DOMAIN Come = DOMAIN iters
    BY ComeType, Basics
  <1>5. Subs' = Subs
    BY <1>1 DEF Subs
  <1>6. b \in Addrs /\ b \in Pointers /\ <<b>> \in Seq(Pointers)
    BY <1>1, <1>2 DEF Pointers
  <1>7. Rest(mListDelegates, iter) = <<b>> \o rest /\ rest \in Seq(Pointers)
    BY <1>1, <1>2, RestSplits
  <1>8. Pos(n) = iter /\ Pos(n)' = iter + 1 /\ \A d \in 1 .. n : d # n => Pos(d)' = Pos(d)
    BY <1>1, <1>3 DEF Pos
  <1> HIDE DEF V, b, rest
  <1>9. Heard(heap, Rest(mListDelegates, iter)) = <<heap[b]>> \o Heard(heap, rest)
    <2>1. Heard(heap, <<b>>) = <<heap[b]>>
      BY <1>2, <1>6, HeardOne
    <2>2. Heard(heap, <<b>> \o rest) = Heard(heap, <<b>>) \o Heard(heap, rest)
      BY <1>2, <1>6, <1>7, HeardConcat
    <2> QED  BY <1>7, <2>1, <2>2
  <1>10. Heard(heap, rest) \in Seq(V) /\ heap[b] \in V
    BY <1>2, <1>6, <1>7, HeardType
  <1>11. Come[n] = <<heap[b]>> \o Heard(heap, rest)
    BY <1>3, <1>8, <1>9 DEF Come
  <1>12. Come[n] # <<>> /\ Tail(Come[n]) = Heard(heap, rest)
    <2> DEFINE r == Heard(heap, rest)
               x == heap[b]
    <2> HIDE DEF r, x
    <2>1. r \in Seq(V) /\ x \in V
      BY <1>10 DEF r, x
    <2>2. <<x>> \o r # <<>> /\ Tail(<<x>> \o r) = r
      BY <2>1
    <2> QED  BY <1>11, <2>2 DEF r, x
  <1>13. Come' = [Come EXCEPT ![n] = Tail(Come[n])]
    <2>1. Come' = [d \in 1 .. n |-> Heard(heap, Rest(mListDelegates, Pos(d)'))]
      BY <1>1, <1>2 DEF Come
    <2>2. \A d \in 1 .. n : d # n => Come[d] = Heard(heap, Rest(mListDelegates, Pos(d)'))
      BY <1>2, <1>8 DEF Come
    <2>3. Heard(heap, Rest(mListDelegates, Pos(n)')) = Tail(Come[n])
      BY <1>8, <1>12 DEF rest
    <2>4. Come = [d \in 1 .. n |-> Come[d]]
      BY <1>2 DEF Come
    <2> DEFINE c == Come
               f(d) == Heard(heap, Rest(mListDelegates, Pos(d)'))
    <2> HIDE DEF c, f
    <2>5. [c EXCEPT ![n] = Tail(c[n])] = [d \in 1 .. n |-> f(d)]
      <3>1. /\ c = [d \in 1 .. n |-> c[d]] /\ f(n) = Tail(c[n])
            /\ \A d \in 1 .. n : d # n => c[d] = f(d)
        BY <2>2, <2>3, <2>4 DEF c, f
      <3> QED  BY <1>2, <1>3, <3>1
    <2> QED  BY <2>1, <2>5 DEF c, f
  <1> QED  BY <1>1, <1>4, <1>5, <1>12, <1>13, AbsDeliver

\* When the delegate returns, the call goes on behind it.
LEMMA ReturnedRefines ==
  ASSUME DInv, Returned
  PROVE  [Subscribers!MNext]_Subscribers!mvars
  <1> DEFINE n == Len(iters)
  <1>1. /\ mode = "user" /\ mode' = "loop" /\ UNCHANGED <<heap, mListDelegates>> /\ iters # <<>>
        /\ iters' = [iters EXCEPT ![n].at = @ + 1]
    BY DEF Returned, User
  <1>2. iters \in Seq(Iters) /\ n \in Nat /\ DOMAIN iters = 1 .. n
    BY Basics
  <1>3. n \in 1 .. n /\ iters[n] \in Iters
    BY <1>1, <1>2, EmptySeq
  <1>4. /\ DOMAIN iters' = 1 .. n /\ Len(iters') = n /\ iters'[n].at = iters[n].at + 1
        /\ \A d \in 1 .. n : d # n => iters'[d] = iters[d]
    BY <1>1, <1>2, <1>3 DEF Iters
  <1>5. \A d \in 1 .. n : Pos(d)' = Pos(d)
    BY <1>1, <1>4 DEF Pos
  <1>6. Subs' = Subs
    BY <1>1 DEF Subs
  <1>7. Come' = Come
    BY <1>1, <1>2, <1>4, <1>5 DEF Come
  <1>8. Come # <<>>
    BY <1>3, ComeType
  <1> QED  BY <1>1, <1>6, <1>7, <1>8, AbsDelivered

\* A call ends when it has nobody in front of it.
LEMMA EndRefines ==
  ASSUME DInv, CallEnds
  PROVE  [Subscribers!MNext]_Subscribers!mvars
  <1> DEFINE n == Len(iters)
             W == Seq(Targets \cup {NoTarget})
  <1>1. /\ mode = "loop" /\ mode' = "user" /\ UNCHANGED <<heap, mListDelegates>>
        /\ iters' = Front(iters) /\ iter \notin DOMAIN mListDelegates
    BY DEF CallEnds, Looping
  <1>2. /\ iters \in Seq(Iters) /\ n \in Nat /\ DOMAIN iters = 1 .. n
        /\ mListDelegates \in Seq(Pointers) /\ Len(mListDelegates) \in Nat
        /\ DOMAIN mListDelegates = 1 .. Len(mListDelegates)
        /\ \A d \in DOMAIN iters : Pos(d) \in 1 .. Len(mListDelegates) + 1
    BY Basics
  <1>3. iters # <<>> /\ n \in 1 .. n
    <2>1. iters # <<>>
      BY <1>1 DEF DInv, IterInv
    <2> QED  BY <1>2, <2>1, EmptySeq
  <1>4. /\ DOMAIN iters' = 1 .. n - 1 /\ Len(iters') = n - 1
        /\ \A d \in 1 .. n - 1 : iters'[d] = iters[d]
    <2>1. /\ Front(iters) \in Seq(Iters) /\ Len(Front(iters)) = n - 1
          /\ \A d \in DOMAIN Front(iters) : Front(iters)[d] = iters[d]
      BY <1>2, <1>3, Fronted
    <2>2. DOMAIN Front(iters) = 1 .. Len(Front(iters))
      BY <2>1
    <2> QED  BY <1>1, <2>1, <2>2
  <1>5. Pos(n) = iter /\ \A d \in 1 .. n - 1 : Pos(d)' = Pos(d)
    <2>0. \A k \in Nat : \A d \in 1 .. k - 1 : d # k
      OBVIOUS
    <2>1. \A d \in 1 .. n - 1 : d # n
      BY <1>2, <2>0, Zenon
    <2> QED  BY <1>1, <1>4, <2>1 DEF Pos, iter, Last
  <1>6. Pos(n) = Len(mListDelegates) + 1
    BY <1>1, <1>2, <1>3, <1>5
  <1>7. Come[n] = <<>>
    <2>1. Rest(mListDelegates, Pos(n)) = <<>>
      BY <1>2, <1>6, RestEnds
    <2>2. Come[n] = Heard(heap, <<>>)
      BY <1>2, <1>3, <2>1 DEF Come
    <2> QED  BY <2>2, HeardEmpty
  <1>8. Come \in Seq(W) /\ Len(Come) = n
    BY ComeType
  <1> HIDE DEF W
  <1>9. Come' = SubSeq(Come, 1, Len(Come) - 1)
    <2> DEFINE c == Come
               s == SubSeq(c, 1, n - 1)
    <2> HIDE DEF c
    <2>1. c \in Seq(W) /\ Len(c) = n
      BY <1>8 DEF c
    <2>2. 1 \in 1 .. Len(c) + 1 /\ n - 1 \in 1 - 1 .. Len(c)
      BY <1>3, <2>1
    <2>3. /\ s \in Seq(W) /\ Len(s) = (n - 1) - 1 + 1
          /\ \A d \in 1 .. (n - 1) - 1 + 1 : s[d] = c[1 + d - 1]
      BY <2>1, <2>2, Part
    <2> HIDE DEF s
    <2>4. Len(s) = n - 1 /\ \A d \in 1 .. n - 1 : s[d] = c[d]
      <3>1. (n - 1) - 1 + 1 = n - 1 /\ \A d \in 1 .. n - 1 : 1 + d - 1 = d
        BY <1>2
      <3> QED  BY <2>3, <3>1
    <2>5. s = [d \in 1 .. n - 1 |-> c[d]]
      BY <2>3, <2>4
    <2>6. Come' = [d \in 1 .. n - 1 |-> Heard(heap, Rest(mListDelegates, Pos(d)))]
      BY <1>1, <1>4, <1>5 DEF Come
    <2>7. \A d \in 1 .. n - 1 : c[d] = Heard(heap, Rest(mListDelegates, Pos(d)))
      <3>1. \A d \in 1 .. n - 1 : d \in 1 .. n
        BY <1>2
      <3> QED  BY <1>2, <3>1 DEF Come, c
    <2>8. Come' = s
      BY <2>5, <2>6, <2>7
    <2> QED  BY <1>8, <2>8 DEF s, c
  <1>10. Subs' = Subs
    BY <1>1 DEF Subs
  <1> QED  BY <1>1, <1>7, <1>8, <1>9, <1>10, AbsPublished

\* The list of delegates with its nulls, its late erasing and its nested calls is
\* a multicast: whatever the delegates of a call add, remove or call, a call
\* reaches every subscriber whose turn comes while it is subscribed, in the order
\* of subscription, and nobody is subscribed twice.
THEOREM IsAMulticast == Spec => IsMulticast
  <1>1. Init => DInv
    <2> SUFFICES ASSUME Init PROVE DInv
      OBVIOUS
    <2>1. DInit
      BY DEF Init
    <2>2. Allocated = {} /\ mode = "user"
      BY <2>1 DEF DInit, Allocated
    <2> QED  BY <2>1, <2>2, DelegateInit DEF DInv, HeapInv, LoopInv
  <1>2. DInv /\ [Next]_vars => DInv'
    BY OneRuns, DelegateStep, OwnStep, HeapStep DEF DInv
  <1>3. Init => Subscribers!MInit
    <2> SUFFICES ASSUME Init PROVE Subscribers!MInit
      OBVIOUS
    <2>1. mListDelegates = <<>> /\ iters = <<>> /\ mode = "user"
      BY DEF Init, DInit
    <2>2. Subs = <<>>
      BY <2>1, HeardEmpty DEF Subs
    <2>3. Come = <<>>
      BY <2>1 DEF Come
    <2> QED  BY <2>1, <2>2, <2>3, Views DEF Subscribers!MInit
  <1>4. DInv /\ [Next]_vars => [Subscribers!MNext]_Subscribers!mvars
    <2> SUFFICES ASSUME DInv, [Next]_vars PROVE [Subscribers!MNext]_Subscribers!mvars
      OBVIOUS
    <2>1. [DNext]_dvars
      BY OneRuns
    <2>2. CASE UNCHANGED dvars
      <3>1. UNCHANGED <<heap, mListDelegates, iters, mode>>
        BY <2>2 DEF dvars
      <3>2. Subs' = Subs /\ Come' = Come
        BY <3>1 DEF Subs, Come, Pos
      <3> QED  BY <3>1, <3>2, AbsStutter
    <2>3. CASE DNext
      BY <2>3, AddRefines, RemoveRefines, ClearRefines, CallRefines, EraseRefines,
         InvokeRefines, ReturnedRefines, EndRefines DEF DNext
    <2> QED  BY <2>1, <2>2, <2>3
  <1> QED
    BY <1>1, <1>2, <1>3, <1>4, PTL DEF Spec, IsMulticast, Subscribers!MSpec

-----------------------------------------------------------------------------
(* The linked list                                                         *)

\* Every step of the linked list keeps its pointers nodes or null.
LEMMA ListStep ==
  ASSUME ListTypeOK, ListInv, [LNext]_lvars
  PROVE  ListTypeOK' /\ ListInv'
  <1> USE CountAssumption
  <1>1. ASSUME InitList
        PROVE  ListTypeOK' /\ ListInv'
    <2> DEFINE p == Cardinality(live)
    <2>1. p \in Nat
      <3>1. IsFiniteSet(Nodes)
        BY FS_Interval DEF Nodes
      <3>2. IsFiniteSet(live)
        BY <3>1, FS_Subset DEF ListTypeOK
      <3> QED  BY <3>2, FS_CardinalityType
    <2>2. /\ phase = "initlist" /\ p <= count /\ UNCHANGED <<count, phase>>
          /\ next' = [next EXCEPT ![node] = p, ![p] = NIL]
          /\ live' = live \cup {p} /\ node' = p
      BY <1>1 DEF InitList
    <2> HIDE DEF p
    <2>3. p \in Nodes
      BY <2>1, <2>2 DEF ListTypeOK, Nodes
    <2> QED  BY <2>1, <2>2, <2>3 DEF ListTypeOK, ListInv, NIL
  <1>2. ASSUME StartReverse \/ RelinkNode \/ StartFree \/ FreeNode \/ UNCHANGED lvars
        PROVE  ListTypeOK' /\ ListInv'
    <2>1. header \in Nodes
      BY DEF header, Nodes
    <2> QED  BY <1>2, <2>1 DEF StartReverse, RelinkNode, StartFree, FreeNode, lvars,
                               ListTypeOK, ListInv
  <1> QED  BY <1>1, <1>2 DEF LNext

\* The list starts with its header, or at rest.
LEMMA ListStart ==
  ASSUME Init
  PROVE  ListTypeOK /\ ListInv
  <1>1. header \in Nodes /\ header # NIL /\ 1 \in 1 .. MaxCount
    BY CountAssumption DEF header, Nodes, NIL
  <1>2. CASE LInit
    BY <1>1, <1>2 DEF LInit, ListTypeOK, ListInv
  <1>3. CASE ListAtRest
    BY <1>1, <1>3 DEF ListAtRest, ListTypeOK, ListInv
  <1> QED  BY <1>2, <1>3 DEF Init

-----------------------------------------------------------------------------
(* qsort: what a turn of the partition loop does to the array              *)

SameElements(a, b) ==
  \A v \in Values : Cardinality({i \in DOMAIN a : a[i] = v})
                      = Cardinality({i \in DOMAIN b : b[i] = v})

\* b is a with its elements from lo to hi rearranged.
Moved(a, b, lo, hi) ==
  /\ DOMAIN b = DOMAIN a /\ SameElements(a, b)
  /\ \A i \in DOMAIN a : ~(lo <= i /\ i <= hi) => b[i] = a[i]
  /\ \A i \in DOMAIN a : lo <= i /\ i <= hi =>
       \E l \in DOMAIN a : lo <= l /\ l <= hi /\ b[i] = a[l]

\* Two elements change places and the others stay.
LEMMA Swapped ==
  ASSUME NEW I, NEW a \in [I -> Values], NEW i \in I, NEW l \in I
  PROVE  /\ Swap(a, i, l) \in [I -> Values]
         /\ Swap(a, i, l)[i] = a[l] /\ Swap(a, i, l)[l] = a[i]
         /\ \A x \in I : x # i /\ x # l => Swap(a, i, l)[x] = a[x]
  BY DEF Swap

\* A swap keeps how often each value occurs.
LEMMA SwapKeeps ==
  ASSUME NEW I, IsFiniteSet(I), NEW a \in [I -> Values], NEW i \in I, NEW l \in I
  PROVE  SameElements(a, Swap(a, i, l))
  <1> DEFINE b == Swap(a, i, l)
  <1>1. /\ b \in [I -> Values] /\ b[i] = a[l] /\ b[l] = a[i]
        /\ \A x \in I : x # i /\ x # l => b[x] = a[x]
    BY Swapped
  <1> HIDE DEF b
  <1>2. ASSUME NEW v \in Values
        PROVE  Cardinality({x \in I : a[x] = v}) = Cardinality({x \in I : b[x] = v})
    <2> DEFINE A == {x \in I : a[x] = v}
               B == {x \in I : b[x] = v}
               f == [x \in A |-> IF x = i THEN l ELSE IF x = l THEN i ELSE x]
    <2>1. f \in [A -> B]
      BY <1>1
    <2>2. \A x, y \in A : f[x] = f[y] => x = y
      OBVIOUS
    <2>3. \A y \in B : \E x \in A : f[x] = y
      <3> SUFFICES ASSUME NEW y \in B PROVE \E x \in A : f[x] = y
        OBVIOUS
      <3>1. CASE y = i
        BY <1>1, <3>1
      <3>2. CASE y = l
        BY <1>1, <3>2
      <3>3. CASE y # i /\ y # l
        BY <1>1, <3>3
      <3> QED  BY <3>1, <3>2, <3>3
    <2>5. IsFiniteSet(A)
      BY FS_Subset
    <2> HIDE DEF A, B, f
    <2>4. f \in Bijection(A, B)
      BY <2>1, <2>2, <2>3 DEF Bijection, Injection, Surjection, IsInjective
    <2>6. Cardinality(A) = Cardinality(B)
      BY <2>4, <2>5, FS_Bijection DEF ExistsBijection
    <2> QED  BY <2>6 DEF A, B
  <1>3. DOMAIN a = I /\ DOMAIN b = I
    BY <1>1
  <1> QED  BY <1>2, <1>3 DEF SameElements, b

\* A swap inside the range rearranges the range.
LEMMA SwapMoves ==
  ASSUME NEW I, IsFiniteSet(I), NEW a \in [I -> Values], NEW i \in I, NEW l \in I,
         NEW lo \in Int, NEW hi \in Int, I \subseteq Int,
         lo <= i, i <= hi, lo <= l, l <= hi
  PROVE  Moved(a, Swap(a, i, l), lo, hi)
  <1> DEFINE b == Swap(a, i, l)
  <1>0. a \in [I -> Values] /\ i \in I /\ l \in I
    OBVIOUS
  <1>1. /\ b \in [I -> Values] /\ b[i] = a[l] /\ b[l] = a[i]
        /\ \A x \in I : x # i /\ x # l => b[x] = a[x]
    BY ONLY <1>0, Swapped DEF b
  <1>2. SameElements(a, b)
    BY SwapKeeps
  <1> HIDE DEF b
  <1>3. DOMAIN a = I /\ DOMAIN b = I
    BY <1>1
  <1>4. \A x \in I : ~(lo <= x /\ x <= hi) => b[x] = a[x]
    BY <1>1
  <1>5. \A x \in I : lo <= x /\ x <= hi => \E y \in I : lo <= y /\ y <= hi /\ b[x] = a[y]
    BY <1>1
  <1>6. Moved(a, b, lo, hi)
    BY <1>2, <1>3, <1>4, <1>5 DEF Moved
  <1> QED  BY <1>6 DEF b

\* No swap: the range is as it was.
LEMMA NothingMoves ==
  ASSUME NEW I, NEW a \in [I -> Values], NEW lo, NEW hi
  PROVE  Moved(a, a, lo, hi)
  BY DEF Moved, SameElements

\* Two rearrangements of a range are one.
LEMMA MovedTwice ==
  ASSUME NEW a, NEW b, NEW c, NEW lo, NEW hi, Moved(a, b, lo, hi), Moved(b, c, lo, hi)
  PROVE  Moved(a, c, lo, hi)
  <1>1. SameElements(a, c)
    BY DEF Moved, SameElements
  <1> QED  BY <1>1 DEF Moved

\* The order of a part away from the range is kept, ...
LEMMA DescKept ==
  ASSUME NEW a, NEW b, NEW lo \in Int, NEW hi \in Int, NEW L \in Int, NEW H \in Int,
         DOMAIN a \subseteq Int,
         Moved(a, b, lo, hi), Desc(a, L, H), H < lo \/ hi < L
  PROVE  Desc(b, L, H)
  <1>1. DOMAIN b = DOMAIN a
    BY DEF Moved
  <1>2. \A i \in DOMAIN a : L <= i /\ i <= H => b[i] = a[i]
    BY DEF Moved
  <1> SUFFICES ASSUME NEW i \in DOMAIN a, NEW l \in DOMAIN a, L <= i, i < l, l <= H
               PROVE  b[i] >= b[l]
    BY <1>1 DEF Desc
  <1>3. b[i] = a[i] /\ b[l] = a[l]
    BY <1>2
  <1> QED  BY <1>3 DEF Desc

\* ... and what is on one side of a pivot away from the range stays there.
LEMMA SplitKept ==
  ASSUME NEW a, NEW b, NEW lo \in Int, NEW hi \in Int, NEW L \in Int, NEW H \in Int,
         NEW M \in DOMAIN a, DOMAIN a \subseteq Int,
         Moved(a, b, lo, hi), Split(a, L, H, M),
         (M + 1 <= lo /\ hi <= H) \/ (L <= lo /\ hi <= M - 1)
  PROVE  Split(b, L, H, M)
  <1>1. DOMAIN b = DOMAIN a /\ b[M] = a[M]
    BY DEF Moved
  <1>2. ASSUME NEW i \in DOMAIN a, L <= i, i < M
        PROVE  b[i] >= b[M]
    <2>1. PICK l \in DOMAIN a : L <= l /\ l < M /\ b[i] = a[l]
      <3>1. CASE lo <= i /\ i <= hi
        <4>1. PICK l \in DOMAIN a : lo <= l /\ l <= hi /\ b[i] = a[l]
          BY <3>1 DEF Moved
        <4> QED  BY <1>2, <3>1, <4>1
      <3>2. CASE ~(lo <= i /\ i <= hi)
        BY <1>2, <3>2 DEF Moved
      <3> QED  BY <3>1, <3>2
    <2> QED  BY <1>1, <2>1 DEF Split
  <1>3. ASSUME NEW i \in DOMAIN a, M < i, i <= H
        PROVE  b[i] <= b[M]
    <2>1. PICK l \in DOMAIN a : M < l /\ l <= H /\ b[i] = a[l]
      <3>1. CASE lo <= i /\ i <= hi
        <4>1. PICK l \in DOMAIN a : lo <= l /\ l <= hi /\ b[i] = a[l]
          BY <3>1 DEF Moved
        <4> QED  BY <1>3, <3>1, <4>1
      <3>2. CASE ~(lo <= i /\ i <= hi)
        BY <1>3, <3>2 DEF Moved
      <3> QED  BY <3>1, <3>2
    <2> QED  BY <1>1, <2>1 DEF Split
  <1> QED  BY <1>1, <1>2, <1>3 DEF Split

Halves(I) == [a : [I -> Values], mid : Int, j : Int, k : Int]

HalfInv(s, lo, hi) ==
  /\ s.mid \in lo .. hi /\ s.j \in lo .. hi + 1 /\ s.k \in lo - 1 .. hi
  /\ Passed(s.a, lo, hi, s.mid, s.j, s.k)

\* The first half of a turn: what j passes is on its side of the pivot, and the
\* pivot's new place keeps k's side as it was.
LEMMA LeftHalfKeeps ==
  ASSUME NEW I, IsFiniteSet(I), I \subseteq Int, NEW lo \in Int, NEW hi \in Int,
         \A x \in Int : lo <= x /\ x <= hi => x \in I,
         NEW s \in Halves(I), HalfInv(s, lo, hi)
  PROVE  /\ LeftHalf(s) \in Halves(I) /\ HalfInv(LeftHalf(s), lo, hi)
         /\ Moved(s.a, LeftHalf(s).a, lo, hi)
  <1> DEFINE t == LeftHalf(s)
  <1>0. /\ s.a \in [I -> Values] /\ DOMAIN s.a = I /\ s.mid \in Int /\ s.j \in Int /\ s.k \in Int
        /\ \A x \in I : s.a[x] \in Int
    BY SortAssumption DEF Halves
  <1>a. s.mid \in lo .. hi /\ s.j \in lo .. hi + 1 /\ s.k \in lo - 1 .. hi /\ s.mid \in I
    BY <1>0 DEF HalfInv
  <1>b. /\ s.j <= s.mid + 1 /\ s.k >= s.mid - 1
        /\ \A i \in I : lo <= i /\ i < s.j /\ i # s.mid => s.a[i] >= s.a[s.mid]
        /\ \A i \in I : s.k < i /\ i <= hi /\ i # s.mid => s.a[i] <= s.a[s.mid]
    BY <1>0 DEF HalfInv, Passed
  <1>1. CASE s.j >= s.mid
    <2>1. t = s
      BY <1>1 DEF LeftHalf
    <2> QED  BY <2>1, <1>0, NothingMoves
  <1>2. CASE ~(s.j >= s.mid) /\ ~(s.a[s.mid] > s.a[s.j])
    <2>1. t = [s EXCEPT !.a = s.a, !.mid = s.mid, !.j = s.j + 1]
      BY <1>2 DEF LeftHalf
    <2>2. t = [a |-> s.a, mid |-> s.mid, j |-> s.j + 1, k |-> s.k]
      BY <2>1 DEF Halves
    <2> HIDE DEF t
    <2>3. t \in Halves(I) /\ t.a = s.a /\ t.mid = s.mid /\ t.j = s.j + 1 /\ t.k = s.k
      BY <1>0, <2>2 DEF Halves
    <2>4. s.j \in I
      BY <1>0, <1>2, <1>a
    <2>5. s.a[s.j] >= s.a[s.mid]
      BY <1>0, <1>2, <1>a, <2>4
    <2>6. \A i \in I : lo <= i /\ i < s.j + 1 /\ i # s.mid => s.a[i] >= s.a[s.mid]
      <3> SUFFICES ASSUME NEW i \in I, lo <= i, i < s.j + 1, i # s.mid
                   PROVE  s.a[i] >= s.a[s.mid]
        OBVIOUS
      <3>1. i < s.j \/ i = s.j
        BY <1>0
      <3> QED  BY <1>b, <2>5, <3>1
    <2>9. s.j + 1 \in lo .. hi + 1 /\ s.j + 1 <= s.mid + 1
      BY <1>0, <1>2, <1>a
    <2>7. HalfInv(t, lo, hi)
      BY <1>0, <1>a, <1>b, <2>3, <2>6, <2>9 DEF HalfInv, Passed
    <2>8. Moved(s.a, t.a, lo, hi)
      BY <1>0, <2>3, NothingMoves
    <2> QED  BY <2>3, <2>7, <2>8 DEF t
  <1>3. CASE ~(s.j >= s.mid) /\ s.a[s.mid] > s.a[s.j]
    <2> DEFINE b == Swap(s.a, s.j, s.mid)
    <2>1. t = [s EXCEPT !.a = b, !.mid = s.j, !.j = s.j + 1]
      BY <1>3 DEF LeftHalf
    <2>2. t = [a |-> b, mid |-> s.j, j |-> s.j + 1, k |-> s.k]
      BY <2>1 DEF Halves
    <2>4. s.j \in I
      BY <1>0, <1>3, <1>a
    <2>5. /\ b \in [I -> Values] /\ b[s.j] = s.a[s.mid] /\ b[s.mid] = s.a[s.j]
          /\ \A x \in I : x # s.j /\ x # s.mid => b[x] = s.a[x]
      <3>1. s.a \in [I -> Values] /\ s.j \in I /\ s.mid \in I
        BY <1>0, <1>a, <2>4
      <3> QED  BY ONLY <3>1, Swapped DEF b
    <2>8. Moved(s.a, b, lo, hi)
      <3>1. s.a \in [I -> Values] /\ s.j \in I /\ s.mid \in I
        BY <1>0, <1>a, <2>4
      <3>2. lo <= s.j /\ s.j <= hi /\ lo <= s.mid /\ s.mid <= hi
        BY <1>0, <1>3, <1>a
      <3> QED  BY <3>1, <3>2, SwapMoves
    <2> HIDE DEF t, b
    <2>3. t \in Halves(I) /\ t.a = b /\ t.mid = s.j /\ t.j = s.j + 1 /\ t.k = s.k
      BY <1>0, <2>2, <2>5 DEF Halves
    <2>6. \A i \in I : lo <= i /\ i < s.j + 1 /\ i # s.j => b[i] >= b[s.j]
      <3> SUFFICES ASSUME NEW i \in I, lo <= i, i < s.j + 1, i # s.j
                   PROVE  b[i] >= b[s.j]
        OBVIOUS
      <3>1. i < s.j /\ i # s.mid
        BY <1>0, <1>3
      <3> QED  BY <1>b, <2>5, <3>1
    <2>7. \A i \in I : s.k < i /\ i <= hi /\ i # s.j => b[i] <= b[s.j]
      <3> SUFFICES ASSUME NEW i \in I, s.k < i, i <= hi, i # s.j
                   PROVE  b[i] <= b[s.j]
        OBVIOUS
      <3>1. CASE i = s.mid
        BY <1>0, <1>3, <2>4, <2>5, <3>1
      <3>2. CASE i # s.mid
        BY <1>b, <2>5, <3>2
      <3> QED  BY <3>1, <3>2
    <2>9. DOMAIN b = I
      BY <2>5
    <2>a. /\ s.j \in lo .. hi /\ s.j + 1 \in lo .. hi + 1
          /\ s.j + 1 <= s.j + 1 /\ s.k >= s.j - 1
      BY <1>0, <1>3, <1>a, <1>b
    <2>10. HalfInv(t, lo, hi)
      BY <1>a, <2>3, <2>6, <2>7, <2>9, <2>a DEF HalfInv, Passed
    <2> QED  BY <2>3, <2>8, <2>10 DEF t
  <1> QED  BY <1>1, <1>2, <1>3

\* The second half, with k.
LEMMA RightHalfKeeps ==
  ASSUME NEW I, IsFiniteSet(I), I \subseteq Int, NEW lo \in Int, NEW hi \in Int,
         \A x \in Int : lo <= x /\ x <= hi => x \in I,
         NEW s \in Halves(I), HalfInv(s, lo, hi)
  PROVE  /\ RightHalf(s) \in Halves(I) /\ HalfInv(RightHalf(s), lo, hi)
         /\ Moved(s.a, RightHalf(s).a, lo, hi)
  <1> DEFINE t == RightHalf(s)
  <1>0. /\ s.a \in [I -> Values] /\ DOMAIN s.a = I /\ s.mid \in Int /\ s.j \in Int /\ s.k \in Int
        /\ \A x \in I : s.a[x] \in Int
    BY SortAssumption DEF Halves
  <1>a. s.mid \in lo .. hi /\ s.j \in lo .. hi + 1 /\ s.k \in lo - 1 .. hi /\ s.mid \in I
    BY <1>0 DEF HalfInv
  <1>b. /\ s.j <= s.mid + 1 /\ s.k >= s.mid - 1
        /\ \A i \in I : lo <= i /\ i < s.j /\ i # s.mid => s.a[i] >= s.a[s.mid]
        /\ \A i \in I : s.k < i /\ i <= hi /\ i # s.mid => s.a[i] <= s.a[s.mid]
    BY <1>0 DEF HalfInv, Passed
  <1>1. CASE s.k <= s.mid
    <2>1. t = s
      BY <1>1 DEF RightHalf
    <2> QED  BY <2>1, <1>0, NothingMoves
  <1>2. CASE ~(s.k <= s.mid) /\ ~(s.a[s.mid] < s.a[s.k])
    <2>1. t = [s EXCEPT !.a = s.a, !.mid = s.mid, !.k = s.k - 1]
      BY <1>2 DEF RightHalf
    <2>2. t = [a |-> s.a, mid |-> s.mid, j |-> s.j, k |-> s.k - 1]
      BY <2>1 DEF Halves
    <2> HIDE DEF t
    <2>3. t \in Halves(I) /\ t.a = s.a /\ t.mid = s.mid /\ t.j = s.j /\ t.k = s.k - 1
      BY <1>0, <2>2 DEF Halves
    <2>4. s.k \in I
      BY <1>0, <1>2, <1>a
    <2>5. s.a[s.k] <= s.a[s.mid]
      BY <1>0, <1>2, <1>a, <2>4
    <2>6. \A i \in I : s.k - 1 < i /\ i <= hi /\ i # s.mid => s.a[i] <= s.a[s.mid]
      <3> SUFFICES ASSUME NEW i \in I, s.k - 1 < i, i <= hi, i # s.mid
                   PROVE  s.a[i] <= s.a[s.mid]
        OBVIOUS
      <3>1. i > s.k \/ i = s.k
        BY <1>0
      <3> QED  BY <1>b, <2>5, <3>1
    <2>9. s.k - 1 \in lo - 1 .. hi /\ s.k - 1 >= s.mid - 1
      BY <1>0, <1>2, <1>a
    <2>7. HalfInv(t, lo, hi)
      BY <1>0, <1>a, <1>b, <2>3, <2>6, <2>9 DEF HalfInv, Passed
    <2>8. Moved(s.a, t.a, lo, hi)
      BY <1>0, <2>3, NothingMoves
    <2> QED  BY <2>3, <2>7, <2>8 DEF t
  <1>3. CASE ~(s.k <= s.mid) /\ s.a[s.mid] < s.a[s.k]
    <2> DEFINE b == Swap(s.a, s.k, s.mid)
    <2>1. t = [s EXCEPT !.a = b, !.mid = s.k, !.k = s.k - 1]
      BY <1>3 DEF RightHalf
    <2>2. t = [a |-> b, mid |-> s.k, j |-> s.j, k |-> s.k - 1]
      BY <2>1 DEF Halves
    <2>4. s.k \in I
      BY <1>0, <1>3, <1>a
    <2>5. /\ b \in [I -> Values] /\ b[s.k] = s.a[s.mid] /\ b[s.mid] = s.a[s.k]
          /\ \A x \in I : x # s.k /\ x # s.mid => b[x] = s.a[x]
      <3>1. s.a \in [I -> Values] /\ s.k \in I /\ s.mid \in I
        BY <1>0, <1>a, <2>4
      <3> QED  BY ONLY <3>1, Swapped DEF b
    <2>8. Moved(s.a, b, lo, hi)
      <3>1. s.a \in [I -> Values] /\ s.k \in I /\ s.mid \in I
        BY <1>0, <1>a, <2>4
      <3>2. lo <= s.k /\ s.k <= hi /\ lo <= s.mid /\ s.mid <= hi
        BY <1>0, <1>3, <1>a
      <3> QED  BY <3>1, <3>2, SwapMoves
    <2> HIDE DEF t, b
    <2>3. t \in Halves(I) /\ t.a = b /\ t.mid = s.k /\ t.j = s.j /\ t.k = s.k - 1
      BY <1>0, <2>2, <2>5 DEF Halves
    <2>6. \A i \in I : lo <= i /\ i < s.j /\ i # s.k => b[i] >= b[s.k]
      <3> SUFFICES ASSUME NEW i \in I, lo <= i, i < s.j, i # s.k
                   PROVE  b[i] >= b[s.k]
        OBVIOUS
      <3>1. CASE i = s.mid
        BY <1>0, <1>3, <2>4, <2>5, <3>1
      <3>2. CASE i # s.mid
        BY <1>b, <2>5, <3>2
      <3> QED  BY <3>1, <3>2
    <2>7. \A i \in I : s.k - 1 < i /\ i <= hi /\ i # s.k => b[i] <= b[s.k]
      <3> SUFFICES ASSUME NEW i \in I, s.k - 1 < i, i <= hi, i # s.k
                   PROVE  b[i] <= b[s.k]
        OBVIOUS
      <3>1. i > s.k /\ i # s.mid
        BY <1>0, <1>3
      <3> QED  BY <1>b, <2>5, <3>1
    <2>9. DOMAIN b = I
      BY <2>5
    <2>a. /\ s.k \in lo .. hi /\ s.k - 1 \in lo - 1 .. hi
          /\ s.j <= s.k + 1 /\ s.k - 1 >= s.k - 1
      BY <1>0, <1>3, <1>a, <1>b
    <2>10. HalfInv(t, lo, hi)
      BY <1>a, <2>3, <2>6, <2>7, <2>9, <2>a DEF HalfInv, Passed
    <2> QED  BY <2>3, <2>8, <2>10 DEF t
  <1> QED  BY <1>1, <1>2, <1>3

-----------------------------------------------------------------------------
(* qsort: the stack of calls                                               *)

\* The locals of a call are in its range, and its range is in the array.
LEMMA FrameFacts ==
  ASSUME SortTypeOK, Contiguous, calls \in Seq(Frames), NEW d \in DOMAIN calls
  PROVE  /\ calls[d] \in Frames /\ DOMAIN array = DOMAIN given
         /\ calls[d].start \in Int /\ calls[d].end \in Int /\ calls[d].mid \in Int
         /\ calls[d].j \in Int /\ calls[d].k \in Int
         /\ calls[d].start \in DOMAIN array /\ calls[d].end \in DOMAIN array
         /\ calls[d].mid \in calls[d].start .. calls[d].end
         /\ calls[d].j \in calls[d].start .. calls[d].end + 1
         /\ calls[d].k \in calls[d].start - 1 .. calls[d].end
         /\ calls[d].at \in {"loop", "upper", "lower"}
         /\ calls[d].mid \in DOMAIN array
         /\ \A x \in Int : calls[d].start <= x /\ x <= calls[d].end => x \in DOMAIN array
  <1>1. calls[d] \in Frames
    OBVIOUS
  <1>2. /\ calls[d].start \in Int /\ calls[d].end \in Int /\ calls[d].mid \in Int
        /\ calls[d].j \in Int /\ calls[d].k \in Int
    BY <1>1 DEF Frames
  <1>3. /\ calls[d].start \in DOMAIN array /\ calls[d].end \in DOMAIN array
        /\ calls[d].mid \in calls[d].start .. calls[d].end
        /\ calls[d].j \in calls[d].start .. calls[d].end + 1
        /\ calls[d].k \in calls[d].start - 1 .. calls[d].end
        /\ calls[d].at \in {"loop", "upper", "lower"}
    BY DEF SortTypeOK, Indices
  <1>4. DOMAIN array = DOMAIN given
    BY DEF SortTypeOK
  <1>5. \A x \in Int : calls[d].start <= x /\ x <= calls[d].end => x \in DOMAIN array
    BY <1>3, <1>4 DEF Contiguous
  <1>6. calls[d].mid \in DOMAIN array
    BY <1>2, <1>3, <1>5
  <1> QED  BY <1>1, <1>2, <1>3, <1>4, <1>5, <1>6

\* A turn of the partition loop rearranges the range of the running call, and
\* leaves what its indices have passed on its side of the pivot.
LEMMA TurnKeeps ==
  ASSUME SortInv, Partition
  PROVE  \E mid, j, k \in Int :
           /\ calls' = [calls EXCEPT ![Len(calls)] =
                          [calls[Len(calls)] EXCEPT !.mid = mid, !.j = j, !.k = k]]
           /\ mid \in top.start .. top.end /\ j \in top.start .. top.end + 1
           /\ k \in top.start - 1 .. top.end
           /\ array' \in [DOMAIN given -> Values]
           /\ Moved(array, array', top.start, top.end)
           /\ Passed(array', top.start, top.end, mid, j, k)
  <1> DEFINE n == Len(calls)
             c == calls[n]
             I == DOMAIN given
             s0 == [a |-> array, mid |-> c.mid, j |-> c.j, k |-> c.k]
             s1 == LeftHalf(s0)
             s == RightHalf(s1)
  <1>1. calls \in Seq(Frames) /\ calls # <<>> /\ n \in DOMAIN calls /\ top = c
    BY DEF SortInv, StackInv, Partition, top, Last
  <1>2. c.at = "loop"
    BY <1>1 DEF Partition
  <1>3. /\ array' = s.a
        /\ calls' = [calls EXCEPT ![n].mid = s.mid, ![n].j = s.j, ![n].k = s.k]
    BY <1>1 DEF Partition
  <1>4. /\ c.start \in Int /\ c.end \in Int /\ c.mid \in Int /\ c.j \in Int /\ c.k \in Int
        /\ c.mid \in c.start .. c.end /\ c.j \in c.start .. c.end + 1
        /\ c.k \in c.start - 1 .. c.end
        /\ \A x \in Int : c.start <= x /\ x <= c.end => x \in I
    BY <1>1, FrameFacts DEF SortInv
  <1>5. IsFiniteSet(I) /\ I \subseteq Int /\ array \in [I -> Values]
    BY DEF SortInv, Contiguous, SortTypeOK
  <1>6. Passed(array, c.start, c.end, c.mid, c.j, c.k)
    BY <1>1, <1>2 DEF SortInv, StackInv, FrameInv
  <1> HIDE DEF n, c, I
  <1>7. s0 \in Halves(I) /\ HalfInv(s0, c.start, c.end) /\ s0.a = array
    BY <1>4, <1>5, <1>6 DEF Halves, HalfInv
  <1> HIDE DEF s0
  <1>8. s1 \in Halves(I) /\ HalfInv(s1, c.start, c.end) /\ Moved(s0.a, s1.a, c.start, c.end)
    BY <1>4, <1>5, <1>7, LeftHalfKeeps
  <1> HIDE DEF s1
  <1>9. s \in Halves(I) /\ HalfInv(s, c.start, c.end) /\ Moved(s1.a, s.a, c.start, c.end)
    BY <1>4, <1>5, <1>8, RightHalfKeeps
  <1> HIDE DEF s
  <1>10. Moved(array, array', c.start, c.end)
    BY <1>3, <1>7, <1>8, <1>9, MovedTwice
  <1>11. s.mid \in Int /\ s.j \in Int /\ s.k \in Int /\ s.a \in [I -> Values]
    BY <1>9 DEF Halves
  <1>12. calls' = [calls EXCEPT ![n] = [calls[n] EXCEPT !.mid = s.mid, !.j = s.j, !.k = s.k]]
    BY <1>1, <1>3
  <1>13. /\ s.mid \in c.start .. c.end /\ s.j \in c.start .. c.end + 1
         /\ s.k \in c.start - 1 .. c.end
         /\ Passed(array', c.start, c.end, s.mid, s.j, s.k)
    BY <1>3, <1>9 DEF HalfInv
  <1> QED  BY <1>1, <1>3, <1>10, <1>11, <1>12, <1>13 DEF n, I

\* The calls that wait keep their parts: the running call is inside the part
\* each of them is waiting for.
LEMMA WaitingKept ==
  ASSUME SortInv, calls # <<>>, NEW b, Moved(array, b, top.start, top.end),
         NEW d \in DOMAIN calls, d # Len(calls)
  PROVE  FrameInv(b, calls[d])
  <1> DEFINE c == calls[d]
             e == calls[Len(calls)]
  <1>1. calls \in Seq(Frames) /\ Len(calls) \in DOMAIN calls /\ d < Len(calls) /\ top = e
    BY DEF SortInv, StackInv, top, Last
  <1>2. c.at # "loop" /\ Inside(c, e) /\ FrameInv(array, c)
    BY <1>1 DEF SortInv, StackInv
  <1>3. /\ c.start \in Int /\ c.end \in Int /\ c.mid \in Int /\ c.mid \in DOMAIN array
        /\ c.mid \in c.start .. c.end
        /\ c.at \in {"loop", "upper", "lower"}
    BY <1>1, FrameFacts DEF SortInv
  <1>4. e.start \in Int /\ e.end \in Int /\ DOMAIN array \subseteq Int
    BY <1>1, FrameFacts DEF SortInv, Contiguous
  <1>5. Moved(array, b, e.start, e.end)
    BY <1>1
  <1> HIDE DEF c, e
  <1>6. \/ c.mid + 1 <= e.start /\ e.end <= c.end
        \/ c.start <= e.start /\ e.end <= c.mid - 1
    BY <1>2, <1>3 DEF Inside
  <1>7. Split(b, c.start, c.end, c.mid)
    BY <1>2, <1>3, <1>4, <1>5, <1>6, SplitKept DEF FrameInv
  <1>8. ASSUME c.at = "lower"
        PROVE  Desc(b, c.mid + 1, c.end)
    <2>1. Desc(array, c.mid + 1, c.end) /\ e.end < c.mid + 1
      BY <1>2, <1>3, <1>4, <1>8 DEF Inside, FrameInv
    <2>2. c.mid + 1 \in Int
      BY <1>3
    <2> QED  BY <1>3, <1>4, <1>5, <2>1, <2>2, DescKept
  <1>9. FrameInv(b, c)
    BY <1>2, <1>7, <1>8 DEF FrameInv
  <1> QED  BY <1>9 DEF c

\* A turn of the partition loop.
LEMMA PartitionKeeps ==
  ASSUME SortInv, Partition
  PROVE  SortInv'
  <1> DEFINE n == Len(calls)
             c == calls[n]
  <1>1. calls \in Seq(Frames) /\ calls # <<>> /\ n \in DOMAIN calls /\ top = c /\ n \in Nat
        /\ DOMAIN calls = 1 .. n
    BY DEF SortInv, StackInv, Partition, top, Last
  <1>2. c.at = "loop" /\ UNCHANGED given /\ c \in Frames
    BY <1>1 DEF Partition
  <1>3. PICK mid \in Int, j \in Int, k \in Int :
          /\ calls' = [calls EXCEPT ![n] = [calls[n] EXCEPT !.mid = mid, !.j = j, !.k = k]]
          /\ mid \in c.start .. c.end /\ j \in c.start .. c.end + 1
          /\ k \in c.start - 1 .. c.end
          /\ array' \in [DOMAIN given -> Values]
          /\ Moved(array, array', c.start, c.end)
          /\ Passed(array', c.start, c.end, mid, j, k)
    BY <1>1, TurnKeeps
  <1> DEFINE f == [calls[n] EXCEPT !.mid = mid, !.j = j, !.k = k]
  <1>4. /\ f \in Frames /\ f.start = c.start /\ f.end = c.end /\ f.at = "loop"
        /\ f.mid = mid /\ f.j = j /\ f.k = k
    BY <1>2 DEF Frames
  <1>5. calls' = [calls EXCEPT ![n] = f]
    BY <1>3
  <1> HIDE DEF f
  <1>6. /\ calls' \in Seq(Frames) /\ Len(calls') = n /\ DOMAIN calls' = DOMAIN calls
        /\ calls'[n] = f /\ calls' # <<>>
        /\ \A d \in DOMAIN calls : d # n => calls'[d] = calls[d]
    BY <1>1, <1>4, <1>5
  <1>7. DOMAIN array' = DOMAIN array /\ DOMAIN array = DOMAIN given
    BY <1>3 DEF SortInv, SortTypeOK
  <1>8. SortTypeOK'
    <2>1. \A d \in DOMAIN calls :
            /\ calls[d].start \in DOMAIN array /\ calls[d].end \in DOMAIN array
            /\ calls[d].mid \in calls[d].start .. calls[d].end
            /\ calls[d].j \in calls[d].start .. calls[d].end + 1
            /\ calls[d].k \in calls[d].start - 1 .. calls[d].end
            /\ calls[d].at \in {"loop", "upper", "lower"}
      BY DEF SortInv, SortTypeOK, Indices
    <2>2. \A d \in DOMAIN calls' :
            /\ calls'[d].start \in DOMAIN array /\ calls'[d].end \in DOMAIN array
            /\ calls'[d].mid \in calls'[d].start .. calls'[d].end
            /\ calls'[d].j \in calls'[d].start .. calls'[d].end + 1
            /\ calls'[d].k \in calls'[d].start - 1 .. calls'[d].end
            /\ calls'[d].at \in {"loop", "upper", "lower"}
      <3> SUFFICES ASSUME NEW d \in DOMAIN calls'
                   PROVE  /\ calls'[d].start \in DOMAIN array /\ calls'[d].end \in DOMAIN array
                          /\ calls'[d].mid \in calls'[d].start .. calls'[d].end
                          /\ calls'[d].j \in calls'[d].start .. calls'[d].end + 1
                          /\ calls'[d].k \in calls'[d].start - 1 .. calls'[d].end
                          /\ calls'[d].at \in {"loop", "upper", "lower"}
        OBVIOUS
      <3>1. CASE d = n
        BY <1>1, <1>3, <1>4, <1>6, <2>1, <3>1
      <3>2. CASE d # n
        BY <1>6, <2>1, <3>2
      <3> QED  BY <3>1, <3>2
    <2> QED  BY <1>2, <1>3, <1>7, <2>2 DEF SortTypeOK, Indices
  <1>9. Contiguous'
    BY <1>2 DEF SortInv, Contiguous
  <1>10. Rearranged'
    BY <1>2, <1>3, <1>7 DEF SortInv, Rearranged, Moved, SameElements, Indices
  <1>11. \A d \in DOMAIN calls' : FrameInv(array', calls'[d])
    <2>1. FrameInv(array', f)
      BY <1>3, <1>4 DEF FrameInv
    <2>2. \A d \in DOMAIN calls : d # n => FrameInv(array', calls[d])
      BY <1>1, <1>3, WaitingKept
    <2> QED  BY <1>6, <2>1, <2>2
  <1>12. TopInv(array', calls'[Len(calls')])
    BY <1>4, <1>6 DEF TopInv
  <1>13. ASSUME NEW d \in DOMAIN calls', NEW e \in DOMAIN calls', d < e
         PROVE  calls'[d].at # "loop" /\ Inside(calls'[d], calls'[e])
    <2>1. calls[d].at # "loop" /\ Inside(calls[d], calls[e])
      BY <1>6, <1>13 DEF SortInv, StackInv
    <2>2. d # n /\ calls'[d] = calls[d]
      BY <1>1, <1>6, <1>13
    <2>3. calls'[e].start = calls[e].start /\ calls'[e].end = calls[e].end
      BY <1>4, <1>6
    <2> QED  BY <2>1, <2>2, <2>3 DEF Inside
  <1>14. ASSUME NEW d \in DOMAIN calls', NEW e \in DOMAIN calls', e = d + 1
         PROVE  Covers(calls'[d], calls'[e])
    <2>1. Covers(calls[d], calls[e])
      BY <1>6, <1>14 DEF SortInv, StackInv
    <2>2. d # n /\ calls'[d] = calls[d]
      BY <1>1, <1>6, <1>14
    <2>3. calls'[e].start = calls[e].start /\ calls'[e].end = calls[e].end
      BY <1>4, <1>6
    <2> QED  BY <2>1, <2>2, <2>3 DEF Covers
  <1>15. \A i \in DOMAIN given' : calls'[1].start <= i /\ i <= calls'[1].end
    <2>1. calls'[1].start = calls[1].start /\ calls'[1].end = calls[1].end
      BY <1>1, <1>4, <1>6
    <2> QED  BY <1>1, <1>2, <2>1 DEF SortInv, StackInv
  <1>16. StackInv'
    BY <1>6, <1>11, <1>12, <1>13, <1>14, <1>15 DEF StackInv
  <1> QED  BY <1>8, <1>9, <1>10, <1>16 DEF SortInv

\* The call that runs goes on to its next part, and calls qsort for it unless
\* it has at most one element.
LEMMA PushKeeps ==
  ASSUME SortInv, calls # <<>>, UNCHANGED <<array, given>>,
         NEW part \in {"upper", "lower"}, NEW lo \in Int, NEW hi \in Int,
         part = "upper" => lo = top.mid + 1 /\ hi = top.end,
         part = "lower" => lo = top.start /\ hi = top.mid - 1,
         FrameInv(array, [top EXCEPT !.at = part]),
         calls' = Calling([calls EXCEPT ![Len(calls)].at = part], lo, hi)
  PROVE  SortInv'
  <1> DEFINE n == Len(calls)
             c == calls[n]
             f == [calls[n] EXCEPT !.at = part]
             st == [calls EXCEPT ![n] = f]
  <1>1. calls \in Seq(Frames) /\ n \in DOMAIN calls /\ top = c /\ n \in Nat \ {0}
        /\ DOMAIN calls = 1 .. n /\ c \in Frames
    BY DEF SortInv, StackInv, top, Last
  <1>2. /\ c.start \in Int /\ c.end \in Int /\ c.mid \in Int
        /\ c.start \in DOMAIN array /\ c.end \in DOMAIN array
        /\ c.mid \in c.start .. c.end /\ c.j \in c.start .. c.end + 1
        /\ c.k \in c.start - 1 .. c.end
        /\ \A x \in Int : c.start <= x /\ x <= c.end => x \in DOMAIN array
        /\ DOMAIN array = DOMAIN given
    BY <1>1, FrameFacts DEF SortInv
  <1>3. /\ f \in Frames /\ f.start = c.start /\ f.end = c.end /\ f.at = part
        /\ f.mid = c.mid /\ f.j = c.j /\ f.k = c.k
    BY <1>1 DEF Frames
  <1>4. FrameInv(array, f)
    BY <1>1
  <1>5. calls' = Calling(st, lo, hi)
    BY <1>1
  <1> HIDE DEF f
  <1>6. /\ st \in Seq(Frames) /\ Len(st) = n /\ DOMAIN st = 1 .. n
        /\ st[n] = f /\ st # <<>>
        /\ \A d \in 1 .. n : d # n => st[d] = calls[d]
    BY <1>1, <1>3
  <1> HIDE DEF st
  <1>7. /\ part = "upper" => lo = c.mid + 1 /\ hi = c.end
        /\ part = "lower" => lo = c.start /\ hi = c.mid - 1
    BY <1>1
  <1>8. c.start <= lo /\ hi <= c.end
    BY <1>2, <1>7
  <1>9. Contiguous' /\ Rearranged'
    BY DEF SortInv, Contiguous, Rearranged, Indices
  \* the frames below the new one
  <1>10. \A d \in 1 .. n :
           /\ st[d].start \in DOMAIN array /\ st[d].end \in DOMAIN array
           /\ st[d].mid \in st[d].start .. st[d].end
           /\ st[d].j \in st[d].start .. st[d].end + 1
           /\ st[d].k \in st[d].start - 1 .. st[d].end
           /\ st[d].at \in {"loop", "upper", "lower"}
    <2>1. \A d \in 1 .. n :
            /\ calls[d].start \in DOMAIN array /\ calls[d].end \in DOMAIN array
            /\ calls[d].mid \in calls[d].start .. calls[d].end
            /\ calls[d].j \in calls[d].start .. calls[d].end + 1
            /\ calls[d].k \in calls[d].start - 1 .. calls[d].end
            /\ calls[d].at \in {"loop", "upper", "lower"}
      BY <1>1 DEF SortInv, SortTypeOK, Indices
    <2> SUFFICES ASSUME NEW d \in 1 .. n
                 PROVE  /\ st[d].start \in DOMAIN array /\ st[d].end \in DOMAIN array
                        /\ st[d].mid \in st[d].start .. st[d].end
                        /\ st[d].j \in st[d].start .. st[d].end + 1
                        /\ st[d].k \in st[d].start - 1 .. st[d].end
                        /\ st[d].at \in {"loop", "upper", "lower"}
      OBVIOUS
    <2>2. CASE d = n
      BY <1>2, <1>3, <1>6, <2>2
    <2>3. CASE d # n
      BY <1>6, <2>1, <2>3
    <2> QED  BY <2>2, <2>3
  <1>11. \A d \in 1 .. n : FrameInv(array, st[d])
    BY <1>1, <1>4, <1>6 DEF SortInv, StackInv
  <1>12. \A d \in 1 .. n : st[d].start = calls[d].start /\ st[d].end = calls[d].end
    BY <1>3, <1>6
  <1>13. \A d, e \in 1 .. n : d < e => st[d].at # "loop" /\ Inside(st[d], st[e])
    <2> SUFFICES ASSUME NEW d \in 1 .. n, NEW e \in 1 .. n, d < e
                 PROVE  st[d].at # "loop" /\ Inside(st[d], st[e])
      OBVIOUS
    <2>1. calls[d].at # "loop" /\ Inside(calls[d], calls[e])
      BY <1>1 DEF SortInv, StackInv
    <2>2. st[d] = calls[d]
      BY <1>1, <1>6
    <2> QED  BY <1>12, <2>1, <2>2 DEF Inside
  <1>14. \A d, e \in 1 .. n : e = d + 1 => Covers(st[d], st[e])
    <2> SUFFICES ASSUME NEW d \in 1 .. n, NEW e \in 1 .. n, e = d + 1
                 PROVE  Covers(st[d], st[e])
      OBVIOUS
    <2>1. Covers(calls[d], calls[e])
      BY <1>1 DEF SortInv, StackInv
    <2>2. st[d] = calls[d]
      BY <1>1, <1>6
    <2> QED  BY <1>12, <2>1, <2>2 DEF Covers
  <1>15. \A i \in DOMAIN given : st[1].start <= i /\ i <= st[1].end
    BY <1>1, <1>12 DEF SortInv, StackInv
  \* a part of at most one element
  <1>16. CASE hi <= lo
    <2>1. calls' = st
      BY <1>5, <1>16 DEF Calling
    <2>2. DOMAIN array \subseteq Int
      BY <1>2 DEF SortInv, Contiguous
    <2>3. Desc(array, lo, hi)
      BY <1>16, <2>2 DEF Desc
    <2>4. TopInv(array, f)
      BY <1>3, <1>7, <2>3 DEF TopInv
    <2>5. SortTypeOK'
      BY <1>6, <1>10, <2>1 DEF SortInv, SortTypeOK, Indices
    <2>6. StackInv'
      BY <1>6, <1>11, <1>13, <1>14, <1>15, <2>1, <2>4 DEF StackInv
    <2> QED  BY <1>9, <2>5, <2>6 DEF SortInv
  \* a longer one
  <1>17. CASE ~(hi <= lo)
    <2> DEFINE g == Locals(lo, hi)
    <2>1. calls' = Append(st, g)
      BY <1>5, <1>17 DEF Calling
    <2>2. /\ g.start = lo /\ g.end = hi /\ g.j = lo /\ g.k = hi /\ g.at = "loop"
          /\ g.mid = (hi - lo + 1) \div 2 + lo
          /\ g = [start |-> lo, end |-> hi, mid |-> g.mid, j |-> lo, k |-> hi, at |-> "loop"]
      BY DEF Locals
    <2> HIDE DEF g
    <2>3. g.mid \in lo .. hi
      BY <1>17, <2>2
    <2>4. g \in Frames
      BY <2>2, <2>3 DEF Frames
    <2>5. /\ calls' \in Seq(Frames) /\ Len(calls') = n + 1 /\ DOMAIN calls' = 1 .. n + 1
          /\ calls'[n + 1] = g /\ \A d \in 1 .. n : calls'[d] = st[d]
          /\ calls' # <<>>
      <3>1. /\ Append(st, g) \in Seq(Frames) /\ Len(Append(st, g)) = Len(st) + 1
            /\ Append(st, g)[Len(st) + 1] = g
            /\ \A d \in 1 .. Len(st) : Append(st, g)[d] = st[d]
            /\ Append(st, g) # <<>>
        BY <1>6, <2>4, AppendProperties
      <3>2. DOMAIN Append(st, g) = 1 .. Len(st) + 1
        BY <3>1
      <3> QED  BY <1>6, <2>1, <3>1, <3>2
    <2>a. n \in Nat \ {0} /\ \A d \in 1 .. n + 1 : d \in 1 .. n \/ d = n + 1
      BY <1>1
    <2> HIDE DEF n, c
    <2>b. \A d \in DOMAIN calls' : d \in 1 .. n \/ d = n + 1
      BY <2>5, <2>a
    <2>6. lo \in DOMAIN array /\ hi \in DOMAIN array
      BY <1>2, <1>8, <1>17
    <2>7. SortTypeOK'
      <3>1. /\ g.start \in DOMAIN array /\ g.end \in DOMAIN array
            /\ g.mid \in g.start .. g.end /\ g.j \in g.start .. g.end + 1
            /\ g.k \in g.start - 1 .. g.end /\ g.at \in {"loop", "upper", "lower"}
        BY <1>17, <2>2, <2>3, <2>6
      <3>3. \A d \in DOMAIN calls' :
              /\ calls'[d].start \in DOMAIN array /\ calls'[d].end \in DOMAIN array
              /\ calls'[d].mid \in calls'[d].start .. calls'[d].end
              /\ calls'[d].j \in calls'[d].start .. calls'[d].end + 1
              /\ calls'[d].k \in calls'[d].start - 1 .. calls'[d].end
              /\ calls'[d].at \in {"loop", "upper", "lower"}
        BY <1>10, <2>5, <2>b, <3>1
      <3> QED  BY <3>3 DEF SortInv, SortTypeOK, Indices
    <2>8. FrameInv(array, g)
      <3>1. DOMAIN array \subseteq Int
        BY <1>2 DEF SortInv, Contiguous
      <3>2. Passed(array, lo, hi, g.mid, lo, hi)
        BY <1>17, <2>3, <3>1 DEF Passed
      <3> QED  BY <2>2, <3>2 DEF FrameInv
    <2>9. \A d \in DOMAIN calls' : FrameInv(array, calls'[d])
      BY <1>11, <2>5, <2>b, <2>8
    <2>10. TopInv(array, g)
      BY <2>2 DEF TopInv
    <2>11. Covers(f, g) /\ Inside(f, g) /\ f.at # "loop"
      <3>1. c.mid + 1 \in Int /\ c.end \in Int /\ c.start \in Int /\ c.mid - 1 \in Int
        BY <1>2
      <3>2. CASE part = "upper"
        BY <1>3, <1>7, <2>2, <3>1, <3>2 DEF Covers, Inside
      <3>3. CASE part = "lower"
        BY <1>3, <1>7, <2>2, <3>1, <3>3 DEF Covers, Inside
      <3> QED  BY <3>2, <3>3
    <2>12. ASSUME NEW d \in DOMAIN calls', NEW e \in DOMAIN calls', d < e
           PROVE  calls'[d].at # "loop" /\ Inside(calls'[d], calls'[e])
      <3>1. CASE e \in 1 .. n
        <4>1. d \in 1 .. n
          BY <2>5, <2>a, <2>12, <3>1
        <4> QED  BY <1>13, <2>5, <2>12, <3>1, <4>1
      <3>2. CASE e = n + 1 /\ d = n
        BY <1>6, <2>5, <2>a, <2>11, <3>2
      <3>3. CASE e = n + 1 /\ d # n
        <4>a. d \in 1 .. n
          <5>1. d \in 1 .. n \/ d = n + 1
            BY <2>b
          <5>2. ~(n + 1 < n + 1)
            BY <2>a
          <5> QED  BY <2>12, <3>3, <5>1, <5>2
        <4>b. d < n
          BY <2>a, <3>3, <4>a
        <4>1. d \in 1 .. n /\ d < n /\ calls'[d] = st[d] /\ calls'[e] = g
          BY <2>5, <3>3, <4>a, <4>b
        <4>2. st[d].at # "loop" /\ Inside(st[d], f)
          BY <1>6, <1>13, <2>a, <4>1
        <4>3. st[d] \in Frames
          BY <1>6, <4>1
        <4>5. /\ st[d].start \in Int /\ st[d].end \in Int /\ st[d].mid \in Int
              /\ f.start <= g.start /\ g.end <= f.end
              /\ f.start \in Int /\ f.end \in Int /\ g.start \in Int /\ g.end \in Int
          BY <1>2, <1>3, <1>8, <2>2, <4>3 DEF Frames
        <4>4. Inside(st[d], g)
          <5>1. ASSUME st[d].at = "upper"
                PROVE  st[d].mid + 1 <= g.start /\ g.end <= st[d].end
            <6>1. st[d].mid + 1 <= f.start /\ f.end <= st[d].end
              BY <4>2, <5>1 DEF Inside
            <6> QED  BY <4>5, <6>1
          <5>2. ASSUME st[d].at = "lower"
                PROVE  st[d].start <= g.start /\ g.end <= st[d].mid - 1
            <6>1. st[d].start <= f.start /\ f.end <= st[d].mid - 1
              BY <4>2, <5>2 DEF Inside
            <6> QED  BY <4>5, <6>1
          <5> QED  BY <5>1, <5>2 DEF Inside
        <4> QED  BY <4>1, <4>2, <4>4
      <3> QED  BY <2>b, <3>1, <3>2, <3>3
    <2>13. ASSUME NEW d \in DOMAIN calls', NEW e \in DOMAIN calls', e = d + 1
           PROVE  Covers(calls'[d], calls'[e])
      <3>1. CASE e \in 1 .. n
        <4>1. d \in 1 .. n
          BY <2>5, <2>a, <2>13, <3>1
        <4> QED  BY <1>14, <2>5, <2>13, <3>1, <4>1
      <3>2. CASE e = n + 1
        <4>1. d = n
          BY <2>5, <2>a, <2>13, <3>2
        <4> QED  BY <1>6, <2>5, <2>a, <2>11, <3>2, <4>1
      <3> QED  BY <2>b, <3>1, <3>2
    <2>14. \A i \in DOMAIN given : calls'[1].start <= i /\ i <= calls'[1].end
      <3>1. 1 \in 1 .. n
        BY <2>a
      <3> QED  BY <1>15, <2>5, <3>1
    <2>15. StackInv'
      BY <2>5, <2>9, <2>10, <2>12, <2>13, <2>14 DEF StackInv
    <2> QED  BY <1>9, <2>7, <2>15 DEF SortInv
  <1> QED  BY <1>16, <1>17

\* j and k have passed each other at the pivot: the range is split.
LEMMA UpperKeeps ==
  ASSUME SortInv, SortUpper
  PROVE  SortInv'
  <1> DEFINE c == calls[Len(calls)]
             f == [c EXCEPT !.at = "upper"]
  <1>1. calls \in Seq(Frames) /\ calls # <<>> /\ Len(calls) \in DOMAIN calls /\ top = c
    BY DEF SortInv, StackInv, SortUpper, top, Last
  <1>2. c.at = "loop" /\ c.j > c.k /\ c \in Frames /\ UNCHANGED <<array, given>>
    BY <1>1 DEF SortUpper
  <1>3. /\ c.start \in Int /\ c.end \in Int /\ c.mid \in Int /\ c.j \in Int /\ c.k \in Int
        /\ DOMAIN array \subseteq Int
    BY <1>1, FrameFacts DEF SortInv, Contiguous
  <1>4. Passed(array, c.start, c.end, c.mid, c.j, c.k)
    BY <1>1, <1>2 DEF SortInv, StackInv, FrameInv
  <1>5. f.start = c.start /\ f.end = c.end /\ f.mid = c.mid /\ f.at = "upper"
    BY <1>2 DEF Frames
  <1>6. calls' = Calling([calls EXCEPT ![Len(calls)].at = "upper"], c.mid + 1, c.end)
    BY <1>1 DEF SortUpper
  <1> HIDE DEF c, f
  <1>7. c.j >= c.mid /\ c.k <= c.mid
    BY <1>2, <1>3, <1>4 DEF Passed
  <1>8. Split(array, c.start, c.end, c.mid)
    BY <1>3, <1>4, <1>7 DEF Split, Passed
  <1>9. FrameInv(array, f)
    BY <1>5, <1>8 DEF FrameInv
  <1>10. c.mid + 1 \in Int
    BY <1>3
  <1> QED  BY <1>1, <1>2, <1>3, <1>6, <1>9, <1>10, PushKeeps DEF f

\* The upper part is in order when the lower part's turn comes.
LEMMA LowerKeeps ==
  ASSUME SortInv, SortLower
  PROVE  SortInv'
  <1> DEFINE c == calls[Len(calls)]
             f == [c EXCEPT !.at = "lower"]
  <1>1. calls \in Seq(Frames) /\ calls # <<>> /\ Len(calls) \in DOMAIN calls /\ top = c
    BY DEF SortInv, StackInv, SortLower, top, Last
  <1>2. c.at = "upper" /\ c \in Frames /\ UNCHANGED <<array, given>>
    BY <1>1 DEF SortLower
  <1>3. c.start \in Int /\ c.end \in Int /\ c.mid \in Int
    BY <1>1, FrameFacts DEF SortInv
  <1>4. Split(array, c.start, c.end, c.mid) /\ Desc(array, c.mid + 1, c.end)
    BY <1>1, <1>2 DEF SortInv, StackInv, FrameInv, TopInv
  <1>5. f.start = c.start /\ f.end = c.end /\ f.mid = c.mid /\ f.at = "lower"
    BY <1>2 DEF Frames
  <1>6. calls' = Calling([calls EXCEPT ![Len(calls)].at = "lower"], c.start, c.mid - 1)
    BY <1>1 DEF SortLower
  <1> HIDE DEF c, f
  <1>9. FrameInv(array, f)
    BY <1>4, <1>5 DEF FrameInv
  <1>10. c.mid - 1 \in Int
    BY <1>3
  <1> QED  BY <1>1, <1>2, <1>3, <1>6, <1>9, <1>10, PushKeeps DEF f

\* Two parts in order on either side of the pivot are one range in order.
LEMMA DescJoin ==
  ASSUME NEW a \in [DOMAIN given -> Values], DOMAIN given \subseteq Int,
         NEW lo \in Int, NEW hi \in Int, NEW mid \in DOMAIN given,
         Split(a, lo, hi, mid), Desc(a, mid + 1, hi), Desc(a, lo, mid - 1)
  PROVE  Desc(a, lo, hi)
  <1>1. DOMAIN a = DOMAIN given /\ \A x \in DOMAIN given : x \in Int /\ a[x] \in Int
    BY SortAssumption
  <1> SUFFICES ASSUME NEW i \in DOMAIN a, NEW l \in DOMAIN a, lo <= i, i < l, l <= hi
               PROVE  a[i] >= a[l]
    BY DEF Desc
  <1>2. i \in Int /\ l \in Int /\ mid \in Int /\ a[i] \in Int /\ a[l] \in Int /\ a[mid] \in Int
    BY <1>1
  <1>3. CASE mid < i
    <2>1. mid + 1 <= i
      BY <1>2, <1>3
    <2> QED  BY <2>1 DEF Desc
  <1>4. CASE l < mid
    <2>1. l <= mid - 1
      BY <1>2, <1>4
    <2> QED  BY <2>1 DEF Desc
  <1>5. CASE i <= mid /\ mid <= l
    <2>1. a[i] >= a[mid]
      <3>1. i < mid \/ i = mid
        BY <1>2, <1>5
      <3> QED  BY <1>2, <3>1 DEF Split
    <2>2. a[mid] >= a[l]
      <3>1. mid < l \/ l = mid
        BY <1>2, <1>5
      <3> QED  BY <1>2, <3>1 DEF Split
    <2> QED  BY <1>2, <2>1, <2>2
  <1> QED  BY <1>2, <1>3, <1>4, <1>5

\* A call returns: its range is the part the call around it was waiting for.
LEMMA ReturnKeeps ==
  ASSUME SortInv, SortReturn
  PROVE  SortInv'
  <1> DEFINE n == Len(calls)
             c == calls[n]
  <1>1. calls \in Seq(Frames) /\ calls # <<>> /\ n \in DOMAIN calls /\ top = c
    BY DEF SortInv, StackInv, SortReturn, top, Last
  <1>2. c.at = "lower" /\ UNCHANGED <<array, given>> /\ calls' = Front(calls)
    BY <1>1 DEF SortReturn
  <1>3. /\ c.start \in Int /\ c.end \in Int /\ c.mid \in DOMAIN given
        /\ DOMAIN given \subseteq Int /\ array \in [DOMAIN given -> Values]
        /\ DOMAIN array = DOMAIN given
    BY <1>1, FrameFacts DEF SortInv, Contiguous, SortTypeOK
  <1>4. /\ Split(array, c.start, c.end, c.mid) /\ Desc(array, c.mid + 1, c.end)
        /\ Desc(array, c.start, c.mid - 1)
    BY <1>1, <1>2 DEF SortInv, StackInv, FrameInv, TopInv
  <1>5. Desc(array, c.start, c.end)
    BY <1>3, <1>4, DescJoin
  <1>6. /\ calls' \in Seq(Frames) /\ Len(calls') = n - 1
        /\ \A d \in DOMAIN calls' : calls'[d] = calls[d]
    BY <1>1, <1>2, Fronted
  <1>7. n \in Nat \ {0} /\ DOMAIN calls = 1 .. n /\ DOMAIN calls' = 1 .. n - 1
    BY <1>1, <1>6
  <1>8. \A d \in DOMAIN calls' : d \in DOMAIN calls
    BY <1>7
  <1>9. SortTypeOK' /\ Contiguous' /\ Rearranged'
    BY <1>2, <1>6, <1>8 DEF SortInv, SortTypeOK, Contiguous, Rearranged, Indices
  <1>10. \A d \in DOMAIN calls' : FrameInv(array, calls'[d])
    BY <1>6, <1>8 DEF SortInv, StackInv
  <1>11. /\ \A d, e \in DOMAIN calls' : d < e =>
              calls'[d].at # "loop" /\ Inside(calls'[d], calls'[e])
         /\ \A d, e \in DOMAIN calls' : e = d + 1 => Covers(calls'[d], calls'[e])
    BY <1>6, <1>8 DEF SortInv, StackInv
  <1>12. ASSUME calls' # <<>>
         PROVE  /\ TopInv(array, calls'[Len(calls')])
                /\ \A i \in DOMAIN given : calls'[1].start <= i /\ i <= calls'[1].end
    <2>1. n - 1 \in DOMAIN calls' /\ 1 \in DOMAIN calls' /\ n - 1 \in DOMAIN calls /\ n = (n - 1) + 1
      BY <1>6, <1>7, <1>12
    <2>2. Covers(calls[n - 1], c)
      BY <1>1, <2>1 DEF SortInv, StackInv
    <2>3. TopInv(array, calls[n - 1])
      BY <1>5, <2>2 DEF Covers, TopInv
    <2>4. \A i \in DOMAIN given : calls[1].start <= i /\ i <= calls[1].end
      BY <1>1 DEF SortInv, StackInv
    <2> QED  BY <1>6, <2>1, <2>3, <2>4
  <1>13. ASSUME calls' = <<>>
         PROVE  \A i, l \in DOMAIN given : i < l => array[i] >= array[l]
    <2>1. n = 1
      BY <1>6, <1>7, <1>13
    <2>2. \A i \in DOMAIN given : c.start <= i /\ i <= c.end
      BY <1>1, <2>1 DEF SortInv, StackInv
    <2> QED  BY <1>3, <1>5, <2>2 DEF Desc
  <1>14. StackInv'
    BY <1>2, <1>6, <1>10, <1>11, <1>12, <1>13 DEF StackInv
  <1> QED  BY <1>9, <1>14 DEF SortInv

\* Every step of qsort keeps SortInv.
LEMMA SortStep ==
  ASSUME SortInv, [SNext]_svars
  PROVE  SortInv'
  <1>1. CASE UNCHANGED svars
    BY <1>1 DEF svars, SortInv, SortTypeOK, Contiguous, StackInv, Rearranged, Indices
  <1> QED  BY <1>1, PartitionKeeps, UpperKeeps, LowerKeeps, ReturnKeeps DEF SNext

\* The outermost call has the whole array as its range, or there is nothing to sort.
LEMMA SortStart ==
  ASSUME Init
  PROVE  SortInv
  <1>1. CASE SInit
    <2>1. PICK n \in 1 .. MaxSize : given \in [0 .. n - 1 -> Values]
      BY <1>1 DEF SInit
    <2>2. DOMAIN given = 0 .. n - 1 /\ n \in Nat \ {0} /\ array = given
      BY <1>1, <2>1, SortAssumption DEF SInit
    <2>3. IsFiniteSet(0 .. n - 1) /\ Cardinality(0 .. n - 1) = n
      <3>1. 0 \in Int /\ n - 1 \in Int
        BY <2>2
      <3>2. Cardinality(0 .. n - 1) = IF 0 > n - 1 THEN 0 ELSE (n - 1) - 0 + 1
        BY <3>1, FS_Interval
      <3>3. IsFiniteSet(0 .. n - 1)
        BY <3>1, FS_Interval
      <3> QED  BY <2>2, <3>2, <3>3
    <2>4. calls = Calling(<<>>, 0, n - 1)
      BY <1>1, <2>2, <2>3 DEF SInit
    <2>5. Contiguous /\ Rearranged
      BY <2>2, <2>3 DEF Contiguous, Rearranged
    <2>6. CASE n = 1
      <3>1. calls = <<>>
        BY <2>4, <2>6 DEF Calling
      <3>2. calls \in Seq(Frames) /\ DOMAIN calls = {}
        BY <3>1
      <3>3. SortTypeOK
        BY <2>1, <2>2, <3>2 DEF SortTypeOK
      <3>4. \A i, l \in DOMAIN given : ~(i < l)
        BY <2>2, <2>6
      <3>5. StackInv
        BY <3>1, <3>2, <3>4 DEF StackInv
      <3> QED  BY <2>5, <3>3, <3>5 DEF SortInv
    <2>7. CASE n # 1
      <3> DEFINE g == Locals(0, n - 1)
      <3>1. calls = Append(<<>>, g)
        BY <2>2, <2>4, <2>7 DEF Calling
      <3>2. /\ g.start = 0 /\ g.end = n - 1 /\ g.j = 0 /\ g.k = n - 1 /\ g.at = "loop"
            /\ g.mid = ((n - 1) - 0 + 1) \div 2 + 0
            /\ g = [start |-> 0, end |-> n - 1, mid |-> g.mid, j |-> 0, k |-> n - 1, at |-> "loop"]
        BY DEF Locals
      <3> HIDE DEF g
      <3>3. g.mid \in 0 .. n - 1
        BY <2>2, <2>7, <3>2
      <3>4. g \in Frames
        BY <2>2, <3>2, <3>3 DEF Frames
      <3>5. calls = <<g>>
        BY <3>1
      <3>6. calls \in Seq(Frames) /\ Len(calls) = 1 /\ DOMAIN calls = {1} /\ calls[1] = g /\ calls # <<>>
        BY <3>4, <3>5
      <3>7. SortTypeOK
        BY <2>1, <2>2, <3>2, <3>3, <3>6 DEF SortTypeOK, Indices
      <3>8. Passed(array, 0, n - 1, g.mid, 0, n - 1)
        BY <2>2, <3>3 DEF Passed
      <3>9. FrameInv(array, g) /\ TopInv(array, g)
        BY <3>2, <3>8 DEF FrameInv, TopInv
      <3>10. \A i \in DOMAIN given : g.start <= i /\ i <= g.end
        BY <2>2, <3>2
      <3>11. \A d, e \in DOMAIN calls : ~(d < e) /\ e # d + 1
        BY <3>6
      <3>12. StackInv
        BY <3>6, <3>9, <3>10, <3>11 DEF StackInv
      <3> QED  BY <2>5, <3>7, <3>12 DEF SortInv
    <2> QED  BY <2>6, <2>7
  <1>2. CASE SortAtRest
    <2>1. array = <<>> /\ calls = <<>> /\ given = <<>>
      BY <1>2 DEF SortAtRest
    <2>2. /\ DOMAIN given = {} /\ DOMAIN array = {} /\ DOMAIN calls = {}
          /\ array \in [{} -> Values] /\ calls \in Seq(Frames)
      BY <2>1
    <2>3. IsFiniteSet({})
      BY FS_EmptySet
    <2> QED  BY <2>1, <2>2, <2>3 DEF SortInv, SortTypeOK, Contiguous, StackInv, Rearranged, Indices
  <1> QED  BY <1>1, <1>2 DEF Init

\* Whatever the array and however often its values are repeated, the elements
\* are at every moment those that were given, and when the outermost qsort has
\* returned they are in descending order.
THEOREM Sorts == Spec => []SortedAtEnd
  <1>1. Init => SortInv
    BY SortStart
  <1>2. SortInv /\ [Next]_vars => SortInv'
    BY OneRuns, SortStep
  <1>3. SortInv => SortedAtEnd
    BY DEF SortInv, SortedAtEnd, StackInv, SortTypeOK, Indices
  <1> QED  BY <1>1, <1>2, <1>3, PTL DEF Spec

\* The types of the three programs, for every size: with them no index of qsort
\* leaves the array, no iterator of the delegates goes past the end of the list,
\* and every pointer of the linked list is a node or null.
THEOREM StructuresTyped == Spec => []StructuresTypeOK
  <1> DEFINE TInv == DelegateTypeOK /\ IterInv /\ SortInv /\ ListTypeOK /\ ListInv
  <1>1. Init => TInv
    BY DelegateInit, SortStart, ListStart DEF Init
  <1>2. TInv /\ [Next]_vars => TInv'
    BY OneRuns, DelegateStep, SortStep, ListStep
  <1>3. TInv => StructuresTypeOK
    BY DEF StructuresTypeOK, SortInv
  <1> QED  BY <1>1, <1>2, <1>3, PTL DEF Spec

-----------------------------------------------------------------------------
(* The linked list: what is on its chains                                  *)

\* The nodes 1 to k lead down to null, the nodes lo to count up to null.
Down(k) == \A i \in 1 .. k : next[i] = IF i = 1 THEN NIL ELSE i - 1
Up(lo) == \A i \in lo .. count : next[i] = IF i = count THEN NIL ELSE i + 1

\* Where the nodes are.  initlist has linked the nodes up to node.  reverlist
\* has k of them on the header's side, in descending order, and the others on
\* node's.  freelist has the nodes from node on before it.
LinkInv ==
  /\ phase = "initlist" =>
       /\ node \in 0 .. count /\ live = 0 .. node
       /\ node > 0 => \A i \in 0 .. node : next[i] = IF i = node THEN NIL ELSE i + 1
  /\ phase = "reverlist" =>
       /\ live = 0 .. count
       /\ \E k \in 0 .. count :
            /\ next[header] = (IF k = 0 THEN NIL ELSE k) /\ Down(k)
            /\ node = (IF k = count THEN NIL ELSE k + 1) /\ Up(k + 1)
  /\ phase = "freelist" =>
       \/ node = NIL /\ live = {}
       \/ node = header /\ live = 0 .. count /\ next[header] = count /\ Down(count)
       \/ node \in 1 .. count /\ live = 1 .. node /\ Down(node)

\* The equations of the function that Chain is defined by.
MetFcn(met, p) ==
  /\ met \in [0 .. MaxCount -> Nodes \cup {NIL}] /\ met[0] = p
  /\ \A i \in 1 .. MaxCount : met[i] = IF met[i - 1] = NIL THEN NIL ELSE next[met[i - 1]]

\* There is such a function, and Chain is what it meets before null.
LEMMA ChainDef ==
  ASSUME ListTypeOK, NEW p \in Nodes \cup {NIL}
  PROVE  \E met : /\ MetFcn(met, p)
                  /\ Chain(p) = [i \in 1 .. Cardinality({n \in 0 .. MaxCount : met[n] # NIL})
                                   |-> met[i - 1]]
  <1> USE CountAssumption
  <1> DEFINE X == Nodes \cup {NIL}
             f == [i \in Nat |-> [x \in X |-> IF x = NIL THEN NIL ELSE next[x]]]
             E(g, i) == IF i = 0 THEN p ELSE IF g[i - 1] = NIL THEN NIL ELSE next[g[i - 1]]
             Rec(g) == g = [i \in 0 .. MaxCount |-> E(g, i)]
  <1>1. f \in [Nat -> [X -> X]] /\ p \in X /\ NIL \in X /\ \A x \in X : x # NIL => next[x] \in X
    BY DEF ListTypeOK
  <1>2. PICK g : Iterates(g, X, p, f, MaxCount)
    <2> HIDE DEF f, X
    <2> QED  BY <1>1, Recursion, Zenon
  <1>3. /\ g \in [0 .. MaxCount -> X] /\ g[0] = p
        /\ \A i \in 0 .. MaxCount - 1 : g[i + 1] = f[i][g[i]]
    <2> HIDE DEF f, X
    <2> QED  BY <1>2 DEF Iterates
  <1>4. Rec(g)
    <2>1. \A i \in 0 .. MaxCount : g[i] = E(g, i)
      <3>1. ASSUME NEW i \in 1 .. MaxCount
            PROVE  g[i] = E(g, i)
        <4>1. i - 1 \in 0 .. MaxCount - 1 /\ (i - 1) + 1 = i /\ i - 1 \in 0 .. MaxCount /\ i - 1 \in Nat
          OBVIOUS
        <4>2. g[i] = f[i - 1][g[i - 1]] /\ g[i - 1] \in X
          <5> HIDE DEF f, X
          <5> QED  BY <1>3, <4>1
        <4>3. f[i - 1][g[i - 1]] = IF g[i - 1] = NIL THEN NIL ELSE next[g[i - 1]]
          <5> HIDE DEF X
          <5> QED  BY <4>1, <4>2
        <4> QED  BY <4>2, <4>3
      <3> HIDE DEF f, X
      <3>2. g[0] = E(g, 0)
        BY <1>3
      <3> HIDE DEF E
      <3>3. \A i \in 0 .. MaxCount : i = 0 \/ i \in 1 .. MaxCount
        OBVIOUS
      <3> QED  BY <3>1, <3>2, <3>3, Zenon
    <2> HIDE DEF E, f, X
    <2> QED  BY <1>3, <2>1
  <1> DEFINE met == CHOOSE g1 : Rec(g1)
  <1>5. Rec(met)
    <2> HIDE DEF Rec
    <2> QED  BY <1>4
  <1>6. Chain(p) = [i \in 1 .. Cardinality({n \in 0 .. MaxCount : met[n] # NIL}) |-> met[i - 1]]
    BY DEF Chain
  <1> HIDE DEF met
  <1>7. DOMAIN met = 0 .. MaxCount /\ \A i \in 0 .. MaxCount : met[i] = E(met, i)
    <2> HIDE DEF E, f, X
    <2> QED  BY <1>5
  <1>8. /\ met[0] = p
        /\ \A i \in 1 .. MaxCount : met[i] = IF met[i - 1] = NIL THEN NIL ELSE next[met[i - 1]]
    <2>1. 0 \in 0 .. MaxCount /\ E(met, 0) = p
      OBVIOUS
    <2>2. ASSUME NEW i \in 1 .. MaxCount
          PROVE  met[i] = IF met[i - 1] = NIL THEN NIL ELSE next[met[i - 1]]
      <3>1. i \in 0 .. MaxCount /\ i # 0
        OBVIOUS
      <3>2. met[i] = E(met, i)
        BY <1>7, <3>1, Zenon
      <3> QED  BY <3>1, <3>2, Zenon
    <2> QED  BY <1>7, <2>1, <2>2, Zenon
  <1>9. \A i \in 0 .. MaxCount : met[i] \in X
    <2> DEFINE T == {n \in Nat : n <= MaxCount => met[n] \in X}
    <2> HIDE DEF X, f
    <2>1. 0 \in T
      BY <1>1, <1>8
    <2>2. ASSUME NEW n \in Nat, n \in T
          PROVE  n + 1 \in T
      <3> SUFFICES ASSUME n + 1 <= MaxCount
                   PROVE  met[n + 1] \in X
        OBVIOUS
      <3>1. n + 1 \in 1 .. MaxCount /\ (n + 1) - 1 = n /\ n <= MaxCount
        OBVIOUS
      <3>2. met[n] \in X
        BY <2>2, <3>1
      <3>3. met[n + 1] = IF met[n] = NIL THEN NIL ELSE next[met[n]]
        BY <1>8, <3>1
      <3> QED  BY <1>1, <3>2, <3>3
    <2> HIDE DEF T
    <2>3. \A n \in Nat : n \in T
      BY <2>1, <2>2, Induction
    <2> QED  BY <2>3 DEF T
  <1>10. met \in [0 .. MaxCount -> Nodes \cup {NIL}]
    <2> HIDE DEF E, f
    <2>1. met = [i \in 0 .. MaxCount |-> met[i]]
      BY <1>5, <1>7
    <2> QED  BY <1>9, <2>1
  <1> QED  BY <1>6, <1>8, <1>10 DEF MetFcn

\* A sequence of nodes each of which leads to the next, the last one to null, is
\* the chain of its first node.
LEMMA ChainIsPath ==
  ASSUME ListTypeOK, NEW m \in 1 .. MaxCount + 1, NEW f \in [1 .. m -> Nodes],
         \A i \in 1 .. m : next[f[i]] = IF i = m THEN NIL ELSE f[i + 1]
  PROVE  Chain(f[1]) = f
  <1> USE CountAssumption
  <1>1. f[1] \in Nodes /\ \A i \in 1 .. m : f[i] \in Nodes
    OBVIOUS
  <1>n. NIL \notin Nodes
    BY DEF NIL, Nodes
  <1> DEFINE p == f[1]
  <1>2. PICK met : /\ MetFcn(met, p)
                   /\ Chain(p) = [i \in 1 .. Cardinality({n \in 0 .. MaxCount : met[n] # NIL})
                                    |-> met[i - 1]]
    <2> HIDE DEF p
    <2>1. p \in Nodes \cup {NIL}
      BY <1>1 DEF p
    <2> QED  BY <2>1, ChainDef
  <1>3. \A n \in 0 .. MaxCount : met[n] = IF n < m THEN f[n + 1] ELSE NIL
    <2> DEFINE T == {n \in Nat : n <= MaxCount => met[n] = IF n < m THEN f[n + 1] ELSE NIL}
    <2>1. 0 \in T
      BY <1>2 DEF MetFcn
    <2>2. ASSUME NEW n \in Nat, n \in T
          PROVE  n + 1 \in T
      <3> SUFFICES ASSUME n + 1 <= MaxCount
                   PROVE  met[n + 1] = IF n + 1 < m THEN f[(n + 1) + 1] ELSE NIL
        OBVIOUS
      <3>1. n + 1 \in 1 .. MaxCount /\ (n + 1) - 1 = n /\ n <= MaxCount
        OBVIOUS
      <3>2. met[n] = IF n < m THEN f[n + 1] ELSE NIL
        BY <2>2, <3>1
      <3>3. met[n + 1] = IF met[n] = NIL THEN NIL ELSE next[met[n]]
        BY <1>2, <3>1 DEF MetFcn
      <3>4. CASE n < m
        <4>1. n + 1 \in 1 .. m
          BY <3>4
        <4>2. met[n] # NIL /\ met[n + 1] = next[f[n + 1]]
          BY <1>1, <1>n, <3>2, <3>3, <3>4, <4>1
        <4>3. next[f[n + 1]] = IF n + 1 = m THEN NIL ELSE f[(n + 1) + 1]
          BY <4>1
        <4> QED  BY <3>4, <4>2, <4>3
      <3>5. CASE ~(n < m)
        BY <3>2, <3>3, <3>5
      <3> QED  BY <3>4, <3>5
    <2> HIDE DEF T
    <2>3. \A n \in Nat : n \in T
      BY <2>1, <2>2, Induction
    <2> QED  BY <2>3 DEF T
  <1>4. {n \in 0 .. MaxCount : met[n] # NIL} = 0 .. m - 1
    <2>1. \A n \in 0 .. MaxCount : met[n] # NIL <=> n < m
      <3> TAKE n \in 0 .. MaxCount
      <3>1. CASE n < m
        <4>1. n + 1 \in 1 .. m
          BY <3>1
        <4> QED  BY <1>1, <1>3, <1>n, <3>1, <4>1
      <3>2. CASE ~(n < m)
        BY <1>3, <3>2
      <3> QED  BY <3>1, <3>2
    <2> QED  BY <2>1
  <1>5. Cardinality(0 .. m - 1) = m
    <2>1. \A a, b \in Int : a <= b => Cardinality(a .. b) = (b - a) + 1
      BY FS_Interval
    <2> QED  BY <2>1
  <1>6. Chain(p) = [i \in 1 .. m |-> met[i - 1]]
    BY <1>2, <1>4, <1>5
  <1>7. \A i \in 1 .. m : met[i - 1] = f[i]
    BY <1>3
  <1>8. Chain(p) = [i \in 1 .. m |-> f[i]]
    BY <1>6, <1>7
  <1> QED  BY <1>8

\* The chain of null is empty.
LEMMA ChainOfNull ==
  ASSUME ListTypeOK
  PROVE  Chain(NIL) = <<>>
  <1> USE CountAssumption
  <1>1. PICK met : /\ MetFcn(met, NIL)
                   /\ Chain(NIL) = [i \in 1 .. Cardinality({n \in 0 .. MaxCount : met[n] # NIL})
                                      |-> met[i - 1]]
    <2>1. NIL \in Nodes \cup {NIL}
      OBVIOUS
    <2> QED  BY <2>1, ChainDef
  <1>2. \A n \in 0 .. MaxCount : met[n] = NIL
    <2> DEFINE T == {n \in Nat : n <= MaxCount => met[n] = NIL}
    <2>1. 0 \in T
      BY <1>1 DEF MetFcn
    <2>2. ASSUME NEW n \in Nat, n \in T
          PROVE  n + 1 \in T
      <3> SUFFICES ASSUME n + 1 <= MaxCount
                   PROVE  met[n + 1] = NIL
        OBVIOUS
      <3>1. n + 1 \in 1 .. MaxCount /\ (n + 1) - 1 = n /\ n <= MaxCount
        OBVIOUS
      <3> QED  BY <1>1, <2>2, <3>1 DEF MetFcn
    <2> HIDE DEF T
    <2>3. \A n \in Nat : n \in T
      BY <2>1, <2>2, Induction
    <2> QED  BY <2>3 DEF T
  <1>3. {n \in 0 .. MaxCount : met[n] # NIL} = {}
    BY <1>2
  <1>4. Cardinality({}) = 0
    BY FS_EmptySet
  <1>5. Chain(NIL) = [i \in 1 .. 0 |-> met[i - 1]]
    BY <1>1, <1>3, <1>4
  <1> QED  BY <1>5

\* The steps keep the nodes where LinkInv says.
LEMMA LinkStep ==
  ASSUME ListTypeOK, LinkInv, [LNext]_lvars
  PROVE  LinkInv'
  <1> USE CountAssumption
  <1>0. /\ next \in [Nodes -> Nodes \cup {NIL}] /\ count \in 1 .. MaxCount /\ 0 .. count \subseteq Nodes
        /\ Nodes = 0 .. MaxCount /\ NIL = -1 /\ header = 0 /\ DOMAIN next = 0 .. MaxCount
    BY DEF ListTypeOK, Nodes, NIL, header
  <1>1. ASSUME InitList
        PROVE  LinkInv'
    <2>1. phase = "initlist" /\ node \in 0 .. count /\ live = 0 .. node
      BY <1>1 DEF InitList, LinkInv
    <2>2. Cardinality(live) = node + 1
      <3>1. \A a, b \in Int : a <= b => Cardinality(a .. b) = (b - a) + 1
        BY FS_Interval
      <3> QED  BY <2>1, <3>1
    <2>3. /\ node + 1 <= count /\ next' = [next EXCEPT ![node] = node + 1, ![node + 1] = NIL]
          /\ live' = live \cup {node + 1} /\ node' = node + 1
          /\ count' = count /\ phase' = "initlist"
      BY <1>1, <2>1, <2>2 DEF InitList
    <2>4. live' = 0 .. node' /\ node' \in 0 .. count'
      BY <1>0, <2>1, <2>3
    <2>5. \A i \in 0 .. node' : next'[i] = IF i = node' THEN NIL ELSE i + 1
      <3> TAKE i \in 0 .. node'
      <3>1. i \in DOMAIN next
        BY <1>0, <2>1, <2>3
      <3>2. CASE i = node + 1
        BY <2>3, <3>1, <3>2
      <3>3. CASE i = node
        BY <1>0, <2>1, <2>3, <3>1, <3>3
      <3>4. CASE i # node /\ i # node + 1
        <4>1. i \in 0 .. node /\ node > 0
          BY <2>1, <2>3, <3>4
        <4>2. next[i] = i + 1
          BY <2>1, <3>4, <4>1 DEF LinkInv
        <4> QED  BY <2>3, <3>1, <3>4, <4>2
      <3> QED  BY <3>2, <3>3, <3>4
    <2> QED  BY <2>3, <2>4, <2>5 DEF LinkInv
  <1>2. ASSUME StartReverse
        PROVE  LinkInv'
    <2>1. /\ phase = "initlist" /\ node \in 0 .. count /\ live = 0 .. node
          /\ node > 0 => \A i \in 0 .. node : next[i] = IF i = node THEN NIL ELSE i + 1
      BY <1>2 DEF StartReverse, LinkInv
    <2>2. Cardinality(live) = node + 1
      <3>1. \A a, b \in Int : a <= b => Cardinality(a .. b) = (b - a) + 1
        BY FS_Interval
      <3> QED  BY <2>1, <3>1
    <2>3. node = count
      BY <1>0, <1>2, <2>1, <2>2 DEF StartReverse
    <2>4. \A i \in 0 .. count : next[i] = IF i = count THEN NIL ELSE i + 1
      BY <1>0, <2>1, <2>3
    <2>5. /\ node' = 1 /\ next' = [next EXCEPT ![0] = NIL] /\ phase' = "reverlist"
          /\ live' = 0 .. count /\ count' = count
      BY <1>0, <1>2, <2>1, <2>3, <2>4 DEF StartReverse
    <2>6. next'[0] = NIL /\ \A i \in 1 .. count : next'[i] = next[i]
      BY <1>0, <2>5
    <2>7. Down(0)' /\ Up(0 + 1)'
      BY <1>0, <2>4, <2>5, <2>6 DEF Down, Up
    <2>8. \E k \in 0 .. count' :
            /\ next'[header] = (IF k = 0 THEN NIL ELSE k) /\ Down(k)'
            /\ node' = (IF k = count' THEN NIL ELSE k + 1) /\ Up(k + 1)'
      <3>1. 0 \in 0 .. count' /\ 0 # count'
        BY <1>0, <2>5
      <3> QED  BY <1>0, <2>5, <2>6, <2>7, <3>1
    <2> QED  BY <2>5, <2>8 DEF LinkInv
  <1>3. ASSUME RelinkNode
        PROVE  LinkInv'
    <2>1. phase = "reverlist" /\ node # NIL /\ live = 0 .. count
      BY <1>3 DEF RelinkNode, LinkInv
    <2>2. PICK k \in 0 .. count :
            /\ next[header] = (IF k = 0 THEN NIL ELSE k) /\ Down(k)
            /\ node = (IF k = count THEN NIL ELSE k + 1) /\ Up(k + 1)
      BY <2>1 DEF LinkInv
    <2>3. k < count /\ node = k + 1 /\ k + 1 \in 1 .. count
      BY <1>0, <2>1, <2>2
    <2>4. next[k + 1] = IF k + 1 = count THEN NIL ELSE (k + 1) + 1
      BY <1>0, <2>2, <2>3 DEF Up
    <2>5. /\ next' = [next EXCEPT ![0] = k + 1, ![k + 1] = next[0]]
          /\ node' = next[k + 1] /\ live' = live /\ count' = count /\ phase' = "reverlist"
      BY <1>0, <1>3, <2>3 DEF RelinkNode
    <2>6. /\ next'[0] = k + 1 /\ next'[k + 1] = (IF k = 0 THEN NIL ELSE k)
          /\ \A i \in 1 .. count : i # k + 1 => next'[i] = next[i]
      BY <1>0, <2>2, <2>3, <2>5
    <2>7. Down(k + 1)'
      <3>1. ASSUME NEW i \in 1 .. k + 1
            PROVE  next'[i] = IF i = 1 THEN NIL ELSE i - 1
        <4>1. CASE i = k + 1
          BY <2>6, <4>1
        <4>2. CASE i # k + 1
          <5>1. i \in 1 .. k /\ i \in 1 .. count
            BY <1>0, <4>2
          <5> QED  BY <2>2, <2>6, <4>2, <5>1 DEF Down
        <4> QED  BY <4>1, <4>2
      <3> QED  BY <3>1 DEF Down
    <2>8. Up((k + 1) + 1)'
      <3>1. ASSUME NEW i \in (k + 1) + 1 .. count
            PROVE  next'[i] = IF i = count THEN NIL ELSE i + 1
        <4>1. i \in k + 1 .. count /\ i # k + 1 /\ i \in 1 .. count
          BY <1>0
        <4> QED  BY <2>2, <2>6, <4>1 DEF Up
      <3> QED  BY <2>5, <3>1 DEF Up
    <2>9. \E l \in 0 .. count' :
            /\ next'[header] = (IF l = 0 THEN NIL ELSE l) /\ Down(l)'
            /\ node' = (IF l = count' THEN NIL ELSE l + 1) /\ Up(l + 1)'
      <3>1. k + 1 \in 0 .. count' /\ k + 1 # 0
        BY <2>3, <2>5
      <3> QED  BY <1>0, <2>4, <2>5, <2>6, <2>7, <2>8, <3>1
    <2> QED  BY <2>1, <2>5, <2>9 DEF LinkInv
  <1>4. ASSUME StartFree
        PROVE  LinkInv'
    <2>1. phase = "reverlist" /\ node = NIL /\ live = 0 .. count
      BY <1>4 DEF StartFree, LinkInv
    <2>2. PICK k \in 0 .. count :
            /\ next[header] = (IF k = 0 THEN NIL ELSE k) /\ Down(k)
            /\ node = (IF k = count THEN NIL ELSE k + 1) /\ Up(k + 1)
      BY <2>1 DEF LinkInv
    <2>3. k = count /\ count # 0
      BY <1>0, <2>1, <2>2
    <2>4. next[header] = count /\ Down(count)
      BY <2>2, <2>3
    <2>5. node' = header /\ phase' = "freelist" /\ UNCHANGED <<next, live, count>>
      BY <1>4 DEF StartFree
    <2>6. Down(count)'
      BY <2>4, <2>5 DEF Down
    <2> QED  BY <2>1, <2>4, <2>5, <2>6 DEF LinkInv
  <1>5. ASSUME FreeNode
        PROVE  LinkInv'
    <2>1. /\ phase = "freelist" /\ node # NIL /\ live' = live \ {node} /\ node' = next[node]
          /\ UNCHANGED <<next, count, phase>>
      BY <1>5 DEF FreeNode
    <2>2. CASE node = header /\ live = 0 .. count /\ next[header] = count /\ Down(count)
      <3>1. node' = count /\ live' = 1 .. count
        BY <1>0, <2>1, <2>2
      <3>2. Down(node)'
        BY <2>1, <2>2, <3>1 DEF Down
      <3> QED  BY <1>0, <2>1, <3>1, <3>2 DEF LinkInv
    <2>3. CASE node \in 1 .. count /\ live = 1 .. node /\ Down(node)
      <3>1. node' = IF node = 1 THEN NIL ELSE node - 1
        BY <2>1, <2>3 DEF Down
      <3>2. CASE node = 1
        BY <2>1, <2>3, <3>1, <3>2 DEF LinkInv
      <3>3. CASE node # 1
        <4>1. node' = node - 1 /\ node' \in 1 .. count' /\ live' = 1 .. node'
          <5>1. node \in Int /\ node > 1 /\ node' = node - 1
            BY <1>0, <2>3, <3>1, <3>3
          <5>2. (1 .. node) \ {node} = 1 .. node - 1
            BY <5>1
          <5>3. live' = 1 .. node'
            BY <2>1, <2>3, <5>1, <5>2
          <5>4. node' \in 1 .. count'
            BY <1>0, <2>1, <2>3, <5>1
          <5> QED  BY <5>1, <5>3, <5>4
        <4>2. Down(node)'
          BY <1>0, <2>1, <2>3, <4>1 DEF Down
        <4> QED  BY <2>1, <4>1, <4>2 DEF LinkInv
      <3> QED  BY <3>2, <3>3
    <2> QED  BY <2>1, <2>2, <2>3 DEF LinkInv
  <1>6. ASSUME UNCHANGED lvars
        PROVE  LinkInv'
    BY <1>6 DEF lvars, LinkInv, Down, Up
  <1> QED  BY <1>1, <1>2, <1>3, <1>4, <1>5, <1>6 DEF LNext

\* Where the nodes are, the chains are what ListKept says.
LEMMA KeptFromLinks ==
  ASSUME ListTypeOK, LinkInv
  PROVE  ListKept
  <1> USE CountAssumption
  <1>0. /\ next \in [Nodes -> Nodes \cup {NIL}] /\ count \in 1 .. MaxCount
        /\ Nodes = 0 .. MaxCount /\ NIL = -1 /\ header = 0
    BY DEF ListTypeOK, Nodes, NIL, header
  <1>1. ASSUME NEW k \in 1 .. count, Down(k)
        PROVE  Chain(k) = [i \in 1 .. k |-> k + 1 - i]
    <2> DEFINE f == [i \in 1 .. k |-> k + 1 - i]
    <2>1. k \in 1 .. MaxCount + 1 /\ f \in [1 .. k -> Nodes] /\ f[1] = k
      BY <1>0
    <2>2. \A i \in 1 .. k : next[f[i]] = IF i = k THEN NIL ELSE f[i + 1]
      <3> TAKE i \in 1 .. k
      <3>1. k + 1 - i \in 1 .. k /\ (k + 1 - i = 1 <=> i = k) /\ f[i] = k + 1 - i
        OBVIOUS
      <3>2. i # k => f[i + 1] = (k + 1 - i) - 1
        OBVIOUS
      <3> HIDE DEF f
      <3> QED  BY <1>1, <3>1, <3>2 DEF Down
    <2> HIDE DEF f
    <2>3. Chain(f[1]) = f
      BY <2>1, <2>2, ChainIsPath
    <2> QED  BY <2>1, <2>3 DEF f
  <1>2. ASSUME NEW k \in 0 .. count - 1, Up(k + 1)
        PROVE  Chain(k + 1) = [i \in 1 .. count - k |-> k + i]
    <2> DEFINE f == [i \in 1 .. count - k |-> k + i]
               m == count - k
    <2>1. m \in 1 .. MaxCount + 1 /\ f \in [1 .. m -> Nodes] /\ f[1] = k + 1
      BY <1>0
    <2>2. \A i \in 1 .. m : next[f[i]] = IF i = m THEN NIL ELSE f[i + 1]
      <3> TAKE i \in 1 .. m
      <3>1. k + i \in k + 1 .. count /\ (k + i = count <=> i = m) /\ f[i] = k + i
        BY <1>0
      <3>2. i # m => f[i + 1] = (k + i) + 1
        BY <1>0
      <3> HIDE DEF f
      <3> QED  BY <1>2, <3>1, <3>2 DEF Up
    <2> HIDE DEF f, m
    <2>3. Chain(f[1]) = f
      BY <2>1, <2>2, ChainIsPath
    <2> QED  BY <2>1, <2>3 DEF f
  <1>3. ReversingKeepsAll
    <2> SUFFICES ASSUME phase = "reverlist"
                 PROVE  LET done == Len(Chain(next[header]))
                        IN  /\ Chain(next[header]) = [i \in 1 .. done |-> done + 1 - i]
                            /\ Chain(node) = [i \in 1 .. count - done |-> done + i]
      BY DEF ReversingKeepsAll
    <2>1. PICK k \in 0 .. count :
            /\ next[header] = (IF k = 0 THEN NIL ELSE k) /\ Down(k)
            /\ node = (IF k = count THEN NIL ELSE k + 1) /\ Up(k + 1)
      BY DEF LinkInv
    <2>2. Chain(next[header]) = [i \in 1 .. k |-> k + 1 - i]
      <3>1. CASE k = 0
        <4>1. [i \in 1 .. k |-> k + 1 - i] = <<>>
          BY <3>1
        <4> QED  BY <2>1, <3>1, <4>1, ChainOfNull
      <3>2. CASE k # 0
        <4>1. k \in 1 .. count /\ next[header] = k
          BY <2>1, <3>2
        <4> QED  BY <1>1, <2>1, <4>1
      <3> QED  BY <3>1, <3>2
    <2>3. Len(Chain(next[header])) = k
      BY <2>2
    <2>4. Chain(node) = [i \in 1 .. count - k |-> k + i]
      <3>1. CASE k = count
        <4>1. [i \in 1 .. count - k |-> k + i] = <<>>
          BY <1>0, <3>1
        <4> QED  BY <2>1, <3>1, <4>1, ChainOfNull
      <3>2. CASE k # count
        <4>1. k \in 0 .. count - 1 /\ node = k + 1
          BY <1>0, <2>1, <3>2
        <4> QED  BY <1>2, <2>1, <4>1
      <3> QED  BY <3>1, <3>2
    <2> QED  BY <2>2, <2>3, <2>4
  <1>4. FreesEachOnce
    <2> SUFFICES ASSUME phase = "freelist"
                 PROVE  /\ node # NIL => node \in live
                        /\ live = {Chain(node)[i] : i \in DOMAIN Chain(node)}
      BY DEF FreesEachOnce
    <2>1. CASE node = NIL /\ live = {}
      <3>1. Chain(node) = <<>>
        BY <2>1, ChainOfNull
      <3> QED  BY <2>1, <3>1
    <2>2. CASE node = header /\ live = 0 .. count /\ next[header] = count /\ Down(count)
      <3> DEFINE f == [i \in 1 .. count + 1 |-> IF i = 1 THEN 0 ELSE count + 2 - i]
                 m == count + 1
      <3>1. m \in 1 .. MaxCount + 1 /\ f \in [1 .. m -> Nodes] /\ f[1] = 0 /\ DOMAIN f = 1 .. m
        BY <1>0
      <3>2. \A i \in 1 .. m : next[f[i]] = IF i = m THEN NIL ELSE f[i + 1]
        <4> TAKE i \in 1 .. m
        <4>1. CASE i = 1
          <5>1. f[i] = 0 /\ i # m /\ f[i + 1] = count
            BY <1>0, <4>1
          <5> QED  BY <1>0, <2>2, <5>1
        <4>2. CASE i # 1
          <5>1. count + 2 - i \in 1 .. count /\ (count + 2 - i = 1 <=> i = m) /\ f[i] = count + 2 - i
            BY <1>0, <4>2
          <5>2. i # m => f[i + 1] = (count + 2 - i) - 1
            BY <1>0, <4>2
          <5> HIDE DEF f
          <5> QED  BY <2>2, <5>1, <5>2 DEF Down
        <4> QED  BY <4>1, <4>2
      <3>3. {f[i] : i \in 1 .. m} = 0 .. count
        <4>1. ASSUME NEW x \in 0 .. count
              PROVE  \E i \in 1 .. m : f[i] = x
          <5>1. CASE x = 0
            <6>1. 1 \in 1 .. m /\ f[1] = x
              BY <1>0, <5>1
            <6> QED  BY <6>1
          <5>2. CASE x # 0
            <6>1. count + 2 - x \in 1 .. m /\ f[count + 2 - x] = x
              BY <1>0, <5>2
            <6> QED  BY <6>1
          <5> QED  BY <5>1, <5>2
        <4>2. \A i \in 1 .. m : f[i] \in 0 .. count
          BY <1>0
        <4> HIDE DEF f, m
        <4> QED  BY <4>1, <4>2
      <3> HIDE DEF f, m
      <3>4. Chain(f[1]) = f
        BY <3>1, <3>2, ChainIsPath
      <3>5. Chain(node) = f
        BY <1>0, <2>2, <3>1, <3>4
      <3> QED  BY <1>0, <2>2, <3>1, <3>3, <3>5
    <2>3. CASE node \in 1 .. count /\ live = 1 .. node /\ Down(node)
      <3>1. Chain(node) = [i \in 1 .. node |-> node + 1 - i]
        BY <1>1, <2>3
      <3>2. {node + 1 - i : i \in 1 .. node} = 1 .. node
        <4>1. \A x \in 1 .. node : node + 1 - x \in 1 .. node /\ node + 1 - (node + 1 - x) = x
          BY <2>3
        <4> QED  BY <2>3, <4>1
      <3> DEFINE f == [i \in 1 .. node |-> node + 1 - i]
      <3>3. {f[i] : i \in DOMAIN f} = {node + 1 - i : i \in 1 .. node}
        OBVIOUS
      <3> HIDE DEF f
      <3>4. Chain(node) = f
        BY <3>1 DEF f
      <3>5. node \in 1 .. node
        BY <1>0, <2>3
      <3> QED  BY <2>3, <3>2, <3>3, <3>4, <3>5, Zenon
    <2> QED  BY <2>1, <2>2, <2>3 DEF LinkInv
  <1> QED  BY <1>3, <1>4 DEF ListKept

\* Before the first node is made, and at rest, the nodes are where LinkInv says.
LEMMA LinkStart ==
  ASSUME Init
  PROVE  LinkInv
  <1>1. CASE LInit
    <2>1. /\ phase = "initlist" /\ node = 0 /\ live = {0} /\ count \in 1 .. MaxCount
      BY <1>1 DEF LInit, header
    <2>2. 0 .. 0 = {0} /\ node \in 0 .. count
      BY <2>1, CountAssumption
    <2> QED  BY <2>1, <2>2 DEF LinkInv
  <1>2. CASE ListAtRest
    BY <1>2 DEF ListAtRest, LinkInv
  <1> QED  BY <1>1, <1>2 DEF Init

\* Whatever the length of the list and whatever the header's next held before,
\* reverlist keeps every node on one of its two chains, in order and without a
\* cycle, and freelist meets every node once and none that is deleted.
THEOREM ListSurvives == Spec => []ListKept
  <1> DEFINE CInv == ListTypeOK /\ ListInv /\ LinkInv
  <1>1. Init => CInv
    BY ListStart, LinkStart
  <1>2. CInv /\ [Next]_vars => CInv'
    BY OneRuns, ListStep, LinkStep
  <1>3. CInv => ListKept
    BY KeptFromLinks
  <1> QED  BY <1>1, <1>2, <1>3, PTL DEF Spec
=============================================================================
