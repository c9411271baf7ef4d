--------------------------- MODULE MultiDelegate ---------------------------
(***************************************************************************)
(* CMultiDelegate (include/MyDelegate.h): a std::list of pointers to       *)
(* delegates that it owns.  -= and clear leave a null in the list, and     *)
(* only operator() erases the nulls it meets, so that a delegate may       *)
(* unsubscribe itself, and others, while it is being called.               *)
(*                                                                         *)
(* A delegate is the target it calls; an address of the heap holds one or  *)
(* none.  A list iterator is a position: erase moves those behind it, and  *)
(* leaves the ones that stand on the erased node dangling.                 *)
(***************************************************************************)
EXTENDS SeqFilter, FiniteSets, SequencesExt

CONSTANTS Targets,   \* functions, or objects with a method, to be called
          NoTarget,  \* the content of a free address
          Addrs,     \* addresses of delegate objects, without 0
          MaxLen,    \* longest list
          MaxDepth   \* deepest nesting of calls

ASSUME DelegateAssumption ==
  /\ NoTarget \notin Targets /\ Addrs \subseteq Nat \ {0}
  /\ MaxLen \in Nat /\ MaxDepth \in Nat

VARIABLES heap,            \* what each address holds
          mListDelegates,  \* the list of pointers
          iters,           \* iter of each operator() in progress, outermost first:
                           \* its place, and whether its node is still there
          mode,            \* "user" code, inside a call or outside, or the "loop"
          undefined        \* a dangling iterator has been used

dvars == <<heap, mListDelegates, iters, mode, undefined>>

NULL == 0

DInit ==
  /\ heap = [a \in Addrs |-> NoTarget]
  /\ mListDelegates = <<>>
  /\ iters = <<>> /\ mode = "user" /\ undefined = FALSE

-----------------------------------------------------------------------------

Allocated == {a \in Addrs : heap[a] # NoTarget}

\* compare of the delegate at position i with one that calls t: same type
\* and same function, or same object and same method.
compare(i, t) == mListDelegates[i] # NULL /\ heap[mListDelegates[i]] = t

Equal(t) == {i \in DOMAIN mListDelegates : compare(i, t)}

User == mode = "user" /\ ~undefined

newDelegate(a, t) == a \in Addrs \ Allocated /\ t \in Targets

\* e += newDelegate(t): a delegate the list has an equal of is deleted again.
AddDelegate(a, t) ==
  /\ User /\ newDelegate(a, t)
  /\ IF Equal(t) # {}
     THEN UNCHANGED <<heap, mListDelegates>>
     ELSE /\ Len(mListDelegates) < MaxLen
          /\ mListDelegates' = Append(mListDelegates, a)
          /\ heap' = [heap EXCEPT ![a] = t]
  /\ UNCHANGED <<iters, mode, undefined>>

\* Mutant: -= nulls the entry and does not delete the delegate.
RemoveKeeps(t) ==
  /\ User /\ Equal(t) # {}
  /\ mListDelegates' = [i \in DOMAIN mListDelegates |->
                          IF i \in Equal(t) THEN NULL ELSE mListDelegates[i]]
  /\ UNCHANGED <<heap, iters, mode, undefined>>

\* Mutant: -= erases the entry instead of nulling it.
RemoveErases(t) ==
  /\ User
  /\ \E i \in Equal(t) :
       /\ heap' = [heap EXCEPT ![mListDelegates[i]] = NoTarget]
       /\ mListDelegates' = RemoveAt(mListDelegates, i)
       /\ iters' = [d \in DOMAIN iters |->
                      IF iters[d].at < i THEN iters[d]
                      ELSE [at |-> iters[d].at - 1,
                            valid |-> iters[d].valid /\ iters[d].at # i]]
  /\ UNCHANGED <<mode, undefined>>

\* e -= newDelegate(t), or e -= p with a pointer the list holds: the first
\* equal delegate is deleted and its entry nulled; the argument is deleted
\* too, once when it is that same delegate.
RemoveDelegate(t) ==
  /\ User /\ t \in Targets
  /\ IF Equal(t) = {}
     THEN UNCHANGED <<heap, mListDelegates>>
     ELSE LET i == CHOOSE k \in Equal(t) : \A l \in Equal(t) : k <= l IN
          /\ heap' = [heap EXCEPT ![mListDelegates[i]] = NoTarget]
          /\ mListDelegates' = [mListDelegates EXCEPT ![i] = NULL]
  /\ UNCHANGED <<iters, mode, undefined>>

\* clear(), also called by the destructor.
ClearDelegates ==
  /\ User
  /\ heap' = [a \in Addrs |-> IF \E i \in DOMAIN mListDelegates : mListDelegates[i] = a
                              THEN NoTarget ELSE heap[a]]
  /\ mListDelegates' = [i \in DOMAIN mListDelegates |-> NULL]
  /\ UNCHANGED <<iters, mode, undefined>>

\* operator(): the call, from outside or from a delegate that is being called.
Call ==
  /\ User /\ Len(iters) < MaxDepth
  /\ iters' = Append(iters, [at |-> 1, valid |-> TRUE]) /\ mode' = "loop"
  /\ UNCHANGED <<heap, mListDelegates, undefined>>

iter == Last(iters).at

Looping == mode = "loop" /\ ~undefined

\* Mutant: ++iter after erase(iter), which has moved on already.
EraseSkips ==
  /\ Looping /\ iter \in DOMAIN mListDelegates /\ mListDelegates[iter] = NULL
  /\ mListDelegates' = RemoveAt(mListDelegates, iter)
  /\ iters' = [iters EXCEPT ![Len(iters)].at = @ + 1]
  /\ UNCHANGED <<heap, mode, undefined>>

\* erase(iter): the iterators of the calls around this one that stand on the
\* erased node are left dangling.
EraseNull ==
  /\ Looping /\ iter \in DOMAIN mListDelegates /\ mListDelegates[iter] = NULL
  /\ mListDelegates' = RemoveAt(mListDelegates, iter)
  /\ iters' = [d \in DOMAIN iters |->
                 IF d = Len(iters) \/ iters[d].at < iter THEN iters[d]
                 ELSE [at |-> iters[d].at - 1,
                       valid |-> iters[d].valid /\ iters[d].at # iter]]
  /\ UNCHANGED <<heap, mode, undefined>>

Invoke ==
  /\ Looping /\ iter \in DOMAIN mListDelegates /\ mListDelegates[iter] # NULL
  /\ mode' = "user"
  /\ UNCHANGED <<heap, mListDelegates, iters, undefined>>

\* Mutant: the iterator is moved twice.
ReturnedTwice ==
  /\ User /\ iters # <<>> /\ mode' = "loop"
  /\ iters' = [iters EXCEPT ![Len(iters)].at = @ + 2]
  /\ UNCHANGED <<heap, mListDelegates, undefined>>

\* The delegate returns, and ++iter.
Returned ==
  /\ User /\ iters # <<>>
  /\ mode' = "loop"
  /\ iters' = [iters EXCEPT ![Len(iters)].at = @ + 1]
  /\ undefined' = ~Last(iters).valid
  /\ UNCHANGED <<heap, mListDelegates>>

\* iter has reached end(): operator() returns.
CallEnds ==
  /\ Looping /\ iter \notin DOMAIN mListDelegates
  /\ iters' = Front(iters) /\ mode' = "user"
  /\ UNCHANGED <<heap, mListDelegates, undefined>>

DNext ==
  \/ \E t \in Targets : RemoveDelegate(t) \/ \E a \in Addrs : AddDelegate(a, t)
  \/ ClearDelegates \/ Call \/ EraseNull \/ Invoke \/ Returned \/ CallEnds

DSpec == DInit /\ [][DNext]_dvars

-----------------------------------------------------------------------------
(* Properties                                                              *)

\* The types; an iterator of operator() is on a node of the list, just behind
\* its end, or before a first node that was erased under it.
DelegateTypeOK ==
  /\ heap \in [Addrs -> Targets \cup {NoTarget}]
  /\ mListDelegates \in Seq(Addrs \cup {NULL}) /\ Len(mListDelegates) <= MaxLen
  /\ iters \in Seq([at : 0 .. MaxLen + 1, valid : BOOLEAN]) /\ Len(iters) <= MaxDepth
  /\ mode \in {"user", "loop"} /\ undefined \in BOOLEAN

\* Ownership of the delegates: every object that is allocated is in the list
\* exactly once, and every entry of the list that is not null points to one,
\* so that nothing leaks, is deleted twice or is called after its deletion.
OwnedOnce ==
  /\ \A i \in DOMAIN mListDelegates : mListDelegates[i] \in Allocated \cup {NULL}
  /\ \A a \in Allocated :
       Cardinality({i \in DOMAIN mListDelegates : mListDelegates[i] = a}) = 1

\* Whatever the delegates of a call add, remove or clear while it runs, its
\* iterator stays on a node of the list: only a call nested in it can erase
\* that node, and only when the delegate it is calling has been removed.
IteratorsKept ==
  [][\A d \in DOMAIN iters \cap DOMAIN iters' :
       iters[d].valid /\ ~iters'[d].valid =>
         d < Len(iters) /\ mListDelegates[iters[d].at] = NULL]_dvars

\* The targets of the entries of a list that are not null.
Callees(list) ==
  LET held == Only(list, Addrs)
  IN  [i \in DOMAIN held |-> heap[held[i]]]

\* The targets that call d has still to reach.
ToCome(d) ==
  LET from == IF d = Len(iters) /\ mode = "loop" THEN iters[d].at ELSE iters[d].at + 1
  IN  Callees(SubSeq(mListDelegates, from, Len(mListDelegates)))

Subscribers == INSTANCE Multicast
  WITH subs <- Callees(mListDelegates),
       todo <- [d \in DOMAIN iters |-> ToCome(d)],
       active <- mode = "user"

\* The list with its nulls and its late erasing is a multicast: nobody is
\* subscribed twice, however the nulls lie, and a call reaches those who are
\* subscribed when their turn comes, in order, as long as no dangling iterator
\* is used.
IsMulticast == Subscribers!MSpec
=============================================================================
