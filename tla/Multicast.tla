----------------------------- MODULE Multicast -----------------------------
(***************************************************************************)
(* What a multicast delegate promises to the code that uses it: it keeps   *)
(* its subscribers in the order of their subscription, each of them once,  *)
(* and a call reaches, in that order and once for each subscription, every *)
(* subscriber whose turn comes while it is subscribed.  Subscribers may    *)
(* come and go, and further calls be made, from inside a call.             *)
(***************************************************************************)
EXTENDS SeqFilter, SequencesExt

CONSTANT Targets

VARIABLES subs,    \* the subscribers, in the order of subscription
          todo,    \* for each call in progress, outermost first, who is to come
          active   \* TRUE while the code of a subscriber (or of no call) runs

mvars == <<subs, todo, active>>

Without(s, t) == Only(s, Targets \ {t})

MInit == subs = <<>> /\ todo = <<>> /\ active = TRUE

Subscribe(t) ==
  /\ active /\ ~Contains(subs, t)
  /\ subs' = Append(subs, t)
  /\ todo' = [d \in DOMAIN todo |-> Append(todo[d], t)]
  /\ UNCHANGED active

Unsubscribe(t) ==
  /\ active
  /\ subs' = Without(subs, t)
  /\ todo' = [d \in DOMAIN todo |-> Without(todo[d], t)]
  /\ UNCHANGED active

UnsubscribeAll ==
  /\ active
  /\ subs' = <<>>
  /\ todo' = [d \in DOMAIN todo |-> <<>>]
  /\ UNCHANGED active

Publish ==
  /\ active
  /\ todo' = Append(todo, subs) /\ active' = FALSE
  /\ UNCHANGED subs

Deliver ==
  LET d == Len(todo) IN
  /\ ~active /\ todo[d] # <<>>
  /\ todo' = [todo EXCEPT ![d] = Tail(@)] /\ active' = TRUE
  /\ UNCHANGED subs

Delivered ==
  /\ active /\ todo # <<>> /\ active' = FALSE
  /\ UNCHANGED <<subs, todo>>

Published ==
  /\ ~active /\ Last(todo) = <<>>
  /\ todo' = Front(todo) /\ active' = TRUE
  /\ UNCHANGED subs

MNext ==
  \/ \E t \in Targets : Subscribe(t) \/ Unsubscribe(t)
  \/ UnsubscribeAll \/ Publish \/ Deliver \/ Delivered \/ Published

MSpec == MInit /\ [][MNext]_mvars
=============================================================================
