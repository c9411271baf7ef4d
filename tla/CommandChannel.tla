--------------------------- MODULE CommandChannel ---------------------------
(***************************************************************************)
(* What the debug server promises about the commands of its clients: each  *)
(* client has a channel to the script that may lose commands, at any time  *)
(* and from anywhere in the channel, but neither repeats nor reorders nor  *)
(* invents them, and never brings back one it has lost.  A delivery may    *)
(* hand over several commands at once.  The commands of a client are       *)
(* numbered in the order they are sent.                                    *)
(***************************************************************************)
EXTENDS Integers

CONSTANT Senders

VARIABLES sent,    \* how many commands each client has sent
          flight,  \* the commands of each that may still be delivered
          got      \* the commands of each that have been delivered

cvars == <<sent, flight, got>>

CInit ==
  /\ sent = [c \in Senders |-> 0]
  /\ flight = [c \in Senders |-> {}]
  /\ got = [c \in Senders |-> {}]

Send(c) ==
  /\ sent' = [sent EXCEPT ![c] = @ + 1]
  /\ flight' = [flight EXCEPT ![c] = @ \cup {sent[c] + 1}]
  /\ UNCHANGED got

Lose(c) ==
  /\ UNCHANGED <<sent, got>>
  /\ flight'[c] \subseteq flight[c]
  /\ flight' = [flight EXCEPT ![c] = flight'[c]]

\* The commands delivered are newer than all delivered before and older than
\* all that may still come.
Deliver(c) ==
  \E items \in SUBSET flight[c] :
    /\ got' = [got EXCEPT ![c] = @ \cup items]
    /\ \A x \in items : /\ \A y \in got[c] : y < x
                        /\ \A z \in flight[c] \ items : x < z
    /\ flight' = [flight EXCEPT ![c] = @ \ items]
    /\ UNCHANGED sent

CNext == \E c \in Senders : Send(c) \/ Lose(c) \/ Deliver(c)

CSpec == CInit /\ [][CNext]_cvars
=============================================================================
