------------------------- MODULE EpollServerProofs -------------------------
(***************************************************************************)
(* The epoll echo server for any number of descriptors and clients, any    *)
(* buffer and any size of the batch.                                       *)
(*                                                                         *)
(* WatchInv: a batch holds each descriptor once, and a client waits in the *)
(* backlog or has a descriptor, never both and never twice.  OnceInv: the  *)
(* bytes of a client wait in order, and only bytes that were read are in   *)
(* the buffer or were echoed.  BuffInv: the buffer has no gaps, and whoever *)
(* sent a byte in it is watched for writing.  OrderInv: while one client   *)
(* sends, the echo, the buffer and what was read are one sequence, but for *)
(* what a 0 cuts off.                                                      *)
(***************************************************************************)
EXTENDS EpollServer, FiniteSetTheorems, SequenceTheorems, TLAPS

\* A batch has one event for each descriptor, and accept() finds the client
\* whose arrival it reports.
BatchInv ==
  /\ \A i, j \in DOMAIN events : events[i].fd = events[j].fd => i = j
  /\ \A i \in DOMAIN events : events[i].fd = listenfd => backlog # <<>>

\* Open descriptors are watched, others are not, and no two belong to one client.
WatchedIffOpen ==
  /\ EpollTypeOK
  /\ \A fd \in Fds : interest[fd] # "none" <=> conn[fd] # NONE
  /\ \A f, g \in Fds : conn[f] = conn[g] /\ conn[f] # NONE => f = g

\* Every client is accepted at most once.
AcceptedOnce ==
  /\ \A i, j \in DOMAIN backlog : backlog[i] = backlog[j] => i = j
  /\ \A i \in DOMAIN backlog, fd \in Fds : conn[fd] # backlog[i]
  /\ \A c \in Clients : peer[c] = "new" =>
       /\ \A i \in DOMAIN backlog : backlog[i] # c
       /\ \A fd \in Fds : conn[fd] # c

WatchInv == WatchedIffOpen /\ NoStaleEvent /\ BatchInv /\ AcceptedOnce

-----------------------------------------------------------------------------
(* What a handler finds                                                    *)

\* Handling an event leaves the rest of the batch, in which its descriptor does
\* not occur again.
LEMMA RestOfBatch ==
  ASSUME EpollTypeOK, BatchInv, NEW S, NEW ev, Handle(S, ev)
  PROVE  /\ Head(events) = events[1] /\ Head(events) \in Events /\ Head(events).fd \in S
         /\ 1 \in DOMAIN events
         /\ events' \in Seq(Events)
         /\ \A i \in DOMAIN events' : /\ i + 1 \in DOMAIN events /\ events'[i] = events[i + 1]
                                      /\ events'[i].fd # Head(events).fd
         /\ \A i, j \in DOMAIN events' : events'[i].fd = events'[j].fd => i = j
  <1>1. events \in Seq(Events) /\ events # <<>> /\ events' = Tail(events)
    BY DEF Handle, EpollTypeOK
  <1>2. /\ Head(events) = events[1] /\ Head(events) \in Events /\ 1 \in DOMAIN events
        /\ events' \in Seq(Events)
        /\ \A i \in DOMAIN events' : i \in Nat /\ i + 1 \in DOMAIN events /\ i + 1 # 1
                                     /\ events'[i] = events[i + 1]
    BY <1>1
  <1>3. \A i \in DOMAIN events' : events'[i].fd # Head(events).fd
    BY <1>2 DEF BatchInv
  <1>4. \A i, j \in DOMAIN events' : events'[i].fd = events'[j].fd => i + 1 = j + 1
    BY <1>2 DEF BatchInv
  <1> QED  BY <1>2, <1>3, <1>4 DEF Handle

\* The event of a client is handled on the client's own descriptor, watched for
\* that event.
LEMMA ClientEvent ==
  ASSUME WatchInv, NEW ev, Handle(Fds, ev)
  PROVE  /\ Head(events).fd \in Fds /\ conn[Head(events).fd] \in Clients
         /\ interest[Head(events).fd] = ev
  <1>1. Head(events) = events[1] /\ Head(events).fd \in Fds /\ 1 \in DOMAIN events
    BY RestOfBatch DEF WatchInv, WatchedIffOpen
  <1>2. Head(events).fd # listenfd /\ Head(events).ev = ev
    BY <1>1, EpollAssumption DEF Handle
  <1>3. conn[Head(events).fd] # NONE /\ interest[Head(events).fd] = ev
    BY <1>1, <1>2 DEF WatchInv, NoStaleEvent
  <1> QED  BY <1>1, <1>3 DEF WatchInv, WatchedIffOpen, EpollTypeOK

\* A handler that changes no descriptor but its own leaves no event stale.
LEMMA OthersKept ==
  ASSUME EpollTypeOK, NoStaleEvent, BatchInv, NEW S, NEW ev, Handle(S, ev),
         \A f \in Fds : f # Head(events).fd /\ conn[f] # NONE =>
           conn'[f] = conn[f] /\ interest'[f] = interest[f]
  PROVE  NoStaleEvent'
  <1> SUFFICES ASSUME NEW i \in DOMAIN events', events'[i].fd # listenfd
               PROVE  conn'[events'[i].fd] # NONE /\ interest'[events'[i].fd] = events'[i].ev
    BY DEF NoStaleEvent
  <1>1. /\ i + 1 \in DOMAIN events /\ events'[i] = events[i + 1]
        /\ events'[i].fd # Head(events).fd /\ events' \in Seq(Events)
    BY RestOfBatch
  <1>2. events'[i] \in Events
    BY <1>1
  <1>3. events'[i].fd \in Fds
    BY <1>2 DEF Events
  <1> QED  BY <1>1, <1>3 DEF NoStaleEvent

-----------------------------------------------------------------------------
(* epoll_wait                                                              *)

LEMMA ReadyFinite == IsFiniteSet(ReadyEvents)
  <1> DEFINE A == IF backlog # <<>> THEN {[fd |-> listenfd, ev |-> "EPOLLIN"]} ELSE {}
             I == {f \in Fds : Readable(f)}
             O == {f \in Fds : interest[f] = "EPOLLOUT" /\ Writable(conn[f])}
             B == {[fd |-> fd, ev |-> "EPOLLIN"] : fd \in I}
             C == {[fd |-> fd, ev |-> "EPOLLOUT"] : fd \in O}
  <1>1. IsFiniteSet(A)
    BY FS_EmptySet, FS_Singleton
  <1>2. IsFiniteSet(I) /\ IsFiniteSet(O)
    BY EpollAssumption, FS_Subset
  <1>3. IsFiniteSet(B)
    <2> DEFINE g == [fd \in I |-> [fd |-> fd, ev |-> "EPOLLIN"]]
    <2>1. \A y \in B : \E x \in I : y = g[x]
      OBVIOUS
    <2>2. g \in Surjection(I, B)
      BY <2>1 DEF Surjection
    <2> QED  BY <1>2, <2>2, FS_Surjection
  <1>4. IsFiniteSet(C)
    <2> DEFINE g == [fd \in O |-> [fd |-> fd, ev |-> "EPOLLOUT"]]
    <2>2. g \in Surjection(O, C)
      BY DEF Surjection
    <2> QED  BY <1>2, <2>2, FS_Surjection
  <1>5. ReadyEvents = (A \cup B) \cup C
    BY DEF ReadyEvents
  <1> HIDE DEF A, B, C
  <1> QED  BY <1>1, <1>3, <1>4, <1>5, FS_Union

\* What epoll_wait() puts into the array is ready, each descriptor once.
LEMMA Waited ==
  ASSUME EpollTypeOK, epoll_wait
  PROVE  /\ events' \in Seq(Events)
         /\ \A i \in DOMAIN events' : events'[i] \in ReadyEvents
         /\ \A i, j \in DOMAIN events' : events'[i] = events'[j] => i = j
  <1>1. Cardinality(ReadyEvents) \in Nat
    BY ReadyFinite, FS_CardinalityType
  <1>2. ReadyEvents \subseteq Events
    BY DEF ReadyEvents, Events
  <1>3. PICK s \in Orders(ReadyEvents) :
          events' = SubSeq(s, 1, IF Len(s) < EPOLLEVENTS THEN Len(s) ELSE EPOLLEVENTS)
    BY DEF epoll_wait
  <1>4. /\ s \in [1 .. Cardinality(ReadyEvents) -> ReadyEvents]
        /\ \A i, j \in DOMAIN s : s[i] = s[j] => i = j
    BY <1>3 DEF Orders
  <1> DEFINE n == IF Len(s) < EPOLLEVENTS THEN Len(s) ELSE EPOLLEVENTS
  <1>5. s \in Seq(ReadyEvents)
    BY <1>1, <1>4
  <1>6. n \in 0 .. Len(s)
    BY <1>5, EpollAssumption
  <1> HIDE DEF n
  <1>7. /\ events' \in Seq(ReadyEvents) /\ DOMAIN events' \subseteq DOMAIN s
        /\ \A i \in DOMAIN events' : events'[i] = s[i]
    BY <1>3, <1>5, <1>6 DEF n
  <1>8. events' \in Seq(Events)
    BY <1>2, <1>7
  <1> QED  BY <1>4, <1>7, <1>8

LEMMA WaitStep ==
  ASSUME WatchInv, epoll_wait
  PROVE  WatchInv'
  <1>1. EpollTypeOK
    BY DEF WatchInv, WatchedIffOpen
  <1>2. UNCHANGED <<conn, interest, buff, alive, backlog, peer, sent, inq, out, full>>
    BY DEF epoll_wait, network
  <1>3. EpollTypeOK'
    BY <1>1, <1>2, Waited DEF EpollTypeOK
  <1>4. \A i \in DOMAIN events' : events'[i] \in ReadyEvents
    BY <1>1, Waited
  <1>5. \A e \in ReadyEvents :
          \/ e = [fd |-> listenfd, ev |-> "EPOLLIN"] /\ backlog # <<>>
          \/ e.fd \in Fds /\ interest[e.fd] = e.ev /\ e.ev # "none" /\ e = [fd |-> e.fd, ev |-> e.ev]
    BY DEF ReadyEvents, Readable
  <1>6. NoStaleEvent'
    <2> SUFFICES ASSUME NEW i \in DOMAIN events', events'[i].fd # listenfd
                 PROVE  conn[events'[i].fd] # NONE /\ interest[events'[i].fd] = events'[i].ev
      BY <1>2 DEF NoStaleEvent
    <2>1. events'[i].fd \in Fds /\ interest[events'[i].fd] = events'[i].ev /\ events'[i].ev # "none"
      BY <1>4, <1>5
    <2> QED  BY <2>1 DEF WatchInv, WatchedIffOpen
  <1>7. \A e, f \in ReadyEvents : e.fd = f.fd => e = f
    BY <1>5, EpollAssumption
  <1>8. BatchInv'
    BY <1>1, <1>2, <1>4, <1>5, <1>7, Waited, EpollAssumption DEF BatchInv
  <1> QED  BY <1>2, <1>3, <1>6, <1>8 DEF WatchInv, WatchedIffOpen, AcceptedOnce

-----------------------------------------------------------------------------
(* The buffer                                                              *)

\* What write() is given: cells of the buffer, in their places and without a 0,
\* and nothing else but junk past the end; all cells before the first 0 are there.
LEMMA StringCells ==
  ASSUME NEW b \in [Cells -> Bytes \cup {NUL}], NEW s \in Strings(b)
  PROVE  /\ s \in Seq(Bytes \cup {JUNK})
         /\ \A i \in DOMAIN s : (i \in Cells /\ s[i] = b[i] /\ b[i] # NUL) \/ s[i] = JUNK
         /\ \A k \in Cells : (\A l \in 1 .. k : ~Zero(b[l])) => k \in DOMAIN s /\ s[k] = b[k]
         /\ \A i \in DOMAIN s : \A l \in 1 .. i : i \in Cells => l \in DOMAIN s /\ s[l] = b[l]
  <1>1. MAX_BUFFER_SIZE \in Nat /\ b \in Seq(Bytes \cup {NUL}) /\ Len(b) = MAX_BUFFER_SIZE
    BY EpollAssumption DEF Cells
  <1>2. CASE \A i \in Cells : ~Zero(b[i])
    <2>0. \A i \in Cells : b[i] # NUL
      BY <1>2 DEF Zero
    <2>1. s = b \/ s = Append(b, JUNK)
      BY <1>2 DEF Strings
    <2>2. b \in Seq(Bytes)
      <3>1. b \in [1 .. MAX_BUFFER_SIZE -> Bytes]
        BY <2>0 DEF Cells
      <3> QED  BY <1>1, <3>1
    <2>3. CASE s = b
      <3>1. DOMAIN s = Cells
        BY <2>3
      <3>2. s \in Seq(Bytes \cup {JUNK})
        BY <2>2, <2>3
      <3>3. \A i \in Cells : \A l \in 1 .. i : l \in Cells
        BY <1>1 DEF Cells
      <3> QED  BY <2>0, <2>3, <3>1, <3>2, <3>3
    <2>4. CASE s = Append(b, JUNK)
      <3>1. s \in Seq(Bytes \cup {JUNK}) /\ DOMAIN s = 1 .. MAX_BUFFER_SIZE + 1
        BY <1>1, <2>2, <2>4
      <3>2. s[MAX_BUFFER_SIZE + 1] = JUNK /\ \A i \in Cells : i \in DOMAIN s /\ s[i] = b[i]
        BY <1>1, <2>2, <2>4 DEF Cells
      <3>3. \A i \in DOMAIN s : i \in Cells \/ i = MAX_BUFFER_SIZE + 1
        BY <1>1, <3>1 DEF Cells
      <3>4. \A i \in Cells : \A l \in 1 .. i : l \in Cells
        BY <1>1 DEF Cells
      <3> QED  BY <2>0, <3>1, <3>2, <3>3, <3>4
    <2> QED  BY <2>1, <2>3, <2>4
  <1>3. CASE ~\A i \in Cells : ~Zero(b[i])
    <2>1. PICK n \in Cells : /\ Zero(b[n]) /\ \A i \in 1 .. n - 1 : ~Zero(b[i])
                             /\ s = SubSeq(b, 1, n - 1)
      BY <1>3 DEF Strings
    <2>0. \A i \in 1 .. n - 1 : b[i] # NUL
      BY <2>1 DEF Zero
    <2>2. n \in Nat /\ n >= 1 /\ n - 1 \in 0 .. Len(b)
      BY <1>1 DEF Cells
    <2>3. DOMAIN s = 1 .. n - 1 /\ \A i \in 1 .. n - 1 : s[i] = b[i]
      BY <1>1, <2>1, <2>2
    <2>4. \A i \in 1 .. n - 1 : i \in Cells
      BY <1>1, <2>2 DEF Cells
    <2>5. \A i \in 1 .. n - 1 : s[i] \in Bytes
      BY <2>0, <2>3, <2>4
    <2>6. s \in Seq(Bytes \cup {JUNK})
      <3>1. s \in Seq(Bytes \cup {NUL}) /\ Len(s) = n - 1
        BY <1>1, <2>1, <2>2
      <3>2. s = [i \in 1 .. n - 1 |-> s[i]]
        BY <3>1
      <3>3. s \in [1 .. n - 1 -> Bytes \cup {JUNK}]
        BY <2>5, <3>2
      <3> QED  BY <2>2, <3>3
    <2>7. \A k \in Cells : k < n \/ n \in 1 .. k
      BY <2>2 DEF Cells
    <2>8. \A k \in Cells : k < n => k \in 1 .. n - 1
      BY <2>2 DEF Cells
    <2>9. \A i \in 1 .. n - 1 : \A l \in 1 .. i : l \in 1 .. n - 1
      BY <2>2
    <2> QED  BY <2>0, <2>1, <2>3, <2>4, <2>6, <2>7, <2>8, <2>9
  <1> QED  BY <1>2, <1>3

-----------------------------------------------------------------------------
(* The handlers                                                            *)

LEMMA AcceptStep ==
  ASSUME WatchInv, handle_accept
  PROVE  WatchInv'
  <1>1. EpollTypeOK /\ BatchInv /\ NoStaleEvent /\ AcceptedOnce /\ Handle({listenfd}, "EPOLLIN")
    BY DEF WatchInv, WatchedIffOpen, handle_accept
  <1>2. /\ Head(events).fd = listenfd /\ 1 \in DOMAIN events /\ Head(events) = events[1]
        /\ events' \in Seq(Events)
        /\ \A i \in DOMAIN events' : events'[i].fd # listenfd
        /\ \A i, j \in DOMAIN events' : events'[i].fd = events'[j].fd => i = j
    BY <1>1, RestOfBatch
  <1>3. backlog # <<>> /\ backlog \in Seq(Clients)
    BY <1>1, <1>2 DEF BatchInv, EpollTypeOK
  <1>4. /\ Head(backlog) = backlog[1] /\ 1 \in DOMAIN backlog /\ Head(backlog) \in Clients
        /\ Tail(backlog) \in Seq(Clients)
        /\ \A i \in DOMAIN Tail(backlog) : /\ i \in Nat /\ i + 1 \in DOMAIN backlog /\ i + 1 # 1
                                           /\ Tail(backlog)[i] = backlog[i + 1]
    BY <1>3
  <1>5. BatchInv'
    BY <1>2 DEF BatchInv
  <1>6. /\ \A i \in DOMAIN Tail(backlog) : Tail(backlog)[i] # Head(backlog)
        /\ \A i, j \in DOMAIN Tail(backlog) : Tail(backlog)[i] = Tail(backlog)[j] => i = j
    <2>1. \A i, j \in DOMAIN Tail(backlog) : Tail(backlog)[i] = Tail(backlog)[j] => i + 1 = j + 1
      BY <1>1, <1>4 DEF AcceptedOnce
    <2> QED  BY <1>1, <1>4, <2>1 DEF AcceptedOnce
  <1>7. UNCHANGED <<buff, alive, sent, inq, out, full>>
    BY DEF handle_accept
  <1>8. ASSUME NEW fd \in Fds, conn[fd] = NONE, conn' = [conn EXCEPT ![fd] = Head(backlog)],
               add_event(fd, "EPOLLIN"), backlog' = Tail(backlog), UNCHANGED peer
        PROVE  WatchInv'
    <2>1. interest' = [interest EXCEPT ![fd] = "EPOLLIN"]
      BY <1>8 DEF add_event
    <2>2. EpollTypeOK'
      BY <1>1, <1>2, <1>4, <1>7, <1>8, <2>1 DEF EpollTypeOK
    <2>3. NoStaleEvent'
      BY <1>1, <1>8, <2>1, OthersKept DEF EpollTypeOK
    <2>4. \A f \in Fds : /\ conn'[f] = (IF f = fd THEN Head(backlog) ELSE conn[f])
                         /\ interest'[f] = (IF f = fd THEN "EPOLLIN" ELSE interest[f])
      BY <1>1, <1>8, <2>1 DEF EpollTypeOK
    <2>5. \A f \in Fds : conn[f] # Head(backlog)
      BY <1>1, <1>4 DEF AcceptedOnce
    <2>6. Head(backlog) # NONE
      BY <1>4, EpollAssumption
    <2>7. WatchedIffOpen'
      BY <2>2, <2>4, <2>5, <2>6 DEF WatchInv, WatchedIffOpen
    <2>8. AcceptedOnce'
      BY <1>1, <1>4, <1>6, <1>8, <2>4 DEF AcceptedOnce
    <2> QED  BY <1>5, <2>3, <2>7, <2>8 DEF WatchInv
  <1>9. ASSUME backlog' = Tail(backlog), peer' = [peer EXCEPT ![Head(backlog)] = "gone"],
               UNCHANGED <<conn, interest>>
        PROVE  WatchInv'
    <2>1. EpollTypeOK'
      BY <1>1, <1>2, <1>4, <1>7, <1>9 DEF EpollTypeOK
    <2>2. NoStaleEvent'
      BY <1>1, <1>9, OthersKept
    <2>3. \A c \in Clients : peer'[c] = "new" => peer[c] = "new"
      BY <1>1, <1>4, <1>9 DEF EpollTypeOK
    <2>4. AcceptedOnce'
      BY <1>1, <1>4, <1>6, <1>9, <2>3 DEF AcceptedOnce
    <2> QED  BY <1>5, <1>9, <2>1, <2>2, <2>4 DEF WatchInv, WatchedIffOpen
  <1>10. ASSUME UNCHANGED <<conn, interest, backlog, peer>>
         PROVE  WatchInv'
    <2>1. EpollTypeOK'
      BY <1>1, <1>2, <1>7, <1>10 DEF EpollTypeOK
    <2>2. NoStaleEvent'
      BY <1>1, <1>10, OthersKept
    <2> QED  BY <1>5, <1>10, <2>1, <2>2 DEF WatchInv, WatchedIffOpen, AcceptedOnce
  <1> QED  BY <1>8, <1>9, <1>10 DEF handle_accept

\* A handler of a client's event re-arms or closes the descriptor of the event
\* and touches no other.
LEMMA HandlerStep ==
  ASSUME WatchInv, EpollTypeOK', NEW ev, Handle(Fds, ev),
         \A f \in Fds \ {Head(events).fd} : conn'[f] = conn[f] /\ interest'[f] = interest[f],
         \/ conn'[Head(events).fd] = conn[Head(events).fd] /\ interest'[Head(events).fd] # "none"
         \/ conn'[Head(events).fd] = NONE /\ interest'[Head(events).fd] = "none",
         backlog' = backlog,
         \A c \in Clients : peer'[c] = "new" => peer[c] = "new"
  PROVE  WatchInv'
  <1>1. EpollTypeOK /\ BatchInv /\ NoStaleEvent /\ AcceptedOnce
    BY DEF WatchInv, WatchedIffOpen
  <1>2. /\ Head(events).fd \in Fds /\ conn[Head(events).fd] \in Clients
        /\ conn[Head(events).fd] # NONE
    BY ClientEvent, EpollAssumption
  <1>3. NoStaleEvent'
    BY <1>1, OthersKept
  <1>4. BatchInv'
    <2>1. /\ \A i \in DOMAIN events' : i + 1 \in DOMAIN events /\ events'[i] = events[i + 1]
          /\ \A i, j \in DOMAIN events' : events'[i].fd = events'[j].fd => i = j
      BY <1>1, RestOfBatch
    <2> QED  BY <1>1, <2>1 DEF BatchInv
  <1>5. \A f \in Fds : conn'[f] = conn[f] \/ conn'[f] = NONE
    BY <1>2
  <1>6. WatchedIffOpen'
    BY <1>2, <1>5 DEF WatchInv, WatchedIffOpen
  <1>7. AcceptedOnce'
    <2>1. \A i \in DOMAIN backlog : backlog[i] \in Clients
      BY <1>1 DEF EpollTypeOK
    <2> QED  BY <1>1, <1>5, <2>1, EpollAssumption DEF AcceptedOnce
  <1> QED  BY <1>3, <1>4, <1>6, <1>7 DEF WatchInv

\* The bytes of one read() and where they go.
LEMMA ReadStep ==
  ASSUME WatchInv, do_read_data
  PROVE  WatchInv'
  <1> DEFINE fd == Head(events).fd
             c  == conn[fd]
             n  == IF Len(inq[c]) < MAX_BUFFER_SIZE THEN Len(inq[c]) ELSE MAX_BUFFER_SIZE
  <1>1. EpollTypeOK /\ BatchInv /\ Handle(Fds, "EPOLLIN")
    BY DEF WatchInv, WatchedIffOpen, do_read_data
  <1>2. fd \in Fds /\ c \in Clients
    BY <1>1, ClientEvent
  <1>3. /\ buff' = ReadInto(buff, SubSeq(inq[c], 1, n))
        /\ inq' = [inq EXCEPT ![c] = SubSeq(@, n + 1, Len(@))]
        /\ interest' = [interest EXCEPT ![fd] = "EPOLLOUT"]
        /\ UNCHANGED <<conn, alive, backlog, peer, sent, out, full>>
    BY DEF do_read_data, modify_event
  <1>4. inq[c] \in Seq(Bytes) /\ n \in 0 .. Len(inq[c])
    BY <1>1, <1>2, EpollAssumption DEF EpollTypeOK
  <1>5. buff' \in [Cells -> Bytes \cup {NUL}]
    <2>1. SubSeq(inq[c], 1, n) \in Seq(Bytes)
      BY <1>4
    <2>2. \A i \in Cells : i <= Len(SubSeq(inq[c], 1, n)) => SubSeq(inq[c], 1, n)[i] \in Bytes
      BY <2>1, EpollAssumption DEF Cells
    <2> QED  BY <1>1, <1>3, <2>2 DEF ReadInto, EpollTypeOK
  <1>6. SubSeq(inq[c], n + 1, Len(inq[c])) \in Seq(Bytes)
    BY <1>4
  <1>7. events' \in Seq(Events)
    BY <1>1, RestOfBatch
  <1> HIDE DEF n
  <1>8. EpollTypeOK'
    BY <1>1, <1>2, <1>3, <1>5, <1>6, <1>7 DEF EpollTypeOK
  <1> QED  BY <1>1, <1>2, <1>3, <1>8, HandlerStep DEF EpollTypeOK

LEMMA WriteStep ==
  ASSUME WatchInv, do_write_ok
  PROVE  WatchInv'
  <1> DEFINE fd == Head(events).fd
             c  == conn[fd]
  <1>1. EpollTypeOK /\ BatchInv /\ Handle(Fds, "EPOLLOUT")
    BY DEF WatchInv, WatchedIffOpen, do_write_ok
  <1>2. fd \in Fds /\ c \in Clients
    BY <1>1, ClientEvent
  <1>3. PICK s \in Strings(buff) :
          /\ out' = [out EXCEPT ![c] = @ \o s]
          /\ \/ peer' = peer
             \/ peer' = [peer EXCEPT ![c] = "finrst"]
          /\ full' = full \/ full' = [full EXCEPT ![c] = TRUE]
    BY DEF do_write_ok
  <1>4. /\ interest' = [interest EXCEPT ![fd] = "EPOLLIN"]
        /\ UNCHANGED <<conn, alive, backlog, sent, inq>>
        /\ buff' = memset
    BY DEF do_write_ok, modify_event
  <1>5. out[c] \o s \in Seq(Bytes \cup {JUNK})
    <2>1. s \in Seq(Bytes \cup {JUNK})
      BY <1>1, StringCells DEF EpollTypeOK
    <2> QED  BY <1>1, <1>2, <2>1 DEF EpollTypeOK
  <1>6. events' \in Seq(Events) /\ buff' \in [Cells -> Bytes \cup {NUL}]
    BY <1>1, <1>4, RestOfBatch DEF memset
  <1>7. EpollTypeOK' /\ \A d \in Clients : peer'[d] = "new" => peer[d] = "new"
    BY <1>1, <1>2, <1>3, <1>4, <1>5, <1>6 DEF EpollTypeOK
  <1> QED  BY <1>1, <1>2, <1>4, <1>7, HandlerStep DEF EpollTypeOK

LEMMA CloseStep ==
  ASSUME WatchInv, do_read_end \/ do_write_error \/ do_write_sigpipe
  PROVE  WatchInv'
  <1>1. EpollTypeOK /\ BatchInv /\ UNCHANGED <<backlog, peer, sent, inq, out, full>>
    BY DEF WatchInv, WatchedIffOpen, do_read_end, do_write_error, do_write_sigpipe, network
  <1>2. PICK ev \in {"EPOLLIN", "EPOLLOUT"} : Handle(Fds, ev)
    BY DEF do_read_end, do_write_error, do_write_sigpipe
  <1>3. Head(events).fd \in Fds /\ conn[Head(events).fd] \in Clients /\ interest[Head(events).fd] = ev
    BY <1>2, ClientEvent
  <1>4. events' \in Seq(Events)
    BY <1>1, <1>2, RestOfBatch
  <1>5. CASE do_read_end \/ do_write_error
    <2>1. /\ conn' = [conn EXCEPT ![Head(events).fd] = NONE]
          /\ interest' = [interest EXCEPT ![Head(events).fd] = "none"]
          /\ alive' = alive /\ buff' \in {buff, memset}
      BY <1>5 DEF do_read_end, do_write_error, close
    <2>2. EpollTypeOK'
      BY <1>1, <1>3, <1>4, <2>1 DEF EpollTypeOK, memset
    <2> QED  BY <1>1, <1>2, <1>3, <2>1, <2>2, HandlerStep DEF EpollTypeOK
  <1>6. CASE do_write_sigpipe
    <2>1. UNCHANGED <<conn, interest, buff>> /\ alive' = FALSE
      BY <1>6 DEF do_write_sigpipe
    <2>2. EpollTypeOK'
      BY <1>1, <1>4, <2>1 DEF EpollTypeOK
    <2> QED  BY <1>1, <1>2, <1>3, <2>1, <2>2, HandlerStep
  <1> QED  BY <1>5, <1>6

-----------------------------------------------------------------------------
(* The clients                                                             *)

LEMMA ClientsStep ==
  ASSUME WatchInv, NEW c \in Clients, Connect(c) \/ Send(c) \/ Receive(c) \/ LeaveStep(c)
  PROVE  WatchInv'
  <1>1. EpollTypeOK /\ BatchInv /\ NoStaleEvent /\ AcceptedOnce /\ UNCHANGED server
    BY DEF WatchInv, WatchedIffOpen, Connect, Send, Receive, LeaveStep, Leave
  <1> USE DEF server
  <1>2. NoStaleEvent'
    BY <1>1 DEF NoStaleEvent
  <1>3. CASE Connect(c)
    <2>1. /\ peer[c] = "new" /\ peer' = [peer EXCEPT ![c] = "up"]
          /\ backlog' = Append(backlog, c) /\ UNCHANGED <<sent, inq, out, full>>
      BY <1>3 DEF Connect
    <2>2. /\ backlog' \in Seq(Clients) /\ backlog' # <<>>
          /\ \A i \in DOMAIN backlog' : \/ i \in DOMAIN backlog /\ backlog'[i] = backlog[i]
                                        \/ i = Len(backlog) + 1 /\ backlog'[i] = c
      <3>1. backlog \in Seq(Clients) /\ backlog' = Append(backlog, c)
        BY <1>1, <2>1 DEF EpollTypeOK
      <3>2. Len(backlog') = Len(backlog) + 1 /\ Len(backlog) \in Nat
        BY <3>1
      <3>3. backlog' \in Seq(Clients) /\ DOMAIN backlog' = 1 .. Len(backlog) + 1
        BY <3>1
      <3>4. \A i \in 1 .. Len(backlog) + 1 : \/ i \in 1 .. Len(backlog)
                                             \/ i = Len(backlog) + 1
        BY <3>2
      <3>5. backlog' # <<>>
        BY <3>2
      <3> QED  BY <3>1, <3>3, <3>4, <3>5
    <2>3. EpollTypeOK'
      BY <1>1, <2>1, <2>2 DEF EpollTypeOK
    <2>4. \A d \in Clients : peer'[d] = "new" => peer[d] = "new" /\ d # c
      BY <1>1, <2>1 DEF EpollTypeOK
    <2>5. (\A i \in DOMAIN backlog : backlog[i] # c) /\ \A fd \in Fds : conn[fd] # c
      BY <1>1, <2>1 DEF AcceptedOnce
    <2>6. AcceptedOnce'
      BY <1>1, <2>2, <2>4, <2>5 DEF AcceptedOnce
    <2> QED  BY <1>1, <1>2, <2>2, <2>3, <2>6 DEF WatchInv, WatchedIffOpen, BatchInv
  <1>4. CASE Send(c)
    <2>1. /\ sent[c] < MaxBytes /\ sent' = [sent EXCEPT ![c] = @ + 1]
          /\ inq' = [inq EXCEPT ![c] = Append(@, <<c, sent[c] + 1>>)]
          /\ UNCHANGED <<backlog, peer, out, full>>
      BY <1>4 DEF Send
    <2>2. sent[c] \in 0 .. MaxBytes /\ sent[c] + 1 \in 1 .. MaxBytes /\ sent[c] + 1 \in 0 .. MaxBytes
      BY <1>1, <2>1, EpollAssumption DEF EpollTypeOK
    <2>3. Append(inq[c], <<c, sent[c] + 1>>) \in Seq(Bytes)
      BY <1>1, <2>2 DEF EpollTypeOK, Bytes
    <2>4. EpollTypeOK'
      BY <1>1, <2>1, <2>2, <2>3 DEF EpollTypeOK
    <2> QED  BY <1>1, <1>2, <2>1, <2>4 DEF WatchInv, WatchedIffOpen, BatchInv, AcceptedOnce
  <1>5. CASE LeaveStep(c)
    <2>1. /\ \E how \in {"fin", "rst", "finrst"} : peer' = [peer EXCEPT ![c] = how]
          /\ UNCHANGED <<backlog, sent, inq, out, full>>
      BY <1>5 DEF LeaveStep, Leave
    <2>2. EpollTypeOK' /\ \A d \in Clients : peer'[d] = "new" => peer[d] = "new"
      BY <1>1, <2>1 DEF EpollTypeOK
    <2> QED  BY <1>1, <1>2, <2>1, <2>2 DEF WatchInv, WatchedIffOpen, BatchInv, AcceptedOnce
  <1>6. CASE Receive(c)
    <2>1. full' = [full EXCEPT ![c] = FALSE] /\ UNCHANGED <<backlog, peer, sent, inq, out>>
      BY <1>6 DEF Receive
    <2>2. EpollTypeOK'
      BY <1>1, <2>1 DEF EpollTypeOK
    <2> QED  BY <1>1, <1>2, <2>1, <2>2 DEF WatchInv, WatchedIffOpen, BatchInv, AcceptedOnce
  <1> QED  BY <1>3, <1>4, <1>5, <1>6

-----------------------------------------------------------------------------
LEMMA WatchInit == Init => WatchInv
  <1> SUFFICES ASSUME Init PROVE WatchInv
    OBVIOUS
  <1>1. EpollTypeOK
    <2>1. buff \in [Cells -> Bytes \cup {NUL}]
      BY DEF Init, memset
    <2>2. /\ <<>> \in Seq(Events) /\ <<>> \in Seq(Clients) /\ <<>> \in Seq(Bytes)
          /\ <<>> \in Seq(Bytes \cup {JUNK}) /\ 0 \in 0 .. MaxBytes
      BY EpollAssumption
    <2> QED  BY <2>1, <2>2 DEF Init, EpollTypeOK
  <1>2. DOMAIN events = {} /\ DOMAIN backlog = {}
    BY DEF Init
  <1>3. WatchedIffOpen /\ NoStaleEvent /\ BatchInv
    BY <1>1, <1>2 DEF Init, WatchedIffOpen, NoStaleEvent, BatchInv
  <1>4. AcceptedOnce
    BY <1>2, EpollAssumption DEF Init, AcceptedOnce
  <1> QED  BY <1>3, <1>4 DEF WatchInv

LEMMA WatchNext ==
  ASSUME WatchInv, [Next]_vars
  PROVE  WatchInv'
  <1>1. CASE epoll_wait
    BY <1>1, WaitStep
  <1>2. CASE handle_events
    BY <1>2, AcceptStep, ReadStep, WriteStep, CloseStep DEF handle_events
  <1>3. CASE ClientStep
    BY <1>3, ClientsStep DEF ClientStep
  <1>4. CASE UNCHANGED vars
    <2>1. WatchedIffOpen'
      BY <1>4 DEF vars, WatchInv, WatchedIffOpen, EpollTypeOK
    <2>2. NoStaleEvent' /\ BatchInv'
      BY <1>4 DEF vars, WatchInv, NoStaleEvent, BatchInv
    <2>3. AcceptedOnce'
      BY <1>4 DEF vars, WatchInv, AcceptedOnce
    <2> QED  BY <2>1, <2>2, <2>3 DEF WatchInv
  <1> QED  BY <1>1, <1>2, <1>3, <1>4 DEF Next, ServerStep

-----------------------------------------------------------------------------
(* No byte is echoed twice                                                 *)

\* How many bytes of each client the server has read.
read == [c \in Clients |-> sent[c] - Len(inq[c])]

\* Bytes wait in the order they were sent, and only bytes that were read are in
\* the buffer or were written.
Numbered ==
  /\ \A c \in Clients : /\ Len(inq[c]) <= sent[c]
                        /\ \A i \in DOMAIN inq[c] : inq[c][i] = <<c, read[c] + i>>
  /\ \A c \in Clients : \A i \in DOMAIN out[c] :
       out[c][i] # JUNK => out[c][i][2] <= read[out[c][i][1]]
  /\ \A k \in Cells : buff[k] # NUL => buff[k][2] <= read[buff[k][1]]

OnceInv == Numbered /\ EchoedAtMostOnce

\* What read() does to the buffer and to what the client has sent.
LEMMA ReadEffect ==
  ASSUME WatchInv, do_read_data
  PROVE  LET fd == Head(events).fd
             c  == conn[fd]
         IN  /\ fd \in Fds /\ c \in Clients /\ interest[fd] = "EPOLLIN"
             /\ interest' = [interest EXCEPT ![fd] = "EPOLLOUT"]
             /\ UNCHANGED <<conn, sent, out, backlog, peer>>
             /\ \A d \in Clients \ {c} : inq'[d] = inq[d]
             /\ \E n \in Cells :
                  /\ n <= Len(inq[c]) /\ Len(inq'[c]) = Len(inq[c]) - n
                  /\ \A k \in Cells : buff'[k] = IF k <= n THEN inq[c][k] ELSE buff[k]
                  /\ \A i \in DOMAIN inq'[c] : i + n \in DOMAIN inq[c] /\ inq'[c][i] = inq[c][i + n]
  <1> DEFINE fd == Head(events).fd
             c  == conn[fd]
             n  == IF Len(inq[c]) < MAX_BUFFER_SIZE THEN Len(inq[c]) ELSE MAX_BUFFER_SIZE
  <1>1. EpollTypeOK /\ Handle(Fds, "EPOLLIN")
    BY DEF WatchInv, WatchedIffOpen, do_read_data
  <1>2. fd \in Fds /\ c \in Clients /\ interest[fd] = "EPOLLIN"
    BY <1>1, ClientEvent
  <1>3. /\ buff' = ReadInto(buff, SubSeq(inq[c], 1, n)) /\ inq[c] # <<>>
        /\ inq' = [inq EXCEPT ![c] = SubSeq(@, n + 1, Len(@))]
        /\ interest' = [interest EXCEPT ![fd] = "EPOLLOUT"]
        /\ UNCHANGED <<conn, backlog, peer, sent, out>>
    BY DEF do_read_data, modify_event
  <1>4. inq[c] \in Seq(Bytes) /\ n \in 1 .. Len(inq[c]) /\ n \in Cells
    <2>1. inq[c] \in Seq(Bytes)
      BY <1>1, <1>2 DEF EpollTypeOK
    <2>2. Len(inq[c]) \in Nat /\ Len(inq[c]) # 0
      BY <1>3, <2>1
    <2> QED  BY <2>1, <2>2, EpollAssumption DEF Cells
  <1> HIDE DEF n
  <1>5. \A k \in Cells : buff'[k] = IF k <= n THEN inq[c][k] ELSE buff[k]
    <2>1. Len(SubSeq(inq[c], 1, n)) = n /\ \A k \in 1 .. n : SubSeq(inq[c], 1, n)[k] = inq[c][k]
      BY <1>4
    <2>2. \A k \in Cells : k <= n => k \in 1 .. n
      BY <1>4 DEF Cells
    <2> QED  BY <1>3, <2>1, <2>2 DEF ReadInto
  <1>6. inq'[c] = SubSeq(inq[c], n + 1, Len(inq[c])) /\ \A d \in Clients \ {c} : inq'[d] = inq[d]
    BY <1>1, <1>2, <1>3 DEF EpollTypeOK
  <1>7. /\ Len(inq'[c]) = Len(inq[c]) - n
        /\ \A i \in DOMAIN inq'[c] : i + n \in DOMAIN inq[c] /\ inq'[c][i] = inq[c][i + n]
    BY <1>4, <1>6
  <1>8. \E m \in Cells :
          /\ m <= Len(inq[c]) /\ Len(inq'[c]) = Len(inq[c]) - m
          /\ \A k \in Cells : buff'[k] = IF k <= m THEN inq[c][k] ELSE buff[k]
          /\ \A i \in DOMAIN inq'[c] : i + m \in DOMAIN inq[c] /\ inq'[c][i] = inq[c][i + m]
    <2>1. n \in Cells /\ n <= Len(inq[c])
      BY <1>4
    <2> HIDE DEF c
    <2> QED  BY <1>5, <1>7, <2>1, Zenon
  <1> HIDE DEF c, fd
  <1>9. /\ fd \in Fds /\ c \in Clients /\ interest[fd] = "EPOLLIN"
        /\ interest' = [interest EXCEPT ![fd] = "EPOLLOUT"]
        /\ UNCHANGED <<conn, sent, out, backlog, peer>>
        /\ \A d \in Clients \ {c} : inq'[d] = inq[d]
    BY <1>2, <1>3, <1>6
  <1> QED  BY <1>8, <1>9, Zenon DEF c, fd

\* A number up to a + b is up to a, or the part of it beyond a is up to b.
LEMMA SecondPart ==
  ASSUME NEW a \in Nat, NEW b \in Nat, NEW i \in 1 .. a + b
  PROVE  i \in 1 .. a \/ i - a \in 1 .. b
  <1>1. i \in Int /\ a \in Int /\ b \in Int /\ 1 <= i /\ i <= a + b
    OBVIOUS
  <1>2. CASE i <= a
    BY <1>1, <1>2
  <1>3. CASE a < i
    <2>1. i - a \in Int /\ 1 <= i - a
      BY <1>1, <1>3
    <2>2. i - a <= b
      BY <1>1
    <2> QED  BY <1>1, <2>1, <2>2
  <1> QED  BY <1>1, <1>2, <1>3

\* The places of two sequences in their concatenation.
LEMMA Concatenated ==
  ASSUME NEW S, NEW s \in Seq(S), NEW t \in Seq(S)
  PROVE  /\ \A i \in DOMAIN s : i \in DOMAIN (s \o t) /\ (s \o t)[i] = s[i]
         /\ \A k \in DOMAIN t : Len(s) + k \in DOMAIN (s \o t) /\ (s \o t)[Len(s) + k] = t[k]
         /\ \A i \in DOMAIN (s \o t) : i \in DOMAIN s \/ i - Len(s) \in DOMAIN t
  <1>1. /\ Len(s) \in Nat /\ Len(t) \in Nat /\ DOMAIN s = 1 .. Len(s) /\ DOMAIN t = 1 .. Len(t)
        /\ DOMAIN (s \o t) = 1 .. Len(s) + Len(t)
    OBVIOUS
  <1>2. \A i \in 1 .. Len(s) + Len(t) : (s \o t)[i] = IF i <= Len(s) THEN s[i] ELSE t[i - Len(s)]
    BY ConcatProperties
  <1>3. \A i \in 1 .. Len(s) : i \in 1 .. Len(s) + Len(t) /\ (s \o t)[i] = s[i]
    BY <1>1, <1>2
  <1>4. \A k \in 1 .. Len(t) : /\ Len(s) + k \in 1 .. Len(s) + Len(t) /\ ~(Len(s) + k <= Len(s))
                                /\ (Len(s) + k) - Len(s) = k
    BY <1>1
  <1>5. \A k \in 1 .. Len(t) : (s \o t)[Len(s) + k] = t[k]
    BY <1>2, <1>4
  <1>6. \A i \in 1 .. Len(s) + Len(t) : i \in 1 .. Len(s) \/ i - Len(s) \in 1 .. Len(t)
    BY <1>1, SecondPart, Zenon
  <1> QED  BY <1>1, <1>3, <1>4, <1>5, <1>6

\* What write() does: cells of the buffer, and junk, follow what the client got.
LEMMA WriteEffect ==
  ASSUME WatchInv, do_write_ok
  PROVE  LET fd == Head(events).fd
             c  == conn[fd]
         IN  /\ fd \in Fds /\ c \in Clients /\ interest[fd] = "EPOLLOUT"
             /\ interest' = [interest EXCEPT ![fd] = "EPOLLIN"]
             /\ UNCHANGED <<conn, sent, inq, backlog>>
             /\ \A d \in Clients : peer'[d] = "new" => peer[d] = "new"
             /\ \A k \in Cells : buff'[k] = NUL
             /\ \A d \in Clients \ {c} : out'[d] = out[d]
             /\ \E s \in Strings(buff) :
                  /\ \A i \in DOMAIN out[c] : i \in DOMAIN out'[c] /\ out'[c][i] = out[c][i]
                  /\ \A k \in DOMAIN s : /\ Len(out[c]) + k \in DOMAIN out'[c]
                                         /\ out'[c][Len(out[c]) + k] = s[k]
                  /\ \A i \in DOMAIN out'[c] :
                       i \in DOMAIN out[c] \/ i - Len(out[c]) \in DOMAIN s
  <1> DEFINE fd == Head(events).fd
             c  == conn[fd]
  <1>1. EpollTypeOK /\ Handle(Fds, "EPOLLOUT")
    BY DEF WatchInv, WatchedIffOpen, do_write_ok
  <1>2. fd \in Fds /\ c \in Clients /\ interest[fd] = "EPOLLOUT"
    BY <1>1, ClientEvent
  <1>3. PICK s \in Strings(buff) :
          /\ out' = [out EXCEPT ![c] = @ \o s]
          /\ \/ peer' = peer
             \/ peer' = [peer EXCEPT ![c] = "finrst"]
    BY DEF do_write_ok
  <1>4. /\ interest' = [interest EXCEPT ![fd] = "EPOLLIN"]
        /\ UNCHANGED <<conn, backlog, sent, inq>>
        /\ \A k \in Cells : buff'[k] = NUL
    BY DEF do_write_ok, modify_event, memset
  <1>5. s \in Seq(Bytes \cup {JUNK}) /\ out[c] \in Seq(Bytes \cup {JUNK})
    BY <1>1, <1>2, StringCells DEF EpollTypeOK
  <1>6. out'[c] = out[c] \o s /\ \A d \in Clients \ {c} : out'[d] = out[d]
    BY <1>1, <1>2, <1>3 DEF EpollTypeOK
  <1>7. /\ \A i \in DOMAIN out[c] : i \in DOMAIN out'[c] /\ out'[c][i] = out[c][i]
        /\ \A k \in DOMAIN s : /\ Len(out[c]) + k \in DOMAIN out'[c]
                               /\ out'[c][Len(out[c]) + k] = s[k]
        /\ \A i \in DOMAIN out'[c] : i \in DOMAIN out[c] \/ i - Len(out[c]) \in DOMAIN s
    <2> DEFINE o == out[c]
    <2>1. s \in Seq(Bytes \cup {JUNK}) /\ o \in Seq(Bytes \cup {JUNK}) /\ out'[c] = o \o s
      BY <1>5, <1>6
    <2> HIDE DEF o
    <2>2. /\ \A i \in DOMAIN o : i \in DOMAIN (o \o s) /\ (o \o s)[i] = o[i]
          /\ \A k \in DOMAIN s : Len(o) + k \in DOMAIN (o \o s) /\ (o \o s)[Len(o) + k] = s[k]
          /\ \A i \in DOMAIN (o \o s) : i \in DOMAIN o \/ i - Len(o) \in DOMAIN s
      BY <2>1, Concatenated
    <2> QED  BY <2>1, <2>2, Zenon DEF o
  <1>8. \A d \in Clients : peer'[d] = "new" => peer[d] = "new"
    BY <1>1, <1>2, <1>3 DEF EpollTypeOK
  <1> QED  BY <1>2, <1>3, <1>4, <1>6, <1>7, <1>8

\* A byte is neither NUL nor junk.
LEMMA ByteFacts == /\ \A b \in Bytes : b # NUL /\ b # JUNK /\ b[1] \in Clients /\ b[2] \in 1 .. MaxBytes
                   /\ NUL # JUNK
  <1>1. \A b \in Bytes : b \in Clients \X Nat /\ b[1] \in Clients /\ b[2] \in 1 .. MaxBytes
    BY EpollAssumption DEF Bytes
  <1> QED  BY <1>1, EpollAssumption

LEMMA OnceRead ==
  ASSUME WatchInv, OnceInv, do_read_data
  PROVE  OnceInv'
  <1> DEFINE fd == Head(events).fd
             c  == conn[fd]
  <1>t. EpollTypeOK
    BY DEF WatchInv, WatchedIffOpen
  <1>1. /\ c \in Clients /\ UNCHANGED <<sent, out>> /\ \A d \in Clients \ {c} : inq'[d] = inq[d]
    BY ReadEffect
  <1>2. PICK n \in Cells :
          /\ n <= Len(inq[c]) /\ Len(inq'[c]) = Len(inq[c]) - n
          /\ \A k \in Cells : buff'[k] = IF k <= n THEN inq[c][k] ELSE buff[k]
          /\ \A i \in DOMAIN inq'[c] : i + n \in DOMAIN inq[c] /\ inq'[c][i] = inq[c][i + n]
    BY ReadEffect
  <1> HIDE DEF c
  <1>3. /\ n \in Nat /\ n > 0 /\ inq[c] \in Seq(Bytes) /\ Len(inq[c]) \in Nat
        /\ \A d \in Clients : sent[d] \in Nat /\ Len(inq[d]) \in Nat
    BY <1>t, <1>1, EpollAssumption DEF EpollTypeOK, Cells
  <1>4. read'[c] = read[c] + n /\ read[c] \in Nat
        /\ \A d \in Clients : /\ d # c => read'[d] = read[d]
                              /\ read[d] \in Int /\ read'[d] \in Int /\ read[d] <= read'[d]
    <2>1. read'[c] = sent[c] - Len(inq'[c])
      BY <1>1 DEF read
    <2>2. \A d \in Clients : d # c => read'[d] = read[d]
      BY <1>1 DEF read
    <2>3. read[c] = sent[c] - Len(inq[c]) /\ Len(inq[c]) <= sent[c]
      BY <1>1 DEF read, OnceInv, Numbered
    <2>4. \A d \in Clients : read[d] \in Int
      BY <1>3 DEF read
    <2> QED  BY <1>1, <1>2, <1>3, <2>1, <2>2, <2>3, <2>4
  <1>5. \A k \in Cells : k <= n => buff'[k] = <<c, read[c] + k>> /\ buff'[k] \in Bytes
    <2>1. \A k \in Cells : k <= n => k \in DOMAIN inq[c]
      BY <1>2, <1>3 DEF Cells
    <2>2. \A i \in DOMAIN inq[c] : inq[c][i] \in Bytes /\ inq[c][i] = <<c, read[c] + i>>
      BY <1>1, <1>3 DEF OnceInv, Numbered
    <2> QED  BY <1>2, <2>1, <2>2
  <1>6. Numbered'
    <2>1. \A d \in Clients : Len(inq'[d]) <= sent'[d]
      BY <1>1, <1>2, <1>3 DEF OnceInv, Numbered
    <2>2. \A i \in DOMAIN inq'[c] : inq'[c][i] = <<c, read'[c] + i>>
      <3>1. \A i \in DOMAIN inq'[c] : inq'[c][i] = <<c, read[c] + (i + n)>>
        BY <1>1, <1>2 DEF OnceInv, Numbered
      <3>2. \A i \in DOMAIN inq'[c] : i \in Int
        <4>1. \A i \in DOMAIN inq'[c] : i + n \in DOMAIN inq[c]
          BY <1>2
        <4>2. WatchInv'
          BY ReadStep
        <4>3. inq'[c] \in Seq(Bytes)
          BY <1>1, <4>2 DEF WatchInv, WatchedIffOpen, EpollTypeOK
        <4> QED  BY <4>3
      <3> QED  BY <1>3, <1>4, <3>1, <3>2
    <2>3. \A d \in Clients \ {c} : \A i \in DOMAIN inq'[d] : inq'[d][i] = <<d, read'[d] + i>>
      BY <1>1, <1>4 DEF OnceInv, Numbered
    <2>4. \A d \in Clients : \A i \in DOMAIN out[d] : out[d][i] # JUNK => out[d][i] \in Bytes
      BY <1>t DEF EpollTypeOK
    <2>5. \A d \in Clients : \A i \in DOMAIN out'[d] :
            out'[d][i] # JUNK => out'[d][i][2] <= read'[out'[d][i][1]]
      <3> SUFFICES ASSUME NEW d \in Clients, NEW i \in DOMAIN out[d], out[d][i] # JUNK
                   PROVE  out[d][i][2] <= read'[out[d][i][1]]
        BY <1>1
      <3>1. out[d][i][1] \in Clients /\ out[d][i][2] \in Int
        BY <2>4, ByteFacts, EpollAssumption
      <3>2. out[d][i][2] <= read[out[d][i][1]]
        BY DEF OnceInv, Numbered
      <3> QED  BY <1>4, <3>1, <3>2
    <2>6. \A k \in Cells : buff'[k] # NUL => buff'[k][2] <= read'[buff'[k][1]]
      <3> SUFFICES ASSUME NEW k \in Cells, buff'[k] # NUL PROVE buff'[k][2] <= read'[buff'[k][1]]
        OBVIOUS
      <3>1. CASE k <= n
        <4>1. buff'[k][1] = c /\ buff'[k][2] = read[c] + k
          BY <1>5, <3>1
        <4> QED  BY <1>3, <1>4, <3>1, <4>1 DEF Cells
      <3>2. CASE ~(k <= n)
        <4>1. buff'[k] = buff[k] /\ buff[k] # NUL /\ buff[k] \in Bytes
          BY <1>t, <1>2, <3>2 DEF EpollTypeOK
        <4>2. buff[k][2] <= read[buff[k][1]] /\ buff[k][1] \in Clients /\ buff[k][2] \in Int
          BY <4>1, ByteFacts, EpollAssumption DEF OnceInv, Numbered
        <4> QED  BY <1>4, <4>1, <4>2
      <3> QED  BY <3>1, <3>2
    <2> QED  BY <1>1, <2>1, <2>2, <2>3, <2>5, <2>6 DEF Numbered
  <1>b. \A k \in Cells : buff[k] # NUL => buff[k][2] <= read[buff[k][1]]
    BY DEF OnceInv, Numbered
  <1>o. \A d \in Clients : \A i \in DOMAIN out[d] :
          out[d][i] # JUNK => out[d][i][2] <= read[out[d][i][1]]
    BY DEF OnceInv, Numbered
  <1>7. \A k, l \in Cells : k <= n /\ ~(l <= n) => buff'[k] # buff'[l]
    <2> SUFFICES ASSUME NEW k \in Cells, NEW l \in Cells, k <= n, ~(l <= n), buff'[k] = buff'[l]
                 PROVE  FALSE
      OBVIOUS
    <2>1. buff[l] = <<c, read[c] + k>> /\ buff[l] # NUL
      BY <1>2, <1>5, ByteFacts
    <2>2. buff[l][1] = c /\ buff[l][2] = read[c] + k
      BY <2>1
    <2>3. buff[l][2] <= read[buff[l][1]]
      BY <2>1, <1>b
    <2> QED  BY <1>4, <2>2, <2>3 DEF Cells
  <1>8. \A d \in Clients : \A i \in DOMAIN out[d] : \A k \in Cells : k <= n => out[d][i] # buff'[k]
    <2> SUFFICES ASSUME NEW d \in Clients, NEW i \in DOMAIN out[d], NEW k \in Cells, k <= n,
                        out[d][i] = buff'[k]
                 PROVE  FALSE
      OBVIOUS
    <2>1. out[d][i] = <<c, read[c] + k>> /\ out[d][i] # JUNK
      BY <1>5, ByteFacts
    <2>2. out[d][i][1] = c /\ out[d][i][2] = read[c] + k
      BY <2>1
    <2>3. out[d][i][2] <= read[out[d][i][1]]
      BY <2>1, <1>o
    <2> QED  BY <1>4, <2>2, <2>3 DEF Cells
  <1>9. \A k, l \in Cells : k <= n /\ l <= n /\ buff'[k] = buff'[l] => k = l
    <2>1. \A k, l \in Cells : k <= n /\ l <= n /\ buff'[k] = buff'[l] => read[c] + k = read[c] + l
      BY <1>5
    <2> QED  BY <1>4, <2>1 DEF Cells
  <1>10. EchoedAtMostOnce'
    <2>1. \A k \in Cells : ~(k <= n) => buff'[k] = buff[k]
      BY <1>2
    <2> QED  BY <1>1, <1>7, <1>8, <1>9, <2>1 DEF OnceInv, EchoedAtMostOnce
  <1> QED  BY <1>6, <1>10 DEF OnceInv

LEMMA OnceWrite ==
  ASSUME WatchInv, OnceInv, do_write_ok
  PROVE  OnceInv'
  <1> DEFINE fd == Head(events).fd
             c  == conn[fd]
             L  == Len(out[c])
  <1>t. EpollTypeOK /\ EpollTypeOK'
    BY WriteStep DEF WatchInv, WatchedIffOpen
  <1>1. /\ c \in Clients /\ UNCHANGED <<sent, inq>> /\ \A d \in Clients \ {c} : out'[d] = out[d]
        /\ \A k \in Cells : buff'[k] = NUL
    BY WriteEffect
  <1>2. PICK s \in Strings(buff) :
          /\ \A i \in DOMAIN out[c] : i \in DOMAIN out'[c] /\ out'[c][i] = out[c][i]
          /\ \A k \in DOMAIN s : L + k \in DOMAIN out'[c] /\ out'[c][L + k] = s[k]
          /\ \A i \in DOMAIN out'[c] : i \in DOMAIN out[c] \/ i - L \in DOMAIN s
    BY WriteEffect
  <1>3. \A k \in DOMAIN s : (k \in Cells /\ s[k] = buff[k] /\ buff[k] # NUL) \/ s[k] = JUNK
    BY <1>t, StringCells DEF EpollTypeOK
  <1>4. L \in Nat /\ \A i \in DOMAIN out'[c] : i \in Nat
    BY <1>t, <1>1 DEF EpollTypeOK
  <1> HIDE DEF c, L
  \* every byte written to a client was written before, or was in the buffer
  <1>5. \A d \in Clients : \A i \in DOMAIN out'[d] : out'[d][i] # JUNK =>
          \/ i \in DOMAIN out[d] /\ out'[d][i] = out[d][i]
          \/ d = c /\ i - L \in Cells /\ out'[d][i] = buff[i - L] /\ buff[i - L] # NUL
    <2> SUFFICES ASSUME NEW i \in DOMAIN out'[c], out'[c][i] # JUNK, i \notin DOMAIN out[c]
                 PROVE  i - L \in Cells /\ out'[c][i] = buff[i - L] /\ buff[i - L] # NUL
      BY <1>1, <1>2
    <2>1. i - L \in DOMAIN s /\ L + (i - L) = i
      BY <1>2, <1>4
    <2>2. out'[c][i] = s[i - L]
      BY <1>2, <2>1
    <2> QED  BY <1>3, <2>1, <2>2
  <1>6. Numbered'
    <2>1. \A d : read'[d] = read[d]
      BY <1>1 DEF read
    <2>2. \A d \in Clients : \A i \in DOMAIN out'[d] :
            out'[d][i] # JUNK => out'[d][i][2] <= read[out'[d][i][1]]
      BY <1>5 DEF OnceInv, Numbered
    <2> QED  BY <1>1, <2>1, <2>2 DEF OnceInv, Numbered
  <1>o. \A d, e \in Clients : \A i \in DOMAIN out[d], j \in DOMAIN out[e] :
          out[d][i] = out[e][j] /\ out[d][i] # JUNK => d = e /\ i = j
    BY DEF OnceInv, EchoedAtMostOnce
  <1>b. \A d \in Clients : \A i \in DOMAIN out[d], k \in Cells : out[d][i] # buff[k]
    BY DEF OnceInv, EchoedAtMostOnce
  <1>7. \A d, e \in Clients : \A i \in DOMAIN out'[d], j \in DOMAIN out'[e] :
          out'[d][i] = out'[e][j] /\ out'[d][i] # JUNK => d = e /\ i = j
    <2> SUFFICES ASSUME NEW d \in Clients, NEW e \in Clients, NEW i \in DOMAIN out'[d],
                        NEW j \in DOMAIN out'[e], out'[d][i] = out'[e][j], out'[d][i] # JUNK
                 PROVE  d = e /\ i = j
      OBVIOUS
    <2>1. CASE i \in DOMAIN out[d] /\ out'[d][i] = out[d][i]
      <3>1. CASE j \in DOMAIN out[e] /\ out'[e][j] = out[e][j]
        <4>1. out[d][i] = out[e][j] /\ out[d][i] # JUNK
          BY <2>1, <3>1
        <4> QED  BY <1>o, <2>1, <3>1, <4>1
      <3>2. CASE ~(j \in DOMAIN out[e] /\ out'[e][j] = out[e][j])
        <4>1. j - L \in Cells /\ out'[e][j] = buff[j - L]
          BY <1>5, <3>2, Zenon
        <4>2. out[d][i] # buff[j - L]
          BY <1>b, <2>1, <4>1
        <4> QED  BY <2>1, <4>1, <4>2
      <3> QED  BY <3>1, <3>2
    <2>2. CASE d = c /\ i - L \in Cells /\ out'[d][i] = buff[i - L] /\ buff[i - L] # NUL
      <3>1. CASE j \in DOMAIN out[e] /\ out'[e][j] = out[e][j]
        BY <2>2, <3>1 DEF OnceInv, EchoedAtMostOnce
      <3>2. CASE e = c /\ j - L \in Cells /\ out'[e][j] = buff[j - L]
        <4>1. i - L = j - L
          BY <2>2, <3>2 DEF OnceInv, EchoedAtMostOnce
        <4> QED  BY <1>4, <2>2, <3>2, <4>1
      <3> QED  BY <1>5, <3>1, <3>2
    <2> QED  BY <1>5, <2>1, <2>2
  <1>8. \A d \in Clients : \A i \in DOMAIN out'[d] : out'[d][i] # NUL
    BY <1>t, ByteFacts DEF EpollTypeOK
  <1>9. EchoedAtMostOnce'
    BY <1>1, <1>7, <1>8 DEF EchoedAtMostOnce
  <1> QED  BY <1>6, <1>9 DEF OnceInv

LEMMA OnceSend ==
  ASSUME WatchInv, OnceInv, NEW c \in Clients, Send(c)
  PROVE  OnceInv' /\ read' = read
  <1>1. EpollTypeOK
    BY DEF WatchInv, WatchedIffOpen
  <1>2. /\ sent' = [sent EXCEPT ![c] = @ + 1]
        /\ inq' = [inq EXCEPT ![c] = Append(@, <<c, sent[c] + 1>>)]
        /\ UNCHANGED <<out, buff>>
    BY DEF Send, server
  <1>3. \A d \in Clients : sent[d] \in Nat /\ inq[d] \in Seq(Bytes) /\ Len(inq[d]) \in Nat
    BY <1>1, EpollAssumption DEF EpollTypeOK
  <1>4. /\ sent'[c] = sent[c] + 1 /\ inq'[c] = Append(inq[c], <<c, sent[c] + 1>>)
        /\ \A d \in Clients \ {c} : sent'[d] = sent[d] /\ inq'[d] = inq[d]
    BY <1>1, <1>2 DEF EpollTypeOK
  <1> DEFINE q == inq[c]
             b == <<c, sent[c] + 1>>
  <1>5. q \in Seq(Bytes) /\ Len(q) \in Nat /\ inq'[c] = Append(q, b)
    BY <1>3, <1>4
  <1> HIDE DEF q, b
  <1>l. Len(inq'[c]) = Len(q) + 1
    BY <1>5
  <1>6. \A i \in DOMAIN inq'[c] :
          (i \in DOMAIN q /\ inq'[c][i] = q[i]) \/ (i = Len(q) + 1 /\ inq'[c][i] = b)
    <2> DEFINE r == Append(q, b)
    <2>1. DOMAIN q = 1 .. Len(q) /\ DOMAIN r = 1 .. Len(q) + 1
      BY <1>5
    <2>2. \A i \in 1 .. Len(q) + 1 : i \in 1 .. Len(q) \/ i = Len(q) + 1
      BY <1>5
    <2>3. (\A i \in 1 .. Len(q) : r[i] = q[i]) /\ r[Len(q) + 1] = b
      BY <1>5
    <2>4. inq'[c] = r
      BY <1>5
    <2> HIDE DEF r
    <2> QED  BY <2>1, <2>2, <2>3, <2>4
  <1>7. read' = read
    <2>0. sent'[c] - Len(inq'[c]) = sent[c] - Len(inq[c])
      <3>1. sent[c] \in Nat /\ Len(inq[c]) \in Nat /\ q = inq[c]
        BY <1>3 DEF q
      <3>2. Len(inq'[c]) = Len(inq[c]) + 1
        BY <1>l, <3>1
      <3> QED  BY <1>4, <3>1, <3>2
    <2>1. \A d \in Clients : sent'[d] - Len(inq'[d]) = sent[d] - Len(inq[d])
      BY <1>4, <2>0
    <2> QED  BY <2>1 DEF read
  <1>8. Numbered'
    <2>1. \A d \in Clients : Len(inq'[d]) <= sent'[d]
      BY <1>3, <1>4, <1>5, <1>l DEF q, OnceInv, Numbered
    <2>2. \A i \in DOMAIN inq'[c] : inq'[c][i] = <<c, read[c] + i>>
      <3>1. read[c] + (Len(q) + 1) = sent[c] + 1
        BY <1>3 DEF read, q
      <3> QED  BY <1>6, <3>1 DEF q, b, OnceInv, Numbered
    <2>3. \A d \in Clients \ {c} : \A i \in DOMAIN inq'[d] : inq'[d][i] = <<d, read[d] + i>>
      BY <1>4 DEF OnceInv, Numbered
    <2> QED  BY <1>2, <1>7, <2>1, <2>2, <2>3 DEF OnceInv, Numbered
  <1> QED  BY <1>2, <1>7, <1>8 DEF OnceInv, EchoedAtMostOnce

LEMMA OnceNext ==
  ASSUME WatchInv, OnceInv, [Next]_vars
  PROVE  OnceInv'
  <1>1. CASE do_read_data
    BY <1>1, OnceRead
  <1>2. CASE do_write_ok
    BY <1>2, OnceWrite
  <1>3. CASE \E c \in Clients : Send(c)
    BY <1>3, OnceSend
  <1>4. ASSUME UNCHANGED <<sent, inq, out>>, UNCHANGED buff \/ \A k \in Cells : buff'[k] = NUL
        PROVE  OnceInv'
    <2>1. read' = read
      BY <1>4 DEF read
    <2>2. \A c \in Clients : \A i \in DOMAIN out[c] : out[c][i] # NUL
      BY ByteFacts DEF WatchInv, WatchedIffOpen, EpollTypeOK
    <2>3. Numbered'
      BY <1>4, <2>1 DEF OnceInv, Numbered
    <2>4. EchoedAtMostOnce'
      BY <1>4, <2>2 DEF OnceInv, EchoedAtMostOnce
    <2> QED  BY <2>3, <2>4 DEF OnceInv
  <1>5. CASE epoll_wait \/ handle_accept \/ do_read_end \/ do_write_sigpipe \/ UNCHANGED vars
    BY <1>4, <1>5 DEF epoll_wait, handle_accept, do_read_end, do_write_sigpipe, network, vars
  <1>6. CASE do_write_error
    BY <1>4, <1>6 DEF do_write_error, network, memset
  <1>7. CASE \E c \in Clients : Connect(c) \/ Receive(c) \/ LeaveStep(c)
    BY <1>4, <1>7 DEF Connect, Receive, LeaveStep, Leave, server
  <1> QED  BY <1>1, <1>2, <1>3, <1>5, <1>6, <1>7 DEF Next, ServerStep, handle_events, ClientStep

LEMMA OnceInit == Init => OnceInv
  <1> SUFFICES ASSUME Init PROVE OnceInv
    OBVIOUS
  <1>1. \A c \in Clients : DOMAIN inq[c] = {} /\ DOMAIN out[c] = {} /\ Len(inq[c]) = 0 /\ sent[c] = 0
    BY DEF Init
  <1>2. \A k \in Cells : buff[k] = NUL
    BY DEF Init, memset
  <1> QED  BY <1>1, <1>2 DEF OnceInv, Numbered, EchoedAtMostOnce

-----------------------------------------------------------------------------
(* One client by itself gets its bytes in order                            *)

\* The buffer has no gaps, and the client of a byte in it is watched for writing;
\* a client watched for writing has sent something.  Nothing is read from a
\* client before it is accepted.
BuffInv ==
  /\ \A k \in Cells : buff[k] # NUL => /\ \A l \in 1 .. k : buff[l] # NUL
                                       /\ \E fd \in Fds : /\ conn[fd] = buff[k][1]
                                                          /\ interest[fd] = "EPOLLOUT"
  /\ \A fd \in Fds : interest[fd] = "EPOLLOUT" => sent[conn[fd]] > 0
  /\ \A c \in Clients : peer[c] = "new" => read[c] = 0
  /\ \A i \in DOMAIN backlog : read[backlog[i]] = 0

LEMMA BuffRead ==
  ASSUME WatchInv, OnceInv, BuffInv, do_read_data
  PROVE  BuffInv'
  <1> DEFINE fd == Head(events).fd
             c  == conn[fd]
  <1>t. EpollTypeOK
    BY DEF WatchInv, WatchedIffOpen
  <1>1. /\ fd \in Fds /\ c \in Clients /\ UNCHANGED <<conn, sent, backlog, peer>>
        /\ interest' = [interest EXCEPT ![fd] = "EPOLLOUT"]
        /\ \A d \in Clients \ {c} : inq'[d] = inq[d]
    BY ReadEffect
  <1>2. PICK n \in Cells :
          /\ n <= Len(inq[c]) /\ Len(inq'[c]) = Len(inq[c]) - n
          /\ \A k \in Cells : buff'[k] = IF k <= n THEN inq[c][k] ELSE buff[k]
    BY ReadEffect
  <1>3. \A k \in Cells : k <= n => buff'[k] # NUL
    <2>1. inq[c] \in Seq(Bytes)
      BY <1>t, <1>1 DEF EpollTypeOK
    <2>2. \A k \in Cells : k <= n => k \in DOMAIN inq[c]
      BY <1>2, <2>1, EpollAssumption DEF Cells
    <2> QED  BY <1>2, <2>1, <2>2, ByteFacts
  <1>4. \A k \in Cells : buff'[k] # NUL => \A l \in 1 .. k : buff'[l] # NUL
    <2> SUFFICES ASSUME NEW k \in Cells, buff'[k] # NUL, NEW l \in 1 .. k
                 PROVE  buff'[l] # NUL
      OBVIOUS
    <2>1. l \in Cells /\ (l <= n \/ (~(l <= n) /\ ~(k <= n)))
      BY EpollAssumption DEF Cells
    <2> QED  BY <1>2, <1>3, <2>1 DEF BuffInv
  <1>5. sent[c] > 0
    BY <1>t, <1>1, <1>2, EpollAssumption DEF EpollTypeOK, Cells, OnceInv, Numbered
  <1>6. \A f \in Fds : interest'[f] = IF f = fd THEN "EPOLLOUT" ELSE interest[f]
    BY <1>t, <1>1 DEF EpollTypeOK
  <1>9. \A k \in Cells : buff'[k] # NUL =>
          \E f \in Fds : conn'[f] = buff'[k][1] /\ interest'[f] = "EPOLLOUT"
    <2> SUFFICES ASSUME NEW k \in Cells, buff'[k] # NUL
                 PROVE  \E f \in Fds : conn[f] = buff'[k][1] /\ interest'[f] = "EPOLLOUT"
      BY <1>1
    <2>1. CASE k <= n
      <3>1. inq[c] \in Seq(Bytes)
        BY <1>t, <1>1 DEF EpollTypeOK
      <3>2. k \in DOMAIN inq[c] /\ buff'[k] = inq[c][k]
        BY <1>2, <2>1, <3>1, EpollAssumption DEF Cells
      <3>3. buff'[k][1] = c
        BY <1>1, <3>2 DEF OnceInv, Numbered
      <3> QED  BY <1>1, <1>6, <3>3
    <2>2. CASE ~(k <= n)
      <3>1. buff'[k] = buff[k]
        BY <1>2, <2>2
      <3>2. PICK f \in Fds : conn[f] = buff[k][1] /\ interest[f] = "EPOLLOUT"
        BY <3>1 DEF BuffInv
      <3> QED  BY <1>6, <3>1, <3>2
    <2> QED  BY <2>1, <2>2
  <1>7. \A d \in Clients \ {c} : read'[d] = read[d]
    BY <1>1 DEF read
  <1>8. /\ \A d \in Clients : peer'[d] = "new" => peer[d] = "new" /\ d # c
        /\ \A i \in DOMAIN backlog : backlog[i] \in Clients /\ backlog[i] # c
    BY <1>t, <1>1 DEF WatchInv, AcceptedOnce, EpollTypeOK
  <1> QED  BY <1>1, <1>4, <1>5, <1>6, <1>7, <1>8, <1>9 DEF BuffInv

LEMMA BuffNext ==
  ASSUME WatchInv, OnceInv, BuffInv, [Next]_vars
  PROVE  BuffInv'
  <1>t. EpollTypeOK /\ WatchedIffOpen
    BY DEF WatchInv, WatchedIffOpen
  <1>1. CASE do_read_data
    BY <1>1, BuffRead
  <1>2. CASE do_write_ok
    <2>1. /\ Head(events).fd \in Fds /\ interest' = [interest EXCEPT ![Head(events).fd] = "EPOLLIN"]
          /\ UNCHANGED <<conn, sent, inq, backlog>> /\ \A k \in Cells : buff'[k] = NUL
          /\ \A d \in Clients : peer'[d] = "new" => peer[d] = "new"
      BY <1>2, WriteEffect
    <2>2. read' = read /\ \A f \in Fds : interest'[f] = "EPOLLOUT" => interest[f] = "EPOLLOUT"
      BY <1>t, <2>1 DEF read, EpollTypeOK
    <2> QED  BY <2>1, <2>2 DEF BuffInv
  <1>3. CASE \E c \in Clients : Send(c)
    <2>1. PICK c \in Clients : Send(c)
      BY <1>3
    <2>2. read' = read /\ UNCHANGED <<conn, interest, buff, peer, backlog>>
      BY <2>1, OnceSend DEF Send, server
    <2>3. \A d \in Clients : sent[d] > 0 => sent'[d] > 0
      BY <1>t, <2>1, EpollAssumption DEF Send, EpollTypeOK
    <2>4. \A fd \in Fds : interest[fd] = "EPOLLOUT" => conn[fd] \in Clients
      BY <1>t DEF WatchedIffOpen, EpollTypeOK
    <2> QED  BY <2>2, <2>3, <2>4 DEF BuffInv
  <1>4. CASE handle_accept
    <2>1. /\ UNCHANGED <<buff, sent, inq>> /\ read' = read
      BY <1>4 DEF handle_accept, read
    <2>2. backlog # <<>> /\ backlog \in Seq(Clients)
      <3>1. Handle({listenfd}, "EPOLLIN") /\ BatchInv
        BY <1>4 DEF handle_accept, WatchInv
      <3>2. Head(events) = events[1] /\ 1 \in DOMAIN events /\ Head(events).fd = listenfd
        BY <1>t, <3>1, RestOfBatch
      <3> QED  BY <1>t, <3>1, <3>2 DEF BatchInv, EpollTypeOK
    <2>3. \A i \in DOMAIN Tail(backlog) : i + 1 \in DOMAIN backlog /\ Tail(backlog)[i] = backlog[i + 1]
      BY <2>2
    <2>4. \A i \in DOMAIN backlog' : read[backlog'[i]] = 0
      <3>1. backlog' = backlog \/ backlog' = Tail(backlog)
        BY <1>4 DEF handle_accept
      <3>2. \A i \in DOMAIN backlog : read[backlog[i]] = 0
        BY DEF BuffInv
      <3>3. \A i \in DOMAIN Tail(backlog) : read[Tail(backlog)[i]] = 0
        BY <2>3, <3>2, Zenon
      <3> QED  BY <3>1, <3>2, <3>3, Zenon
    <2>5. \A c \in Clients : peer'[c] = "new" => peer[c] = "new"
      BY <1>4, <1>t DEF handle_accept, EpollTypeOK
    <2>6. \A fd \in Fds : (interest'[fd] = "EPOLLOUT" <=> interest[fd] = "EPOLLOUT")
                          /\ (interest[fd] = "EPOLLOUT" => conn'[fd] = conn[fd])
      <3>1. CASE UNCHANGED <<conn, interest>>
        BY <3>1
      <3>2. ASSUME NEW f \in Fds, conn[f] = NONE, conn' = [conn EXCEPT ![f] = Head(backlog)],
                   interest' = [interest EXCEPT ![f] = "EPOLLIN"]
            PROVE  \A fd \in Fds : (interest'[fd] = "EPOLLOUT" <=> interest[fd] = "EPOLLOUT")
                                   /\ (interest[fd] = "EPOLLOUT" => conn'[fd] = conn[fd])
        <4>1. interest[f] = "none"
          BY <1>t, <3>2 DEF WatchedIffOpen
        <4> QED  BY <1>t, <3>2, <4>1 DEF EpollTypeOK
      <3> QED  BY <1>4, <3>1, <3>2 DEF handle_accept, add_event
    <2> QED  BY <2>1, <2>4, <2>5, <2>6 DEF BuffInv
  <1>5. CASE do_read_end
    <2>1. Handle(Fds, "EPOLLIN") /\ UNCHANGED <<buff, backlog, peer, sent, inq>>
          /\ conn' = [conn EXCEPT ![Head(events).fd] = NONE]
          /\ interest' = [interest EXCEPT ![Head(events).fd] = "none"]
      BY <1>5 DEF do_read_end, close, network
    <2>2. Head(events).fd \in Fds /\ interest[Head(events).fd] = "EPOLLIN" /\ read' = read
      BY <2>1, ClientEvent DEF read
    <2>3. \A fd \in Fds : (interest'[fd] = "EPOLLOUT" <=> interest[fd] = "EPOLLOUT")
                          /\ (interest[fd] = "EPOLLOUT" => conn'[fd] = conn[fd])
      BY <1>t, <2>1, <2>2 DEF EpollTypeOK
    <2> QED  BY <2>1, <2>2, <2>3 DEF BuffInv
  <1>6. CASE do_write_error
    <2>1. Handle(Fds, "EPOLLOUT") /\ UNCHANGED <<backlog, peer, sent, inq>>
          /\ conn' = [conn EXCEPT ![Head(events).fd] = NONE]
          /\ interest' = [interest EXCEPT ![Head(events).fd] = "none"]
          /\ \A k \in Cells : buff'[k] = NUL
      BY <1>6 DEF do_write_error, close, network, memset
    <2>2. Head(events).fd \in Fds /\ read' = read
      BY <2>1, ClientEvent DEF read
    <2>3. \A fd \in Fds : interest'[fd] = "EPOLLOUT" => interest[fd] = "EPOLLOUT" /\ conn'[fd] = conn[fd]
      BY <1>t, <2>1, <2>2 DEF EpollTypeOK
    <2> QED  BY <2>1, <2>2, <2>3 DEF BuffInv
  <1>7. CASE epoll_wait \/ do_write_sigpipe \/ UNCHANGED vars
    <2>1. UNCHANGED <<conn, interest, buff, backlog, peer, sent, inq>>
      BY <1>7 DEF epoll_wait, do_write_sigpipe, network, vars
    <2>2. read' = read
      BY <2>1 DEF read
    <2> QED  BY <2>1, <2>2 DEF BuffInv
  <1>8. ASSUME NEW c \in Clients, Connect(c)
        PROVE  BuffInv'
    <2>1. /\ peer[c] = "new" /\ peer' = [peer EXCEPT ![c] = "up"] /\ backlog' = Append(backlog, c)
          /\ UNCHANGED <<conn, interest, buff, sent, inq>>
      BY <1>8 DEF Connect, server
    <2>2. read' = read /\ \A d \in Clients : peer'[d] = "new" => peer[d] = "new"
      BY <1>t, <2>1 DEF read, EpollTypeOK
    <2>3. \A i \in DOMAIN backlog' : (i \in DOMAIN backlog /\ backlog'[i] = backlog[i]) \/ backlog'[i] = c
      <3> DEFINE q == backlog
      <3>1. q \in Seq(Clients) /\ backlog' = Append(q, c)
        BY <1>t, <2>1 DEF EpollTypeOK
      <3> HIDE DEF q
      <3>2. DOMAIN Append(q, c) = 1 .. Len(q) + 1 /\ DOMAIN q = 1 .. Len(q) /\ Len(q) \in Nat
        BY <3>1
      <3>3. \A i \in 1 .. Len(q) + 1 : i \in 1 .. Len(q) \/ i = Len(q) + 1
        BY <3>2
      <3> QED  BY <3>1, <3>2, <3>3 DEF q
    <2> QED  BY <2>1, <2>2, <2>3 DEF BuffInv
  <1>9. CASE \E c \in Clients : Receive(c) \/ LeaveStep(c)
    <2>1. UNCHANGED <<conn, interest, buff, backlog, sent, inq>>
      BY <1>9 DEF Receive, LeaveStep, Leave, server
    <2>2. read' = read /\ \A d \in Clients : peer'[d] = "new" => peer[d] = "new"
      BY <1>t, <1>9, <2>1 DEF Receive, LeaveStep, Leave, read, EpollTypeOK
    <2> QED  BY <2>1, <2>2 DEF BuffInv
  <1> QED
    BY <1>1, <1>2, <1>3, <1>4, <1>5, <1>6, <1>7, <1>8, <1>9
    DEF Next, ServerStep, handle_events, ClientStep

LEMMA BuffInit == Init => BuffInv
  <1> SUFFICES ASSUME Init PROVE BuffInv
    OBVIOUS
  <1>1. DOMAIN backlog = {} /\ \A k \in Cells : buff[k] = NUL
    BY DEF Init, memset
  <1>2. \A c \in Clients : read[c] = 0
    BY DEF Init, read
  <1> QED  BY <1>1, <1>2 DEF Init, BuffInv

\* No client but c has ever sent anything.
Alone(c) == \A d \in Clients \ {c} : sent[d] = 0

Echoed(c, m) == \E j \in DOMAIN out[c] : out[c][j] = <<c, m>>

\* What c has got is in order, and complete but for what was cut off.
OutInOrder(c) ==
  \A i \in DOMAIN out[c] : out[c][i] # JUNK =>
    /\ out[c][i][1] = c
    /\ \A j \in 1 .. i - 1 : out[c][j] # JUNK => out[c][j][2] < out[c][i][2]
    /\ \A m \in 1 .. out[c][i][2] - 1 : CutOff(c, m) \/ \E j \in 1 .. i - 1 : out[c][j] = <<c, m>>

\* What is in the buffer are consecutive bytes of c, after those that were echoed.
BuffInOrder(c) ==
  \A k \in Cells : buff[k] # NUL =>
    /\ buff[k][1] = c
    /\ \A j \in DOMAIN out[c] : out[c][j] # JUNK => out[c][j][2] < buff[k][2]
    /\ \A l \in 1 .. k : buff[l] = <<c, buff[k][2] - (k - l)>>
    /\ \A m \in 1 .. buff[k][2] - 1 :
         Echoed(c, m) \/ CutOff(c, m) \/ \E l \in Cells : l < k /\ buff[l] = <<c, m>>

\* While c is connected, nothing that was read from it is lost but what was cut off.
NothingLost(c) ==
  (\E fd \in Fds : conn[fd] = c) =>
    \A m \in 1 .. read[c] :
      Echoed(c, m) \/ CutOff(c, m) \/ \E k \in Cells : buff[k] = <<c, m>>

OrderInv ==
  \A c \in Clients : Alone(c) => OutInOrder(c) /\ BuffInOrder(c) /\ NothingLost(c)

\* A descriptor watched for writing is that of the one client that sends.
LEMMA WriterIsAlone ==
  ASSUME WatchInv, BuffInv, NEW c \in Clients, Alone(c), NEW fd \in Fds, interest[fd] = "EPOLLOUT"
  PROVE  conn[fd] = c
  <1>1. conn[fd] \in Clients
    BY DEF WatchInv, WatchedIffOpen, EpollTypeOK
  <1>2. sent[conn[fd]] > 0
    BY DEF BuffInv
  <1> QED  BY <1>1, <1>2 DEF Alone

LEMMA OrderRead ==
  ASSUME WatchInv, OnceInv, BuffInv, OrderInv, do_read_data, NEW c \in Clients, Alone(c)
  PROVE  OutInOrder(c)' /\ BuffInOrder(c)' /\ NothingLost(c)'
  <1> DEFINE fd == Head(events).fd
  <1>t. EpollTypeOK /\ WatchedIffOpen
    BY DEF WatchInv, WatchedIffOpen
  <1>1. /\ fd \in Fds /\ conn[fd] \in Clients /\ interest[fd] = "EPOLLIN"
        /\ UNCHANGED <<conn, sent, out>>
    BY ReadEffect
  <1>2. PICK n \in Cells :
          /\ n <= Len(inq[conn[fd]]) /\ Len(inq'[conn[fd]]) = Len(inq[conn[fd]]) - n
          /\ \A k \in Cells : buff'[k] = IF k <= n THEN inq[conn[fd]][k] ELSE buff[k]
    BY ReadEffect
  <1>3. conn[fd] = c
    <2>1. sent[conn[fd]] > 0
      BY <1>t, <1>1, <1>2, EpollAssumption DEF EpollTypeOK, Cells, OnceInv, Numbered
    <2> QED  BY <1>1, <2>1 DEF Alone
  <1> HIDE DEF fd
  <1>4. \A k \in Cells : buff[k] = NUL
    <2> SUFFICES ASSUME NEW k \in Cells, buff[k] # NUL PROVE FALSE
      OBVIOUS
    <2>1. PICK f \in Fds : interest[f] = "EPOLLOUT"
      BY DEF BuffInv
    <2>2. conn[f] = c
      BY <2>1, WriterIsAlone
    <2>3. c # NONE
      BY EpollAssumption
    <2>4. f = fd
      BY <1>t, <1>1, <1>3, <2>2, <2>3 DEF WatchedIffOpen
    <2> QED  BY <1>1, <2>1, <2>4
  <1>5. /\ n \in Nat /\ n > 0 /\ inq[c] \in Seq(Bytes) /\ sent[c] \in Nat
        /\ Len(inq[c]) \in Nat /\ Len(inq[c]) <= sent[c]
    BY <1>t, EpollAssumption DEF EpollTypeOK, Cells, OnceInv, Numbered
  <1>6. read[c] \in Nat /\ read'[c] = read[c] + n
    <2>1. read[c] = sent[c] - Len(inq[c]) /\ read'[c] = sent'[c] - Len(inq'[c])
      BY DEF read
    <2> QED  BY <1>1, <1>2, <1>3, <1>5, <2>1
  <1>7. \A k \in Cells : buff'[k] = IF k <= n THEN <<c, read[c] + k>> ELSE NUL
    <2>1. \A k \in Cells : k <= n => k \in DOMAIN inq[c]
      BY <1>2, <1>3, <1>5 DEF Cells
    <2>2. \A k \in DOMAIN inq[c] : inq[c][k] = <<c, read[c] + k>>
      BY DEF OnceInv, Numbered
    <2> QED  BY <1>2, <1>3, <1>4, <2>1, <2>2
  <1>8. \A m \in 1 .. read[c] : Echoed(c, m)' \/ CutOff(c, m)
    <2>1. \A m \in 1 .. read[c] : Echoed(c, m) \/ CutOff(c, m)
      <3>1. NothingLost(c)
        BY DEF OrderInv
      <3>2. \A m \in Nat : <<c, m>> # NUL
        BY EpollAssumption
      <3> QED  BY <1>1, <1>3, <1>4, <3>1, <3>2 DEF NothingLost
    <2> QED  BY <1>1, <2>1 DEF Echoed
  <1>9. \A m \in Nat : read[c] < m /\ m <= read[c] + n =>
          m - read[c] \in Cells /\ buff'[m - read[c]] = <<c, m>>
    <2> SUFFICES ASSUME NEW m \in Nat, read[c] < m, m <= read[c] + n
                 PROVE  m - read[c] \in Cells /\ buff'[m - read[c]] = <<c, m>>
      OBVIOUS
    <2>1. m - read[c] \in Cells /\ m - read[c] <= n /\ read[c] + (m - read[c]) = m
      BY <1>5, <1>6, EpollAssumption DEF Cells
    <2> QED  BY <1>7, <2>1
  <1>10. OutInOrder(c)'
    <2>1. OutInOrder(c) /\ out' = out
      BY <1>1 DEF OrderInv
    <2> QED  BY <2>1 DEF OutInOrder, CutOff
  <1>11. BuffInOrder(c)'
    <2> SUFFICES ASSUME NEW k \in Cells, buff'[k] # NUL
                 PROVE  /\ buff'[k][1] = c
                        /\ \A j \in DOMAIN out[c] : out[c][j] # JUNK => out[c][j][2] < buff'[k][2]
                        /\ \A l \in 1 .. k : buff'[l] = <<c, buff'[k][2] - (k - l)>>
                        /\ \A m \in 1 .. buff'[k][2] - 1 :
                             \/ Echoed(c, m)' \/ CutOff(c, m)
                             \/ \E l \in Cells : l < k /\ buff'[l] = <<c, m>>
      BY <1>1 DEF BuffInOrder, CutOff
    <2>1. k <= n /\ buff'[k][1] = c /\ buff'[k][2] = read[c] + k /\ k \in Nat
      <3>1. k <= n
        BY <1>7
      <3>2. buff'[k] = <<c, read[c] + k>>
        BY <1>7, <3>1
      <3> QED  BY <3>1, <3>2 DEF Cells
    <2>4. \A j \in DOMAIN out[c] : out[c][j] # JUNK => out[c][j][2] < buff'[k][2]
      <3> SUFFICES ASSUME NEW j \in DOMAIN out[c], out[c][j] # JUNK
                   PROVE  out[c][j][2] < read[c] + k
        BY <2>1
      <3>1. out[c][j][1] = c
        BY DEF OrderInv, OutInOrder
      <3>2. out[c][j][2] <= read[c]
        BY <3>1 DEF OnceInv, Numbered
      <3>3. out[c][j] \in Bytes
        BY <1>t DEF EpollTypeOK
      <3>4. out[c][j][2] \in Int
        BY <3>3, ByteFacts, EpollAssumption
      <3> QED  BY <1>6, <2>1, <3>2, <3>4 DEF Cells
    <2>5. \A l \in 1 .. k : buff'[l] = <<c, buff'[k][2] - (k - l)>>
      <3> SUFFICES ASSUME NEW l \in 1 .. k PROVE buff'[l] = <<c, buff'[k][2] - (k - l)>>
        OBVIOUS
      <3>1. l \in Cells /\ l <= n /\ buff'[k][2] - (k - l) = read[c] + l
        BY <1>5, <1>6, <2>1, EpollAssumption DEF Cells
      <3> QED  BY <1>7, <3>1
    <2> SUFFICES ASSUME NEW m \in 1 .. buff'[k][2] - 1
                 PROVE  \/ Echoed(c, m)' \/ CutOff(c, m)
                        \/ \E l \in Cells : l < k /\ buff'[l] = <<c, m>>
      BY <2>1, <2>4, <2>5, Zenon
    <2>m. m \in Nat /\ 1 <= m /\ m < read[c] + k
      BY <1>6, <2>1
    <2>2. CASE m <= read[c]
      <3>1. m \in 1 .. read[c]
        BY <1>6, <2>2, <2>m
      <3> QED  BY <1>8, <3>1
    <2>3. CASE ~(m <= read[c])
      <3>1. m \in Nat /\ read[c] < m /\ m <= read[c] + n /\ m - read[c] < k
        BY <1>5, <1>6, <2>1, <2>3, <2>m
      <3> QED  BY <1>9, <3>1
    <2> QED  BY <2>2, <2>3
  <1>12. NothingLost(c)'
    <2> SUFFICES ASSUME NEW m \in 1 .. read'[c]
                 PROVE  Echoed(c, m)' \/ CutOff(c, m) \/ \E k \in Cells : buff'[k] = <<c, m>>
      BY DEF NothingLost, CutOff
    <2>1. CASE m <= read[c]
      BY <1>6, <1>8, <2>1
    <2>2. CASE ~(m <= read[c])
      <3>1. m \in Nat /\ read[c] < m /\ m <= read[c] + n
        BY <1>5, <1>6, <2>2
      <3> QED  BY <1>9, <3>1
    <2> QED  BY <2>1, <2>2
  <1> QED  BY <1>10, <1>11, <1>12

LEMMA OrderWrite ==
  ASSUME WatchInv, OnceInv, BuffInv, OrderInv, do_write_ok, NEW c \in Clients, Alone(c)
  PROVE  OutInOrder(c)' /\ BuffInOrder(c)' /\ NothingLost(c)'
  <1> DEFINE fd == Head(events).fd
             L  == Len(out[c])
  <1>t. EpollTypeOK /\ EpollTypeOK'
    BY WriteStep DEF WatchInv, WatchedIffOpen
  <1>1. /\ fd \in Fds /\ interest[fd] = "EPOLLOUT"
        /\ UNCHANGED <<conn, sent, inq>> /\ \A k \in Cells : buff'[k] = NUL
    BY WriteEffect
  <1>2. conn[fd] = c
    BY <1>1, WriterIsAlone
  <1>3. PICK s \in Strings(buff) :
          /\ \A i \in DOMAIN out[c] : i \in DOMAIN out'[c] /\ out'[c][i] = out[c][i]
          /\ \A k \in DOMAIN s : L + k \in DOMAIN out'[c] /\ out'[c][L + k] = s[k]
          /\ \A i \in DOMAIN out'[c] : i \in DOMAIN out[c] \/ i - L \in DOMAIN s
    BY <1>2, WriteEffect
  <1>4. /\ \A k \in DOMAIN s : (k \in Cells /\ s[k] = buff[k] /\ buff[k] # NUL) \/ s[k] = JUNK
        /\ \A k \in Cells : (\A l \in 1 .. k : ~Zero(buff[l])) => k \in DOMAIN s /\ s[k] = buff[k]
        /\ \A i \in DOMAIN s : \A l \in 1 .. i : i \in Cells => l \in DOMAIN s /\ s[l] = buff[l]
    <2>1. buff \in [Cells -> Bytes \cup {NUL}]
      BY <1>t DEF EpollTypeOK
    <2> QED  BY <2>1, StringCells
  <1>5. /\ L \in Nat /\ DOMAIN out[c] = 1 .. L /\ \A i \in DOMAIN out'[c] : i \in Nat
    BY <1>t DEF EpollTypeOK
  <1>6. OutInOrder(c) /\ BuffInOrder(c) /\ NothingLost(c)
    BY DEF OrderInv
  <1> HIDE DEF fd, L
  \* the byte of cell k follows what was sent before it
  <1>7. \A k \in DOMAIN s : s[k] # JUNK =>
          /\ s[k][1] = c
          /\ \A j \in 1 .. L + k - 1 : out'[c][j] # JUNK => out'[c][j][2] < s[k][2]
          /\ \A m \in 1 .. s[k][2] - 1 :
               CutOff(c, m) \/ \E j \in 1 .. L + k - 1 : out'[c][j] = <<c, m>>
    <2> SUFFICES ASSUME NEW k \in DOMAIN s, s[k] # JUNK
                 PROVE  /\ s[k][1] = c
                        /\ \A j \in 1 .. L + k - 1 : out'[c][j] # JUNK => out'[c][j][2] < s[k][2]
                        /\ \A m \in 1 .. s[k][2] - 1 :
                             CutOff(c, m) \/ \E j \in 1 .. L + k - 1 : out'[c][j] = <<c, m>>
      OBVIOUS
    <2>1. k \in Cells /\ s[k] = buff[k] /\ buff[k] # NUL /\ k \in Nat
      BY <1>4, EpollAssumption DEF Cells
    <2>2. s[k][1] = c
      BY <1>6, <2>1 DEF BuffInOrder
    <2>3. ASSUME NEW m \in 1 .. s[k][2] - 1
          PROVE  CutOff(c, m) \/ \E j \in 1 .. L + k - 1 : out'[c][j] = <<c, m>>
      <3>1. Echoed(c, m) \/ CutOff(c, m) \/ \E l \in Cells : l < k /\ buff[l] = <<c, m>>
        BY <1>6, <2>1, <2>3 DEF BuffInOrder
      <3>2. CASE Echoed(c, m)
        <4>1. PICK j \in 1 .. L : out[c][j] = <<c, m>>
          BY <1>5, <3>2 DEF Echoed
        <4>2. out'[c][j] = <<c, m>> /\ j \in 1 .. L + k - 1
          <5>1. out'[c][j] = out[c][j]
            BY <1>3, <1>5
          <5>2. k >= 1
            BY <2>1 DEF Cells
          <5> QED  BY <1>5, <2>1, <4>1, <5>1, <5>2
        <4> QED  BY <4>2
      <3>3. CASE \E l \in Cells : l < k /\ buff[l] = <<c, m>>
        <4>1. PICK l \in Cells : l < k /\ buff[l] = <<c, m>>
          BY <3>3
        <4>2. l \in Nat /\ l >= 1 /\ l \in 1 .. k
          BY <2>1, <4>1 DEF Cells
        <4>3. l \in DOMAIN s /\ s[l] = buff[l]
          BY <1>4, <2>1, <4>2
        <4>4. out'[c][L + l] = <<c, m>>
          BY <1>3, <4>1, <4>3
        <4>5. L + l \in 1 .. L + k - 1
          BY <1>5, <2>1, <4>1, <4>2
        <4> QED  BY <4>4, <4>5
      <3> QED  BY <3>1, <3>2, <3>3
    <2>4. ASSUME NEW j \in 1 .. L + k - 1, out'[c][j] # JUNK
          PROVE  out'[c][j][2] < s[k][2]
      <3>1. CASE j \in 1 .. L
        <4>1. out'[c][j] = out[c][j] /\ j \in DOMAIN out[c]
          BY <1>3, <1>5, <3>1
        <4> QED  BY <1>6, <2>1, <2>4, <4>1 DEF BuffInOrder
      <3>2. CASE j \notin 1 .. L
        <4> DEFINE l == j - L
        <4>1. l \in Nat /\ l \in 1 .. k /\ l < k /\ L + l = j
          BY <1>5, <2>1, <3>2
        <4> HIDE DEF l
        <4>2. l \in DOMAIN s /\ s[l] = buff[l]
          BY <1>4, <2>1, <4>1
        <4>3. out'[c][j] = buff[l]
          BY <1>3, <4>1, <4>2
        <4>4. buff[l] = <<c, buff[k][2] - (k - l)>>
          BY <1>6, <2>1, <4>1 DEF BuffInOrder
        <4>5. buff[k] \in Bytes
          BY <1>t, <2>1 DEF EpollTypeOK
        <4>6. buff[k][2] \in Int
          BY <4>5, ByteFacts, EpollAssumption
        <4>7. out'[c][j][2] = buff[k][2] - (k - l)
          BY <4>3, <4>4
        <4> QED  BY <2>1, <4>1, <4>6, <4>7
      <3> QED  BY <3>1, <3>2
    <2> QED  BY <2>2, <2>3, <2>4
  <1>8. OutInOrder(c)'
    <2> SUFFICES ASSUME NEW i \in DOMAIN out'[c], out'[c][i] # JUNK
                 PROVE  /\ out'[c][i][1] = c
                        /\ \A j \in 1 .. i - 1 : out'[c][j] # JUNK => out'[c][j][2] < out'[c][i][2]
                        /\ \A m \in 1 .. out'[c][i][2] - 1 :
                             CutOff(c, m) \/ \E j \in 1 .. i - 1 : out'[c][j] = <<c, m>>
      BY DEF OutInOrder, CutOff
    <2>1. CASE i \in DOMAIN out[c]
      <3>1. out'[c][i] = out[c][i]
        BY <1>3, <2>1
      <3>2. /\ out[c][i][1] = c
            /\ \A j \in 1 .. i - 1 : out[c][j] # JUNK => out[c][j][2] < out[c][i][2]
            /\ \A m \in 1 .. out[c][i][2] - 1 :
                 CutOff(c, m) \/ \E j \in 1 .. i - 1 : out[c][j] = <<c, m>>
        BY <1>6, <2>1, <3>1 DEF OutInOrder
      <3>3. \A j \in 1 .. i - 1 : out'[c][j] = out[c][j]
        <4>1. \A j \in 1 .. i - 1 : j \in 1 .. L
          BY <1>5, <2>1
        <4> QED  BY <1>3, <1>5, <4>1
      <3> QED  BY <3>1, <3>2, <3>3
    <2>2. CASE i - L \in DOMAIN s
      <3>1. L + (i - L) = i
        BY <1>5
      <3>2. out'[c][i] = s[i - L]
        BY <1>3, <2>2, <3>1
      <3>3. L + (i - L) - 1 = i - 1
        BY <1>5
      <3> QED  BY <1>7, <2>2, <3>2, <3>3
    <2> QED  BY <1>3, <2>1, <2>2
  <1>9. BuffInOrder(c)'
    BY <1>1 DEF BuffInOrder
  <1>10. NothingLost(c)'
    <2>1. read' = read
      BY <1>1 DEF read
    <2> SUFFICES ASSUME NEW m \in 1 .. read[c]
                 PROVE  CutOff(c, m) \/ \E j \in DOMAIN out'[c] : out'[c][j] = <<c, m>>
      BY <2>1 DEF NothingLost, Echoed, CutOff
    <2>2. Echoed(c, m) \/ CutOff(c, m) \/ \E k \in Cells : buff[k] = <<c, m>>
      BY <1>1, <1>2, <1>6 DEF NothingLost
    <2>3. CASE Echoed(c, m)
      BY <1>3, <2>3 DEF Echoed
    <2>4. ASSUME NEW k \in Cells, buff[k] = <<c, m>>
          PROVE  CutOff(c, m) \/ \E j \in DOMAIN out'[c] : out'[c][j] = <<c, m>>
      <3>1. <<c, m>> # NUL /\ m \in Nat
        <4>1. m \in Nat
          OBVIOUS
        <4> QED  BY <4>1, EpollAssumption
      <3>2. CASE \A l \in 1 .. k : ~Zero(buff[l])
        <4>1. k \in DOMAIN s /\ s[k] = <<c, m>>
          BY <1>4, <2>4, <3>2
        <4> QED  BY <1>3, <4>1
      <3>3. ASSUME NEW l \in 1 .. k, Zero(buff[l])
            PROVE  CutOff(c, m)
        <4>1. l \in Cells /\ l \in Nat /\ k \in Nat /\ k - l \in Nat /\ k - l < MAX_BUFFER_SIZE
          BY EpollAssumption DEF Cells
        <4>2. buff[l] \in Zeros /\ buff[l] # NUL
          BY <2>4, <3>1, <3>3 DEF BuffInv, Zero
        <4>3. buff[k][2] = m
          BY <2>4
        <4>4. buff[l] = <<c, m - (k - l)>>
          BY <1>6, <2>4, <3>1, <4>3 DEF BuffInOrder
        <4>5. buff[l] \in Bytes
          BY <1>t, <4>1, <4>2 DEF EpollTypeOK
        <4>6. buff[l][2] \in 1 .. MaxBytes /\ buff[l][2] = m - (k - l)
          BY <4>4, <4>5, ByteFacts
        <4>7. m - (k - l) \in 1 .. m /\ m - (m - (k - l)) < MAX_BUFFER_SIZE
          BY <3>1, <4>1, <4>6, EpollAssumption
        <4> QED  BY <4>2, <4>4, <4>7 DEF CutOff
      <3> QED  BY <3>2, <3>3
    <2> QED  BY <2>2, <2>3, <2>4
  <1> QED  BY <1>8, <1>9, <1>10

LEMMA OrderNext ==
  ASSUME WatchInv, OnceInv, BuffInv, OrderInv, [Next]_vars
  PROVE  OrderInv'
  <1> SUFFICES ASSUME NEW c \in Clients, Alone(c)'
               PROVE  OutInOrder(c)' /\ BuffInOrder(c)' /\ NothingLost(c)'
    BY DEF OrderInv
  <1>t. EpollTypeOK /\ WatchedIffOpen
    BY DEF WatchInv, WatchedIffOpen
  \* a step that reads nothing and writes nothing to c
  <1>q. ASSUME Alone(c), UNCHANGED out, read' = read,
               UNCHANGED buff,
               (\E fd \in Fds : conn'[fd] = c) => (\E fd \in Fds : conn[fd] = c) \/ read[c] = 0
        PROVE  OutInOrder(c)' /\ BuffInOrder(c)' /\ NothingLost(c)'
    <2>1. OutInOrder(c) /\ BuffInOrder(c) /\ NothingLost(c)
      BY <1>q DEF OrderInv
    <2>2. OutInOrder(c)'
      BY <1>q, <2>1 DEF OutInOrder, CutOff
    <2>3. \A m : Echoed(c, m)' <=> Echoed(c, m)
      BY <1>q DEF Echoed
    <2>4. BuffInOrder(c)'
      BY <1>q, <2>1, <2>3 DEF BuffInOrder, CutOff
    <2>5. NothingLost(c)'
      <3>1. 1 .. 0 = {}
        OBVIOUS
      <3> QED  BY <1>q, <2>1, <2>3, <3>1 DEF NothingLost, CutOff
    <2> QED  BY <2>2, <2>4, <2>5
  <1>1. CASE do_read_data
    <2>1. Alone(c)
      BY <1>1, ReadEffect DEF Alone
    <2> QED  BY <1>1, <2>1, OrderRead
  <1>2. CASE do_write_ok
    <2>1. Alone(c)
      BY <1>2, WriteEffect DEF Alone
    <2> QED  BY <1>2, <2>1, OrderWrite
  <1>3. CASE \E d \in Clients : Send(d)
    <2>1. PICK d \in Clients : Send(d)
      BY <1>3
    <2>2. read' = read /\ UNCHANGED <<conn, buff, out>>
      BY <2>1, OnceSend DEF Send, server
    <2>3. \A e \in Clients : sent'[e] = 0 => sent[e] = 0
      BY <1>t, <2>1, EpollAssumption DEF Send, EpollTypeOK
    <2>4. Alone(c)
      BY <2>3 DEF Alone
    <2> QED  BY <1>q, <2>2, <2>4
  <1>4. CASE do_write_error
    <2>1. /\ Handle(Fds, "EPOLLOUT") /\ UNCHANGED <<sent, inq, out>>
          /\ conn' = [conn EXCEPT ![Head(events).fd] = NONE]
          /\ \A k \in Cells : buff'[k] = NUL
      BY <1>4 DEF do_write_error, close, network, memset
    <2>2. Alone(c)
      BY <2>1 DEF Alone
    <2>3. Head(events).fd \in Fds /\ interest[Head(events).fd] = "EPOLLOUT"
      BY <2>1, ClientEvent
    <2>4. conn[Head(events).fd] = c /\ c # NONE
      BY <2>2, <2>3, WriterIsAlone, EpollAssumption
    <2>5. \A fd \in Fds : conn'[fd] # c
      BY <1>t, <2>1, <2>3, <2>4 DEF WatchedIffOpen, EpollTypeOK
    <2>6. OutInOrder(c)'
      <3>1. OutInOrder(c) /\ out' = out
        BY <2>1, <2>2 DEF OrderInv
      <3> QED  BY <3>1 DEF OutInOrder, CutOff
    <2> QED  BY <2>1, <2>5, <2>6 DEF BuffInOrder, NothingLost
  <1>5. CASE do_read_end
    <2>1. /\ Handle(Fds, "EPOLLIN") /\ UNCHANGED <<buff, sent, inq, out>>
          /\ conn' = [conn EXCEPT ![Head(events).fd] = NONE]
      BY <1>5 DEF do_read_end, close, network
    <2>2. Alone(c) /\ read' = read /\ c # NONE
      BY <2>1, EpollAssumption DEF Alone, read
    <2>3. \A fd \in Fds : conn'[fd] = c => conn[fd] = c
      BY <1>t, <2>1, <2>2 DEF EpollTypeOK
    <2> QED  BY <1>q, <2>1, <2>2, <2>3
  <1>6. CASE handle_accept
    <2>1. UNCHANGED <<buff, sent, inq, out>>
      BY <1>6 DEF handle_accept
    <2>2. Alone(c) /\ read' = read
      BY <2>1 DEF Alone, read
    <2>3. backlog # <<>> /\ backlog \in Seq(Clients)
      <3>1. Handle({listenfd}, "EPOLLIN") /\ BatchInv
        BY <1>6 DEF handle_accept, WatchInv
      <3>2. Head(events) = events[1] /\ 1 \in DOMAIN events /\ Head(events).fd = listenfd
        BY <1>t, <3>1, RestOfBatch
      <3> QED  BY <1>t, <3>1, <3>2 DEF BatchInv, EpollTypeOK
    <2>4. read[Head(backlog)] = 0
      <3>1. Head(backlog) = backlog[1] /\ 1 \in DOMAIN backlog
        BY <2>3
      <3> QED  BY <3>1 DEF BuffInv
    <2>5. \A fd \in Fds : conn'[fd] = conn[fd] \/ conn'[fd] = Head(backlog)
      BY <1>6, <1>t DEF handle_accept, EpollTypeOK
    <2> QED  BY <1>q, <2>1, <2>2, <2>4, <2>5
  <1>7. CASE epoll_wait \/ do_write_sigpipe \/ UNCHANGED vars
    <2>1. UNCHANGED <<conn, buff, sent, inq, out>>
      BY <1>7 DEF epoll_wait, do_write_sigpipe, network, vars
    <2>2. Alone(c) /\ read' = read
      BY <2>1 DEF Alone, read
    <2> QED  BY <1>q, <2>1, <2>2
  <1>8. CASE \E d \in Clients : Connect(d) \/ Receive(d) \/ LeaveStep(d)
    <2>1. UNCHANGED <<conn, buff, sent, inq, out>>
      BY <1>8 DEF Connect, Receive, LeaveStep, Leave, server
    <2>2. Alone(c) /\ read' = read
      BY <2>1 DEF Alone, read
    <2> QED  BY <1>q, <2>1, <2>2
  <1> QED
    BY <1>1, <1>2, <1>3, <1>4, <1>5, <1>6, <1>7, <1>8
    DEF Next, ServerStep, handle_events, ClientStep

LEMMA OrderInit == Init => OrderInv
  <1> SUFFICES ASSUME Init, NEW c \in Clients
               PROVE  OutInOrder(c) /\ BuffInOrder(c) /\ NothingLost(c)
    BY DEF OrderInv
  <1>1. DOMAIN out[c] = {} /\ (\A k \in Cells : buff[k] = NUL) /\ \A fd \in Fds : conn[fd] # c
    BY EpollAssumption DEF Init, memset
  <1> QED  BY <1>1 DEF OutInOrder, BuffInOrder, NothingLost

-----------------------------------------------------------------------------
\* No handler of a batch makes an event that follows it in the batch stale.
THEOREM EventsStayFresh == Spec => []NoStaleEvent
  <1>1. WatchInv => NoStaleEvent
    BY DEF WatchInv
  <1> QED  BY <1>1, WatchInit, WatchNext, PTL DEF Spec

\* For any number of clients and any buffer: whatever replies, errors, ends and
\* resets come in between, the sender of every byte in the shared buffer is still
\* connected and waits to be written to.
THEOREM BufferIsOwed == Spec => []NoLeftovers
  <1>1. WatchInv /\ BuffInv => NoLeftovers
    BY DEF WatchInv, WatchedIffOpen, BuffInv, NoLeftovers
  <1> QED
    BY <1>1, WatchInit, WatchNext, OnceInit, OnceNext, BuffInit, BuffNext, PTL DEF Spec

\* For every buffer size and however reads, writes and resets interleave, no
\* byte is echoed twice, and a client that is the only one to send gets its
\* bytes back in order, without gaps but for a 0 and what a 0 cuts off.
THEOREM EchoKeepsOrder == Spec => []EchoedInOrder
  <1>1. OnceInv /\ OrderInv => EchoedInOrder
    BY DEF OnceInv, OrderInv, OutInOrder, Alone, EchoedInOrder
  <1> QED
    BY <1>1, WatchInit, WatchNext, OnceInit, OnceNext, BuffInit, BuffNext, OrderInit, OrderNext, PTL
    DEF Spec
=============================================================================
