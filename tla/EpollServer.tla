---------------------------- MODULE EpollServer ----------------------------
(***************************************************************************)
(* The epoll echo server (project/test/epoll/server/main.cpp): one thread  *)
(* that waits for a batch of events and handles it one event at a time; a  *)
(* client's descriptor is watched for reading until something was read and *)
(* then for writing until the reply was written.  All clients share one    *)
(* buffer, which outlives the batch.                                       *)
(*                                                                         *)
(* Descriptors are reused: accept() may return any that is not open.       *)
(***************************************************************************)
EXTENDS Integers, Sequences, FiniteSets

CONSTANTS
  Fds,           \* descriptors accept() may return
  listenfd,      \* the listening descriptor
  Clients,       \* each connects once
  NONE,          \* the client of a closed descriptor
  NUL,           \* the 0 that memset() stores
  JUNK,          \* a byte found past the end of buff
  Zeros,         \* the bytes <<c, n>> that are sent with the value 0
  MAX_BUFFER_SIZE,  \* size of buff (1024)
  EPOLLEVENTS,      \* events per epoll_wait (100)
  MaxBytes,      \* bound: bytes sent by one client
  MaxInFlight    \* bound: unread bytes of one client

ASSUME EpollAssumption ==
  /\ IsFiniteSet(Fds) /\ listenfd \notin Fds /\ NONE \notin Clients
  /\ MAX_BUFFER_SIZE \in Nat \ {0} /\ EPOLLEVENTS \in Nat \ {0}
  /\ MaxBytes \in Nat /\ MaxInFlight \in Nat
  /\ {NUL, JUNK} \cap (Clients \X Nat) = {} /\ NUL # JUNK
  /\ Zeros \subseteq Clients \X Nat

VARIABLES
  \* the server
  conn,      \* the client of each descriptor
  interest,  \* what epoll watches each descriptor for
  events,    \* the rest of the batch being handled
  buff,      \* the shared buffer
  alive,     \* FALSE once a signal has killed the process
  \* clients and network
  backlog,   \* clients waiting to be accepted
  peer,      \* "new", "up", or how the client left
  sent,      \* bytes sent by each client
  inq,       \* bytes of each client the server has not read
  out,       \* bytes written to each client
  full       \* TRUE while a client does not read and there is no room for more

vars == <<conn, interest, events, buff, alive, backlog, peer, sent, inq, out, full>>
network == <<backlog, peer, sent, inq, out, full>>

Bytes == Clients \X (1 .. MaxBytes)
Cells == 1 .. MAX_BUFFER_SIZE

memset == [i \in Cells |-> NUL]

-----------------------------------------------------------------------------
(* epoll                                                                   *)

add_event(fd, state)    == interest' = [interest EXCEPT ![fd] = state]
modify_event(fd, state) == interest' = [interest EXCEPT ![fd] = state]

\* close(fd) also removes fd from the epoll set, so that the EPOLL_CTL_DEL that
\* follows it fails without effect.
close(fd) ==
  /\ conn' = [conn EXCEPT ![fd] = NONE]
  /\ interest' = [interest EXCEPT ![fd] = "none"]

\* A lost connection is reported as readable or writable, as asked for.
Readable(fd) ==
  interest[fd] = "EPOLLIN" /\ (inq[conn[fd]] # <<>> \/ peer[conn[fd]] # "up")

\* write() would not block: there is room, or the connection was reset.
Writable(c) == ~full[c] \/ peer[c] \in {"rst", "finrst"}

ReadyEvents ==
  (IF backlog # <<>> THEN {[fd |-> listenfd, ev |-> "EPOLLIN"]} ELSE {})
    \cup {[fd |-> fd, ev |-> "EPOLLIN"] : fd \in {f \in Fds : Readable(f)}}
    \cup {[fd |-> fd, ev |-> "EPOLLOUT"] :
             fd \in {f \in Fds : interest[f] = "EPOLLOUT" /\ Writable(conn[f])}}

Orders(S) == {s \in [1 .. Cardinality(S) -> S] : \A i, j \in DOMAIN s : s[i] = s[j] => i = j}

\* All that is ready, in any order, as far as the array has room.
epoll_wait ==
  /\ alive /\ events = <<>>
  /\ \E s \in Orders(ReadyEvents) :
       events' = SubSeq(s, 1, IF Len(s) < EPOLLEVENTS THEN Len(s) ELSE EPOLLEVENTS)
  /\ events' # <<>>
  /\ UNCHANGED <<conn, interest, buff, alive, network>>

-----------------------------------------------------------------------------
(* Event handlers                                                          *)

\* Mutant: the loop does not advance past the event of a client.
HandleAgain(S, ev) ==
  /\ alive /\ events # <<>>
  /\ Head(events).fd \in S /\ Head(events).ev = ev
  /\ events' = IF Head(events).fd = listenfd THEN Tail(events) ELSE events

\* The next event of the batch is of type ev, on a descriptor in S.
Handle(S, ev) ==
  /\ alive /\ events # <<>>
  /\ Head(events).fd \in S /\ Head(events).ev = ev
  /\ events' = Tail(events)

\* accept() may fail for want of descriptors, and because cliaddrlen is not
\* initialized: then the connection is lost.
handle_accept ==
  /\ Handle({listenfd}, "EPOLLIN")
  /\ \/ \E fd \in Fds :
          /\ conn[fd] = NONE
          /\ conn' = [conn EXCEPT ![fd] = Head(backlog)]
          /\ add_event(fd, "EPOLLIN")
          /\ backlog' = Tail(backlog)
          /\ UNCHANGED peer
     \/ /\ backlog' = Tail(backlog)
        /\ peer' = [peer EXCEPT ![Head(backlog)] = "gone"]
        /\ UNCHANGED <<conn, interest>>
     \/ /\ \A fd \in Fds : conn[fd] # NONE
        /\ UNCHANGED <<conn, interest, backlog, peer>>
  /\ UNCHANGED <<buff, alive, sent, inq, out, full>>

\* read() overwrites the front of buff and leaves the rest as it is.
ReadInto(b, s) == [i \in Cells |-> IF i <= Len(s) THEN s[i] ELSE b[i]]

do_read_data ==
  /\ Handle(Fds, "EPOLLIN")
  /\ LET fd == Head(events).fd
         c  == conn[fd]
         n  == IF Len(inq[c]) < MAX_BUFFER_SIZE THEN Len(inq[c]) ELSE MAX_BUFFER_SIZE
     IN  /\ inq[c] # <<>>
         /\ buff' = ReadInto(buff, SubSeq(inq[c], 1, n))
         /\ inq' = [inq EXCEPT ![c] = SubSeq(@, n + 1, Len(@))]
         /\ modify_event(fd, "EPOLLOUT")
  /\ UNCHANGED <<conn, alive, backlog, peer, sent, out, full>>

\* the client has closed (0) or reset (-1) the connection: handled alike
do_read_end ==
  /\ Handle(Fds, "EPOLLIN")
  /\ inq[conn[Head(events).fd]] = <<>>
  /\ close(Head(events).fd)
  /\ UNCHANGED <<buff, alive, network>>

Zero(b) == b = NUL \/ b \in Zeros

\* The strlen(buff) bytes from buff: those before the first 0, which memset() or
\* a client put there; without one, strlen is undefined and may run past the end.
Strings(b) ==
  IF \A i \in Cells : ~Zero(b[i]) THEN {b, Append(b, JUNK)}
  ELSE {SubSeq(b, 1, n - 1) : n \in {k \in Cells : Zero(b[k]) /\ \A i \in 1 .. k - 1 : ~Zero(b[i])}}

\* Mutant: the descriptor is not watched for reading again.
do_write_okNotRearmed ==
  /\ Handle(Fds, "EPOLLOUT")
  /\ peer[conn[Head(events).fd]] \in {"up", "fin"}
  /\ \E s \in Strings(buff) : out' = [out EXCEPT ![conn[Head(events).fd]] = @ \o s]
  /\ buff' = memset
  /\ UNCHANGED <<conn, interest, alive, backlog, peer, sent, inq, full>>

\* Mutant: buff is not cleared after the reply.
do_write_okNotCleared ==
  /\ Handle(Fds, "EPOLLOUT")
  /\ peer[conn[Head(events).fd]] \in {"up", "fin"}
  /\ \E s \in Strings(buff) : out' = [out EXCEPT ![conn[Head(events).fd]] = @ \o s]
  /\ modify_event(Head(events).fd, "EPOLLIN")
  /\ UNCHANGED <<conn, buff, alive, backlog, peer, sent, inq, full>>

do_write_ok ==
  /\ Handle(Fds, "EPOLLOUT")
  /\ LET fd == Head(events).fd
         c  == conn[fd]
     IN  /\ peer[c] \in {"up", "fin"}
         /\ modify_event(fd, "EPOLLIN")
         /\ \E s \in Strings(buff) :
              /\ out' = [out EXCEPT ![c] = @ \o s]
              \* a client that has closed answers data with a reset, in its own time
              /\ \/ peer' = peer
                 \/ /\ peer[c] = "fin" /\ s # <<>>
                    /\ peer' = [peer EXCEPT ![c] = "finrst"]
              \* data may take the last room a client that does not read has left
              /\ \/ full' = full
                 \/ s # <<>> /\ full' = [full EXCEPT ![c] = TRUE]
  /\ buff' = memset
  /\ UNCHANGED <<conn, alive, backlog, sent, inq>>

\* Mutant: buff is cleared only after a reply was written.
do_write_errorNotCleared ==
  /\ Handle(Fds, "EPOLLOUT")
  /\ peer[conn[Head(events).fd]] = "rst"
  /\ close(Head(events).fd)
  /\ UNCHANGED <<buff, alive, network>>

do_write_error ==
  /\ Handle(Fds, "EPOLLOUT")
  /\ peer[conn[Head(events).fd]] = "rst"
  /\ close(Head(events).fd)
  /\ buff' = memset
  /\ UNCHANGED <<alive, network>>

\* write() on a connection reset after its end raises SIGPIPE, which nothing
\* handles.
do_write_sigpipe ==
  /\ Handle(Fds, "EPOLLOUT")
  /\ peer[conn[Head(events).fd]] = "finrst"
  /\ alive' = FALSE
  /\ UNCHANGED <<conn, interest, buff, network>>

handle_events ==
  \/ handle_accept \/ do_read_data \/ do_read_end
  \/ do_write_ok \/ do_write_error \/ do_write_sigpipe

ServerStep == epoll_wait \/ handle_events

-----------------------------------------------------------------------------
(* Clients                                                                 *)

server == <<conn, interest, events, buff, alive>>

Connect(c) ==
  /\ peer[c] = "new"
  /\ peer' = [peer EXCEPT ![c] = "up"]
  /\ backlog' = Append(backlog, c)
  /\ UNCHANGED <<server, sent, inq, out, full>>

Send(c) ==
  /\ peer[c] = "up"
  /\ sent[c] < MaxBytes /\ Len(inq[c]) < MaxInFlight
  /\ sent' = [sent EXCEPT ![c] = @ + 1]
  /\ inq' = [inq EXCEPT ![c] = Append(@, <<c, sent[c] + 1>>)]
  /\ UNCHANGED <<server, backlog, peer, out, full>>

\* The client reads what it was sent, which makes room.
Receive(c) ==
  /\ full[c] /\ peer[c] \in {"up", "fin"}
  /\ full' = [full EXCEPT ![c] = FALSE]
  /\ UNCHANGED <<server, backlog, peer, sent, inq, out>>

Leave(c, how) ==
  /\ peer' = [peer EXCEPT ![c] = how]
  /\ UNCHANGED <<server, backlog, sent, inq, out, full>>

\* A client ends its side, resets the connection, or ends its side and goes
\* away later without having read all, which also resets the connection.
LeaveStep(c) ==
  \/ peer[c] = "up" /\ (Leave(c, "fin") \/ Leave(c, "rst"))
  \/ peer[c] = "fin" /\ full[c] /\ Leave(c, "finrst")

ClientStep == \E c \in Clients : Connect(c) \/ Send(c) \/ Receive(c) \/ LeaveStep(c)

-----------------------------------------------------------------------------
Init ==
  /\ conn = [fd \in Fds |-> NONE]
  /\ interest = [fd \in Fds |-> "none"]
  /\ events = <<>>
  /\ buff = memset
  /\ alive = TRUE
  /\ backlog = <<>>
  /\ peer = [c \in Clients |-> "new"]
  /\ sent = [c \in Clients |-> 0]
  /\ inq = [c \in Clients |-> <<>>]
  /\ out = [c \in Clients |-> <<>>]
  /\ full = [c \in Clients |-> FALSE]

Next == ServerStep \/ ClientStep

\* The server's loop keeps running; clients owe nothing, not even to read.
Spec == Init /\ [][Next]_vars /\ WF_vars(ServerStep)

-----------------------------------------------------------------------------
(* Properties                                                              *)

Events == [fd : Fds \cup {listenfd}, ev : {"EPOLLIN", "EPOLLOUT"}]

\* The type of every variable.
EpollTypeOK ==
  /\ conn \in [Fds -> Clients \cup {NONE}]
  /\ interest \in [Fds -> {"none", "EPOLLIN", "EPOLLOUT"}]
  /\ events \in Seq(Events)
  /\ buff \in [Cells -> Bytes \cup {NUL}]
  /\ alive \in BOOLEAN
  /\ backlog \in Seq(Clients)
  /\ peer \in [Clients -> {"new", "up", "fin", "rst", "finrst", "gone"}]
  /\ sent \in [Clients -> 0 .. MaxBytes]
  /\ inq \in [Clients -> Seq(Bytes)] /\ out \in [Clients -> Seq(Bytes \cup {JUNK})]
  /\ full \in [Clients -> BOOLEAN]

\* Every event still to be handled is on a descriptor that is open and is
\* watched for exactly that event: no handler earlier in the batch has closed,
\* reused or re-armed it.
NoStaleEvent ==
  \A i \in DOMAIN events : events[i].fd # listenfd =>
    /\ conn[events[i].fd] # NONE
    /\ interest[events[i].fd] = events[i].ev

\* The shared buffer keeps nothing of a client that is gone or has its reply:
\* whoever sent a byte in it is still connected and waits to be written to.
NoLeftovers ==
  /\ EpollTypeOK
  /\ \A k \in Cells : buff[k] # NUL =>
       \E fd \in Fds : conn[fd] = buff[k][1] /\ interest[fd] = "EPOLLOUT"

\* What was written to the clients and what is still in the buffer are all
\* different bytes.
EchoedAtMostOnce ==
  /\ \A c, d \in Clients : \A i \in DOMAIN out[c], j \in DOMAIN out[d] :
       out[c][i] = out[d][j] /\ out[c][i] # JUNK => c = d /\ i = j
  /\ \A c \in Clients : \A i \in DOMAIN out[c], k \in Cells : out[c][i] # buff[k]
  /\ \A k, l \in Cells : buff[k] = buff[l] /\ buff[k] # NUL => k = l

\* Byte n of c may have been read together with a 0 that c sent no later.
CutOff(c, n) == \E z \in 1 .. n : <<c, z>> \in Zeros /\ n - z < MAX_BUFFER_SIZE

\* No byte a client sent is echoed twice, to whichever client; and while no other
\* client has ever sent anything, a client gets back what it sent in order,
\* whatever junk follows a full buffer: every byte it gets is its own, none comes
\* before one sent earlier, and none is missing in between but for a 0 and what
\* may have been in one buffer with it.
EchoedInOrder ==
  /\ EchoedAtMostOnce
  /\ \A c \in Clients :
       (\A d \in Clients \ {c} : sent[d] = 0) =>
         \A i \in DOMAIN out[c] : out[c][i] # JUNK =>
           /\ out[c][i][1] = c
           /\ \A j \in 1 .. i - 1 : out[c][j] # JUNK => out[c][j][2] < out[c][i][2]
           /\ \A n \in 1 .. out[c][i][2] - 1 :
                CutOff(c, n) \/ \E j \in 1 .. i - 1 : out[c][j] = <<c, n>>

\* As long as the server lives, it reads what an accepted client sent, or drops
\* the client, provided that this client reads its replies or goes away with a
\* reset; no other client, not even one that never reads, can keep it from doing so.
InputConsumed ==
  LET Accepted(c) == \E fd \in Fds : conn[fd] = c
  IN  \A c \in Clients :
        []<>Writable(c) =>
          ((Accepted(c) /\ inq[c] # <<>>) ~> (inq[c] = <<>> \/ ~Accepted(c) \/ ~alive))
=============================================================================
