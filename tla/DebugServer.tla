---------------------------- MODULE DebugServer ----------------------------
(***************************************************************************)
(* The connection half of the Lua remote debug server                      *)
(* (project/test/lua/debugserver/debugserver.{h,cpp}).                     *)
(*                                                                         *)
(* Three threads share one DebugServer object: the thread of the Lua VM    *)
(* ("main"), which calls the exported methods; the accept thread ("acc",   *)
(* m_Thread), started by InitServer; and the receive thread ("rcv",        *)
(* m_ThreadRecv), started by the first InitServer and never stopped.  They *)
(* share m_nSocketClient, m_nSocketLisent, m_dbgstate and m_nPing without  *)
(* a common lock (m_mtx covers only the assignment in SetRunState), so     *)
(* every access to one of them that another thread can separate from the   *)
(* next is a step of its own.  A member that is tested and then used with  *)
(* nothing but the test in between may be read once or twice by the        *)
(* compiled code: both outcomes are allowed (see "seen").                  *)
(*                                                                         *)
(* Sockets are handles of an OS table; a closed handle may be returned     *)
(* again by the next socket() or accept().                                 *)
(***************************************************************************)
EXTENDS Integers, Sequences

CONSTANTS
  Handles,         \* socket handles the OS may return
  INVALID_SOCKET,  \* the invalid handle
  MainOps,         \* the methods the Lua script calls
  ClientOps,       \* what remote clients do once connected
  Ports,           \* the ports the script passes to StartServer
  MaxConns,        \* bound: connections made in a behaviour
  MaxItems,        \* bound: commands sent by one client
  MaxInFlight,     \* bound: unread items in one socket's receive buffer
  QueueCap,        \* capacity of m_qRecv (100 in the code)
  PingInit,        \* m_nPing of a new connection (30)
  PongReset,       \* m_nPing after a pong (10)
  PingEvery        \* receive rounds per ping (10)

ASSUME HandlesAssumption == INVALID_SOCKET \notin Handles

ASSUME BoundsAssumption ==
  /\ MaxConns \in Nat /\ MaxItems \in Nat /\ MaxInFlight \in Nat
  /\ QueueCap \in Nat /\ PingInit \in Nat /\ PongReset \in Nat
  /\ PingEvery \in Nat \ {0}

VARIABLES
  \* members of DebugServer
  m_dbgstate, m_nSocketLisent, m_nSocketClient, m_nPort, m_nPing, m_qRecv,
  m_Thread, m_ThreadRecv,  \* joinable()?
  \* control state and locals of the threads
  pc,     \* where each thread is
  ret,    \* where Dettach (main, rcv) and UnInit (main) return to
  seen,   \* m_nSocketClient as loaded by the last test of it
  lsn,    \* the handle the accept thread is accepting on
  conn,   \* the accept thread's new connection
  call,   \* the receive thread's recv(): its connection, blocking or not
  msg,    \* what recv() returned
  ping,   \* m_nPing as loaded by "m_nPing--"
  nstep,  \* the receive thread's round counter, modulo PingEvery
  \* the OS and the remote clients
  kind,     \* what each handle denotes
  id,       \* the connection a handle denotes
  nb,       \* FIONBIO set?
  backlog,  \* connections waiting in the listening socket
  nconn,    \* connections made so far
  inq,      \* unread items of each connection
  sent,     \* commands sent so far on each connection
  peer,     \* "up", or how the client ended the connection
  got       \* history: the commands of each connection given to the script

server  == <<m_nSocketLisent, m_nPort, m_Thread, m_ThreadRecv>>
members == <<server, m_dbgstate, m_nSocketClient, m_nPing, m_qRecv>>
accvars == <<lsn, conn>>
rcvvars == <<call, msg, ping, nstep>>
locals  == <<ret, seen, accvars, rcvvars>>
sockets == <<kind, id, nb, backlog>>
clients == <<nconn, sent, peer>>
os      == <<sockets, clients, inq>>
vars    == <<members, pc, locals, os, got>>

Conns   == 1 .. MaxConns
Pong    == 0                           \* the item "pong"; commands are 1, 2, ...
Threads   == {"main", "acc", "rcv"}
Detachers == {"main", "rcv"}           \* the threads that call Dettach
Commands(items) == {items[i] : i \in DOMAIN items} \ {Pong}
Sockets == Handles \cup {INVALID_SOCKET}

DBG_RUN_STATE == {"DBG_NONE", "DBG_DETACH", "DBG_ATTACH"}

MainPC == {"idle", "init", "socket", "bind", "spawn", "join", "u_client",
           "u_inv", "u_listen", "u_state", "stoprecv", "dead",
           "d_chk", "d_close", "d_inv", "d_state"}
AccPC  == {"none", "start", "loop", "accept", "test", "store", "ping",
           "attach", "fionbio", "reject", "done"}
RcvPC  == {"none", "check", "sock", "recv", "inrecv", "dispatch", "tick",
           "dec", "dec2", "d_chk", "d_close", "d_inv", "d_state"}

MainRet == {"idle", "stoprecv"}   \* where the script's calls return to
RcvRet  == {"check", "tick"}      \* where the receive thread calls Dettach

-----------------------------------------------------------------------------
(* Sockets                                                                 *)

Open(c) == \E h \in Handles : kind[h] = "conn" /\ id[h] = c

Listening(h) == h \in Handles /\ kind[h] = "listen"

\* closesocket(h): frees the handle and drops what the kernel holds for it;
\* an error without effect on a handle that is not open.
closesocket(h) ==
  IF h \in Handles /\ kind[h] # "free"
  THEN /\ kind' = [kind EXCEPT ![h] = "free"]
       /\ inq' = IF kind[h] = "conn" THEN [inq EXCEPT ![id[h]] = <<>>] ELSE inq
       /\ backlog' = IF kind[h] = "listen" THEN 0 ELSE backlog
  ELSE UNCHANGED <<kind, inq, backlog>>

Go(t, label) == pc' = [pc EXCEPT ![t] = label]

SetRunState(st) == m_dbgstate' = st

-----------------------------------------------------------------------------
(* DebugServer::Dettach, on behalf of main or of the receive thread        *)

DettachCheck(t) ==
  /\ pc[t] = "d_chk"
  /\ IF m_nSocketClient = INVALID_SOCKET
     THEN Go(t, ret[t]) /\ UNCHANGED seen
     ELSE Go(t, "d_close") /\ seen' = [seen EXCEPT ![t] = m_nSocketClient]
  /\ UNCHANGED <<members, ret, accvars, rcvvars, os, got>>

DettachClose(t) ==
  /\ pc[t] = "d_close"
  /\ \E h \in {seen[t], m_nSocketClient} : closesocket(h)
  /\ Go(t, "d_inv")
  /\ UNCHANGED <<members, locals, id, nb, clients, got>>

DettachInvalidate(t) ==
  /\ pc[t] = "d_inv"
  /\ m_nSocketClient' = INVALID_SOCKET
  /\ Go(t, "d_state")
  /\ UNCHANGED <<m_dbgstate, server, m_nPing, m_qRecv, locals, os, got>>

DettachState(t) ==
  /\ pc[t] = "d_state"
  /\ SetRunState("DBG_DETACH")
  /\ Go(t, ret[t])
  /\ UNCHANGED <<server, m_nSocketClient, m_nPing, m_qRecv, locals, os, got>>

DettachStep(t) ==
  DettachCheck(t) \/ DettachClose(t) \/ DettachInvalidate(t) \/ DettachState(t)

-----------------------------------------------------------------------------
(* Methods called by the script                                            *)

\* StartServer takes a short: a port above 32767 arrives as a negative number.
ToShort(port) == IF port >= 32768 THEN port - 65536 ELSE port

PortAccepted(port) ==
  /\ port > 1024 /\ port < 65534
  /\ ToShort(port) > 1024 /\ ToShort(port) < 65534

\* The port is the same in every call, so two listening sockets collide.
PortRange == 0 .. 65535

ASSUME PortsAssumption ==
  /\ Ports \subseteq PortRange
  /\ \A p, q \in Ports : PortAccepted(p) /\ PortAccepted(q) => p = q

\* StartServer up to the call of InitServer, and the StartRecv it begins with.
StartServer(port) ==
  /\ "StartServer" \in MainOps
  /\ pc["main"] = "idle"
  /\ PortAccepted(port)
  /\ m_nPort' = ToShort(port)
  /\ IF m_nSocketClient # INVALID_SOCKET
     THEN UNCHANGED <<pc, m_ThreadRecv>>
     ELSE /\ m_ThreadRecv' = TRUE
          /\ pc' = [pc EXCEPT !["main"] = "init",
                              !["rcv"] = IF m_ThreadRecv THEN @ ELSE "check"]
  /\ UNCHANGED <<m_dbgstate, m_nSocketLisent, m_nSocketClient, m_nPing,
                 m_qRecv, m_Thread, locals, os, got>>

InitCheck ==
  /\ pc["main"] = "init"
  /\ Go("main", IF m_dbgstate = "DBG_NONE" THEN "socket" ELSE "idle")
  /\ UNCHANGED <<members, locals, os, got>>

\* m_nSocketLisent = socket(...), which may fail; the old value is lost.
InitSocket ==
  /\ pc["main"] = "socket"
  /\ \/ \E h \in Handles :
          /\ kind[h] = "free"
          /\ kind' = [kind EXCEPT ![h] = "sock"]
          /\ m_nSocketLisent' = h
          /\ Go("main", "bind")
     \/ /\ m_nSocketLisent' = INVALID_SOCKET
        /\ Go("main", "idle")
        /\ UNCHANGED kind
  /\ UNCHANGED <<m_dbgstate, m_nSocketClient, m_nPort, m_nPing, m_qRecv,
                 m_Thread, m_ThreadRecv, locals, id, nb, backlog, clients,
                 inq, got>>

\* bind and listen: they fail when another open socket listens on the port,
\* and may fail for reasons outside the program.
InitBind ==
  /\ pc["main"] = "bind"
  /\ \/ /\ \A h \in Handles : ~Listening(h)
        /\ kind' = [kind EXCEPT ![m_nSocketLisent] = "listen"]
        /\ Go("main", "spawn")
     \/ /\ Go("main", "idle")
        /\ UNCHANGED kind
  /\ UNCHANGED <<members, locals, id, nb, backlog, clients, inq, got>>

AcceptThread ==
  /\ pc["main"] = "spawn"
  /\ IF m_dbgstate # "DBG_NONE" \/ m_Thread
     THEN /\ Go("main", "idle")
          /\ UNCHANGED <<m_nSocketClient, m_Thread, kind, inq, backlog>>
     ELSE /\ closesocket(m_nSocketClient)
          /\ m_nSocketClient' = INVALID_SOCKET
          /\ m_Thread' = TRUE
          /\ pc' = [pc EXCEPT !["main"] = "idle", !["acc"] = "start"]
  /\ UNCHANGED <<m_dbgstate, m_nSocketLisent, m_nPort, m_nPing, m_qRecv,
                 m_ThreadRecv, locals, id, nb, clients, got>>

\* Mutant: the accept thread is not joined.
UnInitNoJoin(op, next) ==
  /\ op \in MainOps
  /\ pc["main"] = "idle"
  /\ Go("main", "u_client")
  /\ ret' = [ret EXCEPT !["main"] = next]
  /\ UNCHANGED <<members, seen, accvars, rcvvars, os, got>>

\* StoprServer and ~DebugServer both begin with UnInit, which begins with
\* StopThread: join the accept thread if it is joinable.
UnInit(op, next) ==
  /\ op \in MainOps
  /\ pc["main"] = "idle"
  /\ Go("main", IF m_Thread THEN "join" ELSE "u_client")
  /\ ret' = [ret EXCEPT !["main"] = next]
  /\ UNCHANGED <<members, seen, accvars, rcvvars, os, got>>

StoprServer == UnInit("StoprServer", "idle")
Delete      == UnInit("Delete", "stoprecv")

StopThread ==
  /\ pc["main"] = "join"
  /\ pc["acc"] = "done"
  /\ m_Thread' = FALSE
  /\ pc' = [pc EXCEPT !["main"] = "u_client", !["acc"] = "none"]
  /\ UNCHANGED <<m_dbgstate, m_nSocketLisent, m_nSocketClient, m_nPort,
                 m_nPing, m_qRecv, m_ThreadRecv, locals, os, got>>

UnInitClient ==
  /\ pc["main"] = "u_client"
  /\ closesocket(m_nSocketClient)
  /\ Go("main", IF m_nSocketClient = INVALID_SOCKET THEN "u_listen" ELSE "u_inv")
  /\ UNCHANGED <<members, locals, id, nb, clients, got>>

UnInitInvalidate ==
  /\ pc["main"] = "u_inv"
  /\ m_nSocketClient' = INVALID_SOCKET
  /\ Go("main", "u_listen")
  /\ UNCHANGED <<m_dbgstate, server, m_nPing, m_qRecv, locals, os, got>>

UnInitListen ==
  /\ pc["main"] = "u_listen"
  /\ closesocket(m_nSocketLisent)
  /\ m_nSocketLisent' = INVALID_SOCKET
  /\ Go("main", "u_state")
  /\ UNCHANGED <<m_dbgstate, m_nSocketClient, m_nPort, m_nPing, m_qRecv,
                 m_Thread, m_ThreadRecv, locals, id, nb, clients, got>>

UnInitState ==
  /\ pc["main"] = "u_state"
  /\ SetRunState("DBG_NONE")
  /\ Go("main", ret["main"])
  /\ UNCHANGED <<server, m_nSocketClient, m_nPing, m_qRecv, locals, os, got>>

\* ~DebugServer goes on with StopRecv: the receive thread's loop has no exit,
\* so the join returns only if that thread was never started.
StopRecv ==
  /\ pc["main"] = "stoprecv"
  /\ ~m_ThreadRecv
  /\ Go("main", "dead")
  /\ UNCHANGED <<members, locals, os, got>>

\* Recv(msg): pops the oldest message under m_mtxRecv.
Recv ==
  /\ "Recv" \in MainOps
  /\ pc["main"] = "idle"
  /\ m_qRecv # <<>>
  /\ m_qRecv' = Tail(m_qRecv)
  /\ LET m == Head(m_qRecv)
     IN  got' = [got EXCEPT ![m.c] = @ \cup Commands(m.items)]
  /\ UNCHANGED <<m_dbgstate, server, m_nSocketClient, m_nPing, pc, locals,
                 os>>

Dettach ==
  /\ "Dettach" \in MainOps
  /\ pc["main"] = "idle"
  /\ Go("main", "d_chk")
  /\ ret' = [ret EXCEPT !["main"] = "idle"]
  /\ UNCHANGED <<members, seen, accvars, rcvvars, os, got>>

ScriptCall ==
  \/ \E port \in Ports : StartServer(port)
  \/ StoprServer \/ Delete \/ Recv \/ Dettach

MainStep ==
  \/ InitCheck \/ InitSocket \/ InitBind \/ AcceptThread \/ StopThread
  \/ UnInitClient \/ UnInitInvalidate \/ UnInitListen \/ UnInitState \/ StopRecv
  \/ DettachStep("main")

-----------------------------------------------------------------------------
(* The accept thread                                                       *)

AccStart ==
  /\ pc["acc"] = "start"
  /\ SetRunState("DBG_DETACH")
  /\ Go("acc", "loop")
  /\ UNCHANGED <<server, m_nSocketClient, m_nPing, m_qRecv, locals, os, got>>

AccLoop ==
  /\ pc["acc"] = "loop"
  /\ Go("acc", IF m_nSocketLisent = INVALID_SOCKET THEN "done" ELSE "accept")
  /\ lsn' = m_nSocketLisent
  /\ UNCHANGED <<members, ret, seen, conn, rcvvars, os, got>>

\* accept() blocks on a listening socket until a connection arrives; it fails
\* on anything else, and when no handle is left for the connection.
AccAccept ==
  /\ pc["acc"] = "accept"
  /\ \/ /\ Listening(lsn) /\ backlog > 0
        /\ \E h \in Handles :
             /\ kind[h] = "free"
             /\ kind' = [kind EXCEPT ![h] = "conn"]
             /\ id' = [id EXCEPT ![h] = nconn - backlog + 1]
             /\ nb' = [nb EXCEPT ![h] = FALSE]
             /\ conn' = h
        /\ backlog' = backlog - 1
        /\ Go("acc", "test")
     \/ /\ Listening(lsn) => backlog > 0 /\ \A h \in Handles : kind[h] # "free"
        /\ Go("acc", "loop")
        /\ UNCHANGED <<sockets, conn>>
  /\ UNCHANGED <<members, ret, seen, lsn, rcvvars, clients, inq, got>>

\* Mutant: a second client is not refused.
AccTestMissing ==
  /\ pc["acc"] = "test"
  /\ Go("acc", "store")
  /\ UNCHANGED <<members, locals, os, got>>

AccTest ==
  /\ pc["acc"] = "test"
  /\ Go("acc", IF m_nSocketClient = INVALID_SOCKET THEN "store" ELSE "reject")
  /\ UNCHANGED <<members, locals, os, got>>

AccStore ==
  /\ pc["acc"] = "store"
  /\ m_nSocketClient' = conn
  /\ Go("acc", "ping")
  /\ UNCHANGED <<m_dbgstate, server, m_nPing, m_qRecv, locals, os, got>>

AccPing ==
  /\ pc["acc"] = "ping"
  /\ m_nPing' = PingInit
  /\ Go("acc", "attach")
  /\ UNCHANGED <<m_dbgstate, server, m_nSocketClient, m_qRecv, locals, os,
                 got>>

AccAttach ==
  /\ pc["acc"] = "attach"
  /\ SetRunState("DBG_ATTACH")
  /\ Go("acc", "fionbio")
  /\ UNCHANGED <<server, m_nSocketClient, m_nPing, m_qRecv, locals, os, got>>

AccFionbio ==
  /\ pc["acc"] = "fionbio"
  /\ nb' = IF m_nSocketClient \in Handles
           THEN [nb EXCEPT ![m_nSocketClient] = TRUE] ELSE nb
  /\ Go("acc", "loop")
  /\ UNCHANGED <<members, locals, kind, id, backlog, clients, inq, got>>

\* a second client is told so and disconnected
AccReject ==
  /\ pc["acc"] = "reject"
  /\ closesocket(conn)
  /\ Go("acc", "loop")
  /\ UNCHANGED <<members, locals, id, nb, clients, got>>

AccStep ==
  \/ AccStart \/ AccLoop \/ AccAccept \/ AccTest \/ AccStore \/ AccPing
  \/ AccAttach \/ AccFionbio \/ AccReject

-----------------------------------------------------------------------------
(* The receive thread                                                      *)

RcvCheck ==
  /\ pc["rcv"] = "check"
  /\ m_dbgstate = "DBG_ATTACH"
  /\ Go("rcv", "sock")
  /\ UNCHANGED <<members, locals, os, got>>

\* _Recv up to its recv() call
RcvSocket ==
  /\ pc["rcv"] = "sock"
  /\ Go("rcv", IF m_nSocketClient = INVALID_SOCKET THEN "tick" ELSE "recv")
  /\ seen' = [seen EXCEPT !["rcv"] = m_nSocketClient]
  /\ UNCHANGED <<members, ret, accvars, rcvvars, os, got>>

RcvCall ==
  /\ pc["rcv"] = "recv"
  /\ \E h \in {seen["rcv"], m_nSocketClient} :
       call' = IF h \in Handles /\ kind[h] = "conn"
               THEN [c |-> id[h], blk |-> ~nb[h]]
               ELSE [c |-> 0, blk |-> FALSE]
  /\ Go("rcv", "inrecv")
  /\ UNCHANGED <<members, ret, seen, accvars, msg, ping, nstep, os, got>>

\* recv() returns any part of the stream that has arrived, so several items
\* may come as one message.
RcvData ==
  /\ pc["rcv"] = "inrecv"
  /\ call.c \in Conns /\ Open(call.c)
  /\ \E n \in 1 .. Len(inq[call.c]) :
       /\ msg' = SubSeq(inq[call.c], 1, n)
       /\ inq' = [inq EXCEPT ![call.c] = SubSeq(@, n + 1, Len(@))]
  /\ Go("rcv", "dispatch")
  /\ UNCHANGED <<members, ret, seen, accvars, call, ping, nstep, sockets,
                 clients, got>>

\* recv() returns 0: the client closed the connection.
RcvEof ==
  /\ pc["rcv"] = "inrecv"
  /\ call.c \in Conns /\ Open(call.c)
  /\ inq[call.c] = <<>> /\ peer[call.c] = "fin"
  /\ Go("rcv", "d_chk")
  /\ ret' = [ret EXCEPT !["rcv"] = "tick"]
  /\ UNCHANGED <<members, seen, accvars, rcvvars, os, got>>

\* recv() returns -1, which _Recv ignores whatever the error: no data on a
\* non-blocking socket, a reset connection, a handle closed meanwhile.
RcvError ==
  /\ pc["rcv"] = "inrecv"
  /\ \/ call.c \notin Conns
     \/ /\ call.c \in Conns
        /\ \/ ~Open(call.c)
           \/ peer[call.c] = "rst"
           \/ ~call.blk /\ inq[call.c] = <<>> /\ peer[call.c] = "up"
  /\ Go("rcv", "tick")
  /\ UNCHANGED <<members, locals, os, got>>

\* Mutant: the message is not cleared for the next _Recv.
RcvDispatchNoClear ==
  /\ pc["rcv"] = "dispatch"
  /\ IF msg = <<Pong>>
     THEN m_nPing' = PongReset /\ UNCHANGED m_qRecv
     ELSE /\ m_qRecv' = IF Len(m_qRecv) < QueueCap
                        THEN Append(m_qRecv, [c |-> call.c, items |-> msg])
                        ELSE m_qRecv
          /\ UNCHANGED m_nPing
  /\ Go("rcv", "sock")
  /\ UNCHANGED <<m_dbgstate, server, m_nSocketClient, locals, os, got>>

RcvDispatch ==
  /\ pc["rcv"] = "dispatch"
  /\ IF msg = <<Pong>>
     THEN m_nPing' = PongReset /\ UNCHANGED m_qRecv
     ELSE /\ m_qRecv' = IF Len(m_qRecv) < QueueCap
                        THEN Append(m_qRecv, [c |-> call.c, items |-> msg])
                        ELSE m_qRecv
          /\ UNCHANGED m_nPing
  /\ msg' = <<>>
  /\ Go("rcv", "sock")
  /\ UNCHANGED <<m_dbgstate, server, m_nSocketClient, ret, seen, accvars,
                 call, ping, nstep, os, got>>

\* Mutant: the round counter is not taken modulo PingEvery.
RcvTickNoWrap ==
  /\ pc["rcv"] = "tick"
  /\ nstep' = nstep + 1
  /\ Go("rcv", IF nstep = 0 THEN "dec" ELSE "check")
  /\ UNCHANGED <<members, ret, seen, accvars, call, msg, ping, os, got>>

RcvTick ==
  /\ pc["rcv"] = "tick"
  /\ nstep' = (nstep + 1) % PingEvery
  /\ Go("rcv", IF nstep = 0 THEN "dec" ELSE "check")
  /\ UNCHANGED <<members, ret, seen, accvars, call, msg, ping, os, got>>

RcvPingLoad ==
  /\ pc["rcv"] = "dec"
  /\ ping' = m_nPing
  /\ Go("rcv", "dec2")
  /\ UNCHANGED <<members, ret, seen, accvars, call, msg, nstep, os, got>>

\* Mutant: nobody detaches a client whose pings ran out.
RcvPingStoreNoDettach ==
  /\ pc["rcv"] = "dec2"
  /\ m_nPing' = IF ping < 0 THEN -1 ELSE ping - 1
  /\ Go("rcv", "check")
  /\ UNCHANGED <<m_dbgstate, server, m_nSocketClient, m_qRecv, locals, os, got>>

\* All negative values of m_nPing behave alike: -1 stands for them.  Sending
\* the ping changes nothing the server keeps.
RcvPingStore ==
  /\ pc["rcv"] = "dec2"
  /\ m_nPing' = IF ping < 0 THEN -1 ELSE ping - 1
  /\ Go("rcv", IF ping < 0 THEN "d_chk" ELSE "check")
  /\ ret' = [ret EXCEPT !["rcv"] = "check"]
  /\ UNCHANGED <<m_dbgstate, server, m_nSocketClient, m_qRecv, seen, accvars,
                 rcvvars, os, got>>

RcvStep ==
  \/ RcvCheck \/ RcvSocket \/ RcvCall \/ RcvData \/ RcvEof \/ RcvError
  \/ RcvDispatch \/ RcvTick \/ RcvPingLoad \/ RcvPingStore
  \/ DettachStep("rcv")

-----------------------------------------------------------------------------
(* Remote clients                                                          *)

\* A client may send or leave before accept() has returned its connection.
Connected(c) ==
  /\ peer[c] = "up"
  /\ Open(c) \/ c \in nconn - backlog + 1 .. nconn

ClientConnect ==
  /\ nconn < MaxConns
  /\ \E h \in Handles : Listening(h)
  /\ nconn' = nconn + 1
  /\ backlog' = backlog + 1
  /\ UNCHANGED <<members, pc, locals, kind, id, nb, inq, sent, peer, got>>

ClientSend(c) ==
  /\ "send" \in ClientOps
  /\ Connected(c)
  /\ sent[c] < MaxItems /\ Len(inq[c]) < MaxInFlight
  /\ sent' = [sent EXCEPT ![c] = @ + 1]
  /\ inq' = [inq EXCEPT ![c] = Append(@, sent[c] + 1)]
  /\ UNCHANGED <<members, pc, locals, sockets, nconn, peer, got>>

ClientPong(c) ==
  /\ "pong" \in ClientOps
  /\ Connected(c)
  /\ Len(inq[c]) < MaxInFlight
  /\ inq' = [inq EXCEPT ![c] = Append(@, Pong)]
  /\ UNCHANGED <<members, pc, locals, sockets, clients, got>>

ClientClose(c) ==
  /\ "close" \in ClientOps
  /\ Connected(c)
  /\ peer' = [peer EXCEPT ![c] = "fin"]
  /\ UNCHANGED <<members, pc, locals, sockets, nconn, inq, sent, got>>

\* a reset discards what was not read
ClientReset(c) ==
  /\ "reset" \in ClientOps
  /\ Connected(c)
  /\ peer' = [peer EXCEPT ![c] = "rst"]
  /\ inq' = [inq EXCEPT ![c] = <<>>]
  /\ UNCHANGED <<members, pc, locals, sockets, nconn, sent, got>>

ClientStep ==
  \/ ClientConnect
  \/ \E c \in Conns : ClientSend(c) \/ ClientPong(c) \/ ClientClose(c) \/ ClientReset(c)

-----------------------------------------------------------------------------
Init ==
  /\ m_dbgstate = "DBG_NONE"
  /\ m_nSocketLisent = INVALID_SOCKET
  /\ m_nSocketClient = INVALID_SOCKET
  /\ m_nPort = -1
  /\ m_nPing = PingInit
  /\ m_qRecv = <<>>
  /\ m_Thread = FALSE
  /\ m_ThreadRecv = FALSE
  /\ pc = [t \in Threads |-> IF t = "main" THEN "idle" ELSE "none"]
  /\ ret = [t \in Detachers |-> IF t = "main" THEN "idle" ELSE "check"]
  /\ seen = [t \in Detachers |-> INVALID_SOCKET]
  /\ lsn = INVALID_SOCKET
  /\ conn = INVALID_SOCKET
  /\ call = [c |-> 0, blk |-> FALSE]
  /\ msg = <<>>
  /\ ping = 0
  /\ nstep = 0
  /\ kind = [h \in Handles |-> "free"]
  /\ id = [h \in Handles |-> 0]
  /\ nb = [h \in Handles |-> FALSE]
  /\ backlog = 0
  /\ nconn = 0
  /\ inq = [c \in Conns |-> <<>>]
  /\ sent = [c \in Conns |-> 0]
  /\ peer = [c \in Conns |-> "up"]
  /\ got = [c \in Conns |-> {}]

Next == ScriptCall \/ MainStep \/ AccStep \/ RcvStep \/ ClientStep

\* Each started thread keeps running, and a method once called runs on; the
\* script and the clients owe nothing.
Fairness == WF_vars(MainStep) /\ WF_vars(AccStep) /\ WF_vars(RcvStep)

Spec == Init /\ [][Next]_vars /\ Fairness

-----------------------------------------------------------------------------
(* Properties                                                              *)

Messages == [c : 0 .. MaxConns, items : Seq(Nat)]

MembersOK ==
  /\ m_dbgstate \in DBG_RUN_STATE
  /\ m_nSocketLisent \in Sockets
  /\ m_nSocketClient \in Sockets
  /\ m_nPort \in Int
  /\ m_nPing \in Int
  /\ m_qRecv \in Seq(Messages)
  /\ m_Thread \in BOOLEAN
  /\ m_ThreadRecv \in BOOLEAN

\* Each thread is at a label of its own code.
ControlOK ==
  /\ pc \in [Threads -> MainPC \cup AccPC \cup RcvPC]
  /\ pc["main"] \in MainPC /\ pc["acc"] \in AccPC /\ pc["rcv"] \in RcvPC
  /\ ret \in [Detachers -> MainRet \cup RcvRet]
  /\ ret["main"] \in MainRet /\ ret["rcv"] \in RcvRet

LocalsOK ==
  /\ seen \in [Detachers -> Sockets]
  /\ lsn \in Sockets /\ conn \in Sockets
  /\ call \in [c : 0 .. MaxConns, blk : BOOLEAN]
  /\ msg \in Seq(Nat)
  /\ ping \in Int
  /\ nstep \in 0 .. PingEvery - 1

OsOK ==
  /\ kind \in [Handles -> {"free", "sock", "listen", "conn"}]
  /\ id \in [Handles -> 0 .. MaxConns]
  /\ nb \in [Handles -> BOOLEAN]
  /\ nconn \in 0 .. MaxConns /\ backlog \in 0 .. nconn
  /\ inq \in [Conns -> Seq(Nat)]
  /\ sent \in [Conns -> Nat]
  /\ peer \in [Conns -> {"up", "fin", "rst"}]
  /\ got \in [Conns -> SUBSET Nat]

\* The type of every variable.
TypeOK == MembersOK /\ ControlOK /\ LocalsOK /\ OsOK

Increasing(s) ==
  \A i, j \in DOMAIN s : i < j /\ s[i] # Pong /\ s[j] # Pong => s[i] < s[j]

Before(s, t) ==
  \A i \in DOMAIN s, j \in DOMAIN t : s[i] # Pong /\ t[j] # Pong => s[i] < t[j]

\* What the script may still be given of connection c, from the oldest.
QueuedInOrder(c) ==
  /\ \A k \in DOMAIN m_qRecv : m_qRecv[k].c = c =>
       /\ Increasing(m_qRecv[k].items)
       /\ Before(m_qRecv[k].items, inq[c])
       /\ call.c = c => Before(m_qRecv[k].items, msg)
       /\ \A x \in got[c], i \in DOMAIN m_qRecv[k].items :
            m_qRecv[k].items[i] # Pong => x < m_qRecv[k].items[i]
  /\ \A k, l \in DOMAIN m_qRecv :
       k < l /\ m_qRecv[k].c = c /\ m_qRecv[l].c = c
         => Before(m_qRecv[k].items, m_qRecv[l].items)

ReadInOrder(c) ==
  call.c = c =>
    /\ Increasing(msg)
    /\ Before(msg, inq[c])
    /\ \A x \in got[c], i \in DOMAIN msg : msg[i] # Pong => x < msg[i]

UnreadInOrder(c) ==
  /\ Increasing(inq[c])
  /\ \A x \in got[c], i \in DOMAIN inq[c] : inq[c][i] # Pong => x < inq[c][i]

\* The script receives the commands of a connection in the order they were
\* sent and none of them twice, however _Recv cuts the stream, m_qRecv
\* overflows, clients are replaced and handles are reused.  Commands may be
\* lost (a full queue drops the newest, a reset the unread ones), so the
\* promise is an order over everything still in flight, from the script back
\* to the socket.
CommandsInOrder ==
  \A c \in Conns : QueuedInOrder(c) /\ ReadInOrder(c) /\ UnreadInOrder(c)

\* The commands of connection c that may still reach the script: unread in the
\* socket, in the receive thread's hands, or queued.
InFlight(c) ==
  Commands(inq[c])
    \cup (IF call.c = c THEN Commands(msg) ELSE {})
    \cup UNION {Commands(m_qRecv[k].items) : k \in {l \in DOMAIN m_qRecv : m_qRecv[l].c = c}}

Channel == INSTANCE CommandChannel
             WITH Senders <- Conns, flight <- [c \in Conns |-> InFlight(c)]

\* From the socket to the script, the server is a channel for each connection
\* that may lose commands and does nothing else to them: a command that a full
\* queue, a reset or a closed handle has dropped does not turn up again.
IsCommandChannel == Channel!CSpec

\* Only the receive thread gives up a client: the script never calls Dettach
\* and does not stop the server.
SingleDetacher == MainOps \cap {"Dettach", "StoprServer", "Delete"} = {}

\* No accepted connection is forgotten: each open one is the current client or
\* is still in the hands of the accept thread, which will store or refuse it.
NoSocketLeak ==
  \A h \in Handles : kind[h] = "conn" =>
    \/ h = m_nSocketClient
    \/ h = conn /\ pc["acc"] \in {"test", "store", "reject"}

\* m_nSocketClient denotes an open connection, save between the closesocket of
\* Dettach and the assignment that follows it: no thread ever sends to, reads
\* from or closes a handle that now belongs to somebody else.
ClientSocketOpen ==
  m_nSocketClient # INVALID_SOCKET =>
    \/ kind[m_nSocketClient] = "conn"
    \/ pc["rcv"] = "d_inv"

\* A handle in use as the client is never the one the accept thread is about
\* to refuse and close, unless the receive thread has already given it up.
NeverRefuseTheClient ==
  pc["acc"] = "reject" /\ conn = m_nSocketClient => pc["rcv"] = "d_inv"

\* The sockets of the server while only the receive thread gives up clients:
\* whatever the interleaving of accept, receive and detach, and although the
\* operating system hands out closed handles again, no accepted connection is
\* forgotten, no thread uses a handle that has changed hands, and the accept
\* thread does not close the client being served.
SocketsOwned == NoSocketLeak /\ ClientSocketOpen /\ NeverRefuseTheClient

\* UnInit touches the sockets only when no accept thread can be using them,
\* and the destructor returns only when no thread runs on the object.
ShutdownAlone ==
  /\ pc["main"] \in {"u_client", "u_inv", "u_listen", "u_state", "stoprecv", "dead"}
       => pc["acc"] = "none"
  /\ pc["main"] = "dead" => pc["rcv"] = "none"

\* Outside the attach and the detach code, a server that holds a client is in
\* DBG_ATTACH: otherwise the receive thread ignores that client, nobody ever
\* detaches it, and the accept thread refuses everyone else.
FreeOrServing ==
  /\ pc["acc"] \notin {"store", "ping", "attach"}
  /\ \A t \in Detachers : pc[t] \notin {"d_chk", "d_close", "d_inv", "d_state"}
  => (m_nSocketClient # INVALID_SOCKET => m_dbgstate = "DBG_ATTACH")

\* A client that closes or resets its connection is eventually given up, so
\* that the accept thread can serve the next one.
EndedClientReleased ==
  \A c \in Conns :
    (peer[c] # "up" /\ Open(c)) ~> ~Open(c)
=============================================================================
