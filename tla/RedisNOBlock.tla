---------------------------- MODULE RedisNOBlock ----------------------------
(***************************************************************************)
(* LRedisNOBlock (project/hiredis/redisnoblock.cpp), the subscriber: it    *)
(* queues commands on a non-blocking context, writes them out in a loop,   *)
(* and in Breath() takes in whatever replies have arrived.  The caller     *)
(* (project/hiredis/test/main.cpp) calls Breath() once a second.           *)
(*                                                                         *)
(* Commands and replies travel whole; hiredis and the server are modelled  *)
(* from how the client uses them.                                          *)
(***************************************************************************)
EXTENDS Integers, Sequences

CONSTANTS
  Channels,       \* {"messagechat", "messagechat1"}
  AuthOk,         \* the server accepts the password
  MaxMessages,    \* bound: messages published
  MaxInFlight     \* bound: commands the server may not have read at a call of Breath

ASSUME NOBlockAssumption ==
  /\ {"messagechat", "messagechat1"} \subseteq Channels
  /\ AuthOk \in BOOLEAN /\ MaxMessages \in Nat /\ MaxInFlight \in Nat \ {0}

VARIABLES
  \* the object and its context
  m_nPort,         \* TRUE: a port that Init and Connect2Redis accept
  m_pRedisContext, \* "NULL" or "ctx"
  m_nUnSubscribe,
  err,             \* c->err
  obuf,            \* commands not yet written
  reader,          \* replies read and not yet taken
  pc,
  \* connection and server
  open,            \* FALSE: the server or the network has ended the connection
  wire,            \* commands on their way
  rbuf,            \* replies on their way
  authed, subs,    \* what the server knows of the connection
  published        \* messages published so far

object  == <<m_nPort, m_pRedisContext, m_nUnSubscribe>>
context == <<err, obuf, reader>>
server  == <<open, wire, rbuf, authed, subs, published>>
vars    == <<object, context, pc, server>>

Cmd(c)     == [cmd |-> c, ch |-> "none"]
Sub(c, ch) == [cmd |-> c, ch |-> ch]
Rep(t)     == [type |-> t, ch |-> "none"]

-----------------------------------------------------------------------------
(* The caller's operations                                                 *)

\* Init with a port in range; out of range, nothing changes.
ClientInit ==
  /\ pc = "idle"
  /\ m_nPort' = TRUE
  /\ UNCHANGED <<m_pRedisContext, m_nUnSubscribe, context, pc, server>>

\* The context is freed, and with it what was queued or read; m_nUnSubscribe
\* stays.
Uninit ==
  /\ pc = "idle"
  /\ m_nPort' = FALSE /\ m_pRedisContext' = "NULL"
  /\ err' = FALSE /\ obuf' = <<>> /\ reader' = <<>>
  /\ open' = FALSE /\ wire' = <<>> /\ rbuf' = <<>>
  /\ UNCHANGED <<m_nUnSubscribe, pc, authed, subs, published>>

\* Mutant: the subscriptions are queued before the password.
HelloSubscribesFirst ==
  <<Sub("SUBSCRIBE", "messagechat"), Sub("SUBSCRIBE", "messagechat1"), Cmd("AUTH"), Cmd("SELECT")>>

\* what Connect2Redis queues
Hello ==
  <<Cmd("AUTH"), Cmd("SELECT"), Sub("SUBSCRIBE", "messagechat"), Sub("SUBSCRIBE", "messagechat1")>>

\* Connect2Redis when there is no context yet: redisConnectNonBlock may return
\* the null pointer, a context with an error, which is kept, or a good one.
Connect2Redis ==
  /\ pc = "idle" /\ m_pRedisContext = "NULL" /\ m_nPort
  /\ \/ UNCHANGED <<m_pRedisContext, context, pc, server>>
     \/ /\ m_pRedisContext' = "ctx" /\ err' = TRUE
        /\ UNCHANGED <<obuf, reader, pc, server>>
     \/ /\ m_pRedisContext' = "ctx"
        /\ obuf' = Hello
        /\ pc' = "connecting"
        /\ open' = TRUE /\ authed' = FALSE /\ subs' = {}
        /\ UNCHANGED <<err, reader, wire, rbuf, published>>
  /\ UNCHANGED <<m_nPort, m_nUnSubscribe>>

\* Mutant: the request to unsubscribe is dropped.
BreathNoUnsubscribe ==
  /\ pc = "idle" /\ m_pRedisContext # "NULL"
  /\ Len(wire) < MaxInFlight
  /\ obuf' = Append(obuf, Cmd("PING"))
  /\ m_nUnSubscribe' = 0
  /\ pc' = "breathing"
  /\ UNCHANGED <<m_nPort, m_pRedisContext, err, reader, server>>

\* The commands of Breath are queued, on a broken context too.
Breath ==
  /\ pc = "idle" /\ m_pRedisContext # "NULL"
  /\ Len(wire) < MaxInFlight
  /\ obuf' = (IF m_nUnSubscribe = 1 THEN Append(obuf, Sub("UNSUBSCRIBE", "messagechat")) ELSE obuf)
               \o <<Cmd("PING")>>
  /\ m_nUnSubscribe' = 0
  /\ pc' = "breathing"
  /\ UNCHANGED <<m_nPort, m_pRedisContext, err, reader, server>>

\* Breath without a context: redisCommand follows the null pointer.
BreathCrash ==
  /\ pc = "idle" /\ m_pRedisContext = "NULL"
  /\ pc' = "crashed"
  /\ UNCHANGED <<object, context, server>>

-----------------------------------------------------------------------------
(* while (!wdone) redisBufferWrite(...)                                    *)

\* wdone
Written(rest) == rest = <<>>

\* Some of the queue is written; an attempt that writes nothing changes nothing.
WriteSome ==
  /\ pc \in {"connecting", "breathing"} /\ ~err /\ open
  /\ \E n \in 1 .. Len(obuf) :
       /\ wire' = wire \o SubSeq(obuf, 1, n)
       /\ obuf' = SubSeq(obuf, n + 1, Len(obuf))
       /\ pc' = IF ~Written(SubSeq(obuf, n + 1, Len(obuf))) THEN pc
                ELSE IF pc = "connecting" THEN "idle" ELSE "reading"
  /\ UNCHANGED <<object, err, reader, open, rbuf, authed, subs, published>>

WriteError ==
  /\ pc \in {"connecting", "breathing"} /\ ~err /\ ~open
  /\ err' = TRUE
  /\ UNCHANGED <<object, obuf, reader, pc, server>>

\* On a broken context redisBufferWrite fails before it sets wdone.
WriteAgain ==
  /\ pc \in {"connecting", "breathing"} /\ err
  /\ UNCHANGED vars

-----------------------------------------------------------------------------
(* while ((pReply = TryGetReply()) != NULL)                                *)

\* ProcessPing prints; ProcessChannelMsg asks for the unsubscription.
Process(r) == m_nUnSubscribe' = IF r.type = "message" THEN 1 ELSE m_nUnSubscribe

\* Mutant: Breath takes one reply.
ReadOnce ==
  /\ pc = "reading" /\ ~err
  /\ open \/ rbuf # <<>>
  /\ \E n \in 0 .. Len(rbuf) :
       LET got == reader \o SubSeq(rbuf, 1, n)
       IN  /\ n = 0 => rbuf = <<>>
           /\ rbuf' = SubSeq(rbuf, n + 1, Len(rbuf))
           /\ IF got = <<>> THEN UNCHANGED <<reader, m_nUnSubscribe>>
              ELSE reader' = Tail(got) /\ Process(Head(got))
           /\ pc' = "idle"
  /\ UNCHANGED <<m_nPort, m_pRedisContext, err, obuf, open, wire, authed, subs, published>>

\* redisBufferRead takes some of what has arrived, if anything, and one reply is
\* taken from the reader; without one the loop ends.
Read ==
  /\ pc = "reading" /\ ~err
  /\ open \/ rbuf # <<>>
  /\ \E n \in 0 .. Len(rbuf) :
       LET got == reader \o SubSeq(rbuf, 1, n)
       IN  /\ n = 0 => rbuf = <<>>
           /\ rbuf' = SubSeq(rbuf, n + 1, Len(rbuf))
           /\ IF got = <<>> THEN pc' = "idle" /\ UNCHANGED <<reader, m_nUnSubscribe>>
              ELSE reader' = Tail(got) /\ Process(Head(got)) /\ UNCHANGED pc
  /\ UNCHANGED <<m_nPort, m_pRedisContext, err, obuf, open, wire, authed, subs, published>>

\* Mutant: TryGetReply is called again after an error.
ReadErrorRetries ==
  /\ pc = "reading" /\ ~open /\ rbuf = <<>>
  /\ err' = TRUE
  /\ UNCHANGED <<object, obuf, reader, pc, server>>

\* End of the stream, or an error: TryGetReply returns the null pointer without
\* a look at what the reader still holds.
ReadError ==
  /\ pc = "reading" /\ ~err /\ ~open /\ rbuf = <<>>
  /\ err' = TRUE /\ pc' = "idle"
  /\ UNCHANGED <<object, obuf, reader, server>>

Working == WriteSome \/ WriteError \/ WriteAgain \/ Read \/ ReadError

-----------------------------------------------------------------------------
(* The server and the network                                              *)

Permitted(c) == c = "AUTH" \/ authed

Execute ==
  /\ open /\ wire # <<>>
  /\ LET c == Head(wire)
     IN  /\ authed' = IF c.cmd = "AUTH" THEN AuthOk ELSE authed
         /\ subs' = CASE ~Permitted(c.cmd)       -> subs
                      [] c.cmd = "SUBSCRIBE"     -> subs \cup {c.ch}
                      [] c.cmd = "UNSUBSCRIBE"   -> subs \ {c.ch}
                      [] OTHER                   -> subs
         /\ rbuf' = Append(rbuf,
                      CASE ~Permitted(c.cmd) \/ (c.cmd = "AUTH" /\ ~AuthOk) -> Rep("error")
                        [] c.cmd \in {"AUTH", "SELECT"} -> Rep("status")
                        [] c.cmd = "PING"               -> Rep("pong")
                        [] OTHER                        -> [type |-> c.cmd, ch |-> c.ch])
  /\ wire' = Tail(wire)
  /\ UNCHANGED <<object, context, pc, open, published>>

Publish(ch) ==
  /\ open /\ ch \in subs /\ published < MaxMessages
  /\ rbuf' = Append(rbuf, [type |-> "message", ch |-> ch])
  /\ published' = published + 1
  /\ UNCHANGED <<object, context, pc, open, wire, authed, subs>>

\* The server ends the connection: what it has sent still arrives, what it has
\* not read is lost.
Close ==
  /\ open /\ m_pRedisContext # "NULL"
  /\ open' = FALSE /\ wire' = <<>>
  /\ UNCHANGED <<object, context, pc, rbuf, authed, subs, published>>

-----------------------------------------------------------------------------
Init ==
  /\ m_nPort = FALSE /\ m_pRedisContext = "NULL" /\ m_nUnSubscribe = 0
  /\ err = FALSE /\ obuf = <<>> /\ reader = <<>>
  /\ pc = "idle"
  /\ open = FALSE /\ wire = <<>> /\ rbuf = <<>> /\ authed = FALSE /\ subs = {}
  /\ published = 0

Next ==
  \/ ClientInit \/ Uninit \/ Connect2Redis \/ Breath \/ BreathCrash \/ Working
  \/ Execute \/ Close
  \/ \E ch \in Channels : Publish(ch)
  \/ (pc = "crashed" /\ UNCHANGED vars)

\* A loop that can do something does it, the server reads what it is sent, and
\* the caller keeps calling Breath.
Spec ==
  /\ Init /\ [][Next]_vars
  /\ WF_vars(WriteSome) /\ WF_vars(WriteError) /\ WF_vars(Read) /\ WF_vars(ReadError)
  /\ WF_vars(Execute) /\ WF_vars(Breath)

-----------------------------------------------------------------------------
(* Properties                                                              *)

Commands == [cmd : {"AUTH", "SELECT", "SUBSCRIBE", "UNSUBSCRIBE", "PING"}, ch : Channels \cup {"none"}]
Replies == [type : {"error", "status", "pong", "message", "SUBSCRIBE", "UNSUBSCRIBE"},
            ch : Channels \cup {"none"}]

\* The type of every variable; the loops run only on a context.
NOBlockTypeOK ==
  /\ m_nPort \in BOOLEAN /\ m_pRedisContext \in {"NULL", "ctx"} /\ m_nUnSubscribe \in {0, 1}
  /\ err \in BOOLEAN /\ open \in BOOLEAN /\ authed \in BOOLEAN
  /\ obuf \in Seq(Commands) /\ wire \in Seq(Commands)
  /\ reader \in Seq(Replies) /\ rbuf \in Seq(Replies)
  /\ pc \in {"idle", "connecting", "breathing", "reading", "crashed"}
  /\ pc \in {"connecting", "breathing", "reading"} => m_pRedisContext # "NULL"
  /\ subs \subseteq Channels /\ published \in 0 .. MaxMessages

\* Between two calls of Breath nothing is half done, unless the connection
\* broke: all commands have been written and all replies read are processed.
NothingHalfDone ==
  /\ NOBlockTypeOK
  /\ pc = "idle" /\ ~err => obuf = <<>> /\ reader = <<>>

\* The link is in use and neither side has given it up.
Linked == m_pRedisContext = "ctx" /\ open /\ ~err

\* The replies to the pipelined AUTH, SELECT and SUBSCRIBE are never looked at:
\* the client ends up subscribed only because the server handles them in the
\* order they were queued.
Subscribed == (pc = "connecting" /\ ~err /\ AuthOk) ~> ("messagechat1" \in subs \/ ~Linked)

\* A message makes the client leave the channel messagechat, whichever Breath
\* finds it, as long as the link holds.
LeavesChat == (m_nUnSubscribe = 1 /\ Linked) ~> ("messagechat" \notin subs \/ ~Linked)

\* The test program calls Connect2Redis once and Breath 61 times and goes on:
\* every call returns, also one that finds or makes the connection broken while
\* it reads.  Only the loop that waits for wdone stays on a broken context.
CallsReturn ==
  pc \in {"connecting", "breathing", "reading"}
    ~> pc = "idle" \/ (err /\ pc \in {"connecting", "breathing"})
=============================================================================
