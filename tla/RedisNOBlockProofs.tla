------------------------ MODULE RedisNOBlockProofs ------------------------
(***************************************************************************)
(* LRedisNOBlock for any channels, messages and traffic.  NothingHalfDone  *)
(* is not inductive: that a call leaves nothing behind when it returns     *)
(* needs what its two loops find, which HalfInv says for each of them.     *)
(* And its types need that whoever subscribes names a channel.             *)
(***************************************************************************)
EXTENDS RedisNOBlock, SequenceTheorems, TLAPS

\* The commands the client makes: a subscription names a channel.
Asked == {c \in Commands : c.cmd = "SUBSCRIBE" => c.ch \in Channels}

\* The writing loop starts with no reply in hand, the reading loop with nothing
\* left to write; a null context has neither, and no error.
HalfInv ==
  /\ obuf \in Seq(Asked) /\ wire \in Seq(Asked)
  /\ pc \in {"connecting", "breathing"} /\ ~err => reader = <<>>
  /\ pc = "reading" => obuf = <<>>
  /\ m_pRedisContext = "NULL" => ~err /\ obuf = <<>> /\ reader = <<>>

NOBlockInv == NothingHalfDone /\ HalfInv

-----------------------------------------------------------------------------
(* What is queued, written and read                                        *)

\* What Connect2Redis and Breath queue are such commands.
LEMMA QueuedAreAsked ==
  /\ Hello \in Seq(Asked) /\ Cmd("PING") \in Asked
  /\ Sub("UNSUBSCRIBE", "messagechat") \in Asked
  <1>1. /\ Cmd("AUTH") \in Asked /\ Cmd("SELECT") \in Asked /\ Cmd("PING") \in Asked
        /\ Sub("SUBSCRIBE", "messagechat") \in Asked
        /\ Sub("SUBSCRIBE", "messagechat1") \in Asked
        /\ Sub("UNSUBSCRIBE", "messagechat") \in Asked
    BY NOBlockAssumption DEF Cmd, Sub, Commands, Asked
  <1>2. Hello \in Seq(Asked)
    BY <1>1 DEF Hello
  <1> QED  BY <1>1, <1>2

LEMMA AskedAreCommands ==
  ASSUME NEW s \in Seq(Asked)
  PROVE  s \in Seq(Commands)
  BY SeqMonotonic DEF Asked

\* Any part of a sequence is a sequence of its elements.
LEMMA PartOfSeq ==
  ASSUME NEW S, NEW s \in Seq(S), NEW n \in 0 .. Len(s)
  PROVE  SubSeq(s, 1, n) \in Seq(S) /\ SubSeq(s, n + 1, Len(s)) \in Seq(S)
  <1>1. \A i \in 1 .. n : s[i] \in S
    OBVIOUS
  <1>2. \A i \in n + 1 .. Len(s) : s[i] \in S
    OBVIOUS
  <1> QED  BY <1>1, <1>2, SubSeqProperties

\* The server answers a command with a reply.
LEMMA AnswerIsReply ==
  ASSUME NEW c \in Commands
  PROVE  (CASE ~Permitted(c.cmd) \/ (c.cmd = "AUTH" /\ ~AuthOk) -> Rep("error")
            [] c.cmd \in {"AUTH", "SELECT"} -> Rep("status")
            [] c.cmd = "PING"               -> Rep("pong")
            [] OTHER                        -> [type |-> c.cmd, ch |-> c.ch]) \in Replies
  BY DEF Commands, Replies, Rep

-----------------------------------------------------------------------------
(* The steps                                                               *)

LEMMA NOBlockInit == Init => NOBlockInv
  <1> SUFFICES ASSUME Init PROVE NOBlockInv
    OBVIOUS
  <1>1. /\ obuf \in Seq(Commands) /\ wire \in Seq(Commands)
        /\ obuf \in Seq(Asked) /\ wire \in Seq(Asked)
        /\ reader \in Seq(Replies) /\ rbuf \in Seq(Replies)
        /\ subs \subseteq Channels /\ published \in 0 .. MaxMessages
    BY NOBlockAssumption DEF Init
  <1>2. /\ m_nPort \in BOOLEAN /\ err \in BOOLEAN /\ open \in BOOLEAN /\ authed \in BOOLEAN
        /\ m_pRedisContext = "NULL" /\ m_nUnSubscribe \in {0, 1} /\ pc = "idle"
    BY DEF Init
  <1>3. NOBlockTypeOK
    BY <1>1, <1>2 DEF NOBlockTypeOK
  <1> QED  BY <1>1, <1>2, <1>3 DEF Init, NOBlockInv, NothingHalfDone, HalfInv

\* Connecting, breathing and giving up.
LEMMA CallerKeeps ==
  ASSUME NOBlockInv, ClientInit \/ Uninit \/ Connect2Redis \/ Breath \/ BreathCrash
  PROVE  NOBlockInv'
  <1> USE DEF NOBlockInv, NothingHalfDone, HalfInv, NOBlockTypeOK, context, object, server
  <1>1. CASE ClientInit
    BY <1>1 DEF ClientInit
  <1>2. CASE Uninit
    <2>1. /\ obuf' \in Seq(Commands) /\ wire' \in Seq(Commands)
          /\ obuf' \in Seq(Asked) /\ wire' \in Seq(Asked)
          /\ reader' \in Seq(Replies) /\ rbuf' \in Seq(Replies)
      BY <1>2 DEF Uninit
    <2> QED  BY <1>2, <2>1 DEF Uninit
  <1>3. CASE Connect2Redis
    <2>1. CASE UNCHANGED <<m_pRedisContext, context, pc, server>>
      BY <1>3, <2>1 DEF Connect2Redis
    <2>2. CASE /\ m_pRedisContext' = "ctx" /\ err' = TRUE
               /\ UNCHANGED <<obuf, reader, pc, server>>
      BY <1>3, <2>2 DEF Connect2Redis
    <2>3. CASE /\ m_pRedisContext' = "ctx" /\ obuf' = Hello /\ pc' = "connecting"
               /\ open' = TRUE /\ authed' = FALSE /\ subs' = {}
               /\ UNCHANGED <<err, reader, wire, rbuf, published>>
      <3>1. obuf' \in Seq(Asked) /\ obuf' \in Seq(Commands)
        BY <2>3, QueuedAreAsked, AskedAreCommands
      <3>2. m_pRedisContext = "NULL" /\ UNCHANGED <<m_nPort, m_nUnSubscribe>>
        BY <1>3 DEF Connect2Redis
      <3> QED  BY <2>3, <3>1, <3>2
    <2> QED  BY <1>3, <2>1, <2>2, <2>3 DEF Connect2Redis
  <1>4. CASE Breath
    <2>1. obuf' \in Seq(Asked)
      <3>1. (IF m_nUnSubscribe = 1 THEN Append(obuf, Sub("UNSUBSCRIBE", "messagechat")) ELSE obuf)
              \in Seq(Asked)
        BY QueuedAreAsked
      <3>2. <<Cmd("PING")>> \in Seq(Asked)
        BY QueuedAreAsked
      <3> QED  BY <1>4, <3>1, <3>2 DEF Breath
    <2>2. obuf' \in Seq(Commands)
      BY <2>1, AskedAreCommands
    <2> QED  BY <1>4, <2>1, <2>2 DEF Breath
  <1>5. CASE BreathCrash
    BY <1>5 DEF BreathCrash
  <1> QED  BY <1>1, <1>2, <1>3, <1>4, <1>5

\* The loops that write and read.
LEMMA WorkingKeeps ==
  ASSUME NOBlockInv, Working
  PROVE  NOBlockInv'
  <1> USE DEF NOBlockInv, NothingHalfDone, HalfInv, NOBlockTypeOK, context, object, server
  <1>1. CASE WriteSome
    <2>1. PICK n \in 1 .. Len(obuf) :
            /\ wire' = wire \o SubSeq(obuf, 1, n)
            /\ obuf' = SubSeq(obuf, n + 1, Len(obuf))
            /\ pc' = IF ~Written(SubSeq(obuf, n + 1, Len(obuf))) THEN pc
                     ELSE IF pc = "connecting" THEN "idle" ELSE "reading"
      BY <1>1 DEF WriteSome
    <2>2. SubSeq(obuf, 1, n) \in Seq(Asked) /\ SubSeq(obuf, n + 1, Len(obuf)) \in Seq(Asked)
      BY PartOfSeq
    <2>a. wire' \in Seq(Asked) /\ obuf' \in Seq(Asked)
      BY <2>1, <2>2
    <2>3. wire' \in Seq(Commands) /\ obuf' \in Seq(Commands)
      BY <2>a, AskedAreCommands
    <2>4. /\ pc \in {"connecting", "breathing"} /\ ~err /\ m_pRedisContext # "NULL"
          /\ UNCHANGED <<object, err, reader, open, rbuf, authed, subs, published>>
      BY <1>1 DEF WriteSome
    <2>5. pc' \in {"idle", "connecting", "breathing", "reading"}
      BY <2>1, <2>4
    <2>6. pc' \in {"idle", "reading"} => obuf' = <<>>
      BY <2>1, <2>4 DEF Written
    <2> QED  BY <2>a, <2>3, <2>4, <2>5, <2>6
  <1>2. CASE WriteError
    BY <1>2 DEF WriteError
  <1>3. CASE WriteAgain
    BY <1>3 DEF WriteAgain, vars
  <1>4. CASE Read
    <2>1. PICK n \in 0 .. Len(rbuf) :
            LET held == reader \o SubSeq(rbuf, 1, n)
            IN  /\ rbuf' = SubSeq(rbuf, n + 1, Len(rbuf))
                /\ IF held = <<>> THEN pc' = "idle" /\ UNCHANGED <<reader, m_nUnSubscribe>>
                   ELSE reader' = Tail(held) /\ Process(Head(held)) /\ UNCHANGED pc
      BY <1>4 DEF Read
    <2> DEFINE held == reader \o SubSeq(rbuf, 1, n)
    <2>2. SubSeq(rbuf, 1, n) \in Seq(Replies) /\ SubSeq(rbuf, n + 1, Len(rbuf)) \in Seq(Replies)
      BY PartOfSeq
    <2>3. rbuf' \in Seq(Replies) /\ held \in Seq(Replies)
      BY <2>1, <2>2
    <2>4. /\ pc = "reading" /\ obuf = <<>>
          /\ UNCHANGED <<m_nPort, m_pRedisContext, err, obuf, open, wire, authed, subs, published>>
      BY <1>4 DEF Read
    <2>5. CASE held = <<>>
      <3>1. pc' = "idle" /\ UNCHANGED <<reader, m_nUnSubscribe>>
        BY <2>1, <2>5
      <3>2. reader = <<>>
        BY <2>2, <2>5, ConcatEqualIffEmpty
      <3> QED  BY <2>3, <2>4, <3>1, <3>2
    <2>6. CASE held # <<>>
      <3>1. reader' = Tail(held) /\ UNCHANGED pc /\ m_nUnSubscribe' \in {0, 1}
        BY <2>1, <2>6 DEF Process
      <3>2. \A q \in Seq(Replies) : q # <<>> => Tail(q) \in Seq(Replies)
        BY HeadTailProperties
      <3>3. Tail(held) \in Seq(Replies)
        <4> HIDE DEF held
        <4> QED  BY <2>3, <2>6, <3>2
      <3>4. reader' \in Seq(Replies)
        BY <3>1, <3>3
      <3> QED  BY <2>3, <2>4, <3>1, <3>4
    <2> QED  BY <2>5, <2>6
  <1>5. CASE ReadError
    BY <1>5 DEF ReadError
  <1> QED  BY <1>1, <1>2, <1>3, <1>4, <1>5 DEF Working

\* The server and the network.
LEMMA ServerKeeps ==
  ASSUME NOBlockInv, Execute \/ Close \/ \E ch \in Channels : Publish(ch)
  PROVE  NOBlockInv'
  <1> USE DEF NOBlockInv, NothingHalfDone, HalfInv, NOBlockTypeOK, context, object, server
  <1>1. CASE Execute
    <2> DEFINE c == Head(wire)
               reply == CASE ~Permitted(c.cmd) \/ (c.cmd = "AUTH" /\ ~AuthOk) -> Rep("error")
                          [] c.cmd \in {"AUTH", "SELECT"} -> Rep("status")
                          [] c.cmd = "PING"               -> Rep("pong")
                          [] OTHER                        -> [type |-> c.cmd, ch |-> c.ch]
    <2>a. c \in Asked /\ wire' \in Seq(Asked)
      BY <1>1 DEF Execute
    <2>1. c \in Commands /\ wire' \in Seq(Commands)
      BY <2>a, AskedAreCommands DEF Asked
    <2>2. rbuf' = Append(rbuf, reply)
      BY <1>1 DEF Execute
    <2>3. reply \in Replies
      BY <2>1, AnswerIsReply
    <2> HIDE DEF reply
    <2>4. rbuf' \in Seq(Replies)
      BY <2>2, <2>3
    <2>5. authed' \in BOOLEAN
      BY <1>1, NOBlockAssumption DEF Execute
    <2>6. subs' \subseteq Channels
      <3> DEFINE next == CASE ~Permitted(c.cmd)       -> subs
                           [] c.cmd = "SUBSCRIBE"     -> subs \cup {c.ch}
                           [] c.cmd = "UNSUBSCRIBE"   -> subs \ {c.ch}
                           [] OTHER                   -> subs
      <3>1. subs' = next
        BY <1>1 DEF Execute
      <3>2. c.cmd = "SUBSCRIBE" => c.ch \in Channels
        BY <2>a DEF Asked
      <3> QED  BY <3>1, <3>2
    <2>7. UNCHANGED <<object, context, pc, open, published>>
      BY <1>1 DEF Execute
    <2> QED  BY <2>a, <2>1, <2>4, <2>5, <2>6, <2>7
  <1>2. CASE Close
    <2>1. wire' \in Seq(Commands) /\ wire' \in Seq(Asked)
      BY <1>2 DEF Close
    <2> QED  BY <1>2, <2>1 DEF Close
  <1>3. ASSUME NEW ch \in Channels, Publish(ch)
        PROVE  NOBlockInv'
    <2>1. [type |-> "message", ch |-> ch] \in Replies
      BY DEF Replies
    <2>2. rbuf' = Append(rbuf, [type |-> "message", ch |-> ch])
      BY <1>3 DEF Publish
    <2>3. rbuf' \in Seq(Replies)
      BY <2>1, <2>2
    <2>4. published' \in 0 .. MaxMessages
      BY <1>3, NOBlockAssumption DEF Publish
    <2>5. UNCHANGED <<object, context, pc, open, wire, authed, subs>>
      BY <1>3 DEF Publish
    <2> QED  BY <2>3, <2>4, <2>5
  <1> QED  BY <1>1, <1>2, <1>3

\* Whatever arrives, together or cut apart, and whenever the connection breaks:
\* between two calls of Breath, and after Connect2Redis, every command is
\* written and every reply that was read is processed, unless the context is in
\* error.
THEOREM CallsFinish == Spec => []NothingHalfDone
  <1>1. NOBlockInv /\ [Next]_vars => NOBlockInv'
    <2> SUFFICES ASSUME NOBlockInv, [Next]_vars PROVE NOBlockInv'
      OBVIOUS
    <2>1. CASE UNCHANGED vars
      BY <2>1 DEF vars, context, object, server, NOBlockInv, NothingHalfDone, HalfInv, NOBlockTypeOK
    <2> QED  BY <2>1, CallerKeeps, WorkingKeeps, ServerKeeps DEF Next
  <1>2. NOBlockInv => NothingHalfDone
    BY DEF NOBlockInv
  <1> QED  BY <1>1, <1>2, NOBlockInit, PTL DEF Spec
=============================================================================
