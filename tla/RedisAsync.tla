----------------------------- MODULE RedisAsync -----------------------------
(***************************************************************************)
(* LRedisAsyncClient (project/hiredis/redisasyncclient.cpp).  _Connect     *)
(* queues AUTH, SELECT and GET and then runs libevent's loop until nothing *)
(* is registered with it any more, which is when hiredis has freed the     *)
(* context: after the disconnect that getCallback asks for, or after an    *)
(* error.  The member m_pRedisContext is not told.  The destructor frees   *)
(* nothing: that is for the caller to ask for, with Uninit.                *)
(*                                                                         *)
(* hiredis, libevent and the server are modelled from how the client uses  *)
(* them; replies arrive whole.                                             *)
(***************************************************************************)
EXTENDS Integers, Sequences

CONSTANT MaxContexts   \* contexts made by redisAsyncConnect

ASSUME AsyncAssumption == MaxContexts \in Nat

VARIABLES
  m_nPort,          \* TRUE: a port that Init and _Connect accept
  m_pRedisContext,  \* 0, the null pointer, or the number of a context
  m_pEventBase,     \* TRUE: not the null pointer
  exists,           \* the object was made and not deleted
  pc,               \* "idle", or "connect": in _Connect's event_base_dispatch
  crashed,          \* the function in which freed or no memory was used
  context,          \* each context: "unused", "broken" (err), "live", "freed"
  link,             \* of the live context: "opening", "open", or "none"
  replies,          \* the commands whose replies it waits for
  dropped           \* history: contexts in the member of an object when it was deleted

object == <<m_nPort, m_pRedisContext, m_pEventBase, exists, dropped>>
vars == <<object, pc, crashed, context, link, replies>>

Contexts == 1 .. MaxContexts
NULL == 0

Init ==
  /\ m_nPort = FALSE /\ m_pRedisContext = NULL /\ m_pEventBase = FALSE
  /\ exists = TRUE /\ dropped = {}
  /\ pc = "idle" /\ crashed = "no"
  /\ context = [c \in Contexts |-> "unused"]
  /\ link = "none" /\ replies = <<>>

Idle == exists /\ pc = "idle" /\ crashed = "no"

-----------------------------------------------------------------------------
(* The caller's operations                                                 *)

\* The constructor.
New ==
  /\ ~exists /\ exists' = TRUE
  /\ m_nPort' = FALSE /\ m_pRedisContext' = NULL /\ m_pEventBase' = FALSE
  /\ UNCHANGED <<dropped, pc, crashed, context, link, replies>>

\* The destructor, which is empty: the members go with the object.
Delete ==
  /\ Idle /\ exists' = FALSE
  /\ dropped' = dropped \cup ({m_pRedisContext} \ {NULL})
  /\ m_nPort' = FALSE /\ m_pRedisContext' = NULL /\ m_pEventBase' = FALSE
  /\ UNCHANGED <<pc, crashed, context, link, replies>>

\* Init with arguments it accepts; with others nothing changes.
ClientInit ==
  /\ Idle /\ m_nPort' = TRUE
  /\ UNCHANGED <<m_pRedisContext, m_pEventBase, exists, dropped, pc, crashed, context, link, replies>>

\* Uninit: _FreeRes frees the context the member points to, whatever has
\* become of it, and runs the loop of an event base that is left from a failed
\* connect; nothing is registered with it.
Uninit ==
  /\ Idle
  /\ IF m_pRedisContext # NULL /\ context[m_pRedisContext] = "freed"
     THEN /\ crashed' = "Uninit"
          /\ UNCHANGED <<object, pc, context, link, replies>>
     ELSE /\ context' = [c \in Contexts |-> IF c = m_pRedisContext THEN "freed" ELSE context[c]]
          /\ m_nPort' = FALSE /\ m_pRedisContext' = NULL /\ m_pEventBase' = FALSE
          /\ UNCHANGED <<exists, dropped, pc, crashed, link, replies>>

\* Mutant: a context that is there already is not looked for.
ConnectAgain ==
  /\ Idle /\ m_nPort /\ m_pEventBase' = TRUE
  /\ \E c \in Contexts :
       /\ context[c] = "unused" /\ m_pRedisContext' = c
       /\ \/ context' = [context EXCEPT ![c] = "broken"] /\ UNCHANGED <<pc, link, replies>>
          \/ /\ context' = [context EXCEPT ![c] = "live"]
             /\ link' = "opening" /\ replies' = <<"AUTH", "SELECT", "GET">> /\ pc' = "connect"
  /\ UNCHANGED <<m_nPort, exists, dropped, crashed>>

\* Connect2Redis without a context (with one, it returns 1 at once): an event
\* base is made unless one is left, which may fail; redisAsyncConnect returns the
\* null pointer, a context in error, which stays in the member, or one that is
\* connecting, for which the three commands are queued and the loop is entered.
Connect2Redis ==
  /\ Idle /\ m_nPort /\ m_pRedisContext = NULL
  /\ \/ /\ m_pEventBase' \in {m_pEventBase, TRUE}
        /\ UNCHANGED <<m_pRedisContext, context, pc, link, replies>>
     \/ \E c \in Contexts :
          /\ m_pEventBase' = TRUE
          /\ context[c] = "unused" /\ m_pRedisContext' = c
          /\ \/ context' = [context EXCEPT ![c] = "broken"] /\ UNCHANGED <<pc, link, replies>>
             \/ /\ context' = [context EXCEPT ![c] = "live"]
                /\ link' = "opening" /\ replies' = <<"AUTH", "SELECT", "GET">>
                /\ pc' = "connect"
  /\ UNCHANGED <<m_nPort, exists, dropped, crashed>>

-----------------------------------------------------------------------------
(* The event loop                                                          *)

Looping == pc = "connect" /\ crashed = "no"
current == m_pRedisContext

Free == /\ context' = [context EXCEPT ![current] = "freed"]
        /\ link' = "none" /\ replies' = <<>>

Connected ==
  /\ Looping /\ link = "opening"
  /\ link' = "open"
  /\ UNCHANGED <<object, pc, crashed, context, replies>>

\* printf of reply->str.
PrintReply(reply) == crashed' = IF reply = "none" THEN "getCallback" ELSE crashed

\* Mutant: getCallback does not look whether there is a reply.
getCallbackUnchecked(reply) == PrintReply(reply)

\* getCallback returns at once when there is no reply; the disconnect that
\* follows the printing is the Free of ReplyToGet.
getCallback(reply) ==
  \/ reply = "none" /\ UNCHANGED crashed
  \/ reply # "none" /\ PrintReply(reply)

\* The connection cannot be made, or ends: hiredis calls the callbacks of all
\* commands that wait without a reply, and frees the context.
Lost ==
  /\ Looping /\ link # "none"
  /\ getCallback("none")
  /\ Free
  /\ UNCHANGED <<object, pc>>

\* A reply to AUTH or SELECT, of either kind: nobody waits for it.
ReplyDropped ==
  /\ Looping /\ link = "open" /\ replies # <<>> /\ Head(replies) # "GET"
  /\ replies' = Tail(replies)
  /\ UNCHANGED <<object, pc, crashed, context, link>>

\* Mutant: getCallback does not disconnect.
ReplyKeeps ==
  /\ Looping /\ link = "open" /\ replies # <<>> /\ Head(replies) = "GET"
  /\ getCallback("some") /\ replies' = Tail(replies)
  /\ UNCHANGED <<object, pc, context, link>>

\* The reply to GET, a value or an error: getCallback disconnects, and as no
\* other reply is due hiredis frees the context when the callback returns.
ReplyToGet ==
  /\ Looping /\ link = "open" /\ replies # <<>> /\ Head(replies) = "GET"
  /\ getCallback("some")
  /\ Free
  /\ UNCHANGED <<object, pc>>

\* Nothing is registered any more: the loop returns and the pointer to the
\* event base is cleared; _Connect returns 1.
LoopEnds ==
  /\ Looping /\ link = "none"
  /\ m_pEventBase' = FALSE /\ pc' = "idle"
  /\ UNCHANGED <<m_nPort, m_pRedisContext, exists, dropped, crashed, context, link, replies>>

LoopStep == Connected \/ Lost \/ ReplyDropped \/ ReplyToGet \/ LoopEnds

Next == New \/ Delete \/ ClientInit \/ Uninit \/ Connect2Redis \/ LoopStep

\* The loop runs, a connect succeeds or fails, and a server that owes a reply
\* sends it or the connection ends; one that owes nothing may stay for ever.
Fairness == WF_vars((link = "none" \/ replies # <<>>) /\ LoopStep)

Spec == Init /\ [][Next]_vars /\ Fairness

-----------------------------------------------------------------------------
(* Properties                                                              *)

\* The types; only contexts that redisAsyncConnect returned are ever freed.
AsyncTypeOK ==
  /\ m_nPort \in BOOLEAN /\ m_pRedisContext \in Contexts \cup {NULL}
  /\ exists \in BOOLEAN /\ dropped \subseteq Contexts
  /\ m_pEventBase \in BOOLEAN /\ pc \in {"idle", "connect"}
  /\ crashed \in {"no", "Uninit", "getCallback"}
  /\ context \in [Contexts -> {"unused", "broken", "live", "freed"}]
  /\ link \in {"none", "opening", "open"} /\ replies \in Seq({"AUTH", "SELECT", "GET"})

\* Only deleting the object loses a context: one that hiredis has made and not
\* freed is named by the object's member, or was when an object was deleted; a
\* connect that failed half way does not lose it to the next one.  And what is
\* lost or left over is a context in error, never an open connection: whichever
\* way the loop ends, by the reply, by an error or by the end of the connection,
\* none is open while no call is in progress.
OnlyDeleteLoses ==
  /\ AsyncTypeOK
  /\ \A c \in Contexts : context[c] \in {"broken", "live"} => c = m_pRedisContext \/ c \in dropped
  /\ \A c \in Contexts : context[c] = "live" => pc = "connect" /\ c \notin dropped

\* The callbacks never use what is not there; the one place that does is
\* Uninit, and only after a connect whose loop has run: the context was freed
\* by hiredis and the member still points to it.
OnlyUninitCrashes ==
  crashed # "no" =>
    /\ crashed = "Uninit" /\ m_pRedisContext # NULL
    /\ context[m_pRedisContext] = "freed" /\ ~m_pEventBase

\* A call that has entered the event loop comes back.
ConnectReturns == (pc = "connect") ~> (pc = "idle" \/ crashed # "no")
=============================================================================
