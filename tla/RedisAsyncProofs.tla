-------------------------- MODULE RedisAsyncProofs --------------------------
(***************************************************************************)
(* LRedisAsyncClient, for any number of contexts and objects.              *)
(* OnlyDeleteLoses and OnlyUninitCrashes are not inductive: they need what *)
(* a connect in the event loop, and one that has come back from it, have   *)
(* left of the context the member names, and that no dropped context comes *)
(* back into a member.                                                     *)
(***************************************************************************)
EXTENDS RedisAsync, TLAPS

\* In the loop the member names a context, which is live exactly while its
\* link is there.
LoopInv ==
  pc = "connect" =>
    /\ m_pRedisContext # NULL
    /\ context[m_pRedisContext] = IF link = "none" THEN "freed" ELSE "live"

\* Outside it a freed context in the member was freed by a loop that has run,
\* and no event base is left from that.
FreedInv ==
  /\ pc = "idle" /\ m_pRedisContext # NULL /\ context[m_pRedisContext] = "freed"
       => ~m_pEventBase
  /\ crashed # "no" => pc = "idle"

\* What a deleted object named is no longer named, and was not unused; a deleted
\* object has no member and no call in progress.
DroppedInv ==
  /\ \A c \in dropped : c # m_pRedisContext /\ context[c] # "unused"
  /\ m_pRedisContext # NULL => context[m_pRedisContext] # "unused"
  /\ ~exists => m_pRedisContext = NULL /\ pc = "idle" /\ crashed = "no"

AsyncInv == OnlyDeleteLoses /\ OnlyUninitCrashes /\ LoopInv /\ FreedInv /\ DroppedInv

LEMMA AsyncInit == Init => AsyncInv
  <1> SUFFICES ASSUME Init PROVE AsyncInv
    OBVIOUS
  <1>1. replies \in Seq({"AUTH", "SELECT", "GET"})
    BY DEF Init
  <1>2. AsyncTypeOK
    BY <1>1 DEF Init, AsyncTypeOK, NULL
  <1> QED  BY <1>2 DEF Init, AsyncInv, OnlyDeleteLoses, OnlyUninitCrashes, LoopInv, FreedInv, DroppedInv

LEMMA AsyncStep == AsyncInv /\ [Next]_vars => AsyncInv'
  <1> SUFFICES ASSUME AsyncInv, [Next]_vars PROVE AsyncInv'
    OBVIOUS
  <1> USE DEF AsyncInv, OnlyDeleteLoses, OnlyUninitCrashes, LoopInv, FreedInv, DroppedInv,
              AsyncTypeOK, NULL, object
  <1>n. \A c \in Contexts : c # 0
    BY AsyncAssumption DEF Contexts
  <1>1. CASE ClientInit
    BY <1>1 DEF ClientInit, Idle
  <1>2. CASE Uninit
    <2>1. CASE crashed' = "Uninit"
      BY <1>2, <2>1 DEF Uninit, Idle
    <2>2. CASE crashed' = crashed
      BY <1>2, <1>n, <2>2 DEF Uninit, Idle
    <2> QED  BY <1>2, <2>1, <2>2 DEF Uninit
  <1>3. CASE Connect2Redis
    <2>1. CASE UNCHANGED <<m_pRedisContext, context, pc, link, replies>>
      BY <1>3, <2>1 DEF Connect2Redis, Idle
    <2>2. ASSUME NEW c \in Contexts, context[c] = "unused", m_pRedisContext' = c,
                 context' = [context EXCEPT ![c] = "broken"], UNCHANGED <<pc, link, replies>>
          PROVE  AsyncInv'
      BY <1>3, <1>n, <2>2 DEF Connect2Redis, Idle
    <2>3. ASSUME NEW c \in Contexts, context[c] = "unused", m_pRedisContext' = c,
                 context' = [context EXCEPT ![c] = "live"], link' = "opening",
                 replies' = <<"AUTH", "SELECT", "GET">>, pc' = "connect"
          PROVE  AsyncInv'
      <3>1. replies' \in Seq({"AUTH", "SELECT", "GET"})
        BY <2>3
      <3>2. AsyncTypeOK'
        BY <1>3, <2>3, <3>1 DEF Connect2Redis, Idle
      <3> QED  BY <1>3, <1>n, <2>3, <3>2 DEF Connect2Redis, Idle
    <2> QED  BY <1>3, <2>1, <2>2, <2>3 DEF Connect2Redis
  <1>4. CASE Connected
    BY <1>4 DEF Connected, Looping
  <1>5. CASE Free /\ Looping /\ link # "none" /\ UNCHANGED <<object, pc, crashed>>
    <2>1. replies' \in Seq({"AUTH", "SELECT", "GET"})
      BY <1>5 DEF Free
    <2>2. m_pRedisContext \in Contexts
      BY <1>5 DEF Looping
    <2> QED  BY <1>5, <2>1, <2>2 DEF Free, Looping, current
  <1>6. CASE Lost
    BY <1>5, <1>6 DEF Lost, getCallback, PrintReply
  <1>7. CASE ReplyToGet
    BY <1>5, <1>7 DEF ReplyToGet, getCallback, PrintReply
  <1>8. CASE ReplyDropped
    <2>1. replies' \in Seq({"AUTH", "SELECT", "GET"})
      BY <1>8 DEF ReplyDropped
    <2> QED  BY <1>8, <2>1 DEF ReplyDropped, Looping
  <1>9. CASE LoopEnds
    BY <1>9 DEF LoopEnds, Looping
  <1>10. CASE UNCHANGED vars
    BY <1>10 DEF vars
  <1>11. CASE New
    BY <1>11 DEF New
  <1>12. CASE Delete
    BY <1>12, <1>n DEF Delete, Idle
  <1> QED
    BY <1>1, <1>2, <1>3, <1>4, <1>6, <1>7, <1>8, <1>9, <1>10, <1>11, <1>12 DEF Next, LoopStep

\* However connects fail, connections end and objects are deleted, every context
\* that is not freed is the one LRedisAsyncClient points to or was lost by
\* deleting the object, and no open connection is left between two calls.
THEOREM AsyncOwned == Spec => []OnlyDeleteLoses
  <1>1. AsyncInv => OnlyDeleteLoses
    BY DEF AsyncInv
  <1> QED  BY <1>1, AsyncInit, AsyncStep, PTL DEF Spec

\* Only Uninit can use a context that was freed, and only one whose connection
\* has ended by itself; Connect and the callbacks never do.
THEOREM AsyncCrashesInUninit == Spec => []OnlyUninitCrashes
  <1>1. AsyncInv => OnlyUninitCrashes
    BY DEF AsyncInv
  <1> QED  BY <1>1, AsyncInit, AsyncStep, PTL DEF Spec
=============================================================================
