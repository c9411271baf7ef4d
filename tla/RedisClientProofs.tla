------------------------- MODULE RedisClientProofs -------------------------
(***************************************************************************)
(* LRedisClient owns exactly the context it points to, for any number of   *)
(* calls and connections and any server.                                   *)
(*                                                                         *)
(* CrashOnlyUnconnected is not inductive: it needs that a call in progress *)
(* and a connect that returned 1 both stand for a context, which in turn   *)
(* holds because every failure inside Connect2Redis goes through Exit0.    *)
(*                                                                         *)
(* TypeInv: a connection that was never made has carried nothing.  ReadInv *)
(* follows a value from the call that writes it to the one that reads it:  *)
(* what is pending or stored is known or doubtful, and the reply a call    *)
(* takes answers its own request in the database it selected.              *)
(***************************************************************************)
EXTENDS RedisClient, WellFoundedInduction, TLAPS

OwnInv ==
  /\ NoContextLeak
  /\ pc \in {"Exit0", "_Auth", "_SelectDB", "reply"} => m_pRedisContext # NULL
  /\ ready => m_pRedisContext # NULL
  /\ CrashOnlyUnconnected

\* A new context is not the null pointer.
LEMMA ContextNotNull ==
  ASSUME NEW c \in Contexts
  PROVE  c # NULL
  BY RedisAssumption DEF Contexts

\* _Connect leaves the client with its old context, with none, or with one new.
LEMMA ConnectOwns ==
  ASSUME OwnInv, NEW old \in {m_pRedisContext, NULL}, pc = "idle", _Connect(old)
  PROVE  OwnInv'
  <1>1. CASE old # NULL /\ m_pRedisContext' = old /\ allocated' = allocated
             /\ pc' = "_Auth" /\ UNCHANGED <<ready, usedb>>
    BY <1>1 DEF OwnInv, NoContextLeak, CrashOnlyUnconnected
  <1>2. CASE ConnectFailed(m_pRedisContext)
    BY <1>2 DEF ConnectFailed, OwnInv, NoContextLeak, CrashOnlyUnconnected
  <1>3. CASE \E c \in Contexts :
               /\ m_pRedisContext' = c
               /\ allocated' = (allocated \ {m_pRedisContext}) \cup {c}
               /\ pc' \in {"Exit0", "_Auth"} /\ UNCHANGED <<ready, usedb>>
    BY <1>3, ContextNotNull DEF OwnInv, NoContextLeak, CrashOnlyUnconnected
  <1> QED  BY <1>1, <1>2, <1>3 DEF _Connect

LEMMA OwnStep ==
  ASSUME OwnInv, [Next]_vars
  PROVE  OwnInv'
  <1> USE DEF OwnInv, NoContextLeak, CrashOnlyUnconnected
  <1>1. ASSUME NEW port, NEW db, NEW pw, ClientInit(port, db, pw) PROVE OwnInv'
    BY <1>1 DEF ClientInit, Call, contexts, history
  <1>2. CASE Uninit
    BY <1>2 DEF Uninit, Call, _FreeRes
  <1>3. CASE Connect2Redis
    BY <1>3, ConnectOwns DEF Connect2Redis, Call
  <1>4. CASE ReConnect2Redis
    BY <1>4, ConnectOwns DEF ReConnect2Redis, Call
  <1>4a. CASE ConnectRefused
    BY <1>4a DEF ConnectRefused, ConnectFailed
  <1>5. CASE _Auth
    BY <1>5 DEF _Auth, ConnectFailed
  <1>6. CASE _SelectDB
    BY <1>6 DEF _SelectDB, ConnectFailed
  <1>7. ASSUME NEW f, NEW r, NEW n, Command(f, r, n) PROVE OwnInv'
    BY <1>7 DEF Command, Call, object, contexts, history
  <1>8. CASE SetReturn
    BY <1>8 DEF SetReturn, Return, object, contexts
  <1>9. CASE GetReturn
    BY <1>9 DEF GetReturn, Return, object, contexts, history
  <1>10. ASSUME NEW c, Execute(c) PROVE OwnInv'
    BY <1>10 DEF Execute, object, contexts, history
  <1>11. ASSUME NEW c, Break(c) PROVE OwnInv'
    BY <1>11 DEF Break, object, history
  <1>12. CASE UNCHANGED vars
    BY <1>12 DEF vars, object, contexts, history
  <1> QED
    BY <1>1, <1>2, <1>3, <1>4, <1>4a, <1>5, <1>6, <1>7, <1>8, <1>9, <1>10, <1>11, <1>12
    DEF Next, ClientStep, SetString, SetByte, HSetByte, GetString, GetByte, HGetByte

\* Whatever the calls, the server's answers and the failures: the client keeps
\* no context but the one it points to and frees each once.
THEOREM ContextOwned == Spec => []NoContextLeak
  <1>1. Init => OwnInv
    BY DEF Init, OwnInv, NoContextLeak, CrashOnlyUnconnected
  <1>2. OwnInv => NoContextLeak
    BY DEF OwnInv
  <1> QED  BY <1>1, <1>2, OwnStep, PTL DEF Spec

\* Its functions run on a null context only if the caller ignores a failed
\* connect.
THEOREM CrashOnlyByMisuse == Spec => []CrashOnlyUnconnected
  <1>1. Init => OwnInv
    BY DEF Init, OwnInv, NoContextLeak, CrashOnlyUnconnected
  <1>2. OwnInv => CrashOnlyUnconnected
    BY DEF OwnInv
  <1> QED  BY <1>1, <1>2, OwnStep, PTL DEF Spec

-----------------------------------------------------------------------------
(* Types                                                                   *)

DbsUsed == Dbs \cup {0}
AnyKey == CHOOSE k \in Keys : TRUE
Writes == {"SET", "HSET"}
Reads == {"GET", "HGET"}

Requests ==
  [cmd : {"AUTH"}, key : {AnyKey}, arg : Passwords \cup {NULL}]
    \cup [cmd : {"SELECT"}, key : {AnyKey}, arg : DbsUsed]
    \cup [cmd : Writes, key : Keys, arg : Values]
    \cup [cmd : Reads, key : Keys, arg : {NULL}]

Replies == [type : {"STATUS", "ERROR", "NIL", "STRING", "INTEGER"}, str : Values \cup {<<>>}]

\* The function that waits for a reply has sent the command of its own.
CallOK ==
  pc = "reply" =>
    /\ call.r \in Requests /\ call.r.key \in Keys /\ call.n \in Nat
    /\ \/ call.f \in {"SetString", "SetByte"} /\ call.r.cmd = "SET"
       \/ call.f = "HSetByte" /\ call.r.cmd = "HSET"
       \/ call.f \in {"GetString", "GetByte"} /\ call.r.cmd = "GET"
       \/ call.f = "HGetByte" /\ call.r.cmd = "HGET"

\* A connection that was never made has carried nothing.
Fresh == \A c \in Contexts \ made : req[c] = NULL /\ rep[c] = NULL /\ ~err[c]

TypeInv ==
  /\ RedisTypeOK /\ CallOK /\ Fresh
  /\ m_pRedisContext \in made \cup {NULL}
  /\ req \in [Contexts -> Requests \cup {NULL}]
  /\ rep \in [Contexts -> Replies \cup {NULL}]
  /\ seldb \in [Contexts -> DbsUsed] /\ usedb \in DbsUsed
  /\ known \in [DbsUsed -> [Keys -> SUBSET Cells]]
  /\ doubtful \in [DbsUsed -> [Keys -> SUBSET Cells]]

\* What a request of each kind carries.
LEMMA RequestShape ==
  ASSUME NEW r \in Requests
  PROVE  /\ r.cmd \in {"AUTH", "SELECT"} \cup Writes \cup Reads
         /\ r.cmd = "SELECT" => r.arg \in DbsUsed
         /\ r.cmd \in Writes => r.key \in Keys /\ CellOf(r) \in Cells
         /\ r.cmd \in Reads => r.key \in Keys
  BY DEF Requests, Writes, Reads, CellOf, Cells

LEMMA ReadReplyCases ==
  ASSUME NEW cell, NEW t \in {"string", "hash"}
  PROVE  /\ cell.type = "none" => ReadReply(cell, t) = Reply("NIL", <<>>)
         /\ cell.type = t => ReadReply(cell, t) = Reply("STRING", cell.val)
         /\ cell.type \notin {"none", t} => ReadReply(cell, t) = ERROR
  BY Zenon DEF ReadReply

\* What the server answers, command by command.
LEMMA RespondCases ==
  ASSUME NEW c, NEW r, NEW cell
  PROVE  /\ r.cmd = "AUTH" => Respond(c, r, cell) \in {Reply("STATUS", <<>>), ERROR}
         /\ r.cmd # "AUTH" /\ ~Permitted(c) => Respond(c, r, cell) = ERROR
         /\ Permitted(c) /\ r.cmd = "SELECT" =>
              Respond(c, r, cell) = IF r.arg \in ServerDbs THEN Reply("STATUS", <<>>) ELSE ERROR
         /\ Permitted(c) /\ r.cmd = "SET" => Respond(c, r, cell) = Reply("STATUS", <<>>)
         /\ Permitted(c) /\ r.cmd = "HSET" =>
              Respond(c, r, cell) = IF cell.type = "string" THEN ERROR ELSE Reply("INTEGER", <<>>)
         /\ Permitted(c) /\ r.cmd = "GET" => Respond(c, r, cell) = ReadReply(cell, "string")
         /\ Permitted(c) /\ r.cmd = "HGET" => Respond(c, r, cell) = ReadReply(cell, "hash")
  <1>1. r.cmd = "AUTH" => Respond(c, r, cell) \in {Reply("STATUS", <<>>), ERROR}
    BY Zenon DEF Respond, AuthReply
  <1>2. r.cmd # "AUTH" /\ ~Permitted(c) => Respond(c, r, cell) = ERROR
    BY Zenon DEF Respond
  <1>3. Permitted(c) /\ r.cmd = "SELECT" =>
          Respond(c, r, cell) = IF r.arg \in ServerDbs THEN Reply("STATUS", <<>>) ELSE ERROR
    BY Zenon DEF Respond
  <1>4. Permitted(c) /\ r.cmd = "SET" => Respond(c, r, cell) = Reply("STATUS", <<>>)
    BY Zenon DEF Respond
  <1>5. Permitted(c) /\ r.cmd = "HSET" =>
          Respond(c, r, cell) = IF cell.type = "string" THEN ERROR ELSE Reply("INTEGER", <<>>)
    BY Zenon DEF Respond
  <1>6. Permitted(c) /\ r.cmd = "GET" => Respond(c, r, cell) = ReadReply(cell, "string")
    BY Zenon DEF Respond
  <1>7. Permitted(c) /\ r.cmd = "HGET" => Respond(c, r, cell) = ReadReply(cell, "hash")
    BY Zenon DEF Respond
  <1> QED  BY <1>1, <1>2, <1>3, <1>4, <1>5, <1>6, <1>7, Zenon

LEMMA RespondType ==
  ASSUME NEW c, NEW r \in Requests, NEW cell,
         r.cmd \in Reads => cell \in Cells
  PROVE  Respond(c, r, cell) \in Replies
  <1>1. Reply("STATUS", <<>>) \in Replies /\ ERROR \in Replies /\ Reply("INTEGER", <<>>) \in Replies
    BY DEF Reply, ERROR, Replies
  <1>2. ASSUME NEW t \in {"string", "hash"}, cell \in Cells PROVE ReadReply(cell, t) \in Replies
    <2>1. Reply("NIL", <<>>) \in Replies
      BY DEF Reply, Replies
    <2>2. cell.type # "none" => Reply("STRING", cell.val) \in Replies
      BY <1>2 DEF Reply, Replies, Cells, None
    <2> QED  BY <1>1, <2>1, <2>2, ReadReplyCases
  <1> QED
    BY <1>1, <1>2, RequestShape, RespondCases DEF Writes, Reads

LEMMA TypeInit == Init => TypeInv
  <1> SUFFICES ASSUME Init PROVE TypeInv
    OBVIOUS
  <1>1. None \in Cells
    BY DEF Cells
  <1>2. RedisTypeOK
    <2>1. err \in [Contexts -> BOOLEAN] /\ authed \in [Contexts -> BOOLEAN]
      BY DEF Init
    <2>2. seldb \in [Contexts -> ServerDbs] /\ calls \in 0 .. MaxCalls
      BY RedisAssumption DEF Init
    <2>3. store \in [ServerDbs -> [Keys -> Cells]]
      BY <1>1 DEF Init
    <2>4. m_nPort \in BOOLEAN /\ m_nDBNum \in Dbs \cup {0}
      BY DEF Init
    <2> QED  BY <2>1, <2>2, <2>3, <2>4 DEF Init, RedisTypeOK
  <1> QED
    BY <1>1, <1>2 DEF Init, TypeInv, CallOK, Fresh, DbsUsed

\* _Connect, its request and its new context.
LEMMA ConnectTypes ==
  ASSUME TypeInv, NEW old \in {m_pRedisContext, NULL}, Call, _Connect(old),
         UNCHANGED <<m_nPort, m_nDBNum, m_szPassword, authed, seldb, store, known, doubtful>>
  PROVE  TypeInv'
  <1> USE DEF TypeInv, RedisTypeOK, CallOK, Fresh
  <1>0. AuthRequest \in Requests
    BY DEF AuthRequest, Requests, AnyKey
  <1>1. calls' \in 0 .. MaxCalls
    BY RedisAssumption DEF Call
  <1>2. CASE /\ old # NULL
             /\ m_pRedisContext' = old /\ allocated' = allocated
             /\ Request(old, AuthRequest)
             /\ rep' = [rep EXCEPT ![old] = NULL]
             /\ pc' = "_Auth" /\ call' = NULL
             /\ UNCHANGED <<made, err, ready, usedb>>
    BY <1>0, <1>1, <1>2 DEF Request
  <1>3. CASE ConnectFailed(m_pRedisContext) /\ UNCHANGED <<made, err, req, rep>>
    BY <1>1, <1>3 DEF ConnectFailed
  <1>4. ASSUME NEW c \in Contexts \ made, made' = made \cup {c},
               m_pRedisContext' = c,
               allocated' = (allocated \ {m_pRedisContext}) \cup {c},
               err' = [err EXCEPT ![c] = TRUE],
               pc' = "Exit0", call' = NULL, UNCHANGED <<req, rep, ready, usedb>>
        PROVE  TypeInv'
    BY <1>1, <1>4, ContextNotNull
  <1>5. ASSUME NEW c \in Contexts \ made, made' = made \cup {c},
               m_pRedisContext' = c,
               allocated' = (allocated \ {m_pRedisContext}) \cup {c},
               Request(c, AuthRequest),
               pc' = "_Auth", call' = NULL, UNCHANGED <<err, rep, ready, usedb>>
        PROVE  TypeInv'
    BY <1>0, <1>1, <1>5, ContextNotNull DEF Request
  <1> QED  BY <1>2, <1>3, <1>4, <1>5 DEF _Connect

LEMMA ExecuteTypes ==
  ASSUME TypeInv, NEW c \in Contexts, Execute(c)
  PROVE  TypeInv'
  <1> DEFINE r == req[c]
             db == seldb[c]
             a == Respond(c, r, store[db][r.key])
  <1>1. r \in Requests /\ db \in ServerDbs /\ db \in DbsUsed
    BY DEF Execute, TypeInv, RedisTypeOK
  <1>2. r.cmd \in Reads \cup Writes => store[db][r.key] \in Cells
    BY <1>1, RequestShape DEF TypeInv, RedisTypeOK
  <1>3. a \in Replies
    BY <1>1, <1>2, RespondType
  <1>4. rep' \in [Contexts -> Replies \cup {NULL}]
    BY <1>3 DEF Execute, TypeInv
  <1>5. authed' \in [Contexts -> BOOLEAN]
    BY DEF Execute, TypeInv, RedisTypeOK
  <1>6. seldb' \in [Contexts -> ServerDbs] /\ seldb' \in [Contexts -> DbsUsed]
    <2>1. CASE r.cmd = "SELECT" /\ a # ERROR
      <3>1. r.arg \in ServerDbs
        BY <2>1, RespondCases
      <3>2. r.arg \in DbsUsed
        BY <1>1, <2>1, RequestShape
      <3>3. seldb' = [seldb EXCEPT ![c] = r.arg]
        BY <2>1 DEF Execute
      <3> QED  BY <3>1, <3>2, <3>3 DEF TypeInv, RedisTypeOK
    <2>2. CASE ~(r.cmd = "SELECT" /\ a # ERROR)
      BY <2>2 DEF Execute, TypeInv, RedisTypeOK
    <2> QED  BY <2>1, <2>2
  <1>7. store' \in [ServerDbs -> [Keys -> Cells]]
    <2>1. CASE r.cmd \in Writes /\ a # ERROR
      <3>1. r.key \in Keys /\ CellOf(r) \in Cells
        BY <1>1, <2>1, RequestShape
      <3>2. store' = [store EXCEPT ![db][r.key] = CellOf(r)]
        BY <2>1 DEF Execute, Writes
      <3> QED  BY <1>1, <3>1, <3>2 DEF TypeInv, RedisTypeOK
    <2>2. CASE ~(r.cmd \in Writes /\ a # ERROR)
      BY <2>2 DEF Execute, TypeInv, RedisTypeOK, Writes
    <2> QED  BY <2>1, <2>2
  <1>8. req' \in [Contexts -> Requests \cup {NULL}]
    BY DEF Execute, TypeInv
  <1>9. Fresh'
    BY <1>1 DEF Execute, TypeInv, Fresh, contexts
  <1>10. RedisTypeOK'
    BY <1>5, <1>6, <1>7 DEF Execute, TypeInv, RedisTypeOK, object, contexts
  <1> QED
    BY <1>4, <1>6, <1>8, <1>9, <1>10 DEF Execute, TypeInv, CallOK, object, contexts, history

LEMMA TypeStep ==
  ASSUME TypeInv, [Next]_vars
  PROVE  TypeInv'
  <1> USE DEF TypeInv, RedisTypeOK, CallOK, Fresh
  <1>1. ASSUME NEW port \in BOOLEAN, NEW db \in Dbs, NEW pw \in Passwords, ClientInit(port, db, pw)
        PROVE  TypeInv'
    <2>1. calls' \in 0 .. MaxCalls
      BY <1>1, RedisAssumption DEF ClientInit, Call
    <2>2. /\ m_nPort' \in BOOLEAN /\ m_nDBNum' \in Dbs \cup {0}
          /\ m_szPassword' \in Passwords \cup {NULL}
      BY <1>1 DEF ClientInit
    <2>3. UNCHANGED <<m_pRedisContext, pc, call, contexts, server, history>>
      BY <1>1 DEF ClientInit
    <2> QED  BY <2>1, <2>2, <2>3 DEF contexts, server, history
  <1>2. CASE Uninit
    <2>1. calls' \in 0 .. MaxCalls /\ pc = "idle"
      BY <1>2, RedisAssumption DEF Uninit, Call
    <2>2. /\ m_nPort' \in BOOLEAN /\ m_nDBNum' \in Dbs \cup {0}
          /\ m_szPassword' \in Passwords \cup {NULL}
      BY <1>2 DEF Uninit
    <2>3. /\ m_pRedisContext' = NULL /\ allocated' \subseteq allocated
          /\ UNCHANGED <<pc, call, made, err, server, usedb, known, doubtful>>
      BY <1>2 DEF Uninit, _FreeRes
    <2> QED  BY <2>1, <2>2, <2>3 DEF server
  <1>3. CASE Connect2Redis
    BY <1>3, ConnectTypes DEF Connect2Redis
  <1>4. CASE ReConnect2Redis
    BY <1>4, ConnectTypes DEF ReConnect2Redis
  <1>4a. CASE ConnectRefused
    BY <1>4a DEF ConnectRefused, ConnectFailed, server
  <1>5. CASE _Auth
    <2>1. SelectRequest \in Requests
      BY DEF SelectRequest, Requests, AnyKey, DbsUsed
    <2>2. CASE ConnectFailed(m_pRedisContext) /\ UNCHANGED <<req, rep>>
      BY <1>5, <2>2 DEF _Auth, ConnectFailed
    <2>3. CASE /\ Request(m_pRedisContext, SelectRequest)
               /\ rep' = [rep EXCEPT ![m_pRedisContext] = NULL]
               /\ pc' = "_SelectDB"
               /\ UNCHANGED <<m_pRedisContext, allocated, ready, usedb, call>>
      BY <1>5, <2>1, <2>3 DEF _Auth, Request
    <2> QED  BY <1>5, <2>2, <2>3 DEF _Auth
  <1>6. CASE _SelectDB
    <2>1. CASE ConnectFailed(m_pRedisContext) /\ UNCHANGED rep
      BY <1>6, <2>1 DEF _SelectDB, ConnectFailed
    <2>2. CASE /\ ready' = TRUE /\ usedb' = m_nDBNum
               /\ rep' = [rep EXCEPT ![m_pRedisContext] = NULL]
               /\ pc' = "idle"
               /\ UNCHANGED <<m_pRedisContext, allocated, call>>
      BY <1>6, <2>2 DEF _SelectDB, DbsUsed
    <2> QED  BY <1>6, <2>1, <2>2 DEF _SelectDB
  <1>7. ASSUME NEW f, NEW r \in Requests, NEW n \in Nat, Command(f, r, n), r.key \in Keys,
               \/ f \in {"SetString", "SetByte"} /\ r.cmd = "SET"
               \/ f = "HSetByte" /\ r.cmd = "HSET"
               \/ f \in {"GetString", "GetByte"} /\ r.cmd = "GET"
               \/ f = "HGetByte" /\ r.cmd = "HGET"
        PROVE  TypeInv'
    <2>1. calls' \in 0 .. MaxCalls
      BY <1>7, RedisAssumption DEF Command, Call
    <2>2. CASE pc' = "crashed" /\ UNCHANGED <<call, req, rep>>
      BY <1>7, <2>1, <2>2 DEF Command, object, contexts, history
    <2>3. CASE /\ m_pRedisContext # NULL
               /\ pc' = "reply"
               /\ call' = [f |-> f, r |-> r, n |-> n]
               /\ Request(m_pRedisContext, r)
               /\ rep' = [rep EXCEPT ![m_pRedisContext] = NULL]
      <3>1. call'.f = f /\ call'.r = r /\ call'.n = n
        BY <2>3
      <3>2. CallOK'
        BY <1>7, <3>1
      <3>3. /\ req' \in [Contexts -> Requests \cup {NULL}]
            /\ rep' \in [Contexts -> Replies \cup {NULL}]
        BY <1>7, <2>3 DEF Request
      <3>4. Fresh'
        BY <1>7, <2>3 DEF Request, Command, object, contexts
      <3> QED  BY <1>7, <2>1, <2>3, <3>2, <3>3, <3>4 DEF Command, object, contexts, history
    <2> QED  BY <1>7, <2>2, <2>3 DEF Command
  <1>8. ASSUME NEW k \in Keys, NEW v \in Values, SetString(k, v) \/ SetByte(k, v) \/ HSetByte(k, v)
        PROVE  TypeInv'
    <2>1. \A cmd \in Writes : [cmd |-> cmd, key |-> k, arg |-> v] \in Requests
      BY DEF Requests
    <2> QED  BY <1>7, <1>8, <2>1 DEF SetString, SetByte, HSetByte, Writes
  <1>9. ASSUME NEW k \in Keys, NEW n \in Lengths, GetString(k, n) \/ GetByte(k, n) \/ HGetByte(k, n)
        PROVE  TypeInv'
    <2>1. \A cmd \in Reads : [cmd |-> cmd, key |-> k, arg |-> NULL] \in Requests
      BY DEF Requests
    <2>2. n \in Nat
      BY RedisAssumption
    <2> QED  BY <1>7, <1>9, <2>1, <2>2 DEF GetString, GetByte, HGetByte, Reads
  <1>10. CASE SetReturn
    <2> DEFINE k == call.r.key
               w == {CellOf(call.r)}
    <2>1. call.r \in Requests /\ call.r.cmd \in Writes /\ k \in Keys
      BY <1>10 DEF SetReturn, Writes
    <2>2. w \subseteq Cells
      BY <2>1, RequestShape
    <2>3. /\ known' \in [DbsUsed -> [Keys -> SUBSET Cells]]
          /\ doubtful' \in [DbsUsed -> [Keys -> SUBSET Cells]]
      <3>1. CASE /\ known' = [known EXCEPT ![usedb][k] = w \cup doubtful[usedb][k]]
                 /\ UNCHANGED doubtful
        BY <2>1, <2>2, <3>1
      <3>2. CASE /\ known' = [known EXCEPT ![usedb][k] = @ \cup w]
                 /\ doubtful' = [doubtful EXCEPT ![usedb][k] = @ \cup w]
        BY <2>1, <2>2, <3>2
      <3> QED  BY <1>10, <3>1, <3>2 DEF SetReturn
    <2> QED  BY <1>10, <2>3 DEF SetReturn, Return, object, contexts, server
  <1>11. CASE GetReturn
    BY <1>11 DEF GetReturn, Return, object, contexts, server, history
  <1>12. ASSUME NEW c \in Contexts, Execute(c) PROVE TypeInv'
    BY <1>12, ExecuteTypes
  <1>13. ASSUME NEW c \in Contexts, Break(c) PROVE TypeInv'
    <2>1. err' \in [Contexts -> BOOLEAN] /\ req' \in [Contexts -> Requests \cup {NULL}]
      BY <1>13 DEF Break
    <2>2. \A d \in Contexts \ made : d # c
      BY <1>13 DEF Break
    <2>3. Fresh'
      BY <1>13, <2>2 DEF Break
    <2> QED  BY <1>13, <2>1, <2>3 DEF Break, object, history
  <1>14. CASE UNCHANGED vars
    BY <1>14 DEF vars, object, contexts, server, history
  <1> QED
    BY <1>1, <1>2, <1>3, <1>4, <1>4a, <1>5, <1>6, <1>8, <1>9, <1>10, <1>11, <1>12, <1>13, <1>14
    DEF Next, ClientStep

\* The variables of the object, of its contexts and of the server keep their
\* types, for any server, any values and any number of calls.
THEOREM ClientTyped == Spec => []RedisTypeOK
  <1>1. TypeInv => RedisTypeOK
    BY DEF TypeInv
  <1> QED  BY <1>1, TypeInit, TypeStep, PTL DEF Spec

-----------------------------------------------------------------------------
(* What the Get functions read                                             *)

\* The server executes what it permits on connection c in database d.
OnDb(c, d) == Permitted(c) => seldb[c] = d

\* The request on connection c is that of the call in progress.
Current(c) ==
  /\ c = m_pRedisContext
  /\ \/ pc = "_Auth" /\ req[c].cmd = "AUTH"
     \/ pc = "_SelectDB" /\ req[c].cmd = "SELECT" /\ req[c].arg = m_nDBNum
     \/ pc = "reply" /\ req[c] = call.r /\ OnDb(c, usedb)

\* It is one of a connection given up, and if it is a write that can still take
\* effect, its caller was told that it failed.
Abandoned(c) ==
  /\ c # m_pRedisContext \/ err[c]
  /\ req[c].cmd \in Writes /\ Permitted(c)
       => CellOf(req[c]) \in doubtful[seldb[c]][req[c].key]

Pending == \A c \in Contexts : req[c] # NULL => Current(c) \/ Abandoned(c)

\* A reply that can be received leaves nothing under way.
OneReply == \A c \in Contexts : rep[c] # NULL /\ ~err[c] => req[c] = NULL

\* A client whose connect returned 1 works in the database it asked for.
Selected ==
  m_pRedisContext # NULL /\ ~err[m_pRedisContext] =>
    /\ pc \in {"idle", "reply"} => OnDb(m_pRedisContext, usedb)
    /\ pc = "_SelectDB" /\ rep[m_pRedisContext] # NULL => OnDb(m_pRedisContext, m_nDBNum)

\* The write in progress, if it is one of key k in database d.
Mine(d, k) ==
  IF pc = "reply" /\ call.r.cmd \in Writes /\ d = usedb /\ k = call.r.key
  THEN {CellOf(call.r)} ELSE {}

\* What the server stores is known to the caller, or is being written.
StoreKnown ==
  \A d \in DbsUsed, k \in Keys :
    /\ store[d][k] \in known[d][k] \cup Mine(d, k)
    /\ doubtful[d][k] \subseteq known[d][k]

\* The reply to a write says that it was done, and only a write that was
\* reported as failed can have come after it; the reply to a read is a value
\* the caller can expect.
AnswerTrue ==
  pc = "reply" /\ ~err[m_pRedisContext] /\ rep[m_pRedisContext] # NULL =>
    LET r == rep[m_pRedisContext]
        k == call.r.key
    IN  /\ call.r.cmd \in Writes /\ r.type # "ERROR"
             => store[usedb][k] \in {CellOf(call.r)} \cup doubtful[usedb][k]
        /\ call.r.cmd \in Reads /\ r.type = "STRING"
             => \E cell \in known[usedb][k] :
                  /\ cell.val = r.str
                  /\ cell.type = IF call.r.cmd = "GET" THEN "string" ELSE "hash"

ReadInv == Pending /\ OneReply /\ Selected /\ StoreKnown /\ AnswerTrue /\ ReadsKnownValue

LEMMA LeastNat ==
  ASSUME NEW T, T \subseteq Nat, T # {}
  PROVE  \E i \in T : \A j \in T : i <= j
  <1>1. PICK i \in T : \A j \in T : ~(<<j, i>> \in OpToRel(<, Nat))
    BY NatLessThanWellFounded, WFMin, Zenon
  <1>2. \A j \in T : ~(j < i)
    BY <1>1 DEF OpToRel
  <1> QED  BY <1>2

\* The bytes before the first NUL are no more than there are.
LEMMA BeforeNulLen ==
  ASSUME NEW v \in Seq(Nat)
  PROVE  BeforeNul(v) \in Seq(Nat) /\ Len(BeforeNul(v)) <= Len(v)
  <1> DEFINE P(i) == (\A j \in 1 .. i : v[j] # 0) /\ (i = Len(v) \/ v[i + 1] = 0)
             T == {i \in 0 .. Len(v) : i = Len(v) \/ v[i + 1] = 0}
  <1>1. PICK i \in T : \A j \in T : i <= j
    <2>1. T \subseteq Nat /\ Len(v) \in T
      OBVIOUS
    <2> QED  BY <2>1, LeastNat
  <1>2. i \in 0 .. Len(v) /\ P(i)
    <2>1. \A j \in 1 .. i : v[j] # 0
      <3> SUFFICES ASSUME NEW j \in 1 .. i, v[j] = 0 PROVE FALSE
        OBVIOUS
      <3>1. j - 1 \in T /\ j \in Int /\ i \in Int /\ j <= i
        OBVIOUS
      <3>2. i <= j - 1
        BY <1>1, <3>1
      <3> QED  BY <3>1, <3>2
    <2> QED  BY <2>1
  <1>3. PICK n \in 0 .. Len(v) : BeforeNul(v) = SubSeq(v, 1, n)
    <2>1. (CHOOSE n \in 0 .. Len(v) : P(n)) \in 0 .. Len(v)
      BY <1>2
    <2> QED  BY <2>1 DEF BeforeNul
  <1> QED  BY <1>3

LEMMA FirstLen ==
  ASSUME NEW v \in Seq(Nat), NEW n \in Nat
  PROVE  First(v, n) \in Seq(Nat) /\ Len(First(v, n)) <= n
  BY DEF First

\* While no call is in progress, every request under way is abandoned.
LEMMA IdleAbandoned ==
  ASSUME Pending, pc = "idle", NEW c \in Contexts, req[c] # NULL
  PROVE  Abandoned(c)
  BY DEF Pending, Current

\* A reply is received on a connection without error, and nothing is under way.
LEMMA Received ==
  ASSUME TypeInv, OneReply, pc \in {"_Auth", "_SelectDB", "reply"},
         NEW r, Receive(m_pRedisContext, r)
  PROVE  /\ m_pRedisContext \in Contexts
         /\ r # NULL => /\ ~err[m_pRedisContext] /\ r = rep[m_pRedisContext]
                        /\ req[m_pRedisContext] = NULL
         /\ r = NULL => err[m_pRedisContext]
  BY DEF TypeInv, RedisTypeOK, OneReply, Receive, Answered

LEMMA ConnectReads ==
  ASSUME TypeInv, ReadInv, NEW old \in {m_pRedisContext, NULL}, Call, _Connect(old),
         UNCHANGED <<last, authed, seldb, store, known, doubtful>>
  PROVE  ReadInv'
  <1> USE DEF ReadInv
  <1>0. pc = "idle" /\ pc' \in {"idle", "Exit0", "_Auth"} /\ UNCHANGED usedb
    BY DEF Call, _Connect, ConnectFailed
  <1>1. ReadsKnownValue'
    BY DEF ReadsKnownValue
  <1>2. StoreKnown'
    BY <1>0 DEF StoreKnown, Mine
  <1>3. AnswerTrue'
    BY <1>0 DEF AnswerTrue
  <1>4. CASE /\ old # NULL
             /\ m_pRedisContext' = old
             /\ Request(old, AuthRequest)
             /\ rep' = [rep EXCEPT ![old] = NULL]
             /\ pc' = "_Auth"
             /\ UNCHANGED err
    <2>0. old \in Contexts /\ old = m_pRedisContext
      BY <1>4 DEF TypeInv, RedisTypeOK
    <2>1. Pending'
      <3> SUFFICES ASSUME NEW c \in Contexts, req'[c] # NULL PROVE Current(c)' \/ Abandoned(c)'
        BY DEF Pending
      <3>1. CASE c = old /\ ~err[c]
        BY <1>4, <2>0, <3>1 DEF Current, Request, AuthRequest, TypeInv
      <3>2. CASE c # old \/ err[c]
        <4>1. req'[c] = req[c]
          BY <1>4, <2>0, <3>2 DEF Request, TypeInv
        <4>2. Abandoned(c)
          BY <1>0, <4>1, IdleAbandoned
        <4> QED  BY <1>4, <2>0, <4>1, <4>2 DEF Abandoned, Permitted
      <3> QED  BY <3>1, <3>2
    <2>2. OneReply'
      BY <1>4, <2>0 DEF OneReply, Request, TypeInv
    <2>3. Selected'
      BY <1>4 DEF Selected
    <2> QED  BY <1>1, <1>2, <1>3, <2>1, <2>2, <2>3
  <1>5. CASE ConnectFailed(m_pRedisContext) /\ UNCHANGED <<err, req, rep>>
    <2>1. \A c \in Contexts : c # m_pRedisContext'
      BY <1>5, ContextNotNull DEF ConnectFailed
    <2>2. Pending'
      BY <1>0, <1>5, <2>1, IdleAbandoned DEF Pending, Abandoned, Permitted
    <2>3. OneReply'
      BY <1>5 DEF OneReply
    <2>4. Selected'
      BY <1>5 DEF Selected, ConnectFailed
    <2> QED  BY <1>1, <1>2, <1>3, <2>2, <2>3, <2>4
  <1>6. ASSUME NEW n \in Contexts \ made, m_pRedisContext' = n, Request(n, AuthRequest),
               pc' = "_Auth", UNCHANGED <<err, rep>>
        PROVE  ReadInv'
    <2>0. req[n] = NULL /\ rep[n] = NULL /\ ~err[n]
      BY <1>6 DEF TypeInv, Fresh
    <2>1. Pending'
      <3> SUFFICES ASSUME NEW c \in Contexts, req'[c] # NULL PROVE Current(c)' \/ Abandoned(c)'
        BY DEF Pending
      <3>1. CASE c = n
        BY <1>6, <2>0, <3>1 DEF Current, Request, AuthRequest, TypeInv
      <3>2. CASE c # n
        <4>1. req'[c] = req[c]
          BY <1>6, <3>2 DEF Request, TypeInv
        <4>2. Abandoned(c)
          BY <1>0, <4>1, IdleAbandoned
        <4> QED  BY <1>6, <3>2, <4>1, <4>2 DEF Abandoned, Permitted
      <3> QED  BY <3>1, <3>2
    <2>2. OneReply'
      BY <1>6, <2>0 DEF OneReply, Request, TypeInv
    <2>3. Selected'
      BY <1>6 DEF Selected
    <2> QED  BY <1>1, <1>2, <1>3, <2>1, <2>2, <2>3
  <1>7. ASSUME NEW n \in Contexts \ made, m_pRedisContext' = n,
               err' = [err EXCEPT ![n] = TRUE], pc' = "Exit0", UNCHANGED <<req, rep>>
        PROVE  ReadInv'
    <2>0. req[n] = NULL /\ err'[n] /\ \A c \in Contexts \ {n} : err'[c] = err[c]
      BY <1>7 DEF TypeInv, Fresh, RedisTypeOK
    <2>1. Pending'
      <3> SUFFICES ASSUME NEW c \in Contexts \ {n}, req[c] # NULL PROVE Abandoned(c)'
        BY <1>7, <2>0 DEF Pending
      <3>1. Abandoned(c)
        BY <1>0, IdleAbandoned
      <3> QED  BY <1>7, <2>0, <3>1 DEF Abandoned, Permitted
    <2>2. OneReply'
      BY <1>7, <2>0 DEF OneReply
    <2>3. Selected'
      BY <1>7, <2>0 DEF Selected
    <2> QED  BY <1>1, <1>2, <1>3, <2>1, <2>2, <2>3
  <1> QED  BY <1>4, <1>5, <1>6, <1>7 DEF _Connect

LEMMA HandshakeReads ==
  ASSUME TypeInv, ReadInv, ConnectRefused \/ _Auth \/ _SelectDB
  PROVE  ReadInv'
  <1> USE DEF ReadInv
  <1> DEFINE m == m_pRedisContext
  <1>0. /\ pc \in {"Exit0", "_Auth", "_SelectDB"} /\ pc' \in {"idle", "_SelectDB"}
        /\ UNCHANGED <<last, err, authed, seldb, store, known, doubtful, m_nDBNum>>
    BY DEF ConnectRefused, server, _Auth, _SelectDB, ConnectFailed
  <1>1. ReadsKnownValue'
    BY <1>0 DEF ReadsKnownValue
  <1>2. StoreKnown'
    BY <1>0 DEF StoreKnown, Mine
  <1>3. AnswerTrue'
    BY <1>0 DEF AnswerTrue
  <1>4. ASSUME ConnectFailed(m), UNCHANGED <<req, rep>>
        PROVE  ReadInv'
    <2>1. \A c \in Contexts : c # m_pRedisContext'
      BY <1>4, ContextNotNull DEF ConnectFailed
    <2>2. Pending'
      <3> SUFFICES ASSUME NEW c \in Contexts, req'[c] # NULL PROVE Abandoned(c)'
        BY DEF Pending
      <3>1. Current(c) => req[c].cmd \notin Writes
        BY <1>0 DEF Current, Writes
      <3> QED  BY <1>0, <1>4, <2>1, <3>1 DEF Pending, Abandoned, Permitted
    <2>3. OneReply'
      BY <1>0, <1>4 DEF OneReply
    <2>4. Selected'
      BY <1>4 DEF Selected, ConnectFailed
    <2> QED  BY <1>1, <1>2, <1>3, <2>2, <2>3, <2>4
  <1>5. ASSUME ~err[m], req[m] = NULL, m \in Contexts, UNCHANGED m_pRedisContext,
               rep' = [rep EXCEPT ![m] = NULL], pc' = "_SelectDB",
               Request(m, SelectRequest)
        PROVE  ReadInv'
    <2>1. req' = [req EXCEPT ![m] = SelectRequest]
      BY <1>5 DEF Request, TypeInv
    <2>2. Pending'
      <3> SUFFICES ASSUME NEW c \in Contexts, req'[c] # NULL PROVE Current(c)' \/ Abandoned(c)'
        BY DEF Pending
      <3>1. CASE c = m
        BY <1>0, <1>5, <2>1, <3>1 DEF Current, SelectRequest, TypeInv
      <3>2. CASE c # m
        BY <1>0, <1>5, <2>1, <3>2 DEF Pending, Current, Abandoned, Permitted, TypeInv
      <3> QED  BY <3>1, <3>2
    <2>3. OneReply'
      BY <1>0, <1>5, <2>1 DEF OneReply, TypeInv
    <2>4. Selected'
      BY <1>5 DEF Selected, TypeInv
    <2> QED  BY <1>1, <1>2, <1>3, <2>2, <2>3, <2>4
  <1>6. ASSUME ~err[m], req[m] = NULL, m \in Contexts, UNCHANGED <<m_pRedisContext, req>>,
               rep[m] # NULL, pc = "_SelectDB",
               rep' = [rep EXCEPT ![m] = NULL], pc' = "idle", usedb' = m_nDBNum
        PROVE  ReadInv'
    <2>1. Pending'
      <3> SUFFICES ASSUME NEW c \in Contexts, req'[c] # NULL PROVE Abandoned(c)'
        BY DEF Pending
      <3> QED  BY <1>0, <1>6 DEF Pending, Current, Abandoned, Permitted
    <2>2. OneReply'
      BY <1>0, <1>6 DEF OneReply, TypeInv
    <2>3. OnDb(m, m_nDBNum)
      BY <1>6, ContextNotNull DEF Selected
    <2>4. Selected'
      BY <1>0, <1>6, <2>3 DEF Selected, OnDb, Permitted
    <2> QED  BY <1>1, <1>2, <1>3, <2>1, <2>2, <2>4
  <1>7. CASE _Auth
    <2>1. PICK r \in {rep[m], NULL} :
            /\ Receive(m, r)
            /\ IF r = NULL
               THEN ConnectFailed(m) /\ UNCHANGED <<req, rep>>
               ELSE /\ Request(m, SelectRequest)
                    /\ rep' = [rep EXCEPT ![m] = NULL]
                    /\ pc' = "_SelectDB"
                    /\ UNCHANGED m_pRedisContext
      BY <1>7 DEF _Auth
    <2>2. pc = "_Auth"
      BY <1>7 DEF _Auth
    <2> QED  BY <1>0, <1>4, <1>5, <2>1, <2>2, Received
  <1>8. CASE _SelectDB
    <2>1. PICK r \in {rep[m], NULL} :
            /\ Receive(m, r)
            /\ IF r = NULL
               THEN ConnectFailed(m) /\ UNCHANGED rep
               ELSE /\ rep' = [rep EXCEPT ![m] = NULL]
                    /\ pc' = "idle" /\ usedb' = m_nDBNum
                    /\ UNCHANGED m_pRedisContext
      BY <1>8 DEF _SelectDB
    <2>2. UNCHANGED req /\ pc = "_SelectDB"
      BY <1>8 DEF _SelectDB
    <2> QED  BY <1>0, <1>4, <1>6, <2>1, <2>2, Received
  <1>9. CASE ConnectRefused
    BY <1>4, <1>9 DEF ConnectRefused, server
  <1> QED  BY <1>7, <1>8, <1>9

LEMMA CommandReads ==
  ASSUME TypeInv, ReadInv, NEW f, NEW r, NEW n, Command(f, r, n)
  PROVE  ReadInv'
  <1> USE DEF ReadInv
  <1> DEFINE m == m_pRedisContext
  <1>0. pc = "idle" /\ UNCHANGED <<m, last, err, authed, seldb, store, usedb, known, doubtful>>
    BY DEF Command, Call, object, contexts, history
  <1>1. ReadsKnownValue'
    BY <1>0 DEF ReadsKnownValue
  <1>2. CASE pc' = "crashed" /\ UNCHANGED <<call, req, rep>>
    <2>1. Pending'
      BY <1>0, <1>2, IdleAbandoned DEF Pending, Abandoned, Permitted
    <2>2. OneReply' /\ Selected' /\ AnswerTrue'
      BY <1>0, <1>2 DEF OneReply, Selected, AnswerTrue
    <2>3. StoreKnown'
      BY <1>0, <1>2 DEF StoreKnown, Mine
    <2> QED  BY <1>1, <2>1, <2>2, <2>3
  <1>3. CASE /\ m # NULL /\ pc' = "reply" /\ call' = [f |-> f, r |-> r, n |-> n]
             /\ Request(m, r) /\ rep' = [rep EXCEPT ![m] = NULL]
    <2>0. m \in Contexts /\ call'.r = r
      BY <1>3 DEF TypeInv, RedisTypeOK
    <2>1. Pending'
      <3> SUFFICES ASSUME NEW c \in Contexts, req'[c] # NULL PROVE Current(c)' \/ Abandoned(c)'
        BY DEF Pending
      <3>1. CASE c = m /\ ~err[c]
        <4>1. OnDb(c, usedb)'
          BY <1>0, <1>3, <3>1 DEF Selected, OnDb, Permitted
        <4> QED  BY <1>0, <1>3, <2>0, <3>1, <4>1 DEF Current, Request, TypeInv
      <3>2. CASE c # m \/ err[c]
        <4>1. req'[c] = req[c]
          BY <1>3, <2>0, <3>2 DEF Request, TypeInv
        <4>2. Abandoned(c)
          BY <1>0, <4>1, IdleAbandoned
        <4> QED  BY <1>0, <4>1, <4>2 DEF Abandoned, Permitted
      <3> QED  BY <3>1, <3>2
    <2>2. OneReply'
      BY <1>0, <1>3, <2>0 DEF OneReply, Request, TypeInv
    <2>3. Selected'
      BY <1>0, <1>3 DEF Selected, OnDb, Permitted
    <2>4. StoreKnown'
      BY <1>0 DEF StoreKnown, Mine
    <2>5. AnswerTrue'
      BY <1>0, <1>3, <2>0 DEF AnswerTrue, TypeInv
    <2> QED  BY <1>1, <2>1, <2>2, <2>3, <2>4, <2>5
  <1> QED  BY <1>2, <1>3 DEF Command

LEMMA SetReturnReads ==
  ASSUME TypeInv, ReadInv, SetReturn
  PROVE  ReadInv'
  <1> USE DEF ReadInv
  <1> DEFINE m == m_pRedisContext
             k == call.r.key
             w == {CellOf(call.r)}
             db == usedb
  <1>0. /\ pc = "reply" /\ pc' = "idle"
        /\ UNCHANGED <<m, last, err, req, rep, authed, seldb, store, usedb>>
    BY DEF SetReturn, Return, object, contexts, server
  <1>1. call.r.cmd \in Writes /\ k \in Keys /\ db \in DbsUsed /\ m \in Contexts
    BY DEF SetReturn, TypeInv, CallOK, RedisTypeOK, Writes
  <1>2. PICK r \in {rep[m], NULL} :
          /\ Receive(m, r)
          /\ IF SetOk(r)
             THEN /\ known' = [known EXCEPT ![db][k] = w \cup doubtful[db][k]]
                  /\ UNCHANGED doubtful
             ELSE /\ known' = [known EXCEPT ![db][k] = @ \cup w]
                  /\ doubtful' = [doubtful EXCEPT ![db][k] = @ \cup w]
    BY DEF SetReturn
  <1>3. /\ r # NULL => ~err[m] /\ r = rep[m] /\ req[m] = NULL
        /\ r = NULL => err[m]
    BY <1>0, <1>2, Received
  <1>4. \A d \in DbsUsed, l \in Keys :
          /\ doubtful[d][l] \subseteq doubtful'[d][l]
          /\ doubtful'[d][l] \subseteq known'[d][l]
          /\ d # db \/ l # k => known'[d][l] = known[d][l]
    <2>1. CASE SetOk(r)
      BY <1>1, <1>2, <2>1 DEF TypeInv, StoreKnown
    <2>2. CASE ~SetOk(r)
      BY <1>1, <1>2, <2>2 DEF TypeInv, StoreKnown
    <2> QED  BY <2>1, <2>2
  <1>5. Pending'
    <2> SUFFICES ASSUME NEW c \in Contexts, req'[c] # NULL PROVE Abandoned(c)'
      BY DEF Pending
    <2>1. CASE Current(c)
      <3>1. c = m /\ req[c] = call.r /\ OnDb(c, db) /\ r = NULL /\ err[c]
        BY <1>0, <1>3, <2>1 DEF Current
      <3>2. CellOf(call.r) \in doubtful'[db][k]
        BY <1>1, <1>2, <3>1 DEF TypeInv, SetOk
      <3> QED  BY <1>0, <3>1, <3>2 DEF Abandoned, OnDb, Permitted
    <2>2. CASE Abandoned(c)
      <3>1. req[c].cmd \in Writes => req[c].key \in Keys /\ seldb[c] \in DbsUsed
        BY <1>0, RequestShape DEF TypeInv
      <3> QED  BY <1>0, <1>4, <2>2, <3>1 DEF Abandoned, Permitted
    <2> QED  BY <1>0, <2>1, <2>2 DEF Pending
  <1>6. OneReply' /\ AnswerTrue' /\ ReadsKnownValue'
    BY <1>0 DEF OneReply, AnswerTrue, ReadsKnownValue
  <1>7. Selected'
    BY <1>0 DEF Selected, OnDb, Permitted
  <1>8. StoreKnown'
    <2> SUFFICES ASSUME NEW d \in DbsUsed, NEW l \in Keys PROVE store[d][l] \in known'[d][l]
      BY <1>0, <1>4 DEF StoreKnown, Mine
    <2>1. CASE d # db \/ l # k
      BY <1>4, <2>1 DEF StoreKnown, Mine
    <2>2. CASE d = db /\ l = k
      <3>1. store[db][k] \in known[db][k] \cup w
        BY <1>0, <1>1 DEF StoreKnown, Mine
      <3>2. CASE SetOk(r)
        <4>1. store[db][k] \in w \cup doubtful[db][k]
          BY <1>0, <1>1, <1>3, <3>2 DEF SetOk, AnswerTrue
        <4>2. known'[db][k] = w \cup doubtful[db][k]
          BY <1>1, <1>2, <3>2 DEF TypeInv
        <4> QED  BY <2>2, <4>1, <4>2
      <3>3. CASE ~SetOk(r)
        <4>1. known'[db][k] = known[db][k] \cup w
          BY <1>1, <1>2, <3>3 DEF TypeInv
        <4> QED  BY <2>2, <3>1, <4>1
      <3> QED  BY <3>2, <3>3
    <2> QED  BY <2>1, <2>2
  <1> QED  BY <1>5, <1>6, <1>7, <1>8

LEMMA GetReturnReads ==
  ASSUME TypeInv, ReadInv, GetReturn
  PROVE  ReadInv'
  <1> USE DEF ReadInv
  <1> DEFINE m == m_pRedisContext
             k == call.r.key
  <1>0. /\ pc = "reply" /\ pc' = "idle"
        /\ UNCHANGED <<m, err, req, rep, authed, seldb, store, usedb, known, doubtful>>
    BY DEF GetReturn, Return, object, contexts, server, history
  <1>1. /\ call.r.cmd \in Reads /\ call.r.cmd \notin Writes
        /\ call.r.cmd = IF call.f = "HGetByte" THEN "HGET" ELSE "GET"
        /\ k \in Keys /\ call.n \in Nat /\ usedb \in DbsUsed
        /\ call.f \in {"GetString", "GetByte", "HGetByte"}
    BY DEF GetReturn, TypeInv, CallOK, Reads, Writes
  <1>2. PICK r \in {rep[m], NULL} :
          /\ Receive(m, r)
          /\ last' = IF GetOk(call.f, call.n, r)
                     THEN [f |-> call.f, n |-> call.n, out |-> Copied(call.f, call.n, r.str),
                           expected |-> known[usedb][k]]
                     ELSE NULL
    BY DEF GetReturn
  <1>3. /\ r # NULL => ~err[m] /\ r = rep[m] /\ req[m] = NULL
        /\ r = NULL => err[m]
    BY <1>0, <1>2, Received
  <1>4. Pending'
    <2> SUFFICES ASSUME NEW c \in Contexts, req'[c] # NULL PROVE Abandoned(c)'
      BY DEF Pending
    <2>1. CASE Current(c)
      BY <1>0, <1>1, <1>3, <2>1 DEF Current, Abandoned
    <2>2. CASE Abandoned(c)
      BY <1>0, <2>2 DEF Abandoned, Permitted
    <2> QED  BY <1>0, <2>1, <2>2 DEF Pending
  <1>5. OneReply' /\ AnswerTrue'
    BY <1>0 DEF OneReply, AnswerTrue
  <1>6. Selected'
    BY <1>0 DEF Selected, OnDb, Permitted
  <1>7. StoreKnown'
    BY <1>0, <1>1 DEF StoreKnown, Mine
  <1>8. ReadsKnownValue'
    <2>1. CASE ~GetOk(call.f, call.n, r)
      BY <1>2, <2>1 DEF ReadsKnownValue
    <2>2. CASE GetOk(call.f, call.n, r)
      <3>1. r # NULL /\ r.type = "STRING" /\ (call.f = "GetString" => call.n > Len(r.str))
        BY <2>2 DEF GetOk
      <3>2. PICK cell \in known[usedb][k] :
              /\ cell.val = r.str
              /\ cell.type = IF call.r.cmd = "GET" THEN "string" ELSE "hash"
        BY <1>0, <1>1, <1>3, <3>1 DEF AnswerTrue
      <3>3. r.str \in Seq(Nat)
        BY <1>1, <3>2, RedisAssumption DEF TypeInv, Cells, None
      <3>4. last' = [f |-> call.f, n |-> call.n, out |-> Copied(call.f, call.n, r.str),
                     expected |-> known[usedb][k]]
        BY <1>2, <2>2
      <3>5. /\ last'.f = call.f /\ last'.n = call.n
            /\ last'.out = Copied(call.f, call.n, r.str) /\ last'.expected = known[usedb][k]
        BY <3>4
      <3>6. /\ Len(BeforeNul(r.str)) <= Len(r.str) /\ Len(BeforeNul(r.str)) \in Int
            /\ Len(First(r.str, call.n)) <= call.n /\ Len(First(r.str, call.n)) \in Int
            /\ Len(r.str) \in Int
        BY <1>1, <3>3, BeforeNulLen, FirstLen
      <3>7. Len(last'.out) + (IF last'.f = "GetString" THEN 1 ELSE 0) <= last'.n
        BY <1>1, <3>1, <3>5, <3>6 DEF Copied
      <3>8. cell.type = IF last'.f = "HGetByte" THEN "hash" ELSE "string"
        BY <1>1, <3>2, <3>5
      <3>9. last'.out = IF last'.f = "GetString" THEN BeforeNul(cell.val)
                        ELSE First(cell.val, last'.n)
        BY <3>2, <3>5 DEF Copied
      <3> QED  BY <3>2, <3>5, <3>7, <3>8, <3>9 DEF ReadsKnownValue
    <2> QED  BY <2>1, <2>2
  <1> QED  BY <1>4, <1>5, <1>6, <1>7, <1>8

\* The step of the server: the only one in which a write takes effect, and the
\* one that needs the server to have every database that Init can be given.
LEMMA ExecuteReads ==
  ASSUME Dbs \subseteq ServerDbs, TypeInv, ReadInv, NEW e \in Contexts, Execute(e)
  PROVE  ReadInv'
  <1> USE DEF ReadInv
  <1> DEFINE m == m_pRedisContext
             r == req[e]
             db == seldb[e]
             a == Respond(e, r, store[db][r.key])
  <1>0. UNCHANGED <<m, m_nDBNum, pc, call, last, err, usedb, known, doubtful>>
    BY DEF Execute, object, contexts, history
  <1>1. r # NULL /\ r \in Requests /\ db \in DbsUsed /\ db \in ServerDbs
    BY DEF Execute, TypeInv, RedisTypeOK
  <1>2. /\ req' = [req EXCEPT ![e] = NULL] /\ rep' = [rep EXCEPT ![e] = a]
        /\ authed' = IF r.cmd = "AUTH" THEN [authed EXCEPT ![e] = (a # ERROR)] ELSE authed
        /\ seldb' = IF r.cmd = "SELECT" /\ a # ERROR THEN [seldb EXCEPT ![e] = r.arg] ELSE seldb
        /\ store' = IF r.cmd \in Writes /\ a # ERROR
                    THEN [store EXCEPT ![db][r.key] = CellOf(r)] ELSE store
    BY DEF Execute, Writes
  <1>w. r.cmd \in Writes /\ a # ERROR => store' = [store EXCEPT ![db][r.key] = CellOf(r)]
    BY DEF Execute, Writes
  <1>3. Current(e) \/ Abandoned(e)
    BY <1>1 DEF Pending
  <1>4. \A c \in Contexts \ {e} :
          /\ req'[c] = req[c] /\ rep'[c] = rep[c]
          /\ authed'[c] = authed[c] /\ seldb'[c] = seldb[c]
    BY <1>2 DEF TypeInv, RedisTypeOK
  <1>5. req'[e] = NULL /\ rep'[e] = a
    BY <1>2 DEF TypeInv
  <1> HIDE DEF a
  <1>6. r.cmd \notin {"AUTH", "SELECT"} => UNCHANGED <<authed, seldb>>
    BY <1>2
  <1>7. Pending'
    <2> SUFFICES ASSUME NEW c \in Contexts \ {e}, req'[c] # NULL PROVE Current(c)' \/ Abandoned(c)'
      BY <1>5 DEF Pending
    <2>1. Current(c) \/ Abandoned(c)
      BY <1>4 DEF Pending
    <2> QED  BY <1>0, <1>4, <2>1 DEF Current, Abandoned, OnDb, Permitted
  <1>8. OneReply'
    BY <1>0, <1>4, <1>5 DEF OneReply
  <1>9. ReadsKnownValue'
    BY <1>0 DEF ReadsKnownValue
  <1>10. Selected'
    <2> SUFFICES ASSUME m # NULL, ~err[m]
                 PROVE  /\ pc \in {"idle", "reply"} => OnDb(m, usedb)'
                        /\ pc = "_SelectDB" /\ rep'[m] # NULL => OnDb(m, m_nDBNum)'
      BY <1>0 DEF Selected
    <2>0. m \in Contexts
      BY DEF TypeInv, RedisTypeOK
    <2>1. CASE m # e
      BY <1>0, <1>4, <2>0, <2>1 DEF Selected, OnDb, Permitted
    <2>2. CASE m = e
      <3>1. Current(e)
        BY <1>3, <2>2 DEF Abandoned
      <3>2. CASE pc \in {"idle", "reply"}
        <4>1. r = call.r /\ OnDb(m, usedb) /\ pc = "reply"
          BY <2>2, <3>1, <3>2 DEF Current
        <4>2. r.cmd \in Writes \cup Reads
          BY <4>1 DEF TypeInv, CallOK, Writes, Reads
        <4>3. UNCHANGED <<authed, seldb>>
          BY <1>6, <4>2 DEF Writes, Reads
        <4> QED  BY <1>0, <3>2, <4>1, <4>3 DEF OnDb, Permitted
      <3>3. CASE pc = "_SelectDB"
        <4>1. r.cmd = "SELECT" /\ r.arg = m_nDBNum
          BY <3>1, <3>3 DEF Current
        <4>2. r.arg \in ServerDbs
          BY <1>1, <4>1, RequestShape, RedisAssumption DEF DbsUsed
        <4>3. UNCHANGED authed
          BY <1>2, <4>1
        <4>4. Permitted(e) => a = Reply("STATUS", <<>>)
          BY <4>1, <4>2, RespondCases DEF a
        <4>5. Reply("STATUS", <<>>) # ERROR
          BY DEF Reply, ERROR
        <4>6. Permitted(e) => seldb'[e] = m_nDBNum
          BY <1>2, <4>1, <4>4, <4>5 DEF TypeInv
        <4> QED  BY <1>0, <2>2, <3>3, <4>3, <4>6 DEF OnDb, Permitted
      <3>4. CASE pc \notin {"idle", "reply", "_SelectDB"}
        BY <3>4
      <3> QED  BY <3>2, <3>3, <3>4
    <2> QED  BY <2>1, <2>2
  <1>11. r.cmd \in Writes /\ a # ERROR =>
           /\ r.key \in Keys /\ Permitted(e)
           /\ \/ CellOf(r) \in doubtful[db][r.key]
              \/ e = m /\ pc = "reply" /\ r = call.r /\ db = usedb
    <2> SUFFICES ASSUME r.cmd \in Writes, a # ERROR
                 PROVE  /\ r.key \in Keys /\ Permitted(e)
                        /\ \/ CellOf(r) \in doubtful[db][r.key]
                           \/ e = m /\ pc = "reply" /\ r = call.r /\ db = usedb
      OBVIOUS
    <2>1. r.key \in Keys
      BY <1>1, RequestShape
    <2>2. Permitted(e)
      BY RespondCases DEF a, Writes
    <2> QED  BY <1>3, <2>1, <2>2 DEF Current, Abandoned, OnDb, Writes
  <1>12. \A d \in DbsUsed, l \in Keys :
           \/ store'[d][l] = store[d][l]
           \/ /\ r.cmd \in Writes /\ a # ERROR
              /\ d = db /\ l = r.key /\ store'[d][l] = CellOf(r)
    <2>1. DbsUsed \subseteq ServerDbs
      BY RedisAssumption DEF DbsUsed
    <2> QED  BY <1>1, <1>2, <1>11, <2>1 DEF TypeInv, RedisTypeOK
  <1>13. StoreKnown'
    <2> SUFFICES ASSUME NEW d \in DbsUsed, NEW l \in Keys
                 PROVE  /\ store'[d][l] \in known[d][l] \cup Mine(d, l)
                        /\ doubtful[d][l] \subseteq known[d][l]
      BY <1>0 DEF StoreKnown, Mine
    <2>1. /\ store[d][l] \in known[d][l] \cup Mine(d, l)
          /\ doubtful[d][l] \subseteq known[d][l]
      BY DEF StoreKnown
    <2>2. CASE r.cmd \in Writes /\ a # ERROR /\ d = db /\ l = r.key /\ store'[d][l] = CellOf(r)
      BY <1>11, <2>1, <2>2 DEF Mine
    <2> QED  BY <1>12, <2>1, <2>2
  <1>14. AnswerTrue'
    <2> SUFFICES ASSUME pc = "reply", ~err[m], rep'[m] # NULL
                 PROVE  LET k == call.r.key
                        IN  /\ call.r.cmd \in Writes /\ rep'[m].type # "ERROR"
                                 => store'[usedb][k] \in {CellOf(call.r)} \cup doubtful[usedb][k]
                            /\ call.r.cmd \in Reads /\ rep'[m].type = "STRING"
                                 => \E cell \in known[usedb][k] :
                                      /\ cell.val = rep'[m].str
                                      /\ cell.type = IF call.r.cmd = "GET" THEN "string" ELSE "hash"
      BY <1>0 DEF AnswerTrue
    <2> DEFINE k == call.r.key
    <2>0. k \in Keys /\ usedb \in DbsUsed /\ m \in Contexts
      BY DEF TypeInv, CallOK, RedisTypeOK
    <2>1. CASE m # e
      <3>1. rep'[m] = rep[m]
        BY <1>4, <2>0, <2>1
      <3>2. store'[usedb][k] \in {store[usedb][k]} \cup doubtful[usedb][k]
        BY <1>11, <1>12, <2>0, <2>1
      <3> QED  BY <3>1, <3>2 DEF AnswerTrue
    <2>2. CASE m = e
      <3>1. r = call.r /\ OnDb(m, usedb)
        BY <1>3, <2>2 DEF Current, Abandoned
      <3>2. rep'[m] = a
        BY <1>5, <2>2
      <3>3. ERROR.type = "ERROR"
        BY DEF ERROR, Reply
      <3>4. ASSUME r.cmd \in Writes, a.type # "ERROR"
            PROVE  store'[usedb][k] = CellOf(r)
        <4>1. a # ERROR
          BY <3>3, <3>4
        <4>2. db = usedb /\ db \in ServerDbs /\ r.key = k
          BY <1>1, <1>11, <2>2, <3>1, <3>4, <4>1 DEF OnDb
        <4>3. store' = [store EXCEPT ![db][r.key] = CellOf(r)]
          BY <1>w, <3>4, <4>1, ZenonT(60)
        <4> QED  BY <2>0, <4>2, <4>3 DEF TypeInv, RedisTypeOK
      <3>5. ASSUME r.cmd \in Reads, a.type = "STRING"
            PROVE  \E cell \in known[usedb][k] :
                     /\ cell.val = a.str
                     /\ cell.type = IF r.cmd = "GET" THEN "string" ELSE "hash"
        <4> DEFINE cell == store[db][k]
                   t == IF r.cmd = "GET" THEN "string" ELSE "hash"
        <4>1. Permitted(e)
          BY <3>3, <3>5, RespondCases DEF a, Reads
        <4>2. db = usedb
          BY <2>2, <3>1, <4>1 DEF OnDb
        <4>3. a = ReadReply(cell, t) /\ t \in {"string", "hash"}
          BY <3>1, <3>5, <4>1, RespondCases DEF a, Reads
        <4>4. cell.type = t /\ a = Reply("STRING", cell.val)
          <5>1. Reply("NIL", <<>>).type = "NIL"
            BY DEF Reply
          <5> HIDE DEF cell, t
          <5> QED  BY <3>3, <3>5, <4>3, <5>1, ReadReplyCases
        <4>5. a.str = cell.val
          BY <4>4 DEF Reply
        <4>6. cell \in known[usedb][k]
          BY <2>0, <3>1, <3>5, <4>2 DEF StoreKnown, Mine, Reads, Writes
        <4> QED  BY <4>4, <4>5, <4>6
      <3> QED  BY <3>1, <3>2, <3>4, <3>5
    <2> QED  BY <2>1, <2>2
  <1> QED  BY <1>7, <1>8, <1>9, <1>10, <1>13, <1>14

LEMMA BreakReads ==
  ASSUME TypeInv, ReadInv, NEW b \in Contexts, Break(b)
  PROVE  ReadInv'
  <1> USE DEF ReadInv
  <1>0. UNCHANGED <<m_pRedisContext, m_nDBNum, pc, call, last, rep, authed, seldb, store,
                    usedb, known, doubtful>>
    BY DEF Break, object, history
  <1>1. \A c \in Contexts : /\ err[c] => err'[c]
                            /\ req'[c] \in {req[c], NULL}
    BY DEF Break, TypeInv, RedisTypeOK
  <1>2. Pending'
    <2> SUFFICES ASSUME NEW c \in Contexts, req'[c] # NULL PROVE Current(c)' \/ Abandoned(c)'
      BY DEF Pending
    <2>1. req'[c] = req[c] /\ (Current(c) \/ Abandoned(c))
      BY <1>1 DEF Pending
    <2> QED  BY <1>0, <1>1, <2>1 DEF Current, Abandoned, OnDb, Permitted
  <1>3. OneReply'
    BY <1>0, <1>1 DEF OneReply
  <1>4. m_pRedisContext \in Contexts \cup {NULL}
    BY DEF TypeInv, RedisTypeOK
  <1>5. Selected'
    BY <1>0, <1>1, <1>4 DEF Selected, OnDb, Permitted
  <1>6. StoreKnown' /\ ReadsKnownValue'
    BY <1>0 DEF StoreKnown, Mine, ReadsKnownValue
  <1>7. AnswerTrue'
    <2>1. pc = "reply" => m_pRedisContext \in Contexts
      BY DEF TypeInv, RedisTypeOK
    <2> QED  BY <1>0, <1>1, <2>1 DEF AnswerTrue
  <1> QED  BY <1>2, <1>3, <1>5, <1>6, <1>7

\* A step that leaves the connections and what the server stores alone.
LEMMA QuietReads ==
  ASSUME ReadInv, pc = "idle" \/ UNCHANGED <<pc, call, m_nDBNum>>, pc = "idle" => pc' = "idle",
         m_pRedisContext' \in {m_pRedisContext, NULL}, pc = "idle" \/ UNCHANGED m_pRedisContext,
         UNCHANGED <<last, err, req, rep, authed, seldb, store, usedb, known, doubtful>>
  PROVE  ReadInv'
  <1> USE DEF ReadInv
  <1>1. Pending'
    <2> SUFFICES ASSUME NEW c \in Contexts, req'[c] # NULL PROVE Current(c)' \/ Abandoned(c)'
      BY DEF Pending
    <2>1. CASE pc = "idle"
      <3>1. Abandoned(c)
        BY <2>1, IdleAbandoned
      <3> QED  BY <3>1, ContextNotNull DEF Abandoned, Permitted
    <2>2. CASE pc # "idle"
      BY <2>2 DEF Pending, Current, Abandoned, OnDb, Permitted
    <2> QED  BY <2>1, <2>2
  <1>2. OneReply' /\ ReadsKnownValue' /\ AnswerTrue'
    BY DEF OneReply, ReadsKnownValue, AnswerTrue
  <1>3. Selected'
    BY DEF Selected, OnDb, Permitted
  <1>4. StoreKnown'
    BY DEF StoreKnown, Mine
  <1> QED  BY <1>1, <1>2, <1>3, <1>4

\* With any number of failures, of connections and of requests that reach the
\* server after their connection was given up: what a Get function puts into
\* the caller's buffer fits, and is the value of the last write that returned
\* success or of one that failed.  The server must have the databases that Init
\* is given: the reply to SELECT is not looked at, and on another server the
\* client would read and write database 0 in their place.
THEOREM GetsAreExplained ==
  ASSUME Dbs \subseteq ServerDbs
  PROVE  Spec => []ReadsKnownValue
  <1>1. Init => ReadInv
    <2> SUFFICES ASSUME Init PROVE ReadInv
      OBVIOUS
    <2>1. Pending /\ OneReply /\ Selected /\ AnswerTrue /\ ReadsKnownValue
      BY DEF Init, Pending, OneReply, Selected, AnswerTrue, ReadsKnownValue
    <2>2. DbsUsed \subseteq ServerDbs
      BY RedisAssumption DEF DbsUsed
    <2>3. StoreKnown
      BY <2>2 DEF Init, StoreKnown, Mine, DbsUsed
    <2> QED  BY <2>1, <2>3 DEF ReadInv
  <1>2. TypeInv /\ ReadInv /\ [Next]_vars => ReadInv'
    <2> SUFFICES ASSUME TypeInv, ReadInv, [Next]_vars PROVE ReadInv'
      OBVIOUS
    <2>1. ASSUME NEW port, NEW db, NEW pw, ClientInit(port, db, pw) PROVE ReadInv'
      BY <2>1, QuietReads DEF ClientInit, Call, contexts, server, history
    <2>2. CASE Uninit
      BY <2>2, QuietReads DEF Uninit, Call, _FreeRes, server
    <2>3. CASE Connect2Redis
      BY <2>3, ConnectReads DEF Connect2Redis
    <2>4. CASE ReConnect2Redis
      BY <2>4, ConnectReads DEF ReConnect2Redis
    <2>5. CASE ConnectRefused \/ _Auth \/ _SelectDB
      BY <2>5, HandshakeReads
    <2>6. ASSUME NEW f, NEW r, NEW n, Command(f, r, n) PROVE ReadInv'
      BY <2>6, CommandReads
    <2>7. CASE SetReturn
      BY <2>7, SetReturnReads
    <2>8. CASE GetReturn
      BY <2>8, GetReturnReads
    <2>9. ASSUME NEW c \in Contexts, Execute(c) PROVE ReadInv'
      BY <2>9, ExecuteReads
    <2>10. ASSUME NEW c \in Contexts, Break(c) PROVE ReadInv'
      BY <2>10, BreakReads
    <2>11. CASE UNCHANGED vars
      BY <2>11, QuietReads DEF vars, object, contexts, server, history
    <2> QED
      BY <2>1, <2>2, <2>3, <2>4, <2>5, <2>6, <2>7, <2>8, <2>9, <2>10, <2>11
      DEF Next, ClientStep, SetString, SetByte, HSetByte, GetString, GetByte, HGetByte
  <1>3. ReadInv => ReadsKnownValue
    BY DEF ReadInv
  <1> QED  BY <1>1, <1>2, <1>3, TypeInit, TypeStep, PTL DEF Spec
=============================================================================
