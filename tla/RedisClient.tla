---------------------------- MODULE RedisClient ----------------------------
(***************************************************************************)
(* LRedisClient (project/hiredis/redisclient.cpp), the blocking client.    *)
(* One thread calls it; every command is a round trip that may fail at any *)
(* point, and a request may reach the server after the client has given    *)
(* the connection up.                                                      *)
(*                                                                         *)
(* A value is a sequence of numbers, 0 the NUL byte.  A hash has one       *)
(* field.  hiredis and the server are modelled from how the client uses    *)
(* them.                                                                   *)
(***************************************************************************)
EXTENDS Integers, Sequences

CONSTANTS
  NULL,
  Keys, Values, Lengths,  \* arguments of the calls
  Passwords, Dbs,         \* arguments of Init
  ServerPassword,         \* requirepass, NULL for none
  ServerDbs,              \* databases the server has, 0 among them
  MaxContexts,            \* bound: connections in a behaviour
  MaxCalls                \* bound: calls of the client

ASSUME RedisAssumption ==
  /\ Values \subseteq Seq(Nat) /\ Lengths \subseteq Nat \ {0}
  /\ Dbs \subseteq Nat /\ ServerDbs \subseteq Nat /\ 0 \in ServerDbs
  /\ NULL \notin Passwords /\ NULL \notin Nat /\ ServerPassword \in Passwords \cup {NULL}
  /\ MaxContexts \in Nat /\ MaxCalls \in Nat

Contexts == 1 .. MaxContexts

VARIABLES
  \* the object
  m_pRedisContext,
  m_nPort,        \* TRUE: a port that Init and _Connect accept
  m_nDBNum, m_szPassword,
  \* the call in progress
  pc, call, calls,
  last,           \* the last call of a Get function: arguments, result, buffer
  \* redisContext objects
  allocated,      \* contexts not yet freed
  made,           \* contexts ever made
  err,            \* c->err
  \* the server
  req, rep,       \* the request under way and its reply, of each context
  authed, seldb,  \* what the server knows of each connection
  store,          \* database, key -> contents
  \* history
  ready,          \* the last Connect2Redis or ReConnect2Redis returned 1
  usedb,          \* m_nDBNum when it did
  known, doubtful \* contents the caller can expect to find, and those of writes that failed

object   == <<m_pRedisContext, m_nPort, m_nDBNum, m_szPassword>>
contexts == <<allocated, made, err>>
server   == <<req, rep, authed, seldb, store>>
history  == <<ready, usedb, known, doubtful>>
vars     == <<object, pc, call, calls, last, contexts, server, history>>

None == [type |-> "none", val |-> <<>>]
Cells == {None} \cup [type : {"string", "hash"}, val : Values]

-----------------------------------------------------------------------------
(* hiredis                                                                 *)

\* Mutant: the pointer is cleared and the context forgotten.
_FreeResForgets ==
  /\ m_pRedisContext' = NULL
  /\ UNCHANGED allocated

\* _R_FREE_CONTEXT_OBJECT
_FreeRes ==
  /\ allocated' = allocated \ {m_pRedisContext}
  /\ m_pRedisContext' = NULL

\* redisCommand on a context: the request is sent, unless an earlier error is
\* recorded in the context (then nothing is sent, and what was sent before it
\* stays under way).
Request(c, r) == req' = [req EXCEPT ![c] = IF err[c] THEN @ ELSE r]

Answered(c) == c \in allocated /\ rep[c] # NULL /\ ~err[c]

\* the reply, or the null pointer when the connection has failed
Receive(c, r) ==
  \/ Answered(c) /\ r = rep[c]
  \/ err[c] /\ r = NULL

\* The connection breaks as the client sees it.  The request may be lost or
\* still be under way.
Break(c) ==
  /\ c \in allocated /\ ~err[c]
  /\ err' = [err EXCEPT ![c] = TRUE]
  /\ \/ UNCHANGED req
     \/ req[c] # NULL /\ req' = [req EXCEPT ![c] = NULL]
  /\ UNCHANGED <<object, pc, call, calls, last, allocated, made, rep, authed, seldb, store, history>>

-----------------------------------------------------------------------------
(* The server                                                              *)

Reply(t, v) == [type |-> t, str |-> v]
ERROR == Reply("ERROR", <<>>)

Permitted(c) == ServerPassword = NULL \/ authed[c]

AuthReply(c, r) ==
  IF ServerPassword # NULL /\ r.arg = ServerPassword THEN Reply("STATUS", <<>>) ELSE ERROR

\* GET or HGET of what is stored, which must be of the type t
ReadReply(cell, t) ==
  CASE cell.type = "none" -> Reply("NIL", <<>>)
    [] cell.type = t      -> Reply("STRING", cell.val)
    [] OTHER              -> ERROR

Respond(c, r, cell) ==
  IF r.cmd = "AUTH" THEN AuthReply(c, r)
  ELSE IF ~Permitted(c) THEN ERROR
  ELSE CASE r.cmd = "SELECT" -> IF r.arg \in ServerDbs THEN Reply("STATUS", <<>>) ELSE ERROR
         [] r.cmd = "SET"    -> Reply("STATUS", <<>>)
         [] r.cmd = "HSET"   -> IF cell.type = "string" THEN ERROR ELSE Reply("INTEGER", <<>>)
         [] r.cmd = "GET"    -> ReadReply(cell, "string")
         [] r.cmd = "HGET"   -> ReadReply(cell, "hash")

CellOf(r) == [type |-> IF r.cmd = "SET" THEN "string" ELSE "hash", val |-> r.arg]

\* The server executes a request, of a freed context too.
Execute(c) ==
  /\ req[c] # NULL
  /\ LET r  == req[c]
         db == seldb[c]
         a  == Respond(c, r, store[db][r.key])
     IN  /\ rep' = [rep EXCEPT ![c] = a]
         /\ authed' = IF r.cmd = "AUTH" THEN [authed EXCEPT ![c] = (a # ERROR)] ELSE authed
         /\ seldb' = IF r.cmd = "SELECT" /\ a # ERROR THEN [seldb EXCEPT ![c] = r.arg] ELSE seldb
         /\ store' = IF r.cmd \in {"SET", "HSET"} /\ a # ERROR
                     THEN [store EXCEPT ![db][r.key] = CellOf(r)] ELSE store
  /\ req' = [req EXCEPT ![c] = NULL]
  /\ UNCHANGED <<object, pc, call, calls, last, contexts, history>>

-----------------------------------------------------------------------------
(* Init, Uninit                                                            *)

Call == pc = "idle" /\ calls < MaxCalls /\ calls' = calls + 1

\* The arguments are null or the port out of range: nothing is changed.
ClientInit(port, db, pw) ==
  /\ Call
  /\ IF port
     THEN m_nPort' = TRUE /\ m_nDBNum' = db /\ m_szPassword' = pw
     ELSE UNCHANGED <<m_nPort, m_nDBNum, m_szPassword>>
  /\ UNCHANGED <<m_pRedisContext, pc, call, last, contexts, server, history>>

Uninit ==
  /\ Call
  /\ _FreeRes
  /\ m_nPort' = FALSE /\ m_nDBNum' = 0 /\ m_szPassword' = NULL
  /\ ready' = FALSE
  /\ UNCHANGED <<pc, call, last, made, err, server, usedb, known, doubtful>>

-----------------------------------------------------------------------------
(* Connect2Redis, ReConnect2Redis                                          *)

\* Mutant: Connect2Redis goes on after _Connect or _Auth has failed.
ConnectFailedGoesOn(m) ==
  /\ m_pRedisContext' = NULL
  /\ allocated' = allocated \ {m}
  /\ ready' = FALSE /\ pc' = "_Auth" /\ call' = NULL
  /\ UNCHANGED usedb

\* Mutant: Connect2Redis frees the context and returns 1.
ConnectFailedReturns1(m) ==
  /\ m_pRedisContext' = NULL
  /\ allocated' = allocated \ {m}
  /\ ready' = TRUE /\ pc' = "idle" /\ call' = NULL
  /\ UNCHANGED usedb

\* Exit0 of Connect2Redis: the context m is freed.
ConnectFailed(m) ==
  /\ m_pRedisContext' = NULL
  /\ allocated' = allocated \ {m}
  /\ ready' = FALSE /\ pc' = "idle" /\ call' = NULL
  /\ UNCHANGED usedb

AuthRequest == [cmd |-> "AUTH", key |-> CHOOSE k \in Keys : TRUE, arg |-> m_szPassword]
SelectRequest == [cmd |-> "SELECT", key |-> CHOOSE k \in Keys : TRUE, arg |-> m_nDBNum]

\* _Connect and the request of _Auth; old is the context Connect2Redis finds.
_Connect(old) ==
  \* LU_PROCESS_SUCCESS(m_pRedisContext)
  \/ /\ old # NULL
     /\ m_pRedisContext' = old /\ allocated' = allocated
     /\ Request(old, AuthRequest)
     /\ rep' = [rep EXCEPT ![old] = NULL]
     /\ pc' = "_Auth" /\ call' = NULL
     /\ UNCHANGED <<made, err, ready, usedb>>
  \* a bad port, or no memory for the context
  \/ /\ old = NULL
     /\ ConnectFailed(m_pRedisContext)
     /\ UNCHANGED <<made, err, req, rep>>
  \/ /\ old = NULL /\ m_nPort
     /\ \E c \in Contexts \ made :
          /\ made' = made \cup {c}
          /\ m_pRedisContext' = c
          /\ allocated' = (allocated \ {m_pRedisContext}) \cup {c}
          /\ \/ \* refused, or not within the timeout: the context holds the error
                /\ err' = [err EXCEPT ![c] = TRUE]
                /\ pc' = "Exit0"
                /\ UNCHANGED req
             \/ /\ Request(c, AuthRequest)
                /\ pc' = "_Auth"
                /\ UNCHANGED err
          /\ call' = NULL
          /\ UNCHANGED <<rep, ready, usedb>>

Connect2Redis ==
  /\ Call
  /\ _Connect(m_pRedisContext)
  /\ UNCHANGED <<m_nPort, m_nDBNum, m_szPassword, last, authed, seldb, store, known, doubtful>>

\* _FreeRes first
ReConnect2Redis ==
  /\ Call
  /\ _Connect(NULL)
  /\ UNCHANGED <<m_nPort, m_nDBNum, m_szPassword, last, authed, seldb, store, known, doubtful>>

\* the context in error that _Connect has stored
ConnectRefused ==
  /\ pc = "Exit0"
  /\ ConnectFailed(m_pRedisContext)
  /\ UNCHANGED <<m_nPort, m_nDBNum, m_szPassword, calls, last, made, err, server, known, doubtful>>

\* the reply to AUTH is not looked at
_Auth ==
  /\ pc = "_Auth"
  /\ \E r \in {rep[m_pRedisContext], NULL} :
       /\ Receive(m_pRedisContext, r)
       /\ IF r = NULL
          THEN ConnectFailed(m_pRedisContext) /\ UNCHANGED <<req, rep>>
          ELSE /\ Request(m_pRedisContext, SelectRequest)
               /\ rep' = [rep EXCEPT ![m_pRedisContext] = NULL]
               /\ pc' = "_SelectDB"
               /\ UNCHANGED <<m_pRedisContext, allocated, ready, usedb, call>>
  /\ UNCHANGED <<m_nPort, m_nDBNum, m_szPassword, calls, last, made, err, authed, seldb, store,
                 known, doubtful>>

\* nor is the reply to SELECT
_SelectDB ==
  /\ pc = "_SelectDB"
  /\ \E r \in {rep[m_pRedisContext], NULL} :
       /\ Receive(m_pRedisContext, r)
       /\ IF r = NULL
          THEN ConnectFailed(m_pRedisContext) /\ UNCHANGED rep
          ELSE /\ ready' = TRUE /\ usedb' = m_nDBNum
               /\ rep' = [rep EXCEPT ![m_pRedisContext] = NULL]
               /\ pc' = "idle"
               /\ UNCHANGED <<m_pRedisContext, allocated, call>>
  /\ UNCHANGED <<m_nPort, m_nDBNum, m_szPassword, calls, last, made, err, req, authed, seldb, store,
                 known, doubtful>>

-----------------------------------------------------------------------------
(* Set and Get functions                                                   *)

\* what SetString can be given
CString(v) == \A i \in DOMAIN v : v[i] # 0

\* The six functions send their request without a test of m_pRedisContext.  Null
\* arguments and empty buffers are refused before, without effect.
Command(f, r, n) ==
  /\ Call
  /\ IF m_pRedisContext = NULL
     THEN pc' = "crashed" /\ UNCHANGED <<call, req, rep>>
     ELSE /\ pc' = "reply"
          /\ call' = [f |-> f, r |-> r, n |-> n]
          /\ Request(m_pRedisContext, r)
          /\ rep' = [rep EXCEPT ![m_pRedisContext] = NULL]
  /\ UNCHANGED <<object, last, contexts, authed, seldb, store, history>>

SetString(k, v) == CString(v) /\ Command("SetString", [cmd |-> "SET", key |-> k, arg |-> v], 0)
SetByte(k, v)   == v # <<>> /\ Command("SetByte", [cmd |-> "SET", key |-> k, arg |-> v], 0)
HSetByte(k, v)  == v # <<>> /\ Command("HSetByte", [cmd |-> "HSET", key |-> k, arg |-> v], 0)
GetString(k, n) == Command("GetString", [cmd |-> "GET", key |-> k, arg |-> NULL], n)
GetByte(k, n)   == Command("GetByte", [cmd |-> "GET", key |-> k, arg |-> NULL], n)
HGetByte(k, n)  == Command("HGetByte", [cmd |-> "HGET", key |-> k, arg |-> NULL], n)

Return == pc' = "idle" /\ call' = NULL

\* Mutant: an error reply counts as success.
SetOkUnchecked(r) == r # NULL

\* pReply, and not an error
SetOk(r) == r # NULL /\ r.type # "ERROR"

SetReturn ==
  /\ pc = "reply" /\ call.f \in {"SetString", "SetByte", "HSetByte"}
  /\ \E r \in {rep[m_pRedisContext], NULL} :
       /\ Receive(m_pRedisContext, r)
       /\ LET k == call.r.key
              w == {CellOf(call.r)}
          IN  IF SetOk(r)
              THEN /\ known' = [known EXCEPT ![usedb][k] = w \cup doubtful[usedb][k]]
                   /\ UNCHANGED doubtful
              ELSE /\ known' = [known EXCEPT ![usedb][k] = @ \cup w]
                   /\ doubtful' = [doubtful EXCEPT ![usedb][k] = @ \cup w]
  /\ Return
  /\ UNCHANGED <<object, calls, last, contexts, server, ready, usedb>>

\* the bytes before the first NUL
BeforeNul(v) == SubSeq(v, 1, CHOOSE i \in 0 .. Len(v) :
                               /\ \A j \in 1 .. i : v[j] # 0
                               /\ i = Len(v) \/ v[i + 1] = 0)

First(v, n) == SubSeq(v, 1, IF Len(v) >= n THEN n ELSE Len(v))

\* a string reply, and for GetString one that fits with its terminator
GetOk(f, n, r) == r # NULL /\ r.type = "STRING" /\ (f = "GetString" => n > Len(r.str))

\* what is copied to the caller's buffer of n bytes
Copied(f, n, v) == IF f = "GetString" THEN BeforeNul(v) ELSE First(v, n)

GetReturn ==
  /\ pc = "reply" /\ call.f \in {"GetString", "GetByte", "HGetByte"}
  /\ \E r \in {rep[m_pRedisContext], NULL} :
       /\ Receive(m_pRedisContext, r)
       /\ last' = IF GetOk(call.f, call.n, r)
                  THEN [f |-> call.f, n |-> call.n, out |-> Copied(call.f, call.n, r.str),
                        expected |-> known[usedb][call.r.key]]
                  ELSE NULL
  /\ Return
  /\ UNCHANGED <<object, calls, contexts, server, history>>

-----------------------------------------------------------------------------
Init ==
  /\ m_pRedisContext = NULL /\ m_nPort = FALSE /\ m_nDBNum = 0 /\ m_szPassword = NULL
  /\ pc = "idle" /\ call = NULL /\ calls = 0 /\ last = NULL
  /\ allocated = {} /\ made = {} /\ err = [c \in Contexts |-> FALSE]
  /\ req = [c \in Contexts |-> NULL] /\ rep = [c \in Contexts |-> NULL]
  /\ authed = [c \in Contexts |-> FALSE] /\ seldb = [c \in Contexts |-> 0]
  /\ store = [d \in ServerDbs |-> [k \in Keys |-> None]]
  /\ ready = FALSE /\ usedb = 0
  /\ known = [d \in Dbs \cup {0} |-> [k \in Keys |-> {None}]]
  /\ doubtful = [d \in Dbs \cup {0} |-> [k \in Keys |-> {}]]

ClientStep ==
  \/ \E port \in BOOLEAN, db \in Dbs, pw \in Passwords : ClientInit(port, db, pw)
  \/ Uninit \/ Connect2Redis \/ ReConnect2Redis \/ ConnectRefused \/ _Auth \/ _SelectDB
  \/ \E k \in Keys, v \in Values : SetString(k, v) \/ SetByte(k, v) \/ HSetByte(k, v)
  \/ \E k \in Keys, n \in Lengths : GetString(k, n) \/ GetByte(k, n) \/ HGetByte(k, n)
  \/ SetReturn \/ GetReturn

Next == ClientStep \/ \E c \in Contexts : Execute(c) \/ Break(c)

Spec == Init /\ [][Next]_vars

-----------------------------------------------------------------------------
(* Properties                                                              *)

\* The type of the variables of the object and of the contexts; a call that is
\* in progress has a context.
RedisTypeOK ==
  /\ m_pRedisContext \in Contexts \cup {NULL}
  /\ m_nPort \in BOOLEAN /\ m_nDBNum \in Dbs \cup {0} /\ m_szPassword \in Passwords \cup {NULL}
  /\ pc \in {"idle", "Exit0", "_Auth", "_SelectDB", "reply", "crashed"}
  /\ pc \in {"Exit0", "_Auth", "_SelectDB", "reply"} => m_pRedisContext # NULL
  /\ calls \in 0 .. MaxCalls
  /\ allocated \subseteq made /\ made \subseteq Contexts
  /\ err \in [Contexts -> BOOLEAN]
  /\ authed \in [Contexts -> BOOLEAN] /\ seldb \in [Contexts -> ServerDbs]
  /\ store \in [ServerDbs -> [Keys -> Cells]]

\* On every path through Connect2Redis, ReConnect2Redis and Uninit, each context
\* is freed once and none but the current one is kept.
NoContextLeak == allocated = {m_pRedisContext} \ {NULL}

\* A caller that uses the client only while its last connect returned 1 never
\* has the six functions run on a null context.
CrashOnlyUnconnected == pc = "crashed" => ~ready

\* What a Get function puts into the caller's buffer fits into it, with its
\* terminator for GetString, and comes from the last write that returned
\* success, or from one that failed and may have reached the server all the
\* same, however late.
ReadsKnownValue ==
  last # NULL =>
    /\ Len(last.out) + (IF last.f = "GetString" THEN 1 ELSE 0) <= last.n
    /\ \E cell \in last.expected :
         /\ cell.type = IF last.f = "HGetByte" THEN "hash" ELSE "string"
         /\ last.out = IF last.f = "GetString" THEN BeforeNul(cell.val) ELSE First(cell.val, last.n)
=============================================================================
