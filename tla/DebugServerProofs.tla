------------------------- MODULE DebugServerProofs -------------------------
(***************************************************************************)
(* Proofs about DebugServer for any number of handles, connections and     *)
(* commands, and any values of the ping counters and of the queue's        *)
(* capacity; about DebugConsole, the other half of the class, for any      *)
(* lines and any number of sessions; and about LDebug, the break points    *)
(* the commands set, for any script and any sequence of commands.          *)
(***************************************************************************)
EXTENDS DebugServer, DebugConsole, LDebug, SequenceFacts, FiniteSetTheorems

-----------------------------------------------------------------------------
(* The tables of l_debug, and its counter and hook for a caller that only  *)
(* toggles                                                                 *)

\* The three steps that change match, seen apart from the rest.
LEMMA HookMatch ==
  ASSUME TablesConsistent, NEW f \in Functions, hook_c(f), UNCHANGED <<list, map>>
  PROVE  /\ match' \in Matches
         /\ hook' \in {"c", "crl", hook}
         /\ MatchIsABreak'
  <1>1. CASE UNCHANGED <<match, hook>>
    BY <1>1 DEF TablesConsistent, LDebugTypeOK, MatchIsABreak
  <1>2. CASE \E i \in find_index(f) :
               /\ match' = [s_file |-> f.source, n_line |-> list[i].pos.nline, n_index |-> i]
               /\ hook' = "crl"
    <2>1. PICK p \in Positions :
            /\ map[p] # 0 /\ p.sfile = f.source
            /\ match' = [s_file |-> f.source, n_line |-> list[map[p]].pos.nline, n_index |-> map[p]]
            /\ hook' = "crl"
      BY <1>2 DEF find_index
    <2>2. map[p] \in DOMAIN list /\ list[map[p]].pos = p
      BY <2>1 DEF TablesConsistent, BreaksIndexed
    <2>3. p \in [sfile : STRING, nline : Nat \ {0}] /\ f.source \in STRING /\ map[p] \in Nat
      BY LDebugAssumption DEF TablesConsistent, LDebugTypeOK
    <2>4. match' = [s_file |-> f.source, n_line |-> p.nline, n_index |-> map[p]]
      BY <2>1, <2>2
    <2>5. p = [sfile |-> match'.s_file, nline |-> match'.n_line]
      BY <2>1, <2>3, <2>4
    <2>6. match' \in Matches
      BY <2>3, <2>4 DEF Matches
    <2> QED  BY <2>1, <2>2, <2>4, <2>5, <2>6 DEF MatchIsABreak
  <1> QED  BY <1>1, <1>2 DEF hook_c

LEMMA TablesStep ==
  ASSUME TablesConsistent, [LuaNext]_luavars
  PROVE  TablesConsistent'
  <1> USE DEF TablesConsistent
  <1>n. NoMatch \in Matches
    BY DEF NoMatch, Matches
  <1>1. ASSUME NEW p \in Positions, add_break_point(p) PROVE TablesConsistent'
    <2> DEFINE b == [pos |-> p, enable |-> 1]
    <2>1. b \in Breaks
      BY DEF Breaks
    <2>2. /\ list' = Append(list, b) /\ list' \in Seq(Breaks)
          /\ DOMAIN list' = 1 .. Len(list) + 1 /\ DOMAIN list = 1 .. Len(list)
          /\ list'[Len(list) + 1] = b /\ \A i \in 1 .. Len(list) : list'[i] = list[i]
          /\ Len(list) \in Nat
      BY <1>1, <2>1 DEF add_break_point, LDebugTypeOK
    <2>3. LDebugTypeOK'
      BY <1>1, <2>2 DEF add_break_point, LDebugTypeOK
    <2>4. \A i \in 1 .. Len(list) : list[i].pos # p
      BY <1>1, <2>2 DEF add_break_point, Free, BreaksIndexed
    <2>5. BreaksIndexed'
      <3>1. ASSUME NEW i \in DOMAIN list' PROVE map'[list'[i].pos] = i
        <4>0. \A j \in 1 .. Len(list) : list[j].pos \in Positions
          <5>1. \A j \in 1 .. Len(list) : list[j] \in Breaks
            BY DEF LDebugTypeOK
          <5> QED  BY <5>1 DEF Breaks
        <4>1. CASE i = Len(list) + 1
          BY <4>1, <1>1, <2>2 DEF add_break_point, LDebugTypeOK
        <4>2. CASE i \in 1 .. Len(list)
          BY <4>0, <4>2, <1>1, <2>2, <2>4 DEF add_break_point, LDebugTypeOK, BreaksIndexed
        <4> QED  BY <4>1, <4>2, <2>2, <3>1
      <3>2. ASSUME NEW q \in Positions, map'[q] # 0
            PROVE  map'[q] \in DOMAIN list' /\ list'[map'[q]].pos = q
        <4>1. CASE q = p
          BY <4>1, <1>1, <2>2 DEF add_break_point, LDebugTypeOK
        <4>2. CASE q # p
          BY <4>2, <3>2, <1>1, <2>2 DEF add_break_point, LDebugTypeOK, BreaksIndexed
        <4> QED  BY <4>1, <4>2
      <3> QED  BY <3>1, <3>2 DEF BreaksIndexed
    <2>6. MatchIsABreak'
      BY <1>1, <2>2 DEF add_break_point, MatchIsABreak
    <2> QED  BY <2>3, <2>5, <2>6
  <1>2. ASSUME NEW i \in DOMAIN list, NEW e \in {0, 1},
               list' = [list EXCEPT ![i].enable = e], ForgetMatch(i),
               enable_count' \in Int, hook' \in {"none", "c", hook}, toggled' \in BOOLEAN,
               UNCHANGED <<map, mode, stack>>
        PROVE  TablesConsistent'
    <2>1. /\ list' \in Seq(Breaks) /\ DOMAIN list' = DOMAIN list
          /\ \A j \in DOMAIN list : list'[j].pos = list[j].pos
      <3>1. list[i] \in Breaks
        BY DEF LDebugTypeOK
      <3>2. [list[i] EXCEPT !.enable = e] \in Breaks /\ [list[i] EXCEPT !.enable = e].pos = list[i].pos
        BY <3>1 DEF Breaks
      <3>3. list' = [list EXCEPT ![i] = [list[i] EXCEPT !.enable = e]]
        BY <1>2
      <3> QED  BY <3>2, <3>3 DEF LDebugTypeOK
    <2>2. match' \in {match, NoMatch}
      BY <1>2 DEF ForgetMatch
    <2> QED  BY <1>n, <1>2, <2>1, <2>2 DEF LDebugTypeOK, BreaksIndexed, MatchIsABreak
  <1>3. ASSUME NEW n \in Int, Lower(n)
        PROVE  enable_count' \in Int /\ hook' \in {"none", "c", hook}
    BY <1>3 DEF Lower
  <1>4. ASSUME NEW i \in DOMAIN list, del_break_point(i) PROVE TablesConsistent'
    <2>1. list[i] \in Breaks
      BY DEF LDebugTypeOK
    <2>2. list' = [list EXCEPT ![i].enable = 0]
      BY <1>4, <2>1 DEF del_break_point, Breaks
    <2>3. enable_count' \in Int /\ hook' \in {"none", "c", hook} /\ toggled' \in BOOLEAN
      BY <1>3, <1>4 DEF del_break_point, LDebugTypeOK
    <2> QED  BY <1>2, <1>4, <2>2, <2>3 DEF del_break_point
  <1>5. ASSUME NEW i \in DOMAIN list, NEW e \in {0, 1}, set_enable(i, e) PROVE TablesConsistent'
    <2>1. enable_count' \in Int /\ hook' \in {"none", "c", hook}
      BY <1>3, <1>5 DEF set_enable, LDebugTypeOK
    <2>2. toggled' \in BOOLEAN
      BY <1>5 DEF set_enable
    <2> QED  BY <1>2, <1>5, <2>1, <2>2 DEF set_enable
  <1>6. ASSUME NEW m \in {"next", "step", "other"}, set_mode(m) PROVE TablesConsistent'
    BY <1>6 DEF set_mode, LDebugTypeOK, BreaksIndexed, MatchIsABreak
  <1>7. CASE init \/ release
    <2>1. <<>> \in Seq(Breaks) /\ DOMAIN <<>> = {}
      OBVIOUS
    <2>2. /\ _init /\ UNCHANGED stack /\ toggled' \in BOOLEAN
          /\ hook' \in {"none", "c", "crl", "r"}
      BY <1>7 DEF init, release, LDebugTypeOK
    <2> QED  BY <1>n, <2>1, <2>2 DEF _init, LDebugTypeOK, BreaksIndexed, MatchIsABreak
  <1>8. ASSUME NEW f \in Functions, Call(f) PROVE TablesConsistent'
    <2>1. stack' \in Seq(Functions) /\ UNCHANGED <<list, map, enable_count, toggled>>
      BY <1>8 DEF Call, LDebugTypeOK
    <2>2. CASE hook = "c" /\ hook_c(f) /\ UNCHANGED mode
      BY <2>1, <2>2, HookMatch DEF LDebugTypeOK, BreaksIndexed
    <2>3. CASE hook = "crl" /\ hook_crl_call
      BY <2>1, <2>3 DEF hook_crl_call, LDebugTypeOK, BreaksIndexed, MatchIsABreak
    <2>4. CASE UNCHANGED <<hook, match, mode>>
      BY <2>1, <2>4 DEF LDebugTypeOK, BreaksIndexed, MatchIsABreak
    <2> QED  BY <1>8, <2>2, <2>3, <2>4 DEF Call
  <1>9. CASE Line
    BY <1>9 DEF Line, LDebugTypeOK, BreaksIndexed, MatchIsABreak
  <1>10. CASE Return
    <2>1. stack' \in Seq(Functions) /\ UNCHANGED <<list, map, enable_count, toggled>>
      BY <1>10 DEF Return, LDebugTypeOK
    <2>2. CASE hook_crl_return(Top)
      BY <1>n, <2>1, <2>2 DEF hook_crl_return, LDebugTypeOK, BreaksIndexed, MatchIsABreak
    <2>3. CASE hook_r(Top) /\ UNCHANGED <<match, mode>>
      BY <2>1, <2>3 DEF hook_r, LDebugTypeOK, BreaksIndexed, MatchIsABreak
    <2>4. CASE UNCHANGED <<hook, match, mode>>
      BY <2>1, <2>4 DEF LDebugTypeOK, BreaksIndexed, MatchIsABreak
    <2> QED  BY <1>10, <2>2, <2>3, <2>4 DEF Return
  <1>11. CASE UNCHANGED luavars
    BY <1>11 DEF luavars, debugger, LDebugTypeOK, BreaksIndexed, MatchIsABreak
  <1> QED
    BY <1>1, <1>4, <1>5, <1>6, <1>7, <1>8, <1>9, <1>10, <1>11 DEF LuaNext, Command

LEMMA TablesInit == LuaInit => TablesConsistent
  <1>1. <<>> \in Seq(Breaks) /\ <<>> \in Seq(Functions) /\ DOMAIN <<>> = {}
    OBVIOUS
  <1>2. NoMatch \in Matches
    BY DEF NoMatch, Matches
  <1> QED
    BY <1>1, <1>2 DEF LuaInit, TablesConsistent, LDebugTypeOK, BreaksIndexed, MatchIsABreak

\* For every script and every sequence of commands, map and list describe the
\* same break points, and the function being stepped is that of one of them.
THEOREM TablesAgree == LuaSpec => []TablesConsistent
  <1> QED  BY TablesInit, TablesStep, PTL DEF LuaSpec

-----------------------------------------------------------------------------
(* A caller that only toggles.  HookedIffEnabled is proved through the     *)
(* counter, which is what the code looks at.                               *)

Counted ==
  /\ enable_count = Cardinality(Enabled)
  /\ hook # "none" <=> enable_count > 0

CountInv == toggled => Counted

\* There are finitely many enabled break points.
LEMMA EnabledFinite ==
  ASSUME LDebugTypeOK
  PROVE  /\ IsFiniteSet(Enabled) /\ Cardinality(Enabled) \in Nat
         /\ Cardinality(Enabled) = 0 <=> Enabled = {}
  <1>1. Len(list) \in Nat /\ Enabled \subseteq 1 .. Len(list)
    BY DEF LDebugTypeOK, Enabled
  <1>2. IsFiniteSet(1 .. Len(list))
    BY <1>1, FS_Interval
  <1> QED  BY <1>1, <1>2, FS_Subset, FS_CardinalityType, FS_EmptySet

\* Setting the flag of one break point adds it, takes it away or does nothing.
LEMMA FlagSet ==
  ASSUME LDebugTypeOK, NEW i \in DOMAIN list, NEW e \in {0, 1},
         list' = [list EXCEPT ![i].enable = e]
  PROVE  Enabled' = IF e = 1 THEN Enabled \cup {i} ELSE Enabled \ {i}
  <1>1. DOMAIN list' = DOMAIN list
    BY DEF LDebugTypeOK
  <1>2. list'[i].enable = e /\ \A j \in DOMAIN list \ {i} : list'[j] = list[j]
    <2>1. list[i] \in Breaks
      BY DEF LDebugTypeOK
    <2>2. [list[i] EXCEPT !.enable = e].enable = e
      BY <2>1 DEF Breaks
    <2>3. list' = [list EXCEPT ![i] = [list[i] EXCEPT !.enable = e]]
      OBVIOUS
    <2> QED  BY <2>2, <2>3 DEF LDebugTypeOK
  <1> QED  BY <1>1, <1>2 DEF Enabled

\* A step after which the caller has only toggled keeps the count.
LEMMA CountStep ==
  ASSUME TablesConsistent, Counted, toggled', [LuaNext]_luavars
  PROVE  Counted'
  <1>f. IsFiniteSet(Enabled) /\ Cardinality(Enabled) \in Nat
        /\ (Cardinality(Enabled) = 0 <=> Enabled = {})
    BY EnabledFinite DEF TablesConsistent
  <1>c. enable_count = Cardinality(Enabled)
    BY DEF Counted
  <1>add. ASSUME NEW i, i \notin Enabled, Enabled' = Enabled \cup {i}
          PROVE  Cardinality(Enabled') = Cardinality(Enabled) + 1
    BY <1>f, <1>add, FS_AddElement
  <1>sub. ASSUME NEW i, i \in Enabled, Enabled' = Enabled \ {i}
          PROVE  Cardinality(Enabled') = Cardinality(Enabled) - 1 /\ Cardinality(Enabled) > 0
    <2>1. Cardinality(Enabled \ {i}) = Cardinality(Enabled) - 1
      BY <1>f, <1>sub, FS_RemoveElement
    <2>2. Cardinality(Enabled) # 0
      BY <1>f, <1>sub
    <2>3. Cardinality(Enabled) > 0
      BY <1>f, <2>2
    <2> QED  BY <1>sub, <2>1, <2>3
  <1>same. ASSUME UNCHANGED <<list, enable_count>>, hook' # "none" <=> hook # "none"
           PROVE  Counted'
    BY <1>same DEF Counted, Enabled
  <1>1. ASSUME NEW p \in Positions, add_break_point(p) PROVE Counted'
    <2>1. /\ list' = Append(list, [pos |-> p, enable |-> 1])
          /\ DOMAIN list = 1 .. Len(list) /\ Len(list) \in Nat
          /\ DOMAIN list' = 1 .. Len(list) + 1
          /\ list'[Len(list) + 1] = [pos |-> p, enable |-> 1]
          /\ \A j \in 1 .. Len(list) : list'[j] = list[j]
      BY <1>1 DEF add_break_point, TablesConsistent, LDebugTypeOK
    <2>2. Enabled' = Enabled \cup {Len(list) + 1} /\ Len(list) + 1 \notin Enabled
      BY <2>1 DEF Enabled
    <2>3. Cardinality(Enabled') = Cardinality(Enabled) + 1
      BY <1>add, <2>2
    <2> QED  BY <1>1, <1>c, <1>f, <2>3 DEF add_break_point, Counted
  <1>2. ASSUME NEW i \in DOMAIN list, i \in Enabled, list' = [list EXCEPT ![i].enable = 0],
               Lower(enable_count - 1)
        PROVE  Counted'
    <2>1. Enabled' = Enabled \ {i}
      <3>1. 0 \in {0, 1} /\ 0 # 1 /\ LDebugTypeOK
        BY DEF TablesConsistent
      <3> QED  BY <1>2, <3>1, FlagSet
    <2>2. Cardinality(Enabled') = Cardinality(Enabled) - 1 /\ Cardinality(Enabled) > 0
      BY <1>2, <1>sub, <2>1
    <2> QED  BY <1>2, <1>c, <1>f, <2>2 DEF Lower, Counted
  <1>3. ASSUME NEW i \in DOMAIN list, del_break_point(i) PROVE Counted'
    <2>1. list[i] \in Breaks
      BY DEF TablesConsistent, LDebugTypeOK
    <2>2. list' = [list EXCEPT ![i].enable = 0]
      BY <1>3, <2>1 DEF del_break_point, Breaks
    <2>3. CASE list[i].enable = 1
      BY <1>2, <1>3, <2>2, <2>3 DEF del_break_point, Enabled
    <2>4. CASE list[i].enable # 1
      <3>1. Enabled' = Enabled
        BY <2>2, <2>4, FlagSet DEF TablesConsistent, Enabled
      <3>2. Lower(enable_count)
        BY <1>3, <2>4 DEF del_break_point
      <3> QED  BY <1>c, <1>f, <3>1, <3>2 DEF Lower, Counted
    <2> QED  BY <2>3, <2>4
  <1>4. ASSUME NEW i \in DOMAIN list, set_enable(i, 0) PROVE Counted'
    <2>1. list[i] \in Breaks
      BY DEF TablesConsistent, LDebugTypeOK
    <2>2. i \in Enabled
      BY <1>4, <2>1 DEF set_enable, Breaks, Enabled
    <2> QED  BY <1>2, <1>4, <2>2 DEF set_enable
  <1>5. ASSUME NEW i \in DOMAIN list, set_enable(i, 1) PROVE Counted'
    <2>1. i \notin Enabled
      BY <1>5 DEF set_enable, Enabled
    <2>2. Enabled' = Enabled \cup {i}
      BY <1>5, FlagSet DEF set_enable, TablesConsistent
    <2>3. Cardinality(Enabled') = Cardinality(Enabled) + 1
      BY <1>add, <2>1, <2>2
    <2> QED  BY <1>5, <1>c, <1>f, <2>3 DEF set_enable, Counted
  <1>6. ASSUME NEW m, set_mode(m) PROVE Counted'
    BY <1>6, <1>same DEF set_mode
  <1>7. CASE init \/ release
    <2>0. list' = <<>> /\ enable_count' = 0
      BY <1>7, Zenon DEF init, release, _init
    <2>1. Enabled' = {} /\ enable_count' = 0
      BY <2>0 DEF Enabled
    <2>2. hook' = "none"
      BY <1>7, Zenon DEF init, release
    <2> QED  BY <2>1, <2>2, FS_EmptySet DEF Counted
  <1>8. ASSUME NEW f \in Functions, Call(f) PROVE Counted'
    BY <1>8, <1>same DEF Call, hook_c, hook_crl_call
  <1>9. CASE Line
    BY <1>9, <1>same DEF Line
  <1>10. CASE Return
    BY <1>10, <1>same DEF Return, hook_crl_return, hook_r
  <1>11. CASE UNCHANGED luavars
    BY <1>11, <1>same DEF luavars, debugger
  <1> QED
    BY <1>1, <1>3, <1>4, <1>5, <1>6, <1>7, <1>8, <1>9, <1>10, <1>11 DEF LuaNext, Command

\* Only release, and init where no hook is set, make up for a repeated set_enable,
\* by emptying the tables.
LEMMA CountRestart ==
  ASSUME TablesConsistent, ~toggled, toggled', [LuaNext]_luavars
  PROVE  Counted'
  <1>1. CASE init \/ release
    <2>0. list' = <<>> /\ enable_count' = 0
      BY <1>1, Zenon DEF init, release, _init
    <2>1. Enabled' = {} /\ enable_count' = 0
      BY <2>0 DEF Enabled
    <2>2. hook' = "none"
      BY <1>1, Zenon DEF init, release
    <2> QED  BY <2>1, <2>2, FS_EmptySet DEF Counted
  <1>2. CASE UNCHANGED toggled
    BY <1>2
  <1>3. ASSUME NEW i \in DOMAIN list, NEW e \in {0, 1}, set_enable(i, e) PROVE FALSE
    BY <1>3 DEF set_enable
  <1>4. LuaNext => init \/ release \/ UNCHANGED toggled \/ \E i \in DOMAIN list, e \in {0, 1} : set_enable(i, e)
    BY DEF LuaNext, Command, add_break_point, del_break_point, set_mode, Call, Line, Return
  <1> QED  BY <1>1, <1>2, <1>3, <1>4 DEF luavars

\* As long as break points are only toggled and init is not run under a hook,
\* enable_count is their exact number
\* and the hook is set exactly while one is enabled, for every script.
THEOREM CountedAndHooked == LuaSpec => [](HookedIffEnabled)
  <1>1. LuaInit => CountInv
    <2>1. LuaInit => Enabled = {}
      BY DEF LuaInit, Enabled
    <2> QED  BY <2>1, FS_EmptySet DEF LuaInit, CountInv, Counted
  <1>2. TablesConsistent /\ CountInv => HookedIffEnabled
    BY EnabledFinite DEF TablesConsistent, CountInv, Counted, HookedIffEnabled
  <1>3. TablesConsistent /\ CountInv /\ [LuaNext]_luavars => CountInv'
    BY CountStep, CountRestart DEF CountInv
  <1> QED  BY <1>1, <1>2, <1>3, TablesInit, TablesStep, PTL DEF LuaSpec

-----------------------------------------------------------------------------
(* The connections of the debug server                                     *)

\* The port as the short it is stored in.
LEMMA ShortIsInt == \A port \in Ports : ToShort(port) \in Int
<1>1. \A k \in Int : ToShort(k) \in Int
  BY DEF ToShort
<1>2. PortRange \subseteq Int
  BY DEF PortRange
<1> QED BY <1>1, <1>2, PortsAssumption, Zenon

USE HandlesAssumption, BoundsAssumption
USE DEF server, members, accvars, rcvvars, locals, sockets, clients, os, vars,
        Go, SetRunState, Conns

-----------------------------------------------------------------------------
(* Types                                                                   *)

\* closesocket keeps the socket table, the streams and the backlog well typed.
LEMMA CloseTypes ==
  ASSUME OsOK, NEW h, closesocket(h)
  PROVE  /\ kind' \in [Handles -> {"free", "sock", "listen", "conn"}]
         /\ inq' \in [Conns -> Seq(Nat)]
         /\ backlog' \in 0 .. nconn
<1>1. kind' \in [Handles -> {"free", "sock", "listen", "conn"}]
  BY DEF OsOK, closesocket
<1>2. inq' \in [Conns -> Seq(Nat)]
  <2>1. <<>> \in Seq(Nat)
    OBVIOUS
  <2>2. inq' = inq \/ inq' = [inq EXCEPT ![id[h]] = <<>>]
    BY DEF closesocket
  <2> QED BY <2>1, <2>2 DEF OsOK
<1>3. backlog' \in 0 .. nconn
  BY DEF OsOK, closesocket
<1> QED BY <1>1, <1>2, <1>3

\* Every variable keeps its type, and every thread stays in its own code,
\* whatever the interleaving of the three threads and the clients.
THEOREM Typed == Spec => []TypeOK
<1>1. Init => TypeOK
  <2> SUFFICES ASSUME Init PROVE TypeOK
    OBVIOUS
  <2>1. MembersOK
    <3>1. m_qRecv \in Seq(Messages) BY DEF Init
    <3>2. m_nPort \in Int /\ m_nPing \in Int BY DEF Init
    <3> QED BY <3>1, <3>2 DEF Init, MembersOK, DBG_RUN_STATE, Sockets
  <2>2. ControlOK
    BY DEF Init, ControlOK, Threads, Detachers, MainPC, AccPC, RcvPC, MainRet, RcvRet
  <2>3. LocalsOK BY DEF Init, LocalsOK, Sockets
  <2>4. OsOK BY DEF Init, OsOK
  <2> QED BY <2>1, <2>2, <2>3, <2>4 DEF TypeOK
<1>2. TypeOK /\ [Next]_vars => TypeOK'
  <2> SUFFICES ASSUME TypeOK, [Next]_vars PROVE TypeOK'
    OBVIOUS
  <2> USE DEF TypeOK
  <2>StartServer. ASSUME NEW port \in Ports, StartServer(port)
      PROVE  TypeOK'
    <3>1. MembersOK'
      <4>1. ToShort(port) \in Int BY ShortIsInt
      <4> QED BY <2>StartServer, <4>1 DEF StartServer, MembersOK
    <3>2. ControlOK'
      BY <2>StartServer DEF StartServer, ControlOK, Threads, MainPC, RcvPC
    <3>3. LocalsOK' /\ OsOK' BY <2>StartServer DEF StartServer, LocalsOK, OsOK
    <3> QED BY <3>1, <3>2, <3>3 DEF TypeOK
  <2>InitCheck. CASE InitCheck
    <3>1. ControlOK' BY <2>InitCheck DEF InitCheck, ControlOK, Threads, MainPC
    <3>2. MembersOK' /\ LocalsOK' /\ OsOK'
      BY <2>InitCheck DEF InitCheck, MembersOK, LocalsOK, OsOK
    <3> QED BY <3>1, <3>2 DEF TypeOK
  <2>InitSocket. CASE InitSocket
    <3>1. MembersOK' BY <2>InitSocket DEF InitSocket, MembersOK, Sockets
    <3>2. ControlOK' BY <2>InitSocket DEF InitSocket, ControlOK, Threads, MainPC
    <3>3. OsOK' BY <2>InitSocket DEF InitSocket, OsOK
    <3>4. LocalsOK' BY <2>InitSocket DEF InitSocket, LocalsOK
    <3> QED BY <3>1, <3>2, <3>3, <3>4 DEF TypeOK
  <2>InitBind. CASE InitBind
    <3>1. ControlOK' BY <2>InitBind DEF InitBind, ControlOK, Threads, MainPC
    <3>2. OsOK' BY <2>InitBind DEF InitBind, OsOK
    <3>3. MembersOK' /\ LocalsOK'
      BY <2>InitBind DEF InitBind, MembersOK, LocalsOK
    <3> QED BY <3>1, <3>2, <3>3 DEF TypeOK
  <2>AcceptThread. CASE AcceptThread
    <3>1. MembersOK' BY <2>AcceptThread DEF AcceptThread, MembersOK, Sockets
    <3>2. ControlOK'
      BY <2>AcceptThread DEF AcceptThread, ControlOK, Threads, MainPC, AccPC
    <3>3. OsOK' BY <2>AcceptThread, CloseTypes DEF AcceptThread, OsOK
    <3>4. LocalsOK' BY <2>AcceptThread DEF AcceptThread, LocalsOK
    <3> QED BY <3>1, <3>2, <3>3, <3>4 DEF TypeOK
  <2>StoprServer. CASE StoprServer
    <3>1. ControlOK'
      BY <2>StoprServer DEF StoprServer, UnInit, ControlOK, Threads, Detachers, MainRet, MainPC
    <3>2. MembersOK' /\ LocalsOK' /\ OsOK'
      BY <2>StoprServer DEF StoprServer, UnInit, MembersOK, LocalsOK, OsOK
    <3> QED BY <3>1, <3>2 DEF TypeOK
  <2>Delete. CASE Delete
    <3>1. ControlOK'
      BY <2>Delete DEF Delete, UnInit, ControlOK, Threads, Detachers, MainRet, MainPC
    <3>2. MembersOK' /\ LocalsOK' /\ OsOK'
      BY <2>Delete DEF Delete, UnInit, MembersOK, LocalsOK, OsOK
    <3> QED BY <3>1, <3>2 DEF TypeOK
  <2>StopThread. CASE StopThread
    <3>1. MembersOK' BY <2>StopThread DEF StopThread, MembersOK
    <3>2. ControlOK'
      BY <2>StopThread DEF StopThread, ControlOK, Threads, MainPC, AccPC
    <3>3. LocalsOK' /\ OsOK' BY <2>StopThread DEF StopThread, LocalsOK, OsOK
    <3> QED BY <3>1, <3>2, <3>3 DEF TypeOK
  <2>UnInitClient. CASE UnInitClient
    <3>1. ControlOK'
      BY <2>UnInitClient DEF UnInitClient, ControlOK, Threads, MainPC
    <3>2. OsOK' BY <2>UnInitClient, CloseTypes DEF UnInitClient, OsOK
    <3>3. MembersOK' /\ LocalsOK'
      BY <2>UnInitClient DEF UnInitClient, MembersOK, LocalsOK
    <3> QED BY <3>1, <3>2, <3>3 DEF TypeOK
  <2>UnInitInvalidate. CASE UnInitInvalidate
    <3>1. MembersOK'
      BY <2>UnInitInvalidate DEF UnInitInvalidate, MembersOK, Sockets
    <3>2. ControlOK'
      BY <2>UnInitInvalidate DEF UnInitInvalidate, ControlOK, Threads, MainPC
    <3>3. LocalsOK' /\ OsOK'
      BY <2>UnInitInvalidate DEF UnInitInvalidate, LocalsOK, OsOK
    <3> QED BY <3>1, <3>2, <3>3 DEF TypeOK
  <2>UnInitListen. CASE UnInitListen
    <3>1. MembersOK' BY <2>UnInitListen DEF UnInitListen, MembersOK, Sockets
    <3>2. ControlOK'
      BY <2>UnInitListen DEF UnInitListen, ControlOK, Threads, MainPC
    <3>3. OsOK' BY <2>UnInitListen, CloseTypes DEF UnInitListen, OsOK
    <3>4. LocalsOK' BY <2>UnInitListen DEF UnInitListen, LocalsOK
    <3> QED BY <3>1, <3>2, <3>3, <3>4 DEF TypeOK
  <2>UnInitState. CASE UnInitState
    <3>1. MembersOK' BY <2>UnInitState DEF UnInitState, MembersOK, DBG_RUN_STATE
    <3>2. ControlOK'
      BY <2>UnInitState DEF UnInitState, ControlOK, Threads, MainRet, MainPC
    <3>3. LocalsOK' /\ OsOK' BY <2>UnInitState DEF UnInitState, LocalsOK, OsOK
    <3> QED BY <3>1, <3>2, <3>3 DEF TypeOK
  <2>StopRecv. CASE StopRecv
    <3>1. ControlOK' BY <2>StopRecv DEF StopRecv, ControlOK, Threads, MainPC
    <3>2. MembersOK' /\ LocalsOK' /\ OsOK'
      BY <2>StopRecv DEF StopRecv, MembersOK, LocalsOK, OsOK
    <3> QED BY <3>1, <3>2 DEF TypeOK
  <2>Recv. CASE Recv
    <3>1. MembersOK' BY <2>Recv DEF Recv, MembersOK
    <3>2. OsOK'
      <4>1. Head(m_qRecv) \in Messages BY <2>Recv DEF Recv, MembersOK
      <4>2. Commands(Head(m_qRecv).items) \subseteq Nat
        BY <4>1 DEF Commands, Messages
      <4>3. got' \in [Conns -> SUBSET Nat] BY <2>Recv, <4>2 DEF Recv, OsOK
      <4> QED BY <2>Recv, <4>3 DEF Recv, OsOK
    <3>3. ControlOK' /\ LocalsOK' BY <2>Recv DEF Recv, ControlOK, LocalsOK
    <3> QED BY <3>1, <3>2, <3>3 DEF TypeOK
  <2>Dettach. CASE Dettach
    <3>1. ControlOK'
      BY <2>Dettach DEF Dettach, ControlOK, Threads, Detachers, MainRet, MainPC
    <3>2. MembersOK' /\ LocalsOK' /\ OsOK'
      BY <2>Dettach DEF Dettach, MembersOK, LocalsOK, OsOK
    <3> QED BY <3>1, <3>2 DEF TypeOK
  <2>AccStart. CASE AccStart
    <3>1. MembersOK' BY <2>AccStart DEF AccStart, MembersOK, DBG_RUN_STATE
    <3>2. ControlOK' BY <2>AccStart DEF AccStart, ControlOK, Threads, AccPC
    <3>3. LocalsOK' /\ OsOK' BY <2>AccStart DEF AccStart, LocalsOK, OsOK
    <3> QED BY <3>1, <3>2, <3>3 DEF TypeOK
  <2>AccLoop. CASE AccLoop
    <3>1. ControlOK' BY <2>AccLoop DEF AccLoop, ControlOK, Threads, AccPC
    <3>2. LocalsOK' BY <2>AccLoop DEF AccLoop, LocalsOK, MembersOK, Sockets
    <3>3. MembersOK' /\ OsOK' BY <2>AccLoop DEF AccLoop, MembersOK, OsOK
    <3> QED BY <3>1, <3>2, <3>3 DEF TypeOK
  <2>AccAccept. CASE AccAccept
    <3>1. ControlOK' BY <2>AccAccept DEF AccAccept, ControlOK, Threads, AccPC
    <3>2. LocalsOK' BY <2>AccAccept DEF AccAccept, LocalsOK, Sockets
    <3>3. OsOK'
      <4>1. CASE UNCHANGED <<kind, id, nb, backlog>>
        BY <2>AccAccept, <4>1 DEF AccAccept, OsOK
      <4>2. CASE /\ backlog > 0
                 /\ backlog' = backlog - 1
                 /\ \E h \in Handles :
                      /\ kind' = [kind EXCEPT ![h] = "conn"]
                      /\ id' = [id EXCEPT ![h] = nconn - backlog + 1]
                      /\ nb' = [nb EXCEPT ![h] = FALSE]
        <5>1. /\ nconn - backlog + 1 \in 0 .. MaxConns
              /\ backlog - 1 \in 0 .. nconn
          BY <4>2 DEF OsOK
        <5> QED BY <2>AccAccept, <4>2, <5>1 DEF AccAccept, OsOK
      <4> QED BY <2>AccAccept, <4>1, <4>2 DEF AccAccept
    <3>4. MembersOK' BY <2>AccAccept DEF AccAccept, MembersOK
    <3> QED BY <3>1, <3>2, <3>3, <3>4 DEF TypeOK
  <2>AccTest. CASE AccTest
    <3>1. ControlOK' BY <2>AccTest DEF AccTest, ControlOK, Threads, AccPC
    <3>2. MembersOK' /\ LocalsOK' /\ OsOK'
      BY <2>AccTest DEF AccTest, MembersOK, LocalsOK, OsOK
    <3> QED BY <3>1, <3>2 DEF TypeOK
  <2>AccStore. CASE AccStore
    <3>1. MembersOK' BY <2>AccStore DEF AccStore, MembersOK, Sockets, LocalsOK
    <3>2. ControlOK' BY <2>AccStore DEF AccStore, ControlOK, Threads, AccPC
    <3>3. LocalsOK' /\ OsOK' BY <2>AccStore DEF AccStore, LocalsOK, OsOK
    <3> QED BY <3>1, <3>2, <3>3 DEF TypeOK
  <2>AccPing. CASE AccPing
    <3>1. MembersOK' BY <2>AccPing DEF AccPing, MembersOK
    <3>2. ControlOK' BY <2>AccPing DEF AccPing, ControlOK, Threads, AccPC
    <3>3. LocalsOK' /\ OsOK' BY <2>AccPing DEF AccPing, LocalsOK, OsOK
    <3> QED BY <3>1, <3>2, <3>3 DEF TypeOK
  <2>AccAttach. CASE AccAttach
    <3>1. MembersOK' BY <2>AccAttach DEF AccAttach, MembersOK, DBG_RUN_STATE
    <3>2. ControlOK' BY <2>AccAttach DEF AccAttach, ControlOK, Threads, AccPC
    <3>3. LocalsOK' /\ OsOK' BY <2>AccAttach DEF AccAttach, LocalsOK, OsOK
    <3> QED BY <3>1, <3>2, <3>3 DEF TypeOK
  <2>AccFionbio. CASE AccFionbio
    <3>1. ControlOK' BY <2>AccFionbio DEF AccFionbio, ControlOK, Threads, AccPC
    <3>2. OsOK' BY <2>AccFionbio DEF AccFionbio, OsOK, LocalsOK
    <3>3. MembersOK' /\ LocalsOK'
      BY <2>AccFionbio DEF AccFionbio, MembersOK, LocalsOK
    <3> QED BY <3>1, <3>2, <3>3 DEF TypeOK
  <2>AccReject. CASE AccReject
    <3>1. ControlOK' BY <2>AccReject DEF AccReject, ControlOK, Threads, AccPC
    <3>2. OsOK' BY <2>AccReject, CloseTypes DEF AccReject, OsOK
    <3>3. MembersOK' /\ LocalsOK'
      BY <2>AccReject DEF AccReject, MembersOK, LocalsOK
    <3> QED BY <3>1, <3>2, <3>3 DEF TypeOK
  <2>RcvCheck. CASE RcvCheck
    <3>1. ControlOK' BY <2>RcvCheck DEF RcvCheck, ControlOK, Threads, RcvPC
    <3>2. MembersOK' /\ LocalsOK' /\ OsOK'
      BY <2>RcvCheck DEF RcvCheck, MembersOK, LocalsOK, OsOK
    <3> QED BY <3>1, <3>2 DEF TypeOK
  <2>RcvSocket. CASE RcvSocket
    <3>1. ControlOK' BY <2>RcvSocket DEF RcvSocket, ControlOK, Threads, RcvPC
    <3>2. LocalsOK'
      BY <2>RcvSocket DEF RcvSocket, LocalsOK, MembersOK, Sockets, Detachers
    <3>3. MembersOK' /\ OsOK' BY <2>RcvSocket DEF RcvSocket, MembersOK, OsOK
    <3> QED BY <3>1, <3>2, <3>3 DEF TypeOK
  <2>RcvCall. CASE RcvCall
    <3>1. ControlOK' BY <2>RcvCall DEF RcvCall, ControlOK, Threads, RcvPC
    <3>2. LocalsOK' BY <2>RcvCall DEF RcvCall, LocalsOK, OsOK
    <3>3. MembersOK' /\ OsOK' BY <2>RcvCall DEF RcvCall, MembersOK, OsOK
    <3> QED BY <3>1, <3>2, <3>3 DEF TypeOK
  <2>RcvData. CASE RcvData
    <3>1. ControlOK' BY <2>RcvData DEF RcvData, ControlOK, Threads, RcvPC
    <3>2. LocalsOK' BY <2>RcvData, SMTT(40) DEF RcvData, LocalsOK, OsOK
    <3>3. OsOK'
      <4>1. PICK n \in 1 .. Len(inq[call.c]) :
              inq' = [inq EXCEPT ![call.c] = SubSeq(@, n + 1, Len(@))]
        BY <2>RcvData DEF RcvData
      <4>2. inq[call.c] \in Seq(Nat) BY <2>RcvData DEF RcvData, OsOK
      <4>3. SubSeq(inq[call.c], n + 1, Len(inq[call.c])) \in Seq(Nat)
        BY <4>2, SMTT(30)
      <4> QED BY <2>RcvData, <4>1, <4>3 DEF RcvData, OsOK
    <3>4. MembersOK' BY <2>RcvData DEF RcvData, MembersOK
    <3> QED BY <3>1, <3>2, <3>3, <3>4 DEF TypeOK
  <2>RcvEof. CASE RcvEof
    <3>1. ControlOK'
      BY <2>RcvEof DEF RcvEof, ControlOK, Threads, Detachers, RcvRet, RcvPC
    <3>2. MembersOK' /\ LocalsOK' /\ OsOK'
      BY <2>RcvEof DEF RcvEof, MembersOK, LocalsOK, OsOK
    <3> QED BY <3>1, <3>2 DEF TypeOK
  <2>RcvError. CASE RcvError
    <3>1. ControlOK' BY <2>RcvError DEF RcvError, ControlOK, Threads, RcvPC
    <3>2. MembersOK' /\ LocalsOK' /\ OsOK'
      BY <2>RcvError DEF RcvError, MembersOK, LocalsOK, OsOK
    <3> QED BY <3>1, <3>2 DEF TypeOK
  <2>RcvDispatch. CASE RcvDispatch
    <3>1. MembersOK'
      <4>1. [c |-> call.c, items |-> msg] \in Messages
        BY DEF LocalsOK, Messages
      <4>2. m_qRecv' \in Seq(Messages) BY <2>RcvDispatch, <4>1 DEF RcvDispatch, MembersOK
      <4> QED BY <2>RcvDispatch, <4>2 DEF RcvDispatch, MembersOK
    <3>2. ControlOK'
      BY <2>RcvDispatch DEF RcvDispatch, ControlOK, Threads, RcvPC
    <3>3. LocalsOK' BY <2>RcvDispatch DEF RcvDispatch, LocalsOK
    <3>4. OsOK' BY <2>RcvDispatch DEF RcvDispatch, OsOK
    <3> QED BY <3>1, <3>2, <3>3, <3>4 DEF TypeOK
  <2>RcvTick. CASE RcvTick
    <3>1. ControlOK' BY <2>RcvTick DEF RcvTick, ControlOK, Threads, RcvPC
    <3>2. LocalsOK' BY <2>RcvTick DEF RcvTick, LocalsOK
    <3>3. MembersOK' /\ OsOK' BY <2>RcvTick DEF RcvTick, MembersOK, OsOK
    <3> QED BY <3>1, <3>2, <3>3 DEF TypeOK
  <2>RcvPingLoad. CASE RcvPingLoad
    <3>1. ControlOK'
      BY <2>RcvPingLoad DEF RcvPingLoad, ControlOK, Threads, RcvPC
    <3>2. LocalsOK' BY <2>RcvPingLoad DEF RcvPingLoad, LocalsOK, MembersOK
    <3>3. MembersOK' /\ OsOK' BY <2>RcvPingLoad DEF RcvPingLoad, MembersOK, OsOK
    <3> QED BY <3>1, <3>2, <3>3 DEF TypeOK
  <2>RcvPingStore. CASE RcvPingStore
    <3>1. MembersOK' BY <2>RcvPingStore DEF RcvPingStore, MembersOK, LocalsOK
    <3>2. ControlOK'
      BY <2>RcvPingStore DEF RcvPingStore, ControlOK, Threads, Detachers, RcvRet, RcvPC
    <3>3. LocalsOK' /\ OsOK' BY <2>RcvPingStore DEF RcvPingStore, LocalsOK, OsOK
    <3> QED BY <3>1, <3>2, <3>3 DEF TypeOK
  <2>ClientConnect. CASE ClientConnect
    <3>1. OsOK' BY <2>ClientConnect DEF ClientConnect, OsOK
    <3>2. MembersOK' /\ ControlOK' /\ LocalsOK'
      BY <2>ClientConnect DEF ClientConnect, MembersOK, ControlOK, LocalsOK
    <3> QED BY <3>1, <3>2 DEF TypeOK
  <2>DettachCheck. ASSUME NEW t \in Detachers, DettachCheck(t)
      PROVE  TypeOK'
    <3>1. ControlOK'
      BY <2>DettachCheck DEF DettachCheck, ControlOK, Threads, Detachers, MainPC, RcvPC, MainRet, RcvRet
    <3>2. LocalsOK'
      BY <2>DettachCheck DEF DettachCheck, LocalsOK, MembersOK, Sockets, Detachers
    <3>3. MembersOK' /\ OsOK'
      BY <2>DettachCheck DEF DettachCheck, MembersOK, OsOK
    <3> QED BY <3>1, <3>2, <3>3 DEF TypeOK
  <2>DettachClose. ASSUME NEW t \in Detachers, DettachClose(t)
      PROVE  TypeOK'
    <3>1. ControlOK'
      BY <2>DettachClose DEF DettachClose, ControlOK, Threads, Detachers, MainPC, RcvPC
    <3>2. OsOK' BY <2>DettachClose, CloseTypes DEF DettachClose, OsOK
    <3>3. MembersOK' /\ LocalsOK'
      BY <2>DettachClose DEF DettachClose, MembersOK, LocalsOK
    <3> QED BY <3>1, <3>2, <3>3 DEF TypeOK
  <2>DettachInvalidate. ASSUME NEW t \in Detachers, DettachInvalidate(t)
      PROVE  TypeOK'
    <3>1. MembersOK'
      BY <2>DettachInvalidate DEF DettachInvalidate, MembersOK, Sockets
    <3>2. ControlOK'
      BY <2>DettachInvalidate DEF DettachInvalidate, ControlOK, Threads, Detachers, MainPC, RcvPC
    <3>3. LocalsOK' /\ OsOK'
      BY <2>DettachInvalidate DEF DettachInvalidate, LocalsOK, OsOK
    <3> QED BY <3>1, <3>2, <3>3 DEF TypeOK
  <2>DettachState. ASSUME NEW t \in Detachers, DettachState(t)
      PROVE  TypeOK'
    <3>1. MembersOK'
      BY <2>DettachState DEF DettachState, MembersOK, DBG_RUN_STATE
    <3>2. ControlOK'
      BY <2>DettachState DEF DettachState, ControlOK, Threads, Detachers, MainPC, RcvPC, MainRet, RcvRet
    <3>3. LocalsOK' /\ OsOK' BY <2>DettachState DEF DettachState, LocalsOK, OsOK
    <3> QED BY <3>1, <3>2, <3>3 DEF TypeOK
  <2>ClientSend. ASSUME NEW c \in Conns, ClientSend(c)
      PROVE  TypeOK'
    <3>1. OsOK' BY <2>ClientSend, SMTT(40) DEF ClientSend, OsOK
    <3>2. MembersOK' /\ ControlOK' /\ LocalsOK'
      BY <2>ClientSend DEF ClientSend, MembersOK, ControlOK, LocalsOK
    <3> QED BY <3>1, <3>2 DEF TypeOK
  <2>ClientPong. ASSUME NEW c \in Conns, ClientPong(c)
      PROVE  TypeOK'
    <3>1. OsOK' BY <2>ClientPong, SMTT(40) DEF ClientPong, OsOK, Pong
    <3>2. MembersOK' /\ ControlOK' /\ LocalsOK'
      BY <2>ClientPong DEF ClientPong, MembersOK, ControlOK, LocalsOK
    <3> QED BY <3>1, <3>2 DEF TypeOK
  <2>ClientClose. ASSUME NEW c \in Conns, ClientClose(c)
      PROVE  TypeOK'
    <3>1. OsOK' BY <2>ClientClose DEF ClientClose, OsOK
    <3>2. MembersOK' /\ ControlOK' /\ LocalsOK'
      BY <2>ClientClose DEF ClientClose, MembersOK, ControlOK, LocalsOK
    <3> QED BY <3>1, <3>2 DEF TypeOK
  <2>ClientReset. ASSUME NEW c \in Conns, ClientReset(c)
      PROVE  TypeOK'
    <3>1. OsOK' BY <2>ClientReset DEF ClientReset, OsOK
    <3>2. MembersOK' /\ ControlOK' /\ LocalsOK'
      BY <2>ClientReset DEF ClientReset, MembersOK, ControlOK, LocalsOK
    <3> QED BY <3>1, <3>2 DEF TypeOK
  <2> QED
    BY <2>StartServer, <2>InitCheck, <2>InitSocket, <2>InitBind, <2>AcceptThread, <2>StoprServer, <2>Delete, <2>StopThread, <2>UnInitClient, <2>UnInitInvalidate, <2>UnInitListen, <2>UnInitState, <2>StopRecv, <2>Recv, <2>Dettach, <2>AccStart, <2>AccLoop, <2>AccAccept, <2>AccTest, <2>AccStore, <2>AccPing, <2>AccAttach, <2>AccFionbio, <2>AccReject, <2>RcvCheck, <2>RcvSocket, <2>RcvCall, <2>RcvData, <2>RcvEof, <2>RcvError, <2>RcvDispatch, <2>RcvTick, <2>RcvPingLoad, <2>RcvPingStore, <2>ClientConnect, <2>DettachCheck, <2>DettachClose, <2>DettachInvalidate, <2>DettachState, <2>ClientSend, <2>ClientPong, <2>ClientClose, <2>ClientReset
    DEF Next, ScriptCall, MainStep, AccStep, RcvStep, ClientStep, DettachStep, Detachers, TypeOK, MembersOK, ControlOK, LocalsOK, OsOK
<1> QED
  BY <1>1, <1>2, PTL DEF Spec

-----------------------------------------------------------------------------
(* Shutdown                                                                *)

DetachLabels   == {"d_chk", "d_close", "d_inv", "d_state"}
ShutdownLabels == {"u_client", "u_inv", "u_listen", "u_state", "stoprecv", "dead"}

\* joinable() is true exactly while the thread runs or waits to be joined, and
\* a Dettach of the script returns to the script.
ThreadsInv ==
  /\ m_Thread <=> pc["acc"] # "none"
  /\ m_ThreadRecv <=> pc["rcv"] # "none"
  /\ pc["main"] \in DetachLabels => ret["main"] = "idle"
  /\ pc["main"] \in ShutdownLabels => pc["acc"] = "none"
  /\ pc["main"] = "dead" => pc["rcv"] = "none"

\* The threads and their std::thread members stay in step.
LEMMA ThreadsTracked == Spec => []ThreadsInv
<1>1. Init => ThreadsInv
  BY DEF Init, ThreadsInv, Threads, Detachers, DetachLabels, ShutdownLabels
<1>2. TypeOK /\ ThreadsInv /\ [Next]_vars => ThreadsInv'
  <2> SUFFICES ASSUME TypeOK, ThreadsInv, [Next]_vars PROVE ThreadsInv'
    OBVIOUS
  <2> USE DEF TypeOK, MembersOK, ControlOK, Threads, Detachers, ThreadsInv,
              DetachLabels, ShutdownLabels
  <2>1. ASSUME NEW port \in Ports, StartServer(port) PROVE ThreadsInv'
    BY <2>1 DEF StartServer
  <2>2. CASE InitCheck \/ InitSocket \/ InitBind
    BY <2>2 DEF InitCheck, InitSocket, InitBind
  <2>3. CASE AcceptThread
    BY <2>3 DEF AcceptThread
  <2>4. CASE StoprServer \/ Delete
    BY <2>4 DEF StoprServer, Delete, UnInit
  <2>5. CASE StopThread
    BY <2>5 DEF StopThread
  <2>6. CASE UnInitClient \/ UnInitInvalidate \/ UnInitListen
    BY <2>6 DEF UnInitClient, UnInitInvalidate, UnInitListen
  <2>7. CASE UnInitState \/ StopRecv
    BY <2>7 DEF UnInitState, StopRecv, MainRet
  <2>8. CASE Recv \/ Dettach
    BY <2>8 DEF Recv, Dettach
  <2>9. CASE DettachStep("main")
    BY <2>9 DEF DettachStep, DettachCheck, DettachClose, DettachInvalidate,
                DettachState
  <2>10. CASE DettachStep("rcv")
    BY <2>10 DEF DettachStep, DettachCheck, DettachClose, DettachInvalidate,
                 DettachState, RcvRet
  <2>11. CASE AccStep
    BY <2>11 DEF AccStep, AccStart, AccLoop, AccAccept, AccTest, AccStore,
                 AccPing, AccAttach, AccFionbio, AccReject
  <2>12. CASE RcvCheck \/ RcvSocket \/ RcvCall \/ RcvData \/ RcvError
    BY <2>12 DEF RcvCheck, RcvSocket, RcvCall, RcvData, RcvError
  <2>13. CASE RcvEof \/ RcvDispatch \/ RcvTick \/ RcvPingLoad \/ RcvPingStore
    BY <2>13 DEF RcvEof, RcvDispatch, RcvTick, RcvPingLoad, RcvPingStore
  <2>14. CASE ClientStep
    BY <2>14 DEF ClientStep, ClientConnect, ClientSend, ClientPong, ClientClose,
                 ClientReset
  <2>15. CASE UNCHANGED vars
    BY <2>15
  <2> QED
    BY <2>1, <2>2, <2>3, <2>4, <2>5, <2>6, <2>7, <2>8, <2>9, <2>10, <2>11,
       <2>12, <2>13, <2>14, <2>15
    DEF Next, ScriptCall, MainStep, RcvStep
<1> QED
  BY <1>1, <1>2, Typed, PTL DEF Spec

\* UnInit never touches the sockets under a running accept thread, and the
\* destructor never returns under a running thread.
THEOREM ShutdownIsAlone == Spec => []ShutdownAlone
<1>1. ThreadsInv => ShutdownAlone
  BY DEF ThreadsInv, ShutdownAlone, ShutdownLabels
<1> QED
  BY <1>1, ThreadsTracked, PTL

-----------------------------------------------------------------------------
(* Sockets                                                                 *)

\* What the script's calls can be doing when it never gives up a client.
MainInv ==
  /\ pc["main"] \in {"idle", "init", "socket", "bind", "spawn"}
  /\ pc["main"] = "bind" =>
       m_nSocketLisent \in Handles /\ kind[m_nSocketLisent] = "sock"
  /\ ~m_Thread => m_nSocketClient = INVALID_SOCKET
  /\ m_Thread <=> pc["acc"] # "none"

\* The accept thread holds an open connection; it is about to store it only
\* when there is no client.
AccInv ==
  /\ pc["acc"] \in {"test", "store", "reject"} =>
       conn \in Handles /\ kind[conn] = "conn"
  /\ pc["acc"] = "store" => m_nSocketClient = INVALID_SOCKET
  /\ pc["acc"] \in {"test", "reject"} /\ conn = m_nSocketClient
       => pc["rcv"] = "d_inv"

\* The receive thread closes the client it has tested; once closed, the handle
\* can only be open again as the connection the accept thread will refuse.
RcvInv ==
  /\ pc["rcv"] = "d_close" =>
       seen["rcv"] = m_nSocketClient /\ m_nSocketClient # INVALID_SOCKET
  /\ pc["rcv"] = "d_inv" =>
       /\ m_nSocketClient # INVALID_SOCKET
       /\ kind[m_nSocketClient] = "conn" =>
            conn = m_nSocketClient /\ pc["acc"] \in {"test", "reject"}

SocketInv ==
  MainInv /\ AccInv /\ RcvInv /\ NoSocketLeak /\ ClientSocketOpen

\* While only the receive thread gives up clients, no connection is forgotten,
\* no thread uses a handle that is not the client's, and the accept thread
\* never refuses the client being served, however handles are reused.
THEOREM SocketsSafe ==
  ASSUME SingleDetacher
  PROVE  Spec => []SocketsOwned
<1>1. Init => SocketInv
  BY DEF Init, SocketInv, MainInv, AccInv, RcvInv, NoSocketLeak,
         ClientSocketOpen, Threads
<1>2. TypeOK /\ SocketInv /\ [Next]_vars => SocketInv'
  <2> SUFFICES ASSUME TypeOK, SocketInv, [Next]_vars PROVE SocketInv'
    OBVIOUS
  <2> USE DEF TypeOK, MembersOK, ControlOK, LocalsOK, OsOK, Threads, Detachers,
              Sockets, SocketInv, MainInv, AccInv, RcvInv, NoSocketLeak,
              ClientSocketOpen
  <2>1. ASSUME NEW port \in Ports, StartServer(port) PROVE SocketInv'
    BY <2>1 DEF StartServer
  <2>2. CASE InitCheck
    BY <2>2 DEF InitCheck
  <2>3. CASE InitSocket
    BY <2>3 DEF InitSocket
  <2>4. CASE InitBind
    BY <2>4 DEF InitBind
  <2>5. CASE AcceptThread
    BY <2>5, SMTT(40) DEF AcceptThread, closesocket
  <2>6. CASE Recv
    BY <2>6 DEF Recv
  <2>7. ~StoprServer /\ ~Delete /\ ~Dettach
    BY SingleDetacher DEF SingleDetacher, StoprServer, Delete, UnInit, Dettach
  <2>8. ~StopThread /\ ~UnInitClient /\ ~UnInitInvalidate /\ ~UnInitListen
        /\ ~UnInitState /\ ~StopRecv /\ ~DettachStep("main")
    BY DEF StopThread, UnInitClient, UnInitInvalidate, UnInitListen,
           UnInitState, StopRecv, DettachStep, DettachCheck, DettachClose,
           DettachInvalidate, DettachState
  <2>9. CASE AccStart \/ AccLoop \/ AccPing \/ AccAttach
    <3>1. UNCHANGED <<kind, conn, m_nSocketClient, m_nSocketLisent, m_Thread>>
      BY <2>9 DEF AccStart, AccLoop, AccPing, AccAttach
    <3>2. CASE AccStart BY <3>1, <3>2 DEF AccStart
    <3>3. CASE AccLoop BY <3>1, <3>3 DEF AccLoop
    <3>4. CASE AccPing BY <3>1, <3>4 DEF AccPing
    <3>5. CASE AccAttach BY <3>1, <3>5 DEF AccAttach
    <3> QED BY <2>9, <3>2, <3>3, <3>4, <3>5
  <2>10. CASE AccAccept
    <3>1. CASE UNCHANGED <<kind, conn>> /\ pc' = [pc EXCEPT !["acc"] = "loop"]
      BY <2>10, <3>1 DEF AccAccept
    <3>2. CASE pc' = [pc EXCEPT !["acc"] = "test"]
      <4>1. PICK h \in Handles : /\ kind[h] = "free" /\ conn' = h
                                  /\ kind' = [kind EXCEPT ![h] = "conn"]
        BY <2>10, <3>2 DEF AccAccept
      <4> QED BY <2>10, <3>2, <4>1, SMTT(40) DEF AccAccept
    <3> QED BY <2>10, <3>1, <3>2 DEF AccAccept
  <2>11. CASE AccTest
    BY <2>11 DEF AccTest
  <2>12. CASE AccStore
    BY <2>12 DEF AccStore
  <2>13. CASE AccFionbio
    BY <2>13 DEF AccFionbio
  <2>14. CASE AccReject
    BY <2>14, ZenonT(60) DEF AccReject, closesocket
  <2>15. CASE \/ RcvCheck \/ RcvSocket \/ RcvCall \/ RcvData \/ RcvError \/ RcvEof
              \/ RcvDispatch \/ RcvTick \/ RcvPingLoad \/ RcvPingStore
    <3>1. UNCHANGED <<kind, conn, m_nSocketClient, m_nSocketLisent, m_Thread>>
      BY <2>15 DEF RcvCheck, RcvSocket, RcvCall, RcvData, RcvError, RcvEof,
                   RcvDispatch, RcvTick, RcvPingLoad, RcvPingStore
    <3>2. /\ pc'["main"] = pc["main"] /\ pc'["acc"] = pc["acc"]
          /\ {pc["rcv"], pc'["rcv"]} \cap {"d_close", "d_inv"} = {}
      BY <2>15, SMTT(40) DEF RcvCheck, RcvSocket, RcvCall, RcvData, RcvError, RcvEof,
                   RcvDispatch, RcvTick, RcvPingLoad, RcvPingStore
    <3> QED BY <3>1, <3>2
  <2>17. CASE DettachCheck("rcv")
    BY <2>17 DEF DettachCheck, RcvRet
  <2>18. CASE DettachClose("rcv")
    BY <2>18 DEF DettachClose, closesocket
  <2>19. CASE DettachInvalidate("rcv")
    BY <2>19 DEF DettachInvalidate
  <2>20. CASE DettachState("rcv")
    BY <2>20 DEF DettachState, RcvRet
  <2>16. CASE ClientStep
    <3>1. UNCHANGED <<members, pc, locals, kind>>
      BY <2>16 DEF ClientStep, ClientConnect, ClientSend, ClientPong,
                   ClientClose, ClientReset
    <3> QED BY <3>1
  <2>21. CASE UNCHANGED vars
    BY <2>21
  <2> QED
    BY <2>1, <2>2, <2>3, <2>4, <2>5, <2>6, <2>7, <2>8, <2>9, <2>10, <2>11,
       <2>12, <2>13, <2>14, <2>15, <2>16, <2>17, <2>18, <2>19, <2>20, <2>21
    DEF Next, ScriptCall, MainStep, AccStep, RcvStep, DettachStep
<1>3. SocketInv => SocketsOwned
  BY DEF SocketInv, AccInv, SocketsOwned, NeverRefuseTheClient
<1> QED
  BY <1>1, <1>2, <1>3, Typed, PTL DEF Spec

-----------------------------------------------------------------------------
(* The order of commands                                                   *)

\* Nothing of connection c that is in flight or was given to the script is
\* newer than what the client sent.
BelowSent(c) ==
  /\ \A x \in got[c] : x <= sent[c]
  /\ \A i \in DOMAIN inq[c] : inq[c][i] <= sent[c]
  /\ call.c = c => \A i \in DOMAIN msg : msg[i] <= sent[c]
  /\ \A k \in DOMAIN m_qRecv : m_qRecv[k].c = c =>
       \A i \in DOMAIN m_qRecv[k].items : m_qRecv[k].items[i] <= sent[c]

OrderOf(c) ==
  QueuedInOrder(c) /\ ReadInOrder(c) /\ UnreadInOrder(c) /\ BelowSent(c)

\* The receive thread holds data only between its recv() and the queue.
MsgInv ==
  /\ pc["rcv"] # "dispatch" => msg = <<>>
  /\ pc["rcv"] = "dispatch" => call.c \in Conns

OrderInv == MsgInv /\ \A c \in Conns : OrderOf(c)

pipeline == <<m_qRecv, msg, call, inq, sent, got>>

\* A step that moves no command and does not take the receive thread to or
\* from its dispatch.
Quiet == UNCHANGED pipeline /\ (pc["rcv"] = "dispatch" <=> pc'["rcv"] = "dispatch")

\* Such a step keeps the order.
LEMMA QuietKeepsOrder == OrderInv /\ Quiet => OrderInv'
  BY DEF OrderInv, MsgInv, OrderOf, QueuedInOrder, ReadInOrder, UnreadInOrder,
         BelowSent, pipeline, Quiet, Increasing, Before

\* Dropping the unread part of a connection keeps the order.
LEMMA DropKeepsOrder ==
  ASSUME TypeOK, OrderInv, NEW d,
         inq' = inq \/ inq' = [inq EXCEPT ![d] = <<>>],
         UNCHANGED <<m_qRecv, msg, call, sent, got>>,
         pc["rcv"] = "dispatch" <=> pc'["rcv"] = "dispatch"
  PROVE  OrderInv'
<1>1. MsgInv'
  BY DEF OrderInv, MsgInv
<1>2. ASSUME NEW c \in Conns PROVE OrderOf(c)'
  <2> USE DEF OrderInv, OrderOf, QueuedInOrder, ReadInOrder, UnreadInOrder,
              BelowSent, Increasing, Before
  <2>1. inq'[c] = inq[c] \/ inq'[c] = <<>>
    BY <1>2 DEF TypeOK, OsOK
  <2>2. CASE inq'[c] = inq[c]
    BY <1>2, <2>2
  <2>3. CASE inq'[c] = <<>>
    BY <1>2, <2>3
  <2> QED BY <2>1, <2>2, <2>3
<1> QED BY <1>1, <1>2 DEF OrderInv

\* Closing a handle can only drop the unread part of its connection.
LEMMA CloseKeepsOrder ==
  ASSUME TypeOK, OrderInv, NEW h, closesocket(h),
         UNCHANGED <<m_qRecv, msg, call, sent, got>>,
         pc["rcv"] = "dispatch" <=> pc'["rcv"] = "dispatch"
  PROVE  OrderInv'
  BY DropKeepsOrder DEF closesocket

\* Recv moves the oldest message to the script.
LEMMA RecvKeepsOrder == TypeOK /\ OrderInv /\ Recv => OrderInv'
<1> SUFFICES ASSUME TypeOK, OrderInv, Recv PROVE OrderInv'
  OBVIOUS
<1>1. MsgInv'
  BY DEF OrderInv, MsgInv, Recv
<1>2. ASSUME NEW c \in Conns PROVE OrderOf(c)'
  <2> DEFINE m == Head(m_qRecv)
  <2>1. m \in Messages /\ m = m_qRecv[1] /\ 1 \in DOMAIN m_qRecv
    BY DEF Recv, TypeOK, MembersOK
  <2>2. \A k \in DOMAIN m_qRecv' :
          k + 1 \in DOMAIN m_qRecv /\ k + 1 > 1 /\ m_qRecv'[k] = m_qRecv[k + 1]
    BY DEF Recv, TypeOK, MembersOK
  <2>3. \A x \in got'[c] : x \in got[c] \/ (m.c = c /\ x \in Commands(m.items))
    <3>1. got' = [got EXCEPT ![m.c] = @ \cup Commands(m.items)]
      BY DEF Recv
    <3>2. got'[c] = IF m.c = c THEN got[c] \cup Commands(m.items) ELSE got[c]
      BY <1>2, <3>1 DEF TypeOK, OsOK
    <3>3. CASE m.c = c BY <3>2, <3>3
    <3>4. CASE m.c # c BY <3>2, <3>4
    <3> QED BY <3>3, <3>4
  <2>4. UNCHANGED <<msg, call, inq, sent>>
    BY DEF Recv
  <2>5. OrderOf(c)
    BY <1>2 DEF OrderInv
  <2> HIDE DEF m
  <2>6. ReadInOrder(c)'
    BY <1>2, <2>1, <2>3, <2>4, <2>5 DEF OrderOf, QueuedInOrder, ReadInOrder, Before,
       Increasing, Commands
  <2>7. UnreadInOrder(c)'
    BY <1>2, <2>1, <2>3, <2>4, <2>5 DEF OrderOf, QueuedInOrder, UnreadInOrder, Before,
       Increasing, Commands
  <2>8. BelowSent(c)'
    BY <1>2, <2>1, <2>2, <2>3, <2>4, <2>5 DEF OrderOf, BelowSent, Commands
  <2>9. QueuedInOrder(c)'
    <3>1. ASSUME NEW k \in DOMAIN m_qRecv', m_qRecv'[k].c = c
          PROVE  \A x \in got'[c], i \in DOMAIN m_qRecv'[k].items :
                   m_qRecv'[k].items[i] # Pong => x < m_qRecv'[k].items[i]
      BY <1>2, <3>1, <2>1, <2>2, <2>3, <2>5 DEF OrderOf, QueuedInOrder, Before, Commands
    <3>2. ASSUME NEW k \in DOMAIN m_qRecv', m_qRecv'[k].c = c
          PROVE  /\ Increasing(m_qRecv'[k].items)
                 /\ Before(m_qRecv'[k].items, inq'[c])
                 /\ call'.c = c => Before(m_qRecv'[k].items, msg')
      BY <1>2, <3>2, <2>2, <2>4, <2>5 DEF OrderOf, QueuedInOrder
    <3>3. ASSUME NEW k \in DOMAIN m_qRecv', NEW l \in DOMAIN m_qRecv', k < l,
                 m_qRecv'[k].c = c, m_qRecv'[l].c = c
          PROVE  Before(m_qRecv'[k].items, m_qRecv'[l].items)
      <4>1. k \in Int /\ l \in Int /\ k + 1 < l + 1
        BY <3>3 DEF Recv, TypeOK, MembersOK
      <4> QED BY <3>3, <4>1, <2>2, <2>5 DEF OrderOf, QueuedInOrder
    <3> QED BY <3>1, <3>2, <3>3 DEF QueuedInOrder
  <2> QED BY <2>6, <2>7, <2>8, <2>9 DEF OrderOf
<1> QED BY <1>1, <1>2 DEF OrderInv

\* What is left of a sequence when its first n elements are taken away.
LEMMA SuffixIndices ==
  ASSUME NEW s \in Seq(Nat), NEW n \in 1 .. Len(s)
  PROVE  LET t == SubSeq(s, n + 1, Len(s))
         IN  /\ DOMAIN t = 1 .. Len(s) - n
             /\ \A i \in DOMAIN t : n + i \in DOMAIN s /\ t[i] = s[n + i]
<1>1. Len(s) \in Nat /\ n \in Nat /\ DOMAIN s = 1 .. Len(s) /\ n <= Len(s)
  OBVIOUS
<1> DEFINE t == SubSeq(s, n + 1, Len(s))
<1>2. \A i \in n + 1 .. Len(s) : s[i] \in Nat
  BY <1>1
<1>3. /\ t \in Seq(Nat)
      /\ Len(t) = IF n + 1 <= Len(s) THEN Len(s) - (n + 1) + 1 ELSE 0
      /\ \A i \in 1 .. Len(s) - (n + 1) + 1 : t[i] = s[(n + 1) + i - 1]
  BY <1>1, <1>2, SubSeqProperties
<1> HIDE DEF t
<1>4. DOMAIN t = 1 .. Len(s) - n
  <2>1. Len(t) = Len(s) - n
    <3>1. Len(t) = IF n + 1 <= Len(s) THEN Len(s) - (n + 1) + 1 ELSE 0
      BY <1>3
    <3>2. CASE n + 1 <= Len(s)
      BY <1>1, <3>1, <3>2
    <3>3. CASE n = Len(s)
      BY <1>1, <3>1, <3>3
    <3>4. n + 1 <= Len(s) \/ n = Len(s)
      <4>1. \A a, b \in Nat : a <= b => a + 1 <= b \/ a = b
        OBVIOUS
      <4> QED BY <1>1, <4>1, Zenon
    <3> QED BY <3>2, <3>3, <3>4
  <2>2. DOMAIN t = 1 .. Len(t)
    BY <1>3
  <2> QED BY <2>1, <2>2
<1>5. ASSUME NEW i \in 1 .. Len(s) - n
      PROVE  n + i \in 1 .. Len(s) /\ t[i] = s[n + i]
  <2>1. /\ i \in 1 .. Len(s) - (n + 1) + 1 /\ (n + 1) + i - 1 = n + i
        /\ n + i \in 1 .. Len(s)
    BY <1>1
  <2>2. t[i] = s[(n + 1) + i - 1]
    BY <1>3, <2>1
  <2> QED BY <2>1, <2>2
<1> QED BY <1>1, <1>4, <1>5 DEF t

\* recv() moves a prefix of the stream into the receive thread's message.
LEMMA ReadKeepsOrder == TypeOK /\ OrderInv /\ RcvData => OrderInv'
<1> SUFFICES ASSUME TypeOK, OrderInv, RcvData PROVE OrderInv'
  OBVIOUS
<1>1. MsgInv'
  BY DEF OrderInv, MsgInv, RcvData, TypeOK, ControlOK, Threads
<1>2. ASSUME NEW c \in Conns PROVE OrderOf(c)'
  <2>1. PICK n \in 1 .. Len(inq[call.c]) :
          /\ msg' = SubSeq(inq[call.c], 1, n)
          /\ inq' = [inq EXCEPT ![call.c] = SubSeq(@, n + 1, Len(@))]
    BY DEF RcvData
  <2>2. UNCHANGED <<m_qRecv, call, sent, got>> /\ OrderOf(c)
    BY <1>2 DEF RcvData, OrderInv
  <2>3. CASE call.c = c
    <3>1. inq[c] \in Seq(Nat)
      BY <1>2 DEF TypeOK, OsOK
    <3>2. /\ DOMAIN msg' = 1 .. n /\ n \in 1 .. Len(inq[c])
          /\ \A i \in DOMAIN msg' : i \in DOMAIN inq[c] /\ msg'[i] = inq[c][i]
      BY <2>1, <2>3, <3>1
    <3>3. /\ DOMAIN inq'[c] = 1 .. Len(inq[c]) - n
          /\ \A i \in DOMAIN inq'[c] :
               n + i \in DOMAIN inq[c] /\ inq'[c][i] = inq[c][n + i]
      <4>1. inq'[c] = SubSeq(inq[c], n + 1, Len(inq[c]))
        BY <1>2, <2>1, <2>3 DEF TypeOK, OsOK
      <4>2. LET t == SubSeq(inq[c], n + 1, Len(inq[c]))
            IN  /\ DOMAIN t = 1 .. Len(inq[c]) - n
                /\ \A i \in DOMAIN t : n + i \in DOMAIN inq[c] /\ t[i] = inq[c][n + i]
        BY <3>1, <3>2, SuffixIndices, Zenon
      <4> QED BY <4>1, <4>2, Zenon
    <3>5. UnreadInOrder(c)'
      <4>1. \A i, j \in DOMAIN inq'[c] : i < j => n + i < n + j
        BY <3>2, <3>3
      <4> QED BY <2>2, <3>3, <4>1 DEF OrderOf, UnreadInOrder, Increasing
    <3>6. ReadInOrder(c)'
      <4>1. Increasing(msg') /\ \A x \in got[c], i \in DOMAIN msg' :
                                  msg'[i] # Pong => x < msg'[i]
        BY <2>2, <3>2 DEF OrderOf, UnreadInOrder, Increasing
      <4>2. Before(msg', inq'[c])
        <5>1. \A i \in DOMAIN msg', j \in DOMAIN inq'[c] : i < n + j
          BY <3>2, <3>3
        <5> QED
          BY <2>2, <3>2, <3>3, <5>1
          DEF OrderOf, UnreadInOrder, Increasing, Before
      <4> QED BY <2>2, <4>1, <4>2 DEF ReadInOrder
    <3>7. QueuedInOrder(c)'
      <4>1. ASSUME NEW k \in DOMAIN m_qRecv, m_qRecv[k].c = c
            PROVE  /\ Before(m_qRecv[k].items, inq'[c])
                   /\ Before(m_qRecv[k].items, msg')
        BY <2>2, <3>2, <3>3, <4>1 DEF OrderOf, QueuedInOrder, Before
      <4> QED BY <2>2, <4>1 DEF OrderOf, QueuedInOrder
    <3>8. BelowSent(c)'
      BY <2>2, <3>2, <3>3 DEF OrderOf, BelowSent
    <3> QED BY <3>5, <3>6, <3>7, <3>8 DEF OrderOf
  <2>4. CASE call.c # c
    <3>1. inq'[c] = inq[c]
      BY <1>2, <2>1, <2>4 DEF TypeOK, OsOK
    <3> QED
      BY <1>2, <2>2, <2>4, <3>1
      DEF OrderOf, QueuedInOrder, ReadInOrder, UnreadInOrder, BelowSent
  <2> QED BY <2>3, <2>4
<1> QED BY <1>1, <1>2 DEF OrderInv

\* The receive thread appends its message to m_qRecv, or drops it.
LEMMA DispatchKeepsOrder == TypeOK /\ OrderInv /\ RcvDispatch => OrderInv'
<1> SUFFICES ASSUME TypeOK, OrderInv, RcvDispatch PROVE OrderInv'
  OBVIOUS
<1>1. MsgInv'
  BY DEF OrderInv, MsgInv, RcvDispatch, TypeOK, ControlOK, Threads
<1>2. ASSUME NEW c \in Conns PROVE OrderOf(c)'
  <2> DEFINE m == [c |-> call.c, items |-> msg]
  <2>1. msg' = <<>> /\ UNCHANGED <<call, inq, sent, got>> /\ OrderOf(c)
    BY <1>2 DEF RcvDispatch, OrderInv
  <2>2. CASE m_qRecv' = m_qRecv
    BY <1>2, <2>1, <2>2
    DEF OrderOf, QueuedInOrder, ReadInOrder, UnreadInOrder, BelowSent,
        Increasing, Before
  <2>3. CASE m_qRecv' = Append(m_qRecv, m)
    <3>1. m.c = call.c /\ m.items = msg
      OBVIOUS
    <3>2. \A k \in DOMAIN m_qRecv' : k \in Int /\
            \/ k \in DOMAIN m_qRecv /\ m_qRecv'[k] = m_qRecv[k]
            \/ k = Len(m_qRecv) + 1 /\ m_qRecv'[k] = m
      BY <2>3 DEF TypeOK, MembersOK
    <3>3. \A k \in DOMAIN m_qRecv : k \in Int /\ k <= Len(m_qRecv)
      BY DEF TypeOK, MembersOK
    <3> HIDE DEF m
    <3>4. ReadInOrder(c)' /\ UnreadInOrder(c)'
      BY <1>2, <2>1 DEF OrderOf, ReadInOrder, UnreadInOrder, Increasing, Before
    <3>5. BelowSent(c)'
      BY <1>2, <2>1, <3>1, <3>2 DEF OrderOf, BelowSent
    <3>6. QueuedInOrder(c)'
      <4>1. ASSUME NEW k \in DOMAIN m_qRecv', m_qRecv'[k].c = c
            PROVE  /\ Increasing(m_qRecv'[k].items)
                   /\ Before(m_qRecv'[k].items, inq'[c])
                   /\ call'.c = c => Before(m_qRecv'[k].items, msg')
                   /\ \A x \in got'[c], i \in DOMAIN m_qRecv'[k].items :
                        m_qRecv'[k].items[i] # Pong => x < m_qRecv'[k].items[i]
        <5>1. Before(m_qRecv'[k].items, msg')
          BY <2>1 DEF Before
        <5> QED
          BY <1>2, <4>1, <5>1, <2>1, <3>1, <3>2
          DEF OrderOf, QueuedInOrder, ReadInOrder
      <4>2. ASSUME NEW k \in DOMAIN m_qRecv', NEW l \in DOMAIN m_qRecv', k < l,
                   m_qRecv'[k].c = c, m_qRecv'[l].c = c
            PROVE  Before(m_qRecv'[k].items, m_qRecv'[l].items)
        <5>1. k \in DOMAIN m_qRecv /\ m_qRecv'[k] = m_qRecv[k]
          <6>1. l <= Len(m_qRecv) + 1 /\ l \in Int /\ k \in Int /\ Len(m_qRecv) \in Int
            BY <3>2, <3>3 DEF TypeOK, MembersOK
          <6> QED BY <4>2, <6>1, <3>2
        <5> QED
          BY <4>2, <5>1, <2>1, <3>1, <3>2 DEF OrderOf, QueuedInOrder
      <4> QED BY <4>1, <4>2 DEF QueuedInOrder
    <3> QED BY <3>4, <3>5, <3>6 DEF OrderOf
  <2> QED BY <2>2, <2>3 DEF RcvDispatch
<1> QED BY <1>1, <1>2 DEF OrderInv

\* A client adds a new command, or a pong, at the end of its stream.
LEMMA SendKeepsOrder ==
  ASSUME TypeOK, OrderInv, NEW d \in Conns, ClientSend(d) \/ ClientPong(d)
  PROVE  OrderInv'
<1>1. MsgInv'
  BY DEF OrderInv, MsgInv, ClientSend, ClientPong
<1>2. ASSUME NEW c \in Conns PROVE OrderOf(c)'
  <2>1. UNCHANGED <<m_qRecv, msg, call, got>> /\ OrderOf(c)
    BY <1>2 DEF ClientSend, ClientPong, OrderInv
  <2>2. CASE d # c
    <3>1. inq'[c] = inq[c] /\ sent'[c] = sent[c]
      BY <1>2, <2>2 DEF ClientSend, ClientPong, TypeOK, OsOK
    <3> QED
      BY <1>2, <2>1, <3>1
      DEF OrderOf, QueuedInOrder, ReadInOrder, UnreadInOrder, BelowSent
  <2>3. CASE d = c
    <3>1. inq[c] \in Seq(Nat) /\ sent[c] \in Nat
      BY <1>2 DEF TypeOK, OsOK
    <3>2. PICK new \in Nat :
            /\ inq'[c] = Append(inq[c], new)
            /\ sent[c] <= sent'[c] /\ sent'[c] \in Nat
            /\ new = Pong \/ (new = sent[c] + 1 /\ sent'[c] = sent[c] + 1)
      <4>1. CASE ClientSend(d)
        <5>1. /\ inq'[c] = Append(inq[c], sent[c] + 1)
              /\ sent'[c] = sent[c] + 1
          BY <1>2, <2>3, <4>1 DEF ClientSend, TypeOK, OsOK
        <5> QED BY <3>1, <5>1, SMTT(60)
      <4>2. CASE ClientPong(d)
        <5>1. inq'[c] = Append(inq[c], Pong) /\ sent'[c] = sent[c]
          BY <1>2, <2>3, <4>2 DEF ClientPong, TypeOK, OsOK
        <5>2. Pong \in Nat /\ sent[c] <= sent'[c] /\ sent'[c] \in Nat
          BY <3>1, <5>1 DEF Pong
        <5> QED BY <5>1, <5>2
      <4> QED BY <4>1, <4>2
    <3>3. \A i \in DOMAIN inq'[c] : i \in Int /\
            \/ i \in DOMAIN inq[c] /\ inq'[c][i] = inq[c][i]
            \/ i = Len(inq[c]) + 1 /\ inq'[c][i] = new
      BY <3>1, <3>2, SMTT(60)
    <3>4. \A i \in DOMAIN inq[c] : i \in Int /\ i <= Len(inq[c]) /\ inq[c][i] \in Nat
      BY <3>1
    <3>5. \A x \in got[c] : x \in Nat
      BY <1>2 DEF TypeOK, OsOK
    <3>6. BelowSent(c)'
      <4>1. \A i \in DOMAIN inq'[c] : inq'[c][i] <= sent'[c]
        BY <2>1, <3>1, <3>2, <3>3, <3>4, SMTT(40) DEF OrderOf, BelowSent, Pong
      <4>2. \A x \in got[c] : x <= sent'[c]
        BY <2>1, <3>1, <3>2, <3>5 DEF OrderOf, BelowSent
      <4>3. call.c = c => \A i \in DOMAIN msg : msg[i] <= sent'[c]
        BY <2>1, <3>1, <3>2 DEF OrderOf, BelowSent, TypeOK, LocalsOK
      <4>4. ASSUME NEW k \in DOMAIN m_qRecv, m_qRecv[k].c = c
            PROVE  \A i \in DOMAIN m_qRecv[k].items : m_qRecv[k].items[i] <= sent'[c]
        <5>1. m_qRecv[k].items \in Seq(Nat)
          <6>1. m_qRecv[k] \in Messages BY DEF TypeOK, MembersOK
          <6> QED BY <6>1 DEF Messages
        <5> QED
          BY <2>1, <3>1, <3>2, <4>4, <5>1, SMTT(60) DEF OrderOf, BelowSent
      <4> QED BY <2>1, <4>1, <4>2, <4>3, <4>4 DEF BelowSent
    <3>7. UnreadInOrder(c)'
      <4>1. ASSUME NEW i \in DOMAIN inq'[c], NEW j \in DOMAIN inq'[c], i < j,
                   inq'[c][i] # Pong, inq'[c][j] # Pong
            PROVE  inq'[c][i] < inq'[c][j]
        <5>1. i \in DOMAIN inq[c] /\ inq'[c][i] = inq[c][i]
          BY <3>1, <3>2, <4>1, SMTT(60)
        <5>2. CASE j \in DOMAIN inq[c] /\ inq'[c][j] = inq[c][j]
          BY <2>1, <4>1, <5>1, <5>2 DEF OrderOf, UnreadInOrder, Increasing
        <5>3. CASE inq'[c][j] = new
          BY <2>1, <3>1, <3>2, <3>4, <4>1, <5>1, <5>3, SMTT(60) DEF OrderOf, BelowSent
        <5> QED BY <3>3, <5>2, <5>3
      <4>2. ASSUME NEW x \in got[c], NEW i \in DOMAIN inq'[c], inq'[c][i] # Pong
            PROVE  x < inq'[c][i]
        BY <2>1, <3>1, <3>2, <3>3, <3>5, <4>2, SMTT(40)
        DEF OrderOf, UnreadInOrder, BelowSent
      <4> QED BY <2>1, <4>1, <4>2 DEF UnreadInOrder, Increasing
    <3>8. ReadInOrder(c)'
      <4>1. \A i \in DOMAIN msg : msg[i] \in Nat
        BY DEF TypeOK, LocalsOK
      <4> QED
        BY <2>1, <3>1, <3>2, <3>3, <4>1, SMTT(40)
        DEF OrderOf, ReadInOrder, BelowSent, Before
    <3>9. QueuedInOrder(c)'
      <4>1. ASSUME NEW k \in DOMAIN m_qRecv, m_qRecv[k].c = c
            PROVE  Before(m_qRecv[k].items, inq'[c])
        <5>1. m_qRecv[k].items \in Seq(Nat)
          <6>1. m_qRecv[k] \in Messages BY DEF TypeOK, MembersOK
          <6> QED BY <6>1 DEF Messages
        <5> QED
          <6> SUFFICES ASSUME NEW i \in DOMAIN m_qRecv[k].items,
                              NEW j \in DOMAIN inq'[c],
                              m_qRecv[k].items[i] # Pong, inq'[c][j] # Pong
                       PROVE  m_qRecv[k].items[i] < inq'[c][j]
            BY DEF Before
          <6>1. m_qRecv[k].items[i] \in Nat /\ m_qRecv[k].items[i] <= sent[c]
            BY <2>1, <4>1, <5>1 DEF OrderOf, BelowSent
          <6>2. CASE inq'[c][j] = new
            BY <3>1, <3>2, <6>1, <6>2, SMTT(30)
          <6>3. CASE j \in DOMAIN inq[c] /\ inq'[c][j] = inq[c][j]
            BY <2>1, <4>1, <6>3 DEF OrderOf, QueuedInOrder, Before
          <6> QED BY <3>3, <6>2, <6>3
      <4> QED BY <2>1, <4>1 DEF OrderOf, QueuedInOrder
    <3> QED BY <3>6, <3>7, <3>8, <3>9 DEF OrderOf
  <2> QED BY <2>2, <2>3
<1> QED BY <1>1, <1>2 DEF OrderInv

\* The order along the whole way of the commands is kept by every step.
LEMMA OrderTracked == Spec => []OrderInv
<1>1. Init => OrderInv
  BY DEF Init, OrderInv, MsgInv, OrderOf, QueuedInOrder, ReadInOrder,
         UnreadInOrder, BelowSent, Increasing, Before, Threads
<1>2. TypeOK /\ ThreadsInv /\ OrderInv /\ [Next]_vars => OrderInv'
  <2> SUFFICES ASSUME TypeOK, ThreadsInv, OrderInv, [Next]_vars PROVE OrderInv'
    OBVIOUS
  <2> USE DEF Quiet, pipeline, TypeOK, ControlOK, Threads, Detachers
  <2>1. ASSUME NEW port \in Ports, StartServer(port) PROVE OrderInv'
    BY <2>1, QuietKeepsOrder DEF StartServer, ThreadsInv
  <2>2. CASE InitCheck \/ InitSocket \/ InitBind \/ StoprServer \/ Delete \/ StopThread
    BY <2>2, QuietKeepsOrder
    DEF InitCheck, InitSocket, InitBind, StoprServer, Delete, UnInit, StopThread
  <2>3. CASE UnInitInvalidate \/ UnInitState \/ StopRecv \/ Dettach
    BY <2>3, QuietKeepsOrder DEF UnInitInvalidate, UnInitState, StopRecv, Dettach
  <2>4. CASE Recv
    BY <2>4, RecvKeepsOrder
  <2>5. CASE AcceptThread
    <3>1. UNCHANGED <<m_qRecv, msg, call, sent, got>>
      BY <2>5 DEF AcceptThread
    <3>2. CASE UNCHANGED inq
      BY <2>5, <3>1, <3>2, QuietKeepsOrder DEF AcceptThread
    <3>3. CASE closesocket(m_nSocketClient)
      BY <2>5, <3>1, <3>3, CloseKeepsOrder DEF AcceptThread
    <3> QED BY <2>5, <3>2, <3>3 DEF AcceptThread
  <2>6. CASE UnInitClient \/ UnInitListen \/ AccReject
    BY <2>6, CloseKeepsOrder DEF UnInitClient, UnInitListen, AccReject
  <2>7. CASE AccStart \/ AccLoop \/ AccAccept \/ AccTest \/ AccStore
    BY <2>7, QuietKeepsOrder DEF AccStart, AccLoop, AccAccept, AccTest, AccStore
  <2>8. CASE AccPing \/ AccAttach \/ AccFionbio
    BY <2>8, QuietKeepsOrder DEF AccPing, AccAttach, AccFionbio
  <2>9. ASSUME NEW t \in Detachers, DettachCheck(t) \/ DettachInvalidate(t) \/ DettachState(t)
        PROVE  OrderInv'
    BY <2>9, QuietKeepsOrder
    DEF DettachCheck, DettachInvalidate, DettachState, MainRet, RcvRet
  <2>10. ASSUME NEW t \in Detachers, DettachClose(t) PROVE OrderInv'
    BY <2>10, CloseKeepsOrder DEF DettachClose
  <2>11. CASE RcvCheck \/ RcvSocket \/ RcvEof \/ RcvError
    BY <2>11, QuietKeepsOrder DEF RcvCheck, RcvSocket, RcvEof, RcvError
  <2>12. CASE RcvTick \/ RcvPingLoad \/ RcvPingStore
    BY <2>12, QuietKeepsOrder DEF RcvTick, RcvPingLoad, RcvPingStore
  <2>13. CASE RcvCall
    <3>1. msg = <<>> /\ UNCHANGED <<m_qRecv, msg, inq, sent, got>>
      BY <2>13 DEF RcvCall, OrderInv, MsgInv
    <3>2. MsgInv'
      BY <2>13, <3>1 DEF RcvCall, MsgInv
    <3>3. ASSUME NEW c \in Conns PROVE OrderOf(c)'
      BY <3>1, <3>3
      DEF OrderInv, OrderOf, QueuedInOrder, ReadInOrder, UnreadInOrder,
          BelowSent, Increasing, Before
    <3> QED BY <3>2, <3>3 DEF OrderInv
  <2>14. CASE RcvData
    BY <2>14, ReadKeepsOrder
  <2>15. CASE RcvDispatch
    BY <2>15, DispatchKeepsOrder
  <2>16. CASE ClientConnect
    BY <2>16, QuietKeepsOrder DEF ClientConnect
  <2>17. ASSUME NEW c \in Conns, ClientSend(c) \/ ClientPong(c) PROVE OrderInv'
    BY <2>17, SendKeepsOrder
  <2>18. ASSUME NEW c \in Conns, ClientClose(c) PROVE OrderInv'
    BY <2>18, QuietKeepsOrder DEF ClientClose
  <2>19. ASSUME NEW d \in Conns, ClientReset(d) PROVE OrderInv'
    BY <2>19, DropKeepsOrder DEF ClientReset
  <2>20. CASE UNCHANGED vars
    BY <2>20, QuietKeepsOrder
  <2> QED
    BY <2>1, <2>2, <2>3, <2>4, <2>5, <2>6, <2>7, <2>8, <2>9, <2>10, <2>11,
       <2>12, <2>13, <2>14, <2>15, <2>16, <2>17, <2>18, <2>19, <2>20
    DEF Next, ScriptCall, MainStep, AccStep, RcvStep, ClientStep, DettachStep
<1> QED
  BY <1>1, <1>2, Typed, ThreadsTracked, PTL DEF Spec

\* The script gets the commands of each connection in the order they were sent
\* and none of them twice, for any queue capacity and any number of clients.
THEOREM CommandsKeepOrder == Spec => []CommandsInOrder
<1>1. OrderInv => CommandsInOrder
  BY DEF OrderInv, OrderOf, CommandsInOrder
<1> QED
  BY <1>1, OrderTracked, PTL

-----------------------------------------------------------------------------
(* DebugServer implements CommandChannel.  Every step of the server maps   *)
(* to the channel's Send, Lose or Deliver or to no step of the channel;    *)
(* what a delivery needs, that the commands handed over are newer than     *)
(* those before and older than those still in flight, is OrderInv.         *)

HIDE DEF SetRunState, Conns

\* x is a command of c that is unread, in the receive thread's hands or queued.
Travels(c, x) ==
  \/ x \in Commands(inq[c])
  \/ call.c = c /\ x \in Commands(msg)
  \/ \E k \in DOMAIN m_qRecv : m_qRecv[k].c = c /\ x \in Commands(m_qRecv[k].items)

\* The elements of InFlight.
LEMMA InFlightElements ==
  \A c, x : /\ x \in InFlight(c) <=> Travels(c, x)
            /\ x \in InFlight(c)' <=> Travels(c, x)'
<1>1. ASSUME NEW c, NEW x PROVE x \in InFlight(c) <=> Travels(c, x)
  BY Zenon DEF InFlight, Travels
<1>2. ASSUME NEW c, NEW x PROVE x \in InFlight(c)' <=> Travels(c, x)'
  BY Zenon DEF InFlight, Travels
<1> QED BY <1>1, <1>2

\* The commands of a connection none of whose parts changes stay in flight.
LEMMA Still ==
  ASSUME UNCHANGED <<m_qRecv, msg, call>>, NEW c, inq'[c] = inq[c]
  PROVE  InFlight(c)' = InFlight(c)
  BY DEF InFlight

\* What the mapping makes of a step that changes nothing in flight.
LEMMA Stutters ==
  ASSUME UNCHANGED <<sent, got>>, \A c \in Conns : InFlight(c)' = InFlight(c)
  PROVE  UNCHANGED Channel!cvars
<1>1. [c \in Conns |-> InFlight(c)]' = [c \in Conns |-> InFlight(c)]
  OBVIOUS
<1> QED BY <1>1 DEF Channel!cvars

\* What it makes of a step that takes commands of one connection away.
LEMMA Loses ==
  ASSUME UNCHANGED <<sent, got>>, NEW d \in Conns, InFlight(d)' \subseteq InFlight(d),
         \A c \in Conns \ {d} : InFlight(c)' = InFlight(c)
  PROVE  Channel!CNext
<1>1. Channel!Lose(d)
  BY DEF Channel!Lose
<1> QED BY <1>1 DEF Channel!CNext

\* Dropping the unread part of a connection loses its commands.
LEMMA DropLoses ==
  ASSUME TypeOK, NEW d, inq' = inq \/ inq' = [inq EXCEPT ![d] = <<>>],
         UNCHANGED <<m_qRecv, msg, call, sent, got>>
  PROVE  [Channel!CNext]_Channel!cvars
<1>0. inq \in [Conns -> Seq(Nat)]
  BY DEF TypeOK, OsOK
<1>1. CASE inq' = inq
  BY <1>1, Still, Stutters
<1>2. CASE d \in Conns /\ inq' = [inq EXCEPT ![d] = <<>>]
  <2>1. inq'[d] = <<>> /\ \A c \in Conns \ {d} : inq'[c] = inq[c]
    BY <1>0, <1>2
  <2>2. \A x : Travels(d, x)' => Travels(d, x)
    BY <2>1 DEF Travels, Commands
  <2>3. InFlight(d)' \subseteq InFlight(d)
    BY <2>2, InFlightElements
  <2>4. \A c \in Conns \ {d} : InFlight(c)' = InFlight(c)
    BY <2>1, Still
  <2> QED BY <1>2, <2>3, <2>4, Loses
<1>3. CASE d \notin Conns /\ inq' = [inq EXCEPT ![d] = <<>>]
  <2>1. inq' = inq
    BY <1>0, <1>3
  <2> QED BY <1>1, <2>1
<1> QED BY <1>1, <1>2, <1>3

\* So does closing a handle.
LEMMA CloseLoses ==
  ASSUME TypeOK, NEW h, closesocket(h), UNCHANGED <<m_qRecv, msg, call, sent, got>>
  PROVE  [Channel!CNext]_Channel!cvars
  BY DropLoses DEF closesocket

\* A step that leaves the commands alone.
LEMMA QuietStutters ==
  ASSUME UNCHANGED pipeline
  PROVE  [Channel!CNext]_Channel!cvars
  BY Still, Stutters DEF pipeline

-----------------------------------------------------------------------------
(* The steps that move commands                                            *)

\* A client's command enters the channel; a pong does not.
LEMMA SendSends ==
  ASSUME TypeOK, NEW d \in Conns, ClientSend(d)
  PROVE  Channel!CNext
<1>1. inq \in [Conns -> Seq(Nat)] /\ sent \in [Conns -> Nat]
  BY DEF TypeOK, OsOK
<1>2. /\ inq'[d] = Append(inq[d], sent[d] + 1) /\ \A c \in Conns \ {d} : inq'[c] = inq[c]
      /\ UNCHANGED <<m_qRecv, msg, call, got>>
      /\ sent' = [sent EXCEPT ![d] = @ + 1]
  BY <1>1 DEF ClientSend
<1>3. Commands(inq'[d]) = Commands(inq[d]) \cup {sent[d] + 1}
  <2>1. sent[d] + 1 # Pong /\ inq[d] \in Seq(Nat)
    BY <1>1 DEF Pong
  <2>2. \A i \in DOMAIN inq'[d] : \/ i \in DOMAIN inq[d] /\ inq'[d][i] = inq[d][i]
                                  \/ inq'[d][i] = sent[d] + 1
    BY <1>2, <2>1
  <2>3. \A i \in DOMAIN inq[d] : i \in DOMAIN inq'[d] /\ inq'[d][i] = inq[d][i]
    BY <1>2, <2>1
  <2>4. Len(inq[d]) + 1 \in DOMAIN inq'[d] /\ inq'[d][Len(inq[d]) + 1] = sent[d] + 1
    BY <1>2, <2>1
  <2> QED BY <2>1, <2>2, <2>3, <2>4, Zenon DEF Commands
<1>4. InFlight(d)' = InFlight(d) \cup {sent[d] + 1}
  <2>1. \A x : Travels(d, x)' <=> Travels(d, x) \/ x = sent[d] + 1
    BY <1>2, <1>3, Zenon DEF Travels
  <2> QED BY <2>1, InFlightElements
<1>5. \A c \in Conns \ {d} : InFlight(c)' = InFlight(c)
  BY <1>2, Still
<1>6. Channel!Send(d)
  BY <1>2, <1>4, <1>5 DEF Channel!Send
<1> QED BY <1>6 DEF Channel!CNext

LEMMA PongStutters ==
  ASSUME TypeOK, NEW d \in Conns, ClientPong(d)
  PROVE  UNCHANGED Channel!cvars
<1>1. inq \in [Conns -> Seq(Nat)]
  BY DEF TypeOK, OsOK
<1>2. /\ inq'[d] = Append(inq[d], Pong) /\ \A c \in Conns \ {d} : inq'[c] = inq[c]
      /\ UNCHANGED <<m_qRecv, msg, call, sent, got>>
  BY <1>1 DEF ClientPong
<1>3. Commands(inq'[d]) = Commands(inq[d])
  <2>1. inq[d] \in Seq(Nat)
    BY <1>1
  <2>2. \A i \in DOMAIN inq'[d] : \/ i \in DOMAIN inq[d] /\ inq'[d][i] = inq[d][i]
                                  \/ inq'[d][i] = Pong
    BY <1>2, <2>1
  <2>3. \A i \in DOMAIN inq[d] : i \in DOMAIN inq'[d] /\ inq'[d][i] = inq[d][i]
    BY <1>2, <2>1
  <2> QED BY <2>2, <2>3, Zenon DEF Commands
<1>4. InFlight(d)' = InFlight(d)
  BY <1>2, <1>3 DEF InFlight
<1> QED BY <1>2, <1>4, Still, Stutters

\* recv() only moves commands on.
LEMMA ReadStutters ==
  ASSUME TypeOK, OrderInv, RcvData
  PROVE  UNCHANGED Channel!cvars
<1> DEFINE d == call.c
<1>1. d \in Conns /\ inq \in [Conns -> Seq(Nat)] /\ inq[d] \in Seq(Nat)
  BY DEF RcvData, TypeOK, OsOK
<1>2. PICK n \in 1 .. Len(inq[d]) :
        /\ msg' = SubSeq(inq[d], 1, n)
        /\ inq' = [inq EXCEPT ![d] = SubSeq(@, n + 1, Len(@))]
  BY DEF RcvData
<1>3. msg = <<>> /\ UNCHANGED <<m_qRecv, call, sent, got>>
  BY DEF RcvData, OrderInv, MsgInv
<1>4. inq'[d] = SubSeq(inq[d], n + 1, Len(inq[d])) /\ \A c \in Conns \ {d} : inq'[c] = inq[c]
  BY <1>1, <1>2
<1> HIDE DEF d
<1>5. Commands(inq[d]) = Commands(inq'[d]) \cup Commands(msg')
  <2>1. /\ DOMAIN msg' = 1 .. n /\ n \in 1 .. Len(inq[d]) /\ DOMAIN inq[d] = 1 .. Len(inq[d])
        /\ \A i \in 1 .. n : i \in DOMAIN inq[d] /\ msg'[i] = inq[d][i]
    BY <1>1, <1>2
  <2>2. /\ DOMAIN inq'[d] = 1 .. Len(inq[d]) - n
        /\ \A i \in DOMAIN inq'[d] : n + i \in DOMAIN inq[d] /\ inq'[d][i] = inq[d][n + i]
    <3>1. LET t == SubSeq(inq[d], n + 1, Len(inq[d]))
          IN  /\ DOMAIN t = 1 .. Len(inq[d]) - n
              /\ \A i \in DOMAIN t : n + i \in DOMAIN inq[d] /\ t[i] = inq[d][n + i]
      BY <1>1, <1>2, SuffixIndices, Zenon
    <3> QED BY <1>4, <3>1, Zenon
  <2>3. \A i \in DOMAIN inq[d] :
          \/ i \in DOMAIN msg' /\ msg'[i] = inq[d][i]
          \/ i - n \in DOMAIN inq'[d] /\ inq'[d][i - n] = inq[d][i]
    <3> SUFFICES ASSUME NEW i \in DOMAIN inq[d], i \notin DOMAIN msg'
                 PROVE  i - n \in DOMAIN inq'[d] /\ inq'[d][i - n] = inq[d][i]
      BY <2>1
    <3>1. Len(inq[d]) \in Nat
      BY <1>1
    <3>2. i - n \in 1 .. Len(inq[d]) - n /\ n + (i - n) = i
      BY <2>1, <3>1
    <3> QED BY <2>2, <3>2
  <2>4. \A i \in DOMAIN msg' : \E j \in DOMAIN inq[d] : msg'[i] = inq[d][j]
    BY <2>1
  <2>5. \A i \in DOMAIN inq'[d] : \E j \in DOMAIN inq[d] : inq'[d][i] = inq[d][j]
    BY <2>2
  <2>6. \A i \in DOMAIN inq[d] : \/ \E j \in DOMAIN msg' : inq[d][i] = msg'[j]
                                 \/ \E j \in DOMAIN inq'[d] : inq[d][i] = inq'[d][j]
    BY <2>3, Zenon
  <2>7. \A x : x \in Commands(inq[d]) <=> x \in Commands(inq'[d]) \/ x \in Commands(msg')
    <3> SUFFICES ASSUME NEW x
                 PROVE  x \in Commands(inq[d]) <=> x \in Commands(inq'[d]) \/ x \in Commands(msg')
      OBVIOUS
    <3>1. x \in Commands(inq[d]) => x \in Commands(inq'[d]) \/ x \in Commands(msg')
      BY <2>6 DEF Commands
    <3>2. x \in Commands(inq'[d]) => x \in Commands(inq[d])
      BY <2>5 DEF Commands
    <3>3. x \in Commands(msg') => x \in Commands(inq[d])
      BY <2>4 DEF Commands
    <3> QED BY <3>1, <3>2, <3>3
  <2> QED BY <2>7
<1>6. \A c \in Conns : InFlight(c)' = InFlight(c)
  <2> SUFFICES ASSUME NEW c \in Conns PROVE InFlight(c)' = InFlight(c)
    OBVIOUS
  <2>1. Commands(msg) = {}
    BY <1>3 DEF Commands
  <2>2. CASE c = d
    <3>1. \A x : Travels(c, x)' <=> Travels(c, x)
      BY <1>3, <1>5, <2>1, <2>2, Zenon DEF Travels, d
    <3> QED BY <3>1, InFlightElements
  <2>3. CASE c # d
    <3>1. \A x : Travels(c, x)' <=> Travels(c, x)
      BY <1>3, <1>4, <2>3, Zenon DEF Travels, d
    <3> QED BY <3>1, InFlightElements
  <2> QED BY <2>2, <2>3
<1> QED BY <1>3, <1>6, Stutters

\* A message is queued as a whole, or lost as a whole.
LEMMA DispatchLoses ==
  ASSUME TypeOK, OrderInv, RcvDispatch
  PROVE  [Channel!CNext]_Channel!cvars
<1> DEFINE m == [c |-> call.c, items |-> msg]
<1>1. msg' = <<>> /\ UNCHANGED <<call, inq, sent, got>> /\ call.c \in Conns
  BY DEF RcvDispatch, OrderInv, MsgInv
<1>2. Commands(msg') = {}
  BY <1>1 DEF Commands
<1>3. CASE m_qRecv' = m_qRecv
  <2>1. \A c, x : Travels(c, x)' => Travels(c, x)
    BY <1>1, <1>2, <1>3, Zenon DEF Travels
  <2>2. \A c, x : c # call.c => (Travels(c, x)' <=> Travels(c, x))
    BY <1>1, <1>2, <1>3, Zenon DEF Travels
  <2>3. PICK d \in Conns : d = call.c
    BY <1>1
  <2>4. /\ InFlight(d)' \subseteq InFlight(d)
        /\ \A c \in Conns \ {d} : InFlight(c)' = InFlight(c)
    <3>1. InFlight(d)' \subseteq InFlight(d)
      BY <2>1, InFlightElements, Zenon
    <3>2. ASSUME NEW c \in Conns \ {d} PROVE InFlight(c)' = InFlight(c)
      <4>1. \A x : Travels(c, x)' <=> Travels(c, x)
        BY <2>2, <2>3, Zenon
      <4> QED BY <4>1, InFlightElements, Zenon
    <3> QED BY <3>1, <3>2
  <2> QED BY <1>1, <2>4, Loses
<1>4. CASE m_qRecv' = Append(m_qRecv, m)
  <2>1. m.c = call.c /\ m.items = msg
    OBVIOUS
  <2> HIDE DEF m
  <2>2. \A k \in DOMAIN m_qRecv' : \/ k \in DOMAIN m_qRecv /\ m_qRecv'[k] = m_qRecv[k]
                                   \/ m_qRecv'[k] = m
    BY <1>4 DEF TypeOK, MembersOK
  <2>3. \A k \in DOMAIN m_qRecv : k \in DOMAIN m_qRecv' /\ m_qRecv'[k] = m_qRecv[k]
    BY <1>4 DEF TypeOK, MembersOK
  <2>4. Len(m_qRecv) + 1 \in DOMAIN m_qRecv' /\ m_qRecv'[Len(m_qRecv) + 1] = m
    BY <1>4 DEF TypeOK, MembersOK
  <2>5. \A c, x : Travels(c, x)' => Travels(c, x)
    BY <1>1, <1>2, <2>1, <2>2, Zenon DEF Travels
  <2>6. \A c, x : Travels(c, x) => Travels(c, x)'
    <3> SUFFICES ASSUME NEW c, NEW x, Travels(c, x) PROVE Travels(c, x)'
      OBVIOUS
    <3>1. CASE x \in Commands(inq[c])
      BY <1>1, <3>1 DEF Travels
    <3>2. CASE call.c = c /\ x \in Commands(msg)
      BY <2>1, <2>4, <3>2, Zenon DEF Travels
    <3>3. CASE \E k \in DOMAIN m_qRecv : m_qRecv[k].c = c /\ x \in Commands(m_qRecv[k].items)
      BY <2>3, <3>3, Zenon DEF Travels
    <3> QED BY <3>1, <3>2, <3>3 DEF Travels
  <2>7. \A c \in Conns : InFlight(c)' = InFlight(c)
    BY <2>5, <2>6, InFlightElements
  <2> QED BY <1>1, <2>7, Stutters
<1> QED BY <1>3, <1>4 DEF RcvDispatch

\* Recv delivers the oldest message: its commands are newer than all the script
\* has of that connection, and older than all that are still in flight.
LEMMA RecvDelivers ==
  ASSUME TypeOK, OrderInv, Recv
  PROVE  [Channel!CNext]_Channel!cvars
<1> DEFINE m == Head(m_qRecv)
<1>1. m \in Messages /\ m = m_qRecv[1] /\ 1 \in DOMAIN m_qRecv
  BY DEF Recv, TypeOK, MembersOK
<1>2. PICK d \in 0 .. MaxConns, items \in SUBSET Nat : d = m.c /\ items = Commands(m.items)
  <2>1. m.c \in 0 .. MaxConns /\ m.items \in Seq(Nat)
    BY <1>1 DEF Messages
  <2>2. Commands(m.items) \in SUBSET Nat
    BY <2>1 DEF Commands
  <2> QED BY <2>1, <2>2
<1>3. /\ UNCHANGED <<msg, call, inq, sent>>
      /\ got' = [got EXCEPT ![d] = @ \cup items]
  BY <1>2 DEF Recv
<1>4. \A k \in DOMAIN m_qRecv' :
        k + 1 \in DOMAIN m_qRecv /\ 1 < k + 1 /\ m_qRecv'[k] = m_qRecv[k + 1]
  BY DEF Recv, TypeOK, MembersOK
<1>5. \A k \in DOMAIN m_qRecv :
        k = 1 \/ (k - 1 \in DOMAIN m_qRecv' /\ m_qRecv'[k - 1] = m_qRecv[k] /\ 1 < k)
  BY DEF Recv, TypeOK, MembersOK
<1>6. got \in [Conns -> SUBSET Nat]
  BY DEF TypeOK, OsOK
<1> HIDE DEF m
<1>7. \A c, x : Travels(c, x)' => Travels(c, x)
  BY <1>3, <1>4, Zenon DEF Travels
<1>8. \A c, x : Travels(c, x) => Travels(c, x)' \/ (c = d /\ x \in items)
  <2> SUFFICES ASSUME NEW c, NEW x, Travels(c, x), ~(c = d /\ x \in items)
               PROVE  Travels(c, x)'
    OBVIOUS
  <2>1. CASE x \in Commands(inq[c]) \/ (call.c = c /\ x \in Commands(msg))
    BY <1>3, <2>1 DEF Travels
  <2>2. ASSUME NEW k \in DOMAIN m_qRecv, m_qRecv[k].c = c, x \in Commands(m_qRecv[k].items)
        PROVE  Travels(c, x)'
    <3>1. k # 1
      BY <1>1, <1>2, <2>2
    <3>2. k - 1 \in DOMAIN m_qRecv' /\ m_qRecv'[k - 1] = m_qRecv[k]
      BY <1>5, <3>1
    <3> QED BY <2>2, <3>2 DEF Travels
  <2> QED BY <2>1, <2>2 DEF Travels
<1>9. CASE d \notin Conns
  <2>1. got' = got
    BY <1>3, <1>6, <1>9
  <2>2. \A c \in Conns : InFlight(c)' = InFlight(c)
    BY <1>7, <1>8, <1>9, InFlightElements
  <2> QED BY <1>3, <2>1, <2>2, Stutters
<1>10. CASE d \in Conns
  <2>1. OrderOf(d)
    BY <1>10 DEF OrderInv
  <2>2. \A x \in items : Travels(d, x)
    BY <1>1, <1>2 DEF Travels
  <2>3. \A x \in items : \A z : Travels(d, z)' => x < z
    <3> SUFFICES ASSUME NEW x \in items, NEW z, Travels(d, z)' PROVE x < z
      OBVIOUS
    <3>1. PICK i \in DOMAIN m_qRecv[1].items : x = m_qRecv[1].items[i] /\ x # Pong
      BY <1>1, <1>2 DEF Commands
    <3>2. m_qRecv[1].c = d /\ 1 \in DOMAIN m_qRecv
      BY <1>1, <1>2
    <3>3. CASE z \in Commands(inq[d])
      BY <2>1, <3>1, <3>2, <3>3 DEF OrderOf, QueuedInOrder, Before, Commands
    <3>4. CASE call.c = d /\ z \in Commands(msg)
      BY <2>1, <3>1, <3>2, <3>4 DEF OrderOf, QueuedInOrder, Before, Commands
    <3>5. ASSUME NEW k \in DOMAIN m_qRecv', m_qRecv'[k].c = d,
                 z \in Commands(m_qRecv'[k].items)
          PROVE  x < z
      <4>1. PICK l \in DOMAIN m_qRecv : 1 < l /\ m_qRecv'[k] = m_qRecv[l]
        BY <1>4
      <4>2. Before(m_qRecv[1].items, m_qRecv[l].items)
        BY <2>1, <3>2, <3>5, <4>1 DEF OrderOf, QueuedInOrder
      <4> QED BY <3>1, <3>5, <4>1, <4>2 DEF Before, Commands
    <3> QED BY <1>3, <3>3, <3>4, <3>5 DEF Travels
  <2>4. \A x \in items : \A y \in got[d] : y < x
    <3>1. m_qRecv[1].c = d /\ 1 \in DOMAIN m_qRecv
      BY <1>1, <1>2
    <3> QED BY <1>1, <1>2, <2>1, <3>1 DEF OrderOf, QueuedInOrder, Commands
  <2>5. \A x \in items : ~Travels(d, x)'
    BY <2>3
  <2>6. items \subseteq InFlight(d) /\ InFlight(d)' = InFlight(d) \ items
    BY <1>7, <1>8, <2>2, <2>5, InFlightElements
  <2>7. \A c \in Conns \ {d} : InFlight(c)' = InFlight(c)
    BY <1>7, <1>8, InFlightElements
  <2>8. \A x \in items : \A z \in InFlight(d) \ items : x < z
    BY <2>3, <2>6, InFlightElements
  <2>9. Channel!Deliver(d)
    <3> DEFINE flight == [c \in Conns |-> InFlight(c)]
    <3>1. flight[d] = InFlight(d)
      BY <1>10
    <3>2. flight' = [flight EXCEPT ![d] = @ \ items]
      BY <1>10, <2>6, <2>7
    <3>3. items \in SUBSET flight[d] /\ \A x \in items : \A z \in flight[d] \ items : x < z
      BY <2>6, <2>8, <3>1
    <3> HIDE DEF flight
    <3>4. \E taken \in SUBSET flight[d] :
            /\ got' = [got EXCEPT ![d] = @ \cup taken]
            /\ \A x \in taken : /\ \A y \in got[d] : y < x
                                /\ \A z \in flight[d] \ taken : x < z
            /\ flight' = [flight EXCEPT ![d] = @ \ taken]
            /\ UNCHANGED sent
      BY <1>3, <2>4, <3>2, <3>3
    <3> QED BY <3>4, Zenon DEF Channel!Deliver, flight
  <2> QED BY <1>10, <2>9 DEF Channel!CNext
<1> QED BY <1>9, <1>10

-----------------------------------------------------------------------------
\* From each client to the script the debug server is a channel that may lose
\* commands and does nothing else to them, for any number of handles,
\* connections and commands and any capacity of the queue.
THEOREM ServerIsAChannel == Spec => IsCommandChannel
<1>1. Init => Channel!CInit
  <2> SUFFICES ASSUME Init PROVE Channel!CInit
    OBVIOUS
  <2>1. \A c \in Conns : InFlight(c) = {}
    <3>1. \A c \in Conns : \A x : ~Travels(c, x)
      BY DEF Init, Travels, Commands
    <3> QED BY <3>1, InFlightElements
  <2> QED BY <2>1 DEF Init, Channel!CInit
<1>2. TypeOK /\ OrderInv /\ [Next]_vars => [Channel!CNext]_Channel!cvars
  <2> SUFFICES ASSUME TypeOK, OrderInv, [Next]_vars PROVE [Channel!CNext]_Channel!cvars
    OBVIOUS
  <2>1. CASE UNCHANGED pipeline
    BY <2>1, QuietStutters
  <2>2. ASSUME NEW port \in Ports, StartServer(port) PROVE UNCHANGED pipeline
    BY <2>2 DEF StartServer, pipeline
  <2>3. CASE InitCheck \/ InitSocket \/ InitBind \/ StoprServer \/ Delete \/ StopThread
    BY <2>1, <2>3
    DEF InitCheck, InitSocket, InitBind, StoprServer, Delete, UnInit, StopThread, pipeline
  <2>4. CASE UnInitInvalidate \/ UnInitState \/ StopRecv \/ Dettach
    BY <2>1, <2>4 DEF UnInitInvalidate, UnInitState, StopRecv, Dettach, pipeline
  <2>5. CASE AcceptThread
    <3>1. UNCHANGED <<m_qRecv, msg, call, sent, got>>
      BY <2>5 DEF AcceptThread
    <3>2. UNCHANGED inq \/ closesocket(m_nSocketClient)
      BY <2>5 DEF AcceptThread
    <3> QED BY <2>1, <3>1, <3>2, CloseLoses DEF pipeline
  <2>6. CASE UnInitClient \/ UnInitListen \/ AccReject
    BY <2>6, CloseLoses DEF UnInitClient, UnInitListen, AccReject
  <2>7. CASE AccStart \/ AccLoop \/ AccAccept \/ AccTest \/ AccStore
    BY <2>1, <2>7 DEF AccStart, AccLoop, AccAccept, AccTest, AccStore, pipeline
  <2>8. CASE AccPing \/ AccAttach \/ AccFionbio
    BY <2>1, <2>8 DEF AccPing, AccAttach, AccFionbio, pipeline
  <2>9. ASSUME NEW t \in Detachers, DettachCheck(t) \/ DettachInvalidate(t) \/ DettachState(t)
        PROVE  UNCHANGED pipeline
    BY <2>9 DEF DettachCheck, DettachInvalidate, DettachState, pipeline
  <2>10. ASSUME NEW t \in Detachers, DettachClose(t) PROVE [Channel!CNext]_Channel!cvars
    BY <2>10, CloseLoses DEF DettachClose
  <2>11. CASE RcvCheck \/ RcvSocket \/ RcvEof \/ RcvError
    BY <2>1, <2>11 DEF RcvCheck, RcvSocket, RcvEof, RcvError, pipeline
  <2>12. CASE RcvTick \/ RcvPingLoad \/ RcvPingStore
    BY <2>1, <2>12 DEF RcvTick, RcvPingLoad, RcvPingStore, pipeline
  <2>13. CASE RcvCall
    <3>1. msg = <<>> /\ UNCHANGED <<m_qRecv, msg, inq, sent, got>>
      BY <2>13 DEF RcvCall, OrderInv, MsgInv
    <3>2. \A c \in Conns : InFlight(c)' = InFlight(c)
      <4>1. \A c, x : Travels(c, x)' <=> Travels(c, x)
        BY <3>1 DEF Travels, Commands
      <4> QED BY <4>1, InFlightElements
    <3> QED BY <3>1, <3>2, Stutters
  <2>14. CASE Recv \/ RcvData \/ RcvDispatch
    BY <2>14, RecvDelivers, ReadStutters, DispatchLoses
  <2>15. CASE ClientConnect
    BY <2>1, <2>15 DEF ClientConnect, pipeline
  <2>16. ASSUME NEW c \in Conns, ClientSend(c) \/ ClientPong(c)
         PROVE  [Channel!CNext]_Channel!cvars
    BY <2>16, SendSends, PongStutters
  <2>17. ASSUME NEW c \in Conns, ClientClose(c) PROVE UNCHANGED pipeline
    BY <2>17 DEF ClientClose, pipeline
  <2>18. ASSUME NEW c \in Conns, ClientReset(c) PROVE [Channel!CNext]_Channel!cvars
    BY <2>18, DropLoses DEF ClientReset
  <2>19. CASE UNCHANGED vars
    BY <2>1, <2>19 DEF pipeline
  <2> QED
    BY <2>1, <2>2, <2>3, <2>4, <2>5, <2>6, <2>7, <2>8, <2>9, <2>10, <2>11, <2>12,
       <2>13, <2>14, <2>15, <2>16, <2>17, <2>18, <2>19
    DEF Next, ScriptCall, MainStep, AccStep, RcvStep, ClientStep, DettachStep, Detachers
<1> QED
  BY <1>1, <1>2, Typed, OrderTracked, PTL DEF Spec, IsCommandChannel, Channel!CSpec
-----------------------------------------------------------------------------
(* The console                                                             *)

\* Only a thread that waits leaves a line in the queue, and m_ThreadConsole is
\* joinable exactly while there is a thread.
QueueInv ==
  /\ ConsoleTypeOK
  /\ m_ThreadConsole <=> con # "none"
  /\ con # "wait" => m_qConsole = <<>>
  /\ Len(m_qConsole) <= 1

LEMMA QueueTracked == ConsoleSpec => []QueueInv
<1>1. ConsoleInit => QueueInv
  <2> SUFFICES ASSUME ConsoleInit PROVE QueueInv
    OBVIOUS
  <2>1. stdin \in Seq(Chars) /\ line \in Seq({"c", "q"})
    BY DEF ConsoleInit
  <2>2. m_qConsole \in Seq(Seq({"c", "q"})) /\ Len(m_qConsole) = 0
    BY DEF ConsoleInit
  <2>3. typed \in Seq(Seq({"c", "q"})) /\ handed \in Seq(Seq({"c", "q"}))
    BY DEF ConsoleInit
  <2>4. con = "none" /\ main = "idle" /\ m_ThreadConsole = FALSE /\ stops \in Nat
    BY DEF ConsoleInit
  <2>5. ConsoleTypeOK
    BY <2>1, <2>2, <2>3, <2>4 DEF ConsoleTypeOK, ConPC, StopPC
  <2>6. m_qConsole = <<>>
    BY DEF ConsoleInit
  <2> QED BY <2>2, <2>4, <2>5, <2>6 DEF QueueInv
<1>2. QueueInv /\ [ConsoleNext]_consoleVars => QueueInv'
  <2> SUFFICES ASSUME QueueInv, [ConsoleNext]_consoleVars PROVE QueueInv'
    OBVIOUS
  <2> USE DEF QueueInv, ConsoleTypeOK, Chars, ConPC, StopPC
  <2>1. CASE StartConsole
    BY <2>1 DEF StartConsole
  <2>2. CASE ReadCmd
    BY <2>2 DEF ReadCmd
  <2>3. CASE StopConsole
    BY <2>3 DEF StopConsole
  <2>4. ASSUME NEW here, NEW ch \in Chars, NEW next \in StopPC, Putback(here, ch, next)
        PROVE  QueueInv'
    BY <2>4 DEF Putback
  <2>5. CASE Drain
    BY <2>5 DEF Drain
  <2>6. CASE JoinConsole
    BY <2>6 DEF JoinConsole
  <2>7. CASE GetLine
    <3>1. Head(stdin) \in Chars /\ Tail(stdin) \in Seq(Chars)
      BY <2>7 DEF GetLine
    <3>2. CASE Head(stdin) = "nl"
      BY <2>7, <3>1, <3>2 DEF GetLine
    <3>3. CASE Head(stdin) # "nl"
      <4>1. Append(line, Head(stdin)) \in Seq({"c", "q"})
        BY <3>1, <3>3
      <4> QED BY <2>7, <3>1, <3>3, <4>1 DEF GetLine
    <3> QED BY <3>2, <3>3
  <2>8. CASE TestLine
    BY <2>8 DEF TestLine
  <2>9. CASE PushLine
    BY <2>9 DEF PushLine
  <2>10. CASE WaitHandled
    BY <2>10 DEF WaitHandled
  <2>11. ASSUME NEW l \in Lines, Type(l) PROVE QueueInv'
    <3>1. l \in Seq({"c", "q"}) /\ l \in Seq(Chars)
      BY ConsoleAssumption
    <3>2. stdin' \in Seq(Chars)
      BY <2>11, <3>1 DEF Type
    <3>3. typed' \in Seq(Seq({"c", "q"}))
      <4> DEFINE Words == Seq({"c", "q"})
      <4>1. typed \in Seq(Words) /\ l \in Words
        BY <3>1
      <4>2. typed' = Append(typed, l)
        BY <2>11 DEF Type
      <4> HIDE DEF Words
      <4>3. typed' \in Seq(Words)
        BY <4>1, <4>2
      <4> QED BY <4>3 DEF Words
    <3> QED BY <2>11, <3>2, <3>3 DEF Type
  <2>12. CASE UNCHANGED consoleVars
    BY <2>12 DEF consoleVars
  <2> QED
    BY <2>1, <2>2, <2>3, <2>4, <2>5, <2>6, <2>7, <2>8, <2>9, <2>10, <2>11, <2>12
    DEF ConsoleNext, StopStep, ConsoleStep
<1> QED
  BY <1>1, <1>2, PTL DEF ConsoleSpec

\* Whatever the script, the user and the console thread do, and over any number
\* of sessions, m_qConsole holds at most one line, and none while the thread
\* reads or holds another one.
THEOREM ConsoleRendezvous == ConsoleSpec => [](ConsoleTypeOK /\ OneLineAtATime)
<1>1. QueueInv => ConsoleTypeOK /\ OneLineAtATime
  BY DEF QueueInv, OneLineAtATime
<1> QED
  BY <1>1, QueueTracked, PTL

\* Word: a line without its newline.
Word == Seq({"c", "q"})

\* The stream s is the lines ls, each with its newline: g[i] is what is left of
\* it behind the first i lines.
Spells(s, ls) ==
  \E g \in [0 .. Len(ls) -> Seq(Chars)] :
    /\ g[0] = s /\ g[Len(ls)] = <<>>
    /\ \A i \in 1 .. Len(ls) : g[i - 1] = Append(ls[i], "nl") \o g[i]

LEMMA SpellsNothing == Spells(<<>>, <<>>)
  <1> DEFINE g == [i \in 0 .. 0 |-> <<>>]
  <1>1. g \in [0 .. 0 -> Seq(Chars)] /\ g[0] = <<>>
    OBVIOUS
  <1>2. Len(<<>>) = 0
    OBVIOUS
  <1> HIDE DEF g
  <1> QED  BY <1>1, <1>2 DEF Spells

\* A line that is typed comes behind the others.
LEMMA SpellsMore ==
  ASSUME NEW s \in Seq(Chars), NEW ls \in Seq(Word), NEW l \in Word, Spells(s, ls)
  PROVE  Spells(s \o Append(l, "nl"), Append(ls, l))
  <1>1. PICK g \in [0 .. Len(ls) -> Seq(Chars)] :
          /\ g[0] = s /\ g[Len(ls)] = <<>>
          /\ \A i \in 1 .. Len(ls) : g[i - 1] = Append(ls[i], "nl") \o g[i]
    BY DEF Spells
  <1> DEFINE e == Append(l, "nl")
             ms == Append(ls, l)
             h == [i \in 0 .. Len(ms) |-> IF i = Len(ms) THEN <<>> ELSE g[i] \o e]
  <1>2. \A w \in Word : Append(w, "nl") \in Seq(Chars)
    BY DEF Word, Chars
  <1>3. /\ ms \in Seq(Word) /\ Len(ls) \in Nat /\ Len(ms) = Len(ls) + 1
        /\ ms[Len(ms)] = l /\ \A i \in 1 .. Len(ls) : ms[i] = ls[i]
    BY AppendProperties
  <1>4. e \in Seq(Chars) /\ e \o <<>> = e /\ <<>> \o e = e
    BY <1>2, ConcatEmptySeq
  <1> HIDE DEF e, ms
  <1>5. h \in [0 .. Len(ms) -> Seq(Chars)]
    <2>1. ASSUME NEW i \in 0 .. Len(ms) PROVE h[i] \in Seq(Chars)
      <3>1. CASE i = Len(ms)
        BY <3>1
      <3>2. CASE i # Len(ms)
        <4>1. i \in 0 .. Len(ls)
          BY <1>3, <3>2
        <4> QED  BY <1>1, <1>4, <3>2, <4>1
      <3> QED  BY <3>1, <3>2
    <2> QED  BY <2>1
  <1>6. h[0] = s \o e /\ h[Len(ms)] = <<>>
    BY <1>1, <1>3
  <1>7. ASSUME NEW i \in 1 .. Len(ms)
        PROVE  h[i - 1] = Append(ms[i], "nl") \o h[i]
    <2>1. i - 1 \in 0 .. Len(ls) /\ i - 1 # Len(ms) /\ i - 1 \in 0 .. Len(ms) /\ i \in 0 .. Len(ms)
      BY <1>3
    <2>2. h[i - 1] = g[i - 1] \o e
      BY <2>1
    <2>3. CASE i = Len(ms)
      <3>1. h[i] = <<>> /\ Append(ms[i], "nl") = e /\ g[i - 1] = <<>>
        BY <1>1, <1>3, <2>1, <2>3 DEF e
      <3> QED  BY <1>4, <2>2, <3>1
    <2>4. CASE i # Len(ms)
      <3>1. i \in 1 .. Len(ls) /\ i \in 0 .. Len(ls) /\ ls[i] \in Word
        BY <1>3, <2>4
      <3>2. g[i - 1] = Append(ls[i], "nl") \o g[i] /\ ms[i] = ls[i] /\ h[i] = g[i] \o e
        BY <1>1, <1>3, <2>1, <2>4, <3>1
      <3>3. Append(ls[i], "nl") \in Seq(Chars) /\ g[i] \in Seq(Chars)
        BY <1>1, <1>2, <3>1
      <3> HIDE DEF h
      <3>4. (Append(ls[i], "nl") \o g[i]) \o e = Append(ls[i], "nl") \o (g[i] \o e)
        <4>1. Regroups(Append(ls[i], "nl"), g[i], e)
          BY <1>4, <3>3, Regrouped, Zenon
        <4> QED  BY <4>1, Zenon DEF Regroups
      <3> QED  BY <2>2, <3>2, <3>4
    <2> QED  BY <2>3, <2>4
  <1>8. Spells(s \o e, ms)
    <2> HIDE DEF h
    <2> QED  BY <1>5, <1>6, <1>7 DEF Spells
  <1> QED  BY <1>8 DEF e, ms

\* u begins with the line l, its newline is the first one, and s follows.
Reads(u, l, s) ==
  /\ Len(l) \in Nat /\ Len(s) \in Nat /\ Len(u) = Len(l) + 1 + Len(s)
  /\ \A i \in 1 .. Len(l) : u[i] = l[i] /\ l[i] # "nl"
  /\ u[Len(l) + 1] = "nl"
  /\ \A i \in 1 .. Len(s) : u[Len(l) + 1 + i] = s[i]

LEMMA LineReads ==
  ASSUME NEW l \in Word, NEW s \in Seq(Chars)
  PROVE  Reads(Append(l, "nl") \o s, l, s)
  <1> DEFINE e == Append(l, "nl")
             u == e \o s
  <1>1. /\ l \in Seq(Chars) /\ "nl" \in Chars /\ Len(l) \in Nat /\ Len(s) \in Nat
        /\ \A i \in 1 .. Len(l) : l[i] # "nl"
    BY DEF Word, Chars
  <1>2. /\ e \in Seq(Chars) /\ Len(e) = Len(l) + 1
        /\ \A i \in 1 .. Len(l) : e[i] = l[i]
        /\ e[Len(l) + 1] = "nl"
    BY <1>1, AppendProperties
  <1> HIDE DEF e
  <1>3. /\ Len(u) = Len(e) + Len(s)
        /\ \A i \in 1 .. Len(e) + Len(s) : u[i] = IF i <= Len(e) THEN e[i] ELSE s[i - Len(e)]
    BY <1>2, ConcatProperties
  <1> HIDE DEF u
  <1>4. ASSUME NEW i \in 1 .. Len(s) PROVE u[Len(l) + 1 + i] = s[i]
    <2>1. /\ Len(l) + 1 + i \in 1 .. Len(e) + Len(s) /\ ~(Len(l) + 1 + i <= Len(e))
          /\ Len(l) + 1 + i - Len(e) = i
      BY <1>1, <1>2
    <2> QED  BY <1>3, <2>1
  <1>5. ASSUME NEW i \in 1 .. Len(l) + 1 PROVE u[i] = e[i]
    <2>1. i \in 1 .. Len(e) + Len(s) /\ i <= Len(e)
      BY <1>1, <1>2
    <2> QED  BY <1>3, <2>1
  <1>6. Len(u) = Len(l) + 1 + Len(s)
    BY <1>1, <1>2, <1>3
  <1>7. Len(l) + 1 \in 1 .. Len(l) + 1 /\ \A i \in 1 .. Len(l) : i \in 1 .. Len(l) + 1
    BY <1>1
  <1>8. Reads(u, l, s)
    BY <1>1, <1>2, <1>4, <1>5, <1>6, <1>7, Zenon DEF Reads
  <1> QED  BY <1>8 DEF e, u

\* The newlines tell the lines apart.
LEMMA FirstLine ==
  ASSUME NEW l \in Word, NEW m \in Word, NEW s \in Seq(Chars), NEW t \in Seq(Chars),
         Append(l, "nl") \o s = Append(m, "nl") \o t
  PROVE  l = m /\ s = t
  <1> DEFINE u == Append(l, "nl") \o s
             v == Append(m, "nl") \o t
  <1>1. Reads(u, l, s)
    BY LineReads
  <1>2. Reads(v, m, t)
    BY LineReads
  <1>3. u = v
    OBVIOUS
  <1> HIDE DEF u, v
  <1>4. Len(l) = Len(m)
    <2>1. ~(Len(l) < Len(m))
      <3>1. Len(l) < Len(m) => Len(l) + 1 \in 1 .. Len(m)
        BY <1>1, <1>2 DEF Reads
      <3> QED  BY <1>1, <1>2, <1>3, <3>1, Zenon DEF Reads
    <2>2. ~(Len(m) < Len(l))
      <3>1. Len(m) < Len(l) => Len(m) + 1 \in 1 .. Len(l)
        BY <1>1, <1>2 DEF Reads
      <3> QED  BY <1>1, <1>2, <1>3, <3>1, Zenon DEF Reads
    <2> QED  BY <1>1, <1>2, <2>1, <2>2 DEF Reads
  <1>5. l = m
    <2>1. \A i \in 1 .. Len(l) : l[i] = m[i]
      BY <1>1, <1>2, <1>3, <1>4 DEF Reads
    <2> QED  BY <1>4, <2>1, SeqEqual DEF Word
  <1>6. s = t
    <2>1. Len(s) = Len(t)
      BY <1>1, <1>2, <1>3, <1>4 DEF Reads
    <2>2. \A i \in 1 .. Len(s) : s[i] = t[i]
      BY <1>1, <1>2, <1>3, <1>4, <2>1 DEF Reads
    <2> QED  BY <2>1, <2>2, SeqEqual
  <1> QED  BY <1>5, <1>6

\* A whole line at the front of the stream is the first of its lines.
LEMMA SpellsFirst ==
  ASSUME NEW l \in Word, NEW s \in Seq(Chars), NEW ls \in Seq(Word),
         Spells(Append(l, "nl") \o s, ls)
  PROVE  ls # <<>> /\ l = Head(ls) /\ Spells(s, Tail(ls))
  <1>1. PICK g \in [0 .. Len(ls) -> Seq(Chars)] :
          /\ g[0] = Append(l, "nl") \o s /\ g[Len(ls)] = <<>>
          /\ \A i \in 1 .. Len(ls) : g[i - 1] = Append(ls[i], "nl") \o g[i]
    BY DEF Spells
  <1>2. Append(l, "nl") \o s # <<>>
    <2>1. Append(l, "nl") \in Seq(Chars) /\ Len(Append(l, "nl")) = Len(l) + 1 /\ Len(l) \in Nat
      BY DEF Word, Chars
    <2>2. Len(Append(l, "nl") \o s) # 0
      BY <2>1
    <2> QED  BY <2>2
  <1>3. ls # <<>>
    <2> SUFFICES ASSUME ls = <<>> PROVE FALSE
      OBVIOUS
    <2>1. Len(ls) = 0
      OBVIOUS
    <2> QED  BY <1>1, <1>2, <2>1
  <1> DEFINE ms == Tail(ls)
  <1>4. /\ ms \in Seq(Word) /\ Len(ms) = Len(ls) - 1 /\ Len(ls) \in Nat /\ Len(ls) # 0
        /\ Head(ls) = ls[1] /\ ls[1] \in Word /\ \A i \in 1 .. Len(ms) : ms[i] = ls[i + 1]
    BY <1>3, HeadTailProperties
  <1> HIDE DEF ms
  <1>5. l = ls[1] /\ s = g[1]
    <2>1. 1 \in 1 .. Len(ls) /\ 1 \in 0 .. Len(ls) /\ 1 - 1 = 0
      BY <1>4
    <2>2. g[0] = Append(ls[1], "nl") \o g[1] /\ g[1] \in Seq(Chars)
      BY <1>1, <2>1
    <2> QED  BY <1>1, <1>4, <2>2, FirstLine
  <1> DEFINE h == [i \in 0 .. Len(ms) |-> g[i + 1]]
  <1>6. h \in [0 .. Len(ms) -> Seq(Chars)] /\ h[0] = s /\ h[Len(ms)] = <<>>
    BY <1>1, <1>4, <1>5
  <1>7. ASSUME NEW i \in 1 .. Len(ms)
        PROVE  h[i - 1] = Append(ms[i], "nl") \o h[i]
    <2>1. /\ i + 1 \in 1 .. Len(ls) /\ (i + 1) - 1 = i /\ (i - 1) + 1 = i
          /\ i - 1 \in 0 .. Len(ms) /\ i \in 0 .. Len(ms)
      BY <1>4
    <2>2. h[i - 1] = g[i] /\ h[i] = g[i + 1] /\ ms[i] = ls[i + 1]
      BY <1>4, <2>1
    <2> QED  BY <1>1, <2>1, <2>2
  <1>8. Spells(s, ms)
    <2> HIDE DEF h
    <2> QED  BY <1>6, <1>7 DEF Spells
  <1> QED  BY <1>3, <1>4, <1>5, <1>8 DEF ms

\* The line that the thread has tested and not pushed yet.
Held == IF con = "push" THEN <<line>> ELSE <<>>

\* The lines past have gone through the thread, and rest are to come: those of
\* past that are not empty were handed to the script, are in the queue or in the
\* thread's hand, and what is left of the stream, with what getline has taken of
\* it, spells rest.
Progress(past, rest) ==
  /\ past \in Seq(Lines) /\ rest \in Seq(Lines) /\ typed = past \o rest
  /\ \A i \in 1 .. Len(past) : past[i] # <<"q">>
  /\ (handed \o m_qConsole) \o Held = Only(past, Lines \ {<<>>})
  /\ con \in {"none", "push", "wait"} => Spells(stdin, rest)
  /\ con = "getline" => Spells(line \o stdin, rest)
  /\ con = "line" => Spells(Append(line, "nl") \o stdin, rest)
  /\ con = "done" => rest # <<>> /\ Head(rest) = <<"q">>

LineInv ==
  stops = 0 => main = "idle" /\ \E past, rest : Progress(past, rest)

\* The facts of the type invariant that the steps below use.
Sound ==
  /\ stdin \in Seq(Chars) /\ line \in Word
  /\ m_qConsole \in Seq(Word) /\ handed \in Seq(Word)

LEMMA QueueSound == QueueInv => Sound
  BY DEF QueueInv, ConsoleTypeOK, Sound, Word

LEMMA LineStart == ConsoleInit => LineInv
  <1> SUFFICES ASSUME ConsoleInit PROVE main = "idle" /\ Progress(<<>>, <<>>)
    BY DEF LineInv
  <1>1. Spells(stdin, <<>>)
    BY SpellsNothing DEF ConsoleInit
  <1>2. (handed \o m_qConsole) \o Held = Only(<<>>, Lines \ {<<>>})
    BY OnlyEmpty DEF ConsoleInit, Held
  <1>3. typed = <<>> \o <<>> /\ <<>> \in Seq(Lines) /\ \A i \in 1 .. Len(<<>>) : FALSE
    BY DEF ConsoleInit
  <1>4. main = "idle" /\ con = "none"
    BY DEF ConsoleInit
  <1> QED  BY <1>1, <1>2, <1>3, <1>4 DEF Progress

\* getline moves a character from the stream to the line.
LEMMA GetLineKeeps ==
  ASSUME Sound, NEW past, NEW rest, Progress(past, rest), GetLine
  PROVE  Progress(past, rest)'
  <1> DEFINE h == Head(stdin)
             t == Tail(stdin)
  <1>1. /\ h \in Chars /\ t \in Seq(Chars) /\ stdin = <<h>> \o t
    BY DEF Sound, GetLine
  <1>2. line \in Seq(Chars)
    BY DEF Sound, Word, Chars
  <1>3. Append(line, h) \o t = line \o stdin
    <2>1. Append(line, h) = line \o <<h>> /\ <<h>> \in Seq(Chars)
      BY <1>1, <1>2, AppendIsConcat
    <2> HIDE DEF h, t
    <2>2. Regroups(line, <<h>>, t)
      BY <1>1, <1>2, <2>1, Regrouped, Zenon
    <2> QED  BY <1>1, <2>1, <2>2, Zenon DEF Regroups
  <1>4. Spells(Append(line, h) \o t, rest)
    BY <1>3 DEF Progress, GetLine
  <1>5. /\ con = "getline" /\ stdin' = t /\ Held = <<>>
        /\ UNCHANGED <<typed, handed, m_qConsole>>
    BY DEF GetLine, Held
  <1> HIDE DEF h, t
  <1>6. CASE h = "nl"
    <2>1. con' = "line" /\ line' = line
      BY <1>6 DEF GetLine, h
    <2>2. Held' = Held
      BY <1>5, <2>1 DEF Held
    <2>3. Spells(Append(line', "nl") \o stdin', rest)
      BY <1>4, <1>5, <1>6, <2>1
    <2> QED  BY <1>5, <2>1, <2>2, <2>3 DEF Progress
  <1>7. CASE h # "nl"
    <2>1. con' = "getline" /\ line' = Append(line, h)
      BY <1>5, <1>7 DEF GetLine, h
    <2>2. Held' = Held
      BY <1>5, <2>1 DEF Held
    <2>3. Spells(line' \o stdin', rest)
      BY <1>4, <1>5, <2>1
    <2> QED  BY <1>5, <2>1, <2>2, <2>3 DEF Progress
  <1> QED  BY <1>6, <1>7

LEMMA LinesAreWords == Lines \subseteq Word /\ \A ls \in Seq(Lines) : ls \in Seq(Word)
  <1>1. Lines \subseteq Word
    BY ConsoleAssumption DEF Word
  <1> HIDE DEF Word
  <1> QED  BY <1>1

\* A sequence with its first element moved to the end of another.
LEMMA Moved ==
  ASSUME NEW S, NEW p \in Seq(S), NEW r \in Seq(S), r # <<>>
  PROVE  /\ Append(p, Head(r)) \in Seq(S) /\ Tail(r) \in Seq(S) /\ Head(r) \in S
         /\ Append(p, Head(r)) \o Tail(r) = p \o r
  <1> DEFINE h == Head(r)
             t == Tail(r)
  <1>1. h \in S /\ t \in Seq(S) /\ r = <<h>> \o t /\ <<h>> \in Seq(S)
    OBVIOUS
  <1>2. Append(p, h) \in Seq(S) /\ Append(p, h) = p \o <<h>>
    BY <1>1, AppendIsConcat
  <1> HIDE DEF h, t
  <1>3. Regroups(p, <<h>>, t)
    BY <1>1, Regrouped, Zenon
  <1>4. Append(p, h) \o t = p \o r
    BY <1>1, <1>2, <1>3, Zenon DEF Regroups
  <1> QED  BY <1>1, <1>2, <1>4 DEF h, t

\* The thread tests the line it has read.
LEMMA TestLineKeeps ==
  ASSUME Sound, NEW past, NEW rest, Progress(past, rest), TestLine
  PROVE  \E p, r : Progress(p, r)'
  <1> DEFINE S == Lines \ {<<>>}
             out == handed \o m_qConsole
  <1>a. PICK past2, rest2 : past2 = Append(past, line) /\ rest2 = Tail(rest)
    OBVIOUS
  <1>1. /\ con = "line" /\ UNCHANGED <<stdin, m_qConsole, line, typed, handed>>
        /\ con' = IF line = <<>> THEN "wait" ELSE IF line = <<"q">> THEN "done" ELSE "push"
    BY DEF TestLine
  <1>2. /\ past \in Seq(Lines) /\ rest \in Seq(Lines) /\ typed = past \o rest
        /\ \A i \in 1 .. Len(past) : past[i] # <<"q">>
        /\ out \o Held = Only(past, S)
        /\ Spells(Append(line, "nl") \o stdin, rest)
    BY <1>1 DEF Progress
  <1>3. rest # <<>> /\ line = Head(rest) /\ Spells(stdin, rest2)
    <2>1. line \in Word /\ stdin \in Seq(Chars) /\ rest \in Seq(Word)
      BY <1>2, LinesAreWords DEF Sound
    <2>2. rest # <<>> /\ line = Head(rest) /\ Spells(stdin, Tail(rest))
      BY <1>2, <2>1, SpellsFirst
    <2> QED  BY <1>a, <2>2
  <1>4. past2 \in Seq(Lines) /\ rest2 \in Seq(Lines) /\ line \in Lines /\ typed = past2 \o rest2
    <2>1. /\ Append(past, Head(rest)) \in Seq(Lines) /\ Tail(rest) \in Seq(Lines)
          /\ Head(rest) \in Lines /\ Append(past, Head(rest)) \o Tail(rest) = past \o rest
      BY <1>2, <1>3, Moved
    <2> QED  BY <1>2, <1>3, <1>a, <2>1, Zenon
  <1>5. Held = <<>> /\ out = Only(past, S)
    <2>1. Held = <<>>
      BY <1>1 DEF Held
    <2>2. out \in Seq(Word)
      BY DEF Sound
    <2> HIDE DEF out, S
    <2>3. out \o <<>> = out
      BY <2>2, ConcatEmptySeq
    <2> QED  BY <1>2, <2>1, <2>3
  <1>6. out' = out
    BY <1>1
  <1>7. Only(past2, S) = IF line \in S THEN Append(Only(past, S), line) ELSE Only(past, S)
    <2> HIDE DEF S
    <2> QED  BY <1>2, <1>4, <1>a, OnlyAppend, ZenonT(40)
  <1>8. line # <<"q">> => \A i \in 1 .. Len(past2) : past2[i] # <<"q">>
    <2> HAVE line # <<"q">>
    <2>1. /\ Len(past2) = Len(past) + 1 /\ Len(past) \in Nat
          /\ \A i \in 1 .. Len(past) : past2[i] = past[i]
          /\ past2[Len(past) + 1] = line
      BY <1>2, <1>4, <1>a, AppendProperties
    <2>2. \A i \in 1 .. Len(past2) : i \in 1 .. Len(past) \/ i = Len(past) + 1
      BY <2>1
    <2> QED  BY <1>2, <2>1, <2>2, Zenon
  <1>9. CASE line = <<>>
    <2>1. con' = "wait" /\ line # <<"q">> /\ line \notin S
      BY <1>1, <1>9
    <2>2. Held' = Held
      BY <1>1, <2>1 DEF Held
    <2>3. ((handed \o m_qConsole) \o Held)' = Only(past2, S)
      <3> HIDE DEF S
      <3> QED  BY <1>1, <1>2, <1>5, <1>7, <2>1, <2>2
    <2>4. Progress(past2, rest2)'
      BY <1>1, <1>3, <1>4, <1>8, <2>1, <2>3 DEF Progress
    <2> QED  BY <2>4
  <1>10. CASE line = <<"q">>
    <2>1. con' = "done"
      BY <1>1, <1>10
    <2>2. Held' = Held
      BY <1>1, <2>1 DEF Held
    <2>3. Progress(past, rest)'
      BY <1>1, <1>2, <1>3, <1>10, <2>1, <2>2 DEF Progress
    <2> QED  BY <2>3
  <1>11. CASE line # <<>> /\ line # <<"q">>
    <2>1. con' = "push" /\ line \in S
      BY <1>1, <1>4, <1>11
    <2>2. Held' = <<line>>
      BY <1>1, <2>1 DEF Held
    <2>3. out \o <<line>> = Append(out, line)
      <3>1. out \in Seq(Word) /\ line \in Word
        BY DEF Sound
      <3> HIDE DEF out
      <3> QED  BY <3>1, AppendIsConcat
    <2>4. ((handed \o m_qConsole) \o Held)' = Only(past2, S)
      <3> HIDE DEF S
      <3> QED  BY <1>1, <1>5, <1>7, <2>1, <2>2, <2>3
    <2>5. Progress(past2, rest2)'
      BY <1>1, <1>3, <1>4, <1>8, <1>11, <2>1, <2>4 DEF Progress
    <2> QED  BY <2>5
  <1> QED  BY <1>9, <1>10, <1>11

\* A line goes from the thread to the queue, and from there to the script.
LEMMA HandOverKeeps ==
  ASSUME Sound, NEW past, NEW rest, Progress(past, rest), PushLine \/ ReadCmd
  PROVE  Progress(past, rest)'
  <1>1. CASE PushLine
    <2>1. /\ con = "push" /\ con' = "wait" /\ m_qConsole' = Append(m_qConsole, line)
          /\ UNCHANGED <<stdin, handed, typed>>
      BY <1>1 DEF PushLine
    <2>2. Held = <<line>> /\ Held' = <<>>
      BY <2>1 DEF Held
    <2>3. (handed \o Append(m_qConsole, line)) \o <<>> = (handed \o m_qConsole) \o <<line>>
      <3> HIDE DEF Word
      <3>1. handed \in Seq(Word) /\ m_qConsole \in Seq(Word) /\ line \in Word
        BY DEF Sound
      <3>2. Shifts(handed, m_qConsole, line)
        BY <3>1, AppendLast
      <3>3. (handed \o Append(m_qConsole, line)) \o <<>> = handed \o Append(m_qConsole, line)
        BY <3>1
      <3>4. Append(handed \o m_qConsole, line) = (handed \o m_qConsole) \o <<line>>
        BY <3>1
      <3> QED  BY <3>2, <3>3, <3>4 DEF Shifts
    <2>4. ((handed \o m_qConsole) \o Held)' = (handed \o m_qConsole) \o Held
      BY <2>1, <2>2, <2>3
    <2> QED  BY <2>1, <2>4 DEF Progress
  <1>2. CASE ReadCmd
    <2>1. /\ m_qConsole # <<>> /\ handed' = Append(handed, Head(m_qConsole))
          /\ m_qConsole' = Tail(m_qConsole) /\ UNCHANGED <<stdin, typed, con, line>>
      BY <1>2 DEF ReadCmd
    <2>2. handed' \o m_qConsole' = handed \o m_qConsole
      BY <2>1, Moved DEF Sound
    <2>3. Held' = Held
      BY <2>1 DEF Held
    <2> QED  BY <2>1, <2>2, <2>3 DEF Progress
  <1> QED  BY <1>1, <1>2

\* A line is typed.
LEMMA TypeKeeps ==
  ASSUME Sound, NEW past, NEW rest, Progress(past, rest), NEW l \in Lines, Type(l)
  PROVE  Progress(past, Append(rest, l))'
  <1> DEFINE e == Append(l, "nl")
             rest2 == Append(rest, l)
  <1>1. /\ stdin' = stdin \o e /\ typed' = Append(typed, l)
        /\ UNCHANGED <<m_qConsole, line, con, handed>>
    BY DEF Type
  <1>2. past \in Seq(Lines) /\ rest \in Seq(Lines) /\ typed = past \o rest
    BY DEF Progress
  <1>3. rest2 \in Seq(Lines) /\ typed' = past \o rest2
    <2>1. Shifts(past, rest, l)
      BY <1>2, AppendLast
    <2> QED  BY <1>1, <1>2, <2>1 DEF Shifts
  <1>4. rest \in Seq(Word) /\ l \in Word
    BY <1>2, LinesAreWords
  <1>5. \A s \in Seq(Chars) : Spells(s, rest) => Spells(s \o e, rest2)
    BY <1>4, SpellsMore
  <1>6. e \in Seq(Chars) /\ line \in Seq(Chars) /\ Append(line, "nl") \in Seq(Chars) /\ stdin \in Seq(Chars)
    BY <1>4 DEF Sound, Word, Chars
  <1>7. rest # <<>> => rest2 # <<>> /\ Head(rest2) = Head(rest)
    BY <1>2
  <1>8. Held' = Held
    BY <1>1 DEF Held
  <1> HIDE DEF e, rest2
  <1>9. /\ line \o stdin \in Seq(Chars) /\ (line \o stdin) \o e = line \o (stdin \o e)
        /\ Append(line, "nl") \o stdin \in Seq(Chars)
        /\ (Append(line, "nl") \o stdin) \o e = Append(line, "nl") \o (stdin \o e)
    <2> DEFINE m == Append(line, "nl")
    <2>1. m \in Seq(Chars)
      BY <1>6
    <2> HIDE DEF m
    <2>2. Regroups(line, stdin, e) /\ Regroups(m, stdin, e)
      BY <1>6, <2>1, Regrouped, Zenon
    <2>3. line \o stdin \in Seq(Chars) /\ m \o stdin \in Seq(Chars)
      BY <1>6, <2>1
    <2> QED  BY <2>2, <2>3, Zenon DEF Regroups, m
  <1>a. con \in {"none", "push", "wait"} => Spells(stdin', rest2)
    BY <1>1, <1>5, <1>6 DEF Progress
  <1>b. con = "getline" => Spells(line \o stdin', rest2)
    BY <1>1, <1>5, <1>9 DEF Progress
  <1>c. con = "line" => Spells(Append(line, "nl") \o stdin', rest2)
    BY <1>1, <1>5, <1>9 DEF Progress
  <1>d. Progress(past, rest2)'
    BY <1>1, <1>2, <1>3, <1>7, <1>8, <1>a, <1>b, <1>c DEF Progress
  <1> QED  BY <1>d DEF rest2

LEMMA LineStep == QueueInv /\ LineInv /\ [ConsoleNext]_consoleVars => LineInv'
  <1> SUFFICES ASSUME QueueInv, LineInv, [ConsoleNext]_consoleVars, stops' = 0
               PROVE  main' = "idle" /\ \E past, rest : Progress(past, rest)'
    BY DEF LineInv
  <1>1. Sound /\ stops \in Nat
    BY QueueSound DEF QueueInv, ConsoleTypeOK
  <1>2. stops = 0 /\ ~StopConsole
    BY <1>1 DEF ConsoleNext, consoleVars, StartConsole, ReadCmd, StopConsole, StopStep, Putback,
                Drain, JoinConsole, ConsoleStep, GetLine, TestLine, PushLine, WaitHandled, Type
  <1>3. main = "idle" /\ ~StopStep
    BY <1>2 DEF LineInv, StopStep, Putback, Drain, JoinConsole
  <1>4. PICK past, rest : Progress(past, rest)
    BY <1>2 DEF LineInv
  <1>5. CASE StartConsole \/ WaitHandled
    <2>1. /\ con \in {"none", "wait"} /\ con' = "getline" /\ line' = <<>>
          /\ UNCHANGED <<stdin, m_qConsole, main, typed, handed>>
      BY <1>5 DEF StartConsole, WaitHandled, QueueInv
    <2>2. <<>> \o stdin = stdin
      BY <1>1, ConcatEmptySeq DEF Sound
    <2>3. Held' = Held
      BY <2>1 DEF Held
    <2>4. Spells(line' \o stdin', rest)
      BY <1>4, <2>1, <2>2 DEF Progress
    <2>5. Progress(past, rest)'
      BY <1>4, <2>1, <2>3, <2>4 DEF Progress
    <2> QED  BY <1>3, <2>1, <2>5
  <1>6. CASE GetLine \/ PushLine \/ ReadCmd
    <2>1. main' = main
      BY <1>6 DEF GetLine, PushLine, ReadCmd
    <2> QED  BY <1>1, <1>3, <1>4, <1>6, <2>1, GetLineKeeps, HandOverKeeps
  <1>7. CASE TestLine
    <2>1. main' = main
      BY <1>7 DEF TestLine
    <2> QED  BY <1>1, <1>3, <1>4, <1>7, <2>1, TestLineKeeps
  <1>8. ASSUME NEW l \in Lines, Type(l)
        PROVE  main' = "idle" /\ \E p, r : Progress(p, r)'
    <2>1. main' = main
      BY <1>8 DEF Type
    <2> QED  BY <1>1, <1>3, <1>4, <1>8, <2>1, TypeKeeps
  <1>9. CASE UNCHANGED consoleVars
    <2>1. Progress(past, rest)'
      BY <1>4, <1>9 DEF consoleVars, Progress, Held
    <2> QED  BY <1>3, <1>9, <2>1 DEF consoleVars
  <1> QED
    BY <1>2, <1>3, <1>5, <1>6, <1>7, <1>8, <1>9 DEF ConsoleNext, ConsoleStep

\* The number of lines in front of the first "q".
BeforeQuit(ls, k) ==
  /\ k \in 0 .. Len(ls) /\ \A i \in 1 .. k : ls[i] # <<"q">>
  /\ k < Len(ls) => ls[k + 1] = <<"q">>

LEMMA BeforeQuitExists ==
  ASSUME NEW ls \in Seq(Word)
  PROVE  \E k : BeforeQuit(ls, k)
  <1> DEFINE Q == {i \in 1 .. Len(ls) : ls[i] = <<"q">>}
  <1>1. CASE Q = {}
    <2>1. BeforeQuit(ls, Len(ls))
      BY <1>1 DEF BeforeQuit
    <2> QED  BY <2>1
  <1>2. CASE Q # {}
    <2>1. Q \subseteq Nat
      OBVIOUS
    <2>2. PICK i \in Q : \A j \in Q : i <= j
      <3> HIDE DEF Q
      <3> QED  BY <1>2, <2>1, LeastNat
    <2>3. BeforeQuit(ls, i - 1)
      BY <2>2 DEF BeforeQuit
    <2> QED  BY <2>3
  <1> QED  BY <1>1, <1>2

LEMMA WantedDef ==
  ASSUME NEW ls \in Seq(Word)
  PROVE  \E k : BeforeQuit(ls, k) /\ Wanted(ls) = Only(SubSeq(ls, 1, k), Lines \ {<<>>})
  <1> DEFINE P(k) == /\ \A i \in 1 .. k : ls[i] # <<"q">>
                     /\ k < Len(ls) => ls[k + 1] = <<"q">>
             c == CHOOSE k \in 0 .. Len(ls) : P(k)
  <1>1. c \in 0 .. Len(ls) /\ P(c)
    <2>1. \E k \in 0 .. Len(ls) : P(k)
      BY BeforeQuitExists DEF BeforeQuit
    <2> HIDE DEF P
    <2> QED  BY <2>1
  <1>2. Wanted(ls) = Only(SubSeq(ls, 1, c), Lines \ {<<>>})
    BY DEF Wanted
  <1> HIDE DEF c
  <1>3. BeforeQuit(ls, c)
    BY <1>1 DEF BeforeQuit
  <1> QED  BY <1>2, <1>3

\* What has been handed over is the beginning of what is wanted.
LEMMA LinesFromInv == QueueInv /\ LineInv => LinesArriveAsTyped
  <1> SUFFICES ASSUME QueueInv, LineInv, stops = 0
               PROVE  \E n \in 0 .. Len(typed) : handed = SubSeq(Wanted(typed), 1, n)
    BY DEF LinesArriveAsTyped
  <1> DEFINE S == Lines \ {<<>>}
  <1>1. PICK past, rest : Progress(past, rest)
    BY DEF LineInv
  <1>2. /\ past \in Seq(Lines) /\ rest \in Seq(Lines) /\ typed = past \o rest
        /\ \A i \in 1 .. Len(past) : past[i] # <<"q">>
        /\ (handed \o m_qConsole) \o Held = Only(past, S)
    BY <1>1 DEF Progress
  <1> HIDE DEF S
  <1>3. typed \in Seq(Lines) /\ typed \in Seq(Word)
    <2>1. typed \in Seq(Lines)
      BY <1>2
    <2> QED  BY <2>1, LinesAreWords
  <1>4. PICK k : BeforeQuit(typed, k) /\ Wanted(typed) = Only(SubSeq(typed, 1, k), S)
    BY <1>3, WantedDef DEF S
  <1> DEFINE p == Len(past)
             more == SubSeq(typed, p + 1, k)
  <1>5. /\ p \in Nat /\ p <= Len(typed) /\ Len(typed) \in Nat
        /\ \A i \in 1 .. p : typed[i] = past[i]
    BY <1>2
  <1>6. p <= k /\ k \in p .. Len(typed)
    <2>1. k \in 0 .. Len(typed) /\ (k < Len(typed) => typed[k + 1] = <<"q">>)
      BY <1>4 DEF BeforeQuit
    <2>2. ~(k < p)
      <3> SUFFICES ASSUME k < p PROVE FALSE
        OBVIOUS
      <3>1. k + 1 \in 1 .. p /\ k < Len(typed)
        BY <1>5, <2>1
      <3> QED  BY <1>2, <1>5, <2>1, <3>1
    <2> QED  BY <1>5, <2>1, <2>2
  <1>7. SubSeq(typed, 1, k) = past \o more /\ more \in Seq(Lines)
    <2>1. /\ 1 \in 1 .. Len(typed) + 1 /\ p \in 1 - 1 .. Len(typed) /\ k \in p .. Len(typed)
          /\ p + 1 \in 1 .. Len(typed) + 1 /\ k \in (p + 1) - 1 .. Len(typed)
      BY <1>5, <1>6
    <2>2. SubSeq(typed, 1, p) \o more = SubSeq(typed, 1, k)
      <3> HIDE DEF p
      <3> QED  BY <1>3, <2>1, ConcatAdjacentSubSeq
    <2>3. SubSeq(typed, 1, p) = past
      <3>1. /\ SubSeq(typed, 1, p) \in Seq(Lines) /\ Len(SubSeq(typed, 1, p)) = p - 1 + 1
            /\ \A i \in 1 .. p - 1 + 1 : SubSeq(typed, 1, p)[i] = typed[1 + i - 1]
        <4> HIDE DEF p
        <4> QED  BY <1>3, <2>1, Part
      <3> DEFINE t == SubSeq(typed, 1, p)
      <3> HIDE DEF t
      <3>2. Len(t) = p /\ t \in Seq(Lines) /\ \A i \in 1 .. p : t[i] = past[i]
        BY <1>5, <3>1 DEF t
      <3>3. t = past
        BY <1>2, <3>2, SeqEqual
      <3> QED  BY <3>3 DEF t
    <2>4. more \in Seq(Lines)
      <3> HIDE DEF p
      <3> QED  BY <1>3, <2>1, Part
    <2> QED  BY <2>2, <2>3, <2>4
  <1> HIDE DEF more
  <1> DEFINE tail == Held \o Only(more, S)
             X == m_qConsole \o tail
  <1>8. Only(past \o more, S) = Only(past, S) \o Only(more, S)
    BY <1>2, <1>7, OnlyConcat
  <1>9. /\ handed \in Seq(Word) /\ m_qConsole \in Seq(Word) /\ Held \in Seq(Word)
        /\ Only(more, S) \in Seq(Word)
    <2>1. handed \in Seq(Word) /\ m_qConsole \in Seq(Word) /\ line \in Word
      BY QueueSound DEF Sound
    <2>2. Held \in Seq(Word)
      <3> HIDE DEF Word
      <3> QED  BY <2>1 DEF Held
    <2>3. Only(more, S) \in Seq(S)
      BY <1>7, OnlyType
    <2>4. S \subseteq Word
      BY LinesAreWords DEF S
    <2>5. Only(more, S) \in Seq(Word)
      <3> HIDE DEF Word
      <3> QED  BY <2>3, <2>4
    <2> QED  BY <2>1, <2>2, <2>5
  <1>10. Wanted(typed) = handed \o X /\ X \in Seq(Word)
    <2> HIDE DEF Word
    <2>1. tail \in Seq(Word) /\ handed \o m_qConsole \in Seq(Word) /\ X \in Seq(Word)
      BY <1>9
    <2>2. Regroups(handed \o m_qConsole, Held, Only(more, S))
      BY <1>9, <2>1, Regrouped
    <2> HIDE DEF tail
    <2>3. Regroups(handed, m_qConsole, tail)
      BY <1>9, <2>1, Regrouped
    <2> QED  BY <1>2, <1>4, <1>7, <1>8, <2>1, <2>2, <2>3, Zenon DEF Regroups, tail
  <1> HIDE DEF X
  <1>11. SubSeq(handed \o X, 1, Len(handed)) = handed
    <2> HIDE DEF Word
    <2>1. Len(handed) \in Nat /\ Len(handed \o X) = Len(handed) + Len(X) /\ Len(X) \in Nat
      BY <1>9, <1>10
    <2> DEFINE w == handed \o X
               h == SubSeq(w, 1, Len(handed))
    <2>2. w \in Seq(Word) /\ \A i \in 1 .. Len(handed) : w[i] = handed[i]
      BY <1>9, <1>10
    <2>3. Len(w) = Len(handed) + Len(X)
      BY <2>1
    <2> HIDE DEF w
    <2>4. 1 \in 1 .. Len(w) + 1 /\ Len(handed) \in 1 - 1 .. Len(w)
      BY <2>1, <2>3
    <2>5. /\ h \in Seq(Word) /\ Len(h) = Len(handed) - 1 + 1
          /\ \A i \in 1 .. Len(handed) - 1 + 1 : h[i] = w[1 + i - 1]
      BY <2>2, <2>4, Part
    <2> HIDE DEF h
    <2>6. Len(h) = Len(handed) /\ \A i \in 1 .. Len(h) : h[i] = handed[i]
      BY <2>1, <2>2, <2>5
    <2>7. h = handed
      BY <1>9, <2>5, <2>6, SeqEqual
    <2> QED  BY <2>7 DEF h, w
  <1>12. Len(handed) \in 0 .. Len(typed)
    <2>1. Len(Only(past, S)) <= p
      BY <1>2, OnlyShorter
    <2>2. Len((handed \o m_qConsole) \o Held) = Len(handed) + Len(m_qConsole) + Len(Held)
      <3> HIDE DEF Word
      <3> QED  BY <1>9
    <2>3. Len(handed) \in Nat /\ Len(m_qConsole) \in Nat /\ Len(Held) \in Nat
      BY <1>9
    <2>4. Len(handed) + Len(m_qConsole) + Len(Held) <= p
      BY <1>2, <2>1, <2>2
    <2> HIDE DEF p
    <2> QED  BY <1>5, <2>3, <2>4
  <1> QED  BY <1>10, <1>11, <1>12

\* Until StopConsole is first called, what the script is handed is the beginning
\* of what the user typed before "q", without the empty lines: whatever the
\* lines, and however typing, reading and handing over interleave.
THEOREM ConsoleFaithful == ConsoleSpec => []LinesArriveAsTyped
<1> QED
  BY LineStart, LineStep, LinesFromInv, QueueTracked, PTL DEF ConsoleSpec
=============================================================================
