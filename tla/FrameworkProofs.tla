-------------------------- MODULE FrameworkProofs --------------------------
(***************************************************************************)
(* What the programs share: the application loop with its timers, and      *)
(* the directory helpers (project/app, include/ltimer.h and fileutil.h).   *)
(*                                                                         *)
(* LUTimer never runs ahead of the clock, whatever the periods and however *)
(* long the loop stays away.  NeverEarly counts calls; the code counts     *)
(* ticks that passed minus ticks delivered.  The invariant that joins      *)
(* them: m_ticker + calls ticks have been taken in, and they fit between   *)
(* m_begin and m_pass.  It is broken for an instant inside initialize(),   *)
(* when m_begin is set and m_pass not yet.  The same sum bounds how far    *)
(* LoopSec falls behind (PaceInv).                                         *)
(*                                                                         *)
(* The directory helpers, for any processes, paths and files.  DirInv: the *)
(* directories are a tree; a call stands at some name of its path, and     *)
(* what it has met is there; whoever takes a place between another's       *)
(* access() and mkdir() is ahead of it from then on.                       *)
(***************************************************************************)
EXTENDS LuMyApp, Directory, SequenceFacts

InitPcs == {"Init", "resetSec", "initSec", "resetFps", "initFps"}

\* inside initialize(), with m_begin set and m_pass not yet
Resetting(t) == pc = IF t = "sec" THEN "initSec" ELSE "initFps"

Balanced(t) ==
  (m_ticker[t] + calls[t]) * Period[t] <= m_pass[t] - m_begin[t]

TimersInv ==
  \A t \in Timers :
    /\ m_pass[t] <= now /\ m_begin[t] <= now
    /\ Resetting(t) \/ Balanced(t)

ControlInv ==
  /\ pc \in InitPcs => \A t \in Timers : calls[t] = 0 /\ m_ticker[t] = 0
  /\ pc = "tickFps" => pass * Period["fps"] <= now - m_pass["fps"]
  /\ pc = "tickSec" => pass * Period["sec"] <= now - m_pass["sec"]
  /\ pc = "LoopFps" => m_ticker["fps"] >= 0
  /\ pc = "LoopSec" => m_ticker["sec"] >= 0

EarlyInv == AppTypeOK /\ TimersInv /\ ControlInv

-----------------------------------------------------------------------------
\* Whole ticks of length p do not exceed the time they were cut from.
LEMMA DivTimes ==
  ASSUME NEW d \in Nat, NEW p \in Nat \ {0}
  PROVE  d \div p \in Nat /\ (d \div p) * p <= d
  BY Z3

\* Multiplication by a period keeps the order.
LEMMA TimesMono ==
  ASSUME NEW a \in Int, NEW b \in Int, NEW p \in Nat, a <= b
  PROVE  a * p <= b * p
  BY Z3

\* Ticks taken in together last as long as the two parts.
LEMMA TimesPlus ==
  ASSUME NEW a \in Int, NEW b \in Int, NEW p \in Int
  PROVE  (a + b) * p = a * p + b * p
  BY Z3

LEMMA ZeroTimes ==
  ASSUME NEW p \in Int
  PROVE  0 * p = 0 /\ (-1) * p = -p
  BY Z3

-----------------------------------------------------------------------------
\* get_pass() for either timer: the ticks it reports fit since m_pass.
LEMMA GetPassFits ==
  ASSUME EarlyInv, NEW t \in Timers, NEW after, get_pass(t, after)
  PROVE  pass' \in Nat /\ pass' * Period[t] <= now - m_pass[t]
  <1>1. now - m_pass[t] \in Nat /\ Period[t] \in Nat \ {0}
    BY AppAssumption DEF EarlyInv, AppTypeOK, TimersInv
  <1>2. pass' = (now - m_pass[t]) \div Period[t]
    BY DEF get_pass
  <1> QED  BY <1>1, <1>2, DivTimes

\* Taking in the ticks of get_pass() keeps the timer balanced.
LEMMA TickerBalances ==
  ASSUME AppTypeOK, NEW t \in Timers, Ticker(t), Balanced(t), m_pass[t] <= now,
         pass * Period[t] <= now - m_pass[t], UNCHANGED <<now, m_begin, calls>>
  PROVE  /\ m_pass' \in [Timers -> Nat] /\ m_ticker' \in [Timers -> Int]
         /\ m_pass'[t] <= now /\ m_ticker'[t] >= -1
         /\ Balanced(t)'
         /\ \A s \in Timers \ {t} : m_pass'[s] = m_pass[s] /\ m_ticker'[s] = m_ticker[s]
  <1>1. CASE pass > 0
    <2>1. /\ m_pass' = [m_pass EXCEPT ![t] = now]
          /\ m_ticker' = [m_ticker EXCEPT ![t] = @ + pass]
      BY <1>1 DEF Ticker
    <2>2. m_pass'[t] = now /\ m_ticker'[t] = m_ticker[t] + pass
      BY <2>1 DEF AppTypeOK
    <2>3. /\ m_ticker[t] \in Int /\ calls[t] \in Int /\ pass \in Int /\ Period[t] \in Int
          /\ m_pass[t] \in Int /\ m_begin[t] \in Int /\ now \in Int /\ m_ticker[t] >= -1
      BY AppAssumption DEF AppTypeOK
    <2>4. ((m_ticker[t] + calls[t]) + pass) * Period[t]
             = (m_ticker[t] + calls[t]) * Period[t] + pass * Period[t]
      BY <2>3, TimesPlus
    <2>5. (m_ticker[t] + calls[t]) * Period[t] \in Int /\ pass * Period[t] \in Int
      BY <2>3
    <2>6. (m_ticker'[t] + calls'[t]) * Period[t] <= m_pass'[t] - m_begin'[t]
      <3>1. m_ticker'[t] + calls'[t] = (m_ticker[t] + calls[t]) + pass
        BY <2>2, <2>3
      <3>2. m_begin'[t] = m_begin[t]
        OBVIOUS
      <3> QED  BY <2>2, <2>3, <2>4, <2>5, <3>1, <3>2 DEF Balanced
    <2> QED  BY <1>1, <2>1, <2>2, <2>3, <2>6 DEF AppTypeOK, Balanced
  <1>2. CASE ~(pass > 0)
    BY <1>2 DEF Ticker, AppTypeOK, Balanced
  <1> QED  BY <1>1, <1>2

\* --m_ticker and the call it stands for cancel out.
LEMMA DeliverBalances ==
  ASSUME AppTypeOK, NEW t \in Timers, Deliver(t), m_ticker[t] >= 0,
         UNCHANGED <<m_pass, m_begin>>
  PROVE  /\ m_ticker' \in [Timers -> Int] /\ calls' \in [Timers -> Nat]
         /\ \A s \in Timers : m_ticker'[s] >= -1
         /\ \A s \in Timers : Balanced(s) => Balanced(s)'
  <1>1. /\ m_ticker' \in [Timers -> Int] /\ calls' \in [Timers -> Nat]
        /\ \A s \in Timers : m_ticker'[s] >= -1
    BY DEF Deliver, AppTypeOK
  <1>2. \A s \in Timers : m_ticker'[s] + calls'[s] = m_ticker[s] + calls[s]
    BY DEF Deliver, AppTypeOK
  <1> QED  BY <1>1, <1>2 DEF Balanced

-----------------------------------------------------------------------------
LEMMA EarlyInit == Init => EarlyInv
  <1> SUFFICES ASSUME Init PROVE EarlyInv
    OBVIOUS
  <1> USE AppAssumption
  <1>1. \A t \in Timers : Balanced(t)
    <2> SUFFICES ASSUME NEW t \in Timers PROVE Balanced(t)
      OBVIOUS
    <2>1. m_ticker[t] + calls[t] = 0 /\ m_pass[t] - m_begin[t] = 0
      BY DEF Init
    <2>2. 0 * Period[t] = 0
      BY ZeroTimes
    <2> QED  BY <2>1, <2>2 DEF Balanced
  <1>2. AppTypeOK
    <2>1. /\ [t \in Timers |-> 0] \in [Timers -> Nat] /\ [t \in Timers |-> 0] \in [Timers -> Int]
          /\ \A t \in Timers : [s \in Timers |-> 0][t] >= -1
      OBVIOUS
    <2>2. pc \in Pcs
      BY DEF Init, Pcs
    <2> QED  BY <2>1, <2>2 DEF Init, AppTypeOK
  <1>3. TimersInv
    BY <1>1 DEF Init, TimersInv
  <1>4. ControlInv
    BY DEF Init, ControlInv
  <1> QED  BY <1>2, <1>3, <1>4 DEF EarlyInv

LEMMA EarlyStep ==
  ASSUME EarlyInv, [Next]_vars
  PROVE  EarlyInv'
  <1> USE AppAssumption
  <1>1. CASE AppInit
    <2>1. CASE pc = "Init" /\ pc' \in {"Run", "resetSec"}
               /\ UNCHANGED <<now, m_begin, m_pass, m_ticker, pass, m_bRun, calls>>
      BY <2>1 DEF EarlyInv, AppTypeOK, TimersInv, ControlInv, Balanced, Resetting, Timers, Pcs,
           InitPcs
    <2>2. CASE pc = "resetSec" /\ reset("sec", "initSec")
      BY <2>2 DEF reset, EarlyInv, AppTypeOK, TimersInv, ControlInv, Balanced, Resetting, Timers,
           Pcs, InitPcs
    <2>3. CASE pc = "initSec" /\ initialize("sec", "resetFps")
      <3>1. m_ticker'["sec"] + calls'["sec"] = 0 /\ m_pass'["sec"] = now
        BY <2>3 DEF initialize, EarlyInv, AppTypeOK, ControlInv, Timers, InitPcs
      <3>2. 0 * Period["sec"] = 0
        BY ZeroTimes DEF Timers
      <3>3. Balanced("sec")'
        BY <2>3, <3>1, <3>2 DEF initialize, EarlyInv, AppTypeOK, TimersInv, Balanced, Timers
      <3>4. Balanced("fps")'
        BY <2>3 DEF initialize, EarlyInv, AppTypeOK, TimersInv, Balanced, Resetting, Timers
      <3> QED  BY <2>3, <3>1, <3>3, <3>4 DEF initialize, EarlyInv, AppTypeOK, TimersInv,
                 ControlInv, Timers, Pcs, InitPcs
    <2>4. CASE pc = "resetFps" /\ reset("fps", "initFps")
      BY <2>4 DEF reset, EarlyInv, AppTypeOK, TimersInv, ControlInv, Balanced, Resetting, Timers,
           Pcs, InitPcs
    <2>5. CASE pc = "initFps" /\ initialize("fps", "Run")
      <3>1. m_ticker'["fps"] + calls'["fps"] = 0 /\ m_pass'["fps"] = now
        BY <2>5 DEF initialize, EarlyInv, AppTypeOK, ControlInv, Timers, InitPcs
      <3>2. 0 * Period["fps"] = 0
        BY ZeroTimes DEF Timers
      <3>3. Balanced("fps")'
        BY <2>5, <3>1, <3>2 DEF initialize, EarlyInv, AppTypeOK, TimersInv, Balanced, Timers
      <3>4. Balanced("sec")'
        BY <2>5 DEF initialize, EarlyInv, AppTypeOK, TimersInv, Balanced, Resetting, Timers
      <3> QED  BY <2>5, <3>1, <3>3, <3>4 DEF initialize, EarlyInv, AppTypeOK, TimersInv,
                 ControlInv, Timers, Pcs, InitPcs
    <2> QED  BY <1>1, <2>1, <2>2, <2>3, <2>4, <2>5 DEF AppInit
  <1>2. CASE Run
    BY <1>2 DEF Run, EarlyInv, AppTypeOK, TimersInv, ControlInv, Balanced, Resetting, Timers, Pcs,
         InitPcs
  <1>3. CASE While
    BY <1>3 DEF While, EarlyInv, AppTypeOK, TimersInv, ControlInv, Balanced, Resetting, Timers,
         Pcs, InitPcs
  <1>4. CASE pc = "passFps" /\ get_pass("fps", "tickFps")
    <2>1. pass' \in Nat /\ pass' * Period["fps"] <= now - m_pass["fps"]
      BY <1>4, GetPassFits DEF Timers
    <2> QED  BY <1>4, <2>1 DEF get_pass, EarlyInv, AppTypeOK, TimersInv, ControlInv, Balanced,
               Resetting, Timers, Pcs, InitPcs
  <1>5. CASE pc = "passSec" /\ get_pass("sec", "tickSec")
    <2>1. pass' \in Nat /\ pass' * Period["sec"] <= now - m_pass["sec"]
      BY <1>5, GetPassFits DEF Timers
    <2> QED  BY <1>5, <2>1 DEF get_pass, EarlyInv, AppTypeOK, TimersInv, ControlInv, Balanced,
               Resetting, Timers, Pcs, InitPcs
  <1>6. CASE pc = "tickFps" /\ ticking("fps", "LoopFps", "passSec")
    <2>1. AppTypeOK /\ Ticker("fps") /\ Balanced("fps") /\ m_pass["fps"] <= now
          /\ pass * Period["fps"] <= now - m_pass["fps"] /\ UNCHANGED <<now, m_begin, calls>>
      BY <1>6 DEF ticking, EarlyInv, TimersInv, ControlInv, Resetting, Timers
    <2>2. /\ m_pass' \in [Timers -> Nat] /\ m_ticker' \in [Timers -> Int]
          /\ m_pass'["fps"] <= now /\ m_ticker'["fps"] >= -1 /\ Balanced("fps")'
          /\ m_pass'["sec"] = m_pass["sec"] /\ m_ticker'["sec"] = m_ticker["sec"]
      BY <2>1, TickerBalances DEF Timers
    <2>3. Balanced("sec")'
      BY <1>6, <2>2 DEF ticking, EarlyInv, TimersInv, Balanced, Resetting, Timers
    <2>4. AppTypeOK'
      BY <1>6, <2>2 DEF ticking, EarlyInv, AppTypeOK, Timers, Pcs
    <2>5. TimersInv'
      BY <1>6, <2>2, <2>3 DEF ticking, EarlyInv, TimersInv, Timers
    <2>6. ControlInv'
      BY <1>6, <2>2, <2>4 DEF ticking, ControlInv, InitPcs, AppTypeOK, Timers
    <2> QED  BY <2>4, <2>5, <2>6 DEF EarlyInv
  <1>7. CASE pc = "tickSec" /\ ticking("sec", "LoopSec", "while")
    <2>1. AppTypeOK /\ Ticker("sec") /\ Balanced("sec") /\ m_pass["sec"] <= now
          /\ pass * Period["sec"] <= now - m_pass["sec"] /\ UNCHANGED <<now, m_begin, calls>>
      BY <1>7 DEF ticking, EarlyInv, TimersInv, ControlInv, Resetting, Timers
    <2>2. /\ m_pass' \in [Timers -> Nat] /\ m_ticker' \in [Timers -> Int]
          /\ m_pass'["sec"] <= now /\ m_ticker'["sec"] >= -1 /\ Balanced("sec")'
          /\ m_pass'["fps"] = m_pass["fps"] /\ m_ticker'["fps"] = m_ticker["fps"]
      BY <2>1, TickerBalances DEF Timers
    <2>3. Balanced("fps")'
      BY <1>7, <2>2 DEF ticking, EarlyInv, TimersInv, Balanced, Resetting, Timers
    <2>4. AppTypeOK'
      BY <1>7, <2>2 DEF ticking, EarlyInv, AppTypeOK, Timers, Pcs
    <2>5. TimersInv'
      BY <1>7, <2>2, <2>3 DEF ticking, EarlyInv, TimersInv, Timers
    <2>6. ControlInv'
      BY <1>7, <2>2, <2>4 DEF ticking, ControlInv, InitPcs, AppTypeOK, Timers
    <2> QED  BY <2>4, <2>5, <2>6 DEF EarlyInv
  <1>8. CASE LoopFps
    <2>1. /\ m_ticker' \in [Timers -> Int] /\ calls' \in [Timers -> Nat]
          /\ \A s \in Timers : m_ticker'[s] >= -1
          /\ \A s \in Timers : Balanced(s) => Balanced(s)'
      BY <1>8, DeliverBalances DEF LoopFps, EarlyInv, ControlInv, Timers
    <2> QED  BY <1>8, <2>1 DEF LoopFps, EarlyInv, AppTypeOK, TimersInv, ControlInv, Resetting,
               Timers, Pcs, InitPcs
  <1>9. CASE LoopSec
    <2>1. /\ m_ticker' \in [Timers -> Int] /\ calls' \in [Timers -> Nat]
          /\ \A s \in Timers : m_ticker'[s] >= -1
          /\ \A s \in Timers : Balanced(s) => Balanced(s)'
      BY <1>9, DeliverBalances DEF LoopSec, EarlyInv, ControlInv, Timers
    <2> QED  BY <1>9, <2>1 DEF LoopSec, EarlyInv, AppTypeOK, TimersInv, ControlInv, Resetting,
               Timers, Pcs, InitPcs
  <1>10. CASE Clock
    <2>1. /\ pass * Period["fps"] \in Int /\ pass * Period["sec"] \in Int
      BY DEF EarlyInv, AppTypeOK, Timers
    <2> QED  BY <1>10, <2>1 DEF Clock, EarlyInv, AppTypeOK, TimersInv, ControlInv, Balanced,
               Resetting, Timers, Pcs, InitPcs
  <1>11. CASE UNCHANGED vars
    BY <1>11 DEF vars, EarlyInv, AppTypeOK, TimersInv, ControlInv, Balanced, Resetting, Timers,
         Pcs, InitPcs
  <1> QED
    BY <1>1, <1>2, <1>3, <1>4, <1>5, <1>6, <1>7, <1>8, <1>9, <1>10, <1>11
    DEF Next, AppStep, Loop

LEMMA EarlyImplies == EarlyInv => NeverEarly
  <1> SUFFICES ASSUME EarlyInv, NEW t \in Timers
               PROVE  (calls[t] - 1) * Period[t] <= now - m_begin[t]
    BY DEF NeverEarly
  <1>1. /\ calls[t] \in Int /\ m_ticker[t] \in Int /\ Period[t] \in Nat /\ now \in Int
        /\ m_begin[t] \in Int /\ m_pass[t] \in Int /\ m_ticker[t] >= -1
        /\ m_pass[t] <= now /\ m_begin[t] <= now
    BY AppAssumption DEF EarlyInv, AppTypeOK, TimersInv
  <1>2. CASE Resetting(t)
    <2>1. calls[t] - 1 = -1
      BY <1>2 DEF EarlyInv, ControlInv, Resetting, InitPcs, Timers
    <2> QED  BY <1>1, <2>1, ZeroTimes
  <1>3. CASE Balanced(t)
    <2>1. (calls[t] - 1) * Period[t] <= (m_ticker[t] + calls[t]) * Period[t]
      <3>1. /\ calls[t] - 1 \in Int /\ m_ticker[t] + calls[t] \in Int
            /\ calls[t] - 1 <= m_ticker[t] + calls[t]
        BY <1>1
      <3> QED  BY <1>1, <3>1, TimesMono
    <2>2. (calls[t] - 1) * Period[t] \in Int /\ (m_ticker[t] + calls[t]) * Period[t] \in Int
      BY <1>1
    <2> QED  BY <1>1, <1>3, <2>1, <2>2 DEF Balanced
  <1> QED  BY <1>2, <1>3 DEF EarlyInv, TimersInv

-----------------------------------------------------------------------------
(* How far LoopSec falls behind, and how the loop ends                     *)

\* A poll of "sec" comes within MaxStall of the last, and every poll that moves
\* m_pass counts a tick; before initialize() m_pass is behind m_begin.
PaceInv ==
  /\ now - m_pass["sec"] <= MaxStall
  /\ pc \in {"Init", "resetSec", "initSec"} => m_pass["sec"] <= m_begin["sec"]
  /\ KeepsPace

\* Inside the loop's body m_bRun is set, and it is cleared by exactly the
\* Limit-th call.
ExitInv ==
  /\ pc \in {"passFps", "tickFps", "LoopFps", "passSec", "tickSec", "LoopSec"} => m_bRun
  /\ m_bRun => calls["sec"] < Limit
  /\ pc \in {"while", "done"} /\ ~m_bRun => calls["sec"] = Limit
  /\ pc = "done" => ~m_bRun
  /\ pc \in InitPcs \cup {"Run"} => calls["sec"] = 0

\* A further tick is worth a further MaxStall.
LEMMA OneMoreTick ==
  ASSUME NEW a \in Int, NEW n \in Nat, NEW m \in Nat, n > 0
  PROVE  a * m \in Int /\ (a + n) * m \in Int /\ a * m + m <= (a + n) * m
  <1>1. (a + n) * m = a * m + n * m
    BY TimesPlus
  <1>2. 1 * m <= n * m /\ 1 * m = m
    BY TimesMono
  <1>3. a * m \in Int /\ n * m \in Int
    OBVIOUS
  <1> QED  BY <1>1, <1>2, <1>3

LEMMA PaceStep ==
  ASSUME EarlyInv, EarlyInv', PaceInv, [Next]_vars
  PROVE  PaceInv'
  <1>t. /\ now \in Nat /\ pass \in Nat /\ MaxStall \in Nat
        /\ m_pass["sec"] \in Nat /\ m_begin["sec"] \in Nat /\ calls["sec"] \in Nat
        /\ m_ticker["sec"] \in Int /\ m_pass["sec"] <= now
    BY AppAssumption DEF EarlyInv, AppTypeOK, TimersInv, Timers
  <1>k. (calls["sec"] + m_ticker["sec"] + 1) * MaxStall \in Int
    BY <1>t
  \* steps that leave the seconds alone, or only move the control
  <1>q. ASSUME m_pass'["sec"] = m_pass["sec"], m_begin'["sec"] = m_begin["sec"],
               calls'["sec"] + m_ticker'["sec"] = calls["sec"] + m_ticker["sec"],
               now' - m_pass["sec"] <= MaxStall,
               pc' \in {"Init", "resetSec", "initSec"} => pc \in {"Init", "resetSec", "initSec"}
        PROVE  PaceInv'
    BY <1>q, <1>t DEF PaceInv, KeepsPace
  <1>1. CASE pc = "resetSec" /\ reset("sec", "initSec")
    <2>1. m_begin'["sec"] = now /\ UNCHANGED <<now, m_pass, m_ticker, calls>> /\ pc' = "initSec"
      BY <1>1 DEF reset, EarlyInv, AppTypeOK, Timers
    <2>2. calls["sec"] = 0 /\ m_ticker["sec"] = 0
      BY <1>1 DEF EarlyInv, ControlInv, InitPcs, Timers
    <2>3. (0 + 0 + 1) * MaxStall = MaxStall
      BY <1>t
    <2> QED  BY <1>t, <2>1, <2>2, <2>3 DEF PaceInv, KeepsPace
  <1>2. CASE pc = "initSec" /\ initialize("sec", "resetFps")
    <2>1. /\ m_pass'["sec"] = now /\ m_ticker'["sec"] = 0 /\ UNCHANGED <<now, m_begin, calls>>
          /\ pc' = "resetFps"
      BY <1>2 DEF initialize, EarlyInv, AppTypeOK, Timers
    <2>2. calls["sec"] = 0
      BY <1>2 DEF EarlyInv, ControlInv, InitPcs, Timers
    <2>3. (0 + 0 + 1) * MaxStall = MaxStall
      BY <1>t
    <2>4. now - m_begin["sec"] <= MaxStall
      BY <1>2, <1>t DEF PaceInv
    <2> QED  BY <1>t, <2>1, <2>2, <2>3, <2>4 DEF PaceInv, KeepsPace
  <1>3. CASE pc = "tickSec" /\ ticking("sec", "LoopSec", "while")
    <2>1. UNCHANGED <<now, m_begin, calls>> /\ pc' \notin {"Init", "resetSec", "initSec"}
      BY <1>3 DEF ticking
    <2>2. CASE pass > 0
      <3>1. m_pass'["sec"] = now /\ m_ticker'["sec"] = m_ticker["sec"] + pass
        BY <1>3, <2>2 DEF ticking, Ticker, EarlyInv, AppTypeOK, Timers
      <3> DEFINE a == calls["sec"] + m_ticker["sec"] + 1
      <3>2. a \in Int /\ calls'["sec"] + m_ticker'["sec"] + 1 = a + pass
        BY <1>t, <2>1, <3>1
      <3>3. a * MaxStall \in Int /\ (a + pass) * MaxStall \in Int
            /\ a * MaxStall + MaxStall <= (a + pass) * MaxStall
        BY <1>t, <2>2, <3>2, OneMoreTick
      <3>4. m_pass["sec"] - m_begin["sec"] <= a * MaxStall
        BY DEF PaceInv, KeepsPace
      <3> HIDE DEF a
      <3>5. now - m_begin["sec"] <= (a + pass) * MaxStall
        BY <1>t, <3>3, <3>4 DEF PaceInv
      <3> QED  BY <1>t, <2>1, <3>1, <3>2, <3>5 DEF PaceInv, KeepsPace
    <2>3. CASE ~(pass > 0)
      BY <1>3, <1>q, <2>1, <2>3 DEF ticking, Ticker, PaceInv
    <2> QED  BY <2>2, <2>3
  <1>4. CASE pc = "Init" /\ pc' \in {"Run", "resetSec"}
             /\ UNCHANGED <<now, m_begin, m_pass, m_ticker, pass, m_bRun, calls>>
    BY <1>4, <1>q DEF PaceInv
  <1>5. CASE pc = "resetFps" /\ reset("fps", "initFps")
    BY <1>5, <1>q DEF reset, PaceInv, EarlyInv, AppTypeOK, Timers
  <1>6. CASE pc = "initFps" /\ initialize("fps", "Run")
    BY <1>6, <1>q DEF initialize, PaceInv, EarlyInv, AppTypeOK, Timers
  <1>7. CASE Run \/ While
    BY <1>7, <1>q DEF Run, While, PaceInv
  <1>8. CASE (pc = "passFps" /\ get_pass("fps", "tickFps"))
             \/ (pc = "passSec" /\ get_pass("sec", "tickSec"))
    BY <1>8, <1>q DEF get_pass, PaceInv
  <1>9. CASE pc = "tickFps" /\ ticking("fps", "LoopFps", "passSec")
    BY <1>9, <1>q DEF ticking, Ticker, PaceInv, EarlyInv, AppTypeOK, Timers
  <1>10. CASE LoopFps
    BY <1>10, <1>q DEF LoopFps, Deliver, PaceInv, EarlyInv, AppTypeOK, Timers
  <1>11. CASE LoopSec
    <2>1. calls'["sec"] + m_ticker'["sec"] = calls["sec"] + m_ticker["sec"]
      BY <1>11 DEF LoopSec, Deliver, EarlyInv, AppTypeOK, Timers
    <2> QED  BY <1>11, <1>q, <2>1 DEF LoopSec, PaceInv
  <1>12. CASE Clock
    BY <1>12, <1>q, <1>t DEF Clock
  <1>13. CASE UNCHANGED vars
    BY <1>13, <1>q DEF vars, PaceInv
  <1> QED
    BY <1>1, <1>2, <1>3, <1>4, <1>5, <1>6, <1>7, <1>8, <1>9, <1>10, <1>11, <1>12, <1>13
    DEF Next, AppStep, AppInit, Loop

LEMMA PaceInit == Init => PaceInv
  <1> SUFFICES ASSUME Init PROVE PaceInv
    OBVIOUS
  <1>1. (0 + 0 + 1) * MaxStall = MaxStall /\ MaxStall \in Nat
    BY AppAssumption
  <1> QED  BY <1>1 DEF Init, PaceInv, KeepsPace, Timers

LEMMA ExitStep ==
  ASSUME AppTypeOK, ExitInv, [Next]_vars
  PROVE  ExitInv' /\ (calls' # calls => m_bRun)
  <1> USE DEF AppTypeOK, ExitInv, InitPcs, Timers
  <1>1. CASE AppInit
    BY <1>1 DEF AppInit, reset, initialize
  <1>2. CASE Run
    BY <1>2, AppAssumption DEF Run
  <1>3. CASE While
    BY <1>3 DEF While
  <1>4. CASE LoopFps
    BY <1>4 DEF LoopFps, Deliver
  <1>5. CASE LoopSec
    <2>1. calls'["sec"] = calls["sec"] + 1 /\ m_bRun /\ calls["sec"] < Limit
      BY <1>5 DEF LoopSec, Deliver
    <2>2. CASE calls'["sec"] < Limit
      BY <1>5, <2>1, <2>2 DEF LoopSec
    <2>3. CASE ~(calls'["sec"] < Limit)
      <3>1. calls'["sec"] = Limit
        BY <2>1, <2>3, AppAssumption
      <3>2. ~m_bRun' /\ pc' = "while"
        BY <1>5, <2>3, Zenon DEF LoopSec
      <3> QED  BY <2>1, <3>1, <3>2
    <2> QED  BY <2>2, <2>3
  <1>6. CASE Loop /\ ~LoopFps /\ ~LoopSec
    BY <1>6 DEF Loop, get_pass, ticking
  <1>7. CASE Clock \/ UNCHANGED vars
    BY <1>7 DEF Clock, vars
  <1> QED  BY <1>1, <1>2, <1>3, <1>4, <1>5, <1>6, <1>7 DEF Next, AppStep

LEMMA ExitInit == Init => ExitInv
  BY AppAssumption DEF Init, ExitInv, InitPcs, Timers

-----------------------------------------------------------------------------
\* For every pair of periods and however the loop is delayed: the types hold,
\* no timer owes more than its first tick, and LoopFps and LoopSec are never
\* called before their time.
THEOREM TimersNeverEarly == Spec => [](AppTypeOK /\ NeverEarly)
  <1>1. EarlyInv => AppTypeOK
    BY DEF EarlyInv
  <1> QED  BY <1>1, EarlyInit, EarlyStep, EarlyImplies, PTL DEF Spec

\* For every period and every bound on the loop's delays, LoopSec falls behind
\* the clock by at most that bound for each of its ticks.
THEOREM SecondsKeepPace == Spec => []KeepsPace
  <1>1. PaceInv => KeepsPace
    BY DEF PaceInv
  <1> QED  BY <1>1, EarlyInit, EarlyStep, PaceInit, PaceStep, PTL DEF Spec

\* For every Limit: no callback runs once Exit() was called, and the loop is
\* left after exactly Limit calls of LoopSec.
THEOREM LoopStopsAtExit == Spec => NothingAfterExit
  <1>1. EarlyInv => AppTypeOK
    BY DEF EarlyInv
  <1>2. ExitInv => (pc = "done" => calls["sec"] = Limit)
    BY DEF ExitInv
  <1>3. AppTypeOK /\ ExitInv /\ [Next]_vars => ExitInv' /\ [calls' # calls => m_bRun]_vars
    BY ExitStep
  <1> QED  BY <1>1, <1>2, <1>3, EarlyInit, EarlyStep, ExitInit, PTL DEF Spec, NothingAfterExit

-----------------------------------------------------------------------------
(* The directory helpers                                                   *)

\* A name has at least one character.
Word == Seq(Chars) \ {<<>>}

Whole(p) == SplitPath(path[p])

\* Where a call stands: temp is the path up to some name; q starts behind it,
\* or with its last name while that one is to be made.
CallOK(p) ==
  /\ temp[p] \in Seq(Word) /\ q[p] \in Seq(Word)
  /\ todo[p] = "access" =>
       \E k \in 0 .. Len(Whole(p)) :
         /\ temp[p] = SubSeq(Whole(p), 1, k)
         /\ q[p] = SubSeq(Whole(p), k + 1, Len(Whole(p)))
  /\ todo[p] = "mkdir" =>
       \E k \in 1 .. Len(Whole(p)) :
         /\ temp[p] = SubSeq(Whole(p), 1, k)
         /\ q[p] = SubSeq(Whole(p), k, Len(Whole(p)))
  /\ todo[p] # "idle" => result[p] = NoResult
  /\ todo[p] = "rmdir" => hurt[p]

\* A call that is about to make temp, or has failed to.
Stopped(p) == todo[p] = "mkdir" \/ (todo[p] = "idle" /\ result[p] = 0)

\* The directories are a tree: none is a file, each is in a directory.
TreeInv ==
  /\ dirs \subseteq Seq(Word) \ {<<>>} /\ dirs \cap Files = {}
  /\ \A d \in dirs : \A i \in 1 .. Len(d) : SubSeq(d, 1, i) \in dirs

\* What a call that nothing has hurt has found or made is still there.
MetOK(p) ==
  ~hurt[p] =>
    /\ todo[p] = "access" => \A i \in 1 .. Len(temp[p]) : Exists(SubSeq(temp[p], 1, i))
    /\ Stopped(p) =>
         /\ \E k \in 1 .. Len(Whole(p)) : temp[p] = SubSeq(Whole(p), 1, k)
         /\ \A i \in 1 .. Len(temp[p]) - 1 : Exists(SubSeq(temp[p], 1, i))
    /\ todo[p] = "idle" /\ result[p] = 1 =>
         \A i \in 1 .. Len(Whole(p)) : Exists(SubSeq(Whole(p), 1, i))

\* Process r has not stopped at t or before it.
Ahead(r, t) ==
  ~hurt[r] /\ Stopped(r) /\ IsPrefix(t, Whole(r)) => Len(temp[r]) > Len(t)

\* A place is taken after access() only by a process that then is ahead.
RaceOK(p) ==
  ~hurt[p] =>
    /\ todo[p] = "access" => ~raced[p]
    /\ todo[p] = "mkdir" => raced[p] \/ ~Exists(temp[p])
    /\ Stopped(p) /\ raced[p] => temp[p] \in dirs /\ \E r \in Procs : Ahead(r, temp[p])

\* What FailsOnlyInTheWay says of one process.
FailOK(p) ==
  result[p] = 0 /\ ~hurt[p] =>
    \/ raced[p] /\ temp[p] \in dirs
    \/ \E f \in Files : IsStrictPrefix(f, Whole(p))

\* The inductive invariant.
DirInv ==
  /\ DirTypeOK /\ TreeInv
  /\ \A p \in Procs : CallOK(p) /\ MetOK(p) /\ RaceOK(p) /\ FailOK(p)

-----------------------------------------------------------------------------
(* SplitPath and Resolve                                                   *)

\* What their loops keep.
States == [ch : Seq(Chars), q : Seq(Word)]

\* The loops start with nothing.
LEMMA StartTyped == Start \in States
  BY DEF Start, States

\* A round of either loop keeps names that are not empty.
LEMMA StepTyped ==
  ASSUME NEW st \in States, NEW x \in Chars
  PROVE  SplitStep(st, x) \in States /\ CutStep(st, x) \in States
  <1>1. st.ch \in Seq(Chars) /\ st.q \in Seq(Word)
    BY DEF States
  <1>2. [st EXCEPT !.ch = Append(@, x)] \in States
    <2>1. Append(st.ch, x) \in Seq(Chars)
      BY <1>1
    <2> QED  BY <2>1 DEF States
  <1>3. st.ch # <<>> => [ch |-> <<>>, q |-> Append(st.q, st.ch)] \in States
    <2>1. st.ch # <<>> => Append(st.q, st.ch) \in Seq(Word)
      BY <1>1 DEF Word
    <2> QED  BY <2>1 DEF States
  <1> QED  BY <1>2, <1>3 DEF SplitStep, CutStep

\* So does what follows the loop.
LEMMA EndTyped ==
  ASSUME NEW st \in States
  PROVE  Ended(st) \in Seq(Word)
  <1>1. st.ch \in Seq(Chars) /\ st.q \in Seq(Word)
    BY DEF States
  <1> QED  BY <1>1 DEF Ended, Word

\* The equations of the function that SplitPath is defined by.
SplitFcn(g, s) ==
  /\ g \in [0 .. Len(s) -> States] /\ g[0] = Start
  /\ \A i \in 1 .. Len(s) : g[i] = SplitStep(g[i - 1], s[i])

\* There is such a function, and SplitPath returns what it ends with.
LEMMA SplitDef ==
  ASSUME NEW s \in Seq(Chars)
  PROVE  \E g : SplitFcn(g, s) /\ SplitPath(s) = Rooted(s, Ended(g[Len(s)]))
  <1> DEFINE f == [i \in Nat |-> [st \in States |->
                     IF i + 1 \in 1 .. Len(s) THEN SplitStep(st, s[i + 1]) ELSE st]]
             E(g, i) == IF i = 0 THEN Start ELSE SplitStep(g[i - 1], s[i])
             Rec(g) == g = [i \in 0 .. Len(s) |-> E(g, i)]
  <1>1. Len(s) \in Nat /\ \A i \in 1 .. Len(s) : s[i] \in Chars
    OBVIOUS
  <1>2. Start \in States /\ \A st \in States, x \in Chars : SplitStep(st, x) \in States
    BY StartTyped, StepTyped
  <1>3. f \in [Nat -> [States -> States]]
    <2>1. \A i \in Nat, st \in States :
            (IF i + 1 \in 1 .. Len(s) THEN SplitStep(st, s[i + 1]) ELSE st) \in States
      BY <1>1, <1>2
    <2> QED  BY <2>1
  <1>4. PICK g : Iterates(g, States, Start, f, Len(s))
    <2> HIDE DEF f
    <2> QED  BY <1>1, <1>2, <1>3, Recursion, Zenon
  <1>5. /\ g \in [0 .. Len(s) -> States] /\ g[0] = Start
        /\ \A i \in 0 .. Len(s) - 1 : g[i + 1] = f[i][g[i]]
    <2> HIDE DEF f
    <2> QED  BY <1>4 DEF Iterates
  <1>6. Rec(g)
    <2>1. ASSUME NEW i \in 1 .. Len(s)
          PROVE  g[i] = SplitStep(g[i - 1], s[i])
      <3>1. i - 1 \in 0 .. Len(s) - 1 /\ (i - 1) + 1 = i /\ i - 1 \in 0 .. Len(s) /\ i - 1 \in Nat
        BY <1>1
      <3>2. g[i] = f[i - 1][g[i - 1]] /\ g[i - 1] \in States
        <4> HIDE DEF f
        <4> QED  BY <1>5, <3>1
      <3>3. f[i - 1][g[i - 1]] = SplitStep(g[i - 1], s[(i - 1) + 1])
        BY <3>1, <3>2
      <3> HIDE DEF f
      <3> QED  BY <3>1, <3>2, <3>3
    <2>2. \A i \in 0 .. Len(s) : g[i] = E(g, i)
      <3> HIDE DEF f
      <3>1. E(g, 0) = Start
        OBVIOUS
      <3>2. ASSUME NEW i \in 1 .. Len(s)
            PROVE  g[i] = E(g, i)
        <4>1. i # 0
          BY <1>1
        <4> QED  BY <2>1, <4>1, Zenon
      <3> HIDE DEF E
      <3>3. \A i \in 0 .. Len(s) : i = 0 \/ i \in 1 .. Len(s)
        BY <1>1
      <3> QED  BY <1>5, <3>1, <3>2, <3>3, Zenon
    <2> HIDE DEF E, f
    <2> QED  BY <1>5, <2>2
  <1> DEFINE c == CHOOSE h : Rec(h)
  <1>7. Rec(c)
    <2> HIDE DEF Rec
    <2> QED  BY <1>6
  <1>8. SplitPath(s) = Rooted(s, Ended(c[Len(s)]))
    BY DEF SplitPath
  <1> HIDE DEF c
  <1>9. DOMAIN c = 0 .. Len(s) /\ \A i \in 0 .. Len(s) : c[i] = E(c, i)
    <2> HIDE DEF E
    <2> QED  BY <1>7
  <1>10. c[0] = Start /\ \A i \in 1 .. Len(s) : c[i] = SplitStep(c[i - 1], s[i])
    <2>1. 0 \in 0 .. Len(s) /\ E(c, 0) = Start
      BY <1>1
    <2>2. ASSUME NEW i \in 1 .. Len(s)
          PROVE  c[i] = SplitStep(c[i - 1], s[i])
      <3>1. i \in 0 .. Len(s) /\ i # 0
        BY <1>1
      <3> QED  BY <1>9, <3>1, Zenon
    <2> QED  BY <1>9, <2>1, <2>2, Zenon
  <1>11. \A i \in 0 .. Len(s) : c[i] \in States
    <2> DEFINE T == {n \in Nat : n <= Len(s) => c[n] \in States}
    <2>1. 0 \in T
      BY <1>2, <1>10
    <2>2. ASSUME NEW n \in Nat, n \in T
          PROVE  n + 1 \in T
      <3> SUFFICES ASSUME n + 1 <= Len(s)
                   PROVE  c[n + 1] \in States
        OBVIOUS
      <3>1. n + 1 \in 1 .. Len(s) /\ (n + 1) - 1 = n /\ n <= Len(s)
        BY <1>1
      <3>2. c[n] \in States /\ s[n + 1] \in Chars
        BY <1>1, <2>2, <3>1
      <3>3. c[n + 1] = SplitStep(c[n], s[n + 1])
        BY <1>10, <3>1
      <3> QED  BY <1>2, <3>2, <3>3
    <2> HIDE DEF T
    <2>3. \A n \in Nat : n \in T
      BY <2>1, <2>2, Induction
    <2> QED  BY <1>1, <2>3 DEF T
  <1>12. c \in [0 .. Len(s) -> States]
    <2> HIDE DEF E
    <2>1. c = [i \in 0 .. Len(s) |-> c[i]]
      BY <1>7, <1>9
    <2> QED  BY <1>11, <2>1
  <1> QED  BY <1>8, <1>10, <1>12 DEF SplitFcn

\* The names of a path that starts at the root get the slash back.
Resolved(s, names) ==
  IF s # <<>> /\ s[1] = Slash /\ names # <<>>
  THEN [names EXCEPT ![1] = <<Slash>> \o @] ELSE names

\* The equations of the function that Resolve is defined by.
CutFcn(g, s) ==
  /\ g \in [0 .. Len(s) -> States] /\ g[0] = Start
  /\ \A i \in 1 .. Len(s) : g[i] = CutStep(g[i - 1], s[i])

\* There is such a function, and Resolve returns what it ends with.
LEMMA CutDef ==
  ASSUME NEW s \in Seq(Chars)
  PROVE  \E g : CutFcn(g, s) /\ Resolve(s) = Resolved(s, Ended(g[Len(s)]))
  <1> DEFINE f == [i \in Nat |-> [st \in States |->
                     IF i + 1 \in 1 .. Len(s) THEN CutStep(st, s[i + 1]) ELSE st]]
             E(g, i) == IF i = 0 THEN Start ELSE CutStep(g[i - 1], s[i])
             Rec(g) == g = [i \in 0 .. Len(s) |-> E(g, i)]
  <1>1. Len(s) \in Nat /\ \A i \in 1 .. Len(s) : s[i] \in Chars
    OBVIOUS
  <1>2. Start \in States /\ \A st \in States, x \in Chars : CutStep(st, x) \in States
    BY StartTyped, StepTyped
  <1>3. f \in [Nat -> [States -> States]]
    <2>1. \A i \in Nat, st \in States :
            (IF i + 1 \in 1 .. Len(s) THEN CutStep(st, s[i + 1]) ELSE st) \in States
      BY <1>1, <1>2
    <2> QED  BY <2>1
  <1>4. PICK g : Iterates(g, States, Start, f, Len(s))
    <2> HIDE DEF f
    <2> QED  BY <1>1, <1>2, <1>3, Recursion, Zenon
  <1>5. /\ g \in [0 .. Len(s) -> States] /\ g[0] = Start
        /\ \A i \in 0 .. Len(s) - 1 : g[i + 1] = f[i][g[i]]
    <2> HIDE DEF f
    <2> QED  BY <1>4 DEF Iterates
  <1>6. Rec(g)
    <2>1. ASSUME NEW i \in 1 .. Len(s)
          PROVE  g[i] = CutStep(g[i - 1], s[i])
      <3>1. i - 1 \in 0 .. Len(s) - 1 /\ (i - 1) + 1 = i /\ i - 1 \in 0 .. Len(s) /\ i - 1 \in Nat
        BY <1>1
      <3>2. g[i] = f[i - 1][g[i - 1]] /\ g[i - 1] \in States
        <4> HIDE DEF f
        <4> QED  BY <1>5, <3>1
      <3>3. f[i - 1][g[i - 1]] = CutStep(g[i - 1], s[(i - 1) + 1])
        BY <3>1, <3>2
      <3> HIDE DEF f
      <3> QED  BY <3>1, <3>2, <3>3
    <2>2. \A i \in 0 .. Len(s) : g[i] = E(g, i)
      <3> HIDE DEF f
      <3>1. E(g, 0) = Start
        OBVIOUS
      <3>2. ASSUME NEW i \in 1 .. Len(s)
            PROVE  g[i] = E(g, i)
        <4>1. i # 0
          BY <1>1
        <4> QED  BY <2>1, <4>1, Zenon
      <3> HIDE DEF E
      <3>3. \A i \in 0 .. Len(s) : i = 0 \/ i \in 1 .. Len(s)
        BY <1>1
      <3> QED  BY <1>5, <3>1, <3>2, <3>3, Zenon
    <2> HIDE DEF E, f
    <2> QED  BY <1>5, <2>2
  <1> DEFINE c == CHOOSE h : Rec(h)
  <1>7. Rec(c)
    <2> HIDE DEF Rec
    <2> QED  BY <1>6
  <1>8. Resolve(s) = Resolved(s, Ended(c[Len(s)]))
    BY DEF Resolve, Resolved
  <1> HIDE DEF c
  <1>9. DOMAIN c = 0 .. Len(s) /\ \A i \in 0 .. Len(s) : c[i] = E(c, i)
    <2> HIDE DEF E
    <2> QED  BY <1>7
  <1>10. c[0] = Start /\ \A i \in 1 .. Len(s) : c[i] = CutStep(c[i - 1], s[i])
    <2>1. 0 \in 0 .. Len(s) /\ E(c, 0) = Start
      BY <1>1
    <2>2. ASSUME NEW i \in 1 .. Len(s)
          PROVE  c[i] = CutStep(c[i - 1], s[i])
      <3>1. i \in 0 .. Len(s) /\ i # 0
        BY <1>1
      <3> QED  BY <1>9, <3>1, Zenon
    <2> QED  BY <1>9, <2>1, <2>2, Zenon
  <1>11. \A i \in 0 .. Len(s) : c[i] \in States
    <2> DEFINE T == {n \in Nat : n <= Len(s) => c[n] \in States}
    <2>1. 0 \in T
      BY <1>2, <1>10
    <2>2. ASSUME NEW n \in Nat, n \in T
          PROVE  n + 1 \in T
      <3> SUFFICES ASSUME n + 1 <= Len(s)
                   PROVE  c[n + 1] \in States
        OBVIOUS
      <3>1. n + 1 \in 1 .. Len(s) /\ (n + 1) - 1 = n /\ n <= Len(s)
        BY <1>1
      <3>2. c[n] \in States /\ s[n + 1] \in Chars
        BY <1>1, <2>2, <3>1
      <3>3. c[n + 1] = CutStep(c[n], s[n + 1])
        BY <1>10, <3>1
      <3> QED  BY <1>2, <3>2, <3>3
    <2> HIDE DEF T
    <2>3. \A n \in Nat : n \in T
      BY <2>1, <2>2, Induction
    <2> QED  BY <1>1, <2>3 DEF T
  <1>12. c \in [0 .. Len(s) -> States]
    <2> HIDE DEF E
    <2>1. c = [i \in 0 .. Len(s) |-> c[i]]
      BY <1>7, <1>9
    <2> QED  BY <1>11, <2>1
  <1> QED  BY <1>8, <1>10, <1>12 DEF CutFcn

\* Giving the first name its slash back leaves names that are not empty.
LEMMA SlashTyped ==
  ASSUME NEW w \in Seq(Word), w # <<>>
  PROVE  [w EXCEPT ![1] = <<Slash>> \o @] \in Seq(Word)
  <1>1. w[1] \in Seq(Chars) /\ 1 \in DOMAIN w /\ Slash \in Chars
    <2>1. Len(w) # 0
      BY EmptySeq
    <2>2. 1 \in 1 .. Len(w)
      BY <2>1
    <2>3. w[1] \in Word /\ 1 \in DOMAIN w
      BY <2>2
    <2> QED  BY <2>3, PathsAssumption DEF Word
  <1>2. <<Slash>> \o w[1] \in Seq(Chars) /\ Len(<<Slash>> \o w[1]) = 1 + Len(w[1])
    <2>1. <<Slash>> \in Seq(Chars) /\ Len(<<Slash>>) = 1
      BY <1>1
    <2> QED  BY <1>1, <2>1, ConcatProperties
  <1>3. <<Slash>> \o w[1] # <<>>
    <2> DEFINE t == <<Slash>> \o w[1]
    <2>1. Len(t) # 0
      BY <1>1, <1>2
    <2> HIDE DEF t
    <2>2. t # <<>>
      BY <2>1
    <2> QED  BY <2>2 DEF t
  <1>4. <<Slash>> \o w[1] \in Word
    BY <1>2, <1>3 DEF Word
  <1> DEFINE e == <<Slash>> \o w[1]
  <1> HIDE DEF e
  <1>5. [w EXCEPT ![1] = e] \in Seq(Word)
    BY <1>4 DEF e
  <1> QED  BY <1>5 DEF e

\* Both return names that are not empty.
LEMMA SplitTyped ==
  ASSUME NEW s \in Seq(Chars)
  PROVE  SplitPath(s) \in Seq(Word) /\ Resolve(s) \in Seq(Word)
  <1>1. SplitPath(s) \in Seq(Word)
    <2>1. PICK g : SplitFcn(g, s) /\ SplitPath(s) = Rooted(s, Ended(g[Len(s)]))
      BY SplitDef
    <2>2. g[Len(s)] \in States
      BY <2>1 DEF SplitFcn
    <2>3. Ended(g[Len(s)]) \in Seq(Word)
      BY <2>2, EndTyped
    <2> DEFINE e == Ended(g[Len(s)])
    <2> HIDE DEF e
    <2>4. Rooted(s, e) \in Seq(Word)
      BY <2>3, SlashTyped DEF Rooted, e
    <2> QED  BY <2>1, <2>4 DEF e
  <1>2. Resolve(s) \in Seq(Word)
    <2>1. PICK g : CutFcn(g, s) /\ Resolve(s) = Resolved(s, Ended(g[Len(s)]))
      BY CutDef
    <2>2. g[Len(s)] \in States
      BY <2>1 DEF CutFcn
    <2>3. Ended(g[Len(s)]) \in Seq(Word)
      BY <2>2, EndTyped
    <2> DEFINE e == Ended(g[Len(s)])
    <2> HIDE DEF e
    <2>4. Resolved(s, e) \in Seq(Word)
      BY <2>3, SlashTyped DEF Resolved, e
    <2> QED  BY <2>1, <2>4 DEF e
  <1> QED  BY <1>1, <1>2

-----------------------------------------------------------------------------
(* The tree and the calls                                                  *)

\* The whole path of a call is made of names.
LEMMA WholeTyped ==
  ASSUME DirTypeOK, NEW p \in Procs
  PROVE  Whole(p) \in Seq(Word) /\ Len(Whole(p)) \in Nat
  <1>1. <<>> \in Seq(Chars)
    OBVIOUS
  <1>2. path[p] \in Seq(Chars)
    BY <1>1, PathsAssumption DEF DirTypeOK
  <1>3. Whole(p) \in Seq(Word)
    BY <1>2, SplitTyped DEF Whole
  <1> QED  BY <1>3

\* A prefix is the beginning of the same length.
LEMMA PrefixIsPart ==
  ASSUME NEW S, NEW a \in Seq(S), NEW b \in Seq(S)
  PROVE  IsPrefix(a, b) <=> Len(a) <= Len(b) /\ a = SubSeq(b, 1, Len(a))
  BY SubSeqFull DEF IsPrefix

\* A step that leaves p's call alone and removes nothing keeps what is known of it.
Same(p) ==
  /\ todo'[p] = todo[p] /\ path'[p] = path[p] /\ q'[p] = q[p] /\ temp'[p] = temp[p]
  /\ result'[p] = result[p] /\ hurt'[p] = hurt[p]

\* What it keeps.
LEMMA SameKeeps ==
  ASSUME NEW p \in Procs, Same(p), dirs \subseteq dirs'
  PROVE  /\ Whole(p)' = Whole(p) /\ Stopped(p)' = Stopped(p)
         /\ CallOK(p) => CallOK(p)'
         /\ MetOK(p) => MetOK(p)'
         /\ raced'[p] = raced[p] /\ FailOK(p) => FailOK(p)'
         /\ \A t : Ahead(p, t) => Ahead(p, t)'
  <1>1. Whole(p)' = Whole(p)
    BY DEF Same, Whole
  <1>2. Stopped(p)' = Stopped(p)
    BY DEF Same, Stopped
  <1>3. \A t : Exists(t) => Exists(t)'
    BY DEF Exists
  <1>4. CallOK(p) => CallOK(p)'
    BY <1>1 DEF Same, CallOK
  <1>5. MetOK(p) => MetOK(p)'
    BY <1>1, <1>2, <1>3 DEF Same, MetOK
  <1>6. raced'[p] = raced[p] /\ FailOK(p) => FailOK(p)'
    BY <1>1 DEF Same, FailOK
  <1>7. \A t : Ahead(p, t) => Ahead(p, t)'
    BY <1>1, <1>2 DEF Same, Ahead
  <1> QED  BY <1>1, <1>2, <1>4, <1>5, <1>6, <1>7

\* What another process did not do to p it did not do to its race.
LEMMA RaceKept ==
  ASSUME NEW p \in Procs, Same(p), dirs \subseteq dirs', raced'[p] = raced[p], RaceOK(p),
         todo[p] = "mkdir" => (Exists(temp[p])' => Exists(temp[p])),
         \A r \in Procs, t \in dirs : Ahead(r, t) => Ahead(r, t)'
  PROVE  RaceOK(p)'
  <1>1. Stopped(p)' = Stopped(p)
    BY DEF Same, Stopped
  <1>2. \A r \in Procs : temp[p] \in dirs /\ Ahead(r, temp[p]) => Ahead(r, temp[p])'
    BY DEF Same, Ahead
  <1> QED  BY <1>1, <1>2 DEF Same, RaceOK, Exists

\* The types, from the shape of the step: dirs is left to TreeInv.
VarsTyped ==
  /\ todo \in [Procs -> {"idle", "access", "mkdir", "rmdir"}]
  /\ path \in [Procs -> Paths \cup {<<>>}]
  /\ q \in [Procs -> Seq(Seq(Chars))] /\ temp \in [Procs -> Seq(Seq(Chars))]
  /\ result \in [Procs -> {0, 1, NoResult}]
  /\ hurt \in [Procs -> BOOLEAN] /\ raced \in [Procs -> BOOLEAN]

\* The rest of the types.
LEMMA TypesFromTree == TreeInv /\ VarsTyped => DirTypeOK
  <1>1. TreeInv => \A d \in dirs : d # <<>> /\ \A i \in DOMAIN d : d[i] # <<>>
    BY DEF TreeInv, Word
  <1> QED  BY <1>1 DEF VarsTyped, DirTypeOK

\* A name is a sequence of characters.
LEMMA WordsAreChars ==
  ASSUME NEW w \in Seq(Word)
  PROVE  w \in Seq(Seq(Chars))
  BY SeqMonotonic DEF Word

\* A step of p that leaves the tree and the others alone.
Alone(p) ==
  /\ dirs' = dirs
  /\ \A r \in Procs : r # p => Same(r) /\ raced'[r] = raced[r]

\* Such a step keeps the invariant if it keeps it for p.
LEMMA AloneKeeps ==
  ASSUME DirInv, NEW p \in Procs, Alone(p), VarsTyped',
         CallOK(p)', MetOK(p)', FailOK(p)',
         \A t \in dirs : Ahead(p, t) => Ahead(p, t)',
         (\A r \in Procs, t \in dirs : Ahead(r, t) => Ahead(r, t)') => RaceOK(p)'
  PROVE  DirInv'
  <1>1. TreeInv'
    BY DEF DirInv, TreeInv, Alone
  <1>2. DirTypeOK'
    BY <1>1, TypesFromTree, PTL
  <1>3. \A r \in Procs, t \in dirs : Ahead(r, t) => Ahead(r, t)'
    BY SameKeeps DEF Alone
  <1>4. ASSUME NEW r \in Procs, r # p
        PROVE  CallOK(r)' /\ MetOK(r)' /\ RaceOK(r)' /\ FailOK(r)'
    <2>1. Same(r) /\ raced'[r] = raced[r] /\ dirs \subseteq dirs'
      BY <1>4 DEF Alone
    <2>2. CallOK(r) /\ MetOK(r) /\ RaceOK(r) /\ FailOK(r)
      BY DEF DirInv
    <2>3. Exists(temp[r])' => Exists(temp[r])
      BY <2>1 DEF Exists, Alone, Same
    <2>4. RaceOK(r)'
      BY <1>3, <2>1, <2>2, <2>3, RaceKept
    <2> QED  BY <2>1, <2>2, <2>4, SameKeeps
  <1> QED  BY <1>1, <1>2, <1>3, <1>4 DEF DirInv

\* MKdirIsNotExist starts before the first name.
LEMMA MakeStarts ==
  ASSUME DirInv, NEW p \in Procs, NEW s \in Paths, MKdirIsNotExist(p, s)
  PROVE  DirInv'
  <1>1. DirTypeOK
    BY DEF DirInv
  <1>2. SplitPath(s) \in Seq(Word)
    BY PathsAssumption, SplitTyped
  <1> DEFINE w == SplitPath(s)
  <1>3. /\ todo'[p] = "access" /\ path'[p] = s /\ q'[p] = w /\ temp'[p] = <<>>
        /\ result'[p] = NoResult /\ hurt'[p] = FALSE /\ raced'[p] = FALSE
    BY <1>1 DEF DirTypeOK, MKdirIsNotExist
  <1>4. Alone(p)
    BY <1>1 DEF DirTypeOK, MKdirIsNotExist, Alone, Same
  <1>5. VarsTyped'
    <2>1. w \in Seq(Seq(Chars)) /\ <<>> \in Seq(Seq(Chars))
      BY <1>2, WordsAreChars
    <2> HIDE DEF w
    <2>2. q' = [q EXCEPT ![p] = w]
      BY DEF MKdirIsNotExist, w
    <2> QED  BY <1>1, <2>1, <2>2 DEF DirTypeOK, VarsTyped, MKdirIsNotExist
  <1>6. Whole(p)' = w
    BY <1>3 DEF Whole
  <1> HIDE DEF w
  <1>7. SubSeq(w, 1, 0) = <<>> /\ SubSeq(w, 0 + 1, Len(w)) = w /\ 0 \in 0 .. Len(w) /\ w \in Seq(Word)
    BY <1>2, SubSeqFull, SubSeqEmpty DEF w
  <1>8. CallOK(p)'
    BY <1>3, <1>6, <1>7 DEF CallOK
  <1>9. ~Stopped(p)'
    BY <1>3 DEF Stopped
  <1>10. MetOK(p)'
    <2>1. Len(<<>>) = 0
      OBVIOUS
    <2> QED  BY <1>3, <1>9, <2>1 DEF MetOK
  <1>11. FailOK(p)' /\ RaceOK(p)' /\ \A t \in dirs : Ahead(p, t)'
    BY <1>3, <1>9 DEF FailOK, RaceOK, Ahead, NoResult
  <1> QED  BY <1>4, <1>5, <1>8, <1>10, <1>11, AloneKeeps

\* With nothing left in q, all of the path has been met.
LEMMA LoopEnds ==
  ASSUME DirInv, NEW p \in Procs, AllMade(p)
  PROVE  DirInv'
  <1>1. DirTypeOK
    BY DEF DirInv
  <1> DEFINE w == Whole(p)
  <1>2. w \in Seq(Word) /\ Len(w) \in Nat
    BY <1>1, WholeTyped
  <1>3. /\ todo[p] = "access" /\ todo'[p] = "idle" /\ path'[p] = path[p] /\ q'[p] = q[p]
        /\ temp'[p] = temp[p] /\ result'[p] = 1 /\ hurt'[p] = hurt[p] /\ raced'[p] = raced[p]
        /\ q[p] = <<>>
    BY <1>1 DEF DirTypeOK, AllMade, Return
  <1>4. Alone(p)
    BY <1>1 DEF DirTypeOK, AllMade, Return, Alone, Same
  <1>5. VarsTyped'
    BY <1>1 DEF DirTypeOK, AllMade, Return, VarsTyped
  <1>6. Whole(p)' = w
    BY <1>3 DEF Whole
  <1>7. CallOK(p) /\ MetOK(p)
    BY DEF DirInv
  <1> HIDE DEF w
  <1>8. PICK k \in 0 .. Len(w) : temp[p] = SubSeq(w, 1, k) /\ q[p] = SubSeq(w, k + 1, Len(w))
    BY <1>3, <1>7 DEF CallOK, w
  <1>9. temp[p] = w
    <2>1. ASSUME k # Len(w)
          PROVE  FALSE
      <3>1. k + 1 \in 1 .. Len(w)
        BY <1>2, <2>1
      <3>2. SubSeq(w, k + 1, Len(w)) # <<>>
        BY <1>2, <3>1, PartStarts
      <3> QED  BY <1>3, <1>8, <3>2
    <2>2. SubSeq(w, 1, Len(w)) = w
      BY <1>2, SubSeqFull
    <2> QED  BY <1>8, <2>1, <2>2
  <1>10. CallOK(p)'
    BY <1>3, <1>7 DEF CallOK
  <1>11. ~Stopped(p)'
    BY <1>3 DEF Stopped
  <1>12. MetOK(p)'
    <2>1. \A i \in 1 .. Len(w) : ~hurt[p] => Exists(SubSeq(w, 1, i))
      BY <1>3, <1>7, <1>9 DEF MetOK
    <2>2. \A i \in 1 .. Len(w) : ~hurt[p] => SubSeq(w, 1, i) \in dirs' \cup Files
      BY <1>4, <2>1 DEF Exists, Alone
    <2>3. ~hurt'[p] => \A i \in 1 .. Len(Whole(p)') : SubSeq(Whole(p)', 1, i) \in dirs' \cup Files
      BY <1>3, <1>6, <2>2
    <2> QED  BY <1>3, <1>11, <2>3 DEF MetOK, Exists
  <1>13. FailOK(p)' /\ RaceOK(p)' /\ \A t \in dirs : Ahead(p, t)'
    BY <1>3, <1>11 DEF FailOK, RaceOK, Ahead
  <1> QED  BY <1>4, <1>5, <1>10, <1>12, <1>13, AloneKeeps

\* With t made, a place on the way to it is there.
LEMMA BeyondWhatIsThere ==
  ASSUME TreeInv, NEW w \in Seq(Word), NEW t \in dirs, IsPrefix(t, w),
         NEW n \in 1 .. Len(w), ~Exists(SubSeq(w, 1, n))
  PROVE  n > Len(t)
  <1>1. t \in Seq(Word) /\ Len(t) \in Nat /\ Len(w) \in Nat
    BY DEF TreeInv
  <1>2. Len(t) <= Len(w) /\ t = SubSeq(w, 1, Len(t))
    BY <1>1, PrefixIsPart
  <1> SUFFICES ASSUME n <= Len(t)
               PROVE  FALSE
    BY <1>1
  <1>3. n \in 1 .. Len(t) /\ Len(t) \in 0 .. Len(w) /\ n \in 0 .. Len(t)
    BY <1>1, <1>2
  <1>4. SubSeq(t, 1, n) = SubSeq(w, 1, n)
    <2> DEFINE l == Len(t)
    <2>1. SubSeq(SubSeq(w, 1, l), 1, n) = SubSeq(w, 1, n)
      <3> HIDE DEF l
      <3>1. l \in 0 .. Len(w) /\ n \in 0 .. l
        BY <1>3 DEF l
      <3> QED  BY <3>1, PartOfPart
    <2> QED  BY <1>2, <2>1
  <1>5. SubSeq(t, 1, n) \in dirs
    BY <1>3 DEF TreeInv
  <1> QED  BY <1>4, <1>5 DEF Exists

\* A name that access() looks at is met, or next to be made.
LEMMA LooksAtNext ==
  ASSUME DirInv, NEW p \in Procs, AccessNext(p)
  PROVE  DirInv'
  <1>1. DirTypeOK /\ TreeInv /\ CallOK(p) /\ MetOK(p) /\ RaceOK(p)
    BY DEF DirInv
  <1> DEFINE w == Whole(p)
             place == Append(temp[p], Head(q[p]))
  <1>2. w \in Seq(Word) /\ Len(w) \in Nat
    BY <1>1, WholeTyped
  <1>3. /\ todo[p] = "access" /\ q[p] # <<>> /\ path'[p] = path[p] /\ temp'[p] = place
        /\ result'[p] = result[p] /\ raced'[p] = raced[p] /\ result[p] = NoResult
    BY <1>1 DEF DirTypeOK, AccessNext, CallOK
  <1>4. \/ /\ Exists(place) /\ q'[p] = Tail(q[p]) /\ todo'[p] = "access" /\ hurt'[p] = hurt[p]
        \/ /\ ~Exists(place) /\ q'[p] = q[p] /\ todo'[p] = "mkdir" /\ hurt'[p] = hurt[p]
        \/ /\ q'[p] = q[p] /\ todo'[p] = "mkdir" /\ hurt'[p] = TRUE
    BY <1>1 DEF DirTypeOK, AccessNext
  <1>5. Alone(p)
    BY <1>1 DEF DirTypeOK, AccessNext, Alone, Same
  <1>6. Whole(p)' = w
    BY <1>3 DEF Whole
  <1> HIDE DEF w
  <1>7. PICK k \in 0 .. Len(w) : temp[p] = SubSeq(w, 1, k) /\ q[p] = SubSeq(w, k + 1, Len(w))
    BY <1>1, <1>3 DEF CallOK, w
  <1>8. k + 1 \in 1 .. Len(w) /\ k + 1 \in 0 .. Len(w) /\ k \in 0 .. Len(w) - 1
    <2>1. ASSUME k = Len(w)
          PROVE  FALSE
      <3>1. SubSeq(w, Len(w) + 1, Len(w)) = <<>>
        BY <1>2, SubSeqEmpty
      <3> QED  BY <1>3, <1>7, <2>1, <3>1
    <2> QED  BY <1>2, <2>1
  <1>9. Head(q[p]) = w[k + 1] /\ Tail(q[p]) = SubSeq(w, (k + 1) + 1, Len(w))
    BY <1>2, <1>7, <1>8, PartStarts
  <1>10. place = SubSeq(w, 1, k + 1)
    <2>1. 1 \in 1 .. Len(w) /\ k \in 1 - 1 .. Len(w) - 1
      BY <1>2, <1>8
    <2>2. SubSeq(w, 1, k + 1) = Append(SubSeq(w, 1, k), w[k + 1])
      BY <1>2, <2>1, PartGrows
    <2> QED  BY <1>7, <1>9, <2>2
  <1>11. /\ place \in Seq(Word) /\ Len(place) = k + 1 /\ Len(temp[p]) = k
         /\ Tail(q[p]) \in Seq(Word)
    <2>1. SubSeq(w, 1, k + 1) \in Seq(Word) /\ Len(SubSeq(w, 1, k + 1)) = k + 1 - 1 + 1
      BY <1>2, <1>8, Part
    <2>2. Len(SubSeq(w, 1, k)) = k - 1 + 1
      BY <1>2, <1>8, Part
    <2>3. SubSeq(w, (k + 1) + 1, Len(w)) \in Seq(Word)
      <3>1. (k + 1) + 1 \in 1 .. Len(w) + 1 /\ Len(w) \in (k + 1) + 1 - 1 .. Len(w)
        BY <1>2, <1>8
      <3> QED  BY <1>2, <3>1, Part
    <2>4. k + 1 - 1 + 1 = k + 1 /\ k - 1 + 1 = k
      BY <1>8
    <2> HIDE DEF place
    <2> QED  BY <1>7, <1>9, <1>10, <2>1, <2>2, <2>3, <2>4, Zenon
  <1> HIDE DEF place
  <1>12. VarsTyped'
    <2>1. place \in Seq(Seq(Chars)) /\ Tail(q[p]) \in Seq(Seq(Chars))
      BY <1>11, WordsAreChars
    <2>2. temp' = [temp EXCEPT ![p] = place]
      BY DEF AccessNext, place
    <2>3. q' = q \/ q' = [q EXCEPT ![p] = Tail(q[p])]
      BY DEF AccessNext
    <2>4. temp' \in [Procs -> Seq(Seq(Chars))]
      BY <1>1, <2>1, <2>2 DEF DirTypeOK
    <2>5. q' \in [Procs -> Seq(Seq(Chars))]
      BY <1>1, <2>1, <2>3 DEF DirTypeOK
    <2>6. /\ todo' = todo \/ todo' = [todo EXCEPT ![p] = "mkdir"]
          /\ hurt' = hurt \/ hurt' = [hurt EXCEPT ![p] = TRUE]
          /\ UNCHANGED <<path, result, raced>>
      BY DEF AccessNext
    <2> QED  BY <1>1, <2>4, <2>5, <2>6 DEF DirTypeOK, VarsTyped
  <1>13. CallOK(p)'
    <2>1. temp'[p] \in Seq(Word) /\ q'[p] \in Seq(Word) /\ temp'[p] = SubSeq(w, 1, k + 1)
      BY <1>1, <1>3, <1>4, <1>10, <1>11 DEF CallOK
    <2>2. \/ todo'[p] = "access" /\ q'[p] = SubSeq(w, (k + 1) + 1, Len(w))
          \/ todo'[p] = "mkdir" /\ q'[p] = SubSeq(w, k + 1, Len(w))
      BY <1>4, <1>7, <1>9
    <2> QED  BY <1>3, <1>6, <1>8, <2>1, <2>2 DEF CallOK
  <1>14. \A i \in 1 .. k : ~hurt[p] => SubSeq(w, 1, i) \in dirs' \cup Files
    <2>1. ASSUME NEW i \in 1 .. k, ~hurt[p]
          PROVE  SubSeq(w, 1, i) \in dirs \cup Files
      <3>1. Exists(SubSeq(temp[p], 1, i))
        BY <1>1, <1>3, <1>11, <2>1 DEF MetOK
      <3>2. SubSeq(temp[p], 1, i) = SubSeq(w, 1, i)
        <4>1. i \in 0 .. k
          OBVIOUS
        <4> QED  BY <1>2, <1>7, <4>1, PartOfPart
      <3> QED  BY <3>1, <3>2 DEF Exists
    <2> QED  BY <1>5, <2>1 DEF Alone
  <1>15. \A i \in 1 .. k + 1 : SubSeq(place, 1, i) = SubSeq(w, 1, i)
    <2> TAKE i \in 1 .. k + 1
    <2>1. i \in 0 .. k + 1
      OBVIOUS
    <2> QED  BY <1>2, <1>8, <1>10, <2>1, PartOfPart
  <1>16. MetOK(p)'
    <2>1. CASE todo'[p] = "access"
      <3>1. Exists(place) /\ hurt'[p] = hurt[p]
        BY <1>4, <2>1
      <3>2. ASSUME ~hurt[p], NEW i \in 1 .. k + 1
            PROVE  SubSeq(place, 1, i) \in dirs' \cup Files
        <4>1. CASE i = k + 1
          BY <1>5, <1>10, <1>15, <3>1, <4>1 DEF Exists, Alone
        <4>2. CASE i # k + 1
          <5>1. i \in 1 .. k
            BY <4>2
          <5> QED  BY <1>14, <1>15, <3>2, <5>1
        <4> QED  BY <4>1, <4>2
      <3>3. ~Stopped(p)'
        BY <2>1 DEF Stopped
      <3>4. ~hurt'[p] => \A i \in 1 .. Len(temp'[p]) : SubSeq(temp'[p], 1, i) \in dirs' \cup Files
        BY <1>3, <1>11, <3>1, <3>2
      <3> QED  BY <2>1, <3>3, <3>4 DEF MetOK, Exists
    <2>2. CASE todo'[p] = "mkdir"
      <3>1. hurt'[p] \/ hurt'[p] = hurt[p]
        BY <1>4
      <3>2. \A i \in 1 .. k : ~hurt[p] => SubSeq(place, 1, i) \in dirs' \cup Files
        <4>1. \A i \in 1 .. k : i \in 1 .. k + 1
          OBVIOUS
        <4> QED  BY <1>14, <1>15, <4>1, Zenon
      <3>3. ~hurt'[p] => \A i \in 1 .. Len(temp'[p]) - 1 : SubSeq(temp'[p], 1, i) \in dirs' \cup Files
        <4>1. Len(place) - 1 = k
          BY <1>11
        <4> QED  BY <1>3, <3>1, <3>2, <4>1
      <3>4. \E l \in 1 .. Len(Whole(p)') : temp'[p] = SubSeq(Whole(p)', 1, l)
        BY <1>3, <1>6, <1>8, <1>10
      <3> QED  BY <2>2, <3>3, <3>4 DEF MetOK, Exists
    <2> QED  BY <1>4, <2>1, <2>2
  <1>17. FailOK(p)'
    BY <1>3 DEF FailOK, NoResult
  <1>18. RaceOK(p)'
    <2>1. ~hurt[p] => ~raced[p]
      BY <1>1, <1>3 DEF RaceOK
    <2>2. ~hurt'[p] => ~raced'[p]
      BY <1>3, <1>4, <2>1
    <2>3. ~hurt'[p] /\ todo'[p] = "mkdir" => ~(temp'[p] \in dirs' \cup Files)
      BY <1>3, <1>4, <1>5 DEF Exists, Alone
    <2> QED  BY <2>2, <2>3 DEF RaceOK, Exists
  <1>19. ASSUME NEW t \in dirs
         PROVE  Ahead(p, t)'
    <2> SUFFICES ASSUME ~hurt'[p], Stopped(p)', IsPrefix(t, w)
                 PROVE  Len(temp'[p]) > Len(t)
      BY <1>6 DEF Ahead
    <2>1. ~Exists(place)
      BY <1>3, <1>4 DEF Stopped, NoResult
    <2>2. k + 1 > Len(t)
      BY <1>1, <1>2, <1>8, <1>10, <2>1, BeyondWhatIsThere
    <2> QED  BY <1>3, <1>11, <2>2
  <1> QED  BY <1>5, <1>12, <1>13, <1>16, <1>17, <1>18, <1>19, AloneKeeps

\* temp of a call that is about to make it.
LEMMA AtPlace ==
  ASSUME DirInv, NEW p \in Procs, todo[p] = "mkdir"
  PROVE  \E k \in 1 .. Len(Whole(p)) :
           /\ temp[p] = SubSeq(Whole(p), 1, k) /\ Len(temp[p]) = k
           /\ q[p] = SubSeq(Whole(p), k, Len(Whole(p)))
           /\ Tail(q[p]) = SubSeq(Whole(p), k + 1, Len(Whole(p))) /\ Tail(q[p]) \in Seq(Word)
  <1> DEFINE w == Whole(p)
  <1>1. w \in Seq(Word) /\ Len(w) \in Nat
    BY WholeTyped DEF DirInv
  <1>2. PICK k \in 1 .. Len(w) : temp[p] = SubSeq(w, 1, k) /\ q[p] = SubSeq(w, k, Len(w))
    BY DEF DirInv, CallOK
  <1> HIDE DEF w
  <1>3. Len(SubSeq(w, 1, k)) = k - 1 + 1
    <2>1. k \in 1 - 1 .. Len(w) /\ 1 \in 1 .. Len(w) + 1
      BY <1>1
    <2> QED  BY <1>1, <2>1, Part
  <1>4. k - 1 + 1 = k
    BY <1>1
  <1>5. Tail(q[p]) = SubSeq(w, k + 1, Len(w))
    BY <1>1, <1>2, PartStarts
  <1>6. SubSeq(w, k + 1, Len(w)) \in Seq(Word)
    <2>1. k + 1 \in 1 .. Len(w) + 1 /\ Len(w) \in k + 1 - 1 .. Len(w)
      BY <1>1
    <2> QED  BY <1>1, <2>1, Part
  <1> QED  BY <1>2, <1>3, <1>4, <1>5, <1>6, Zenon DEF w

\* A directory that is made is ahead of all who lost the race for it.
LEMMA Makes ==
  ASSUME DirInv, NEW p \in Procs, Mkdir(p)
  PROVE  DirInv'
  <1>1. DirTypeOK /\ TreeInv /\ CallOK(p) /\ MetOK(p) /\ RaceOK(p) /\ todo[p] = "mkdir"
    BY DEF DirInv, Mkdir
  <1> DEFINE w == Whole(p)
             t == temp[p]
  <1>2. w \in Seq(Word) /\ Len(w) \in Nat
    BY <1>1, WholeTyped
  <1>3. /\ todo'[p] = "access" /\ path'[p] = path[p] /\ temp'[p] = temp[p]
        /\ result'[p] = result[p] /\ hurt'[p] = hurt[p] /\ q'[p] = Tail(q[p])
        /\ raced'[p] = raced[p] /\ result[p] = NoResult
    BY <1>1 DEF DirTypeOK, Mkdir, CallOK
  <1>4. /\ ~Exists(t) /\ dirs' = dirs \cup {t} /\ (Len(t) = 1 \/ Front(t) \in dirs)
        /\ \A r \in Procs : r # p => Same(r)
        /\ \A r \in Procs : r # p =>
             raced'[r] = (raced[r] \/ (todo[r] = "mkdir" /\ temp[r] = t))
    BY <1>1 DEF DirTypeOK, Mkdir, CanMake, Same
  <1>5. PICK k \in 1 .. Len(w) :
          /\ t = SubSeq(w, 1, k) /\ Len(t) = k
          /\ Tail(q[p]) = SubSeq(w, k + 1, Len(w)) /\ Tail(q[p]) \in Seq(Word)
    BY <1>1, AtPlace
  <1>6. t \in Seq(Word) /\ Whole(p)' = w
    BY <1>1, <1>3 DEF CallOK, Whole
  <1>7. TreeInv'
    <2>1. t # <<>> /\ t \notin Files
      <3>1. Len(t) # 0
        BY <1>5
      <3> HIDE DEF t
      <3>2. t # <<>>
        BY <3>1
      <3> QED  BY <1>4, <3>2 DEF Exists
    <2>2. ASSUME NEW i \in 1 .. Len(t)
          PROVE  SubSeq(t, 1, i) \in dirs \cup {t}
      <3>1. CASE i = Len(t)
        <4>1. SubSeq(t, 1, Len(t)) = t
          BY <1>6, SubSeqFull
        <4> QED  BY <3>1, <4>1
      <3>2. CASE i # Len(t)
        <4> DEFINE m == Len(t) - 1
        <4>1. Front(t) \in dirs /\ m \in 0 .. Len(t) /\ i \in 0 .. m /\ i \in 1 .. m
          BY <1>4, <1>5, <3>2
        <4>2. Front(t) = SubSeq(t, 1, m)
          BY DEF Front
        <4>3. Len(SubSeq(t, 1, m)) = m
          <5>1. Len(SubSeq(t, 1, m)) = m - 1 + 1
            <6>1. m \in 1 - 1 .. Len(t) /\ 1 \in 1 .. Len(t) + 1
              BY <1>5
            <6> HIDE DEF m
            <6> QED  BY <1>6, <6>1, Part
          <5> QED  BY <1>5, <5>1
        <4> HIDE DEF m
        <4>4. SubSeq(SubSeq(t, 1, m), 1, i) \in dirs
          BY <1>1, <4>1, <4>2, <4>3 DEF TreeInv
        <4> QED  BY <1>6, <4>1, <4>4, PartOfPart
      <3> QED  BY <3>1, <3>2
    <2> HIDE DEF t
    <2>3. \A d \in dirs \cup {t} : \A i \in 1 .. Len(d) : SubSeq(d, 1, i) \in dirs \cup {t}
      BY <1>1, <2>2 DEF TreeInv
    <2>4. dirs' = dirs \cup {t}
      BY <1>4
    <2>5. dirs' \subseteq Seq(Word) \ {<<>>} /\ dirs' \cap Files = {}
      BY <1>1, <1>6, <2>1, <2>4 DEF TreeInv
    <2> QED  BY <2>3, <2>4, <2>5 DEF TreeInv
  <1>8. VarsTyped'
    <2>1. Tail(q[p]) \in Seq(Seq(Chars))
      BY <1>5, WordsAreChars
    <2>2. q' \in [Procs -> Seq(Seq(Chars))]
      BY <1>1, <2>1 DEF DirTypeOK, Mkdir
    <2>3. raced' \in [Procs -> BOOLEAN]
      BY <1>1 DEF DirTypeOK, Mkdir
    <2>4. todo' = [todo EXCEPT ![p] = "access"] /\ UNCHANGED <<path, temp, result, hurt>>
      BY DEF Mkdir
    <2> QED  BY <1>1, <2>2, <2>3, <2>4 DEF DirTypeOK, VarsTyped
  <1>9. DirTypeOK'
    BY <1>7, <1>8, TypesFromTree, PTL
  <1> HIDE DEF w, t
  <1>10. CallOK(p)'
    <2>1. k \in 0 .. Len(w)
      BY <1>2
    <2>2. temp'[p] = SubSeq(w, 1, k) /\ temp'[p] \in Seq(Word)
      BY <1>3, <1>5, <1>6 DEF t
    <2> QED  BY <1>3, <1>5, <1>6, <2>1, <2>2 DEF CallOK
  <1>11. ~Stopped(p)'
    BY <1>3 DEF Stopped
  <1>12. MetOK(p)'
    <2>1. ASSUME ~hurt[p], NEW i \in 1 .. Len(t)
          PROVE  SubSeq(t, 1, i) \in dirs' \cup Files
      <3>1. CASE i = Len(t)
        <4>1. SubSeq(t, 1, Len(t)) = t
          BY <1>6, SubSeqFull
        <4> QED  BY <1>4, <3>1, <4>1
      <3>2. CASE i # Len(t)
        <4>1. i \in 1 .. Len(temp[p]) - 1
          BY <1>5, <3>2 DEF t
        <4>2. Stopped(p)
          BY <1>1 DEF Stopped
        <4>3. Exists(SubSeq(temp[p], 1, i))
          BY <1>1, <2>1, <4>1, <4>2 DEF MetOK
        <4> QED  BY <1>4, <4>3 DEF Exists, t
      <3> QED  BY <3>1, <3>2
    <2>2. ~hurt'[p] => \A i \in 1 .. Len(temp'[p]) : SubSeq(temp'[p], 1, i) \in dirs' \cup Files
      BY <1>3, <2>1 DEF t
    <2> QED  BY <1>3, <1>11, <2>2 DEF MetOK, Exists
  <1>13. FailOK(p)' /\ \A d : Ahead(p, d)'
    BY <1>3, <1>11 DEF FailOK, Ahead, NoResult
  <1>14. RaceOK(p)'
    <2>1. ~hurt[p] => ~raced[p]
      BY <1>1, <1>4 DEF RaceOK, Stopped, Exists, t
    <2> QED  BY <1>3, <1>11, <2>1 DEF RaceOK
  <1>15. ASSUME NEW r \in Procs, r # p
         PROVE  CallOK(r)' /\ MetOK(r)' /\ RaceOK(r)' /\ FailOK(r)'
    <2>1. CallOK(r) /\ MetOK(r) /\ RaceOK(r) /\ FailOK(r)
      BY DEF DirInv
    <2>2. Same(r) /\ dirs \subseteq dirs'
      BY <1>4, <1>15
    <2>3. Whole(r)' = Whole(r) /\ CallOK(r)' /\ MetOK(r)'
      BY <2>1, <2>2, SameKeeps
    <2>4. \A s \in Procs, d \in dirs : Ahead(s, d) => Ahead(s, d)'
      BY <1>4, <1>13, <2>2, SameKeeps
    <2>5. CASE todo[r] = "mkdir" /\ temp[r] = t
      <3>1. raced'[r] /\ temp'[r] = t /\ t \in dirs' /\ todo'[r] = "mkdir" /\ result'[r] = NoResult
        BY <1>4, <1>15, <2>1, <2>2, <2>5 DEF Same, CallOK
      <3>2. Ahead(p, temp[r])'
        BY <1>11 DEF Ahead
      <3>3. RaceOK(r)'
        BY <3>1, <3>2 DEF RaceOK
      <3>4. FailOK(r)'
        BY <3>1 DEF FailOK, NoResult
      <3> QED  BY <2>3, <3>3, <3>4
    <2>6. CASE ~(todo[r] = "mkdir" /\ temp[r] = t)
      <3>1. raced'[r] = raced[r]
        <4>1. raced[r] \in BOOLEAN /\ raced'[r] = (raced[r] \/ (todo[r] = "mkdir" /\ temp[r] = t))
          BY <1>1, <1>4, <1>15 DEF DirTypeOK
        <4> QED  BY <2>6, <4>1
      <3>2. todo[r] = "mkdir" => (Exists(temp[r])' => Exists(temp[r]))
        BY <1>4, <2>2, <2>6 DEF Exists, Same
      <3>3. RaceOK(r)'
        BY <2>1, <2>2, <2>4, <3>1, <3>2, RaceKept
      <3> QED  BY <2>1, <2>2, <2>3, <3>1, <3>3, SameKeeps
    <2> QED  BY <2>5, <2>6
  <1> QED  BY <1>7, <1>9, <1>10, <1>12, <1>13, <1>14, <1>15 DEF DirInv

\* mkdir() fails against a file on the way, or a race that was lost.
LEMMA MakeFails ==
  ASSUME DirInv, NEW p \in Procs, MkdirFails(p)
  PROVE  DirInv'
  <1>1. /\ DirTypeOK /\ TreeInv /\ CallOK(p) /\ MetOK(p) /\ RaceOK(p)
        /\ todo[p] = "mkdir" /\ Stopped(p)
    BY DEF DirInv, MkdirFails, Stopped
  <1> DEFINE w == Whole(p)
             t == temp[p]
  <1>2. w \in Seq(Word) /\ Len(w) \in Nat
    BY <1>1, WholeTyped
  <1>3. /\ todo'[p] = "idle" /\ path'[p] = path[p] /\ temp'[p] = temp[p]
        /\ result'[p] = 0 /\ q'[p] = q[p] /\ raced'[p] = raced[p]
        /\ hurt'[p] = (hurt[p] \/ CanMake(t))
    BY <1>1 DEF DirTypeOK, MkdirFails, Return
  <1>4. Alone(p)
    BY <1>1 DEF DirTypeOK, MkdirFails, Return, Alone, Same
  <1>5. VarsTyped'
    BY <1>1 DEF DirTypeOK, MkdirFails, Return, VarsTyped
  <1>6. Whole(p)' = w /\ t \in Seq(Word)
    BY <1>1, <1>3 DEF Whole, CallOK
  <1>7. CallOK(p)'
    BY <1>1, <1>3 DEF CallOK
  <1>8. Stopped(p)'
    BY <1>3 DEF Stopped
  <1>9. MetOK(p)'
    <2>1. ~hurt[p] => /\ \E k \in 1 .. Len(w) : t = SubSeq(w, 1, k)
                      /\ \A i \in 1 .. Len(t) - 1 : SubSeq(t, 1, i) \in dirs \cup Files
      BY <1>1 DEF MetOK, Exists
    <2> HIDE DEF w, t
    <2>2. temp'[p] = t /\ dirs' = dirs
      BY <1>3, <1>4 DEF Alone, t
    <2>3. ~hurt'[p] => ~hurt[p]
      BY <1>3
    <2>4. ~hurt'[p] =>
            /\ \E k \in 1 .. Len(Whole(p)') : temp'[p] = SubSeq(Whole(p)', 1, k)
            /\ \A i \in 1 .. Len(temp'[p]) - 1 : SubSeq(temp'[p], 1, i) \in dirs' \cup Files
      BY <1>6, <2>1, <2>2, <2>3
    <2> QED  BY <1>3, <2>4 DEF MetOK, Exists
  <1>10. RaceOK(p) /\ (\A r \in Procs, d \in dirs : Ahead(r, d) => Ahead(r, d)') => RaceOK(p)'
    <2> SUFFICES ASSUME \A r \in Procs, d \in dirs : Ahead(r, d) => Ahead(r, d)',
                        ~hurt'[p], raced'[p]
                 PROVE  temp'[p] \in dirs' /\ \E r \in Procs : Ahead(r, temp[p])'
      BY <1>3, <1>8 DEF RaceOK
    <2>1. temp[p] \in dirs /\ \E r \in Procs : Ahead(r, temp[p])
      BY <1>1, <1>3 DEF RaceOK
    <2>2. \A r \in Procs : Ahead(r, temp[p]) => Ahead(r, temp[p])'
      BY <1>3, <2>1 DEF Ahead
    <2> QED  BY <1>3, <1>4, <2>1, <2>2 DEF Alone
  <1>11. \A d \in dirs : Ahead(p, d) => Ahead(p, d)'
    BY <1>1, <1>3, <1>6 DEF Ahead
  <1>12. FailOK(p)'
    <2> SUFFICES ASSUME ~hurt'[p]
                 PROVE  \/ raced[p] /\ t \in dirs
                        \/ \E f \in Files : IsStrictPrefix(f, w)
      BY <1>3, <1>4, <1>6 DEF FailOK, Alone
    <2>1. ~hurt[p] /\ ~CanMake(t)
      BY <1>3
    <2>2. CASE Exists(t)
      BY <1>1, <2>1, <2>2 DEF RaceOK
    <2>3. CASE ~Exists(t)
      <3>1. Len(t) # 1 /\ Front(t) \notin dirs
        BY <2>1, <2>3 DEF CanMake
      <3>2. PICK k \in 1 .. Len(w) : t = SubSeq(w, 1, k) /\ Len(t) = k
        BY <1>1, AtPlace
      <3> DEFINE m == k - 1
      <3>3. m \in 1 .. Len(w) /\ m \in 0 .. k /\ m \in 1 .. Len(t) - 1 /\ m # Len(w) /\ k \in 0 .. Len(w)
        BY <1>2, <3>1, <3>2
      <3>4. Front(t) = SubSeq(w, 1, m) /\ Front(t) = SubSeq(t, 1, m)
        <4>1. Front(t) = SubSeq(t, 1, m)
          BY <3>2 DEF Front
        <4> HIDE DEF m, w
        <4>2. SubSeq(SubSeq(w, 1, k), 1, m) = SubSeq(w, 1, m)
          BY <1>2, <3>3, PartOfPart
        <4> QED  BY <3>2, <4>1, <4>2
      <3>5. Front(t) \in Files
        BY <1>1, <2>1, <3>1, <3>3, <3>4 DEF MetOK, Exists
      <3>6. IsStrictPrefix(Front(t), w)
        <4> DEFINE f == SubSeq(w, 1, m)
        <4>1. f \in Seq(Word) /\ Len(f) = m - 1 + 1
          <5>1. m \in 1 - 1 .. Len(w) /\ 1 \in 1 .. Len(w) + 1
            BY <1>2, <3>3
          <5> HIDE DEF m, w
          <5> QED  BY <1>2, <5>1, Part
        <4>2. Len(f) = m
          BY <3>3, <4>1
        <4>3. f = SubSeq(w, 1, Len(f)) /\ Len(f) <= Len(w) /\ Len(f) # Len(w)
          BY <1>2, <3>3, <4>2
        <4> HIDE DEF f, m, w
        <4>4. IsPrefix(f, w) /\ f # w
          BY <1>2, <4>1, <4>3, PrefixIsPart
        <4> QED  BY <3>4, <4>4 DEF IsStrictPrefix, f
      <3> QED  BY <3>5, <3>6
    <2> QED  BY <2>2, <2>3
  <1> QED  BY <1>1, <1>4, <1>5, <1>7, <1>9, <1>10, <1>11, <1>12, AloneKeeps

\* A call that removes claims nothing.
LEMMA RemoveStarts ==
  ASSUME DirInv, NEW p \in Procs, NEW s \in Paths, RMdirIsExist(p, s)
  PROVE  DirInv'
  <1>1. DirTypeOK
    BY DEF DirInv
  <1>2. Resolve(s) \in Seq(Word) /\ Resolve(s) \in Seq(Seq(Chars)) /\ <<>> \in Seq(Word)
        /\ <<>> \in Seq(Seq(Chars))
    BY PathsAssumption, SplitTyped, WordsAreChars
  <1>3. /\ path' = [path EXCEPT ![p] = s] /\ q' = [q EXCEPT ![p] = <<>>]
        /\ temp' = [temp EXCEPT ![p] = Resolve(s)] /\ hurt' = [hurt EXCEPT ![p] = TRUE]
        /\ \/ todo' = [todo EXCEPT ![p] = "rmdir"] /\ result' = [result EXCEPT ![p] = NoResult]
           \/ todo' = [todo EXCEPT ![p] = "idle"] /\ result' = [result EXCEPT ![p] = 0]
        /\ UNCHANGED <<dirs, raced>>
    BY DEF RMdirIsExist, Return
  <1>4. /\ q'[p] = <<>> /\ temp'[p] = Resolve(s) /\ hurt'[p]
        /\ \/ todo'[p] = "rmdir" /\ result'[p] = NoResult
           \/ todo'[p] = "idle" /\ result'[p] = 0
    BY <1>1, <1>3 DEF DirTypeOK
  <1>5. Alone(p)
    BY <1>1, <1>3 DEF DirTypeOK, Alone, Same
  <1>6. VarsTyped'
    BY <1>1, <1>2, <1>3 DEF DirTypeOK, VarsTyped
  <1>7. CallOK(p)'
    BY <1>2, <1>4 DEF CallOK
  <1>8. MetOK(p)' /\ RaceOK(p)' /\ FailOK(p)' /\ \A t \in dirs : Ahead(p, t)'
    BY <1>4 DEF MetOK, RaceOK, FailOK, Ahead
  <1> QED  BY <1>5, <1>6, <1>7, <1>8, AloneKeeps

\* Nor does one that fails to.
LEMMA RemoveFails ==
  ASSUME DirInv, NEW p \in Procs, RmdirFails(p)
  PROVE  DirInv'
  <1>1. DirTypeOK /\ CallOK(p) /\ todo[p] = "rmdir" /\ hurt[p]
    BY DEF DirInv, RmdirFails, CallOK
  <1>2. /\ todo' = [todo EXCEPT ![p] = "idle"] /\ result' = [result EXCEPT ![p] = 0]
        /\ UNCHANGED <<dirs, path, q, temp, hurt, raced>>
    BY DEF RmdirFails, Return
  <1>3. todo'[p] = "idle" /\ hurt'[p]
    BY <1>1, <1>2 DEF DirTypeOK
  <1>4. Alone(p)
    BY <1>1, <1>2 DEF DirTypeOK, Alone, Same
  <1>5. VarsTyped'
    BY <1>1, <1>2 DEF DirTypeOK, VarsTyped
  <1>6. CallOK(p)'
    BY <1>1, <1>2, <1>3 DEF CallOK
  <1>7. MetOK(p)' /\ RaceOK(p)' /\ FailOK(p)' /\ \A t \in dirs : Ahead(p, t)'
    BY <1>3 DEF MetOK, RaceOK, FailOK, Ahead
  <1> QED  BY <1>4, <1>5, <1>6, <1>7, AloneKeeps

\* A removal leaves a tree, and hurts every call.
LEMMA Removes ==
  ASSUME DirInv, NEW p \in Procs, Rmdir(p)
  PROVE  DirInv'
  <1>1. DirTypeOK /\ TreeInv /\ todo[p] = "rmdir"
    BY DEF DirInv, Rmdir
  <1>2. /\ CanRemove(temp[p]) /\ dirs' = dirs \ {temp[p]} /\ hurt' = [r \in Procs |-> TRUE]
        /\ todo' = [todo EXCEPT ![p] = "idle"] /\ result' = [result EXCEPT ![p] = 1]
        /\ UNCHANGED <<path, q, temp, raced>>
    BY DEF Rmdir, Return
  <1>3. TreeInv'
    <2>1. ASSUME NEW d \in dirs', NEW i \in 1 .. Len(d)
          PROVE  SubSeq(d, 1, i) \in dirs'
      <3>1. d \in dirs /\ d # temp[p] /\ d \in Seq(Word) /\ SubSeq(d, 1, i) \in dirs
        BY <1>1, <1>2 DEF TreeInv
      <3>2. ASSUME SubSeq(d, 1, i) = temp[p]
            PROVE  FALSE
        <4>1. Len(SubSeq(d, 1, i)) = i - 1 + 1 /\ SubSeq(d, 1, i) \in Seq(Word)
          <5>1. i \in 1 - 1 .. Len(d) /\ 1 \in 1 .. Len(d) + 1
            BY <3>1
          <5> QED  BY <3>1, <5>1, Part
        <4>2. Len(temp[p]) = i /\ temp[p] \in Seq(Word) /\ Len(temp[p]) <= Len(d)
          BY <3>1, <3>2, <4>1
        <4>3. IsPrefix(temp[p], d)
          BY <3>1, <3>2, <4>2, PrefixIsPart
        <4> QED  BY <1>2, <3>1, <4>3 DEF CanRemove
      <3> QED  BY <1>2, <3>1, <3>2
    <2>2. dirs' \subseteq Seq(Word) \ {<<>>} /\ dirs' \cap Files = {}
      BY <1>1, <1>2 DEF TreeInv
    <2> QED  BY <2>1, <2>2 DEF TreeInv
  <1>4. VarsTyped'
    BY <1>1, <1>2 DEF DirTypeOK, VarsTyped
  <1>5. DirTypeOK'
    BY <1>3, <1>4, TypesFromTree, PTL
  <1>6. ASSUME NEW r \in Procs
        PROVE  CallOK(r)' /\ MetOK(r)' /\ RaceOK(r)' /\ FailOK(r)'
    <2>1. hurt'[r] /\ CallOK(r) /\ Whole(r)' = Whole(r)
      BY <1>2 DEF DirInv, Whole
    <2>2. /\ temp'[r] = temp[r] /\ q'[r] = q[r]
          /\ (todo'[r] = todo[r] /\ result'[r] = result[r]) \/ todo'[r] = "idle"
      BY <1>1, <1>2 DEF DirTypeOK
    <2>3. CallOK(r)'
      BY <2>1, <2>2 DEF CallOK
    <2> QED  BY <2>1, <2>3 DEF MetOK, RaceOK, FailOK
  <1> QED  BY <1>3, <1>5, <1>6 DEF DirInv

\* Every step keeps the invariant.
LEMMA DirStep ==
  ASSUME DirInv, [DirNext]_dirvars
  PROVE  DirInv'
  <1>1. CASE UNCHANGED dirvars
    <2>1. TreeInv' /\ DirTypeOK'
      BY <1>1 DEF DirInv, TreeInv, DirTypeOK, dirvars
    <2>2. ASSUME NEW p \in Procs
          PROVE  CallOK(p)' /\ MetOK(p)' /\ RaceOK(p)' /\ FailOK(p)'
      <3>1. \A r \in Procs : Same(r) /\ raced'[r] = raced[r] /\ dirs' = dirs
        BY <1>1 DEF dirvars, Same
      <3>2. \A r \in Procs, t \in dirs : Ahead(r, t) => Ahead(r, t)'
        BY <3>1, SameKeeps
      <3>3. Exists(temp[p])' => Exists(temp[p])
        BY <3>1 DEF Exists, Same
      <3>4. RaceOK(p)'
        BY <3>1, <3>2, <3>3, RaceKept DEF DirInv
      <3> QED  BY <3>1, <3>4, SameKeeps DEF DirInv
    <2> QED  BY <2>1, <2>2 DEF DirInv
  <1> QED  BY <1>1, MakeStarts, LoopEnds, LooksAtNext, Makes, MakeFails, RemoveStarts, Removes,
              RemoveFails DEF DirNext, Step

\* It holds at first.
LEMMA DirStarts == DirInit => DirInv
  <1> SUFFICES ASSUME DirInit
               PROVE  DirInv
    OBVIOUS
  <1>1. <<>> \in Seq(Word) /\ <<>> \in Seq(Seq(Chars))
    OBVIOUS
  <1>2. VarsTyped /\ TreeInv
    BY <1>1 DEF DirInit, VarsTyped, TreeInv
  <1>3. ASSUME NEW p \in Procs
        PROVE  CallOK(p) /\ MetOK(p) /\ RaceOK(p) /\ FailOK(p)
    BY <1>1 DEF DirInit, CallOK, MetOK, RaceOK, FailOK, Stopped, NoResult
  <1> QED  BY <1>2, <1>3, TypesFromTree DEF DirInv

\* Nothing but a directory lies on the way to what is there.
LEMMA WayIsDirs ==
  ASSUME TreeInv, NEW w \in Seq(Word),
         \A i \in 1 .. Len(w) : Exists(SubSeq(w, 1, i)),
         NEW i \in 1 .. Len(w), i # Len(w)
  PROVE  SubSeq(w, 1, i) \in dirs
  <1> DEFINE a == SubSeq(w, 1, i)
             b == SubSeq(w, 1, i + 1)
  <1>1. i + 1 \in 1 .. Len(w) /\ i \in 1 - 1 .. Len(w) /\ i + 1 \in 1 - 1 .. Len(w)
        /\ 1 \in 1 .. Len(w) + 1 /\ i \in 0 .. i + 1 /\ i + 1 \in 0 .. Len(w)
    OBVIOUS
  <1>2. /\ a \in Seq(Word) /\ Len(a) = i - 1 + 1
        /\ b \in Seq(Word) /\ Len(b) = i + 1 - 1 + 1
    BY <1>1, Part
  <1>3. SubSeq(b, 1, i) = a
    BY <1>1, PartOfPart
  <1>4. Exists(a) /\ Exists(b)
    BY <1>1
  <1> HIDE DEF a, b
  <1>5. Len(a) = i /\ Len(b) = i + 1 /\ i \in 1 .. Len(b)
    BY <1>2
  <1>6. CASE b \in dirs
    <2>1. a \in dirs
      BY <1>3, <1>5, <1>6 DEF TreeInv
    <2> QED  BY <2>1 DEF a
  <1>7. CASE b \in Files
    <2>1. IsPrefix(a, b) /\ a # b
      BY <1>2, <1>3, <1>5, PrefixIsPart
    <2>2. a \notin Files
      BY <1>7, <2>1, FilesAssumption DEF IsStrictPrefix
    <2>3. a \in dirs
      BY <1>4, <2>2 DEF Exists
    <2> QED  BY <2>3 DEF a
  <1> QED  BY <1>4, <1>6, <1>7 DEF Exists

\* What the invariant says of a call that has returned.
LEMMA TruthFromInv == DirInv => ReturnsTheTruth
  <1> SUFFICES ASSUME DirInv
               PROVE  MakesPath /\ FailsOnlyInTheWay
    BY DEF ReturnsTheTruth
  <1>1. DirTypeOK /\ TreeInv /\ \A p \in Procs : CallOK(p) /\ MetOK(p) /\ FailOK(p)
    BY DEF DirInv
  <1>2. FailsOnlyInTheWay
    BY <1>1 DEF FailOK, FailsOnlyInTheWay, Whole
  <1>3. ASSUME NEW p \in Procs, result[p] = 1, ~hurt[p]
        PROVE  LET place == SplitPath(path[p])
               IN \A i \in DOMAIN place :
                    IF i < Len(place) THEN SubSeq(place, 1, i) \in dirs ELSE Exists(place)
    <2> DEFINE w == Whole(p)
    <2>1. w \in Seq(Word) /\ Len(w) \in Nat /\ DOMAIN w = 1 .. Len(w)
      BY <1>1, WholeTyped
    <2>2. todo[p] = "idle"
      BY <1>1, <1>3 DEF CallOK, NoResult
    <2>3. \A i \in 1 .. Len(w) : Exists(SubSeq(w, 1, i))
      BY <1>1, <1>3, <2>2 DEF MetOK
    <2> HIDE DEF w
    <2>4. ASSUME NEW i \in DOMAIN w
          PROVE  IF i < Len(w) THEN SubSeq(w, 1, i) \in dirs ELSE Exists(w)
      <3>1. CASE i < Len(w)
        BY <1>1, <2>1, <2>3, <3>1, WayIsDirs
      <3>2. CASE ~(i < Len(w))
        <4>1. Len(w) \in 1 .. Len(w) /\ SubSeq(w, 1, Len(w)) = w
          BY <2>1, <3>2, SubSeqFull
        <4>2. Exists(SubSeq(w, 1, Len(w)))
          BY <2>3, <4>1
        <4> QED  BY <3>2, <4>1, <4>2
      <3> QED  BY <3>1, <3>2
    <2>5. w = SplitPath(path[p])
      BY DEF w, Whole
    <2> QED  BY <2>4, <2>5, Zenon
  <1> QED  BY <1>2, <1>3 DEF MakesPath

\* For any number of processes, any paths and any files, what MKdirIsNotExist
\* returns is true of the file system, whatever other processes do between its
\* access() and its mkdir().
THEOREM TruthReturned == DirSpec => []ReturnsTheTruth
  <1> QED  BY DirStarts, DirStep, TruthFromInv, PTL DEF DirSpec

\* If all had failed, the one that came furthest would have another ahead of it.
LEMMA ThroughFromInv == DirInv => SomeoneGetsThrough
  <1> SUFFICES ASSUME DirInv, NEW s \in Paths,
                      \A p \in Procs : todo[p] = "idle" /\ path[p] = s /\ ~hurt[p],
                      \A p \in Procs : result[p] # NoResult,
                      \A f \in Files : ~IsPrefix(f, SplitPath(s)),
                      NEW i \in DOMAIN SplitPath(s)
               PROVE  SubSeq(SplitPath(s), 1, i) \in dirs
    BY DEF SomeoneGetsThrough
  <1> DEFINE w == SplitPath(s)
  <1>1. DirTypeOK /\ TreeInv /\ \A p \in Procs : CallOK(p) /\ MetOK(p) /\ RaceOK(p) /\ FailOK(p)
    BY DEF DirInv
  <1>2. w \in Seq(Word) /\ Len(w) \in Nat /\ DOMAIN w = 1 .. Len(w) /\ i \in DOMAIN w
        /\ \A p \in Procs : Whole(p) = w
    <2>1. SplitPath(s) \in Seq(Word)
      BY PathsAssumption, SplitTyped
    <2> QED  BY <2>1 DEF Whole
  <1> HIDE DEF w
  <1>3. \A p \in Procs : result[p] \in {0, 1}
    BY <1>1 DEF DirTypeOK
  <1>4. \A f \in Files : ~IsPrefix(f, w)
    BY DEF w
  <1>5. ASSUME \A p \in Procs : result[p] = 0
        PROVE  FALSE
    <2>1. ASSUME NEW p \in Procs
          PROVE  /\ Stopped(p) /\ raced[p] /\ temp[p] \in dirs /\ Len(temp[p]) \in 0 .. Len(w)
                 /\ IsPrefix(temp[p], w)
      <3>1. Stopped(p)
        BY <1>5 DEF Stopped
      <3>2. raced[p] /\ temp[p] \in dirs
        BY <1>1, <1>2, <1>4, <1>5 DEF FailOK, IsStrictPrefix
      <3>3. PICK k \in 1 .. Len(w) : temp[p] = SubSeq(w, 1, k)
        BY <1>1, <1>2, <3>1 DEF MetOK
      <3>4. SubSeq(w, 1, k) \in Seq(Word) /\ Len(SubSeq(w, 1, k)) = k - 1 + 1
        <4>1. k \in 1 - 1 .. Len(w) /\ 1 \in 1 .. Len(w) + 1
          BY <1>2
        <4> QED  BY <1>2, <4>1, Part
      <3>5. temp[p] \in Seq(Word) /\ Len(temp[p]) = k /\ k \in 0 .. Len(w)
        BY <1>2, <3>3, <3>4
      <3>6. IsPrefix(temp[p], w)
        <4>1. Len(temp[p]) <= Len(w) /\ temp[p] = SubSeq(w, 1, Len(temp[p]))
          BY <1>2, <3>3, <3>5
        <4> QED  BY <1>2, <3>5, <4>1, PrefixIsPart
      <3> QED  BY <3>1, <3>2, <3>5, <3>6
    <2> DEFINE T == {n \in Nat : \E p \in Procs : n = Len(w) - Len(temp[p])}
    <2>2. T # {}
      <3>1. PICK p \in Procs : TRUE
        BY ProcsAssumption
      <3>2. Len(w) - Len(temp[p]) \in Nat
        BY <1>2, <2>1
      <3> QED  BY <3>2
    <2>3. PICK n \in T : \A m \in T : n <= m
      <3>1. T \subseteq Nat
        OBVIOUS
      <3> HIDE DEF T
      <3> QED  BY <2>2, <3>1, LeastNat
    <2>4. PICK p \in Procs : n = Len(w) - Len(temp[p])
      BY <2>3
    <2>5. PICK r \in Procs : Ahead(r, temp[p])
      BY <1>1, <2>1 DEF RaceOK
    <2>6. Len(temp[r]) > Len(temp[p])
      BY <1>2, <2>1, <2>5 DEF Ahead
    <2>7. Len(w) - Len(temp[r]) \in T
      <3>1. Len(temp[r]) \in 0 .. Len(w)
        BY <2>1
      <3>2. \A a \in Nat : \A b \in 0 .. a : a - b \in Nat
        OBVIOUS
      <3>3. Len(w) - Len(temp[r]) \in Nat
        BY <1>2, <3>1, <3>2, Zenon
      <3> QED  BY <3>3
    <2>8. n <= Len(w) - Len(temp[r])
      BY <2>3, <2>7
    <2>9. Len(temp[r]) \in 0 .. Len(w) /\ Len(temp[p]) \in 0 .. Len(w)
      BY <2>1
    <2> HIDE DEF T
    <2>10. \A a \in Nat : \A b, c \in 0 .. a : b > c => ~(a - c <= a - b)
      OBVIOUS
    <2> QED  BY <1>2, <2>4, <2>6, <2>8, <2>9, <2>10, Zenon
  <1>6. PICK p \in Procs : result[p] = 1
    BY <1>3, <1>5
  <1>7. \A l \in 1 .. Len(w) : Exists(SubSeq(w, 1, l))
    BY <1>1, <1>2, <1>6 DEF MetOK
  <1>8. SubSeq(w, 1, i) \notin Files
    <2> DEFINE a == SubSeq(w, 1, i)
    <2>1. a \in Seq(Word) /\ Len(a) = i - 1 + 1
      <3>1. i \in 1 - 1 .. Len(w) /\ 1 \in 1 .. Len(w) + 1
        BY <1>2
      <3> QED  BY <1>2, <3>1, Part
    <2>2. Len(a) = i /\ a = SubSeq(w, 1, Len(a)) /\ Len(a) <= Len(w)
      BY <1>2, <2>1
    <2> HIDE DEF a
    <2>3. IsPrefix(a, w)
      BY <1>2, <2>1, <2>2, PrefixIsPart
    <2>4. a \notin Files
      BY <1>4, <2>3
    <2> QED  BY <2>4 DEF a
  <1>9. SubSeq(w, 1, i) \in dirs
    BY <1>2, <1>7, <1>8 DEF Exists
  <1> QED  BY <1>9 DEF w

\* For any number of processes, those that make the same path at the same time
\* do not all fail: one of them is ahead of every race that was lost.
THEOREM OneGetsThrough == DirSpec => []SomeoneGetsThrough
  <1> QED  BY DirStarts, DirStep, ThroughFromInv, PTL DEF DirSpec

-----------------------------------------------------------------------------
(* The names that SplitPath finds                                          *)

\* After i characters of s: q has the stretches at, all that ended before, and
\* ch has what follows the last separator, from b on.
CutAt(s, i, st, at, b) ==
  /\ at \in [1 .. Len(st.q) -> Stretches(s)] /\ b \in 1 .. i + 1
  /\ \A l \in 1 .. Len(st.q) : st.q[l] = SubSeq(s, at[l][1], at[l][2]) /\ at[l][1] < b
  /\ \A l, m \in 1 .. Len(st.q) : l < m => at[l][1] < at[m][1]
  /\ \A r \in Stretches(s) : r[2] < i => \E l \in 1 .. Len(st.q) : at[l] = r
  /\ st.ch = SubSeq(s, b, i) /\ \A j \in b .. i : ~Splitter(s[j])
  /\ b = 1 \/ Splitter(s[b - 1])

\* What a stretch is.
LEMMA StretchFacts ==
  ASSUME NEW s \in Seq(Chars), NEW r \in Stretches(s)
  PROVE  /\ r[1] \in 1 .. Len(s) /\ r[2] \in 1 .. Len(s) /\ r[1] <= r[2] /\ r = <<r[1], r[2]>>
         /\ \A j \in r[1] .. r[2] : ~Splitter(s[j])
         /\ r[1] = 1 \/ Splitter(s[r[1] - 1])
         /\ r[2] = Len(s) \/ Splitter(s[r[2] + 1])
  BY DEF Stretches

\* What makes a stretch.
LEMMA StretchIs ==
  ASSUME NEW s \in Seq(Chars), NEW b \in 1 .. Len(s), NEW e \in b .. Len(s),
         \A j \in b .. e : ~Splitter(s[j]), b = 1 \/ Splitter(s[b - 1]),
         e = Len(s) \/ Splitter(s[e + 1])
  PROVE  <<b, e>> \in Stretches(s)
  <1>1. b \in DOMAIN s /\ e \in DOMAIN s /\ <<b, e>>[1] = b /\ <<b, e>>[2] = e /\ b <= e
    OBVIOUS
  <1> DEFINE r == <<b, e>>
  <1>2. r \in (DOMAIN s) \X (DOMAIN s) /\ r[1] = b /\ r[2] = e
    BY <1>1
  <1> HIDE DEF r
  <1>3. r \in Stretches(s)
    BY <1>1, <1>2 DEF Stretches
  <1> QED  BY <1>3 DEF r

\* Two runs without separators that end together and start behind a separator
\* start together.
LEMMA SameStart ==
  ASSUME NEW s \in Seq(Chars), NEW e \in 1 .. Len(s), NEW a \in 1 .. e, NEW b \in 1 .. e,
         \A j \in a .. e : ~Splitter(s[j]), a = 1 \/ Splitter(s[a - 1]),
         \A j \in b .. e : ~Splitter(s[j]), b = 1 \/ Splitter(s[b - 1])
  PROVE  a = b
  <1>1. ASSUME a < b PROVE FALSE
    <2>1. b # 1 /\ b - 1 \in a .. e
      BY <1>1
    <2> QED  BY <2>1
  <1>2. ASSUME b < a PROVE FALSE
    <2>1. a # 1 /\ a - 1 \in b .. e
      BY <1>2
    <2> QED  BY <2>1
  <1> QED  BY <1>1, <1>2

\* A run without separators is part of a stretch that starts where it does.
LEMMA RunEnds ==
  ASSUME NEW s \in Seq(Chars), NEW b \in 1 .. Len(s), NEW e \in b .. Len(s),
         \A j \in b .. e : ~Splitter(s[j]), b = 1 \/ Splitter(s[b - 1])
  PROVE  \E x \in e .. Len(s) : <<b, x>> \in Stretches(s)
  <1> DEFINE T == {n \in Nat : n \in e .. Len(s) /\ (n = Len(s) \/ Splitter(s[n + 1]))}
  <1>1. Len(s) \in T /\ T \subseteq Nat
    OBVIOUS
  <1>2. PICK x \in T : \A y \in T : x <= y
    <2> HIDE DEF T
    <2> QED  BY <1>1, LeastNat
  <1>3. x \in e .. Len(s) /\ (x = Len(s) \/ Splitter(s[x + 1])) /\ x \in b .. Len(s)
    BY <1>2
  <1> DEFINE U == {n \in Nat : n \in e .. x => ~Splitter(s[n])}
  <1>4. 0 \in U
    OBVIOUS
  <1>5. ASSUME NEW n \in Nat, n \in U
        PROVE  n + 1 \in U
    <2> SUFFICES ASSUME n + 1 \in e .. x
                 PROVE  ~Splitter(s[n + 1])
      OBVIOUS
    <2>1. CASE n + 1 = e
      BY <2>1
    <2>2. CASE n + 1 # e
      <3>1. n \in e .. Len(s) /\ n < x
        BY <1>3, <2>2
      <3>2. n \notin T
        BY <1>2, <3>1
      <3> QED  BY <3>1, <3>2
    <2> QED  BY <2>1, <2>2
  <1> HIDE DEF U
  <1>6. \A n \in Nat : n \in U
    BY <1>4, <1>5, Induction
  <1>7. \A j \in b .. x : ~Splitter(s[j])
    <2> TAKE j \in b .. x
    <2>1. CASE j \in b .. e
      BY <2>1
    <2>2. CASE j \notin b .. e
      <3>1. j \in e .. x /\ j \in Nat
        BY <1>3, <2>2
      <3> QED  BY <1>6, <3>1 DEF U
    <2> QED  BY <2>1, <2>2
  <1> HIDE DEF T
  <1>8. <<b, x>> \in Stretches(s)
    BY <1>3, <1>7, StretchIs
  <1> QED  BY <1>3, <1>8

\* Before the first character nothing is cut.
LEMMA CutStarts ==
  ASSUME NEW s \in Seq(Chars)
  PROVE  \E at, b : CutAt(s, 0, Start, at, b)
  <1> DEFINE at == [l \in 1 .. 0 |-> <<1, 1>>]
  <1>1. Start.q = <<>> /\ Start.ch = <<>> /\ Len(<<>>) = 0
    BY DEF Start
  <1>2. SubSeq(s, 1, 0) = <<>>
    BY SubSeqEmpty
  <1>3. \A r \in Stretches(s) : ~(r[2] < 0)
    BY StretchFacts
  <1>4. at \in [1 .. 0 -> Stretches(s)] /\ 1 \in 1 .. 0 + 1 /\ 1 .. 0 = {}
    OBVIOUS
  <1> HIDE DEF at
  <1>5. CutAt(s, 0, Start, at, 1)
    BY <1>1, <1>2, <1>3, <1>4 DEF CutAt
  <1> QED  BY <1>5

\* w has the stretches of s that end at i or before, from left to right.
Listed(s, i, w, c) ==
  /\ c \in [1 .. Len(w) -> Stretches(s)]
  /\ \A l \in 1 .. Len(w) : w[l] = SubSeq(s, c[l][1], c[l][2]) /\ c[l][1] <= i
  /\ \A l, m \in 1 .. Len(w) : l < m => c[l][1] < c[m][1]
  /\ \A r \in Stretches(s) : r[2] <= i => \E l \in 1 .. Len(w) : c[l] = r

\* A separator, or the end of the path, closes the stretch that is in ch.
LEMMA CutCloses ==
  ASSUME NEW s \in Seq(Chars), NEW i \in 0 .. Len(s), NEW st \in States,
         NEW at, NEW b, CutAt(s, i, st, at, b), i = Len(s) \/ Splitter(s[i + 1])
  PROVE  \E c : Listed(s, i, Ended(st), c)
  <1> DEFINE n == Len(st.q)
  <1>1. /\ at \in [1 .. n -> Stretches(s)] /\ b \in 1 .. i + 1
        /\ \A l \in 1 .. n : st.q[l] = SubSeq(s, at[l][1], at[l][2]) /\ at[l][1] < b
        /\ \A l, m \in 1 .. n : l < m => at[l][1] < at[m][1]
        /\ \A r \in Stretches(s) : r[2] < i => \E l \in 1 .. n : at[l] = r
        /\ st.ch = SubSeq(s, b, i) /\ \A j \in b .. i : ~Splitter(s[j])
        /\ b = 1 \/ Splitter(s[b - 1])
    BY DEF CutAt
  <1>2. /\ i \in Nat /\ Len(s) \in Nat /\ i \in b - 1 .. Len(s) /\ b \in 1 .. Len(s) + 1
        /\ st.ch \in Seq(Chars) /\ st.q \in Seq(Word) /\ n \in Nat
    BY <1>1 DEF States
  <1>3. Len(st.ch) = i - b + 1
    BY <1>1, <1>2, Part
  <1>4. \A l \in 1 .. n : at[l][1] \in 1 .. Len(s) /\ at[l][1] < b /\ at[l][1] <= i
    <2> TAKE l \in 1 .. n
    <2>1. at[l][1] \in 1 .. Len(s) /\ at[l][1] < b
      BY <1>1, StretchFacts
    <2> QED  BY <1>1, <1>2, <2>1
  <1>5. CASE st.ch = <<>>
    <2>1. Ended(st) = st.q
      BY <1>5 DEF Ended
    <2>2. b = i + 1
      <3>1. Len(st.ch) = 0
        BY <1>5
      <3> QED  BY <1>2, <1>3, <3>1
    <2>3. \A r \in Stretches(s) : r[2] <= i => r[2] < i
      <3> SUFFICES ASSUME NEW r \in Stretches(s), r[2] = i
                   PROVE  FALSE
        BY <1>2, StretchFacts
      <3>1. /\ r[1] \in 1 .. Len(s) /\ r[2] \in 1 .. Len(s) /\ r[1] <= r[2]
            /\ \A j \in r[1] .. r[2] : ~Splitter(s[j])
        BY StretchFacts
      <3>2. b # 1 /\ b - 1 \in r[1] .. r[2]
        BY <1>2, <2>2, <3>1
      <3> QED  BY <1>1, <3>1, <3>2
    <2>4. Listed(s, i, st.q, at)
      BY <1>1, <1>4, <2>3 DEF Listed
    <2> QED  BY <2>1, <2>4
  <1>6. CASE st.ch # <<>>
    <2> DEFINE w == Append(st.q, st.ch)
               c == [l \in 1 .. n + 1 |-> IF l = n + 1 THEN <<b, i>> ELSE at[l]]
    <2>1. Ended(st) = w
      BY <1>6 DEF Ended
    <2>2. b \in 1 .. i /\ i \in 1 .. Len(s) /\ i \in b .. Len(s)
      <3>1. Len(st.ch) # 0
        BY <1>2, <1>6, EmptySeq
      <3> QED  BY <1>2, <1>3, <3>1
    <2>3. <<b, i>> \in Stretches(s)
      <3>1. /\ b \in 1 .. Len(s) /\ i \in b .. Len(s) /\ \A j \in b .. i : ~Splitter(s[j])
            /\ b = 1 \/ Splitter(s[b - 1])
        BY <1>1, <1>2, <2>2
      <3>2. i = Len(s) \/ Splitter(s[i + 1])
        OBVIOUS
      <3> QED  BY <3>1, <3>2, StretchIs
    <2>4. st.ch \in Word
      BY <1>2, <1>6 DEF Word
    <2>5. /\ Len(w) = n + 1 /\ w[n + 1] = st.ch
          /\ \A l \in 1 .. n : w[l] = st.q[l]
      BY <1>2, <2>4, AppendProperties
    <2>6. /\ c \in [1 .. n + 1 -> Stretches(s)] /\ c[n + 1] = <<b, i>>
          /\ \A l \in 1 .. n : c[l] = at[l]
      <3> DEFINE pair == <<b, i>>
      <3>1. c = [l \in 1 .. n + 1 |-> IF l = n + 1 THEN pair ELSE at[l]]
        OBVIOUS
      <3>2. pair \in Stretches(s) /\ at \in [1 .. n -> Stretches(s)] /\ n \in Nat
        BY <1>1, <1>2, <2>3
      <3> HIDE DEF pair, c, n
      <3>3. \A l \in 1 .. n + 1 : l = n + 1 \/ (l \in 1 .. n /\ l # n + 1)
        BY <3>2
      <3>4. n + 1 \in 1 .. n + 1 /\ \A l \in 1 .. n : l \in 1 .. n + 1 /\ l # n + 1
        BY <3>2
      <3>5. c \in [1 .. n + 1 -> Stretches(s)]
        BY <3>1, <3>2, <3>3
      <3>6. c[n + 1] = pair /\ \A l \in 1 .. n : c[l] = at[l]
        BY <3>1, <3>4
      <3> QED  BY <3>5, <3>6 DEF pair
    <2>7. <<b, i>>[1] = b /\ <<b, i>>[2] = i
      OBVIOUS
    <2> HIDE DEF w, c
    <2>8. \A l \in 1 .. n + 1 : l = n + 1 \/ l \in 1 .. n
      <3>1. n \in Nat
        BY <1>2
      <3> HIDE DEF n
      <3> QED  BY <3>1
    <2>9. ASSUME NEW l \in 1 .. n + 1
          PROVE  w[l] = SubSeq(s, c[l][1], c[l][2]) /\ c[l][1] <= i
      <3>1. CASE l = n + 1
        <4>1. w[l] = SubSeq(s, b, i) /\ c[l][1] = b /\ c[l][2] = i
          BY <1>1, <2>5, <2>6, <2>7, <3>1, Zenon
        <4>2. b <= i
          BY <1>2, <2>2
        <4> QED  BY <4>1, <4>2, Zenon
      <3>2. CASE l \in 1 .. n
        BY <1>1, <1>4, <2>5, <2>6, <3>2
      <3> QED  BY <2>8, <3>1, <3>2
    <2>10. \A l, m \in 1 .. n + 1 : l < m => c[l][1] < c[m][1]
      <3> SUFFICES ASSUME NEW l \in 1 .. n + 1, NEW m \in 1 .. n + 1, l < m
                   PROVE  c[l][1] < c[m][1]
        OBVIOUS
      <3>1. l \in 1 .. n
        BY <1>2
      <3>2. CASE m = n + 1
        BY <1>1, <2>6, <2>7, <3>1, <3>2
      <3>3. CASE m \in 1 .. n
        BY <1>1, <2>6, <3>1, <3>3
      <3> QED  BY <2>8, <3>2, <3>3
    <2>11. ASSUME NEW r \in Stretches(s), r[2] <= i
           PROVE  \E l \in 1 .. n + 1 : c[l] = r
      <3>1. /\ r[1] \in 1 .. Len(s) /\ r[2] \in 1 .. Len(s) /\ r[1] <= r[2] /\ r = <<r[1], r[2]>>
            /\ \A j \in r[1] .. r[2] : ~Splitter(s[j])
            /\ r[1] = 1 \/ Splitter(s[r[1] - 1])
        BY StretchFacts
      <3>2. CASE r[2] < i
        <4>1. PICK l \in 1 .. n : at[l] = r
          BY <1>1, <3>2
        <4>2. l \in 1 .. n + 1
          BY <1>2
        <4> QED  BY <2>6, <4>1, <4>2
      <3>3. CASE ~(r[2] < i)
        <4>1. r[2] = i /\ r[1] \in 1 .. i
          BY <1>2, <2>11, <3>1, <3>3
        <4>2. r[1] = b
          BY <1>1, <2>2, <3>1, <4>1, SameStart
        <4>3. n + 1 \in 1 .. n + 1
          BY <1>2
        <4> QED  BY <2>6, <3>1, <4>1, <4>2, <4>3
      <3> QED  BY <3>2, <3>3
    <2>12. Listed(s, i, w, c)
      BY <2>5, <2>6, <2>9, <2>10, <2>11 DEF Listed
    <2> QED  BY <2>1, <2>12
  <1> QED  BY <1>5, <1>6

\* A round of the loop keeps to the stretches, if the names fit.
LEMMA CutGoes ==
  ASSUME NEW s \in Seq(Chars), Fits(s), NEW i \in 0 .. Len(s) - 1, NEW st \in States,
         NEW at, NEW b, CutAt(s, i, st, at, b)
  PROVE  \E c, d : CutAt(s, i + 1, SplitStep(st, s[i + 1]), c, d)
  <1> DEFINE x == s[i + 1]
             n == Len(st.q)
  <1>1. /\ at \in [1 .. n -> Stretches(s)] /\ b \in 1 .. i + 1
        /\ \A l \in 1 .. n : st.q[l] = SubSeq(s, at[l][1], at[l][2]) /\ at[l][1] < b
        /\ \A l, m \in 1 .. n : l < m => at[l][1] < at[m][1]
        /\ \A r \in Stretches(s) : r[2] < i => \E l \in 1 .. n : at[l] = r
        /\ st.ch = SubSeq(s, b, i) /\ \A j \in b .. i : ~Splitter(s[j])
        /\ b = 1 \/ Splitter(s[b - 1])
    BY DEF CutAt
  <1>2. /\ i \in Nat /\ Len(s) \in Nat /\ i + 1 \in 1 .. Len(s) /\ b \in 1 .. Len(s)
        /\ i \in b - 1 .. Len(s) - 1 /\ i \in b - 1 .. Len(s) /\ b \in 1 .. Len(s) + 1
        /\ st.ch \in Seq(Chars) /\ st.q \in Seq(Word) /\ n \in Nat
    BY <1>1 DEF States
  <1>3. Len(st.ch) = i - b + 1
    BY <1>1, <1>2, Part
  <1>4. CASE ~Splitter(x)
    <2>1. \A j \in b .. i + 1 : ~Splitter(s[j])
      BY <1>1, <1>2, <1>4
    <2>2. Len(st.ch) < NameMax
      <3>1. i + 1 \in b .. Len(s)
        BY <1>1, <1>2
      <3>2. PICK e \in i + 1 .. Len(s) : <<b, e>> \in Stretches(s)
        BY <1>1, <1>2, <2>1, <3>1, RunEnds
      <3>3. <<b, e>>[2] - <<b, e>>[1] < NameMax
        BY <3>2 DEF Fits
      <3>4. e - b < NameMax
        BY <3>3
      <3> QED  BY <1>2, <1>3, <3>2, <3>4, NameMaxAssumption
    <2> DEFINE u == [st EXCEPT !.ch = Append(@, x)]
    <2>3. SplitStep(st, x) = u
      BY <1>4, <2>2 DEF SplitStep
    <2>4. u.q = st.q /\ u.ch = Append(st.ch, x)
      BY DEF States
    <2>5. u.ch = SubSeq(s, b, i + 1)
      <3>1. b \in 1 .. Len(s) /\ i \in b - 1 .. Len(s) - 1
        BY <1>2
      <3>2. SubSeq(s, b, i + 1) = Append(SubSeq(s, b, i), s[i + 1])
        BY <3>1, PartGrows
      <3> QED  BY <1>1, <2>4, <3>2, Zenon
    <2> HIDE DEF u
    <2>6. \A r \in Stretches(s) : r[2] < i + 1 => r[2] < i
      <3> TAKE r \in Stretches(s)
      <3>1. r[2] \in 1 .. Len(s) /\ (r[2] = Len(s) \/ Splitter(s[r[2] + 1]))
        BY StretchFacts
      <3> QED  BY <1>2, <1>4, <3>1
    <2>7. b \in 1 .. (i + 1) + 1
      BY <1>1, <1>2
    <2>8. CutAt(s, i + 1, u, at, b)
      <3> HIDE DEF x
      <3> QED  BY <1>1, <2>1, <2>4, <2>5, <2>6, <2>7 DEF CutAt
    <2> QED  BY <2>3, <2>8
  <1>5. CASE Splitter(x)
    <2> DEFINE u == SplitStep(st, x)
               w == Ended(st)
               d == (i + 1) + 1
    <2>1. u.q = w /\ u.ch = <<>>
      BY <1>5 DEF SplitStep, Ended
    <2>2. PICK c : Listed(s, i, w, c)
      BY <1>2, <1>5, CutCloses
    <2> HIDE DEF w
    <2>3. /\ c \in [1 .. Len(w) -> Stretches(s)]
          /\ \A l \in 1 .. Len(w) : w[l] = SubSeq(s, c[l][1], c[l][2]) /\ c[l][1] <= i
          /\ \A l, m \in 1 .. Len(w) : l < m => c[l][1] < c[m][1]
          /\ \A r \in Stretches(s) : r[2] <= i => \E l \in 1 .. Len(w) : c[l] = r
      BY <2>2 DEF Listed
    <2>4. \A l \in 1 .. Len(w) : c[l][1] < d
      <3> TAKE l \in 1 .. Len(w)
      <3>1. c[l][1] \in 1 .. Len(s) /\ c[l][1] <= i
        BY <2>3, StretchFacts
      <3> QED  BY <1>2, <3>1
    <2>5. \A r \in Stretches(s) : r[2] < i + 1 => r[2] <= i
      BY <1>2, StretchFacts
    <2>6. SubSeq(s, d, i + 1) = <<>>
      BY <1>2, SubSeqEmpty
    <2>7. d \in 1 .. (i + 1) + 1 /\ (\A j \in d .. i + 1 : ~Splitter(s[j])) /\ Splitter(s[d - 1])
      BY <1>2, <1>5
    <2> HIDE DEF d, u
    <2>8. CutAt(s, i + 1, u, c, d)
      BY <2>1, <2>3, <2>4, <2>5, <2>6, <2>7 DEF CutAt
    <2> QED  BY <2>8 DEF u
  <1> QED  BY <1>4, <1>5

\* SplitPath returns the stretches.
LEMMA SplitNames ==
  ASSUME NEW s \in Seq(Chars), Fits(s)
  PROVE  Names(s, SplitPath(s))
  <1>1. PICK g : SplitFcn(g, s) /\ SplitPath(s) = Rooted(s, Ended(g[Len(s)]))
    BY SplitDef
  <1>2. /\ Len(s) \in Nat /\ g \in [0 .. Len(s) -> States] /\ g[0] = Start
        /\ \A i \in 1 .. Len(s) : g[i] = SplitStep(g[i - 1], s[i])
    BY <1>1 DEF SplitFcn
  <1> DEFINE T == {i \in Nat : i <= Len(s) => \E at, b : CutAt(s, i, g[i], at, b)}
  <1>3. 0 \in T
    BY <1>2, CutStarts
  <1>4. ASSUME NEW i \in Nat, i \in T
        PROVE  i + 1 \in T
    <2> SUFFICES ASSUME i + 1 <= Len(s)
                 PROVE  \E at, b : CutAt(s, i + 1, g[i + 1], at, b)
      OBVIOUS
    <2>1. /\ i \in 0 .. Len(s) - 1 /\ i \in 0 .. Len(s) /\ i + 1 \in 1 .. Len(s)
          /\ (i + 1) - 1 = i /\ i <= Len(s)
      BY <1>2
    <2>2. g[i] \in States /\ g[i + 1] = SplitStep(g[i], s[i + 1])
      BY <1>2, <2>1
    <2>3. PICK at, b : CutAt(s, i, g[i], at, b)
      BY <1>4, <2>1
    <2>4. \E c, d : CutAt(s, i + 1, SplitStep(g[i], s[i + 1]), c, d)
      BY <2>1, <2>2, <2>3, CutGoes
    <2> QED  BY <2>2, <2>4, Zenon
  <1> HIDE DEF T
  <1>5. Len(s) \in T
    BY <1>2, <1>3, <1>4, Induction
  <1> DEFINE st == g[Len(s)]
             e == Ended(st)
             w == Rooted(s, e)
  <1>6. PICK at, b : CutAt(s, Len(s), st, at, b)
    BY <1>2, <1>5 DEF T
  <1>7. st \in States /\ Len(s) \in 0 .. Len(s)
    BY <1>2
  <1>8. e \in Seq(Word)
    BY <1>7, EndTyped
  <1> HIDE DEF st
  <1>9. PICK c : Listed(s, Len(s), e, c)
    BY <1>6, <1>7, CutCloses
  <1> HIDE DEF e
  <1>10. /\ c \in [1 .. Len(e) -> Stretches(s)]
         /\ \A l \in 1 .. Len(e) : e[l] = SubSeq(s, c[l][1], c[l][2])
         /\ \A l, m \in 1 .. Len(e) : l < m => c[l][1] < c[m][1]
         /\ \A r \in Stretches(s) : r[2] <= Len(s) => \E l \in 1 .. Len(e) : c[l] = r
    BY <1>9 DEF Listed
  <1>11. DOMAIN e = 1 .. Len(e) /\ DOMAIN w = 1 .. Len(e)
    BY <1>8 DEF Rooted
  <1>12. e = [i \in 1 .. Len(e) |-> SubSeq(s, c[i][1], c[i][2])]
    <2>1. e = [i \in 1 .. Len(e) |-> e[i]]
      BY <1>8
    <2> QED  BY <1>10, <2>1
  <1>13. \A r \in Stretches(s) : r[2] <= Len(s)
    BY <1>2, StretchFacts
  <1>14. w = Rooted(s, [i \in DOMAIN w |-> SubSeq(s, c[i][1], c[i][2])])
    BY <1>11, <1>12, Zenon
  <1> HIDE DEF w
  <1>15. Names(s, w)
    BY <1>10, <1>11, <1>13, <1>14 DEF Names
  <1> QED  BY <1>1, <1>15 DEF w, e, st

\* What is met and what is left are together the whole path.
LEMMA NamesFromInv == DirInv => NamesInOrder
  <1> SUFFICES ASSUME DirInv
               PROVE  NamesInOrder
    OBVIOUS
  <1>1. DirTypeOK /\ \A p \in Procs : CallOK(p)
    BY DEF DirInv
  <1>2. ASSUME NEW p \in Procs, todo[p] \in {"access", "mkdir"}, Fits(path[p])
        PROVE  Names(path[p], temp[p] \o (IF todo[p] = "access" THEN q[p] ELSE Tail(q[p])))
    <2> DEFINE w == Whole(p)
               rest == IF todo[p] = "access" THEN q[p] ELSE Tail(q[p])
    <2>1. w \in Seq(Word) /\ Len(w) \in Nat /\ path[p] \in Seq(Chars)
      <3>1. <<>> \in Seq(Chars)
        OBVIOUS
      <3> QED  BY <1>1, <3>1, WholeTyped, PathsAssumption DEF DirTypeOK
    <2>2. \E k \in 0 .. Len(w) : temp[p] = SubSeq(w, 1, k) /\ rest = SubSeq(w, k + 1, Len(w))
      <3>1. CASE todo[p] = "access"
        BY <1>1, <3>1 DEF CallOK
      <3>2. CASE todo[p] = "mkdir"
        <4>1. PICK k \in 1 .. Len(w) :
                temp[p] = SubSeq(w, 1, k) /\ Tail(q[p]) = SubSeq(w, k + 1, Len(w))
          BY <3>2, AtPlace
        <4>2. k \in 0 .. Len(w)
          BY <2>1
        <4> QED  BY <3>2, <4>1, <4>2
      <3> QED  BY <1>2, <3>1, <3>2
    <2> HIDE DEF w, rest
    <2>3. PICK k \in 0 .. Len(w) : temp[p] = SubSeq(w, 1, k) /\ rest = SubSeq(w, k + 1, Len(w))
      BY <2>2
    <2>4. SubSeq(w, 1, k) \o SubSeq(w, k + 1, Len(w)) = w
      <3>1. 1 \in 1 .. Len(w) + 1 /\ k \in 1 - 1 .. Len(w) /\ Len(w) \in k .. Len(w)
        BY <2>1
      <3>2. SubSeq(w, 1, k) \o SubSeq(w, k + 1, Len(w)) = SubSeq(w, 1, Len(w))
        BY <2>1, <3>1, ConcatAdjacentSubSeq
      <3> QED  BY <2>1, <3>2, SubSeqFull
    <2>5. Names(path[p], w)
      BY <1>2, <2>1, SplitNames DEF w, Whole
    <2>6. temp[p] \o rest = w
      BY <2>3, <2>4
    <2>7. Names(path[p], temp[p] \o rest)
      BY <2>5, <2>6
    <2> QED  BY <2>7 DEF rest
  <1> QED  BY <1>1, <1>2 DEF NamesInOrder

\* For every path, however its separators are placed, whose names fit: SplitPath
\* finds its names, in order, and the loop of MKdirIsNotExist loses none of them
\* and looks at none twice.
THEOREM NamesKept == DirSpec => []NamesInOrder
  <1> QED  BY DirStarts, DirStep, NamesFromInv, PTL DEF DirSpec
=============================================================================
