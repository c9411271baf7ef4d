------------------------------ MODULE LuMyApp ------------------------------
(***************************************************************************)
(* The application loop (project/app/myapp.*, with the program built on it *)
(* in project/test/app/main.cpp) and the timers it polls                   *)
(* (include/ltimer.h).                                                     *)
(*                                                                         *)
(* Time passes between any two instructions; each reading of the clock is  *)
(* a step of its own.  MaxStall bounds how long the loop may be away from  *)
(* the timer of the seconds: sleep(1), scheduling and callbacks.           *)
(***************************************************************************)
EXTENDS Integers

CONSTANTS
  Period,    \* clock units in one tick of the timers "fps" and "sec"
  Limit,     \* calls of LoopSec after which the program exits (10)
  MaxStall   \* bound: clock units from one reset of "sec" to the next

Timers == {"fps", "sec"}

ASSUME AppAssumption ==
  /\ Period \in [Timers -> Nat \ {0}]
  /\ Limit \in Nat \ {0}
  /\ MaxStall \in Nat /\ MaxStall >= Period["sec"]

VARIABLES
  now,       \* high_resolution_clock
  m_begin,   \* LUClock::m_begin of each timer
  m_pass,    \* LUTimer::m_pass
  m_ticker,  \* LUTimer::m_ticker: ticks passed and not yet delivered
  pass,      \* the local of ticking(), 0 outside it
  m_bRun,
  calls,     \* calls of LoopFps and of LoopSec (tickfps, ticksec)
  pc

vars == <<now, m_begin, m_pass, m_ticker, pass, m_bRun, calls, pc>>

-----------------------------------------------------------------------------
(* LUTimer                                                                 *)

\* LUClock::reset, the first half of initialize().
reset(t, after) ==
  /\ m_begin' = [m_begin EXCEPT ![t] = now]
  /\ pc' = after
  /\ UNCHANGED <<now, m_pass, m_ticker, pass, m_bRun, calls>>

initialize(t, after) ==
  /\ m_pass' = [m_pass EXCEPT ![t] = now]
  /\ m_ticker' = [m_ticker EXCEPT ![t] = 0]
  /\ pc' = after
  /\ UNCHANGED <<now, m_begin, pass, m_bRun, calls>>

\* Mutant: the number of ticks is rounded up.
get_passRoundsUp(t, after) ==
  /\ pass' = (now - m_pass[t] + Period[t] - 1) \div Period[t]
  /\ pc' = after
  /\ UNCHANGED <<now, m_begin, m_pass, m_ticker, m_bRun, calls>>

\* duration_cast rounds down to whole ticks.
get_pass(t, after) ==
  /\ pass' = (now - m_pass[t]) \div Period[t]
  /\ pc' = after
  /\ UNCHANGED <<now, m_begin, m_pass, m_ticker, m_bRun, calls>>

\* Mutant: one tick is not enough.
TickerOffByOne(t) ==
  IF pass > 1
  THEN /\ m_pass' = [m_pass EXCEPT ![t] = now]
       /\ m_ticker' = [m_ticker EXCEPT ![t] = @ + pass]
  ELSE UNCHANGED <<m_pass, m_ticker>>

\* Mutant: m_pass is moved whether or not a tick has passed.
TickerRestarts(t) ==
  /\ m_pass' = [m_pass EXCEPT ![t] = now]
  /\ m_ticker' = [m_ticker EXCEPT ![t] = @ + pass]

\* The first half of ticking(): m_pass is set to a second reading of the clock,
\* whatever is left of the last tick is dropped.
Ticker(t) ==
  IF pass > 0
  THEN /\ m_pass' = [m_pass EXCEPT ![t] = now]
       /\ m_ticker' = [m_ticker EXCEPT ![t] = @ + pass]
  ELSE UNCHANGED <<m_pass, m_ticker>>

\* The second half of ticking(), and the callback if it returns true.
ticking(t, callback, after) ==
  /\ Ticker(t)
  /\ pc' = IF m_ticker'[t] < 0 THEN after ELSE callback
  /\ pass' = 0
  /\ UNCHANGED <<now, m_begin, m_bRun, calls>>

-----------------------------------------------------------------------------
(* LuMyApp and App_Test                                                    *)

\* Init: App_Test overrides it and leaves the timers as they were constructed;
\* LuMyApp's own initializes both.
AppInit ==
  \/ /\ pc = "Init" /\ pc' \in {"Run", "resetSec"}
     /\ UNCHANGED <<now, m_begin, m_pass, m_ticker, pass, m_bRun, calls>>
  \/ pc = "resetSec" /\ reset("sec", "initSec")
  \/ pc = "initSec"  /\ initialize("sec", "resetFps")
  \/ pc = "resetFps" /\ reset("fps", "initFps")
  \/ pc = "initFps"  /\ initialize("fps", "Run")

Run ==
  /\ pc = "Run"
  /\ m_bRun' = TRUE
  /\ pc' = "while"
  /\ UNCHANGED <<now, m_begin, m_pass, m_ticker, pass, calls>>

\* while(m_bRun): LoopMSec does nothing, so that Loop begins with m_timerFps.
While ==
  /\ pc = "while"
  /\ pc' = IF m_bRun THEN "passFps" ELSE "done"
  /\ UNCHANGED <<now, m_begin, m_pass, m_ticker, pass, m_bRun, calls>>

\* --m_ticker, and the callback
Deliver(t) ==
  /\ m_ticker' = [m_ticker EXCEPT ![t] = @ - 1]
  /\ calls' = [calls EXCEPT ![t] = @ + 1]

LoopFps ==
  /\ pc = "LoopFps"
  /\ Deliver("fps")
  /\ pc' = "passSec"
  /\ UNCHANGED <<now, m_begin, m_pass, pass, m_bRun>>

\* ends with Exit() at the Limit-th call
LoopSec ==
  /\ pc = "LoopSec"
  /\ Deliver("sec")
  /\ m_bRun' = (calls'["sec"] < Limit)
  /\ pc' = "while"
  /\ UNCHANGED <<now, m_begin, m_pass, pass>>

\* Mutant: the seconds are polled before the frames.
LoopSecFirst ==
  \/ pc = "passFps" /\ get_pass("sec", "tickFps")
  \/ pc = "tickFps" /\ ticking("sec", "LoopSec", "passSec")
  \/ /\ pc = "LoopSec"
     /\ Deliver("sec")
     /\ m_bRun' = (calls'["sec"] < Limit)
     /\ pc' = "passSec"
     /\ UNCHANGED <<now, m_begin, m_pass, pass>>
  \/ pc = "passSec" /\ get_pass("fps", "tickSec")
  \/ pc = "tickSec" /\ ticking("fps", "LoopFps", "while")
  \/ /\ pc = "LoopFps"
     /\ Deliver("fps")
     /\ pc' = "while"
     /\ UNCHANGED <<now, m_begin, m_pass, pass, m_bRun>>

Loop ==
  \/ pc = "passFps" /\ get_pass("fps", "tickFps")
  \/ pc = "tickFps" /\ ticking("fps", "LoopFps", "passSec")
  \/ LoopFps
  \/ pc = "passSec" /\ get_pass("sec", "tickSec")
  \/ pc = "tickSec" /\ ticking("sec", "LoopSec", "while")
  \/ LoopSec

AppStep == AppInit \/ Run \/ While \/ Loop

\* The clock of the operating system.
Clock ==
  /\ pc # "done"
  /\ now - m_pass["sec"] < MaxStall
  /\ now' = now + 1
  /\ UNCHANGED <<m_begin, m_pass, m_ticker, pass, m_bRun, calls, pc>>

-----------------------------------------------------------------------------
Init ==
  /\ now = 0
  /\ m_begin = [t \in Timers |-> 0]
  /\ m_pass = [t \in Timers |-> 0]
  /\ m_ticker = [t \in Timers |-> 0]
  /\ pass = 0
  /\ m_bRun = FALSE
  /\ calls = [t \in Timers |-> 0]
  /\ pc = "Init"

Next == AppStep \/ Clock \/ (pc = "done" /\ UNCHANGED vars)

\* The loop runs on and time passes.
Spec == Init /\ [][Next]_vars /\ WF_vars(AppStep) /\ WF_vars(Clock)

-----------------------------------------------------------------------------
(* Properties                                                              *)

Pcs == {"Init", "resetSec", "initSec", "resetFps", "initFps", "Run", "while", "passFps",
        "tickFps", "LoopFps", "passSec", "tickSec", "LoopSec", "done"}

\* The type of every variable; a timer is never in debt by more than the one
\* tick that the first call of ticking() delivers for nothing.
AppTypeOK ==
  /\ now \in Nat
  /\ m_begin \in [Timers -> Nat] /\ m_pass \in [Timers -> Nat]
  /\ m_ticker \in [Timers -> Int] /\ \A t \in Timers : m_ticker[t] >= -1
  /\ pass \in Nat
  /\ m_bRun \in BOOLEAN
  /\ calls \in [Timers -> Nat]
  /\ pc \in Pcs

\* However late and unevenly the loop polls, LoopFps and LoopSec are never
\* called before their time: not counting the call for nothing at the start,
\* there has been a whole period for every call.
NeverEarly == \A t \in Timers : (calls[t] - 1) * Period[t] <= now - m_begin[t]

\* LoopSec calls Exit in the middle of Run's loop: no callback follows, and the
\* program exits at exactly the call it says.
NothingAfterExit ==
  /\ [][calls' # calls => m_bRun]_vars
  /\ [](pc = "done" => calls["sec"] = Limit)

\* The program always comes to its exit.
AppExits == <>(pc = "done")

\* ticking() drops the rest of a tick whenever it counts one, so that LoopSec,
\* which myapp.h says is called every second, falls behind the clock.  It never
\* falls behind by more than one poll for each tick: the time the timer has
\* accounted for is at most MaxStall for each tick that it has counted, and for
\* the pause that initialize() may make between its two readings of the clock.
KeepsPace ==
  m_pass["sec"] - m_begin["sec"] <= (calls["sec"] + m_ticker["sec"] + 1) * MaxStall
=============================================================================
