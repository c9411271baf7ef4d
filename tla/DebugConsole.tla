---------------------------- MODULE DebugConsole ----------------------------
(***************************************************************************)
(* The console half of the Lua remote debug server                         *)
(* (project/test/lua/debugserver/debugserver.cpp): a thread reads command  *)
(* lines from std::cin and hands them one by one to the script, through    *)
(* m_qConsole; StopConsole ends it by putting a line "q" back into the     *)
(* stream it is blocked on.                                                *)
(*                                                                         *)
(* Lines are sequences of the marks "c" (any command) and "q"; "nl" ends a *)
(* line.  The user types whole lines.  Every std::cin operation is taken   *)
(* to be atomic and every putback to succeed, as the code relies on.       *)
(***************************************************************************)
EXTENDS SeqFilter

CONSTANTS
  Lines,      \* the lines the user types
  MaxLines,   \* bound: lines typed in a behaviour
  MaxStops    \* bound: calls of StopConsole that find a thread to stop

ASSUME ConsoleAssumption ==
  /\ Lines \subseteq Seq({"c", "q"})
  /\ MaxLines \in Nat /\ MaxStops \in Nat

VARIABLES
  stdin,            \* unread characters of std::cin
  m_qConsole,       \* lines for the script
  m_ThreadConsole,  \* joinable()?
  line,             \* szMessage: what getline has read of the current line
  con,              \* where the console thread is
  main,             \* where the script's thread is
  stops,            \* calls of StopConsole so far
  typed, handed        \* history: the lines typed, the lines given to the script

consoleVars == <<stdin, m_qConsole, m_ThreadConsole, line, con, main, stops, typed, handed>>

ConPC  == {"none", "getline", "line", "push", "wait", "done"}
StopPC == {"idle", "putback1", "putback2", "putback3", "putback4", "drain", "join"}

-----------------------------------------------------------------------------
(* The console thread                                                      *)

StartConsole ==
  /\ main = "idle"
  /\ ~m_ThreadConsole
  /\ m_ThreadConsole' = TRUE
  /\ con' = "getline"
  /\ line' = <<>>
  /\ UNCHANGED <<stdin, m_qConsole, main, stops, typed, handed>>

\* getline consumes the stream as it comes, up to a newline.
GetLine ==
  /\ con = "getline"
  /\ stdin # <<>>
  /\ stdin' = Tail(stdin)
  /\ IF Head(stdin) = "nl"
     THEN con' = "line" /\ UNCHANGED line
     ELSE line' = Append(line, Head(stdin)) /\ UNCHANGED con
  /\ UNCHANGED <<m_qConsole, m_ThreadConsole, main, stops, typed, handed>>

\* An empty line is skipped, the line "q" ends the thread.
TestLine ==
  /\ con = "line"
  /\ con' = IF line = <<>> THEN "wait" ELSE IF line = <<"q">> THEN "done" ELSE "push"
  /\ UNCHANGED <<stdin, m_qConsole, m_ThreadConsole, line, main, stops, typed, handed>>

PushLine ==
  /\ con = "push"
  /\ m_qConsole' = Append(m_qConsole, line)
  /\ con' = "wait"
  /\ UNCHANGED <<stdin, m_ThreadConsole, line, main, stops, typed, handed>>

\* Mutant: the thread does not wait until the line is handled.
WaitHandledMissing ==
  /\ con = "wait"
  /\ con' = "getline"
  /\ line' = <<>>
  /\ UNCHANGED <<stdin, m_qConsole, m_ThreadConsole, main, stops, typed, handed>>

WaitHandled ==
  /\ con = "wait"
  /\ m_qConsole = <<>>
  /\ con' = "getline"
  /\ line' = <<>>
  /\ UNCHANGED <<stdin, m_qConsole, m_ThreadConsole, main, stops, typed, handed>>

ConsoleStep == GetLine \/ TestLine \/ PushLine \/ WaitHandled

-----------------------------------------------------------------------------
(* The script's thread                                                     *)

\* Mutant: the command is read but stays in the queue.
ReadCmdNoPop ==
  /\ main = "idle"
  /\ m_qConsole # <<>>
  /\ handed' = Append(handed, Head(m_qConsole))
  /\ UNCHANGED <<stdin, m_qConsole, m_ThreadConsole, line, con, main, stops, typed>>

ReadCmd ==
  /\ main = "idle"
  /\ m_qConsole # <<>>
  /\ handed' = Append(handed, Head(m_qConsole))
  /\ m_qConsole' = Tail(m_qConsole)
  /\ UNCHANGED <<stdin, m_ThreadConsole, line, con, main, stops, typed>>

StopConsole ==
  /\ main = "idle"
  /\ m_ThreadConsole
  /\ stops < MaxStops
  /\ stops' = stops + 1
  /\ main' = "putback1"
  /\ UNCHANGED <<stdin, m_qConsole, m_ThreadConsole, line, con, typed, handed>>

\* std::cin.putback(ch), one of four in a row
Putback(here, ch, next) ==
  /\ main = here
  /\ stdin' = <<ch>> \o stdin
  /\ main' = next
  /\ UNCHANGED <<m_qConsole, m_ThreadConsole, line, con, stops, typed, handed>>

\* Mutant: the queue is not emptied.
DrainMissing ==
  /\ main = "drain"
  /\ main' = "join"
  /\ UNCHANGED <<stdin, m_qConsole, m_ThreadConsole, line, con, stops, typed, handed>>

\* empties m_qConsole, one line at a time
Drain ==
  /\ main = "drain"
  /\ IF m_qConsole # <<>>
     THEN m_qConsole' = Tail(m_qConsole) /\ UNCHANGED main
     ELSE main' = "join" /\ UNCHANGED m_qConsole
  /\ UNCHANGED <<stdin, m_ThreadConsole, line, con, stops, typed, handed>>

JoinConsole ==
  /\ main = "join"
  /\ con = "done"
  /\ m_ThreadConsole' = FALSE
  /\ con' = "none"
  /\ main' = "idle"
  /\ UNCHANGED <<stdin, m_qConsole, line, stops, typed, handed>>

StopStep ==
  \/ Putback("putback1", "q", "putback2") \/ Putback("putback2", "nl", "putback3")
  \/ Putback("putback3", "q", "putback4") \/ Putback("putback4", "nl", "drain")
  \/ Drain \/ JoinConsole

-----------------------------------------------------------------------------
Type(l) ==
  /\ Len(typed) < MaxLines
  /\ stdin' = stdin \o Append(l, "nl")
  /\ typed' = Append(typed, l)
  /\ UNCHANGED <<m_qConsole, m_ThreadConsole, line, con, main, stops, handed>>

ConsoleInit ==
  /\ stdin = <<>>
  /\ m_qConsole = <<>>
  /\ m_ThreadConsole = FALSE
  /\ line = <<>>
  /\ con = "none"
  /\ main = "idle"
  /\ stops = 0
  /\ typed = <<>> /\ handed = <<>>

ConsoleNext ==
  \/ StartConsole \/ ReadCmd \/ StopConsole \/ StopStep
  \/ ConsoleStep
  \/ \E l \in Lines : Type(l)

\* The console thread and a StopConsole in progress keep running; the user and
\* the script owe nothing.
ConsoleSpec ==
  /\ ConsoleInit /\ [][ConsoleNext]_consoleVars
  /\ WF_consoleVars(ConsoleStep) /\ WF_consoleVars(StopStep)

-----------------------------------------------------------------------------
(* Properties                                                              *)

Chars == {"c", "q", "nl"}

\* The type of every variable.
ConsoleTypeOK ==
  /\ stdin \in Seq(Chars) /\ line \in Seq({"c", "q"})
  /\ m_qConsole \in Seq(Seq({"c", "q"}))
  /\ m_ThreadConsole \in BOOLEAN
  /\ con \in ConPC /\ main \in StopPC
  /\ stops \in Nat
  /\ typed \in Seq(Seq({"c", "q"})) /\ handed \in Seq(Seq({"c", "q"}))

\* A line is handled before the next one is read: m_qConsole is empty unless
\* the console thread waits for its line to be handled, over any number of
\* sessions.  Hence a push never meets one of the unlocked pops of StopConsole.
OneLineAtATime ==
  /\ con # "wait" => m_qConsole = <<>>
  /\ Len(m_qConsole) <= 1

\* The lines a user typed, without the empty ones and up to the first "q".
Wanted(ls) ==
  LET n == CHOOSE k \in 0 .. Len(ls) :
             /\ \A i \in 1 .. k : ls[i] # <<"q">>
             /\ k < Len(ls) => ls[k + 1] = <<"q">>
  IN  Only(SubSeq(ls, 1, n), Lines \ {<<>>})

\* Until StopConsole is first called, the script gets the lines the user typed
\* before "q", in the order they were typed, each once and unchanged.
LinesArriveAsTyped ==
  stops = 0 =>
    \E n \in 0 .. Len(typed) : handed = SubSeq(Wanted(typed), 1, n)

\* The four characters are back in the stream before the console thread reads
\* again, and it has no line in hand.
PutbackInTime ==
  /\ main = "drain"
  /\ Len(stdin) >= 4 /\ SubSeq(stdin, 1, 4) = <<"nl", "q", "nl", "q">>
  /\ con = "wait" \/ (con = "getline" /\ line = <<>>)

\* StopConsole returns, whether or not the script has taken the last line and
\* whatever the user types, if its putbacks come between two lines.  Otherwise
\* it need not: a line the thread holds while the queue is emptied is pushed
\* after that and keeps it waiting for a reader, and characters put back into
\* the middle of a line, or read while the next ones are put back before them,
\* make up another line than "q".
StopEnds == PutbackInTime ~> main = "idle"
=============================================================================
