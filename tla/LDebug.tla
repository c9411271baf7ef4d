------------------------------- MODULE LDebug -------------------------------
(***************************************************************************)
(* The script debugger l_debug (project/test/lua/script/ldebug.lua): a     *)
(* table of break points, and a hook that goes from "c" (watch calls) to   *)
(* "crl" (step in the function of a break point) to "r" (wait for a call   *)
(* made there to return).                                                  *)
(*                                                                         *)
(* The script is a stack of functions that call and return at will.  The   *)
(* functions of l_debug are Lua functions themselves: they work when API   *)
(* is on top, and what they call is on the stack above it.                 *)
(***************************************************************************)
EXTENDS Integers, Sequences, FiniteSets

CONSTANTS
  Positions,    \* [sfile, nline] of break points
  Functions,    \* [what, source, begin, end]
  API,          \* the functions of l_debug, a member of Functions
  MaxBreaks,    \* bound: break points
  MaxCount,     \* bound: enable_count, on either side of 0
  MaxDepth      \* bound: functions on the stack

ASSUME LDebugAssumption ==
  /\ Positions \subseteq [sfile : STRING, nline : Nat \ {0}]
  /\ Functions \subseteq [what : STRING, source : STRING, begin : Nat, end : Nat]
  /\ API \in Functions
  /\ MaxBreaks \in Nat /\ MaxCount \in Nat /\ MaxDepth \in Nat

VARIABLES
  list,          \* index -> [pos, enable]; its length is count
  map,           \* position -> index, 0 for nil
  enable_count,
  mode,          \* "next", "step" or another word
  match,         \* [s_file, n_line, n_index]
  hook,          \* debug.gethook(): "none", "c", "crl", "r"
  stack,         \* the functions running, innermost last
  toggled        \* history: since the tables were emptied, which left no hook behind,
                 \* set_enable has only toggled

debugger == <<list, map, enable_count, mode, match, hook>>
luavars == <<debugger, stack, toggled>>

NoMatch == [s_file |-> "", n_line |-> 0, n_index |-> 0]
Top == stack[Len(stack)]

-----------------------------------------------------------------------------
(* Commands                                                                *)

InAPI == stack # <<>> /\ Top = API

\* no break point has ever been set there since init; a deleted one stays
Free(pos) == map[pos] = 0

\* A text that get_break_info cannot parse, and a position that is taken, change
\* nothing.
add_break_point(pos) ==
  /\ InAPI /\ Len(list) < MaxBreaks
  /\ Free(pos)
  /\ list' = Append(list, [pos |-> pos, enable |-> 1])
  /\ map' = [map EXCEPT ![pos] = Len(list) + 1]
  /\ enable_count' = enable_count + 1
  /\ hook' = IF enable_count + 1 > 0 /\ hook = "none" THEN "c" ELSE hook
  /\ UNCHANGED <<mode, match, stack, toggled>>

\* the same line of another file counts as well
ForgetMatch(i) == match' = IF match.n_line = list[i].pos.nline THEN NoMatch ELSE match

\* Mutant: the hook stays when the last break point goes.
LowerKeepsHook(n) ==
  /\ enable_count' = n
  /\ UNCHANGED hook

\* enable_count has become n; unhook when nothing is left
Lower(n) ==
  /\ enable_count' = IF n <= 0 /\ hook # "none" THEN 0 ELSE n
  /\ hook' = IF n <= 0 THEN "none" ELSE hook

\* the entry stays, disabled
del_break_point(i) ==
  /\ InAPI /\ i \in DOMAIN list
  /\ list' = [list EXCEPT ![i].enable = IF @ = 1 THEN 0 ELSE @]
  /\ ForgetMatch(i)
  /\ Lower(IF list[i].enable = 1 THEN enable_count - 1 ELSE enable_count)
  /\ UNCHANGED <<map, mode, stack, toggled>>

set_enable(i, e) ==
  /\ InAPI /\ i \in DOMAIN list
  /\ -MaxCount < enable_count /\ enable_count < MaxCount
  /\ list' = [list EXCEPT ![i].enable = e]
  /\ ForgetMatch(i)
  /\ \/ e = 0 /\ Lower(enable_count - 1)
     \/ /\ e # 0
        /\ enable_count' = enable_count + 1
        /\ hook' = IF enable_count + 1 > 0 /\ hook = "none" THEN "c" ELSE hook
  /\ toggled' = (toggled /\ list[i].enable # e)
  /\ UNCHANGED <<map, mode, stack>>

set_mode(smode) ==
  /\ InAPI
  /\ mode' = smode
  /\ UNCHANGED <<list, map, enable_count, match, hook, stack, toggled>>

\* Mutant: the match survives.
_initKeepsMatch ==
  /\ list' = <<>> /\ map' = [p \in Positions |-> 0] /\ enable_count' = 0
  /\ mode' = "next" /\ match' = match

_init ==
  /\ list' = <<>> /\ map' = [p \in Positions |-> 0] /\ enable_count' = 0
  /\ mode' = "next" /\ match' = NoMatch

\* the file is loaded again, or init called: the hook stays
init ==
  /\ InAPI
  /\ _init
  /\ toggled' = (hook = "none")
  /\ UNCHANGED <<hook, stack>>

release ==
  /\ InAPI
  /\ _init
  /\ hook' = "none"
  /\ toggled' = TRUE
  /\ UNCHANGED stack

Command ==
  \/ \E p \in Positions : add_break_point(p)
  \/ \E i \in DOMAIN list : del_break_point(i) \/ set_enable(i, 0) \/ set_enable(i, 1)
  \/ \E m \in {"next", "step", "other"} : set_mode(m)
  \/ init \/ release

-----------------------------------------------------------------------------
(* Hooks                                                                   *)

Inside(nline, f) == f.begin <= nline /\ nline <= f.end

\* find_index returns whichever break point of the function pairs() finds first
find_index(f) == {map[p] : p \in {q \in Positions : map[q] # 0 /\ q.sfile = f.source /\ Inside(q.nline, f)}}

\* a call under the hook "c": the function of an enabled break point is stepped
hook_c(f) ==
  \/ /\ f.what # "Lua" \/ find_index(f) = {}
     /\ UNCHANGED <<match, hook>>
  \/ /\ f.what = "Lua"
     /\ \E i \in find_index(f) :
          IF list[i].enable # 0
          THEN /\ match' = [s_file |-> f.source, n_line |-> list[i].pos.nline, n_index |-> i]
               /\ hook' = "crl"
          ELSE UNCHANGED <<match, hook>>

\* a call under "crl": stepped over with mode "next"
hook_crl_call ==
  /\ hook' = IF mode = "next" THEN "r" ELSE "crl"
  /\ mode' = "next"
  /\ UNCHANGED match

\* a return under "crl": the end of the function of the break point
hook_crl_return(f) ==
  /\ mode' = "next"
  /\ IF f.what \in {"Lua", "main"} /\ f.source = match.s_file /\ Inside(match.n_line, f)
     THEN match' = NoMatch /\ hook' = "c"
     ELSE UNCHANGED <<match, hook>>

\* a return under "r": of any Lua function, not only of the one called
hook_r(f) == hook' = IF f.what = "Lua" THEN "crl" ELSE hook

\* The script calls f.
Call(f) ==
  /\ Len(stack) < MaxDepth
  /\ stack' = Append(stack, f)
  /\ \/ hook = "c" /\ hook_c(f) /\ UNCHANGED mode
     \/ hook = "crl" /\ hook_crl_call
     \/ hook \in {"none", "r"} /\ UNCHANGED <<hook, match, mode>>
  /\ UNCHANGED <<list, map, enable_count, toggled>>

\* It comes to a new line: reported, and the mode falls back to "next".
Line ==
  /\ stack # <<>> /\ Top.what # "C" /\ hook = "crl"
  /\ mode' = "next"
  /\ UNCHANGED <<list, map, enable_count, match, hook, stack, toggled>>

\* It returns from the innermost function.
Return ==
  /\ stack # <<>>
  /\ stack' = SubSeq(stack, 1, Len(stack) - 1)
  /\ \/ hook = "crl" /\ hook_crl_return(Top)
     \/ hook = "r" /\ hook_r(Top) /\ UNCHANGED <<match, mode>>
     \/ hook \in {"none", "c"} /\ UNCHANGED <<hook, match, mode>>
  /\ UNCHANGED <<list, map, enable_count, toggled>>

-----------------------------------------------------------------------------
LuaInit ==
  /\ list = <<>> /\ map = [p \in Positions |-> 0] /\ enable_count = 0
  /\ mode = "next" /\ match = NoMatch
  /\ hook = "none"
  /\ stack = <<>>
  /\ toggled = TRUE

LuaNext == Command \/ (\E f \in Functions : Call(f)) \/ Line \/ Return

LuaSpec == LuaInit /\ [][LuaNext]_luavars

-----------------------------------------------------------------------------
(* Properties                                                              *)

Matches == [s_file : {""} \cup {f.source : f \in Functions}, n_line : Nat, n_index : Nat]
Breaks == [pos : Positions, enable : {0, 1}]

\* The type of every variable.
LDebugTypeOK ==
  /\ list \in Seq(Breaks)
  /\ map \in [Positions -> Nat]
  /\ enable_count \in Int
  /\ mode \in {"next", "step", "other"}
  /\ match \in Matches
  /\ hook \in {"none", "c", "crl", "r"}
  /\ stack \in Seq(Functions)
  /\ toggled \in BOOLEAN

\* Whatever is added, deleted and released, map and list describe the same break
\* points, and no two of them are at one position.
BreaksIndexed ==
  /\ \A i \in DOMAIN list : map[list[i].pos] = i
  /\ \A p \in Positions : map[p] # 0 => map[p] \in DOMAIN list /\ list[map[p]].pos = p

\* The function being stepped, if any, is that of a break point in the table: the three
\* parts of match are never mixed from two of them, nor left from before init or release.
MatchIsABreak ==
  match # NoMatch =>
    /\ match.n_index \in DOMAIN list
    /\ list[match.n_index].pos = [sfile |-> match.s_file, nline |-> match.n_line]

\* The tables of the debugger agree in every state that commands and hooks can
\* reach: map with list, and match with both.
TablesConsistent == LDebugTypeOK /\ BreaksIndexed /\ MatchIsABreak

\* The enabled break points.
Enabled == {i \in DOMAIN list : list[i].enable = 1}

\* As long as the caller only toggles and does not run init under a hook, enable_count is the number of enabled
\* break points and the hook is set exactly while there is one, in whatever
\* state of stepping the last one was removed.
HookedIffEnabled ==
  toggled => /\ enable_count = Cardinality(Enabled)
             /\ hook # "none" <=> Enabled # {}
=============================================================================
