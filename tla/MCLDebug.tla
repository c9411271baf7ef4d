------------------------------ MODULE MCLDebug ------------------------------
(* Small instances of LDebug: a script with nested functions f and g, a C  *)
(* function, a main chunk, and a second file with the same line number.    *)
EXTENDS LDebug

F   == [what |-> "Lua",  source |-> "test",   begin |-> 1, end |-> 4]
G   == [what |-> "Lua",  source |-> "test",   begin |-> 2, end |-> 3]
Api == [what |-> "Lua",  source |-> "ldebug", begin |-> 1, end |-> 9]
C   == [what |-> "C",    source |-> "C",      begin |-> 0, end |-> 0]
M   == [what |-> "main", source |-> "test",   begin |-> 0, end |-> 9]

SmallFunctions == {F, G, Api, C, M}
SmallPositions == {[sfile |-> "test", nline |-> 2], [sfile |-> "test", nline |-> 4],
                   [sfile |-> "other", nline |-> 2]}
=============================================================================
