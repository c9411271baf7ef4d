--------------------------- MODULE MCDebugConsole ---------------------------
(* A small instance of DebugConsole: a command, a longer command, the      *)
(* quitting line and the empty line.                                       *)
EXTENDS DebugConsole

UserLines == {<<"c">>, <<"c", "c">>, <<"q">>, <<>>}
=============================================================================
