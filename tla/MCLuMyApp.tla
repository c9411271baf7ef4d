----------------------------- MODULE MCLuMyApp -----------------------------
(* Small instances of LuMyApp: a frame lasts two units of the clock and a  *)
(* second three, so that ticks are missed, doubled and cut short.          *)
EXTENDS LuMyApp

SmallPeriod == [t \in Timers |-> IF t = "fps" THEN 2 ELSE 3]
=============================================================================
