------------------------------- MODULE MCTimer -------------------------------
(* Small instance of the timers: a clock of seven values, three timers.       *)
EXTENDS Timer
=============================================================================
