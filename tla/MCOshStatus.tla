----------------------------- MODULE MCOshStatus -----------------------------
(* The status light for TLC: three ticks a second, a counter that wraps after *)
(* 32 of them, and a task that may be one tick late.                          *)
EXTENDS OshStatus
=============================================================================
