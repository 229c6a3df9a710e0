------------------------------ MODULE MCOshNode ------------------------------
(* The whole node for TLC.  The numbers of states and event bits are those of *)
(* the source; the queues of the event loop and the timer daemon are one or   *)
(* two entries long, and Faults says what may go wrong in a run.              *)
EXTENDS OshNode
=============================================================================
