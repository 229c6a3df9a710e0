---------------------------- MODULE OshEventLatch ----------------------------
(* What the event state machine promises its clients, whatever its states and *)
(* its lists are: an event that was posted stays latched until the machine    *)
(* takes it, what it takes it takes once, and what it has taken it finishes,  *)
(* unless it gives up for good or the chip restarts.                          *)
CONSTANT Event

VARIABLES latched,  \* events posted and not taken yet
          taken,    \* events the machine has taken and not finished yet
          alive     \* FALSE once the machine has given up

latch_vars == << latched, taken, alive >>

LatchInit == /\ latched = {}
             /\ taken = {}
             /\ alive = TRUE

Post == /\ \E S \in SUBSET Event : latched' = latched \cup S
        /\ UNCHANGED << taken, alive >>

Take == /\ alive
        /\ taken = {}
        /\ taken' \in (SUBSET latched) \ {{}}
        /\ latched' = latched \ taken'
        /\ UNCHANGED alive

Finish == /\ alive
          /\ \E S \in (SUBSET taken) \ {{}} : taken' = taken \ S
          /\ UNCHANGED << latched, alive >>

GiveUp == /\ alive
          /\ alive' = FALSE
          /\ taken' = {}
          /\ UNCHANGED latched

Restart == /\ latched' = {}
           /\ taken' = {}
           /\ alive' = TRUE

LatchNext == Post \/ Take \/ Finish \/ GiveUp \/ Restart

LatchSafety == LatchInit /\ [][LatchNext]_latch_vars

(* An event taken is not left lying: it is finished or the machine gives up.  *)
LatchSpec == LatchSafety /\ WF_latch_vars(taken # {} /\ (Finish \/ GiveUp))
=============================================================================
