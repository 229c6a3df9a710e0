------------------------------ MODULE OshStatus ------------------------------
(* The status light (osh_node_status.c): a task that looks at the state of    *)
(* the event state machine about once a second, shows a new state at once and *)
(* lets the light of an unchanged state blink.  Ticks are counted in TickType *)
(* and wrap; a restart begins again from the initial state.                   *)
EXTENDS Naturals

CONSTANTS BUTT,       \* OSH_FSM_STATE_BUTT
          HZ,         \* configTICK_RATE_HZ
          TickType,   \* the number of values of TickType_t
          Late        \* ticks by which a look may be late (bound of the model)

ASSUME StatusAssumption == /\ BUTT = 5
                           /\ HZ \in Nat \ {0}
                           /\ Late \in Nat
                           /\ TickType \in Nat
                           /\ 3 * HZ + Late < TickType

States == 0 .. BUTT
Leds   == {"R", "G", "B"}

VARIABLES
    state,       \* what osh_node_fsm_get_state would return
    delay,       \* what the task sleeps before its next look
    tick,        \* xTaskGetTickCount at the last look
    last_time, last_state, led_flag,
    leds,        \* the LEDs that are on
    elapsed      \* ticks the light has been as it is, counted up to Longest

vars == << state, delay, tick, last_time, last_state, led_flag, leds, elapsed >>

Longest == 3 * HZ + Late

StatusTypeOK == /\ state \in States
                /\ delay \in {0, HZ}
                /\ tick \in 0 .. TickType - 1
                /\ last_time \in 0 .. TickType - 1
                /\ last_state \in States
                /\ led_flag \in BOOLEAN
                /\ leds \subseteq Leds
                /\ elapsed \in 0 .. 2 * HZ

(* status_rgb: yellow, blue, green, cyan, magenta, and red for no state.      *)
StatusRgb == [s \in States |-> CASE s = 0 -> {"R", "G"}
                                 [] s = 1 -> {"B"}
                                 [] s = 2 -> {"G"}
                                 [] s = 3 -> {"G", "B"}
                                 [] s = 4 -> {"R", "B"}
                                 [] s = 5 -> {"R"}]

(* osh_node_status_init; the state machine has no state yet.                  *)
StatusInit == /\ state = BUTT
              /\ delay = 0
              /\ tick \in 0 .. TickType - 1
              /\ last_time = tick
              /\ last_state = BUTT
              /\ led_flag = FALSE
              /\ leds = {}
              /\ elapsed = 0

(* osh_node_fsm_set_state, by a callback of the state machine.                *)
SetState == /\ state' \in States \ {BUTT}
            /\ UNCHANGED << delay, tick, last_time, last_state, led_flag, leds, elapsed >>

-----------------------------------------------------------------------------
(* One round of status_task; between two of them it sleeps for a second.      *)
DueWithoutWrap(now) == now > last_time + 2 * HZ                \* mutant

(* The subtraction is one of TickType_t.                                      *)
Due(now) == (now + TickType - last_time) % TickType > 2 * HZ

TurnKeepsTime(on) == /\ led_flag' = on                         \* mutant
                     /\ elapsed' = 0
                     /\ leds' = IF on THEN StatusRgb[state] ELSE {}
                     /\ UNCHANGED last_time

Turn(on) == /\ led_flag' = on
            /\ last_time' = tick'
            /\ elapsed' = 0
            /\ leds' = IF on THEN StatusRgb[state] ELSE {}

ShowNewState == /\ last_state # state
                /\ last_state' = state
                /\ Turn(TRUE)

Blink == /\ last_state = state
         /\ Due(tick')
         /\ Turn(~ led_flag)
         /\ UNCHANGED last_state

Keep(wait) == /\ last_state = state
              /\ ~ Due(tick')
              /\ elapsed' = IF elapsed + wait < Longest THEN elapsed + wait ELSE Longest
              /\ leds' = IF led_flag THEN StatusRgb[state] ELSE {}
              /\ UNCHANGED << last_time, last_state, led_flag >>

Look == \E late \in 0 .. Late :
           /\ tick' = (tick + delay + late) % TickType
           /\ ShowNewState \/ Blink \/ Keep(delay + late)
           /\ delay' = HZ
           /\ UNCHANGED state

StatusNext == SetState \/ Look

(* The task sleeps and is given the processor again.                          *)
StatusSpec == StatusInit /\ [][StatusNext]_vars /\ WF_vars(Look)

-----------------------------------------------------------------------------
(* The light of an unchanged state keeps each phase for more than two seconds *)
(* and for one round longer at most, also when the tick counter wraps.        *)
PhasesLast ==
    [][(led_flag' # led_flag /\ last_state' = last_state)
         => (\E late \in 0 .. Late :
               /\ tick' = (tick + delay + late) % TickType
               /\ elapsed + delay + late \in 2 * HZ + 1 .. Longest)]_vars

(* A state that stays is shown, and it blinks for ever (the states'           *)
(* colours, osh_node_status.c:18-31), red if the state machine never started. *)
StateBlinks ==
    \A s \in States :
       <>[](state = s) => /\ []<>(leds = StatusRgb[s])
                          /\ []<>(leds = {})
=============================================================================
