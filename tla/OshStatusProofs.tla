---------------------------- MODULE OshStatusProofs ----------------------------
(* Proofs about the status light, for every tick rate, every width of the     *)
(* tick counter that holds more than the longest phase, and every lateness.   *)
EXTENDS OshStatus, TLAPS

(* The remainders that occur here: of a count that has not wrapped,           *)
LEMMA NoWrap ==
  ASSUME NEW T \in Nat, NEW x \in Nat, x < T
  PROVE  x % T = x
  OBVIOUS

(* and of one that has wrapped once.                                          *)
LEMMA OneWrap ==
  ASSUME NEW T \in Nat, NEW x \in Nat, T <= x, x < 2 * T
  PROVE  x % T = x - T
  OBVIOUS

(* A tick counter that was at last, e ticks ago, stands at now.               *)
Past(last, e, now) == now = last + e \/ now + TickType = last + e

(* The subtraction of TickType_t measures what has passed, whether the        *)
(* counter has wrapped or not.                                                *)
LEMMA SubtractionMeasures ==
  ASSUME NEW last \in 0 .. TickType - 1, NEW now \in 0 .. TickType - 1,
         NEW e \in Nat, e < TickType, Past(last, e, now)
  PROVE  (now + TickType - last) % TickType = e
<1> USE StatusAssumption
<1>1. CASE now = last + e
  <2>1. now + TickType - last = e + TickType
    BY <1>1
  <2>2. (e + TickType) % TickType = (e + TickType) - TickType
    BY OneWrap
  <2> QED  BY <2>1, <2>2
<1>2. CASE now + TickType = last + e
  <2>1. now + TickType - last = e
    BY <1>2
  <2> QED  BY <2>1, NoWrap
<1> QED  BY <1>1, <1>2 DEF Past

(* It goes on doing so over a sleep, as long as less than a round passes.     *)
LEMMA PastGoesOn ==
  ASSUME NEW last \in 0 .. TickType - 1, NEW now \in 0 .. TickType - 1,
         NEW e \in Nat, NEW w \in Nat, e + w < TickType, Past(last, e, now)
  PROVE  /\ (now + w) % TickType \in 0 .. TickType - 1
         /\ Past(last, e + w, (now + w) % TickType)
<1> USE StatusAssumption
<1>1. CASE now + w < TickType
  <2>1. (now + w) % TickType = now + w
    BY <1>1, NoWrap
  <2> QED  BY <1>1, <2>1 DEF Past
<1>2. CASE now + w >= TickType
  <2>1. now + w \in Nat /\ TickType <= now + w /\ now + w < 2 * TickType
    BY <1>2
  <2>2. (now + w) % TickType = (now + w) - TickType
    BY <2>1, OneWrap
  <2> QED  BY <2>1, <2>2 DEF Past
<1> QED  BY <1>1, <1>2

-----------------------------------------------------------------------------
(* The invariant behind the phases: last_time is where the counter was when   *)
(* the light last turned.                                                     *)
PhaseInv == StatusTypeOK /\ Past(last_time, elapsed, tick)

(* The time a look falls on, after its sleep.                                 *)
LEMMA LookTime ==
  ASSUME PhaseInv, NEW late \in 0 .. Late,
         tick' = (tick + delay + late) % TickType
  PROVE  /\ delay + late \in 0 .. HZ + Late
         /\ elapsed + delay + late \in 0 .. Longest
         /\ tick' \in 0 .. TickType - 1
         /\ Past(last_time, elapsed + delay + late, tick')
         /\ Due(tick') <=> elapsed + delay + late > 2 * HZ
<1> USE StatusAssumption
<1>1. /\ delay + late \in 0 .. HZ + Late /\ elapsed \in 0 .. 2 * HZ
      /\ tick \in 0 .. TickType - 1 /\ last_time \in 0 .. TickType - 1
  BY DEF PhaseInv, StatusTypeOK
<1>2. elapsed + delay + late \in 0 .. Longest /\ Longest < TickType
  BY <1>1 DEF PhaseInv, StatusTypeOK, Longest
<1> DEFINE w == delay + late
<1>3. /\ w \in Nat /\ elapsed \in Nat /\ elapsed + w < TickType
      /\ tick + delay + late = tick + w /\ elapsed + delay + late = elapsed + w
  BY <1>1, <1>2 DEF PhaseInv, StatusTypeOK, Longest
<1> HIDE DEF w
<1>4. /\ (tick + w) % TickType \in 0 .. TickType - 1
      /\ Past(last_time, elapsed + w, (tick + w) % TickType)
  BY <1>1, <1>3, PastGoesOn DEF PhaseInv
<1>5. /\ tick' \in 0 .. TickType - 1 /\ Past(last_time, elapsed + w, tick')
      /\ elapsed + w \in Nat
  BY <1>3, <1>4
<1>6. (tick' + TickType - last_time) % TickType = elapsed + w
  BY <1>1, <1>3, <1>5, SubtractionMeasures
<1> QED  BY <1>1, <1>2, <1>3, <1>5, <1>6 DEF Due

(* The light turns only when its phase is over.                               *)
LEMMA TurnsWhenDue ==
  ASSUME PhaseInv, Look, led_flag' # led_flag, last_state' = last_state
  PROVE  \E late \in 0 .. Late :
            /\ tick' = (tick + delay + late) % TickType
            /\ elapsed + delay + late \in 2 * HZ + 1 .. Longest
<1>1. PICK late \in 0 .. Late :
         /\ tick' = (tick + delay + late) % TickType
         /\ ShowNewState \/ Blink \/ Keep(delay + late)
  BY DEF Look
<1>2. Due(tick')
  BY <1>1 DEF ShowNewState, Blink, Keep
<1>3. /\ elapsed + delay + late \in 0 .. Longest
      /\ elapsed + delay + late > 2 * HZ
  BY <1>1, <1>2, LookTime
<1>4. elapsed + delay + late \in 2 * HZ + 1 .. Longest
  BY <1>3, StatusAssumption DEF Longest
<1> QED  BY <1>1, <1>4

-----------------------------------------------------------------------------
(* The lights of a state.                                                     *)
LEMMA RgbType == \A s \in States : StatusRgb[s] \subseteq Leds
<1> SUFFICES ASSUME NEW s \in States PROVE StatusRgb[s] \subseteq Leds
  OBVIOUS
<1>1. s = 0 \/ s = 1 \/ s = 2 \/ s = 3 \/ s = 4 \/ s = 5
  BY StatusAssumption DEF States
<1> QED  BY <1>1 DEF StatusRgb, Leds

(* The phases are told right when the light is initialised,                   *)
LEMMA PhaseInit == StatusInit => PhaseInv
<1> SUFFICES ASSUME StatusInit PROVE PhaseInv
  OBVIOUS
<1>1. StatusTypeOK
  <2>1. BUTT \in States /\ 0 \in 0 .. 2 * HZ /\ {} \subseteq Leds
    BY StatusAssumption DEF States
  <2> QED  BY <2>1 DEF StatusInit, StatusTypeOK
<1>2. tick = last_time + elapsed
  BY StatusAssumption DEF StatusInit
<1> QED  BY <1>1, <1>2 DEF PhaseInv, Past

(* after each look,                                                           *)
LEMMA PhaseLook == PhaseInv /\ Look => PhaseInv'
<1> SUFFICES ASSUME PhaseInv, Look PROVE PhaseInv'
  OBVIOUS
<1> USE StatusAssumption
<1>1. PICK late \in 0 .. Late :
         /\ tick' = (tick + delay + late) % TickType
         /\ ShowNewState \/ Blink \/ Keep(delay + late)
         /\ delay' = HZ
         /\ UNCHANGED state
  BY DEF Look
<1>2. /\ delay + late \in 0 .. HZ + Late
      /\ elapsed + delay + late \in 0 .. Longest
      /\ tick' \in 0 .. TickType - 1
      /\ Past(last_time, elapsed + delay + late, tick')
      /\ Due(tick') <=> elapsed + delay + late > 2 * HZ
  BY <1>1, LookTime
<1>3. /\ state' \in States /\ delay' \in {0, HZ}
      /\ StatusRgb[state] \subseteq Leds
  BY <1>1, RgbType DEF PhaseInv, StatusTypeOK
<1>4. CASE ShowNewState \/ Blink
  <2>1. /\ last_time' = tick' /\ elapsed' = 0 /\ led_flag' \in BOOLEAN
        /\ leds' \subseteq Leds /\ last_state' \in States
    BY <1>3, <1>4 DEF ShowNewState, Blink, Turn, PhaseInv, StatusTypeOK
  <2>2. Past(last_time', elapsed', tick')
    <3>1. \A t \in 0 .. TickType - 1 : t = t + 0
      OBVIOUS
    <3> QED  BY <1>2, <2>1, <3>1 DEF Past
  <2>3. elapsed' \in 0 .. 2 * HZ
    BY <2>1
  <2> QED  BY <1>2, <1>3, <2>1, <2>2, <2>3 DEF PhaseInv, StatusTypeOK, Past
<1>5. CASE Keep(delay + late)
  <2>1. ~ Due(tick') /\ UNCHANGED << last_time, last_state, led_flag >>
    BY <1>5 DEF Keep
  <2>2. /\ elapsed + delay + late \in 0 .. 2 * HZ
        /\ elapsed + (delay + late) = elapsed + delay + late
        /\ elapsed + (delay + late) < Longest
    BY <1>2, <2>1 DEF Longest, PhaseInv, StatusTypeOK
  <2>3. elapsed' = elapsed + delay + late
    BY <1>5, <2>2 DEF Keep
  <2>4. leds' \subseteq Leds
    BY <1>3, <1>5 DEF Keep
  <2> QED  BY <1>2, <1>3, <2>1, <2>2, <2>3, <2>4 DEF PhaseInv, StatusTypeOK, Past
<1> QED  BY <1>1, <1>4, <1>5

(* and when the state machine changes its state.                              *)
LEMMA PhaseStep == PhaseInv /\ [StatusNext]_vars => PhaseInv'
<1>1. PhaseInv /\ SetState => PhaseInv'
  BY DEF SetState, PhaseInv, StatusTypeOK, Past
<1>2. PhaseInv /\ UNCHANGED vars => PhaseInv'
  BY DEF vars, PhaseInv, StatusTypeOK, Past
<1> QED  BY <1>1, <1>2, PhaseLook DEF StatusNext

(* status_task always knows how long the light has been as it is.             *)
THEOREM PhaseInvariant == StatusSpec => []PhaseInv
  BY PhaseInit, PhaseStep, PTL DEF StatusSpec

(* The state, the light and its times are always what they are declared as,   *)
(* and no phase outlasts two seconds unnoticed.                               *)
THEOREM StatusTypeCorrect == StatusSpec => []StatusTypeOK
<1>1. PhaseInv => StatusTypeOK
  BY DEF PhaseInv
<1> QED  BY <1>1, PhaseInvariant, PTL

(* Whatever the tick counter stands at, the light of an unchanged state keeps *)
(* each phase for more than two seconds and for one late round more at most.  *)
THEOREM PhasesLastLongEnough == StatusSpec => PhasesLast
<1>1. PhaseInv /\ [StatusNext]_vars =>
        [(led_flag' # led_flag /\ last_state' = last_state)
           => (\E late \in 0 .. Late :
                 /\ tick' = (tick + delay + late) % TickType
                 /\ elapsed + delay + late \in 2 * HZ + 1 .. Longest)]_vars
  <2>1. SetState => led_flag' = led_flag
    BY DEF SetState
  <2> QED  BY <2>1, TurnsWhenDue DEF StatusNext
<1> QED  BY <1>1, PhaseInvariant, PTL DEF StatusSpec, PhasesLast
=============================================================================
