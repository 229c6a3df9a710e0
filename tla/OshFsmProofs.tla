----------------------------- MODULE OshFsmProofs -----------------------------
(* Proofs about the event state machine, for any number of states, any width  *)
(* of the event group, any masks and any callbacks.                           *)
EXTENDS OshFsm, WellFoundedInduction, TLAPS

(* Where the task is says whether a callback is running, and that none has    *)
(* run before the wait is over.                                               *)
RunningInv == /\ task = "wait" => step.handled = {}
              /\ task \in {"none", "loop", "wait", "dispatch"} => step.running = NULL
              /\ task = "callback" => step.running # NULL

(* The inductive invariant.  OrthogonalEvents is inductive given the types.   *)
(* StepAccounts needs RunningInv, to know that what BeginCallback overwrites  *)
(* in step.running is NULL, and the fact that lists only grow before the task *)
(* exists, which is the guard Registering of every registration.              *)
FsmInv == FsmTypeOK /\ OrthogonalEvents /\ RunningInv /\ StepAccounts

-----------------------------------------------------------------------------
(* What the conversion to EventBits_t leaves are bits of the event group.     *)
LEMMA EventBitsType == ASSUME NEW mask PROVE EventBits(mask) \in SUBSET Bits
  BY DEF EventBits

(* The locals of a step that has not begun.                                   *)
LEMMA NoStepType == NoStep \in Step
  BY FsmAssumption DEF NoStep, Step, States

(* The bits of a list with one event more.                                    *)
LEMMA BitsOfUnion == ASSUME NEW E, NEW e
                     PROVE  BitsOf(E \cup {e}) = BitsOf(E) \cup e.bits
<1>1. ASSUME NEW b PROVE b \in BitsOf(E \cup {e}) <=> b \in BitsOf(E) \cup e.bits
  BY DEF BitsOf
<1> QED  BY <1>1

(* A list without events has no bits.                                         *)
LEMMA BitsOfEmpty == BitsOf({}) = {}
  BY DEF BitsOf

(* A bit of a list is a bit of one of its events.                             *)
LEMMA BitsOfMember == ASSUME NEW E, NEW b
                      PROVE  b \in BitsOf(E) <=> \E e \in E : b \in e.bits
  BY DEF BitsOf

(* Before anything runs the invariant holds.                                  *)
LEMMA FsmInvInit == FsmInitial => FsmInv
<1> SUFFICES ASSUME FsmInitial PROVE FsmInv
  OBVIOUS
<1> USE DEF FsmInitial, PoweredOff
<1>1. FsmTypeOK
  BY NoStepType DEF FsmTypeOK, TaskPlaces
<1>2. OrthogonalEvents
  BY BitsOfEmpty DEF OrthogonalEvents
<1>3. RunningInv
  BY DEF RunningInv, NoStep
<1>4. StepAccounts
  BY DEF StepAccounts
<1> QED  BY <1>1, <1>2, <1>3, <1>4 DEF FsmInv

(* A restart brings the initial state back.                                   *)
LEMMA RebootInv == FsmReboot => FsmInv'
<1> SUFFICES ASSUME FsmReboot PROVE FsmInv'
  OBVIOUS
<1> USE DEF FsmReboot
<1>1. FsmTypeOK'
  BY NoStepType DEF FsmTypeOK, TaskPlaces
<1>2. OrthogonalEvents'
  BY BitsOfEmpty DEF OrthogonalEvents
<1>3. RunningInv'
  BY DEF RunningInv, NoStep
<1>4. StepAccounts'
  BY DEF StepAccounts
<1> QED  BY <1>1, <1>2, <1>3, <1>4 DEF FsmInv

-----------------------------------------------------------------------------
(* A registration keeps the types and the orthogonality of the lists.         *)
LEMMA RegisterInv ==
  ASSUME NEW s \in States, NEW bits \in SUBSET Bits,
         NEW callback \in Callbacks \cup {NULL},
         FsmInv, RegisterNewEvent(s, bits, callback)
  PROVE  FsmInv'
<1> DEFINE new == [bits |-> bits, callback |-> callback]
<1> USE DEF FsmInv, RegisterNewEvent, Registering
<1>0. new \in Event /\ new.bits = bits
  BY DEF Event
<1>1. FsmTypeOK'
  BY <1>0 DEF FsmTypeOK
<1>2. OrthogonalEvents'
  <2>1. /\ events_list' = [events_list EXCEPT ![s] = @ \cup {new}]
        /\ group_bits' = [group_bits EXCEPT ![s] = @ \cup bits]
    OBVIOUS
  <2> HIDE DEF new, RegisterNewEvent
  <2> SUFFICES ASSUME NEW t \in States
               PROVE  /\ group_bits'[t] = BitsOf(events_list'[t])
                      /\ \A e, f \in events_list'[t] :
                            e.bits = f.bits \/ e.bits \cap f.bits # {} => e = f
    BY DEF OrthogonalEvents
  <2>2. CASE t # s
    BY <2>1, <2>2 DEF OrthogonalEvents, FsmTypeOK
  <2>3. CASE t = s
    <3>1. /\ events_list'[t] = events_list[s] \cup {new}
          /\ group_bits'[t] = group_bits[s] \cup bits
      BY <2>1, <2>3 DEF FsmTypeOK
    <3>2. group_bits[s] = BitsOf(events_list[s])
      BY DEF OrthogonalEvents
    <3>3. BitsOf(events_list[s] \cup {new}) = BitsOf(events_list[s]) \cup bits
      BY <1>0, BitsOfUnion
    <3>4. \A e \in events_list[s] : e.bits # bits /\ e.bits \cap bits = {}
      BY <3>2, BitsOfMember DEF RegisterNewEvent, Listed, Orthogonal
    <3>5. \A e, f \in events_list[s] :
             e.bits = f.bits \/ e.bits \cap f.bits # {} => e = f
      BY DEF OrthogonalEvents
    <3>6. ASSUME NEW e \in events_list[s] \cup {new},
                 NEW f \in events_list[s] \cup {new},
                 e.bits = f.bits \/ e.bits \cap f.bits # {}
          PROVE  e = f
      <4>1. CASE e \in events_list[s] /\ f \in events_list[s]
        BY <3>5, <3>6, <4>1
      <4>2. CASE e = new \/ f = new
        BY <1>0, <3>4, <3>6, <4>2
      <4> QED  BY <4>1, <4>2
    <3>7. group_bits'[t] = BitsOf(events_list'[t])
      BY <3>1, <3>2, <3>3
    <3>8. \A e, f \in events_list'[t] :
             e.bits = f.bits \/ e.bits \cap f.bits # {} => e = f
      BY <3>1, <3>6
    <3> QED  BY <3>7, <3>8
  <2> QED  BY <2>2, <2>3
<1>3. RunningInv'
  BY DEF RunningInv
<1>4. StepAccounts'
  BY DEF StepAccounts
<1> QED  BY <1>1, <1>2, <1>3, <1>4

(* A registration that fails, or is lost, changes no event.                   *)
LEMMA RegisterNothingInv ==
  ASSUME NEW s \in States, NEW bits \in SUBSET Bits, FsmInv,
         RegisterNoMemory(s) \/ RegisterMissed(s, bits)
  PROVE  FsmInv'
<1> USE DEF FsmInv, RegisterNoMemory, RegisterMissed, Registering
<1>1. FsmTypeOK'
  BY DEF FsmTypeOK
<1>2. OrthogonalEvents'
  BY DEF OrthogonalEvents
<1>3. RunningInv'
  BY DEF RunningInv
<1>4. StepAccounts'
  BY DEF StepAccounts
<1> QED  BY <1>1, <1>2, <1>3, <1>4

(* Latching bits disturbs neither the lists nor the step in progress.         *)
LEMMA PostInv ==
  ASSUME FsmInv, event_bits' \subseteq Bits, deferred' \subseteq SUBSET Bits,
         UNCHANGED << lists, current_state, task, step >>
  PROVE  FsmInv'
<1> USE DEF FsmInv, lists
<1>1. FsmTypeOK'
  BY DEF FsmTypeOK
<1>2. OrthogonalEvents'
  BY DEF OrthogonalEvents
<1>3. RunningInv'
  BY DEF RunningInv
<1>4. StepAccounts'
  BY DEF StepAccounts, RunningEvents, Matched
<1> QED  BY <1>1, <1>2, <1>3, <1>4

-----------------------------------------------------------------------------
(* The steps of the task that runs loop_step leave the lists alone, so        *)
(* OrthogonalEvents is not at stake.                                          *)
LEMMA OrthogonalUnchanged == OrthogonalEvents /\ UNCHANGED lists => OrthogonalEvents'
  BY DEF OrthogonalEvents, lists

(* wifi_task starts.                                                          *)
LEMMA StartInv ==
  ASSUME NEW s \in States, NEW mask \in Masks, FsmInv, StartLoop(s, mask)
  PROVE  FsmInv'
<1> USE DEF FsmInv, StartLoop, lists
<1>1. FsmTypeOK'
  BY EventBitsType DEF FsmTypeOK, SetState, TaskPlaces
<1>2. OrthogonalEvents'
  BY OrthogonalUnchanged
<1>3. RunningInv'
  BY DEF RunningInv
<1>4. StepAccounts'
  BY DEF StepAccounts
<1> QED  BY <1>1, <1>2, <1>3, <1>4

(* loop_step looks the current state up.                                      *)
LEMMA EnterInv ==
  ASSUME FsmInv, EnterUnknownState \/ EnterStateWithoutEvents \/ EnterState
  PROVE  FsmInv'
<1> USE DEF FsmInv, EnterUnknownState, EnterStateWithoutEvents, EnterState, lists
<1>1. FsmTypeOK'
  <2>1. current_state \in States => [NoStep EXCEPT !.state = current_state] \in Step
    BY NoStepType DEF Step
  <2> QED  BY <2>1 DEF FsmTypeOK, TaskPlaces
<1>2. OrthogonalEvents'
  BY OrthogonalUnchanged
<1>3. RunningInv'
  BY DEF RunningInv, NoStep
<1>4. StepAccounts'
  BY DEF StepAccounts
<1> QED  BY <1>1, <1>2, <1>3, <1>4

(* The events a set of bits matches are listed.                               *)
LEMMA MatchedType ==
  ASSUME FsmTypeOK, NEW s \in States, NEW bits \in SUBSET Bits
  PROVE  Matched(s, bits) \in SUBSET Event
  BY DEF Matched, FsmTypeOK

(* xEventGroupWaitBits returns: all matched events are still to run.          *)
LEMMA WaitBitsInv == FsmInv /\ WaitBits => FsmInv'
<1> SUFFICES ASSUME FsmInv, WaitBits PROVE FsmInv'
  OBVIOUS
<1> USE DEF FsmInv, WaitBits, lists
<1>0. step \in Step /\ step.state \in States /\ step.running = NULL
     /\ step.handled = {}
  BY DEF FsmTypeOK, RunningInv, Step
<1>1. step' \in Step /\ step'.running = NULL /\ step'.state = step.state
      /\ step'.bits = event_bits /\ step'.todo = Matched(step.state, event_bits)
      /\ step'.handled = {}
  BY <1>0, MatchedType DEF FsmTypeOK, Step
<1>2. FsmTypeOK'
  BY <1>1 DEF FsmTypeOK, TaskPlaces
<1>3. OrthogonalEvents'
  BY OrthogonalUnchanged
<1>4. RunningInv'
  BY <1>1 DEF RunningInv
<1>5. StepAccounts'
  BY <1>1 DEF StepAccounts, RunningEvents, Matched
<1> QED  BY <1>2, <1>3, <1>4, <1>5

(* The next callback begins: its event moves from todo to running.            *)
LEMMA BeginCallbackInv == FsmInv /\ BeginCallback => FsmInv'
<1> SUFFICES ASSUME FsmInv, BeginCallback PROVE FsmInv'
  OBVIOUS
<1> USE DEF FsmInv, lists
<1>1. PICK e \in step.todo :
        step' = [step EXCEPT !.todo = step.todo \ {e}, !.running = e]
  BY DEF BeginCallback
<1>2. task = "dispatch" /\ task' = "callback"
      /\ UNCHANGED << lists, event_bits, deferred, current_state >>
  BY DEF BeginCallback
<1>3. step \in Step /\ step.running = NULL /\ e \in Event /\ e # NULL
  BY <1>2, NoEventAssumption DEF FsmTypeOK, RunningInv, Step
<1>4. step' \in Step /\ step'.todo = step.todo \ {e} /\ step'.running = e
      /\ step'.state = step.state /\ step'.bits = step.bits
      /\ step'.handled = step.handled
  BY <1>1, <1>3 DEF Step
<1>5. FsmTypeOK'
  BY <1>2, <1>4 DEF FsmTypeOK, TaskPlaces
<1>6. OrthogonalEvents'
  BY <1>2, OrthogonalUnchanged
<1>7. RunningInv'
  BY <1>2, <1>3, <1>4 DEF RunningInv
<1>8. StepAccounts'
  BY <1>2, <1>3, <1>4 DEF StepAccounts, RunningEvents, Matched
<1> QED  BY <1>5, <1>6, <1>7, <1>8

(* The running callback returns: its event moves from running to handled.     *)
LEMMA ReturnOkInv == FsmInv /\ ReturnOk => FsmInv'
<1> SUFFICES ASSUME FsmInv, ReturnOk PROVE FsmInv'
  OBVIOUS
<1> USE DEF FsmInv, lists, ReturnOk
<1>1. step \in Step /\ step.running # NULL /\ step.running \in Event
  BY DEF FsmTypeOK, RunningInv, Step
<1>2. step' \in Step /\ step'.todo = step.todo /\ step'.running = NULL
      /\ step'.state = step.state /\ step'.bits = step.bits
      /\ step'.handled = step.handled \cup {step.running}
  BY <1>1 DEF Step
<1>3. FsmTypeOK'
  BY <1>2 DEF FsmTypeOK, TaskPlaces
<1>4. OrthogonalEvents'
  BY OrthogonalUnchanged
<1>5. RunningInv'
  BY <1>2 DEF RunningInv
<1>6. StepAccounts'
  BY <1>1, <1>2 DEF StepAccounts, RunningEvents, Matched
<1> QED  BY <1>3, <1>4, <1>5, <1>6

(* loop_step is left, with or without an error, or begins anew.               *)
LEMMA LeaveStepInv ==
  ASSUME FsmInv, FindNoCallback \/ ReturnError \/ EndStep
  PROVE  FsmInv'
<1> USE DEF FsmInv, FindNoCallback, ReturnError, EndStep, lists
<1>1. FsmTypeOK'
  BY NoStepType DEF FsmTypeOK, TaskPlaces
<1>2. OrthogonalEvents'
  BY OrthogonalUnchanged
<1>3. RunningInv'
  BY DEF RunningInv, NoStep
<1>4. StepAccounts'
  BY DEF StepAccounts
<1> QED  BY <1>1, <1>2, <1>3, <1>4

(* A callback sets the state, which the step in progress does not look at     *)
(* again: it dispatches from the state it was entered in.                     *)
LEMMA SetStateInv ==
  ASSUME NEW s, FsmInv, osh_node_fsm_set_state(s)
  PROVE  FsmInv'
<1> USE DEF FsmInv, osh_node_fsm_set_state, SetState, lists
<1>1. FsmTypeOK'
  BY DEF FsmTypeOK
<1>2. OrthogonalEvents'
  BY OrthogonalUnchanged
<1>3. RunningInv'
  BY DEF RunningInv
<1>4. StepAccounts'
  BY DEF StepAccounts, RunningEvents, Matched
<1> QED  BY <1>1, <1>2, <1>3, <1>4

-----------------------------------------------------------------------------
(* The steps of every client other than a registration.                       *)
LEMMA ClientsInv == FsmInv /\ Clients => FsmInv'
<1> SUFFICES ASSUME FsmInv, Clients PROVE FsmInv'
  OBVIOUS
<1>1. CASE osh_node_fsm_init
  <2>1. FsmTypeOK' /\ OrthogonalEvents' /\ RunningInv' /\ StepAccounts'
    BY <1>1 DEF osh_node_fsm_init, FsmInv, FsmTypeOK, OrthogonalEvents, RunningInv,
                StepAccounts, RunningEvents, Matched
  <2> QED  BY <2>1 DEF FsmInv
<1>2. ASSUME NEW s \in States, NEW mask \in Masks,
             NEW callback \in Callbacks \cup {NULL},
             osh_node_fsm_register_event(s, mask, callback)
      PROVE  FsmInv'
  BY <1>2, EventBitsType, RegisterInv, RegisterNothingInv
     DEF osh_node_fsm_register_event
<1>3. ASSUME NEW mask \in Masks,
             \/ osh_node_fsm_invoke_event(mask)
             \/ osh_node_fsm_invoke_event_from_ISR(mask)
      PROVE  FsmInv'
  <2>1. /\ event_bits' \subseteq Bits
        /\ deferred' \subseteq SUBSET Bits
        /\ UNCHANGED << lists, current_state, task, step >>
    BY <1>3, EventBitsType DEF osh_node_fsm_invoke_event,
          osh_node_fsm_invoke_event_from_ISR, FsmInv, FsmTypeOK
  <2> QED  BY <2>1, PostInv
<1>4. ASSUME NEW bits \in deferred, DeferredSetBits(bits)
      PROVE  FsmInv'
  <2>1. /\ event_bits' \subseteq Bits
        /\ deferred' \subseteq SUBSET Bits
        /\ UNCHANGED << lists, current_state, task, step >>
    BY <1>4 DEF DeferredSetBits, FsmInv, FsmTypeOK
  <2> QED  BY <2>1, PostInv
<1>5. ASSUME NEW s \in States, NEW mask \in Masks, StartLoop(s, mask)
      PROVE  FsmInv'
  BY <1>5, StartInv
<1> QED  BY <1>1, <1>2, <1>3, <1>4, <1>5 DEF Clients

(* A step that changes nothing keeps the invariant.                           *)
LEMMA StutterInv == FsmInv /\ UNCHANGED fsm_vars => FsmInv'
  BY DEF FsmInv, fsm_vars, FsmTypeOK, OrthogonalEvents, RunningInv, StepAccounts,
         RunningEvents, Matched

(* The invariant is inductive.                                                *)
LEMMA FsmInvNext == FsmInv /\ [FsmNext]_fsm_vars => FsmInv'
<1> SUFFICES ASSUME FsmInv, [FsmNext]_fsm_vars PROVE FsmInv'
  OBVIOUS
<1>1. CASE Clients
  BY <1>1, ClientsInv
<1>2. CASE TaskStep
  BY <1>2, EnterInv, WaitBitsInv, BeginCallbackInv, LeaveStepInv DEF TaskStep
<1>3. CASE CallbackStep
  BY <1>3, SetStateInv, ReturnOkInv, LeaveStepInv DEF CallbackStep
<1>4. CASE FsmReboot
  BY <1>4, RebootInv
<1>5. CASE UNCHANGED fsm_vars
  BY <1>5, StutterInv
<1> QED  BY <1>1, <1>2, <1>3, <1>4, <1>5 DEF FsmNext

(* The invariant holds in every behaviour.                                    *)
THEOREM FsmInvariant == FsmSafety => []FsmInv
<1> QED  BY FsmInvInit, FsmInvNext, PTL DEF FsmSafety

(* Every variable of the state machine keeps its type.                        *)
THEOREM FsmTypeCorrect == FsmSafety => []FsmTypeOK
<1>1. FsmInv => FsmTypeOK
  BY DEF FsmInv
<1> QED  BY <1>1, FsmInvariant, PTL

(* The events of a state stay orthogonal, however clients register them, and  *)
(* the mask loop_step waits for is what they have together.                   *)
THEOREM EventsStayOrthogonal == FsmSafety => []OrthogonalEvents
<1>1. FsmInv => OrthogonalEvents
  BY DEF FsmInv
<1> QED  BY <1>1, FsmInvariant, PTL

(* No event that was taken is run twice or dropped by loop_step, whatever     *)
(* states its callbacks set meanwhile.                                        *)
THEOREM DispatchIsExactlyOnce == FsmSafety => []StepAccounts
<1>1. FsmInv => StepAccounts
  BY DEF FsmInv
<1> QED  BY <1>1, FsmInvariant, PTL

-----------------------------------------------------------------------------
(* The order of dispatch.  Two masks that differ are ordered, because there   *)
(* is a highest bit in which they differ: the natural numbers below Width     *)
(* have a greatest in every set of them, as < is well-founded.                *)

(* A set of natural numbers has a least.                                      *)
LEMMA LeastNumber ==
  ASSUME NEW T \in SUBSET Nat, T # {}
  PROVE  \E m \in T : \A n \in T : m <= n
<1>1. PICK m \in T : \A n \in T : ~ << n, m >> \in OpToRel(<, Nat)
  BY NatLessThanWellFounded, WFMin
<1>2. \A n \in T : ~ (n < m)
  BY <1>1 DEF OpToRel
<1> QED  BY <1>2

(* A set of bits has a highest.                                               *)
LEMMA HighestBit ==
  ASSUME NEW T \in SUBSET Bits, T # {}
  PROVE  \E m \in T : \A n \in T : n <= m
<1> USE FsmAssumption DEF Bits
<1> DEFINE U == {Width - n : n \in T}
<1>1. PICK k \in U : \A n \in U : k <= n
  <2>1. U \subseteq Nat /\ U # {}
    OBVIOUS
  <2> HIDE DEF U
  <2> QED  BY <2>1, LeastNumber
<1>2. PICK m \in T : k = Width - m
  OBVIOUS
<1>3. \A n \in T : Width - m <= Width - n
  BY <1>1, <1>2
<1> QED  BY <1>3

(* Of two different masks one is below the other.                             *)
LEMMA BelowIsTotal ==
  ASSUME NEW a \in SUBSET Bits, NEW b \in SUBSET Bits, a # b
  PROVE  Below(a, b) \/ Below(b, a)
<1> DEFINE D == (a \ b) \cup (b \ a)
<1>1. D \in SUBSET Bits /\ D # {}
  OBVIOUS
<1>2. PICK m \in D : \A n \in D : n <= m
  <2> HIDE DEF D
  <2> QED  BY <1>1, HighestBit
<1>3. \A n \in D : n \in Int
  BY FsmAssumption DEF Bits
<1>4. CASE m \in b \ a
  <2>1. \A c \in a \ b : c < m
    BY <1>2, <1>3, <1>4
  <2> QED  BY <1>4, <2>1 DEF Below
<1>5. CASE m \in a \ b
  <2>1. \A c \in b \ a : c < m
    BY <1>2, <1>3, <1>5
  <2> QED  BY <1>5, <2>1 DEF Below
<1> QED  BY <1>4, <1>5

(* DispatchInOrder with what is true of the event whose callback runs: it is  *)
(* below the events still to run.                                             *)
OrderInv ==
    /\ DispatchInOrder
    /\ task \in {"dispatch", "callback"} =>
         \A e \in RunningEvents, f \in step.todo : Below(e.bits, f.bits)

(* The event whose callback begins is below all that remain: no two events of *)
(* a state have the same mask.                                                *)
LEMMA BeginCallbackOrder == FsmInv /\ OrderInv /\ BeginCallback => OrderInv'
<1> SUFFICES ASSUME FsmInv, OrderInv, BeginCallback PROVE OrderInv'
  OBVIOUS
<1>1. PICK e \in step.todo :
        /\ NextEvent(e)
        /\ step' = [step EXCEPT !.todo = step.todo \ {e}, !.running = e]
  BY DEF BeginCallback
<1>2. task = "dispatch" /\ task' = "callback"
  BY DEF BeginCallback
<1>3. step \in Step /\ step.running = NULL /\ step.todo \subseteq Event
      /\ step.state \in States /\ e # NULL
  BY <1>2, NoEventAssumption DEF FsmInv, FsmTypeOK, RunningInv, Step
<1>4. step'.todo = step.todo \ {e} /\ step'.running = e /\ step'.handled = step.handled
  BY <1>1, <1>3 DEF Step
<1>5. ASSUME NEW f \in step.todo, f # e PROVE Below(e.bits, f.bits)
  <2>1. e \in events_list[step.state] /\ f \in events_list[step.state]
    BY <1>2, <1>5 DEF FsmInv, StepAccounts, Matched
  <2>2. e.bits # f.bits
    BY <1>3, <1>5, <2>1 DEF FsmInv, OrthogonalEvents
  <2>3. e.bits \in SUBSET Bits /\ f.bits \in SUBSET Bits
    BY <1>3, <1>5 DEF Event
  <2>4. ~ Below(f.bits, e.bits)
    BY <1>1, <1>5 DEF NextEvent
  <2> QED  BY <2>2, <2>3, <2>4, BelowIsTotal
<1>6. step'.todo \cup RunningEvents' = step.todo /\ RunningEvents' = {e}
  BY <1>3, <1>4 DEF RunningEvents
<1>7. DispatchInOrder'
  BY <1>2, <1>4, <1>6 DEF OrderInv, DispatchInOrder
<1> QED  BY <1>4, <1>5, <1>6, <1>7 DEF OrderInv

(* The event of a callback that returns joins those that have been run.       *)
LEMMA ReturnOkOrder == FsmInv /\ OrderInv /\ ReturnOk => OrderInv'
<1> SUFFICES ASSUME FsmInv, OrderInv, ReturnOk PROVE OrderInv'
  OBVIOUS
<1>1. task = "callback" /\ task' = "dispatch" /\ step \in Step /\ step.running # NULL
  BY DEF ReturnOk, FsmInv, FsmTypeOK, RunningInv
<1>2. /\ step'.todo = step.todo /\ step'.running = NULL
      /\ step'.handled = step.handled \cup RunningEvents
  BY <1>1 DEF ReturnOk, Step, RunningEvents
<1>3. RunningEvents' = {}
  BY <1>2 DEF RunningEvents
<1>4. DispatchInOrder'
  BY <1>1, <1>2, <1>3 DEF OrderInv, DispatchInOrder
<1> QED  BY <1>3, <1>4 DEF OrderInv

(* The order is inductive.                                                    *)
LEMMA OrderInvNext == FsmInv /\ OrderInv /\ [FsmNext]_fsm_vars => OrderInv'
<1> SUFFICES ASSUME FsmInv, OrderInv, [FsmNext]_fsm_vars PROVE OrderInv'
  OBVIOUS
<1>1. CASE UNCHANGED << task, step >>
  BY <1>1 DEF OrderInv, DispatchInOrder, RunningEvents
<1>2. CASE task' \notin {"dispatch", "callback"}
  BY <1>2 DEF OrderInv, DispatchInOrder
<1>3. CASE WaitBits
  <2>1. step'.handled = {} /\ step'.running = NULL
    BY <1>3 DEF WaitBits, FsmInv, FsmTypeOK, RunningInv, Step
  <2> QED  BY <2>1 DEF OrderInv, DispatchInOrder, RunningEvents
<1>4. CASE BeginCallback \/ ReturnOk
  BY <1>4, BeginCallbackOrder, ReturnOkOrder
<1>5. CASE Clients
  <2>1. UNCHANGED << task, step >> \/ task' = "loop"
    BY <1>5 DEF Clients, osh_node_fsm_init, osh_node_fsm_register_event,
        RegisterNewEvent, RegisterNoMemory, RegisterMissed,
        osh_node_fsm_invoke_event, osh_node_fsm_invoke_event_from_ISR,
        DeferredSetBits, StartLoop
  <2> QED  BY <1>1, <1>2, <2>1
<1>6. CASE (TaskStep \/ CallbackStep) /\ ~ (WaitBits \/ BeginCallback \/ ReturnOk)
  <2>1. UNCHANGED << task, step >> \/ task' \notin {"dispatch", "callback"}
    BY <1>6 DEF TaskStep, CallbackStep, EnterUnknownState, EnterStateWithoutEvents,
        EnterState, FindNoCallback, EndStep, osh_node_fsm_set_state, ReturnError
  <2> QED  BY <1>1, <1>2, <2>1
<1> QED  BY <1>1, <1>2, <1>3, <1>4, <1>5, <1>6 DEF FsmNext, FsmReboot, fsm_vars

(* The callbacks of one step run in the order of their masks, for any masks   *)
(* and whatever is posted or set meanwhile: POWERON before CONNECT.           *)
THEOREM DispatchStaysInOrder == FsmSafety => []DispatchInOrder
<1>1. FsmInitial => OrderInv
  BY DEF FsmInitial, PoweredOff, OrderInv, DispatchInOrder
<1>2. OrderInv => DispatchInOrder
  BY DEF OrderInv
<1> QED  BY <1>1, <1>2, FsmInvariant, OrderInvNext, PTL DEF FsmSafety

-----------------------------------------------------------------------------
(* What WaitBits takes out of the event group: the bits of the events it      *)
(* matches.  This is where the two halves of OrthogonalEvents meet, the mask  *)
(* of the wait being the bits of the list.                                    *)
LEMMA TakenBits ==
  ASSUME FsmInv, WaitBits
  PROVE  /\ step'.todo = Matched(step.state, event_bits)
         /\ event_bits \ event_bits' = event_bits \cap group_bits[step.state]
         /\ event_bits \ event_bits' \subseteq BitsOf(step'.todo)
<1>1. step \in Step /\ step.state \in States
  BY DEF FsmInv, FsmTypeOK, Step
<1>2. step'.todo = Matched(step.state, event_bits)
  BY <1>1 DEF WaitBits, Step
<1>3. event_bits \ event_bits' = event_bits \cap group_bits[step.state]
  BY DEF WaitBits
<1>4. group_bits[step.state] = BitsOf(events_list[step.state])
  BY <1>1 DEF FsmInv, OrthogonalEvents
<1>5. ASSUME NEW b \in event_bits, b \in group_bits[step.state]
      PROVE  b \in BitsOf(Matched(step.state, event_bits))
  <2>1. PICK e \in events_list[step.state] : b \in e.bits
    BY <1>4, <1>5, BitsOfMember
  <2>2. e \in Matched(step.state, event_bits)
    BY <1>5, <2>1 DEF Matched
  <2> QED  BY <2>1, <2>2, BitsOfMember
<1> QED  BY <1>2, <1>3, <1>5

(* Every step keeps the bits it does not take.                                *)
LEMMA LatchStep ==
  ASSUME FsmInv, [FsmNext]_fsm_vars, event_bits \ event_bits' # {}
  PROVE  \/ event_bits \ event_bits' \subseteq BitsOf(step'.todo)
         \/ PoweredOff'
<1>1. CASE WaitBits
  BY <1>1, TakenBits
<1>2. CASE FsmReboot
  BY <1>2 DEF FsmReboot, PoweredOff
<1>3. CASE [Clients \/ TaskStep \/ CallbackStep]_fsm_vars /\ ~ WaitBits
  <2>1. event_bits \subseteq event_bits'
    BY <1>3 DEF Clients, TaskStep, CallbackStep, fsm_vars, osh_node_fsm_init,
        osh_node_fsm_register_event, RegisterNewEvent, RegisterNoMemory,
        RegisterMissed, osh_node_fsm_invoke_event,
        osh_node_fsm_invoke_event_from_ISR, DeferredSetBits, StartLoop,
        EnterUnknownState, EnterStateWithoutEvents, EnterState, BeginCallback,
        FindNoCallback, EndStep, osh_node_fsm_set_state, ReturnOk, ReturnError
  <2> QED  BY <2>1
<1> QED  BY <1>1, <1>2, <1>3 DEF FsmNext

(* No latched event is ever lost between the task that posts it and the       *)
(* callback that answers it.                                                  *)
THEOREM NoLatchedEventLost == FsmSafety => LatchedEventSurvives
<1>1. FsmInv /\ [FsmNext]_fsm_vars =>
        [LET cleared == event_bits \ event_bits' IN
         cleared # {} => \/ cleared \subseteq BitsOf(step'.todo)
                         \/ PoweredOff']_fsm_vars
  BY LatchStep
<1> QED  BY <1>1, FsmInvariant, PTL DEF FsmSafety, LatchedEventSurvives

(* Every step that accepts a registration, by the two ways there are.         *)
LEMMA AcceptStep ==
  ASSUME FsmInv, [FsmNext]_fsm_vars, NEW r \in accepted' \ accepted
  PROVE  \/ \E e \in events_list'[r[1]] : e.bits = r[2]
         \/ r[1] = BitsValue(event_bits)
<1>1. PICK s \in States, mask \in Masks, callback \in Callbacks \cup {NULL} :
        osh_node_fsm_register_event(s, mask, callback)
  BY DEF FsmNext, Clients, TaskStep, CallbackStep, fsm_vars, lists, osh_node_fsm_init,
      osh_node_fsm_invoke_event, osh_node_fsm_invoke_event_from_ISR, DeferredSetBits,
      StartLoop, EnterUnknownState, EnterStateWithoutEvents, EnterState, WaitBits,
      BeginCallback, FindNoCallback, EndStep, osh_node_fsm_set_state, ReturnOk,
      ReturnError, FsmReboot
<1> DEFINE bits == EventBits(mask)
           new  == [bits |-> bits, callback |-> callback]
<1>2. r = << s, bits >>
  BY <1>1 DEF osh_node_fsm_register_event, RegisterNewEvent, RegisterNoMemory,
      RegisterMissed
<1>3. CASE RegisterNewEvent(s, bits, callback)
  <2>1. events_list' = [events_list EXCEPT ![s] = @ \cup {new}] /\ new.bits = bits
    BY <1>3 DEF RegisterNewEvent
  <2>2. new \in events_list'[s]
    BY <2>1 DEF FsmInv, FsmTypeOK
  <2> QED  BY <1>2, <2>1, <2>2
<1>4. CASE RegisterMissed(s, bits)
  BY <1>2, <1>4 DEF RegisterMissed, Missed, Fetched, Creatable
<1>5. CASE RegisterNoMemory(s)
  BY <1>5 DEF RegisterNoMemory
<1> QED  BY <1>1, <1>3, <1>4, <1>5 DEF osh_node_fsm_register_event

(* ESP_OK means that the event is listed, unless the latched bits make the    *)
(* number of its state.                                                       *)
THEOREM RegisteredUnlessLatched == FsmSafety => RegisterOkListsUnlessLatched
<1>1. FsmInv /\ [FsmNext]_fsm_vars =>
        [\A r \in accepted' \ accepted :
            \/ \E e \in events_list'[r[1]] : e.bits = r[2]
            \/ r[1] = BitsValue(event_bits)]_fsm_vars
  BY AcceptStep
<1> QED  BY <1>1, FsmInvariant, PTL DEF FsmSafety, RegisterOkListsUnlessLatched

-----------------------------------------------------------------------------
(* The refinement of OshEventLatch.  Alive abbreviates the mapping of alive.  *)
Alive == task \notin {"exited", "crashed"}

(* A bit is unanswered if it was taken and an event still to finish has it.   *)
LEMMA UnansweredMember ==
  ASSUME task \in {"dispatch", "callback"}, NEW b
  PROVE  b \in Unanswered <=>
           \E e \in step.todo \cup RunningEvents : b \in e.bits /\ b \in step.bits
  BY DEF Unanswered

(* Nothing is unanswered outside the dispatch.                                *)
LEMMA NothingUnanswered ==
  task \notin {"dispatch", "callback"} => Unanswered = {}
  BY DEF Unanswered

(* A step that leaves the task, its step and its life alone posts at most.    *)
LEMMA PostRefines ==
  ASSUME FsmInv, UNCHANGED << task, step >>, event_bits' \subseteq Bits,
         event_bits \subseteq event_bits'
  PROVE  Latch!Post
<1>1. Unanswered' = Unanswered /\ Alive' = Alive
  BY DEF Unanswered, RunningEvents, Alive
<1>2. event_bits' = event_bits \cup event_bits'
  OBVIOUS
<1>3. event_bits' \in SUBSET Bits
  OBVIOUS
<1> QED  BY <1>1, <1>2, <1>3 DEF Latch!Post, Alive

(* WaitBits takes: what is latched and waited for becomes unanswered.         *)
LEMMA WaitBitsRefines == ASSUME FsmInv, WaitBits PROVE Latch!Take
<1>1. /\ task = "wait" /\ task' = "dispatch" /\ step \in Step
      /\ step.state \in States /\ step.running = NULL
      /\ event_bits \cap group_bits[step.state] # {}
      /\ event_bits' = event_bits \ group_bits[step.state]
  BY DEF WaitBits, FsmInv, FsmTypeOK, RunningInv, Step
<1>2. /\ step'.todo = Matched(step.state, event_bits)
      /\ step'.bits = event_bits /\ step'.running = NULL
  BY <1>1 DEF WaitBits, Step
<1>3. group_bits[step.state] = BitsOf(events_list[step.state])
  BY <1>1 DEF FsmInv, OrthogonalEvents
<1>4. ASSUME NEW b
      PROVE  b \in Unanswered' <=> b \in event_bits /\ b \in group_bits[step.state]
  <2>1. b \in Unanswered' <=>
          \E e \in step'.todo : b \in e.bits /\ b \in event_bits
    BY <1>1, <1>2 DEF Unanswered, RunningEvents
  <2>2. b \in group_bits[step.state] <=> \E e \in events_list[step.state] : b \in e.bits
    BY <1>3, BitsOfMember
  <2> QED  BY <1>2, <2>1, <2>2 DEF Matched
<1>5. Unanswered' = event_bits \cap group_bits[step.state]
  BY <1>4
<1>6. Unanswered = {}
  BY <1>1, NothingUnanswered
<1>7. Alive /\ Alive'
  BY <1>1 DEF Alive
<1>8. Unanswered' \in (SUBSET event_bits) \ {{}}
  BY <1>1, <1>5
<1>9. event_bits' = event_bits \ Unanswered'
  BY <1>1, <1>5
<1> QED  BY <1>6, <1>7, <1>8, <1>9 DEF Latch!Take, Alive

(* BeginCallback only moves an event from todo to running.                    *)
LEMMA BeginCallbackRefines ==
  ASSUME FsmInv, BeginCallback
  PROVE  UNCHANGED << event_bits, Unanswered, Alive >>
<1>1. PICK e \in step.todo :
        step' = [step EXCEPT !.todo = step.todo \ {e}, !.running = e]
  BY DEF BeginCallback
<1>2. task = "dispatch" /\ task' = "callback" /\ event_bits' = event_bits
  BY DEF BeginCallback
<1>3. step \in Step /\ step.running = NULL /\ e # NULL
  BY <1>2, NoEventAssumption DEF FsmInv, FsmTypeOK, RunningInv, Step
<1>4. /\ step'.todo \cup RunningEvents' = step.todo \cup RunningEvents
      /\ step'.bits = step.bits
  BY <1>1, <1>3 DEF Step, RunningEvents
<1>5. Unanswered' = Unanswered
  BY <1>2, <1>4 DEF Unanswered
<1> QED  BY <1>2, <1>5 DEF Alive

(* A callback that returns finishes the bits of its event.  Because events    *)
(* are orthogonal no other event that is still to run has one of them.        *)
LEMMA ReturnOkRefines == ASSUME FsmInv, ReturnOk PROVE Latch!Finish
<1> DEFINE r == step.running
           S == r.bits \cap step.bits
<1>1. /\ task = "callback" /\ task' = "dispatch" /\ event_bits' = event_bits
      /\ step \in Step /\ step.state \in States /\ r # NULL /\ r \in Event
  BY DEF ReturnOk, FsmInv, FsmTypeOK, RunningInv, Step
<1>2. step'.todo = step.todo /\ step'.running = NULL /\ step'.bits = step.bits
  BY <1>1 DEF ReturnOk, Step
<1>3. /\ step.todo \cup {r} \subseteq Matched(step.state, step.bits)
      /\ r \notin step.todo
  BY <1>1 DEF FsmInv, StepAccounts, RunningEvents
<1>4. S # {}
  BY <1>3 DEF Matched
<1>5. ASSUME NEW e \in step.todo PROVE e.bits \cap r.bits = {}
  <2>1. e \in events_list[step.state] /\ r \in events_list[step.state] /\ e # r
    BY <1>3 DEF Matched
  <2> QED  BY <1>1, <2>1 DEF FsmInv, OrthogonalEvents
<1>6. ASSUME NEW b
      PROVE  b \in Unanswered <=>
               \/ \E e \in step.todo : b \in e.bits /\ b \in step.bits
               \/ b \in S
  BY <1>1, UnansweredMember DEF RunningEvents
<1>7. ASSUME NEW b
      PROVE  b \in Unanswered' <=>
               \E e \in step.todo : b \in e.bits /\ b \in step.bits
  BY <1>1, <1>2 DEF Unanswered, RunningEvents
<1>8. Unanswered' = Unanswered \ S
  BY <1>5, <1>6, <1>7
<1>9. S \in (SUBSET Unanswered) \ {{}}
  BY <1>4, <1>6
<1>10. Alive /\ Alive'
  BY <1>1 DEF Alive
<1> QED  BY <1>1, <1>8, <1>9, <1>10 DEF Latch!Finish, Alive

(* A loop that ends gives up; a step that ends has answered everything.       *)
LEMMA GiveUpRefines ==
  ASSUME FsmInv,
         \/ EnterUnknownState \/ EnterStateWithoutEvents
         \/ FindNoCallback \/ ReturnError
  PROVE  Latch!GiveUp
<1>1. Alive /\ ~ Alive' /\ event_bits' = event_bits
  BY DEF EnterUnknownState, EnterStateWithoutEvents, FindNoCallback, ReturnError, Alive
<1>2. task' \notin {"dispatch", "callback"}
  BY <1>1 DEF Alive, EnterUnknownState, EnterStateWithoutEvents, FindNoCallback,
              ReturnError
<1>3. Unanswered' = {}
  BY <1>2 DEF Unanswered
<1> QED  BY <1>1, <1>3 DEF Latch!GiveUp, Alive

(* Entering a state and ending a step are invisible to the latch.             *)
LEMMA QuietRefines ==
  ASSUME FsmInv, EnterState \/ EndStep
  PROVE  UNCHANGED << event_bits, Unanswered, Alive >>
<1>1. Alive /\ Alive' /\ event_bits' = event_bits
  BY DEF EnterState, EndStep, Alive
<1>2. Unanswered' = {}
  BY DEF EnterState, EndStep, Unanswered
<1>3. Unanswered = {}
  <2>1. CASE EnterState
    BY <2>1, NothingUnanswered DEF EnterState
  <2>2. CASE EndStep
    BY <2>2 DEF EndStep, FsmInv, RunningInv, Unanswered, RunningEvents
  <2> QED  BY <2>1, <2>2
<1> QED  BY <1>1, <1>2, <1>3

(* Every step of the state machine is a step of the latch, or stutters.       *)
LEMMA FsmStepRefines ==
  ASSUME FsmInv, FsmInv', [FsmNext]_fsm_vars
  PROVE  \/ Latch!LatchNext
         \/ UNCHANGED << event_bits, Unanswered, Alive >>
<1>1. CASE Clients
  <2>1. ASSUME NEW s \in States, NEW mask \in Masks, StartLoop(s, mask)
        PROVE  Latch!Post
    <3>1. /\ task \notin {"dispatch", "callback"} /\ task' \notin {"dispatch", "callback"}
          /\ Alive /\ Alive' /\ event_bits' = event_bits \cup EventBits(mask)
      BY <2>1 DEF StartLoop, Alive
    <3>2. Unanswered' = Unanswered
      BY <3>1 DEF Unanswered
    <3> QED  BY <3>1, <3>2, EventBitsType DEF Latch!Post, Alive
  <2>2. ASSUME ~ \E s \in States, mask \in Masks : StartLoop(s, mask)
        PROVE  Latch!Post
    <3>1. UNCHANGED << task, step >> /\ event_bits \subseteq event_bits'
      BY <1>1, <2>2 DEF Clients, osh_node_fsm_init,
          osh_node_fsm_register_event, RegisterNewEvent, RegisterNoMemory,
          RegisterMissed, osh_node_fsm_invoke_event,
          osh_node_fsm_invoke_event_from_ISR, DeferredSetBits
    <3>2. event_bits' \subseteq Bits
      BY DEF FsmInv, FsmTypeOK
    <3> QED  BY <3>1, <3>2, PostRefines
  <2> QED  BY <2>1, <2>2 DEF Latch!LatchNext
<1>2. CASE TaskStep
  BY <1>2, WaitBitsRefines, BeginCallbackRefines, GiveUpRefines, QuietRefines
     DEF TaskStep, Latch!LatchNext
<1>3. CASE CallbackStep
  <2>1. ASSUME NEW s, osh_node_fsm_set_state(s)
        PROVE  UNCHANGED << event_bits, Unanswered, Alive >>
    BY <2>1 DEF osh_node_fsm_set_state, Unanswered, RunningEvents, Alive
  <2> QED  BY <1>3, <2>1, ReturnOkRefines, GiveUpRefines
              DEF CallbackStep, Latch!LatchNext
<1>4. CASE FsmReboot
  <2>1. event_bits' = {} /\ Unanswered' = {} /\ Alive'
    BY <1>4 DEF FsmReboot, Unanswered, Alive
  <2> QED  BY <2>1 DEF Latch!LatchNext, Latch!Restart, Alive
<1>5. CASE UNCHANGED fsm_vars
  BY <1>5 DEF fsm_vars, Unanswered, RunningEvents, Alive
<1> QED  BY <1>1, <1>2, <1>3, <1>4, <1>5 DEF FsmNext

(* The state machine implements the event latch, for any states, masks and    *)
(* callbacks: what is posted is taken at most once and answered at most once, *)
(* and nothing is answered that was not posted.  (That what is taken is       *)
(* eventually answered is the liveness half, left to the model checker.)      *)
THEOREM FsmImplementsLatch == FsmSafety => Latch!LatchSafety
<1>1. FsmInitial => Latch!LatchInit
  BY DEF FsmInitial, PoweredOff, Latch!LatchInit, Unanswered
<1>2. FsmInv /\ FsmInv' /\ [FsmNext]_fsm_vars => [Latch!LatchNext]_(Latch!latch_vars)
  BY FsmStepRefines DEF Latch!latch_vars, Alive
<1> QED  BY <1>1, <1>2, FsmInvariant, PTL DEF FsmSafety, Latch!LatchSafety
=============================================================================
