------------------------------- MODULE OshFsm -------------------------------
(* The event state machine of an OpenSmartHome node (osh_node_fsm.c).  A      *)
(* singleton holds a list of states; each state holds the events that clients *)
(* registered for it, an event being a mask of bits and a callback.  Any task *)
(* or interrupt latches bits in one FreeRTOS event group; one task, started   *)
(* by osh_node_wifi_start, runs loop_step for ever: it looks the current      *)
(* state up, waits for a bit some event of that state names, takes the bits   *)
(* and runs the callbacks they match, in ascending order of their masks.      *)
(*                                                                            *)
(* pre_, post_, init_, fini_ and miss_callback have no setter anywhere in the *)
(* source: they stay NULL and their branches are left out.  A call that       *)
(* returns an error without changing anything is a stuttering step.           *)
EXTENDS Integers, FiniteSets, FiniteSetsExt

CONSTANTS BUTT,       \* OSH_FSM_STATE_BUTT: the states are 0 .. BUTT - 1
          Width,      \* number of bits an EventBits_t keeps
          DaemonQueue,\* masks the timer daemon's queue can hold
          Masks,      \* event masks of the clients, as sets of bit numbers
          Callbacks,  \* callbacks clients register
          NULL        \* the NULL pointer

ASSUME FsmAssumption ==
    /\ BUTT \in Nat \ {0}
    /\ Width \in Nat
    /\ DaemonQueue \in Nat
    /\ Masks \subseteq SUBSET Nat
    /\ NULL \notin Callbacks

States == 0 .. BUTT - 1
Bits   == 0 .. Width - 1

EventBitsNotTruncated(mask) == mask                            \* mutant

(* The conversion of a mask to EventBits_t: bits beyond its width are lost.   *)
EventBits(mask) == mask \cap Bits

(* The number a set of event bits is.                                         *)
BitsValue(bits) == MapThenSumSet(LAMBDA b : 2 ^ b, bits)

(* One mask is a smaller number than another: the highest bit in which the    *)
(* two differ is a bit of the other.                                          *)
Below(bits, others) == \E b \in others \ bits : \A c \in bits \ others : c < b

Event == [bits : SUBSET Bits, callback : Callbacks \cup {NULL}]

ASSUME NoEventAssumption == NULL \notin Event

VARIABLES
    fsm,            \* "null", or "ready" once osh_node_fsm_init succeeded
    states_list,    \* states that have an entry in g_osh_fsm->states_list
    events_list,    \* events_list[s]: the events listed under state s
    group_bits,     \* group_bits[s]: the bits loop_step waits for in state s
    event_bits,     \* the bits latched in the event group
    deferred,       \* masks the timer daemon still has to set for an interrupt
    current_state,
    task,           \* where the task that runs loop_step is
    step,           \* locals of the current loop_step
    accepted        \* history: registrations that returned ESP_OK

fsm_vars == << fsm, states_list, events_list, group_bits, event_bits, deferred,
               current_state, task, step, accepted >>
lists    == << fsm, states_list, events_list, group_bits, accepted >>

TaskPlaces == {"none", "loop", "wait", "dispatch", "callback", "exited", "crashed"}

(* bits and state are locals of loop_step; todo is what its traversal of the  *)
(* event list has still to run, running the event whose callback is called;   *)
(* handled (history) holds the events of this step whose callback returned.   *)
Step == [state : States, bits : SUBSET Bits, todo : SUBSET Event,
         running : Event \cup {NULL}, handled : SUBSET Event]

NoStep == [state |-> 0, bits |-> {}, todo |-> {}, running |-> NULL, handled |-> {}]

FsmTypeOK ==
    /\ fsm \in {"null", "ready"}
    /\ states_list \subseteq States
    /\ events_list \in [States -> SUBSET Event]
    /\ group_bits \in [States -> SUBSET Bits]
    /\ event_bits \subseteq Bits
    /\ deferred \subseteq SUBSET Bits
    /\ current_state \in States \cup {BUTT}
    /\ task \in TaskPlaces
    /\ step \in Step
    /\ accepted \subseteq (States \X SUBSET Bits)

-----------------------------------------------------------------------------
PoweredOff ==
    /\ fsm = "null"
    /\ states_list = {}
    /\ events_list = [s \in States |-> {}]
    /\ group_bits = [s \in States |-> {}]
    /\ event_bits = {}
    /\ deferred = {}
    /\ current_state = BUTT
    /\ task = "none"
    /\ step = NoStep
    /\ accepted = {}

FsmInitial == PoweredOff

(* osh_node_fsm_init with osh_fsm_verify.  A failed allocation returns an     *)
(* error that the only caller turns into a restart (ESP_ERROR_CHECK).         *)
osh_node_fsm_init ==
    /\ fsm = "null"
    /\ fsm' = "ready"
    /\ UNCHANGED << states_list, events_list, group_bits, event_bits, deferred,
                    current_state, task, step, accepted >>

-----------------------------------------------------------------------------
(* osh_fsm_fetch_state.  The traversal of a list that does not hold s leaves  *)
(* tmp_state at the owner of the list's end marker.  The end marker is a      *)
(* MiniListItem_t without owner: what is read is the member behind the list,  *)
(* the event group handle, whose first word are the latched bits.  So a new   *)
(* state is created only if s differs from the number those bits make;        *)
(* otherwise fetch_state returns ESP_OK and no state.                         *)
Fetched(s) == s \in states_list

CreatableFirst(s) == states_list = {}                          \* mutant

Creatable(s) == /\ s \notin states_list
                /\ states_list = {} \/ s # BitsValue(event_bits)
Missed(s) == ~ Fetched(s) /\ ~ Creatable(s)

OrthogonalIfDifferent(s, bits) == bits # group_bits[s]         \* mutant

(* osh_fsm_create_event's test that event bits are orthogonal.                *)
Orthogonal(s, bits) == bits \cap group_bits[s] = {}

(* osh_fsm_get_event: an event of s with exactly these bits.                  *)
Listed(s, bits) == \E e \in events_list[s] : e.bits = bits

Registering == /\ fsm = "ready"
               /\ task = "none"

(* osh_node_fsm_register_event, ESP_OK: the state is found or created and the *)
(* event is new and orthogonal to those the state already has.                *)
RegisterNewEvent(s, bits, callback) ==
    /\ Registering
    /\ Fetched(s) \/ Creatable(s)
    /\ ~ Listed(s, bits)
    /\ Orthogonal(s, bits)
    /\ states_list' = states_list \cup {s}
    /\ group_bits' = [group_bits EXCEPT ![s] = @ \cup bits]
    /\ events_list' = [events_list EXCEPT ![s] =
                           @ \cup {[bits |-> bits, callback |-> callback]}]
    /\ accepted' = accepted \cup {<< s, bits >>}
    /\ UNCHANGED << fsm, event_bits, deferred, current_state, task, step >>

(* osh_node_fsm_register_event with no memory for the event: the state it     *)
(* has just created stays in the list, without events.                        *)
RegisterNoMemory(s) ==
    /\ Registering
    /\ Creatable(s)
    /\ states_list' = states_list \cup {s}
    /\ UNCHANGED << fsm, events_list, group_bits, event_bits, deferred,
                    current_state, task, step, accepted >>

(* osh_node_fsm_register_event when fetch_state reports no state and ESP_OK:  *)
(* the caller is told ESP_OK and nothing is registered.                       *)
RegisterMissed(s, bits) ==
    /\ Registering
    /\ Missed(s)
    /\ accepted' = accepted \cup {<< s, bits >>}
    /\ UNCHANGED << fsm, states_list, events_list, group_bits, event_bits,
                    deferred, current_state, task, step >>

osh_node_fsm_register_event(s, mask, callback) ==
    \/ RegisterNewEvent(s, EventBits(mask), callback)
    \/ RegisterNoMemory(s)
    \/ RegisterMissed(s, EventBits(mask))

-----------------------------------------------------------------------------
osh_node_fsm_invoke_event(mask) ==
    /\ fsm = "ready"
    /\ event_bits' = event_bits \cup EventBits(mask)
    /\ UNCHANGED << lists, deferred, current_state, task, step >>

(* The interrupt variant sets the bits at once and, if the daemon's queue has *)
(* room, has the timer daemon set them again later.                           *)
osh_node_fsm_invoke_event_from_ISR(mask) ==
    /\ fsm = "ready"
    /\ event_bits' = event_bits \cup EventBits(mask)
    /\ \/ deferred' = deferred
       \/ /\ Cardinality(deferred) < DaemonQueue
          /\ deferred' = deferred \cup {EventBits(mask)}
    /\ UNCHANGED << lists, current_state, task, step >>

(* vEventGroupSetBitsCallback, run by the timer daemon.                       *)
DeferredSetBits(bits) ==
    /\ bits \in deferred
    /\ event_bits' = event_bits \cup bits
    /\ deferred' = deferred \ {bits}
    /\ UNCHANGED << lists, current_state, task, step >>

-----------------------------------------------------------------------------
(* osh_node_fsm_set_state: a number that is no state is refused.              *)
SetState(s) == IF s \in States THEN current_state' = s
                               ELSE UNCHANGED current_state

(* The start of wifi_task: the first state is set and the first event is      *)
(* latched before the loop is entered.                                        *)
StartLoop(s, mask) ==
    /\ fsm = "ready"
    /\ task = "none"
    /\ SetState(s)
    /\ event_bits' = event_bits \cup EventBits(mask)
    /\ task' = "loop"
    /\ UNCHANGED << lists, deferred, step >>

HasEvents(s) == group_bits[s] # {} /\ events_list[s] # {}

(* osh_node_fsm_loop_step up to the wait.  A current state without an entry   *)
(* is dereferenced as NULL; a state without events ends the loop.             *)
EnterUnknownState ==
    /\ task = "loop"
    /\ current_state \notin states_list
    /\ task' = "crashed"
    /\ UNCHANGED << lists, event_bits, deferred, current_state, step >>

EnterStateWithoutEvents ==
    /\ task = "loop"
    /\ current_state \in states_list
    /\ ~ HasEvents(current_state)
    /\ task' = "exited"
    /\ UNCHANGED << lists, event_bits, deferred, current_state, step >>

EnterState ==
    /\ task = "loop"
    /\ current_state \in states_list
    /\ HasEvents(current_state)
    /\ task' = "wait"
    /\ step' = [NoStep EXCEPT !.state = current_state]
    /\ UNCHANGED << lists, event_bits, deferred, current_state >>

(* The events of state s that a set of bits matches.                          *)
Matched(s, bits) == {e \in events_list[s] : e.bits \cap bits # {}}

WaitBitsClearsAll ==                                           \* mutant
    /\ task = "wait"
    /\ event_bits \cap group_bits[step.state] # {}
    /\ step' = [step EXCEPT !.bits = event_bits,
                            !.todo = Matched(step.state, event_bits)]
    /\ event_bits' = {}
    /\ task' = "dispatch"
    /\ UNCHANGED << lists, deferred, current_state >>

(* xEventGroupWaitBits, any bit, clear on exit: what it returns are all bits  *)
(* latched at that moment, what it clears are the bits that were waited for.  *)
WaitBits ==
    /\ task = "wait"
    /\ event_bits \cap group_bits[step.state] # {}
    /\ step' = [step EXCEPT !.bits = event_bits,
                            !.todo = Matched(step.state, event_bits)]
    /\ event_bits' = event_bits \ group_bits[step.state]
    /\ task' = "dispatch"
    /\ UNCHANGED << lists, deferred, current_state >>

NextEventUnsorted(e) == e \in step.todo                        \* mutant

(* The event list is sorted by the number its mask is.                        *)
NextEvent(e) == /\ e \in step.todo
                /\ \A f \in step.todo : ~ Below(f.bits, e.bits)

BeginCallback ==
    /\ task = "dispatch"
    /\ \E e \in step.todo :
         /\ NextEvent(e)
         /\ e.callback # NULL
         /\ step' = [step EXCEPT !.todo = @ \ {e}, !.running = e]
    /\ task' = "callback"
    /\ UNCHANGED << lists, event_bits, deferred, current_state >>

FindNoCallbackHangs ==                                         \* mutant
    /\ task = "dispatch"
    /\ \E e \in step.todo : NextEvent(e) /\ e.callback = NULL
    /\ UNCHANGED fsm_vars

(* A matched event without a callback makes loop_step return an error, which  *)
(* ends the loop; the events behind it are not run.                           *)
FindNoCallback ==
    /\ task = "dispatch"
    /\ \E e \in step.todo : NextEvent(e) /\ e.callback = NULL
    /\ task' = "exited"
    /\ UNCHANGED << lists, event_bits, deferred, current_state, step >>

(* osh_node_fsm_set_state is called by the running callback only.             *)
osh_node_fsm_set_state(s) ==
    /\ task = "callback"
    /\ SetState(s)
    /\ UNCHANGED << lists, event_bits, deferred, task, step >>

ReturnOkBreaks ==                                              \* mutant
    /\ task = "callback"
    /\ step' = [step EXCEPT !.running = NULL, !.todo = {},
                            !.handled = @ \cup {step.running}]
    /\ task' = "dispatch"
    /\ UNCHANGED << lists, event_bits, deferred, current_state >>

(* The callback returns ESP_OK, and the traversal goes on, or an error, and   *)
(* loop_step returns it and the task leaves its loop.                         *)
ReturnOk ==
    /\ task = "callback"
    /\ step' = [step EXCEPT !.running = NULL, !.handled = @ \cup {step.running}]
    /\ task' = "dispatch"
    /\ UNCHANGED << lists, event_bits, deferred, current_state >>

ReturnError ==
    /\ task = "callback"
    /\ task' = "exited"
    /\ UNCHANGED << lists, event_bits, deferred, current_state, step >>

EndStep ==
    /\ task = "dispatch"
    /\ step.todo = {}
    /\ task' = "loop"
    /\ step' = NoStep
    /\ UNCHANGED << lists, event_bits, deferred, current_state >>

(* A panic, an abort of ESP_ERROR_CHECK, a reset or a power cycle.            *)
FsmReboot ==
    /\ fsm' = "null"
    /\ states_list' = {}
    /\ events_list' = [s \in States |-> {}]
    /\ group_bits' = [s \in States |-> {}]
    /\ event_bits' = {}
    /\ deferred' = {}
    /\ current_state' = BUTT
    /\ task' = "none"
    /\ step' = NoStep
    /\ accepted' = {}

-----------------------------------------------------------------------------
TaskStep == \/ EnterUnknownState
            \/ EnterStateWithoutEvents
            \/ EnterState
            \/ WaitBits
            \/ BeginCallback
            \/ FindNoCallback
            \/ EndStep

Clients ==
    \/ osh_node_fsm_init
    \/ \E s \in States, mask \in Masks, callback \in Callbacks \cup {NULL} :
          osh_node_fsm_register_event(s, mask, callback)
    \/ \E mask \in Masks : \/ osh_node_fsm_invoke_event(mask)
                           \/ osh_node_fsm_invoke_event_from_ISR(mask)
    \/ \E bits \in deferred : DeferredSetBits(bits)
    \/ \E s \in States, mask \in Masks : StartLoop(s, mask)

CallbackStep == \/ \E s \in States \cup {BUTT} : osh_node_fsm_set_state(s)
                \/ ReturnOk
                \/ ReturnError

(* A crash of the task is a panic: nothing runs any more before the restart.  *)
FsmNext == \/ task # "crashed" /\ (Clients \/ TaskStep \/ CallbackStep)
           \/ FsmReboot

FsmSafety == FsmInitial /\ [][FsmNext]_fsm_vars

(* The scheduler lets the task run, and the callbacks of the program return.  *)
FsmFairness == /\ WF_fsm_vars(TaskStep)
               /\ WF_fsm_vars(ReturnOk \/ ReturnError)

FsmSpec == FsmSafety /\ FsmFairness

-----------------------------------------------------------------------------
(* The bits of a set of events together.                                      *)
BitsOf(events) == UNION {e.bits : e \in events}

(* The events of one state are orthogonal (README.md:8, "event bits should be *)
(* Orthogonal"): no two of them share a bit, or are both without bits, and    *)
(* the mask loop_step waits for is exactly what they have together.           *)
OrthogonalEvents ==
    \A s \in States :
       /\ group_bits[s] = BitsOf(events_list[s])
       /\ \A e, f \in events_list[s] :
             e.bits = f.bits \/ e.bits \cap f.bits # {} => e = f

(* The event whose callback is running.                                       *)
RunningEvents == IF step.running = NULL THEN {} ELSE {step.running}

(* Dispatch is exactly once: while loop_step runs callbacks, each event the   *)
(* bits it took match has been run, is running or is still to run, and only   *)
(* one of the three; no other event is run.                                   *)
StepAccounts ==
    task \in {"dispatch", "callback"} =>
       /\ step.todo \cup RunningEvents \cup step.handled
             = Matched(step.state, step.bits)
       /\ step.handled \cap (step.todo \cup RunningEvents) = {}
       /\ step.todo \cap RunningEvents = {}

(* Callbacks of one step run in ascending order of their masks, which is what *)
(* puts POWERON before CONNECT when both are pending.                         *)
DispatchInOrder ==
    task \in {"dispatch", "callback"} =>
       \A e \in step.handled, f \in step.todo \cup RunningEvents :
          Below(e.bits, f.bits)

(* A latched bit is never lost: it leaves the event group only as a bit of an *)
(* event that loop_step is then bound to run, or with a restart.              *)
LatchedEventSurvives ==
    [][LET cleared == event_bits \ event_bits' IN
       cleared # {} => \/ cleared \subseteq BitsOf(step'.todo)
                       \/ PoweredOff']_fsm_vars

(* A registration that returns ESP_OK puts its event into the list of its     *)
(* state, where loop_step finds it (osh_node_fsm.c:65, "get or create if      *)
(* state not exists"), unless the number of the state is the one the latched  *)
(* bits happen to make: then it is told ESP_OK for nothing.                   *)
RegisterOkListsUnlessLatched ==
    [][\A r \in accepted' \ accepted :
          \/ \E e \in events_list'[r[1]] : e.bits = r[2]
          \/ r[1] = BitsValue(event_bits)]_fsm_vars

(* The bits of the step in progress that no callback has answered yet.        *)
Unanswered == IF task \in {"dispatch", "callback"}
              THEN UNION {e.bits \cap step.bits : e \in step.todo \cup RunningEvents}
              ELSE {}

Latch == INSTANCE OshEventLatch WITH
            Event   <- Bits,
            latched <- event_bits,
            taken   <- Unanswered,
            alive   <- task \notin {"exited", "crashed"}

(* The state machine implements the event latch: steps to steps, and an event *)
(* that was taken is answered unless the loop ends or the chip restarts.      *)
ImplementsLatch == Latch!LatchSpec
=============================================================================
