---------------------------- MODULE OshNodeProofs ----------------------------
(* Proofs about the whole node, for queues of any length and, except where a  *)
(* theorem says otherwise, for any choice of what may fail.                   *)
EXTENDS OshNode, OshFsmProofs

(* The three events osh_node_wifi_init registers, as they are listed.         *)
PowerOnEvent    == [bits |-> EventBits(POWERON),    callback |-> "init_poweron"]
ConnectEvent    == [bits |-> EventBits(CONNECT),    callback |-> "init_connect"]
DisconnectEvent == [bits |-> EventBits(DISCONNECT), callback |-> "on_disconnect"]

(* The registrations use states, masks and callbacks the state machine knows. *)
LEMMA RegistrationsType ==
  ASSUME NEW i \in DOMAIN Registrations
  PROVE  /\ Registrations[i].state \in States
         /\ Registrations[i].mask \in Masks
         /\ Registrations[i].callback \in Callbacks
  BY NodeEventsAssumption DEF Registrations

(* The constants the callbacks use.                                           *)
LEMMA NodeConstants ==
  /\ INIT \in States /\ IDLE \in States
  /\ POWERON \in Masks /\ CONNECT \in Masks /\ DISCONNECT \in Masks
  BY NodeEventsAssumption

-----------------------------------------------------------------------------
(* The node drives its state machine only through the interface.              *)

(* One step of the boot.                                                      *)
LEMMA BootRefines == Boot \/ BootStartFails => [Clients]_fsm_vars
<1>1. BootFsm => Clients
  BY DEF BootFsm, Clients
<1>2. BootRegister => Clients
  <2> SUFFICES ASSUME BootRegister PROVE Clients
    OBVIOUS
  <2>1. PICK i \in DOMAIN Registrations :
          osh_node_fsm_register_event(Registrations[i].state, Registrations[i].mask,
                                      Registrations[i].callback)
    BY DEF BootRegister, osh_node_fsm_register_event
  <2> QED  BY <2>1, RegistrationsType DEF Clients
<1>3. BootTimer \/ BootStartFails => UNCHANGED fsm_vars
  BY DEF BootTimer, BootStartFails
<1>4. BootStart => Clients
  BY NodeConstants DEF BootStart, Clients
<1> QED  BY <1>1, <1>2, <1>3, <1>4 DEF Boot

(* One step of wifi_task.                                                     *)
LEMMA WifiTaskRefines == WifiTask => [TaskStep \/ CallbackStep]_fsm_vars
<1>1. EngineStep => TaskStep \/ CallbackStep
  BY DEF EngineStep, CallBegins, CallReturns, TaskStep, CallbackStep
<1>2. ChangeState => CallbackStep
  BY NodeConstants DEF ChangeState, SetIdle, SetInit, CallbackStep
<1>3. PowerOn \/ ProtoCall \/ SessionCall \/ TimerCall => UNCHANGED fsm_vars
  BY DEF PowerOn, ProtoCall, SessionCall, TimerCall
<1> QED  BY <1>1, <1>2, <1>3 DEF WifiTask

(* One step of any other task: it latches an event or does not look at the    *)
(* state machine.                                                             *)
LEMMA OthersRefine ==
  EventTask \/ TimerCommand \/ TimerExpires \/ PingTask \/ Environment
    => [Clients]_fsm_vars
<1>1. EventTask => [Clients]_fsm_vars
  BY NodeConstants DEF EventTask, HandleStart, HandleDisconnected, HandleReconnect,
     HandleGotIp, HandleReadDns, Clients
<1>2. PingTask => [Clients]_fsm_vars
  BY NodeConstants DEF PingTask, ProbeAnswered, ProbeTimesOut, LastProbeAnswered,
                       LastProbeTimesOut, TimeoutConnects, LastTimeoutConnects,
                       ConnectAgain, ping_on_success, ping_on_timeout, Clients
<1>3. TimerCommand \/ TimerExpires \/ Environment => UNCHANGED fsm_vars
  BY DEF TimerCommand, TimerExpires, TimerRest, Environment
<1> QED  BY <1>1, <1>2, <1>3

(* Every way to restart.                                                      *)
LEMMA RestartsRefine ==
  BootAborts \/ ProtoPanics \/ DeletedSessionCrashes \/ ButtonPressed \/ Restart
    => Reboot
  BY DEF BootAborts, ProtoPanics, DeletedSessionCrashes, ButtonPressed, Restart

(* A step of the node is a step of the state machine, or leaves it alone.     *)
LEMMA NodeStepRefines == [NodeNext]_vars => [FsmNext]_fsm_vars
<1> SUFFICES ASSUME [NodeNext]_vars PROVE [FsmNext]_fsm_vars
  OBVIOUS
<1>1. CASE Restart \/ BootAborts \/ ProtoPanics \/ DeletedSessionCrashes \/ ButtonPressed
  BY <1>1, RestartsRefine DEF Reboot, FsmNext
<1>2. CASE UNCHANGED vars
  BY <1>2 DEF vars
<1>3. CASE /\ task # "crashed"
           /\ \/ Boot \/ BootStartFails \/ WifiTask \/ EventTask \/ TimerCommand
              \/ TimerExpires \/ PingTask \/ Environment
  <2>1. [Clients \/ TaskStep \/ CallbackStep]_fsm_vars
    BY <1>3, BootRefines, WifiTaskRefines, OthersRefine
  <2> QED  BY <1>3, <2>1 DEF FsmNext
<1> QED  BY <1>1, <1>2, <1>3 DEF NodeNext, Running

(* The node implements the event state machine, so that whatever is proved    *)
(* of the state machine holds in the node.                                    *)
THEOREM NodeImplementsFsm == NodeSafety => FsmSafety
<1>1. NodeInit => FsmInitial
  BY DEF NodeInit
<1> QED  BY <1>1, NodeStepRefines, PTL DEF NodeSafety, FsmSafety

(* In particular no event posted in a running node is lost.                   *)
THEOREM NodeLosesNoEvent == NodeSafety => LatchedEventSurvives
  BY NodeImplementsFsm, NoLatchedEventLost, PTL

-----------------------------------------------------------------------------
(* Where wifi_task is.  Each callback runs in the state it is registered for  *)
(* and leaves it at a known call; an event still to run finds the state it is *)
(* registered for, because the one callback that leaves a state is the last   *)
(* of its list to do so.                                                      *)
ListedEvents ==
    \A s \in States : \A e \in events_list[s] :
       \/ s = INIT /\ e \in {PowerOnEvent, ConnectEvent}
       \/ s = IDLE /\ e = DisconnectEvent

ConnectSteps    == {"open_sockets", "start_server", "start_heartbeat", "set_idle",
                    "new_session", "start_timer"}
DisconnectSteps == {"suspend_server", "stop_heartbeat", "close_sockets", "set_init",
                    "stop_timer", "delete_session", "stuck"}

CallbackContext ==
    /\ cb = "none" <=> task # "callback"
    /\ cb \in ConnectSteps => step.running = ConnectEvent /\ step.state = INIT
    /\ cb \in DisconnectSteps => step.running = DisconnectEvent /\ step.state = IDLE
    /\ cb \in {"open_sockets", "start_server", "start_heartbeat", "set_idle",
               "stop_timer", "delete_session"} => current_state = INIT
    /\ cb \in {"suspend_server", "stop_heartbeat", "close_sockets", "set_init",
               "stuck", "new_session", "start_timer"} => current_state = IDLE

PendingInState ==
    /\ task = "wait" => step.state = current_state
    /\ task \in {"dispatch", "callback"} =>
         /\ ConnectEvent \in step.todo => current_state = INIT
         /\ DisconnectEvent \in step.todo => current_state = IDLE

TaskInv == ListedEvents /\ CallbackContext /\ PendingInState

(* The three events are told apart by their callbacks.                        *)
LEMMA EventsDiffer == /\ PowerOnEvent # ConnectEvent
                      /\ PowerOnEvent # DisconnectEvent
                      /\ ConnectEvent # DisconnectEvent
  BY DEF PowerOnEvent, ConnectEvent, DisconnectEvent

(* Before the boot.                                                           *)
LEMMA TaskInvInit == NodeInit => TaskInv
  BY DEF NodeInit, FsmInitial, PoweredOff, WifiInit, TaskInv, ListedEvents,
         CallbackContext, PendingInState, ConnectSteps, DisconnectSteps

(* After a restart.                                                           *)
LEMMA TaskInvReboot == Reboot => TaskInv'
  BY DEF Reboot, FsmReboot, TaskInv, ListedEvents,
         CallbackContext, PendingInState, ConnectSteps, DisconnectSteps

(* Whoever is not wifi_task leaves all of this alone.                         *)
task_vars == << lists, current_state, task, step, cb, boot, proto_vars >>

(* The other tasks and the environment latch events at most.                  *)
LEMMA OthersLeaveTask ==
  EventTask \/ TimerCommand \/ TimerExpires \/ PingTask \/ Environment
    => UNCHANGED task_vars
<1>1. EventTask => UNCHANGED task_vars
  BY DEF EventTask, HandleStart, HandleDisconnected, HandleReconnect, HandleGotIp,
     HandleReadDns, HandlerRest, osh_node_fsm_invoke_event, fsm_vars, lists, task_vars
<1>2. PingTask => UNCHANGED task_vars
  BY DEF PingTask, ProbeAnswered, ProbeTimesOut, LastProbeAnswered, LastProbeTimesOut,
         TimeoutConnects, LastTimeoutConnects, ConnectAgain, ping_on_success,
         ping_on_timeout, PingRest, osh_node_fsm_invoke_event, fsm_vars, lists,
         task_vars
<1>3. TimerCommand \/ TimerExpires \/ Environment => UNCHANGED task_vars
  BY DEF TimerCommand, TimerExpires, TimerRest, Environment, wifi_vars, fsm_vars,
     lists, task_vars
<1> QED  BY <1>1, <1>2, <1>3

(* The invariant is about these variables only.                               *)
LEMMA TaskInvOthers == TaskInv /\ UNCHANGED task_vars => TaskInv'
  BY DEF TaskInv, task_vars, lists, ListedEvents, CallbackContext, PendingInState

(* The boot.                                                                  *)
LEMMA TaskInvBoot ==
  ASSUME FsmInv, TaskInv, Boot \/ BootStartFails
  PROVE  TaskInv'
<1>1. CASE BootFsm \/ BootTimer \/ BootStartFails
  <2>1. UNCHANGED << lists, current_state, task, step, cb >> \/ BootFsm
    BY <1>1 DEF BootTimer, BootStartFails, BootRest, fsm_vars, lists
  <2>2. BootFsm => UNCHANGED << events_list, current_state, task, step, cb >>
    BY DEF BootFsm, osh_node_fsm_init, BootRest
  <2> QED  BY <2>1, <2>2 DEF lists, TaskInv, ListedEvents, CallbackContext, PendingInState
<1>2. CASE BootRegister
  <2>1. PICK i \in DOMAIN Registrations :
          \/ RegisterNewEvent(Registrations[i].state, EventBits(Registrations[i].mask),
                              Registrations[i].callback)
          \/ RegisterMissed(Registrations[i].state, EventBits(Registrations[i].mask))
    BY <1>2 DEF BootRegister
  <2>2. UNCHANGED << current_state, task, step, cb >>
    BY <1>2 DEF BootRegister, BootRest, RegisterNewEvent, RegisterMissed
  <2>3. ListedEvents'
    <3>1. CASE UNCHANGED events_list
      BY <3>1 DEF TaskInv, ListedEvents
    <3>2. CASE RegisterNewEvent(Registrations[i].state,
                 EventBits(Registrations[i].mask), Registrations[i].callback)
      <4> DEFINE r == Registrations[i]
                 new == [bits |-> EventBits(r.mask), callback |-> r.callback]
      <4>1. events_list' = [events_list EXCEPT ![r.state] = @ \cup {new}]
        BY <3>2 DEF RegisterNewEvent
      <4>2. \/ r.state = INIT /\ new \in {PowerOnEvent, ConnectEvent}
            \/ r.state = IDLE /\ new = DisconnectEvent
        BY DEF Registrations, PowerOnEvent, ConnectEvent, DisconnectEvent
      <4>3. r.state \in States /\ events_list \in [States -> SUBSET Event]
        BY RegistrationsType DEF FsmInv, FsmTypeOK
      <4> HIDE DEF r, new
      <4>4. ASSUME NEW s \in States, NEW e \in events_list'[s]
            PROVE  \/ s = INIT /\ e \in {PowerOnEvent, ConnectEvent}
                   \/ s = IDLE /\ e = DisconnectEvent
        <5>1. e \in events_list[s] \/ (s = r.state /\ e = new)
          BY <4>1, <4>3, <4>4
        <5> QED  BY <4>2, <5>1 DEF TaskInv, ListedEvents
      <4> QED  BY <4>4 DEF ListedEvents
    <3> QED  BY <2>1, <3>1, <3>2 DEF RegisterMissed
  <2> QED  BY <2>2, <2>3 DEF TaskInv, CallbackContext, PendingInState
<1>3. CASE BootStart
  <2>1. UNCHANGED << lists, step, cb >> /\ task = "none" /\ task' = "loop"
    BY <1>3 DEF BootStart, StartLoop, BootRest
  <2> QED  BY <2>1 DEF lists, TaskInv, ListedEvents, CallbackContext, PendingInState,
              ConnectSteps, DisconnectSteps
<1> QED  BY <1>1, <1>2, <1>3 DEF Boot

(* An event that loop_step still has to run, or runs, is one of the three, and *)
(* is listed under the state the step began in.                               *)
LEMMA StepEvents ==
  ASSUME FsmInv, ListedEvents, task \in {"dispatch", "callback"},
         NEW e \in step.todo \cup RunningEvents
  PROVE  \/ step.state = INIT /\ e \in {PowerOnEvent, ConnectEvent}
         \/ step.state = IDLE /\ e = DisconnectEvent
<1>1. e \in events_list[step.state]
  BY DEF FsmInv, StepAccounts, Matched
<1>2. step.state \in States
  BY DEF FsmInv, FsmTypeOK, Step
<1> QED  BY <1>1, <1>2 DEF ListedEvents

(* wifi_task inside loop_step.                                                *)
LEMMA TaskInvEngine ==
  ASSUME FsmInv, TaskInv, EngineStep
  PROVE  TaskInv'
<1> USE DEF TaskInv
<1>t. step \in Step
  BY DEF FsmInv, FsmTypeOK
<1>1. CASE EnterUnknownState \/ EnterStateWithoutEvents \/ FindNoCallback \/ EndStep
  <2>1. /\ UNCHANGED << lists, current_state >>
        /\ task \in {"loop", "dispatch"} /\ task' \in {"crashed", "exited", "loop"}
    BY <1>1 DEF EnterUnknownState, EnterStateWithoutEvents, FindNoCallback, EndStep
  <2>2. cb = "none" /\ cb' = "none"
    BY <1>1, <2>1 DEF EngineStep, CallbackContext, CallBegins, CallReturns,
       BeginCallback, ReturnOk
  <2> QED  BY <2>1, <2>2 DEF lists, ListedEvents, CallbackContext, PendingInState,
              ConnectSteps, DisconnectSteps
<1>2. CASE EnterState
  <2>1. /\ UNCHANGED << lists, current_state >>
        /\ task = "loop" /\ task' = "wait" /\ step'.state = current_state
    BY <1>2 DEF EnterState, NoStep
  <2>2. cb = "none" /\ cb' = "none"
    BY <2>1 DEF EngineStep, CallbackContext, CallBegins, CallReturns,
       BeginCallback, ReturnOk
  <2> QED  BY <2>1, <2>2 DEF lists, ListedEvents, CallbackContext, PendingInState,
              ConnectSteps, DisconnectSteps
<1>3. CASE WaitBits
  <2>1. /\ UNCHANGED << lists, current_state >>
        /\ task = "wait" /\ task' = "dispatch"
        /\ step'.todo = Matched(step.state, event_bits)
    BY <1>3, <1>t DEF WaitBits, Step
  <2>2. cb = "none" /\ cb' = "none"
    BY <2>1 DEF EngineStep, CallbackContext, CallBegins, CallReturns,
       BeginCallback, ReturnOk
  <2>3. ASSUME NEW e \in step'.todo
        PROVE  \/ current_state = INIT /\ e \in {PowerOnEvent, ConnectEvent}
               \/ current_state = IDLE /\ e = DisconnectEvent
    <3>1. e \in events_list[current_state] /\ current_state \in States
      BY <2>1, <2>3, <1>t DEF Matched, PendingInState, Step
    <3> QED  BY <3>1 DEF ListedEvents
  <2>4. PendingInState'
    BY <2>1, <2>3, EventsDiffer DEF PendingInState
  <2> QED  BY <2>1, <2>2, <2>4 DEF lists, ListedEvents, CallbackContext,
              ConnectSteps, DisconnectSteps
<1>4. CASE CallBegins
  <2>1. PICK e \in step.todo : step' = [step EXCEPT !.todo = @ \ {e}, !.running = e]
    BY <1>4 DEF CallBegins, BeginCallback
  <2>2. /\ UNCHANGED << lists, current_state >>
        /\ task = "dispatch" /\ task' = "callback" /\ cb' = FirstStep(step'.running.callback)
    BY <1>4 DEF CallBegins, BeginCallback
  <2>3. step'.running = e /\ step'.state = step.state /\ step'.todo \subseteq step.todo
    BY <2>1, <1>t DEF Step
  <2>4. \/ step.state = INIT /\ e \in {PowerOnEvent, ConnectEvent}
        \/ step.state = IDLE /\ e = DisconnectEvent
    BY <2>1, <2>2, StepEvents
  <2>5. /\ e = PowerOnEvent => cb' = "register_handlers"
        /\ e = ConnectEvent => cb' = "open_sockets"
        /\ e = DisconnectEvent => cb' = "suspend_server"
    BY <2>2, <2>3 DEF FirstStep, PowerOnEvent, ConnectEvent, DisconnectEvent
  <2>6. PendingInState'
    BY <2>2, <2>3 DEF PendingInState
  <2>7. /\ e = ConnectEvent => current_state = INIT
        /\ e = DisconnectEvent => current_state = IDLE
    BY <2>1, <2>2 DEF PendingInState
  <2>8. CallbackContext'
    BY <2>2, <2>3, <2>4, <2>5, <2>7 DEF CallbackContext, ConnectSteps, DisconnectSteps
  <2> QED  BY <2>2, <2>6, <2>8 DEF lists, ListedEvents
<1>5. CASE CallReturns
  <2>1. /\ UNCHANGED << lists, current_state >>
        /\ task = "callback" /\ task' = "dispatch" /\ cb' = "none"
        /\ step'.todo = step.todo
    BY <1>5, <1>t DEF CallReturns, ReturnOk, Step
  <2> QED  BY <2>1 DEF lists, ListedEvents, CallbackContext, PendingInState,
              ConnectSteps, DisconnectSteps
<1> QED  BY <1>1, <1>2, <1>3, <1>4, <1>5 DEF EngineStep

(* Which calls a step of loop_step can leave, and which it can lead to.       *)
LEMMA EngineCalls ==
  ASSUME FsmInv, TaskInv, EngineStep
  PROVE  /\ cb \in {"none", "return"}
         /\ cb' \in {"none", "register_handlers", "open_sockets", "suspend_server"}
         /\ cb' = "open_sockets" => current_state = INIT
         /\ cb' = "suspend_server" => current_state = IDLE
         /\ task # "none" /\ task' # "none"
         /\ UNCHANGED current_state
<1>1. task # "none" /\ task' # "none" /\ UNCHANGED current_state
  BY DEF EngineStep, EnterUnknownState, EnterStateWithoutEvents, EnterState,
     WaitBits, FindNoCallback, EndStep, CallBegins, BeginCallback, CallReturns, ReturnOk
<1>2. CASE ~ CallBegins
  <2>1. cb \in {"none", "return"}
    BY <1>2 DEF EngineStep, EnterUnknownState, EnterStateWithoutEvents, EnterState,
       WaitBits, FindNoCallback, EndStep, CallReturns, TaskInv, CallbackContext
  <2>2. cb' = "none"
    BY <1>2, <2>1 DEF EngineStep, EnterUnknownState, EnterStateWithoutEvents, EnterState,
       WaitBits, FindNoCallback, EndStep, CallReturns, TaskInv, CallbackContext
  <2> QED  BY <1>1, <2>1, <2>2
<1>3. CASE CallBegins
  <2>1. PICK e \in step.todo : step' = [step EXCEPT !.todo = @ \ {e}, !.running = e]
    BY <1>3 DEF CallBegins, BeginCallback
  <2>2. task = "dispatch" /\ cb = "none" /\ cb' = FirstStep(step'.running.callback)
    BY <1>3 DEF CallBegins, BeginCallback, TaskInv, CallbackContext
  <2>3. step'.running = e
    BY <2>1 DEF FsmInv, FsmTypeOK, Step
  <2>4. e \in {PowerOnEvent, ConnectEvent, DisconnectEvent}
    BY <2>1, <2>2, StepEvents DEF TaskInv
  <2>5. /\ e = PowerOnEvent => cb' = "register_handlers"
        /\ e = ConnectEvent => cb' = "open_sockets"
        /\ e = DisconnectEvent => cb' = "suspend_server"
    BY <2>2, <2>3 DEF FirstStep, PowerOnEvent, ConnectEvent, DisconnectEvent
  <2>6. /\ e = ConnectEvent => current_state = INIT
        /\ e = DisconnectEvent => current_state = IDLE
    BY <2>1, <2>2 DEF TaskInv, PendingInState
  <2> QED  BY <1>1, <2>2, <2>4, <2>5, <2>6
<1> QED  BY <1>2, <1>3

(* wifi_task inside a callback.  A callback that changes the state is not     *)
(* itself still to run: this is what dispatch-exactly-once is needed for.     *)
LEMMA TaskInvCallback ==
  ASSUME FsmInv, TaskInv,
         PowerOn \/ ProtoCall \/ ChangeState \/ SessionCall \/ TimerCall
  PROVE  TaskInv'
<1> USE DEF TaskInv
<1>1. CASE PowerOn \/ ProtoCall \/ SessionCall \/ TimerCall
  <2>1. UNCHANGED << lists, current_state, task, step >>
    BY <1>1 DEF PowerOn, ProtoCall, SessionCall, TimerCall, fsm_vars, lists
  <2>2. CallbackContext'
    BY <1>1, <2>1 DEF PowerOn, ProtoCall, SessionCall, TimerCall, Call,
       CallbackContext, ConnectSteps, DisconnectSteps
  <2> QED  BY <2>1, <2>2 DEF lists, ListedEvents, PendingInState
<1>2. CASE ChangeState
  <2>1. /\ UNCHANGED << lists, task, step >> /\ task = "callback"
        /\ \/ cb = "set_idle" /\ cb' = "new_session" /\ current_state' = IDLE
           \/ cb = "set_init" /\ cb' = "stop_timer" /\ current_state' = INIT
    BY <1>2, NodeConstants DEF ChangeState, SetIdle, SetInit, Call, SetState,
       osh_node_fsm_set_state
  <2>2. /\ cb = "set_idle" => ConnectEvent \notin step.todo /\ step.state = INIT
        /\ cb = "set_init" => DisconnectEvent \notin step.todo /\ step.state = IDLE
    <3>1. /\ cb = "set_idle" => step.running = ConnectEvent /\ step.state = INIT
          /\ cb = "set_init" => step.running = DisconnectEvent /\ step.state = IDLE
      BY DEF CallbackContext, ConnectSteps, DisconnectSteps
    <3>2. step.running # NULL /\ step.todo \cap RunningEvents = {}
      BY <2>1 DEF FsmInv, RunningInv, StepAccounts
    <3> QED  BY <3>1, <3>2 DEF RunningEvents
  <2>3. ASSUME NEW e \in step.todo
        PROVE  \/ step.state = INIT /\ e \in {PowerOnEvent, ConnectEvent}
               \/ step.state = IDLE /\ e = DisconnectEvent
    BY <2>1, StepEvents
  <2>4. PendingInState'
    BY <2>1, <2>2, <2>3, EventsDiffer DEF PendingInState, INIT, IDLE
  <2>5. CallbackContext'
    BY <2>1 DEF CallbackContext, ConnectSteps, DisconnectSteps
  <2> QED  BY <2>1, <2>4, <2>5 DEF lists, ListedEvents
<1> QED  BY <1>1, <1>2

(* TaskInv is inductive, given the invariant of the state machine.            *)
LEMMA TaskInvNext == FsmInv /\ TaskInv /\ [NodeNext]_vars => TaskInv'
<1> SUFFICES ASSUME FsmInv, TaskInv, [NodeNext]_vars PROVE TaskInv'
  OBVIOUS
<1>1. CASE Restart \/ BootAborts \/ ProtoPanics \/ DeletedSessionCrashes \/ ButtonPressed
  BY <1>1, RestartsRefine, TaskInvReboot
<1>2. CASE UNCHANGED vars
  <2>1. UNCHANGED task_vars
    BY <1>2 DEF vars, fsm_vars, wifi_vars, proto_vars, lists, task_vars
  <2> QED  BY <2>1, TaskInvOthers
<1>3. CASE Boot \/ BootStartFails
  BY <1>3, TaskInvBoot
<1>4. CASE WifiTask
  BY <1>4, TaskInvEngine, TaskInvCallback DEF WifiTask
<1>5. CASE EventTask \/ TimerCommand \/ TimerExpires \/ PingTask \/ Environment
  BY <1>5, OthersLeaveTask, TaskInvOthers
<1> QED  BY <1>1, <1>2, <1>3, <1>4, <1>5 DEF NodeNext, Running

(* Both invariants hold in every behaviour of the node.                       *)
LEMMA TaskInvariant == NodeSafety => [](FsmInv /\ TaskInv)
<1>1. NodeSafety => []FsmInv
  BY NodeImplementsFsm, FsmInvariant, PTL
<1>2. NodeInit => TaskInv
  BY TaskInvInit
<1>3. FsmInv /\ TaskInv /\ [NodeNext]_vars => TaskInv'
  BY TaskInvNext
<1> QED  BY <1>1, <1>2, <1>3, PTL DEF NodeSafety

-----------------------------------------------------------------------------
(* The request server.  It is started before the state becomes IDLE and       *)
(* suspended before the state stops being IDLE; in between the sockets are    *)
(* not touched.                                                               *)
ServerInv ==
    /\ RunningServerHasSockets
    /\ cb \in {"start_server", "start_heartbeat"} => socks = AllSockets
    /\ cb \in {"stop_heartbeat", "close_sockets", "set_init"} => proto_task # "running"
    /\ proto_task = "running" =>
          /\ task # "none"
          /\ current_state = IDLE \/ cb \in {"start_heartbeat", "set_idle"}

(* Before the boot, and after a restart.                                      *)
LEMMA ServerInvInit == /\ NodeInit => ServerInv
                       /\ Reboot => ServerInv'
  BY DEF NodeInit, ProtoInit, WifiInit, Reboot, ProtoReboot, ServerInv,
         RunningServerHasSockets

(* The calls of proto_start and proto_stop.                                   *)
LEMMA ServerInvProto ==
  ASSUME TaskInv, ServerInv, ProtoCall
  PROVE  ServerInv'
<1> USE DEF ServerInv, RunningServerHasSockets
<1>1. UNCHANGED << task, current_state >> /\ (cb # "none" => task = "callback")
  BY DEF ProtoCall, fsm_vars, TaskInv, CallbackContext
<1>2. CASE Call("open_sockets", "start_server") /\ OpenSockets
  <2>1. current_state # IDLE
    BY <1>2 DEF Call, TaskInv, CallbackContext, INIT, IDLE
  <2> QED  BY <1>1, <1>2, <2>1 DEF Call, OpenSockets
<1>3. CASE Call("open_sockets", "set_idle") /\ OpenSocketsFails
  <2>1. current_state # IDLE
    BY <1>3 DEF Call, TaskInv, CallbackContext, INIT, IDLE
  <2> QED  BY <1>1, <1>3, <2>1 DEF Call, OpenSocketsFails
<1>4. CASE Call("start_server", "start_heartbeat") /\ (StartServer \/ StartServerFails)
  BY <1>1, <1>4 DEF Call, StartServer, StartServerFails, proto_vars
<1>5. CASE Call("start_heartbeat", "set_idle") /\ (StartHeartbeat \/ StartHeartbeatFails)
  BY <1>1, <1>5 DEF Call, StartHeartbeat, StartHeartbeatFails, proto_vars
<1>6. CASE \/ Call("suspend_server", "stop_heartbeat") /\ SuspendServer
           \/ Call("suspend_server", "stuck") /\ SuspendsCaller /\ UNCHANGED proto_vars
  BY <1>1, <1>6 DEF Call, SuspendServer, SuspendsCaller, proto_vars
<1>7. CASE \/ Call("stop_heartbeat", "close_sockets") /\ StopHeartbeat
           \/ Call("close_sockets", "set_init") /\ CloseSockets
  BY <1>1, <1>7 DEF Call, StopHeartbeat, CloseSockets, proto_vars
<1> QED  BY <1>2, <1>3, <1>4, <1>5, <1>6, <1>7 DEF ProtoCall

(* The other calls of wifi_task.                                              *)
LEMMA ServerInvWifi ==
  ASSUME FsmInv, TaskInv, ServerInv,
         EngineStep \/ PowerOn \/ ChangeState \/ SessionCall \/ TimerCall
  PROVE  ServerInv'
<1> USE DEF ServerInv, RunningServerHasSockets
<1>1. UNCHANGED << socks, proto_task >>
  BY DEF EngineStep, PowerOn, ChangeState, SessionCall, TimerCall, proto_vars
<1>2. CASE PowerOn \/ SessionCall \/ TimerCall
  BY <1>1, <1>2 DEF PowerOn, SessionCall, TimerCall, Call, fsm_vars
<1>3. CASE ChangeState
  <2>1. \/ cb = "set_idle" /\ cb' = "new_session" /\ current_state' = IDLE
        \/ cb = "set_init" /\ cb' = "stop_timer"
    BY <1>3, NodeConstants DEF ChangeState, SetIdle, SetInit, Call, SetState,
       osh_node_fsm_set_state
  <2> QED  BY <1>1, <1>3, <2>1 DEF ChangeState, SetIdle, SetInit, osh_node_fsm_set_state
<1>4. CASE EngineStep
  BY <1>1, <1>4, EngineCalls
<1> QED  BY <1>2, <1>3, <1>4

(* The boot happens before wifi_task exists, hence before the first start of  *)
(* the server.                                                                *)
LEMMA ServerInvBoot ==
  ASSUME FsmInv, TaskInv, ServerInv, Boot \/ BootStartFails
  PROVE  ServerInv'
<1>1. UNCHANGED << socks, proto_task, cb >>
  BY DEF Boot, BootFsm, BootRegister, BootTimer, BootStart, BootStartFails,
     BootRest, proto_vars
<1>2. \/ UNCHANGED << task, current_state >>
      \/ task = "none"
  BY DEF Boot, BootFsm, BootRegister, BootTimer, BootStart, BootStartFails,
     osh_node_fsm_init, RegisterNewEvent, RegisterMissed, StartLoop, fsm_vars
<1> QED  BY <1>1, <1>2 DEF ServerInv, RunningServerHasSockets

(* ServerInv is inductive, given where wifi_task is.                          *)
LEMMA ServerInvNext == FsmInv /\ TaskInv /\ ServerInv /\ [NodeNext]_vars => ServerInv'
<1> SUFFICES ASSUME FsmInv, TaskInv, ServerInv, [NodeNext]_vars PROVE ServerInv'
  OBVIOUS
<1>1. CASE Restart \/ BootAborts \/ ProtoPanics \/ DeletedSessionCrashes \/ ButtonPressed
  BY <1>1, RestartsRefine, ServerInvInit
<1>2. CASE UNCHANGED vars \/ EventTask \/ TimerCommand \/ TimerExpires \/ PingTask
           \/ Environment
  <2>1. UNCHANGED << socks, proto_task, task, current_state, cb >>
    BY <1>2, OthersLeaveTask DEF vars, fsm_vars, wifi_vars, proto_vars, task_vars
  <2> QED  BY <2>1 DEF ServerInv, RunningServerHasSockets
<1>3. CASE Boot \/ BootStartFails
  BY <1>3, ServerInvBoot
<1>4. CASE WifiTask
  BY <1>4, ServerInvWifi, ServerInvProto DEF WifiTask
<1> QED  BY <1>1, <1>2, <1>3, <1>4 DEF NodeNext, Running

(* The request server never runs without its sockets, whichever calls fail.   *)
THEOREM ServerHasSockets == NodeSafety => []RunningServerHasSockets
<1>1. NodeInit => ServerInv
  BY ServerInvInit
<1>2. FsmInv /\ TaskInv /\ ServerInv /\ [NodeNext]_vars => ServerInv'
  BY ServerInvNext
<1>3. ServerInv => RunningServerHasSockets
  BY DEF ServerInv
<1> QED  BY <1>1, <1>2, <1>3, TaskInvariant, PTL DEF NodeSafety

-----------------------------------------------------------------------------
(* What each call of init_connect and on_disconnect has turned on or off, at  *)
(* every point where wifi_task can be interrupted.                            *)
NoResourceFaults == Faults \cap {"socket", "task", "timer", "ping"} = {}

ServerOn  == IF current_state = IDLE
             THEN cb \notin {"stop_heartbeat", "close_sockets", "set_init"}
             ELSE cb \in {"start_heartbeat", "set_idle"}
SocketsOn == \/ current_state = IDLE /\ cb # "set_init"
             \/ cb \in {"start_server", "start_heartbeat", "set_idle"}
SessionOn == \/ current_state = IDLE /\ cb # "new_session"
             \/ cb \in {"stop_timer", "delete_session"}
TimerOn   == \/ current_state = IDLE /\ cb \notin {"new_session", "start_timer"}
             \/ cb = "stop_timer"

ModeInv ==
    /\ proto_task = "running" <=> ServerOn
    /\ socks = IF SocketsOn THEN AllSockets ELSE {}
    /\ ping = "session" <=> SessionOn
    /\ ~ timer_lost => (TimerAfterQueue = "armed" <=> TimerOn)
    /\ timer_q \in Seq({"stopped", "armed"})
    /\ task = "none" => current_state # IDLE
    /\ boot \in Nat
    /\ boot <= StartBoot => task = "none"

mode_vars == << socks, proto_task, ping, timer_vars, task, current_state, cb, boot >>

(* The invariant is about these variables only.                               *)
LEMMA ModeInvSame == ModeInv /\ UNCHANGED mode_vars => ModeInv'
  BY DEF ModeInv, mode_vars, timer_vars, TimerAfterQueue, ServerOn, SocketsOn,
         SessionOn, TimerOn, StartBoot

(* The steps of the boot are numbered 0 .. 5.                                 *)
LEMMA BootSteps == DOMAIN Registrations = 1 .. 3 /\ TimerBoot = 4 /\ StartBoot = 5
  BY DEF Registrations, TimerBoot, StartBoot

(* OSH_FSM_STATE_BUTT is not a state.                                         *)
LEMMA ButtIsNoState == BUTT # IDLE
  BY NodeEventsAssumption, FsmAssumption DEF States

(* Before the boot, and after a restart.                                      *)
LEMMA ModeInvInit == /\ NodeInit => ModeInv
                     /\ Reboot => ModeInv'
<1> USE DEF ModeInv, TimerAfterQueue, ServerOn, SocketsOn, SessionOn, TimerOn
<1>1. << >> \in Seq({"stopped", "armed"})
  OBVIOUS
<1>2. NodeInit => ModeInv
  BY <1>1, ButtIsNoState DEF NodeInit, FsmInitial, PoweredOff, ProtoInit, WifiInit
<1>3. Reboot => ModeInv'
  BY <1>1, ButtIsNoState DEF Reboot, FsmReboot, ProtoReboot
<1> QED  BY <1>2, <1>3

(* A command more: the timer will be what it says, unless it was missed.      *)
LEMMA QueuedLast ==
  ASSUME NEW command \in {"stopped", "armed"}, timer_q \in Seq({"stopped", "armed"}),
         QueueCommand(command)
  PROVE  /\ timer_lost' \/ TimerAfterQueue' = command
         /\ timer_q' \in Seq({"stopped", "armed"})
<1>1. CASE CommandQueued(command)
  BY <1>1 DEF CommandQueued, QueueCommand, TimerAfterQueue
<1>2. CASE CommandRefused(command)
  BY <1>2 DEF CommandRefused, QueueCommand, TimerAfterQueue
<1> QED  BY <1>1, <1>2 DEF QueueCommand

(* A command executed: nothing changes in what the timer will be.             *)
LEMMA ExecutedFirst ==
  ASSUME timer_q \in Seq({"stopped", "armed"}), TimerCommand
  PROVE  TimerAfterQueue' = TimerAfterQueue /\ timer_q' \in Seq({"stopped", "armed"})
<1> DEFINE Commands == {"stopped", "armed"}
<1>1. /\ timer_q # << >> /\ timer' = Head(timer_q) /\ timer_q' = Tail(timer_q)
  BY DEF TimerCommand
<1>2. timer_q \in Seq(Commands)
  OBVIOUS
<1> HIDE DEF Commands
<1>3. /\ timer_q' \in Seq(Commands)
      /\ Len(timer_q') = Len(timer_q) - 1
      /\ Len(timer_q) \in Nat \ {0}
  BY <1>1, <1>2
<1>4. CASE Len(timer_q) = 1
  <2>1. timer_q' = << >> /\ timer' = timer_q[1]
    BY <1>1, <1>2, <1>3, <1>4
  <2> QED  BY <1>1, <1>3, <1>4, <2>1 DEF TimerAfterQueue, Commands
<1>5. CASE Len(timer_q) # 1
  <2>1. timer_q' # << >> /\ Len(timer_q') \in 1 .. Len(timer_q')
    BY <1>3, <1>5
  <2>2. timer_q'[Len(timer_q')] = timer_q[Len(timer_q') + 1]
    BY <1>1, <1>2, <1>3, <2>1
  <2>3. timer_q'[Len(timer_q')] = timer_q[Len(timer_q)]
    BY <1>3, <2>2
  <2> QED  BY <1>1, <1>3, <2>1, <2>3 DEF TimerAfterQueue, Commands
<1> QED  BY <1>4, <1>5

(* The calls of proto_start and proto_stop.                                   *)
LEMMA ModeInvProto ==
  ASSUME NoResourceFaults, TaskInv, ModeInv, ProtoCall
  PROVE  ModeInv'
<1>1. UNCHANGED << ping, timer, timer_q, timer_lost, task, current_state, boot >>
  BY DEF ProtoCall, fsm_vars, ping_vars, timer_vars
<1>2. /\ cb \in {"open_sockets", "start_server", "start_heartbeat"} => current_state # IDLE
      /\ cb \in {"suspend_server", "stop_heartbeat", "close_sockets"} => current_state = IDLE
  BY DEF TaskInv, CallbackContext, INIT, IDLE
<1> USE DEF ModeInv, TimerAfterQueue, ServerOn, SocketsOn, SessionOn, TimerOn,
            NoResourceFaults, StartBoot
<1>3. CASE \/ Call("open_sockets", "start_server") /\ OpenSockets
           \/ Call("open_sockets", "set_idle") /\ OpenSocketsFails
  BY <1>1, <1>2, <1>3 DEF Call, OpenSockets, OpenSocketsFails
<1>4. CASE \/ Call("start_server", "start_heartbeat") /\ (StartServer \/ StartServerFails)
           \/ Call("start_heartbeat", "set_idle")
                /\ (StartHeartbeat \/ StartHeartbeatFails)
  BY <1>1, <1>2, <1>4 DEF Call, StartServer, StartServerFails, StartHeartbeat,
     StartHeartbeatFails
<1>5. CASE \/ Call("suspend_server", "stop_heartbeat") /\ SuspendServer
           \/ Call("suspend_server", "stuck") /\ SuspendsCaller /\ UNCHANGED proto_vars
  BY <1>1, <1>2, <1>5 DEF Call, SuspendServer, SuspendsCaller
<1>6. CASE \/ Call("stop_heartbeat", "close_sockets") /\ StopHeartbeat
           \/ Call("close_sockets", "set_init") /\ CloseSockets
  BY <1>1, <1>2, <1>6 DEF Call, StopHeartbeat, CloseSockets, proto_vars
<1> QED  BY <1>3, <1>4, <1>5, <1>6 DEF ProtoCall

(* The calls that change the state, the session and the timer.                *)
LEMMA ModeInvCalls ==
  ASSUME NoResourceFaults, TaskInv, ModeInv,
         PowerOn \/ ChangeState \/ SessionCall \/ TimerCall
  PROVE  ModeInv'
<1> USE DEF ModeInv, StartBoot
<1>1. UNCHANGED << socks, proto_task, task, boot >>
  BY DEF PowerOn, ChangeState, SetIdle, SetInit, osh_node_fsm_set_state, SessionCall,
     TimerCall, proto_vars, fsm_vars
<1>2. /\ cb \in {"set_idle", "stop_timer", "delete_session"} => current_state # IDLE
      /\ cb \in {"set_init", "new_session", "start_timer"} => current_state = IDLE
      /\ cb # "none" => task # "none"
  BY DEF TaskInv, CallbackContext, INIT, IDLE
<1>3. CASE PowerOn
  BY <1>1, <1>3 DEF PowerOn, Call, fsm_vars, timer_vars, ping_vars, TimerAfterQueue,
     ServerOn, SocketsOn, SessionOn, TimerOn
<1>4. CASE ChangeState
  <2>1. \/ cb = "set_idle" /\ cb' = "new_session" /\ current_state' = IDLE
        \/ cb = "set_init" /\ cb' = "stop_timer" /\ current_state' = INIT
    BY <1>4, NodeConstants DEF ChangeState, SetIdle, SetInit, Call, SetState,
       osh_node_fsm_set_state
  <2>2. UNCHANGED << ping, timer, timer_q, timer_lost >>
    BY <1>4 DEF ChangeState, timer_vars, ping_vars
  <2> QED  BY <1>1, <1>2, <2>1, <2>2 DEF TimerAfterQueue, ServerOn, SocketsOn,
              SessionOn, TimerOn, INIT, IDLE
<1>5. CASE SessionCall
  <2>1. UNCHANGED << current_state, timer, timer_q, timer_lost >>
    BY <1>5 DEF SessionCall, fsm_vars, timer_vars
  <2> QED  BY <1>1, <1>2, <1>5, <2>1 DEF SessionCall, Call, NewSession, NewSessionFails,
              NoResourceFaults, DeleteSession, TimerAfterQueue, ServerOn, SocketsOn,
              SessionOn, TimerOn
<1>6. CASE TimerCall
  <2>1. UNCHANGED << current_state, ping >>
    BY <1>6 DEF TimerCall, fsm_vars, ping_vars
  <2>2. CASE cb = "start_timer"
    <3>1. cb' = "return" /\ QueueCommand("armed")
      BY <1>6, <2>2 DEF TimerCall, Call
    <3> QED  BY <1>1, <1>2, <2>1, <2>2, <3>1, QueuedLast DEF ServerOn, SocketsOn,
                SessionOn, TimerOn
  <2>3. CASE cb = "stop_timer"
    <3>1. cb' = "delete_session" /\ QueueCommand("stopped")
      BY <1>6, <2>3 DEF TimerCall, Call
    <3> QED  BY <1>1, <1>2, <2>1, <2>3, <3>1, QueuedLast DEF ServerOn, SocketsOn,
                SessionOn, TimerOn
  <2> QED  BY <1>6, <2>2, <2>3 DEF TimerCall, Call
<1> QED  BY <1>3, <1>4, <1>5, <1>6

(* Nobody but the daemon, wifi_task and the boot touches the timer.           *)
LEMMA OthersLeaveTimer ==
  EventTask \/ TimerExpires \/ PingTask \/ Environment => UNCHANGED << ping, timer_vars >>
  BY DEF EventTask, HandleStart, HandleDisconnected, HandleReconnect,
     HandleGotIp, HandleReadDns, HandlerRest, TimerExpires, PingTask,
     ProbeAnswered, ProbeTimesOut, LastProbeAnswered, LastProbeTimesOut,
     TimeoutConnects, LastTimeoutConnects, PingRest, Environment, wifi_vars,
     timer_vars, ping_vars

(* The other tasks: only the timer daemon touches any of this.                *)
LEMMA ModeInvOthers ==
  ASSUME ModeInv,
         EventTask \/ TimerCommand \/ TimerExpires \/ PingTask \/ Environment
  PROVE  ModeInv'
<1>1. UNCHANGED << socks, proto_task, task, current_state, cb, boot >>
  BY OthersLeaveTask DEF task_vars, proto_vars
<1>2. CASE TimerCommand
  <2>1. UNCHANGED << ping, timer_lost >>
    BY <1>2 DEF TimerCommand, ping_vars
  <2> QED  BY <1>1, <1>2, <2>1, ExecutedFirst DEF ModeInv, ServerOn, SocketsOn,
              SessionOn, TimerOn, StartBoot
<1>3. CASE EventTask \/ TimerExpires \/ PingTask \/ Environment
  BY <1>1, <1>3, OthersLeaveTimer, ModeInvSame DEF mode_vars
<1> QED  BY <1>2, <1>3

(* The boot.                                                                  *)
LEMMA ModeInvBoot ==
  ASSUME FsmInv, TaskInv, ModeInv, Boot \/ BootStartFails
  PROVE  ModeInv'
<1>1. UNCHANGED << socks, proto_task, ping, timer_q, timer_lost, cb >>
  BY DEF Boot, BootFsm, BootRegister, BootTimer, BootStart, BootStartFails,
     BootRest, proto_vars, ping_vars
<1> USE BootSteps DEF ModeInv
<1>2. CASE BootFsm \/ BootRegister \/ BootStartFails
  <2>1. /\ UNCHANGED << task, current_state, timer >>
        /\ boot <= StartBoot /\ boot' = boot + 1
    BY <1>2 DEF BootFsm, BootRegister, BootStartFails, osh_node_fsm_init,
       RegisterNewEvent, RegisterMissed, fsm_vars
  <2> QED  BY <1>1, <2>1 DEF TimerAfterQueue, ServerOn, SocketsOn, SessionOn, TimerOn
<1>3. CASE BootTimer
  <2>1. /\ UNCHANGED << task, current_state >> /\ timer' = "stopped"
        /\ boot = TimerBoot /\ boot' = boot + 1
    BY <1>3 DEF BootTimer, fsm_vars
  <2>2. task = "none" /\ cb = "none"
    BY <2>1 DEF TaskInv, CallbackContext
  <2> QED  BY <1>1, <2>1, <2>2 DEF TimerAfterQueue, ServerOn, SocketsOn, SessionOn, TimerOn
<1>4. CASE BootStart
  <2>1. /\ UNCHANGED timer /\ task = "none" /\ task' = "loop" /\ current_state' = INIT
        /\ boot = StartBoot /\ boot' = boot + 1
    BY <1>4, NodeConstants DEF BootStart, StartLoop, SetState
  <2>2. cb = "none"
    BY <2>1 DEF TaskInv, CallbackContext
  <2> QED  BY <1>1, <2>1, <2>2 DEF TimerAfterQueue, ServerOn, SocketsOn,
              SessionOn, TimerOn, INIT, IDLE
<1> QED  BY <1>2, <1>3, <1>4 DEF Boot

(* wifi_task inside loop_step.                                                *)
LEMMA ModeInvEngine ==
  ASSUME FsmInv, TaskInv, ModeInv, EngineStep
  PROVE  ModeInv'
<1>1. UNCHANGED << socks, proto_task, ping, timer, timer_q, timer_lost, boot >>
  BY DEF EngineStep, proto_vars, ping_vars, timer_vars
<1> QED  BY <1>1, EngineCalls DEF ModeInv, TimerAfterQueue, ServerOn, SocketsOn,
            SessionOn, TimerOn, StartBoot

(* ModeInv is inductive as long as no resource is refused.                    *)
LEMMA ModeInvNext ==
  ASSUME NoResourceFaults
  PROVE  FsmInv /\ TaskInv /\ ModeInv /\ [NodeNext]_vars => ModeInv'
<1> SUFFICES ASSUME FsmInv, TaskInv, ModeInv, [NodeNext]_vars PROVE ModeInv'
  OBVIOUS
<1>1. CASE Restart \/ BootAborts \/ ProtoPanics \/ DeletedSessionCrashes \/ ButtonPressed
  BY <1>1, RestartsRefine, ModeInvInit
<1>2. CASE UNCHANGED vars
  <2>1. UNCHANGED mode_vars
    BY <1>2 DEF vars, fsm_vars, wifi_vars, proto_vars, ping_vars, timer_vars, mode_vars
  <2> QED  BY <2>1, ModeInvSame
<1>3. CASE Boot \/ BootStartFails
  BY <1>3, ModeInvBoot
<1>4. CASE WifiTask
  BY <1>4, ModeInvEngine, ModeInvProto, ModeInvCalls DEF WifiTask
<1>5. CASE EventTask \/ TimerCommand \/ TimerExpires \/ PingTask \/ Environment
  BY <1>5, ModeInvOthers
<1> QED  BY <1>1, <1>2, <1>3, <1>4, <1>5 DEF NodeNext, Running

(* If no socket, task, timer or session is refused, the state of the machine  *)
(* tells what runs, whatever the link, the user and the other tasks do.       *)
THEOREM StateTellsWhatRuns ==
  ASSUME NoResourceFaults
  PROVE  NodeSafety => []ModeConsistent
<1>1. NodeInit => ModeInv
  BY ModeInvInit
<1>2. FsmInv /\ TaskInv /\ ModeInv /\ [NodeNext]_vars => ModeInv'
  BY ModeInvNext
<1>3. ModeInv => ModeConsistent
  BY DEF ModeInv, ModeConsistent, ServerOn, SocketsOn, SessionOn, TimerOn
<1> QED  BY <1>1, <1>2, <1>3, TaskInvariant, PTL DEF NodeSafety

(* The ping timer and a deleted session, whatever is refused.  SessionRefused *)
(* ends with the stop that follows it, and a stop that is missed is known to  *)
(* be; between the two calls delete_session finds the timer stopped or that   *)
(* stop missed.                                                               *)
TimerInv ==
    /\ DeletedSessionUnarmed
    /\ cb = "delete_session" /\ TimerAfterQueue = "armed" => timer_lost
    /\ timer_q \in Seq({"stopped", "armed"})
    /\ task = "none" => ping # "deleted" /\ cb = "none"
    /\ boot \in Nat
    /\ boot <= StartBoot => task = "none"

timer_inv_vars == << ping, timer_vars, task, current_state, cb, boot >>

(* The invariant is about these variables only.                               *)
LEMMA TimerInvSame == TimerInv /\ UNCHANGED timer_inv_vars => TimerInv'
  BY DEF TimerInv, timer_inv_vars, timer_vars, DeletedSessionUnarmed, SessionRefused,
         TimerAfterQueue, StartBoot

(* Before the boot, and after a restart.                                      *)
LEMMA TimerInvInit == /\ NodeInit => TimerInv
                      /\ Reboot => TimerInv'
<1> USE DEF TimerInv, DeletedSessionUnarmed, TimerAfterQueue
<1>1. << >> \in Seq({"stopped", "armed"})
  OBVIOUS
<1>2. NodeInit => TimerInv
  BY <1>1 DEF NodeInit, FsmInitial, PoweredOff, WifiInit
<1>3. Reboot => TimerInv'
  BY <1>1 DEF Reboot, FsmReboot
<1> QED  BY <1>2, <1>3

(* The boot: there is no session yet.                                         *)
LEMMA TimerInvBoot ==
  ASSUME TimerInv, Boot \/ BootStartFails
  PROVE  TimerInv'
<1> USE BootSteps DEF TimerInv
<1>1. UNCHANGED << ping, timer_q, cb >>
  BY DEF Boot, BootFsm, BootRegister, BootTimer, BootStart, BootStartFails, BootRest,
     ping_vars
<1>2. /\ boot <= StartBoot /\ boot' = boot + 1
      /\ boot' <= StartBoot => UNCHANGED task
  BY DEF Boot, BootFsm, BootRegister, BootTimer, BootStart, BootStartFails,
     osh_node_fsm_init, RegisterNewEvent, RegisterMissed, fsm_vars
<1>3. task = "none" /\ ping # "deleted" /\ cb = "none"
  BY <1>2
<1> QED  BY <1>1, <1>2, <1>3 DEF DeletedSessionUnarmed

(* The calls of wifi_task.                                                    *)
LEMMA TimerInvCalls ==
  ASSUME TaskInv, TimerInv,
         PowerOn \/ ProtoCall \/ ChangeState \/ SessionCall \/ TimerCall
  PROVE  TimerInv'
<1> USE DEF TimerInv
<1>1. UNCHANGED << task, boot >> /\ task # "none"
  <2>1. UNCHANGED << task, boot >>
    BY DEF PowerOn, ProtoCall, ChangeState, SetIdle, SetInit, osh_node_fsm_set_state,
       SessionCall, TimerCall, fsm_vars
  <2>2. cb # "none"
    BY DEF PowerOn, ProtoCall, ChangeState, SetIdle, SetInit, SessionCall, TimerCall, Call
  <2> QED  BY <2>1, <2>2
<1>2. /\ cb \in {"open_sockets", "start_server", "start_heartbeat", "set_idle",
                "stop_timer", "delete_session"} => current_state # IDLE
      /\ cb \in {"new_session", "start_timer"} => current_state = IDLE
  BY DEF TaskInv, CallbackContext, INIT, IDLE
<1> USE DEF DeletedSessionUnarmed, SessionRefused
<1>3. CASE PowerOn \/ ProtoCall
  <2>1. UNCHANGED << ping, timer, timer_q, timer_lost, current_state >>
    BY <1>3 DEF PowerOn, ProtoCall, fsm_vars, timer_vars, ping_vars
  <2>2. /\ cb \notin {"new_session", "stop_timer"}
        /\ cb' \notin {"new_session", "stop_timer", "delete_session"}
    BY <1>3 DEF PowerOn, ProtoCall, Call
  <2> QED  BY <1>1, <2>1, <2>2 DEF TimerAfterQueue, StartBoot
<1>4. CASE ChangeState
  <2>1. \/ cb = "set_idle" /\ cb' = "new_session" /\ current_state' = IDLE
        \/ cb = "set_init" /\ cb' = "stop_timer" /\ current_state' = INIT
    BY <1>4, NodeConstants DEF ChangeState, SetIdle, SetInit, Call, SetState,
       osh_node_fsm_set_state
  <2>2. UNCHANGED << ping, timer, timer_q, timer_lost >>
    BY <1>4 DEF ChangeState, timer_vars, ping_vars
  <2> QED  BY <1>1, <1>2, <2>1, <2>2 DEF TimerAfterQueue, StartBoot
<1>5. CASE SessionCall
  <2>1. UNCHANGED << current_state, timer, timer_q, timer_lost >>
    BY <1>5 DEF SessionCall, fsm_vars, timer_vars
  <2>2. CASE cb = "new_session"
    <3>1. cb' = "start_timer" /\ current_state' = IDLE
      BY <1>2, <1>5, <2>1, <2>2 DEF SessionCall, Call
    <3> QED  BY <1>1, <2>1, <3>1 DEF TimerAfterQueue, StartBoot
  <2>3. CASE cb = "delete_session"
    <3>1. cb' = "return"
      BY <1>5, <2>3 DEF SessionCall, Call
    <3> QED  BY <1>1, <2>1, <2>3, <3>1 DEF TimerAfterQueue, StartBoot
  <2> QED  BY <1>5, <2>2, <2>3 DEF SessionCall, Call
<1>6. CASE TimerCall
  <2>1. UNCHANGED << current_state, ping >>
    BY <1>6 DEF TimerCall, fsm_vars, ping_vars
  <2>2. CASE cb = "start_timer"
    <3>1. cb' = "return" /\ QueueCommand("armed")
      BY <1>6, <2>2 DEF TimerCall, Call
    <3>2. ping' = "deleted" => SessionRefused'
      BY <1>2, <2>1, <2>2, <3>1
    <3> QED  BY <1>1, <2>1, <3>1, <3>2, QueuedLast DEF StartBoot
  <2>3. CASE cb = "stop_timer"
    <3>1. cb' = "delete_session" /\ QueueCommand("stopped")
      BY <1>6, <2>3 DEF TimerCall, Call
    <3>2. timer_lost' \/ TimerAfterQueue' # "armed"
      BY <3>1, QueuedLast
    <3> QED  BY <1>1, <2>1, <3>1, <3>2, QueuedLast DEF StartBoot
  <2> QED  BY <1>6, <2>2, <2>3 DEF TimerCall, Call
<1> QED  BY <1>3, <1>4, <1>5, <1>6

(* TimerInv is inductive, whatever is refused, given where wifi_task is.      *)
LEMMA TimerInvNext == FsmInv /\ TaskInv /\ TimerInv /\ [NodeNext]_vars => TimerInv'
<1> SUFFICES ASSUME FsmInv, TaskInv, TimerInv, [NodeNext]_vars PROVE TimerInv'
  OBVIOUS
<1>1. CASE Restart \/ BootAborts \/ ProtoPanics \/ DeletedSessionCrashes \/ ButtonPressed
  BY <1>1, RestartsRefine, TimerInvInit
<1>2. CASE UNCHANGED vars
  <2>1. UNCHANGED timer_inv_vars
    BY <1>2 DEF vars, fsm_vars, wifi_vars, ping_vars, timer_vars, timer_inv_vars
  <2> QED  BY <2>1, TimerInvSame
<1>3. CASE Boot \/ BootStartFails
  BY <1>3, TimerInvBoot
<1>4. CASE EngineStep
  <2>1. UNCHANGED << ping, timer, timer_q, timer_lost, boot >>
    BY <1>4 DEF EngineStep, ping_vars, timer_vars
  <2> QED  BY <1>4, <2>1, EngineCalls DEF TimerInv, DeletedSessionUnarmed, SessionRefused,
              TimerAfterQueue, StartBoot
<1>5. CASE PowerOn \/ ProtoCall \/ ChangeState \/ SessionCall \/ TimerCall
  BY <1>5, TimerInvCalls
<1>6. CASE TimerCommand
  <2>1. UNCHANGED << ping, timer_lost, task, current_state, cb, boot >>
    BY <1>6, OthersLeaveTask DEF TimerCommand, ping_vars, task_vars
  <2> QED  BY <1>6, <2>1, ExecutedFirst DEF TimerInv, DeletedSessionUnarmed,
              SessionRefused, StartBoot
<1>7. CASE EventTask \/ TimerExpires \/ PingTask \/ Environment
  BY <1>7, OthersLeaveTimer, OthersLeaveTask, TimerInvSame DEF task_vars, timer_inv_vars
<1> QED  BY <1>1, <1>2, <1>3, <1>4, <1>5, <1>6, <1>7 DEF NodeNext, Running, WifiTask

(* Whatever is refused, the ping timer is armed for a deleted session only    *)
(* until the daemon executes a stop already queued, or from a session, or a   *)
(* stop, that was refused until the next call of that kind.                   *)
THEOREM DeletedSessionsStayUnarmed == NodeSafety => []DeletedSessionUnarmed
<1>1. NodeInit => TimerInv
  BY TimerInvInit
<1>2. FsmInv /\ TaskInv /\ TimerInv /\ [NodeNext]_vars => TimerInv'
  BY TimerInvNext
<1>3. TimerInv => DeletedSessionUnarmed
  BY DEF TimerInv
<1> QED  BY <1>1, <1>2, <1>3, TaskInvariant, PTL DEF NodeSafety

-----------------------------------------------------------------------------
(* The address of the gateway.  As long as CONNECT is latched, or its         *)
(* callback is still to run or runs, an address has been stored or is about   *)
(* to be.                                                                     *)
AddressKnown == gateway_ip = "dns" \/ handler = "read_dns"

ConnectPending ==
    \/ 1 \in event_bits
    \/ task \in {"dispatch", "callback"} /\ ConnectEvent \in step.todo \cup RunningEvents

AddressInv == ConnectPending => AddressKnown

(* Only CONNECT has the bit of CONNECT.                                       *)
LEMMA ConnectBit == /\ 1 \notin EventBits(POWERON)
                    /\ 1 \notin EventBits(DISCONNECT)
                    /\ ConnectEvent.bits = {1}
  BY NodeEventsAssumption DEF EventBits, POWERON, CONNECT, DISCONNECT, ConnectEvent

(* Before the boot, and after a restart.                                      *)
LEMMA AddressInvInit == /\ NodeInit => AddressInv
                        /\ Reboot => AddressInv'
  BY DEF NodeInit, FsmInitial, PoweredOff, Reboot, FsmReboot, AddressInv, ConnectPending

(* No step but HandleGotIp makes CONNECT pending.                             *)
LEMMA PendingStep ==
  ASSUME FsmInv, ~ HandleGotIp,
         \/ Boot \/ BootStartFails \/ WifiTask \/ EventTask \/ TimerCommand
         \/ TimerExpires \/ PingTask \/ Environment \/ UNCHANGED vars
  PROVE  ConnectPending' => ConnectPending
<1>t. step \in Step
  BY DEF FsmInv, FsmTypeOK
<1> USE DEF ConnectPending, RunningEvents
<1>1. CASE Boot \/ BootStartFails
  <2>1. CASE BootStart
    BY <2>1, ConnectBit DEF BootStart, StartLoop
  <2>2. CASE BootFsm \/ BootRegister \/ BootTimer \/ BootStartFails
    <3>1. UNCHANGED << event_bits, task, step >>
      BY <2>2 DEF BootFsm, BootRegister, BootTimer, BootStartFails, osh_node_fsm_init,
         RegisterNewEvent, RegisterMissed, fsm_vars
    <3> QED  BY <3>1
  <2> QED  BY <1>1, <2>1, <2>2 DEF Boot
<1>2. CASE EngineStep
  <2>1. CASE WaitBits
    <3>1. /\ step'.todo = Matched(step.state, event_bits) /\ step'.running = step.running
          /\ event_bits' \subseteq event_bits /\ task = "wait"
      BY <2>1, <1>t DEF WaitBits, Step
    <3>2. ConnectEvent \in step'.todo => 1 \in event_bits
      BY <3>1, ConnectBit DEF Matched
    <3>3. step.running = NULL
      BY <3>1 DEF FsmInv, RunningInv
    <3> QED  BY <3>1, <3>2, <3>3
  <2>2. CASE CallBegins
    <3>1. PICK e \in step.todo : step' = [step EXCEPT !.todo = @ \ {e}, !.running = e]
      BY <2>2 DEF CallBegins, BeginCallback
    <3>2. step'.todo \subseteq step.todo /\ step'.running \in step.todo
      BY <3>1, <1>t DEF Step
    <3>3. UNCHANGED event_bits /\ task = "dispatch"
      BY <2>2 DEF CallBegins, BeginCallback
    <3> QED  BY <3>2, <3>3
  <2>3. CASE CallReturns
    <3>1. step'.todo = step.todo /\ step'.running = NULL
      BY <2>3, <1>t DEF CallReturns, ReturnOk, Step
    <3>2. UNCHANGED event_bits /\ task = "callback"
      BY <2>3 DEF CallReturns, ReturnOk
    <3> QED  BY <3>1, <3>2
  <2>4. CASE EnterUnknownState \/ EnterStateWithoutEvents \/ EnterState
             \/ FindNoCallback \/ EndStep
    BY <2>4 DEF EnterUnknownState, EnterStateWithoutEvents, EnterState, FindNoCallback,
       EndStep
  <2> QED  BY <1>2, <2>1, <2>2, <2>3, <2>4 DEF EngineStep
<1>3. CASE PowerOn \/ ProtoCall \/ ChangeState \/ SessionCall \/ TimerCall
  <2>1. UNCHANGED << event_bits, task, step >>
    BY <1>3 DEF PowerOn, ProtoCall, ChangeState, SetIdle, SetInit, SessionCall, TimerCall,
       osh_node_fsm_set_state, fsm_vars
  <2> QED  BY <2>1
<1>4. CASE EventTask \/ TimerCommand \/ TimerExpires \/ PingTask \/ Environment
  <2>1. UNCHANGED << task, step >>
    BY <1>4, OthersLeaveTask DEF task_vars
  <2>2. event_bits' \in {event_bits, event_bits \cup EventBits(DISCONNECT)}
    BY <1>4 DEF EventTask, HandleStart, HandleDisconnected, HandleReconnect,
                HandleReadDns, TimerCommand, TimerExpires, TimerRest, PingTask,
                ProbeAnswered, ProbeTimesOut, LastProbeAnswered, LastProbeTimesOut,
                TimeoutConnects, LastTimeoutConnects, ConnectAgain, ping_on_success,
                ping_on_timeout, Environment, osh_node_fsm_invoke_event, fsm_vars
  <2> QED  BY <2>1, <2>2, ConnectBit
<1>5. CASE UNCHANGED vars
  BY <1>5 DEF vars, fsm_vars
<1> QED  BY <1>1, <1>2, <1>3, <1>4, <1>5 DEF WifiTask

(* No step forgets the address while CONNECT is pending.                      *)
LEMMA KnownStep ==
  ASSUME \/ Boot \/ BootStartFails \/ WifiTask \/ EventTask \/ TimerCommand
         \/ TimerExpires \/ PingTask \/ Environment \/ UNCHANGED vars
  PROVE  AddressKnown => AddressKnown'
<1>1. CASE EventTask
  BY <1>1 DEF EventTask, HandleStart, HandleDisconnected, HandleReconnect, HandleGotIp,
     HandleReadDns, Receive, AddressKnown
<1>2. CASE ~ EventTask
  <2>1. UNCHANGED << handler, gateway_ip >>
    BY <1>2 DEF Boot, BootFsm, BootRegister, BootTimer, BootStart, BootStartFails,
                BootRest, WifiTask, EngineStep, PowerOn, ProtoCall, ChangeState,
                SessionCall, TimerCall, TimerCommand, TimerExpires, TimerRest, PingTask,
                ProbeAnswered, ProbeTimesOut, LastProbeAnswered, LastProbeTimesOut,
                TimeoutConnects, LastTimeoutConnects, PingRest, Environment, wifi_vars,
                vars
  <2> QED  BY <2>1 DEF AddressKnown
<1> QED  BY <1>1, <1>2

(* AddressInv is inductive, given the invariant of the state machine.         *)
LEMMA AddressInvNext == FsmInv /\ AddressInv /\ [NodeNext]_vars => AddressInv'
<1> SUFFICES ASSUME FsmInv, AddressInv, [NodeNext]_vars PROVE AddressInv'
  OBVIOUS
<1>1. CASE Restart \/ BootAborts \/ ProtoPanics \/ DeletedSessionCrashes \/ ButtonPressed
  BY <1>1, RestartsRefine, AddressInvInit
<1>2. CASE HandleGotIp
  BY <1>2 DEF HandleGotIp, AddressInv, AddressKnown
<1>3. CASE /\ ~ HandleGotIp
           /\ \/ Boot \/ BootStartFails \/ WifiTask \/ EventTask \/ TimerCommand
              \/ TimerExpires \/ PingTask \/ Environment \/ UNCHANGED vars
  BY <1>3, PendingStep, KnownStep DEF AddressInv
<1> QED  BY <1>1, <1>2, <1>3 DEF NodeNext, Running

(* A session is only created by init_connect, which CONNECT has started.      *)
LEMMA SessionStep ==
  ASSUME FsmInv, TaskInv, AddressInv, [NodeNext]_vars,
         ping' = "session", ping # "session"
  PROVE  AddressKnown
<1>1. CASE Restart \/ BootAborts \/ ProtoPanics \/ DeletedSessionCrashes \/ ButtonPressed
  BY <1>1, RestartsRefine DEF Reboot
<1>2. CASE cb = "new_session"
  <2>1. step.running = ConnectEvent /\ task = "callback"
    BY <1>2 DEF TaskInv, CallbackContext, ConnectSteps
  <2>2. step.running # NULL
    BY <2>1 DEF FsmInv, RunningInv
  <2> QED  BY <2>1, <2>2 DEF AddressInv, ConnectPending, RunningEvents
<1>3. CASE /\ cb # "new_session"
           /\ \/ Boot \/ BootStartFails \/ WifiTask \/ EventTask \/ TimerCommand
              \/ TimerExpires \/ PingTask \/ Environment \/ UNCHANGED vars
  BY <1>3 DEF Boot, BootFsm, BootRegister, BootTimer, BootStart, BootStartFails,
              BootRest, WifiTask, EngineStep, PowerOn, ProtoCall, ChangeState,
              SessionCall, Call, DeleteSession, TimerCall, EventTask, HandleStart,
              HandleDisconnected, HandleReconnect, HandleGotIp, HandleReadDns,
              HandlerRest, TimerCommand, TimerExpires, PingTask, ProbeAnswered,
              ProbeTimesOut, LastProbeAnswered, LastProbeTimesOut, TimeoutConnects,
              LastTimeoutConnects, PingRest, Environment, ping_vars, wifi_vars, vars
<1> QED  BY <1>1, <1>2, <1>3 DEF NodeNext, Running

(* A ping session is created for zeros only in the window event_handler       *)
(* leaves between posting CONNECT and storing the address.                    *)
THEOREM ZeroTargetsOnlyInWindow == NodeSafety => ZeroTargetOnlyInWindow
<1>1. NodeInit => AddressInv
  BY AddressInvInit
<1>2. FsmInv /\ TaskInv /\ AddressInv /\ [NodeNext]_vars
        => AddressInv'
  BY AddressInvNext
<1>3. FsmInv /\ TaskInv /\ AddressInv /\ [NodeNext]_vars =>
        [(ping' = "session" /\ ping # "session")
           => (gateway_ip = "dns" \/ handler = "read_dns")]_vars
  BY SessionStep DEF AddressKnown
<1> QED  BY <1>1, <1>2, <1>3, TaskInvariant, PTL DEF NodeSafety, ZeroTargetOnlyInWindow

-----------------------------------------------------------------------------
(* The types.  timeout_count never passes its limit because it never counts:  *)
(* the test of ping_on_timeout holds while there are fewer timeouts than the  *)
(* limit, and resets the counter at the first.                                *)
CountNeverStarts == timeout_count = 0

WifiTypeOK ==
    /\ boot \in 0 .. Len(Registrations) + 3
    /\ cb \in CallbackSteps
    /\ provisioning \in BOOLEAN
    /\ handler \in {"idle", "reconnect", "read_dns"}
    /\ gateway_ip \in {"zero", "dns"}

PingTypeOK ==
    /\ timer \in {"null", "stopped", "armed"}
    /\ timer_q \in Seq({"stopped", "armed"})
    /\ Len(timer_q) <= TimerQueueBound
    /\ timer_lost \in BOOLEAN
    /\ ping \in {"null", "session", "deleted"}
    /\ pinger \in {"none", "idle"} \cup Busy
    /\ leaving \subseteq Busy

NodeTypeInv == ProtoTypeOK /\ LinkTypeOK /\ WifiTypeOK /\ PingTypeOK /\ CountNeverStarts

(* The queues and the boot counter at the start.                              *)
LEMMA EmptyQueues ==
  /\ << >> \in Seq(LinkEvents) /\ << >> \in Seq({"stopped", "armed"})
  /\ Len(<< >>) <= QueueBound /\ Len(<< >>) <= TimerQueueBound
  /\ 0 \in 0 .. Len(Registrations) + 3
<1>1. Len(<< >>) = 0 /\ Len(Registrations) = 3
  BY DEF Registrations
<1>2. << >> \in Seq(LinkEvents) /\ << >> \in Seq({"stopped", "armed"})
  OBVIOUS
<1> QED  BY <1>1, <1>2, NodeAssumption, QueueAssumption

(* Before the boot.                                                           *)
LEMMA NodeTypeInit == NodeInit => NodeTypeInv
<1> SUFFICES ASSUME NodeInit PROVE NodeTypeInv
  OBVIOUS
<1> USE DEF NodeInit
<1>1. ProtoTypeOK /\ CountNeverStarts
  BY DEF ProtoInit, WifiInit, ProtoTypeOK, CountNeverStarts
<1>2. LinkTypeOK
  BY EmptyQueues DEF LinkInit, LinkTypeOK
<1>3. WifiTypeOK
  BY EmptyQueues DEF WifiInit, WifiTypeOK, CallbackSteps
<1>4. PingTypeOK
  BY EmptyQueues DEF WifiInit, PingTypeOK
<1> QED  BY <1>1, <1>2, <1>3, <1>4 DEF NodeTypeInv

(* After a restart that leaves, or erases, the credentials.                   *)
LEMMA NodeTypeReboot ==
  ASSUME NodeTypeInv, Restart \/ BootAborts \/ ProtoPanics \/ DeletedSessionCrashes
                      \/ ButtonPressed
  PROVE  NodeTypeInv'
<1>1. Reboot /\ provisioned' \in BOOLEAN
  BY RestartsRefine DEF Restart, BootAborts, ProtoPanics, DeletedSessionCrashes,
     ButtonPressed, NodeTypeInv, LinkTypeOK
<1>2. ProtoTypeOK' /\ CountNeverStarts'
  BY <1>1 DEF Reboot, ProtoReboot, ProtoTypeOK, CountNeverStarts
<1>3. LinkTypeOK'
  BY <1>1, EmptyQueues DEF Reboot, LinkReboot, LinkTypeOK
<1>4. WifiTypeOK'
  BY <1>1, EmptyQueues DEF Reboot, WifiTypeOK, CallbackSteps
<1>5. PingTypeOK'
  BY <1>1, EmptyQueues DEF Reboot, PingTypeOK
<1> QED  BY <1>2, <1>3, <1>4, <1>5 DEF NodeTypeInv

(* Posting keeps the queue an event queue, within its bound; so does handling.*)
LEMMA QueueType ==
  ASSUME LinkTypeOK, NEW event \in LinkEvents, PostEvent(event) \/ Receive(event)
  PROVE  evq' \in Seq(LinkEvents) /\ Len(evq') <= QueueBound
<1>1. CASE PostEvent(event)
  BY <1>1, QueueAssumption DEF PostEvent, LinkTypeOK
<1>2. CASE Receive(event)
  <2>1. evq # << >> /\ evq' = Tail(evq) /\ evq \in Seq(LinkEvents) /\ Len(evq) <= QueueBound
    BY <1>2 DEF Receive, LinkTypeOK
  <2>2. evq' \in Seq(LinkEvents) /\ Len(evq') = Len(evq) - 1 /\ Len(evq) \in Nat
    BY <2>1
  <2> QED  BY <2>1, <2>2, QueueAssumption
<1> QED  BY <1>1, <1>2

LEMMA LinkTypeNext ==
  ASSUME LinkTypeOK, Environment \/ EventTask \/ PingTask \/ PowerOn
  PROVE  LinkTypeOK'
<1>1. \/ UNCHANGED evq
      \/ \E event \in LinkEvents : PostEvent(event) \/ Receive(event)
  BY DEF LinkEvents, Environment, Attempt, AttemptSucceeds, AttemptFails, LinkLost,
         NewAddress, Provisioned, EventTask, HandleStart, HandleDisconnected,
         HandleReconnect, HandleGotIp, HandleReadDns, PingTask, ProbeAnswered,
         ProbeTimesOut, LastProbeAnswered, LastProbeTimesOut, TimeoutConnects,
         LastTimeoutConnects, ConnectAgain, ping_on_success, ping_on_timeout, PowerOn,
         esp_wifi_start, link_vars
<1>2. /\ link' \in {"stopped", "down", "connecting", "up"}
      /\ provisioned' \in BOOLEAN
  BY DEF LinkTypeOK, Environment, Attempt, AttemptSucceeds, AttemptFails, LinkLost,
         NewAddress, Provisioned, EventTask, HandleStart, HandleDisconnected,
         HandleReconnect, HandleGotIp, HandleReadDns, PingTask, ProbeAnswered,
         ProbeTimesOut, LastProbeAnswered, LastProbeTimesOut, TimeoutConnects,
         LastTimeoutConnects, ConnectAgain, ping_on_success, ping_on_timeout, PowerOn,
         esp_wifi_start, esp_wifi_connect, link_vars
<1>3. evq' \in Seq(LinkEvents) /\ Len(evq') <= QueueBound
  BY <1>1, QueueType DEF LinkTypeOK
<1> QED  BY <1>2, <1>3 DEF LinkTypeOK

(* The timer, its queue and the session.                                      *)
LEMMA PingTypeNext ==
  ASSUME PingTypeOK, gateway_ip \in {"zero", "dns"},
         SessionCall \/ TimerCall \/ TimerCommand \/ TimerExpires \/ PingTask \/ BootTimer
  PROVE  PingTypeOK'
<1>1. CASE SessionCall \/ TimerExpires \/ PingTask \/ BootTimer
  <2>1. UNCHANGED << timer_q, timer_lost >>
    BY <1>1 DEF SessionCall, TimerExpires, PingTask, ProbeAnswered, ProbeTimesOut,
                LastProbeAnswered, LastProbeTimesOut, TimeoutConnects,
                LastTimeoutConnects, PingRest, BootTimer, BootRest, timer_vars
  <2>2. /\ timer' \in {"null", "stopped", "armed"}
        /\ ping' \in {"null", "session", "deleted"}
        /\ pinger' \in {"none", "idle"} \cup Busy
        /\ leaving' \subseteq Busy
    BY <1>1 DEF PingTypeOK, Busy, SessionCall, NewSession, NewSessionFails, DeleteSession,
                TimerExpires, PingTask, ProbeAnswered, ProbeTimesOut, LastProbeAnswered,
                LastProbeTimesOut, TimeoutConnects, LastTimeoutConnects,
                ping_on_success, PingRest, BootTimer, BootRest, timer_vars, ping_vars
  <2> QED  BY <2>1, <2>2 DEF PingTypeOK
<1>2. CASE TimerCall
  <2>1. \E c \in {"stopped", "armed"} : QueueCommand(c)
    BY <1>2 DEF TimerCall
  <2>2. UNCHANGED << ping_vars, timer >>
    BY <1>2 DEF TimerCall, QueueCommand
  <2>3. PICK c \in {"stopped", "armed"} : CommandQueued(c) \/ CommandRefused(c)
    BY <2>1 DEF QueueCommand
  <2>4. timer_q' \in Seq({"stopped", "armed"}) /\ Len(timer_q') <= TimerQueueBound
    BY <2>3, NodeAssumption DEF CommandQueued, CommandRefused, PingTypeOK
  <2>5. timer_lost' \in BOOLEAN
    BY <2>3 DEF CommandQueued, CommandRefused
  <2> QED  BY <2>2, <2>4, <2>5 DEF PingTypeOK, ping_vars
<1>3. CASE TimerCommand
  <2> DEFINE Commands == {"stopped", "armed"}
  <2>1. timer_q # << >> /\ timer' = Head(timer_q) /\ timer_q' = Tail(timer_q)
    BY <1>3 DEF TimerCommand
  <2>2. timer_q \in Seq(Commands) /\ Len(timer_q) <= TimerQueueBound
    BY DEF PingTypeOK
  <2> HIDE DEF Commands
  <2>3. /\ timer' \in Commands /\ timer_q' \in Seq(Commands)
        /\ Len(timer_q') = Len(timer_q) - 1 /\ Len(timer_q) \in Nat
    BY <2>1, <2>2
  <2>4. UNCHANGED << ping_vars, timer_lost >>
    BY <1>3 DEF TimerCommand
  <2> QED  BY <2>2, <2>3, <2>4, NodeAssumption DEF PingTypeOK, ping_vars, Commands
<1> QED  BY <1>1, <1>2, <1>3

(* The boot counter, the callback in hand and the event handler.              *)
LEMMA WifiTypeNext ==
  ASSUME FsmInv, TaskInv, WifiTypeOK,
         Boot \/ BootStartFails \/ WifiTask \/ EventTask
  PROVE  WifiTypeOK'
<1> USE BootSteps DEF WifiTypeOK
<1>1. CASE Boot \/ BootStartFails
  <2>1. UNCHANGED << cb, provisioning, handler, gateway_ip >> /\ boot' = boot + 1
    BY <1>1 DEF Boot, BootFsm, BootRegister, BootTimer, BootStart, BootStartFails, BootRest
  <2>2. boot \in 0 .. 5 /\ Len(Registrations) = 3
    BY <1>1 DEF Boot, BootFsm, BootRegister, BootTimer, BootStart, BootStartFails,
       Registrations
  <2> QED  BY <2>1, <2>2
<1>2. CASE EngineStep
  BY <1>2, EngineCalls DEF EngineStep, CallbackSteps
<1>3. CASE PowerOn \/ ProtoCall \/ ChangeState \/ SessionCall \/ TimerCall
  <2>1. UNCHANGED << boot, handler, gateway_ip >> /\ provisioning' \in BOOLEAN
    BY <1>3 DEF PowerOn, ProtoCall, ChangeState, SessionCall, TimerCall
  <2>2. cb' \in CallbackSteps
    BY <1>3 DEF PowerOn, ProtoCall, ChangeState, SetIdle, SetInit, SessionCall, TimerCall,
       Call, CallbackSteps
  <2> QED  BY <2>1, <2>2
<1>4. CASE EventTask
  BY <1>4 DEF EventTask, HandleStart, HandleDisconnected, HandleReconnect, HandleGotIp,
     HandleReadDns, HandlerRest
<1> QED  BY <1>1, <1>2, <1>3, <1>4 DEF WifiTask

(* The sockets, the server task and its timer.                                *)
LEMMA ProtoTypeNext == ProtoTypeOK /\ ProtoCall => ProtoTypeOK'
  BY DEF ProtoTypeOK, ProtoCall, OpenSockets, OpenSocketsFails, StartServer,
     StartServerFails, StartHeartbeat, StartHeartbeatFails, SuspendServer, StopHeartbeat,
     CloseSockets, AllSockets, proto_vars

(* The counter, if its limit is more than one timeout.                        *)
LEMMA CountStays ==
  ASSUME MaxPingTimeout > 1, CountNeverStarts, PingTask
  PROVE  CountNeverStarts'
  BY NodeAssumption
     DEF CountNeverStarts, PingTask, ProbeAnswered, ProbeTimesOut, LastProbeAnswered,
         LastProbeTimesOut, TimeoutConnects, LastTimeoutConnects, ConnectAgain,
         ping_on_success, ping_on_timeout, TooManyTimeouts

LEMMA NodeTypeNext ==
  ASSUME MaxPingTimeout > 1
  PROVE  FsmInv /\ TaskInv /\ NodeTypeInv /\ [NodeNext]_vars => NodeTypeInv'
<1> SUFFICES ASSUME FsmInv, TaskInv, NodeTypeInv, [NodeNext]_vars PROVE NodeTypeInv'
  OBVIOUS
<1> USE DEF NodeTypeInv
<1>1. CASE Restart \/ BootAborts \/ ProtoPanics \/ DeletedSessionCrashes \/ ButtonPressed
  BY <1>1, NodeTypeReboot
<1>2. CASE /\ ~ (Restart \/ BootAborts \/ ProtoPanics \/ DeletedSessionCrashes \/ ButtonPressed)
  <2>1. ProtoTypeOK'
    <3>1. ProtoCall \/ UNCHANGED proto_vars
      BY <1>2 DEF NodeNext, Running, Boot, BootFsm, BootRegister, BootTimer, BootStart,
                  BootStartFails, BootRest, WifiTask, EngineStep, PowerOn, ChangeState,
                  SessionCall, TimerCall, EventTask, HandleStart, HandleDisconnected,
                  HandleReconnect, HandleGotIp, HandleReadDns, HandlerRest,
                  TimerCommand, TimerExpires, TimerRest, PingTask, ProbeAnswered,
                  ProbeTimesOut, LastProbeAnswered, LastProbeTimesOut, TimeoutConnects,
                  LastTimeoutConnects, PingRest, Environment, vars
    <3> QED  BY <3>1, ProtoTypeNext DEF ProtoTypeOK, proto_vars
  <2>2. LinkTypeOK'
    <3>1. \/ Environment \/ EventTask \/ PingTask \/ PowerOn
          \/ UNCHANGED link_vars
      BY <1>2 DEF NodeNext, Running, Boot, BootFsm, BootRegister, BootTimer, BootStart,
         BootStartFails, BootRest, WifiTask, EngineStep, ProtoCall, ChangeState,
         SessionCall, TimerCall, TimerCommand, TimerExpires, TimerRest, vars
    <3> QED  BY <3>1, LinkTypeNext DEF LinkTypeOK, link_vars
  <2>3. WifiTypeOK'
    <3>1. \/ Boot \/ BootStartFails \/ WifiTask \/ EventTask
          \/ /\ UNCHANGED << boot, cb, handler, gateway_ip >>
             /\ provisioning' \in {provisioning, FALSE}
      BY <1>2 DEF NodeNext, Running, TimerCommand, TimerExpires, TimerRest, PingTask,
                  ProbeAnswered, ProbeTimesOut, LastProbeAnswered, LastProbeTimesOut,
                  TimeoutConnects, LastTimeoutConnects, PingRest, Environment,
                  wifi_vars, vars
    <3> QED  BY <3>1, WifiTypeNext DEF WifiTypeOK
  <2>4. PingTypeOK'
    <3>1. \/ SessionCall \/ TimerCall \/ TimerCommand \/ TimerExpires \/ PingTask
          \/ BootTimer
          \/ UNCHANGED << timer_vars, ping_vars >>
      BY <1>2 DEF NodeNext, Running, Boot, BootFsm, BootRegister, BootStart,
         BootStartFails, BootRest, WifiTask, EngineStep, PowerOn, ProtoCall, ChangeState,
         EventTask, HandleStart, HandleDisconnected, HandleReconnect, HandleGotIp,
         HandleReadDns, HandlerRest, Environment, wifi_vars, timer_vars, vars
    <3> QED  BY <3>1, PingTypeNext DEF PingTypeOK, WifiTypeOK, timer_vars, ping_vars
  <2>5. CountNeverStarts'
    <3>1. PingTask \/ UNCHANGED timeout_count
      BY <1>2 DEF NodeNext, Running, Boot, BootFsm, BootRegister, BootTimer, BootStart,
         BootStartFails, BootRest, WifiTask, EngineStep, PowerOn, ProtoCall, ChangeState,
         SessionCall, TimerCall, EventTask, HandleStart, HandleDisconnected,
         HandleReconnect, HandleGotIp, HandleReadDns, HandlerRest, TimerCommand,
         TimerExpires, TimerRest, Environment, wifi_vars, vars
    <3> QED  BY <3>1, CountStays DEF CountNeverStarts
  <2> QED  BY <2>1, <2>2, <2>3, <2>4, <2>5
<1> QED  BY <1>1, <1>2

(* Every variable of the node keeps its type, and the queues their bounds, if *)
(* the limit of ping_on_timeout is more than one.                             *)
THEOREM NodeTypeCorrect ==
  ASSUME MaxPingTimeout > 1
  PROVE  NodeSafety => []NodeTypeOK
<1>1. NodeInit => NodeTypeInv
  BY NodeTypeInit
<1>2. FsmInv /\ TaskInv /\ NodeTypeInv /\ [NodeNext]_vars => NodeTypeInv'
  BY NodeTypeNext
<1>3. FsmInv /\ NodeTypeInv => NodeTypeOK
  BY NodeAssumption
     DEF FsmInv, NodeTypeInv, WifiTypeOK, PingTypeOK, CountNeverStarts, NodeTypeOK
<1> QED  BY <1>1, <1>2, <1>3, TaskInvariant, PTL DEF NodeSafety

(* Each lost probe disconnects the node, whatever the limit is, if it is more *)
(* than one: the counter the comparison reads is zero at every timeout.       *)
THEOREM LostProbesDisconnect ==
  ASSUME MaxPingTimeout > 1
  PROVE  NodeSafety => EveryTimeoutDisconnects
<1>1. NodeInit => NodeTypeInv
  BY NodeTypeInit
<1>2. FsmInv /\ TaskInv /\ NodeTypeInv /\ [NodeNext]_vars => NodeTypeInv'
  BY NodeTypeNext
<1>3. NodeTypeInv =>
        [ProbeTimesOut \/ LastProbeTimesOut => DISCONNECT \subseteq event_bits']_vars
  <2> SUFFICES ASSUME CountNeverStarts, ProbeTimesOut \/ LastProbeTimesOut
               PROVE  DISCONNECT \subseteq event_bits'
    BY DEF NodeTypeInv
  <2>1. TooManyTimeouts /\ ping_on_timeout
    BY NodeAssumption
       DEF CountNeverStarts, TooManyTimeouts, ProbeTimesOut, LastProbeTimesOut
  <2> QED
    BY <2>1, NodeEventsAssumption
       DEF ping_on_timeout, osh_node_fsm_invoke_event, EventBits, DISCONNECT
<1> QED
  BY <1>1, <1>2, <1>3, TaskInvariant, PTL DEF NodeSafety, EveryTimeoutDisconnects

-----------------------------------------------------------------------------
(* The station.                                                               *)
LinkInv == evq \in Seq(LinkEvents) /\ LinkIsRetried

Retries(q) == \E i \in DOMAIN q : q[i] \in {"STA_DISCONNECTED", "STA_START"}

(* Posting an event keeps a retry that is queued, and may queue one.          *)
LEMMA PostKeepsRetry ==
  ASSUME NEW event \in LinkEvents, evq \in Seq(LinkEvents), PostEvent(event)
  PROVE  /\ evq' \in Seq(LinkEvents)
         /\ Retries(evq) => Retries(evq')
         /\ event \in {"STA_DISCONNECTED", "STA_START"} => Retries(evq')
<1>1. evq' = Append(evq, event)
  BY DEF PostEvent
<1>2. evq' \in Seq(LinkEvents) /\ Len(evq') = Len(evq) + 1 /\ evq'[Len(evq')] = event
  BY <1>1
<1>3. \A i \in DOMAIN evq : i \in DOMAIN evq' /\ evq'[i] = evq[i]
  BY <1>1
<1>4. Len(evq') \in DOMAIN evq'
  BY <1>2
<1> QED  BY <1>2, <1>3, <1>4 DEF Retries

(* Handling another event keeps a retry that is queued.                       *)
LEMMA ReceiveKeepsRetry ==
  ASSUME NEW event, evq \in Seq(LinkEvents), Receive(event)
  PROVE  /\ evq' \in Seq(LinkEvents)
         /\ Retries(evq) /\ event = "STA_GOT_IP" => Retries(evq')
<1>1. evq # << >> /\ Head(evq) = event /\ evq' = Tail(evq)
  BY DEF Receive
<1>2. evq' \in Seq(LinkEvents) /\ Len(evq') = Len(evq) - 1 /\ Len(evq) \in Nat
  BY <1>1
<1>3. \A i \in 1 .. Len(evq') : evq'[i] = evq[i + 1]
  BY <1>1, <1>2
<1>4. ASSUME NEW i \in DOMAIN evq, i # 1
      PROVE  i - 1 \in DOMAIN evq' /\ evq'[i - 1] = evq[i]
  <2>1. i \in 1 .. Len(evq) /\ i - 1 \in 1 .. Len(evq')
    BY <1>2, <1>4
  <2> QED  BY <1>2, <1>3, <2>1
<1>5. event = evq[1]
  BY <1>1
<1> QED  BY <1>2, <1>4, <1>5 DEF Retries

(* The steps that move the link or handle one of its events.                  *)
LEMMA LinkInvMoves ==
  ASSUME LinkInv, Environment \/ EventTask \/ PingTask \/ PowerOn
  PROVE  LinkInv'
<1>0. evq \in Seq(LinkEvents) /\ (link = "down" => handler = "reconnect" \/ Retries(evq))
  BY DEF LinkInv, LinkIsRetried, Retries
<1> SUFFICES /\ evq' \in Seq(LinkEvents)
             /\ link' = "down" => handler' = "reconnect" \/ Retries(evq)'
  BY DEF LinkInv, LinkIsRetried, Retries
<1>1. CASE Environment
  <2>1. UNCHANGED handler
    BY <1>1 DEF Environment, wifi_vars
  <2>2. CASE AttemptSucceeds \/ NewAddress
    <3>1. PostEvent("STA_GOT_IP") /\ link' = "up"
      BY <2>2 DEF AttemptSucceeds, NewAddress
    <3> QED  BY <1>0, <3>1, PostKeepsRetry DEF LinkEvents
  <2>3. CASE AttemptFails \/ LinkLost
    <3>1. PostEvent("STA_DISCONNECTED")
      BY <2>3 DEF AttemptFails, LinkLost
    <3> QED  BY <1>0, <3>1, PostKeepsRetry DEF LinkEvents
  <2>4. CASE Provisioned
    BY <1>0, <2>4 DEF Provisioned
  <2> QED  BY <1>1, <2>2, <2>3, <2>4 DEF Environment, Attempt
<1>2. CASE EventTask
  <2>1. CASE HandleStart
    <3>1. Receive("STA_START") /\ link' # "down"
      BY <2>1 DEF HandleStart, esp_wifi_connect
    <3> QED  BY <1>0, <3>1, ReceiveKeepsRetry
  <2>2. CASE HandleDisconnected
    <3>1. Receive("STA_DISCONNECTED") /\ handler' = "reconnect"
      BY <2>2 DEF HandleDisconnected
    <3> QED  BY <1>0, <3>1, ReceiveKeepsRetry
  <2>3. CASE HandleReconnect
    BY <1>0, <2>3 DEF HandleReconnect, esp_wifi_connect
  <2>4. CASE HandleGotIp
    <3>1. Receive("STA_GOT_IP") /\ UNCHANGED link /\ handler = "idle"
      BY <2>4 DEF HandleGotIp, Receive
    <3> QED  BY <1>0, <3>1, ReceiveKeepsRetry
  <2>5. CASE HandleReadDns
    BY <1>0, <2>5 DEF HandleReadDns, link_vars, Retries
  <2> QED  BY <1>2, <2>1, <2>2, <2>3, <2>4, <2>5 DEF EventTask
<1>3. CASE PingTask
  <2>1. UNCHANGED << handler, evq >> /\ (link' = "down" => link = "down")
    BY <1>3 DEF PingTask, ProbeAnswered, ProbeTimesOut, LastProbeAnswered,
                LastProbeTimesOut, TimeoutConnects, LastTimeoutConnects, ConnectAgain,
                ping_on_success, ping_on_timeout, PingRest, link_vars, esp_wifi_connect
  <2> QED  BY <1>0, <2>1 DEF Retries
<1>4. CASE PowerOn
  <2>1. CASE UNCHANGED link_vars
    BY <1>0, <1>4, <2>1 DEF PowerOn, link_vars, Retries
  <2>2. CASE esp_wifi_start
    <3>1. PostEvent("STA_START")
      BY <2>2 DEF esp_wifi_start
    <3> QED  BY <1>0, <3>1, PostKeepsRetry DEF LinkEvents
  <2> QED  BY <1>4, <2>1, <2>2 DEF PowerOn
<1> QED  BY <1>1, <1>2, <1>3, <1>4

(* LinkInv is inductive by itself.                                            *)
LEMMA LinkInvNext == LinkInv /\ [NodeNext]_vars => LinkInv'
<1> SUFFICES ASSUME LinkInv, [NodeNext]_vars PROVE LinkInv'
  OBVIOUS
<1>1. CASE Restart \/ BootAborts \/ ProtoPanics \/ DeletedSessionCrashes \/ ButtonPressed
  <2>1. evq' = << >> /\ link' = "stopped"
    BY <1>1, RestartsRefine DEF Reboot, LinkReboot
  <2> QED  BY <2>1 DEF LinkInv, LinkIsRetried
<1>2. CASE \/ UNCHANGED vars \/ Boot \/ BootStartFails \/ TimerCommand \/ TimerExpires
           \/ EngineStep \/ ProtoCall \/ ChangeState \/ SessionCall \/ TimerCall
  <2>1. UNCHANGED << link, evq, handler >>
    BY <1>2 DEF vars, Boot, BootFsm, BootRegister, BootTimer, BootStart, BootStartFails,
       BootRest, TimerCommand, TimerExpires, TimerRest, EngineStep, ProtoCall,
       ChangeState, SessionCall, TimerCall, link_vars, wifi_vars
  <2> QED  BY <2>1 DEF LinkInv, LinkIsRetried
<1>3. CASE Environment \/ EventTask \/ PingTask \/ PowerOn
  BY <1>3, LinkInvMoves
<1> QED  BY <1>1, <1>2, <1>3 DEF NodeNext, Running, WifiTask

(* Nobody gives up on the link, whichever calls fail and however long the     *)
(* event queue is.                                                            *)
THEOREM LinkAlwaysRetried == NodeSafety => []LinkIsRetried
<1>1. NodeInit => LinkInv
  BY DEF NodeInit, LinkInit, LinkInv, LinkIsRetried
<1>2. LinkInv => LinkIsRetried
  BY DEF LinkInv
<1> QED  BY <1>1, <1>2, LinkInvNext, PTL DEF NodeSafety
-----------------------------------------------------------------------------
(* The boot.  Before wifi_task exists nothing else runs, so that no bit is    *)
(* latched while the registrations are made; and the number no bits make is   *)
(* that of INIT, which is listed first.  This is why fetch_state's reading    *)
(* behind the list (osh_node_fsm.c:87) never costs the node a registration.   *)
Quiet == /\ event_bits = {}
         /\ link = "stopped"
         /\ evq = << >>
         /\ handler = "idle"
         /\ provisioning = FALSE
         /\ timer # "armed"
         /\ timer_q = << >>
         /\ pinger = "none"
         /\ leaving = {}

(* The i-th registration has reached its list.                                *)
Reached(i) == /\ Registrations[i].state \in states_list
              /\ Listed(Registrations[i].state, EventBits(Registrations[i].mask))

BootInv == /\ boot \in 0 .. 6
           /\ boot <= 5 => task = "none"
           /\ task = "none" => Quiet
           /\ boot <= 1 => states_list = {}
           /\ \A i \in 1 .. 3 : boot > i => Reached(i)

(* No bits make the number zero.                                              *)
LEMMA NoBitsValue == BitsValue({}) = 0
  BY DEF BitsValue, MapThenSumSet, MapThenFoldSet

(* At power on and after a restart nothing has happened.                      *)
LEMMA BootInvInit == NodeInit => BootInv
  BY DEF NodeInit, FsmInitial, PoweredOff, LinkInit, WifiInit, BootInv, Quiet

LEMMA BootInvReboot == Reboot => BootInv'
  BY DEF Reboot, FsmReboot, LinkReboot, BootInv, Quiet

(* A registration of the boot finds or creates its state.                     *)
LEMMA RegistersNew ==
  ASSUME FsmInv, BootInv, BootRegister
  PROVE  LET r == Registrations[boot] IN
         RegisterNewEvent(r.state, EventBits(r.mask), r.callback)
<1>1. boot \in 1 .. 3 /\ event_bits = {}
  BY BootSteps DEF BootRegister, BootInv, Quiet
<1>2. ~ Missed(Registrations[boot].state)
  <2>1. CASE boot = 1
    BY <2>1 DEF BootInv, Missed, Creatable, Fetched
  <2>2. CASE boot = 2
    <3>1. Reached(1)
      BY <2>2 DEF BootInv
    <3>2. Registrations[1].state = Registrations[2].state
      BY DEF Registrations
    <3> QED  BY <2>2, <3>1, <3>2 DEF Reached, Missed, Fetched
  <2>3. CASE boot = 3
    <3>1. Registrations[3].state # BitsValue(event_bits)
      BY <1>1, NoBitsValue DEF Registrations, IDLE
    <3> QED  BY <2>3, <3>1 DEF Missed, Creatable, Fetched
  <2> QED  BY <1>1, <2>1, <2>2, <2>3
<1> QED  BY <1>2 DEF BootRegister, RegisterMissed

(* The lists only grow.                                                       *)
LEMMA ReachedStays ==
  ASSUME NEW i \in 1 .. 3, Reached(i),
         states_list \subseteq states_list',
         \A s \in States : events_list[s] \subseteq events_list'[s]
  PROVE  Reached(i)'
<1>1. Registrations[i].state \in States
  BY RegistrationsType, BootSteps
<1> QED  BY <1>1 DEF Reached, Listed

(* A step of the boot.                                                        *)
LEMMA BootInvBoot ==
  ASSUME FsmInv, BootInv, Boot \/ BootStartFails
  PROVE  BootInv'
<1> USE BootSteps
<1>q. UNCHANGED << link, evq, handler, provisioning, timer_q, pinger, leaving >>
  BY DEF Boot, BootFsm, BootRegister, BootTimer, BootStart, BootStartFails, BootRest,
     link_vars, ping_vars
<1>t. task = "none" /\ Quiet
  BY DEF Boot, BootFsm, BootRegister, BootTimer, BootStart, BootStartFails, BootInv
<1>1. CASE BootFsm \/ BootTimer \/ BootStartFails \/ BootStart
  <2>1. /\ UNCHANGED << states_list, events_list >>
        /\ task' = "none" => UNCHANGED event_bits /\ timer' \in {timer, "stopped"}
    BY <1>1 DEF BootFsm, osh_node_fsm_init, BootTimer, BootStartFails, BootStart,
       StartLoop, fsm_vars, lists
  <2>2. /\ boot \in {0, 4, 5} /\ boot' = boot + 1
        /\ boot < 5 => UNCHANGED task
    BY <1>1 DEF BootFsm, osh_node_fsm_init, BootTimer, BootStartFails, BootStart, fsm_vars
  <2>3. \A i \in 1 .. 3 : Reached(i) => Reached(i)'
    BY <2>1, ReachedStays
  <2>4. task' = "none" => Quiet'
    BY <1>q, <1>t, <2>1 DEF Quiet
  <2> QED  BY <1>t, <2>1, <2>2, <2>3, <2>4 DEF BootInv
<1>2. CASE BootRegister
  <2>1. boot \in 1 .. 3 /\ boot' = boot + 1 /\ UNCHANGED timer
    BY <1>2 DEF BootRegister
  <2>2. PICK j \in 1 .. 3 : boot = j
    BY <2>1
  <2> DEFINE r   == Registrations[j]
             new == [bits |-> EventBits(r.mask), callback |-> r.callback]
  <2>3. /\ states_list' = states_list \cup {r.state}
        /\ events_list' = [events_list EXCEPT ![r.state] = @ \cup {new}]
        /\ UNCHANGED << event_bits, task >>
    BY <1>2, <2>2, RegistersNew DEF RegisterNewEvent
  <2>4. r.state \in States /\ events_list \in [States -> SUBSET Event]
    BY RegistrationsType DEF FsmInv, FsmTypeOK
  <2>5. /\ r.state \in states_list'
        /\ new \in events_list'[r.state] /\ new.bits = EventBits(r.mask)
        /\ \A s \in States : events_list[s] \subseteq events_list'[s]
    <3> HIDE DEF r
    <3> QED  BY <2>3, <2>4
  <2>6. Reached(j)'
    BY <2>5 DEF Reached, Listed
  <2>7. \A i \in 1 .. 3 : Reached(i) => Reached(i)'
    BY <2>3, <2>5, ReachedStays
  <2>8. Quiet'
    BY <1>q, <1>t, <2>1, <2>3 DEF Quiet
  <2>9. /\ boot' \in 0 .. 6 /\ boot' > 1 /\ task' = "none"
        /\ \A i \in 1 .. 3 : boot' > i => i = j \/ boot > i
    BY <1>t, <2>1, <2>2, <2>3
  <2>10. \A i \in 1 .. 3 : boot' > i => Reached(i)'
    BY <2>6, <2>7, <2>9 DEF BootInv
  <2> QED  BY <2>8, <2>9, <2>10 DEF BootInv
<1> QED  BY <1>1, <1>2 DEF Boot

(* Before wifi_task exists only the boot goes on.                             *)
LEMMA OnlyBootRuns ==
  ASSUME TaskInv, BootInv,
         \/ WifiTask \/ EventTask \/ TimerCommand \/ TimerExpires
         \/ PingTask \/ Environment
  PROVE  task # "none"
<1>1. ASSUME task = "none" PROVE FALSE
  <2>1. Quiet /\ cb = "none"
    BY <1>1 DEF BootInv, TaskInv, CallbackContext
  <2>2. CASE WifiTask
    <3>1. CASE EngineStep
      BY <1>1, <3>1 DEF EngineStep, EnterUnknownState, EnterStateWithoutEvents,
         EnterState, WaitBits, FindNoCallback, EndStep, CallBegins, BeginCallback,
         CallReturns, ReturnOk
    <3>2. CASE PowerOn \/ ProtoCall \/ ChangeState \/ SessionCall \/ TimerCall
      BY <2>1, <3>2 DEF PowerOn, ProtoCall, ChangeState, SetIdle, SetInit, SessionCall,
         TimerCall, Call
    <3> QED  BY <2>2, <3>1, <3>2 DEF WifiTask
  <2>3. CASE EventTask
    BY <2>1, <2>3 DEF Quiet, EventTask, HandleStart, HandleDisconnected, HandleReconnect,
       HandleGotIp, HandleReadDns, Receive
  <2>4. CASE TimerCommand \/ TimerExpires \/ PingTask
    BY <2>1, <2>4 DEF Quiet, TimerCommand, TimerExpires, PingTask, ProbeAnswered,
                      ProbeTimesOut, LastProbeAnswered, LastProbeTimesOut,
                      TimeoutConnects, LastTimeoutConnects
  <2>5. CASE Environment
    BY <2>1, <2>5 DEF Quiet, Environment, Attempt, AttemptSucceeds, AttemptFails,
       LinkLost, NewAddress
  <2> QED  BY <2>2, <2>3, <2>4, <2>5
<1> QED  BY <1>1

(* Once it does the lists and the boot are through.                           *)
LEMMA TasksKeepLists ==
  ASSUME FsmInv, TaskInv,
         \/ WifiTask \/ EventTask \/ TimerCommand \/ TimerExpires
         \/ PingTask \/ Environment
  PROVE  /\ UNCHANGED << states_list, events_list, boot >>
         /\ task # "none" => task' # "none"
<1>1. CASE EventTask \/ TimerCommand \/ TimerExpires \/ PingTask \/ Environment
  BY <1>1, OthersLeaveTask DEF task_vars, lists
<1>2. CASE EngineStep
  BY <1>2, EngineCalls DEF EngineStep, EnterUnknownState, EnterStateWithoutEvents,
     EnterState, WaitBits, FindNoCallback, EndStep, CallBegins, BeginCallback,
     CallReturns, ReturnOk, lists
<1>3. CASE PowerOn \/ ProtoCall \/ ChangeState \/ SessionCall \/ TimerCall
  BY <1>3 DEF PowerOn, ProtoCall, ChangeState, SetIdle, SetInit, SessionCall, TimerCall,
     osh_node_fsm_set_state, fsm_vars, lists
<1> QED  BY <1>1, <1>2, <1>3 DEF WifiTask

(* The boot's invariant is inductive, given the invariants of the task.       *)
LEMMA BootInvNext == FsmInv /\ TaskInv /\ BootInv /\ [NodeNext]_vars => BootInv'
<1> SUFFICES ASSUME FsmInv, TaskInv, BootInv, [NodeNext]_vars PROVE BootInv'
  OBVIOUS
<1>1. CASE Restart \/ BootAborts \/ ProtoPanics \/ DeletedSessionCrashes \/ ButtonPressed
  BY <1>1, RestartsRefine, BootInvReboot
<1>2. CASE UNCHANGED vars
  BY <1>2 DEF vars, fsm_vars, link_vars, wifi_vars, timer_vars, ping_vars, BootInv, Quiet,
     Reached, Listed
<1>3. CASE Boot \/ BootStartFails
  BY <1>3, BootInvBoot
<1>4. CASE \/ WifiTask \/ EventTask \/ TimerCommand \/ TimerExpires
           \/ PingTask \/ Environment
  <2>1. task # "none" /\ task' # "none" /\ UNCHANGED << states_list, events_list, boot >>
    BY <1>4, OnlyBootRuns, TasksKeepLists
  <2>2. boot = 6
    BY <2>1 DEF BootInv
  <2> QED  BY <2>1, <2>2 DEF BootInv, Reached, Listed
<1> QED  BY <1>1, <1>2, <1>3, <1>4 DEF NodeNext, Running

(* When wifi_task starts every registration of osh_node_wifi_init is found    *)
(* under its state, whatever fails and whatever was restarted before.         *)
THEOREM BootAlwaysRegistersAll == NodeSafety => []BootRegistersAll
<1>1. BootInv => BootRegistersAll
  <2> SUFFICES ASSUME BootInv, task # "none", NEW i \in 1 .. 3
               PROVE  Reached(i)
    BY BootSteps DEF BootRegistersAll, Reached
  <2> QED  BY DEF BootInv
<1> QED  BY <1>1, BootInvInit, BootInvNext, TaskInvariant, PTL DEF NodeSafety
=============================================================================
