------------------------------- MODULE OshNode -------------------------------
(* A node from power on: app_main's boot sequence, the event state machine    *)
(* (OshFsm) run by wifi_task, the callbacks osh_node_wifi.c registers for it, *)
(* the system event task that runs event_handler, the timer daemon, the ping  *)
(* session's task, the request server's start and stop (OshProtoCtl) and the  *)
(* station below it all (OshLink).                                            *)
(*                                                                            *)
(* A callback runs step by step, so that every other task can move between    *)
(* two calls it makes; cb says which call is next.                            *)
EXTENDS OshFsm, OshProtoCtl, OshLink

CONSTANTS MaxPingTimeout,   \* MAX_PING_TIMEOUT
          TimerQueueBound   \* commands the timer queue holds (bound of the model)

ASSUME NodeAssumption ==
    /\ MaxPingTimeout \in Nat \ {0}
    /\ TimerQueueBound \in Nat \ {0}

INIT == 0
IDLE == 1

POWERON    == {0}
CONNECT    == {1}
DISCONNECT == {2}

ASSUME NodeEventsAssumption ==
    /\ {INIT, IDLE} \subseteq States
    /\ {POWERON, CONNECT, DISCONNECT} \subseteq Masks
    /\ {0, 1, 2} \subseteq Bits
    /\ {"init_poweron", "init_connect", "on_disconnect"} \subseteq Callbacks

RegistrationsIdleFirst ==                                      \* mutant
    << [state |-> IDLE, mask |-> DISCONNECT, callback |-> "on_disconnect"],
       [state |-> INIT, mask |-> POWERON,    callback |-> "init_poweron"],
       [state |-> INIT, mask |-> CONNECT,    callback |-> "init_connect"] >>

(* The registrations of osh_node_wifi_init, in its order.                     *)
Registrations == << [state |-> INIT, mask |-> POWERON,    callback |-> "init_poweron"],
                    [state |-> INIT, mask |-> CONNECT,    callback |-> "init_connect"],
                    [state |-> IDLE, mask |-> DISCONNECT, callback |-> "on_disconnect"] >>

VARIABLES
    boot,          \* next step of app_main
    cb,            \* next call of the callback wifi_task is in, or "none"
    provisioning,  \* the provisioning service runs, and waits for credentials
    handler,       \* rest of event_handler for the event in hand
    gateway_ip,    \* "zero" until the first GOT_IP is handled, then "dns"
    timer,         \* ping timer: "null", "stopped" or "armed"
    timer_q,       \* commands the timer daemon has not executed yet
    timer_lost,    \* the last xTimerStart or xTimerStop was refused and missed
    ping,          \* g_node_wifi.ping: "null", a "session", or a "deleted" one
    pinger,        \* task of that session: "none", "idle" or one of Busy
    leaving,       \* what the tasks of deleted sessions are still busy with
    timeout_count

timer_vars == << timer, timer_q, timer_lost >>
ping_vars  == << ping, pinger, leaving >>
wifi_vars  == << boot, cb, provisioning, handler, gateway_ip, timer_vars,
                 ping_vars, timeout_count >>
vars       == << fsm_vars, proto_vars, link_vars, wifi_vars >>

CallbackSteps ==
    {"none", "register_handlers", "open_sockets", "start_server",
     "start_heartbeat", "set_idle", "new_session", "start_timer",
     "suspend_server", "stop_heartbeat", "close_sockets", "set_init",
     "stop_timer", "delete_session", "return", "stuck"}

(* A session's task waits for a reply, or has reported that there was none    *)
(* and is about to connect again.                                             *)
Busy == {"probing", "connecting"}

NodeTypeOK ==
    /\ FsmTypeOK
    /\ ProtoTypeOK
    /\ LinkTypeOK
    /\ boot \in 0 .. Len(Registrations) + 3
    /\ cb \in CallbackSteps
    /\ provisioning \in BOOLEAN
    /\ handler \in {"idle", "reconnect", "read_dns"}
    /\ gateway_ip \in {"zero", "dns"}
    /\ timer \in {"null", "stopped", "armed"}
    /\ timer_q \in Seq({"stopped", "armed"})
    /\ Len(timer_q) <= TimerQueueBound
    /\ timer_lost \in BOOLEAN
    /\ ping \in {"null", "session", "deleted"}
    /\ pinger \in {"none", "idle"} \cup Busy
    /\ leaving \subseteq Busy
    /\ timeout_count \in 0 .. MaxPingTimeout

WifiInit ==
    /\ boot = 0
    /\ cb = "none"
    /\ provisioning = FALSE
    /\ handler = "idle"
    /\ gateway_ip = "zero"
    /\ timer = "null"
    /\ timer_q = << >>
    /\ timer_lost = FALSE
    /\ ping = "null"
    /\ pinger = "none"
    /\ leaving = {}
    /\ timeout_count = 0

NodeInit == FsmInitial /\ ProtoInit /\ LinkInit /\ WifiInit

-----------------------------------------------------------------------------
(* Power off and on, esp_restart, a panic or a failed ESP_ERROR_CHECK: only   *)
(* what is in flash is left.                                                  *)
Reboot ==
    /\ FsmReboot
    /\ ProtoReboot
    /\ LinkReboot
    /\ boot' = 0
    /\ cb' = "none"
    /\ provisioning' = FALSE
    /\ handler' = "idle"
    /\ gateway_ip' = "zero"
    /\ timer' = "null"
    /\ timer_q' = << >>
    /\ timer_lost' = FALSE
    /\ ping' = "null"
    /\ pinger' = "none"
    /\ leaving' = {}
    /\ timeout_count' = 0

Restart == Reboot /\ UNCHANGED provisioned

(* The reset button erases the credentials before it restarts.                *)
ButtonPressed == /\ "button" \in Faults
                 /\ boot > 0
                 /\ Reboot
                 /\ provisioned' \in {provisioned, FALSE}

-----------------------------------------------------------------------------
(* The boot: osh_node_fsm_init, the registrations, the rest of                *)
(* osh_node_wifi_init (osh_node_proto_init, the ping timer), then             *)
(* osh_node_wifi_start.  Every error on the way aborts and restarts.          *)
TimerBoot == Len(Registrations) + 1
StartBoot == Len(Registrations) + 2

BootRest == UNCHANGED << proto_vars, link_vars, cb, provisioning, handler,
                         gateway_ip, timer_q, timer_lost, ping_vars,
                         timeout_count >>

BootFsm == /\ boot = 0
           /\ osh_node_fsm_init
           /\ boot' = 1
           /\ UNCHANGED timer
           /\ BootRest

BootRegister ==
    /\ boot \in DOMAIN Registrations
    /\ LET r == Registrations[boot] IN
         \/ RegisterNewEvent(r.state, EventBits(r.mask), r.callback)
         \/ RegisterMissed(r.state, EventBits(r.mask))
    /\ boot' = boot + 1
    /\ UNCHANGED timer
    /\ BootRest

BootTimer == /\ boot = TimerBoot
             /\ timer' = "stopped"
             /\ boot' = boot + 1
             /\ UNCHANGED fsm_vars
             /\ BootRest

BootStartSilently == /\ boot = StartBoot                       \* mutant
                     /\ StartLoop(INIT, {})
                     /\ boot' = boot + 1
                     /\ UNCHANGED timer
                     /\ BootRest

BootStart == /\ boot = StartBoot
             /\ StartLoop(INIT, POWERON)
             /\ boot' = boot + 1
             /\ UNCHANGED timer
             /\ BootRest

(* osh_node_wifi_start reports ESP_OK even if there was no memory for the     *)
(* task: the node stays mute.                                                 *)
BootStartFails == /\ boot = StartBoot
                  /\ "task" \in Faults
                  /\ boot' = boot + 1
                  /\ UNCHANGED << fsm_vars, timer >>
                  /\ BootRest

BootAborts == /\ "malloc" \in Faults
              /\ boot <= StartBoot
              /\ Restart

Boot == \/ BootFsm
        \/ BootRegister
        \/ BootTimer
        \/ BootStart

-----------------------------------------------------------------------------
(* wifi_task, in the state machine.                                           *)
FirstStep(callback) == CASE callback = "init_poweron"  -> "register_handlers"
                         [] callback = "init_connect"  -> "open_sockets"
                         [] callback = "on_disconnect" -> "suspend_server"

CallBegins == /\ BeginCallback
              /\ cb' = FirstStep(step'.running.callback)

CallNeverReturns == /\ cb = "return"                           \* mutant
                    /\ cb' = "none"
                    /\ UNCHANGED fsm_vars

CallReturns == /\ cb = "return"
               /\ ReturnOk
               /\ cb' = "none"

EngineStep ==
    /\ \/ /\ \/ EnterUnknownState \/ EnterStateWithoutEvents \/ EnterState
             \/ WaitBits \/ FindNoCallback \/ EndStep
          /\ UNCHANGED cb
       \/ CallBegins
       \/ CallReturns
    /\ UNCHANGED << proto_vars, link_vars, boot, provisioning, handler, gateway_ip,
                    timer_vars, ping_vars, timeout_count >>

(* The callback makes the call at step p and goes on with step q.             *)
Call(p, q) == cb = p /\ cb' = q

(* osh_node_wifi_init_poweron: the station is started if there are            *)
(* credentials, the provisioning service otherwise.                           *)
PowerOn == /\ Call("register_handlers", "return")
           /\ \/ /\ provisioned
                 /\ esp_wifi_start
                 /\ UNCHANGED provisioning
              \/ /\ ~ provisioned
                 /\ provisioning' = TRUE
                 /\ UNCHANGED link_vars
           /\ UNCHANGED << fsm_vars, proto_vars, boot, handler, gateway_ip,
                           timer_vars, ping_vars, timeout_count >>

(* osh_node_proto_start and osh_node_proto_stop inside the callbacks.         *)
ProtoCall ==
    /\ \/ Call("open_sockets", "start_server") /\ OpenSockets
       \/ Call("open_sockets", "set_idle") /\ OpenSocketsFails
       \/ Call("start_server", "start_heartbeat")
            /\ (StartServer \/ StartServerFails)
       \/ Call("start_heartbeat", "set_idle")
            /\ (StartHeartbeat \/ StartHeartbeatFails)
       \/ Call("suspend_server", "stop_heartbeat") /\ SuspendServer
       \/ Call("suspend_server", "stuck") /\ SuspendsCaller /\ UNCHANGED proto_vars
       \/ Call("stop_heartbeat", "close_sockets") /\ StopHeartbeat
       \/ Call("close_sockets", "set_init") /\ CloseSockets
    /\ UNCHANGED << fsm_vars, link_vars, boot, provisioning, handler, gateway_ip,
                    timer_vars, ping_vars, timeout_count >>

ProtoPanics == /\ cb = "stop_heartbeat"
               /\ StopHeartbeatPanics
               /\ Restart

SetIdleDropsEvents ==                                          \* mutant
    /\ Call("set_idle", "new_session")
    /\ SetState(IDLE)
    /\ event_bits' = {}
    /\ UNCHANGED << lists, deferred, task, step >>

SetInitForgotten == /\ Call("set_init", "stop_timer")          \* mutant
                    /\ UNCHANGED fsm_vars

SetInitKeepsTimer == /\ Call("set_init", "delete_session")     \* mutant
                     /\ osh_node_fsm_set_state(INIT)

(* The two callbacks set the state before they are through.                   *)
SetIdle == Call("set_idle", "new_session") /\ osh_node_fsm_set_state(IDLE)
SetInit == Call("set_init", "stop_timer") /\ osh_node_fsm_set_state(INIT)

ChangeState == /\ SetIdle \/ SetInit
               /\ UNCHANGED << proto_vars, link_vars, boot, provisioning, handler,
                               gateway_ip, timer_vars, ping_vars, timeout_count >>

(* osh_node_wifi_init_connect creates a session for what gateway_ip is by     *)
(* then; esp_ping_new_session leaves the handle alone when it fails.          *)
NewSession == /\ ping' = "session"
              /\ pinger' = "idle"
              /\ UNCHANGED leaving

NewSessionFails == /\ "ping" \in Faults
                   /\ UNCHANGED ping_vars

(* osh_node_wifi_on_disconnect deletes the session and keeps the handle.  A   *)
(* probe in flight keeps the session's task until it is answered, a callback  *)
(* until it is through.                                                       *)
DeleteSession == /\ IF ping = "session"
                    THEN /\ ping' = "deleted"
                         /\ pinger' = "none"
                         /\ \/ leaving' = leaving \cup ({pinger} \cap Busy)
                            \/ pinger = "probing" /\ UNCHANGED leaving
                    ELSE UNCHANGED << ping, pinger, leaving >>

SessionCall ==
    /\ \/ Call("new_session", "start_timer") /\ (NewSession \/ NewSessionFails)
       \/ Call("delete_session", "return") /\ DeleteSession
    /\ UNCHANGED << fsm_vars, proto_vars, link_vars, boot, provisioning, handler,
                    gateway_ip, timer_vars, timeout_count >>

(* What the timer will be when the daemon has caught up.                      *)
TimerAfterQueue == IF timer_q = << >> THEN timer ELSE timer_q[Len(timer_q)]

(* xTimerStart and xTimerStop only queue a command for the timer daemon, and  *)
(* do not wait: a queue that is full, of these commands or of those for other *)
(* timers, refuses it.  Nobody looks at the result.  The command is missed    *)
(* unless the timer comes to what it asks for without it.                     *)
CommandQueued(command) == /\ Len(timer_q) < TimerQueueBound
                          /\ timer_q' = Append(timer_q, command)
                          /\ timer_lost' = FALSE

CommandRefused(command) ==
    /\ Len(timer_q) >= TimerQueueBound \/ "command" \in Faults
    /\ timer_lost' = (TimerAfterQueue # command)
    /\ UNCHANGED timer_q

QueueCommand(command) == /\ CommandQueued(command) \/ CommandRefused(command)
                         /\ UNCHANGED timer

TimerCall ==
    /\ \/ Call("start_timer", "return") /\ QueueCommand("armed")
       \/ Call("stop_timer", "delete_session") /\ QueueCommand("stopped")
    /\ UNCHANGED << fsm_vars, proto_vars, link_vars, boot, provisioning, handler,
                    gateway_ip, ping_vars, timeout_count >>

WifiTask == EngineStep \/ PowerOn \/ ProtoCall \/ ChangeState \/ SessionCall \/ TimerCall

-----------------------------------------------------------------------------
(* event_handler, on the system event task.  Each branch has two effects, and *)
(* wifi_task may run between them.                                            *)
HandlerRest == UNCHANGED << proto_vars, boot, cb, provisioning, timer_vars,
                            ping_vars, timeout_count >>

Receive(event) == /\ handler = "idle"
                  /\ evq # << >>
                  /\ Head(evq) = event
                  /\ evq' = Tail(evq)

HandleStart == /\ Receive("STA_START")
               /\ esp_wifi_connect
               /\ UNCHANGED << fsm_vars, provisioned, handler, gateway_ip >>
               /\ HandlerRest

HandleDisconnectedGivesUp ==                                   \* mutant
    /\ Receive("STA_DISCONNECTED")
    /\ osh_node_fsm_invoke_event(DISCONNECT)
    /\ UNCHANGED << handler, link, provisioned, gateway_ip >>
    /\ HandlerRest

HandleDisconnectedSilently ==                                  \* mutant
    /\ Receive("STA_DISCONNECTED")
    /\ handler' = "reconnect"
    /\ UNCHANGED << fsm_vars, link, provisioned, gateway_ip >>
    /\ HandlerRest

HandleDisconnected == /\ Receive("STA_DISCONNECTED")
                      /\ osh_node_fsm_invoke_event(DISCONNECT)
                      /\ handler' = "reconnect"
                      /\ UNCHANGED << link, provisioned, gateway_ip >>
                      /\ HandlerRest

HandleReconnectNot == /\ handler = "reconnect"                 \* mutant
                      /\ handler' = "idle"
                      /\ UNCHANGED << fsm_vars, link_vars, gateway_ip >>
                      /\ HandlerRest

HandleReconnect == /\ handler = "reconnect"
                   /\ esp_wifi_connect
                   /\ handler' = "idle"
                   /\ UNCHANGED << fsm_vars, evq, provisioned, gateway_ip >>
                   /\ HandlerRest

HandleGotIpSilently == /\ Receive("STA_GOT_IP")                \* mutant
                       /\ handler' = "read_dns"
                       /\ UNCHANGED << fsm_vars, link, provisioned, gateway_ip >>
                       /\ HandlerRest

HandleGotIpKeepsZero == /\ Receive("STA_GOT_IP")              \* mutant
                        /\ osh_node_fsm_invoke_event(CONNECT)
                        /\ UNCHANGED << handler, link, provisioned, gateway_ip >>
                        /\ HandlerRest

HandleGotIp == /\ Receive("STA_GOT_IP")
               /\ osh_node_fsm_invoke_event(CONNECT)
               /\ handler' = "read_dns"
               /\ UNCHANGED << link, provisioned, gateway_ip >>
               /\ HandlerRest

HandleReadDns == /\ handler = "read_dns"
                 /\ gateway_ip' = "dns"
                 /\ handler' = "idle"
                 /\ UNCHANGED << fsm_vars, link_vars >>
                 /\ HandlerRest

EventTask == \/ HandleStart
             \/ HandleDisconnected
             \/ HandleReconnect
             \/ HandleGotIp
             \/ HandleReadDns

-----------------------------------------------------------------------------
(* The timer daemon executes a command, or lets the armed ping timer expire:  *)
(* ping_timeout_cb starts the session behind the handle.  A NULL handle and a *)
(* session that is probing are refused; a deleted handle is freed memory,     *)
(* and using it does nothing, or crashes the chip.                            *)
TimerRest == UNCHANGED << fsm_vars, proto_vars, link_vars, boot, cb, provisioning,
                          handler, gateway_ip, timeout_count >>

TimerCommand == /\ timer_q # << >>
                /\ timer' = Head(timer_q)
                /\ timer_q' = Tail(timer_q)
                /\ UNCHANGED << timer_lost, ping_vars >>
                /\ TimerRest

TimerExpires == /\ timer = "armed"
                /\ ping = "session"
                /\ pinger = "idle"
                /\ pinger' = "probing"
                /\ UNCHANGED << timer_vars, ping, leaving >>
                /\ TimerRest

UsesDeletedSession == \/ timer = "armed" /\ ping = "deleted"
                      \/ cb = "delete_session" /\ ping = "deleted"

DeletedSessionCrashes == UsesDeletedSession /\ Restart

-----------------------------------------------------------------------------
(* The callbacks of a ping session, run by its task.  A probe can be lost     *)
(* when the link is not up, and on a good link too.                           *)
ProbeLost == link # "up" \/ "loss" \in Faults

PingRest == UNCHANGED << proto_vars, boot, cb, provisioning, handler, gateway_ip,
                         timer_vars, ping >>

NeverTooManyTimeouts == FALSE                                  \* mutant
AtMaxPingTimeout == MaxPingTimeout <= timeout_count + 1        \* mutant

TooManyTimeouts == MaxPingTimeout > timeout_count + 1

(* At the limit the callback posts DISCONNECT, and then connects.             *)
ping_on_timeout ==
    /\ IF TooManyTimeouts
       THEN /\ timeout_count' = 0
            /\ osh_node_fsm_invoke_event(DISCONNECT)
       ELSE /\ timeout_count' = timeout_count + 1
            /\ UNCHANGED fsm_vars
    /\ UNCHANGED link_vars

ConnectAgain == /\ esp_wifi_connect
                /\ UNCHANGED << fsm_vars, evq, provisioned, timeout_count >>

(* The reply stops the session of the current handle, whichever session it    *)
(* came from.                                                                 *)
ping_on_success == /\ timeout_count' = 0
                   /\ pinger' = IF pinger = "probing" THEN "idle" ELSE pinger
                   /\ UNCHANGED << fsm_vars, link_vars >>

ProbeAnswered == /\ pinger = "probing"
                 /\ link = "up"
                 /\ ping_on_success
                 /\ UNCHANGED leaving
                 /\ PingRest

(* A session sends several probes unless a reply stops it.                    *)
ProbeTimesOut == /\ pinger = "probing"
                 /\ ProbeLost
                 /\ ping_on_timeout
                 /\ pinger' \in IF TooManyTimeouts THEN {"connecting"}
                                                   ELSE {"probing", "idle"}
                 /\ UNCHANGED leaving
                 /\ PingRest

TimeoutConnects == /\ pinger = "connecting"
                   /\ ConnectAgain
                   /\ pinger' \in {"probing", "idle"}
                   /\ UNCHANGED leaving
                   /\ PingRest

LastProbeAnswered == /\ "probing" \in leaving
                     /\ link = "up"
                     /\ ping_on_success
                     /\ leaving' = leaving \ {"probing"}
                     /\ PingRest

LastProbeTimesOut == /\ "probing" \in leaving
                     /\ ProbeLost
                     /\ ping_on_timeout
                     /\ leaving' = (leaving \ {"probing"}) \cup
                                      IF TooManyTimeouts THEN {"connecting"} ELSE {}
                     /\ UNCHANGED pinger
                     /\ PingRest

LastTimeoutConnects == /\ "connecting" \in leaving
                       /\ ConnectAgain
                       /\ leaving' = leaving \ {"connecting"}
                       /\ UNCHANGED pinger
                       /\ PingRest

PingTask == \/ ProbeAnswered \/ ProbeTimesOut \/ TimeoutConnects
            \/ LastProbeAnswered \/ LastProbeTimesOut \/ LastTimeoutConnects

-----------------------------------------------------------------------------
(* What the radio and the user do.  The provisioning service goes on with the *)
(* credentials it was waiting for.                                            *)
Attempt == AttemptSucceeds \/ ("refuse" \in Faults /\ AttemptFails)

Environment ==
    /\ \/ /\ \/ Attempt
             \/ "drop" \in Faults /\ LinkLost
             \/ "renew" \in Faults /\ NewAddress
          /\ UNCHANGED provisioning
       \/ /\ provisioning
          /\ Provisioned
          /\ provisioning' = FALSE
    /\ UNCHANGED << fsm_vars, proto_vars, boot, cb, handler, gateway_ip, timer_vars,
                    ping_vars, timeout_count >>

Running == \/ Boot \/ BootStartFails \/ BootAborts
           \/ WifiTask \/ ProtoPanics
           \/ EventTask
           \/ TimerCommand \/ TimerExpires \/ DeletedSessionCrashes
           \/ PingTask
           \/ Environment
           \/ ButtonPressed

(* After a panic nothing runs any more: the chip restarts.                    *)
NodeNext == IF task = "crashed" THEN Restart ELSE Running

NodeSafety == NodeInit /\ [][NodeNext]_vars

(* Every task gets to run (they block or sleep between two steps, and the     *)
(* chip has two cores), and a connection attempt ends.  Buttons, losses and   *)
(* the expiry of the timer are owed to nobody.                                *)
NodeFairness ==
    /\ WF_vars(Boot)
    /\ WF_vars(WifiTask)
    /\ WF_vars(EventTask)
    /\ WF_vars(TimerCommand)
    /\ WF_vars(PingTask)
    /\ WF_vars(Attempt /\ UNCHANGED << fsm_vars, proto_vars, wifi_vars >>)

NodeSpec == NodeSafety /\ NodeFairness

-----------------------------------------------------------------------------
(* The state stands for what runs: between two callbacks the node is in IDLE  *)
(* exactly when the server runs on all its sockets, there is a live ping      *)
(* session and the ping timer is armed or about to be; in every other state   *)
(* none of them is on.  init_connect and on_disconnect each turn six things   *)
(* over in eight calls, and either can be preempted at every one of them.  A  *)
(* command the timer queue has refused leaves the timer wrong until the next  *)
(* command, and nothing else.                                                 *)
ModeConsistent ==
    cb = "none" =>
       LET on == current_state = IDLE IN
       /\ proto_task = "running" <=> on
       /\ socks = IF on THEN AllSockets ELSE {}
       /\ ping = "session" <=> on
       /\ ~ timer_lost => (TimerAfterQueue = "armed" <=> on)

(* Nobody gives up on the link: while the station is down, its loss or its    *)
(* start is still queued, or event_handler is about to connect again          *)
(* (osh_node_wifi.c:164, "Connecting to the AP again...").                    *)
LinkIsRetried ==
    link = "down" =>
       \/ handler = "reconnect"
       \/ \E i \in DOMAIN evq : evq[i] \in {"STA_DISCONNECTED", "STA_START"}

(* The registrations reach their lists: when wifi_task starts, each event     *)
(* osh_node_wifi_init registered is found under its state.                    *)
BootRegistersAll ==
    task # "none" =>
       \A i \in DOMAIN Registrations :
          Listed(Registrations[i].state, EventBits(Registrations[i].mask))

(* The node drives the event state machine as its specification allows, and   *)
(* each of its callbacks returns.                                             *)
ImplementsFsm == FsmSpec

(* A station that is down tries again.                                        *)
Reconnects == link = "down" ~> link # "down"

(* A link that stays away stops the server for good: stale CONNECT bits       *)
(* cannot bring it back.                                                      *)
DeadLinkStopsServer == <>[](link # "up") => <>[](proto_task # "running")

(* A link that comes up and stays up is served (osh_node_wifi.c:380, event    *)
(* CONNECT in state INIT, "next state: OSH_FSM_STATE_IDLE, wait for           *)
(* request").                                                                 *)
StableLinkServes == <>[](link = "up") => <>[](current_state = IDLE)

(* It is served as long as no DISCONNECT lies latched while the link is up:   *)
(* a stale one is the only thing that keeps the node from serving, whatever   *)
(* else is renewed, lost, dropped, answered late or restarted.                *)
ServedUnlessStale ==
    [](link = "up" => event_bits \cap DISCONNECT = {}) => StableLinkServes

(* proto_stop suspends the server task, not the one that calls it             *)
(* (osh_node_proto.c:659, "suspend proto task").                              *)
WifiTaskNotSuspended == cb # "stuck"

(* esp_ping_new_session has failed: the node is in IDLE, or just leaves it,   *)
(* without a session of its own.                                              *)
SessionRefused == /\ ping # "session"
                  /\ \/ current_state = IDLE /\ cb # "new_session"
                     \/ cb = "stop_timer"

(* Once the timer daemon has caught up, nothing can start a session that has  *)
(* been deleted.  Its handle is kept (osh_node_wifi.c:427) and xTimerStop     *)
(* only queues a command, so that the timer may still expire on it until      *)
(* then.  Two failures alone, which osh_node_wifi.c:403 and :424 ignore, make *)
(* it expire on that handle for longer: a later session that was refused, and *)
(* a stop that was, and each only until the next call that is not.            *)
DeletedSessionUnarmed ==
    ping = "deleted" /\ TimerAfterQueue = "armed" => timer_lost \/ SessionRefused

(* One probe without a reply is taken for a lost link: the series of          *)
(* MAX_PING_TIMEOUT of them that the counter suggests is never counted, since *)
(* the comparison is the other way round (osh_node_wifi.c:241).               *)
EveryTimeoutDisconnects ==
    [][ProbeTimesOut \/ LastProbeTimesOut => DISCONNECT \subseteq event_bits']_vars

(* A node whose modules have been started comes to start its station or the   *)
(* provisioning service, or restarts, whatever fails on the way: nothing but  *)
(* a wifi_task that could not be created, of which osh_node_wifi_start tells  *)
(* nobody (osh_node_wifi.c:514), leaves it mute.                              *)
StartedNodePowersOn ==
    boot > StartBoot ~> \/ boot <= StartBoot
                        \/ link # "stopped" \/ provisioning
                        \/ task = "none"

(* A session is created for the address GOT_IP came with, except while        *)
(* event_handler, which has posted CONNECT, is about to store it              *)
(* (osh_node_wifi.c:182, :184): then wifi_task may copy an address of zeros.  *)
ZeroTargetOnlyInWindow ==
    [][(ping' = "session" /\ ping # "session")
         => (gateway_ip = "dns" \/ handler = "read_dns")]_vars
=============================================================================
