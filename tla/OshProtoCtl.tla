----------------------------- MODULE OshProtoCtl -----------------------------
(* Starting and stopping the request server of a node: osh_node_proto_start   *)
(* and osh_node_proto_stop (osh_node_proto.c), cut at the points where the    *)
(* caller can be interrupted or a call can fail.  The caller strings the      *)
(* parts together; the first failing part of proto_start ends it.             *)
CONSTANT Faults   \* the calls that may fail

AllSockets == {"report", "mdm", "app"}

VARIABLES socks,       \* the sockets that are open; a closed one is -1
          proto_task,  \* the server task: no handle yet, "running", "suspended"
          hb_timer     \* the heartbeat timer: no handle yet, or "created"

proto_vars == << socks, proto_task, hb_timer >>

ProtoTypeOK == /\ socks \subseteq AllSockets
               /\ proto_task \in {"null", "running", "suspended"}
               /\ hb_timer \in {"null", "created"}

ProtoInit == /\ socks = {}
             /\ proto_task = "null"
             /\ hb_timer = "null"

(* proto_start: sockets left open are closed, three new ones are opened,      *)
(* bound and joined.  If one call fails, the label failed closes them all.    *)
OpenSockets == /\ socks' = AllSockets
               /\ UNCHANGED << proto_task, hb_timer >>

OpenSocketsFailsHalfway == /\ "socket" \in Faults              \* mutant
                           /\ socks' = {"report"}
                           /\ UNCHANGED << proto_task, hb_timer >>

OpenSocketsFails == /\ "socket" \in Faults
                    /\ socks' = {}
                    /\ UNCHANGED << proto_task, hb_timer >>

(* proto_start: the server task is created the first time, resumed later.     *)
(* The result of xTaskCreate is not looked at.                                *)
StartServer == /\ proto_task' = "running"
               /\ UNCHANGED << socks, hb_timer >>

StartServerFails == /\ "task" \in Faults
                    /\ proto_task = "null"
                    /\ UNCHANGED proto_vars

(* proto_start: the heartbeat timer is created the first time, not started; a *)
(* later xTimerStart queues a command or is refused.  When the timer runs is  *)
(* not told apart: its callback is empty (osh_node_proto.c:225).              *)
StartHeartbeat == /\ hb_timer' = "created"
                  /\ UNCHANGED << socks, proto_task >>

StartHeartbeatFails == /\ "timer" \in Faults
                       /\ hb_timer = "null"
                       /\ UNCHANGED proto_vars

(* proto_stop: vTaskSuspend with the server's handle.  A NULL handle means    *)
(* the calling task: SuspendsCaller is the caller's business.                 *)
SuspendsCaller == proto_task = "null"

SuspendServer == /\ proto_task # "null"
                 /\ proto_task' = "suspended"
                 /\ UNCHANGED << socks, hb_timer >>

(* proto_stop: xTimerStop asserts that the handle is not NULL.  Its command   *)
(* may be refused too.                                                        *)
StopHeartbeatPanics == hb_timer = "null"

StopHeartbeat == /\ hb_timer # "null"
                 /\ UNCHANGED proto_vars

CloseSockets == /\ socks' = {}
                /\ UNCHANGED << proto_task, hb_timer >>

ProtoReboot == /\ socks' = {}
               /\ proto_task' = "null"
               /\ hb_timer' = "null"

-----------------------------------------------------------------------------
(* The sockets come and go together, whatever fails while they are opened     *)
(* (osh_node_proto.c, label failed), and the server never runs without them:  *)
(* proto_start resumes it after opening, proto_stop suspends it before        *)
(* closing.  A server that runs on sockets -1 writes outside its fd_set.      *)
RunningServerHasSockets == /\ socks \in {{}, AllSockets}
                           /\ proto_task = "running" => socks = AllSockets
=============================================================================
