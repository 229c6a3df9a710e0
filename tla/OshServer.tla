------------------------------ MODULE OshServer ------------------------------
(* The request server at work: the task proto_server (osh_node_proto.c) over  *)
(* one request, one response and two buffers, and the task that stops and     *)
(* starts it (osh_node_proto_stop and _start, in the parts of OshProtoCtl).   *)
(* The two share everything and lock nothing: a stop clears the buffers while *)
(* the server may be in the middle of a request, and suspends it there.       *)
(*                                                                            *)
(* The model begins when the first start has succeeded; how that may fail is  *)
(* OshNode's.                                                                 *)
EXTENDS OshPdu, OshProtoCtl, Sequences

VARIABLES
    pc,          \* next thing proto_server does
    port,        \* the socket it is at
    read_fds,    \* the sockets select has marked in the server's fd_set
    len,         \* what recvfrom returned
    recv_buff,   \* datagram and length
    send_buff,   \* encoded response and length
    request,
    response,
    last_token,  \* of the session
    ctl,         \* next thing the starting and stopping task does
    waiting,     \* sockets with a datagram to be received
    in_hand,     \* history: the datagram being served, if no stop has spoiled it
    current_fds  \* history: read_fds was marked by a select on the open sockets

shared_vars == << recv_buff, send_buff >>
local_vars  == << pc, port, read_fds, len, request, response, last_token >>
history_vars == << in_hand, current_fds >>
server_vars == << local_vars, shared_vars, ctl, waiting, history_vars >>
vars        == << server_vars, proto_vars >>

Requests  == [type : 0 .. 3, class : 0 .. 7, code : 0 .. 31,
              token_ind : BOOLEAN, entry_ind : BOOLEAN, entry : SUBSET (0 .. 31)]
Responses == [type : 0 .. 4, class : 0 .. 7, code : 0 .. 31,
              token_ind : BOOLEAN, payload : SUBSET SUBSET (0 .. 31)]
OnWire    == [type : 0 .. 3, class : 0 .. 3, code : 0 .. 31,
              token : SUBSET Nat, payload : SUBSET SUBSET (0 .. 31)]

CtlSteps == {"up", "clear_recv_len", "clear_send", "clear_send_len",
             "suspend", "stop_heartbeat", "close", "down",
             "start_server", "start_heartbeat"}

ServerTypeOK ==
    /\ ProtoTypeOK
    /\ pc \in {"select", "recv", "len", "decode", "handle", "encode", "send"}
    /\ port \in Ports
    /\ read_fds \subseteq Ports
    /\ len \in Nat
    /\ recv_buff \in [data : Datagrams \cup {ZeroDatagram}, len : Nat]
    /\ send_buff \in [data : OnWire, len : Nat]
    /\ request \in Requests
    /\ response \in Responses
    /\ last_token \in Nat
    /\ ctl \in CtlSteps
    /\ waiting \subseteq Ports
    /\ in_hand \subseteq Datagrams
    /\ current_fds \in BOOLEAN

ServerInit ==
    /\ socks = AllSockets
    /\ proto_task = "running"
    /\ hb_timer = "created"
    /\ pc = "select"
    /\ port = "mdm"
    /\ read_fds = {}
    /\ len = 0
    /\ recv_buff = [data |-> ZeroDatagram, len |-> 0]
    /\ send_buff = [data |-> ZeroEncoded, len |-> 0]
    /\ request = ClearedRequest
    /\ response = ClearedResponse
    /\ last_token = 0
    /\ ctl = "up"
    /\ waiting = {}
    /\ in_hand = {}
    /\ current_fds = FALSE

-----------------------------------------------------------------------------
(* The server task.                                                           *)

(* select marks the sockets that are readable.  When its ten seconds are over *)
(* it marks none, and the loop comes back here: a stutter.                    *)
Select ==
    /\ pc = "select"
    /\ waiting # {}
    /\ read_fds' = waiting
    /\ current_fds' = TRUE
    /\ pc' = "recv"
    /\ UNCHANGED << port, len, request, response, last_token,
                    shared_vars, ctl, waiting, in_hand >>

(* A select that fails leaves the set as it was filled; the error is logged   *)
(* and the set is looked at all the same.                                     *)
SelectFails ==
    /\ "select" \in Faults
    /\ pc = "select"
    /\ read_fds' = Ports
    /\ current_fds' = FALSE
    /\ pc' = "recv"
    /\ UNCHANGED << port, len, request, response, last_token,
                    shared_vars, ctl, waiting, in_hand >>

NextPortSkipsApp ==                                            \* mutant
    /\ port' = "mdm"
    /\ pc' = "select"
    /\ read_fds' = {}
    /\ in_hand' = {}

(* The MDM socket is looked at first, then the APP socket, then the loop      *)
(* begins anew with an empty set.                                             *)
NextPort ==
    /\ in_hand' = {}
    /\ IF port = "mdm"
       THEN /\ port' = "app"
            /\ pc' = "recv"
            /\ UNCHANGED read_fds
       ELSE /\ port' = "mdm"
            /\ pc' = "select"
            /\ read_fds' = {}

NotMarked ==
    /\ pc = "recv"
    /\ port \notin read_fds
    /\ NextPort
    /\ UNCHANGED << len, request, response, last_token,
                    shared_vars, ctl, waiting, current_fds >>

(* recvfrom blocks until there is a datagram.                                 *)
Receive(d) ==
    /\ pc = "recv"
    /\ port \in read_fds \cap waiting
    /\ waiting' = waiting \ {port}
    /\ recv_buff' = [recv_buff EXCEPT !.data = d]
    /\ len' = Length(d)
    /\ in_hand' = {d}
    /\ pc' = "len"
    /\ UNCHANGED << port, read_fds, request, response, last_token,
                    send_buff, ctl, current_fds >>

ReceiveFails ==
    /\ "recv" \in Faults
    /\ pc = "recv"
    /\ port \in read_fds
    /\ NextPort
    /\ UNCHANGED << len, request, response, last_token,
                    shared_vars, ctl, waiting, current_fds >>

SetLength ==
    /\ pc = "len"
    /\ recv_buff' = [recv_buff EXCEPT !.len = len]
    /\ len' = 0                                     \* it goes out of scope
    /\ pc' = "decode"
    /\ UNCHANGED << port, read_fds, request, response, last_token,
                    send_buff, ctl, waiting, history_vars >>

DecodeKeepsResponse ==                                         \* mutant
    /\ pc = "decode"
    /\ LET d == recv_buff.data IN
       /\ request' = IF recv_buff.len < PDU_HEADER_MIN_LEN THEN request ELSE Decoded(d)
       /\ last_token' = IF recv_buff.len >= PDU_HEADER_MIN_LEN /\ SavesToken(d)
                        THEN TokenOf(d) ELSE last_token
       /\ response' = IF DecodesOk(d, recv_buff.len) THEN response
                      ELSE ErrorResponse(request', CERR_BAD_REQUEST)
    /\ pc' = "handle"
    /\ UNCHANGED << port, read_fds, len, shared_vars, ctl, waiting, history_vars >>

(* decode_pdu.  A datagram shorter than a header leaves the request as it is: *)
(* that of an earlier datagram.  Whatever proto_decode_pdu returns,           *)
(* decode_pdu returns ESP_OK and the request is handled.                      *)
Decode ==
    /\ pc = "decode"
    /\ LET d == recv_buff.data IN
       /\ request' = IF recv_buff.len < PDU_HEADER_MIN_LEN THEN request ELSE Decoded(d)
       /\ last_token' = IF recv_buff.len >= PDU_HEADER_MIN_LEN /\ SavesToken(d)
                        THEN TokenOf(d) ELSE last_token
       /\ response' = IF DecodesOk(d, recv_buff.len) THEN InitialResponse
                      ELSE ErrorResponse(request', CERR_BAD_REQUEST)
    /\ pc' = "handle"
    /\ UNCHANGED << port, read_fds, len, shared_vars, ctl, waiting, history_vars >>

(* handle_mdm_pdu or handle_app_pdu, and the decision to respond.             *)
HandleAndRespond ==
    /\ pc = "handle"
    /\ WantsResponse(port, request)
    /\ response' = Handled(port, request, response)
    /\ pc' = "encode"
    /\ UNCHANGED << port, read_fds, len, request, last_token,
                    shared_vars, ctl, waiting, history_vars >>

HandleSilently ==
    /\ pc = "handle"
    /\ ~ WantsResponse(port, request)
    /\ response' = Handled(port, request, response)
    /\ NextPort
    /\ UNCHANGED << len, request, last_token,
                    shared_vars, ctl, waiting, current_fds >>

(* response_remote: the response is encoded and its length set, then sent.    *)
(* No header is longer than the buffer.                                       *)
Encode ==
    /\ pc = "encode"
    /\ send_buff' = [data |-> Encoded(response, last_token), len |-> PDU_HEADER_MIN_LEN]
    /\ pc' = "send"
    /\ UNCHANGED << port, read_fds, len, request, response, last_token,
                    recv_buff, ctl, waiting, history_vars >>

Send ==
    /\ pc = "send"
    /\ NextPort
    /\ UNCHANGED << len, request, response, last_token,
                    shared_vars, ctl, waiting, current_fds >>

(* A response that cannot be sent is logged and forgotten.                    *)
SendFails ==
    /\ "send" \in Faults
    /\ pc = "send"
    /\ NextPort
    /\ UNCHANGED << len, request, response, last_token,
                    shared_vars, ctl, waiting, current_fds >>

ServerStep ==
    \/ Select \/ SelectFails \/ NotMarked
    \/ \E d \in Datagrams : Receive(d)
    \/ ReceiveFails \/ SetLength \/ Decode
    \/ HandleAndRespond \/ HandleSilently
    \/ Encode \/ Send \/ SendFails

ProtoServer == proto_task = "running" /\ ServerStep /\ UNCHANGED proto_vars

-----------------------------------------------------------------------------
(* The task that stops the server and starts it again.                        *)

(* osh_node_proto_stop clears the two buffers and their lengths.              *)
Clear(from, to, recv, send) ==
    /\ ctl = from
    /\ ctl' = to
    /\ recv_buff' = recv
    /\ send_buff' = send
    /\ in_hand' = {}
    /\ UNCHANGED << local_vars, waiting, current_fds, proto_vars >>

Stop == Clear("up", "clear_recv_len", [recv_buff EXCEPT !.data = ZeroDatagram], send_buff)

ClearBuffers ==
    \/ Clear("clear_recv_len", "clear_send", [recv_buff EXCEPT !.len = 0], send_buff)
    \/ Clear("clear_send", "clear_send_len", recv_buff, [send_buff EXCEPT !.data = ZeroEncoded])
    \/ Clear("clear_send_len", "suspend", recv_buff, [send_buff EXCEPT !.len = 0])

(* A part of proto_stop or proto_start that only OshProtoCtl's state records. *)
CtlCall(from, to, call) ==
    /\ ctl = from
    /\ ctl' = to
    /\ call
    /\ UNCHANGED << local_vars, shared_vars, waiting, history_vars >>

(* What was queued on a socket goes with it.                                  *)
Close ==
    /\ ctl = "close"
    /\ ctl' = "down"
    /\ CloseSockets
    /\ waiting' = {}
    /\ current_fds' = FALSE
    /\ UNCHANGED << local_vars, shared_vars, in_hand >>

(* The new sockets have numbers of their own: which of them a set marked for  *)
(* the old ones names is chance.                                              *)
Open ==
    /\ ctl = "down"
    /\ ctl' = "start_server"
    /\ OpenSockets
    /\ read_fds' \in IF read_fds = {} THEN {{}} ELSE SUBSET Ports
    /\ UNCHANGED << pc, port, len, request, response, last_token,
                    shared_vars, waiting, history_vars >>

(* osh_node_proto_start gives up and leaves the server suspended; its caller  *)
(* takes no notice.                                                           *)
OpenFails == CtlCall("down", "up", OpenSocketsFails)

StopAndStart ==
    \/ ClearBuffers
    \/ CtlCall("suspend", "stop_heartbeat", SuspendServer)
    \/ CtlCall("stop_heartbeat", "close", StopHeartbeat)
    \/ Close
    \/ CtlCall("start_server", "start_heartbeat", StartServer)
    \/ CtlCall("start_heartbeat", "up", StartHeartbeat)

(* A datagram arrives.  One is kept per socket.                               *)
Arrive(p) ==
    /\ p \in socks \ waiting
    /\ waiting' = waiting \cup {p}
    /\ UNCHANGED << local_vars, shared_vars, ctl, history_vars, proto_vars >>

ServerNext ==
    \/ ProtoServer
    \/ Stop \/ StopAndStart \/ Open \/ OpenFails
    \/ \E p \in Ports : Arrive(p)

ReceiveFrom(p) ==
    /\ proto_task = "running"
    /\ port = p
    /\ \E d \in Datagrams : Receive(d)
    /\ UNCHANGED proto_vars

(* The server runs when it can, recvfrom does not fail for ever on a socket   *)
(* that has a datagram, and a stop that has begun ends; nobody has to send,   *)
(* to stop or to start again.                                                 *)
ServerSpec ==
    /\ ServerInit
    /\ [][ServerNext]_vars
    /\ WF_vars(ProtoServer)
    /\ \A p \in Ports : SF_vars(ReceiveFrom(p))
    /\ WF_vars(StopAndStart)

-----------------------------------------------------------------------------
IsRequest(d) == d.type \in {REQUEST_CONFIRM, REQUEST_NON_CONFIRM}

(* A well-formed request is answered, or left without an answer, as it        *)
(* deserves and with its own token, whatever malformed datagrams, responses   *)
(* and stops came before it: nothing of an earlier request shows in its       *)
(* answer, though request, response, token and buffers are the same memory.   *)
(* Only a stop that falls between the request's arrival and its answer can    *)
(* spoil it (proto_server, decode_pdu, response_remote).                      *)
AnswersItsRequest ==
    [][ \A d \in in_hand :
           d.fault = "none" /\ IsRequest(d) =>
              /\ Send => /\ send_buff.len # 0
                         /\ Answer(port, d) = << send_buff.data >>
              /\ HandleSilently => Answer(port, d) = << >> ]_vars

(* A datagram that is queued on a socket of a running server is received in   *)
(* the end, the other socket notwithstanding - unless the server is stopped,  *)
(* or looks at a set that no select has marked for the sockets it has: then   *)
(* it blocks in recvfrom on one socket while the other waits (proto.c:437).   *)
ReceivedUnlessStale ==
    \A p \in Ports :
       p \in waiting ~> \/ p \notin waiting
                        \/ ctl # "up" \/ proto_task # "running"
                        \/ read_fds # {} /\ ~ current_fds

(* A malformed request is answered as a bad request                           *)
(* (osh_node_proto.c:240, "bad request", and :482, "response bad request").   *)
BadRequestIsRefused ==
    [][ \A d \in in_hand :
           d.fault # "none" =>
              /\ Send => /\ send_buff.data.type = RESPONSE_RESET
                         /\ send_buff.data.code = CERR_BAD_REQUEST
              /\ ~ HandleSilently ]_vars
=============================================================================
