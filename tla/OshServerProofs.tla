--------------------------- MODULE OshServerProofs ---------------------------
(* Proofs about the request server, for any set of datagrams and any choice   *)
(* of what may fail.                                                          *)
EXTENDS OshServer, TLAPS

(* The parts a datagram, a request and a response are made of.                *)
LEMMA TokenType ==
  ASSUME NEW d \in Datagrams
  PROVE  TokenOf(d) \in Nat
  BY PduAssumption DEF TokenOf

LEMMA DecodedType ==
  ASSUME NEW d \in Datagrams \cup {ZeroDatagram}
  PROVE  Decoded(d) \in Requests
<1>1. /\ d.type \in 0 .. 3
      /\ d.class \in 0 .. 7
      /\ d.code \in 0 .. 31
      /\ d.entry \in SUBSET SUBSET (0 .. 31)
  BY PduAssumption DEF ZeroDatagram
<1>2. UNION d.entry \in SUBSET (0 .. 31)
  BY <1>1
<1> QED  BY <1>1, <1>2 DEF Decoded, HeaderOf, Requests

LEMMA RefusalType ==
  ASSUME NEW p, NEW req
  PROVE  Refusal(p, req) \subseteq 0 .. 31
  BY DEF Refusal, CERR_BAD_REQUEST, CERR_FORBIDDEN, CERR_NOT_FOUND, CERR_ENTITY_INCOMPLETE

LEMMA ErrorResponseType ==
  ASSUME NEW req \in Requests, NEW code \in 0 .. 31
  PROVE  ErrorResponse(req, code) \in Responses
  BY DEF ErrorResponse, Requests, Responses, RESPONSE_RESET, CC_CLIENT_ERR

LEMMA InitialResponseType == InitialResponse \in Responses
  BY DEF InitialResponse, Responses, PDU_BUTT

LEMMA HandledType ==
  ASSUME NEW p \in Ports, NEW req \in Requests, NEW rsp \in Responses
  PROVE  Handled(p, req, rsp) \in Responses
<1>1. CASE Refusal(p, req) # {}
  <2>1. (CHOOSE code \in Refusal(p, req) : TRUE) \in Refusal(p, req)
    BY <1>1
  <2> QED  BY <1>1, <2>1, RefusalType, ErrorResponseType DEF Handled
<1>2. CASE Refusal(p, req) = {}
  <2>1. Pong(req) \in Responses
    BY DEF Pong, Requests, Responses, RESPONSE_ACK, CC_SIGNAL, SIGNAL_PONG
  <2> QED  BY <1>2, <2>1 DEF Handled
<1> QED  BY <1>1, <1>2

LEMMA EncodedType ==
  ASSUME NEW rsp \in Responses, NEW t \in Nat
  PROVE  Encoded(rsp, t) \in OnWire
<1> DEFINE type  == rsp.type % 4
           class == rsp.class % 4
           token == IF rsp.token_ind THEN {t} ELSE {}
<1>1. /\ type \in 0 .. 3
      /\ class \in 0 .. 3
      /\ rsp.code \in 0 .. 31
      /\ rsp.payload \in SUBSET SUBSET (0 .. 31)
  BY DEF Responses
<1>2. token \in SUBSET Nat
  OBVIOUS
<1>3. Encoded(rsp, t) = [type |-> type, class |-> class, code |-> rsp.code,
                         token |-> token, payload |-> rsp.payload]
  BY DEF Encoded, WireType
<1> HIDE DEF type, class, token
<1> QED  BY <1>1, <1>2, <1>3 DEF OnWire

(* Only the answer to a request with a token carries one.                     *)
LEMMA AnswerToken ==
  ASSUME NEW p \in Ports, NEW d \in Datagrams
  PROVE  Handled(p, Decoded(d), InitialResponse).token_ind => d.token # {}
<1>1. Decoded(d).token_ind <=> d.token # {}
  BY DEF Decoded, HeaderOf
<1> QED  BY <1>1 DEF Handled, ErrorResponse, Pong, InitialResponse

-----------------------------------------------------------------------------
(* Where a well-formed request has got to, and what is already settled.       *)
TokenSaved(d) == d.token # {} => last_token = TokenOf(d)

Progress(d) ==
    /\ pc = "handle" => /\ request = Decoded(d)
                        /\ response = InitialResponse
                        /\ TokenSaved(d)
    /\ pc = "encode" => /\ WantsResponse(port, Decoded(d))
                        /\ response = Handled(port, Decoded(d), InitialResponse)
                        /\ TokenSaved(d)
    /\ pc = "send"   => Answer(port, d) = << send_buff.data >> /\ send_buff.len # 0

Served(d) ==
    /\ pc \in {"len", "decode", "handle", "encode", "send"}
    /\ pc = "len"    => recv_buff.data = d /\ len = Length(d)
    /\ pc = "decode" => recv_buff.data = d /\ recv_buff.len = Length(d)
    /\ d.fault = "none" /\ IsRequest(d) => Progress(d)

(* The inductive invariant: as long as no stop has come in between, each step *)
(* finds the datagram's own data in the memory it reads.                      *)
ServedInv == \A d \in in_hand : Served(d)

ServerInv == ServerTypeOK /\ ServedInv

LEMMA InitInv == ServerInit => ServerInv
<1> SUFFICES ASSUME ServerInit PROVE ServerInv
  OBVIOUS
<1> USE DEF ServerInit
<1>1. ClearedRequest \in Requests
  BY DEF ClearedRequest, Requests
<1>2. response \in Responses
  BY InitialResponseType DEF ClearedResponse, Responses
<1>3. send_buff \in [data : OnWire, len : Nat]
  BY DEF ZeroEncoded, OnWire
<1> QED  BY <1>1, <1>2, <1>3 DEF ServerInv, ServedInv, ServerTypeOK, ProtoTypeOK,
                                 AllSockets, Ports, CtlSteps

-----------------------------------------------------------------------------
(* Types.                                                                     *)

LEMMA NextPortType ==
  ASSUME ServerTypeOK, NextPort
  PROVE  /\ port' \in Ports
         /\ pc' \in {"select", "recv"}
         /\ read_fds' \subseteq Ports
         /\ in_hand' = {}
  BY DEF ServerTypeOK, NextPort, Ports

(* One step of the server.                                                    *)
LEMMA ServerStepType == ServerTypeOK /\ ProtoServer => ServerTypeOK'
<1> SUFFICES ASSUME ServerTypeOK, ProtoServer PROVE ServerTypeOK'
  OBVIOUS
<1> USE DEF ServerTypeOK
<1>a. ProtoTypeOK'
  BY DEF ProtoServer, proto_vars, ProtoTypeOK
<1>1. ASSUME Select \/ SelectFails PROVE ServerTypeOK'
  BY <1>1, <1>a DEF Select, SelectFails, shared_vars
<1>2. ASSUME NotMarked \/ ReceiveFails PROVE ServerTypeOK'
  BY <1>2, <1>a, NextPortType DEF NotMarked, ReceiveFails, shared_vars
<1>3. ASSUME NEW d \in Datagrams, Receive(d) PROVE ServerTypeOK'
  BY <1>3, <1>a DEF Receive, Length, PDU_HEADER_MIN_LEN
<1>4. ASSUME SetLength PROVE ServerTypeOK'
  BY <1>4, <1>a DEF SetLength, history_vars
<1>5. ASSUME Decode PROVE ServerTypeOK'
  <2>1. request' \in Requests
    BY <1>5, DecodedType DEF Decode
  <2>2. last_token' \in Nat
    <3>1. TokenOf(ZeroDatagram) \in Nat
      BY DEF TokenOf, ZeroDatagram
    <3> QED  BY <1>5, <3>1, TokenType DEF Decode
  <2>3. response' \in Responses
    <3>1. ErrorResponse(request', CERR_BAD_REQUEST) \in Responses
      BY <2>1, ErrorResponseType DEF CERR_BAD_REQUEST
    <3> QED  BY <1>5, <3>1, InitialResponseType DEF Decode
  <2> QED  BY <1>5, <1>a, <2>1, <2>2, <2>3 DEF Decode, shared_vars, history_vars
<1>6. ASSUME HandleAndRespond PROVE ServerTypeOK'
  BY <1>6, <1>a, HandledType DEF HandleAndRespond, shared_vars, history_vars
<1>7. ASSUME HandleSilently PROVE ServerTypeOK'
  BY <1>7, <1>a, HandledType, NextPortType DEF HandleSilently, shared_vars
<1>8. ASSUME Encode PROVE ServerTypeOK'
  BY <1>8, <1>a, EncodedType DEF Encode, history_vars, PDU_HEADER_MIN_LEN
<1>9. ASSUME Send \/ SendFails PROVE ServerTypeOK'
  BY <1>9, <1>a, NextPortType DEF Send, SendFails, shared_vars
<1> QED  BY <1>1, <1>2, <1>3, <1>4, <1>5, <1>6, <1>7, <1>8, <1>9
         DEF ProtoServer, ServerStep

(* One step of a stop, of a start or of the network.                          *)
LEMMA CtlStepType ==
  ServerTypeOK /\ (Stop \/ StopAndStart \/ Open \/ OpenFails \/ \E p \in Ports : Arrive(p))
    => ServerTypeOK'
<1> USE DEF ServerTypeOK, local_vars
<1>1. ServerTypeOK /\ (Stop \/ ClearBuffers) => ServerTypeOK'
  <2>1. ASSUME ServerTypeOK, Stop \/ ClearBuffers
        PROVE  /\ recv_buff' \in [data : Datagrams \cup {ZeroDatagram}, len : Nat]
               /\ send_buff' \in [data : OnWire, len : Nat]
               /\ ctl' \in CtlSteps
               /\ in_hand' = {}
               /\ UNCHANGED << local_vars, waiting, current_fds, proto_vars >>
    <3>1. ZeroEncoded \in OnWire
      BY DEF ZeroEncoded, OnWire
    <3> QED  BY <2>1, <3>1 DEF Stop, ClearBuffers, Clear, CtlSteps
  <2> QED  BY <2>1 DEF ProtoTypeOK, proto_vars
<1>3. ServerTypeOK /\ (StopAndStart \/ OpenFails) => ServerTypeOK'
  <2> SUFFICES ASSUME ServerTypeOK, StopAndStart \/ OpenFails PROVE ServerTypeOK'
    OBVIOUS
  <2> USE DEF ProtoTypeOK, proto_vars
  <2>1. CASE ClearBuffers
    BY <2>1, <1>1
  <2>2. CASE \/ CtlCall("suspend", "stop_heartbeat", SuspendServer)
             \/ CtlCall("stop_heartbeat", "close", StopHeartbeat)
    BY <2>2 DEF CtlCall, shared_vars, history_vars, SuspendServer, StopHeartbeat, CtlSteps
  <2>3. CASE Close
    BY <2>3 DEF Close, CloseSockets, shared_vars, CtlSteps
  <2>4. CASE \/ CtlCall("start_server", "start_heartbeat", StartServer)
             \/ CtlCall("start_heartbeat", "up", StartHeartbeat)
    BY <2>4 DEF CtlCall, shared_vars, history_vars, StartServer, StartHeartbeat, CtlSteps
  <2>5. CASE OpenFails
    BY <2>5 DEF OpenFails, CtlCall, shared_vars, history_vars, OpenSocketsFails, CtlSteps
  <2> QED  BY <2>1, <2>2, <2>3, <2>4, <2>5 DEF StopAndStart
<1>4. ServerTypeOK /\ Open => ServerTypeOK'
  BY DEF Open, OpenSockets, ProtoTypeOK, shared_vars, history_vars, CtlSteps
<1>5. ASSUME ServerTypeOK, NEW p \in Ports, Arrive(p) PROVE ServerTypeOK'
  BY <1>5 DEF Arrive, ProtoTypeOK, proto_vars, shared_vars, history_vars
<1> QED  BY <1>1, <1>3, <1>4, <1>5

LEMMA TypeStep == ServerTypeOK /\ [ServerNext]_vars => ServerTypeOK'
<1>1. ServerTypeOK /\ UNCHANGED vars => ServerTypeOK'
  BY DEF ServerTypeOK, ProtoTypeOK, vars, server_vars, local_vars, shared_vars,
         history_vars, proto_vars
<1> QED  BY <1>1, ServerStepType, CtlStepType DEF ServerNext

-----------------------------------------------------------------------------
(* What a step does to the datagram in hand.                                  *)

(* Where no datagram is in hand there is nothing to show; NextPort leaves     *)
(* none, and neither does a stop.                                             *)
LEMMA EmptyHand ==
  ASSUME in_hand' = {}
  PROVE  ServedInv'
  BY DEF ServedInv

LEMMA NextPortEmptiesHand == NextPort => in_hand' = {}
  BY DEF NextPort

(* Decoding: the datagram's own length lets decode_pdu look at it, its own    *)
(* fields fill the request, and the response starts afresh.                   *)
LEMMA DecodeServes ==
  ASSUME ServerTypeOK, ServedInv, Decode
  PROVE  ServedInv'
<1> SUFFICES ASSUME NEW d \in in_hand PROVE Served(d)'
  BY DEF Decode, history_vars, ServedInv
<1>1. recv_buff.data = d /\ recv_buff.len = Length(d)
  BY DEF Decode, ServedInv, Served
<1>2. pc' = "handle"
  BY DEF Decode
<1>3. ASSUME d.fault = "none", IsRequest(d) PROVE Progress(d)'
  <2>1. Length(d) = PDU_HEADER_MIN_LEN /\ Length(d) >= PDU_HEADER_MIN_LEN
    BY <1>3 DEF Length, PDU_HEADER_MIN_LEN
  <2>2. request' = Decoded(d)
    BY <1>1, <2>1 DEF Decode, PDU_HEADER_MIN_LEN
  <2>3. response' = InitialResponse
    BY <1>1, <1>3, <2>1 DEF Decode, DecodesOk
  <2>4. SavesToken(d) <=> d.token # {}
    BY <1>3 DEF SavesToken, IsRequest, REQUEST_CONFIRM, REQUEST_NON_CONFIRM, RESPONSE_ACK
  <2>5. TokenSaved(d)'
    BY <1>1, <2>1, <2>4 DEF Decode, TokenSaved
  <2> QED  BY <1>2, <2>2, <2>3, <2>5 DEF Progress
<1> QED  BY <1>2, <1>3 DEF Served

(* Responding: what is encoded is the answer to the datagram.                 *)
LEMMA EncodeServes ==
  ASSUME ServerTypeOK, ServedInv, Encode
  PROVE  ServedInv'
<1> SUFFICES ASSUME NEW d \in in_hand PROVE Served(d)'
  BY DEF Encode, history_vars, ServedInv
<1>1. pc' = "send" /\ port' = port
  BY DEF Encode
<1>2. ASSUME d.fault = "none", IsRequest(d) PROVE Progress(d)'
  <2> DEFINE rsp == Handled(port, Decoded(d), InitialResponse)
  <2>1. WantsResponse(port, Decoded(d)) /\ response = rsp /\ TokenSaved(d)
    BY <1>2 DEF Encode, ServedInv, Served, Progress
  <2>2. rsp.token_ind => d.token # {}
    BY AnswerToken DEF ServerTypeOK
  <2>3. Encoded(rsp, last_token) = Encoded(rsp, TokenOf(d))
    <3> HIDE DEF rsp
    <3> QED  BY <2>1, <2>2 DEF TokenSaved, Encoded
  <2>4. Answer(port, d) = << Encoded(rsp, TokenOf(d)) >>
    BY <2>1 DEF Answer
  <2>5. send_buff'.data = Encoded(rsp, TokenOf(d)) /\ send_buff'.len # 0
    BY <2>1, <2>3 DEF Encode, PDU_HEADER_MIN_LEN
  <2> QED  BY <1>1, <2>4, <2>5 DEF Progress
<1> QED  BY <1>1, <1>2 DEF Served

LEMMA ServerStepServes ==
  ASSUME ServerTypeOK, ServedInv, ProtoServer
  PROVE  ServedInv'
<1>1. CASE Select \/ SelectFails
  \* no datagram is in hand where the server waits for one
  BY <1>1 DEF Select, SelectFails, ServedInv, Served
<1>2. CASE NotMarked \/ ReceiveFails \/ HandleSilently \/ Send \/ SendFails
  BY <1>2, NextPortEmptiesHand, EmptyHand
     DEF NotMarked, ReceiveFails, HandleSilently, Send, SendFails
<1>3. ASSUME NEW d \in Datagrams, Receive(d) PROVE ServedInv'
  <2>1. in_hand' = {d} /\ pc' = "len" /\ recv_buff'.data = d /\ len' = Length(d)
    BY <1>3 DEF Receive, ServerTypeOK
  <2> QED  BY <2>1 DEF ServedInv, Served, Progress
<1>4. CASE SetLength
  <2> SUFFICES ASSUME NEW d \in in_hand PROVE Served(d)'
    BY <1>4 DEF SetLength, history_vars, ServedInv
  <2>1. pc' = "decode" /\ recv_buff'.data = d /\ recv_buff'.len = Length(d)
    BY <1>4 DEF SetLength, ServerTypeOK, ServedInv, Served
  <2> QED  BY <2>1 DEF Served, Progress
<1>5. CASE Decode
  BY <1>5, DecodeServes
<1>6. CASE HandleAndRespond
  <2> SUFFICES ASSUME NEW d \in in_hand PROVE Served(d)'
    BY <1>6 DEF HandleAndRespond, history_vars, ServedInv
  <2>1. pc' = "encode" /\ port' = port /\ last_token' = last_token
    BY <1>6 DEF HandleAndRespond
  <2>2. ASSUME d.fault = "none", IsRequest(d) PROVE Progress(d)'
    BY <1>6, <2>1, <2>2 DEF HandleAndRespond, ServedInv, Served, Progress, TokenSaved
  <2> QED  BY <2>1, <2>2 DEF Served
<1>7. CASE Encode
  BY <1>7, EncodeServes
<1> QED  BY <1>1, <1>2, <1>3, <1>4, <1>5, <1>6, <1>7 DEF ProtoServer, ServerStep

LEMMA ServedStep ==
  ServerTypeOK /\ ServedInv /\ [ServerNext]_vars => ServedInv'
<1> SUFFICES ASSUME ServerTypeOK, ServedInv, [ServerNext]_vars PROVE ServedInv'
  OBVIOUS
<1>1. CASE ProtoServer
  BY <1>1, ServerStepServes
<1>2. CASE Stop \/ ClearBuffers
  BY <1>2, EmptyHand DEF Stop, ClearBuffers, Clear
<1>3. ASSUME UNCHANGED << pc, port, len, request, response, last_token,
                          shared_vars, in_hand >>
      PROVE  ServedInv'
  BY <1>3 DEF ServedInv, Served, Progress, TokenSaved, shared_vars
<1>4. CASE (StopAndStart /\ ~ ClearBuffers) \/ Open \/ OpenFails
  BY <1>4, <1>3 DEF StopAndStart, CtlCall, Close, Open, OpenFails, local_vars, history_vars
<1>5. CASE \E p \in Ports : Arrive(p)
  BY <1>5, <1>3 DEF Arrive, local_vars, history_vars
<1>6. CASE UNCHANGED vars
  BY <1>6, <1>3 DEF vars, server_vars, local_vars, history_vars
<1> QED  BY <1>1, <1>2, <1>4, <1>5, <1>6 DEF ServerNext

(* Every variable of the server keeps its type, whatever arrives and whenever *)
(* the server is stopped.                                                     *)
THEOREM ServerTypeCorrect == ServerSpec => []ServerTypeOK
<1>1. ServerInit => ServerTypeOK
  BY InitInv DEF ServerInv
<1>2. ServerTypeOK /\ [ServerNext]_vars => ServerTypeOK'
  BY TypeStep
<1> QED  BY <1>1, <1>2, PTL DEF ServerSpec

(* The inductive invariant holds.                                             *)
THEOREM ServerInvariant == ServerSpec => []ServerInv
<1>1. ServerInit => ServerInv
  BY InitInv
<1>2. ServerInv /\ [ServerNext]_vars => ServerInv'
  BY TypeStep, ServedStep DEF ServerInv
<1> QED  BY <1>1, <1>2, PTL DEF ServerSpec

(* A well-formed request is answered from itself: whatever datagrams came     *)
(* before, and however often the server was stopped and started, the response *)
(* is the one a node just switched on would send, unless a stop falls between *)
(* receiving and responding.                                                  *)
THEOREM RequestsAreAnsweredFromThemselves == ServerSpec => AnswersItsRequest
<1> DEFINE Due == \A d \in in_hand :
                     d.fault = "none" /\ IsRequest(d) =>
                        /\ Send => /\ send_buff.len # 0
                                   /\ Answer(port, d) = << send_buff.data >>
                        /\ HandleSilently => Answer(port, d) = << >>
<1>1. ServerInv => Due
  <2> SUFFICES ASSUME ServerInv, NEW d \in in_hand, d.fault = "none", IsRequest(d)
               PROVE  /\ Send => /\ send_buff.len # 0
                                 /\ Answer(port, d) = << send_buff.data >>
                      /\ HandleSilently => Answer(port, d) = << >>
    OBVIOUS
  <2>1. Progress(d)
    BY DEF ServerInv, ServedInv, Served
  <2>2. Send => send_buff.len # 0 /\ Answer(port, d) = << send_buff.data >>
    BY <2>1 DEF Send, Progress
  <2>3. HandleSilently => Answer(port, d) = << >>
    BY <2>1 DEF HandleSilently, Progress, Answer
  <2> QED  BY <2>2, <2>3
<1>2. ServerInv /\ [ServerNext]_vars => [Due]_vars
  BY <1>1
<1> QED  BY <1>2, ServerInvariant, PTL DEF ServerSpec, AnswersItsRequest
=============================================================================
