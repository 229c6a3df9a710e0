-------------------------------- MODULE OshPdu --------------------------------
(* Requests and responses of the node's protocol (osh_node_proto.c, its       *)
(* codec and its two dispatchers) as operators on values.                     *)
(*                                                                            *)
(* A datagram is what arrives as the decoder would read it: its header        *)
(* fields, the optional token and entry as sets of at most one value, and     *)
(* what is wrong with it, if anything.  Where it ends before its token or     *)
(* entry, the decoder reads what lies in the buffer: any value, as any may    *)
(* stand in a datagram of fault "length".  Message ids, hashes and content    *)
(* are left out: nothing is decided by them.                                  *)
EXTENDS Naturals

CONSTANT Datagrams   \* the datagrams the network may deliver

\* OSH_PDU_TYPE_ENUM
REQUEST_CONFIRM     == 0
REQUEST_NON_CONFIRM == 1
RESPONSE_ACK        == 2
RESPONSE_RESET      == 3
PDU_BUTT            == 4

\* OSH_CODE_CLASS_ENUM
CC_METHOD     == 0
CC_CLIENT_ERR == 4
CC_SIGNAL     == 7

\* OSH_CODE_SIGNAL_ENUM and OSH_CODE_ERR_CLIENT_ENUM
SIGNAL_PING      == 2
SIGNAL_PONG      == 3
SIGNAL_SHAKEHAND == 24
SIGNAL_UPDATE    == 25

CERR_BAD_REQUEST       == 0
CERR_FORBIDDEN         == 3
CERR_NOT_FOUND         == 4
CERR_ENTITY_INCOMPLETE == 8

PDU_HEADER_MIN_LEN == 8

Ports == {"mdm", "app"}

Faulty == {"short", "content", "length"}   \* how a datagram can be malformed

ASSUME PduAssumption ==
    \A d \in Datagrams :
       /\ d.type \in 0 .. 3
       /\ d.class \in 0 .. 7
       /\ d.code \in 0 .. 31
       /\ d.token \in SUBSET Nat
       /\ d.entry \in SUBSET SUBSET (0 .. 31)   \* an entry is the set of its bits
       /\ d.fault \in Faulty \cup {"none"}

(* The bytes of a cleared buffer, read as a datagram.                         *)
ZeroDatagram == [type |-> 0, class |-> 0, code |-> 0,
                 token |-> {}, entry |-> {}, fault |-> "none"]

(* Of the length only the first test of proto_decode_pdu matters.             *)
Length(d) == IF d.fault = "short" THEN PDU_HEADER_MIN_LEN - 1 ELSE PDU_HEADER_MIN_LEN

(* osh_node_proto_pdu_t after memset, and with what proto_decode_pdu reads    *)
(* from the first eight bytes.  Tokens are kept in the session.               *)
ClearedRequest == [type |-> 0, class |-> 0, code |-> 0, token_ind |-> FALSE,
                   entry_ind |-> FALSE, entry |-> {}]

HeaderOf(d) == [type |-> d.type, class |-> d.class, code |-> d.code,
                token_ind |-> d.token # {}, entry_ind |-> d.entry # {},
                entry |-> {}]

(* proto_decode_pdu returns at an unknown content type before it comes to     *)
(* the token and the entry; the length is checked last.  A class is three     *)
(* bits, all of them below OSH_CC_BUTT.                                       *)
Decoded(d) == IF d.fault = "content" THEN HeaderOf(d)
              ELSE [HeaderOf(d) EXCEPT !.entry = UNION d.entry]

DecodesOk(d, len) == len >= PDU_HEADER_MIN_LEN /\ d.fault = "none"

(* A request's token goes to session.last_token, the zero of a cleared        *)
(* session otherwise.                                                         *)
TokenOf(d) == IF d.token = {} THEN 0 ELSE CHOOSE t \in d.token : TRUE

SavesToken(d) == d.fault # "content" /\ d.token # {} /\ d.type < RESPONSE_ACK

-----------------------------------------------------------------------------
(* proto_init_response, and the head of an error response.                    *)
InitialResponse == [type |-> PDU_BUTT, class |-> 0, code |-> 0,
                    token_ind |-> FALSE, payload |-> {}]

ClearedResponse == [InitialResponse EXCEPT !.type = 0]   \* memset of g_proto

ErrorResponse(req, code) ==
    [type |-> RESPONSE_RESET, class |-> CC_CLIENT_ERR, code |-> code,
     token_ind |-> req.token_ind,
     payload |-> IF code = CERR_FORBIDDEN THEN {req.entry} ELSE {}]

Pong(req) ==
    [type |-> RESPONSE_ACK, class |-> CC_SIGNAL, code |-> SIGNAL_PONG,
     token_ind |-> req.token_ind, payload |-> {}]

(* OSH_NODE_ENTRY_IS_MDM and OSH_NODE_ENTRY_IS_APP: bits 31 and 30 set, and   *)
(* bit 28 clear.                                                              *)
Entitled(port, entry) == IF port = "mdm" THEN {30, 31} \subseteq entry
                                         ELSE 28 \notin entry

Pings(port, req) == /\ req.class = CC_SIGNAL
                    /\ req.code = IF port = "mdm" THEN SIGNAL_PING ELSE SIGNAL_SHAKEHAND

Updates(port, req) == /\ port = "app"
                      /\ req.class = CC_SIGNAL
                      /\ req.code = SIGNAL_UPDATE

(* handle_mdm_pdu and handle_app_pdu: the error code of a refusal, if any.    *)
(* osh_node_route_register clears a new route and does not store the handler  *)
(* in it, so that no route that is found has a callback: the search ends in   *)
(* OSH_CERR_NOT_FOUND whatever is registered.                                 *)
Refusal(port, req) ==
    IF req.type > REQUEST_NON_CONFIRM                      THEN {CERR_BAD_REQUEST}
    ELSE IF req.entry_ind /\ ~ Entitled(port, req.entry)   THEN {CERR_FORBIDDEN}
    ELSE IF Pings(port, req) \/ Updates(port, req)         THEN {}
    ELSE IF req.class = CC_METHOD /\ ~ req.entry_ind       THEN {CERR_ENTITY_INCOMPLETE}
    ELSE {CERR_NOT_FOUND}

(* The response as they leave it; an update is accepted without touching it.  *)
Handled(port, req, rsp) ==
    IF Refusal(port, req) # {}
    THEN ErrorResponse(req, CHOOSE code \in Refusal(port, req) : TRUE)
    ELSE IF Pings(port, req) THEN Pong(req) ELSE rsp

(* proto_server: the handler returned an error, or the request wants to be    *)
(* confirmed.                                                                 *)
WantsResponse(port, req) == Refusal(port, req) # {} \/ req.type = REQUEST_CONFIRM

-----------------------------------------------------------------------------
WireTypeUnmasked(type) == type                                 \* mutant

(* proto_encode_pdu: two bits for the type and, though it has three, two for  *)
(* the class; proto_make_token takes the token of a response from the         *)
(* session.                                                                   *)
WireType(type) == type % 4

Encoded(rsp, last_token) ==
    [type    |-> WireType(rsp.type),
     class   |-> rsp.class % 4,
     code    |-> rsp.code,
     token   |-> IF rsp.token_ind THEN {last_token} ELSE {},
     payload |-> rsp.payload]

ZeroEncoded == [type |-> 0, class |-> 0, code |-> 0, token |-> {}, payload |-> {}]

(* What a node that has just been switched on sends for d: the answer that    *)
(* depends on nothing else.                                                   *)
Answer(port, d) ==
    LET req == Decoded(d) IN
    IF WantsResponse(port, req)
    THEN << Encoded(Handled(port, req, InitialResponse), TokenOf(d)) >>
    ELSE << >>
=============================================================================
