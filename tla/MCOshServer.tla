----------------------------- MODULE MCOshServer -----------------------------
(* The server for TLC, with one datagram of each kind: a ping that is         *)
(* answered, one that is not and names an entry the APP socket refuses, an    *)
(* update, which is accepted without filling in the response, a datagram      *)
(* shorter than a header, and a response with an unknown content type.        *)
EXTENDS OshServer

Ping   == [type |-> 0, class |-> 7, code |-> 2, token |-> {1}, entry |-> {}, fault |-> "none"]
Silent == [Ping EXCEPT !.type = 1, !.token = {2}, !.entry = {28 .. 31}]
Update == [Ping EXCEPT !.code = 25, !.token = {}]

Short   == [Ping EXCEPT !.fault = "short"]
Garbled == [Update EXCEPT !.type = 2, !.fault = "content"]

MCDatagrams == {Ping, Silent, Update, Short, Garbled}
=============================================================================
