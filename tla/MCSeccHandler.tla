--------------------------- MODULE MCSeccHandler ---------------------------
(* A small instance of SeccHandler: two peers, so that one session's end   *)
(* can meet another peer's session; three connections, so that one peer    *)
(* can have two of them; two SDP requests.                                 *)
EXTENDS SeccHandler
=============================================================================
