--------------------------- MODULE MCEvccHandler ---------------------------
(* A small instance of EvccHandler: three requests in each of two cycles,   *)
(* and three datagrams, so that a late one can meet the next request and   *)
(* the next session.                                                       *)
EXTENDS EvccHandler
=============================================================================
