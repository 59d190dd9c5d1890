------------------------------ MODULE MCSeccV2 ------------------------------
(* A small instance of SeccV2 for model checking: two identifiers, so that  *)
(* a resumed session can meet a stranger's one, and two schedules, so that  *)
(* the selected one can be absent from the list offered after a            *)
(* renegotiation.                                                          *)
EXTENDS SeccV2
=============================================================================
