----------------------------- MODULE MCV20Link -----------------------------
(* A small instance of V20Link: one identifier, an energy service of either *)
(* current and one the EVCC cannot use, none bidirectional, and two         *)
(* schedules, so that the accepted one can be absent from a later list.     *)
EXTENDS V20Link
=============================================================================
