------------------------------ MODULE MCV2Link ------------------------------
(* A small instance of V2Link: one connection, two identifiers and two     *)
(* schedules, both payment options and both charging types.                *)
EXTENDS V2Link
=============================================================================
