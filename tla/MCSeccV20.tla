----------------------------- MODULE MCSeccV20 -----------------------------
(* A small instance of SeccV20 for model checking: one identifier (a header *)
(* without one is the stranger's), a service of either current, the DC one  *)
(* bidirectional or not, a value-added one, and two schedules, so that the  *)
(* accepted one can be absent from a later list.                            *)
EXTENDS SeccV20
=============================================================================
