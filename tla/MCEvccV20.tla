----------------------------- MODULE MCEvccV20 -----------------------------
(* A small instance of EvccV20: one identifier, a service of each kind and  *)
(* two schedules.                                                           *)
EXTENDS EvccV20
=============================================================================
