----------------------------- MODULE MCDinLink -----------------------------
(* A small instance of DinLink: two identifiers, so that the session of a  *)
(* request can be another one; every other choice is Boolean or one of a   *)
(* few words, and is made in full.                                         *)
EXTENDS DinLink
=============================================================================
