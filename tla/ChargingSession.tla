-------------------------- MODULE ChargingSession --------------------------
(***************************************************************************)
(* What a charging session promises, whatever the protocol: stages in      *)
(* order, and power only from the charging loop on, until energy transfer  *)
(* is finished or the connection is given up.                              *)
(***************************************************************************)

VARIABLES
    stage,  \* "setup", "agreeing", "delivering", "finished" or "closed"
    power   \* the charger has been told to deliver

vars == <<stage, power>>

Init == stage = "setup" /\ power = FALSE

\* Identification and authorization are over; the parameters come next.
Authorize == stage = "setup" /\ stage' = "agreeing" /\ UNCHANGED power

Deliver ==
    stage \in {"agreeing", "finished"} /\ stage' = "delivering" /\ UNCHANGED power

Energise == stage = "delivering" /\ power' = TRUE /\ UNCHANGED stage

\* Renegotiation does not interrupt the power.
Renegotiate ==
    stage \in {"delivering", "finished"} /\ stage' = "agreeing" /\ UNCHANGED power

\* A cable check or precharge replaces the command that delivers power.
Test == stage = "agreeing" /\ power' = FALSE /\ UNCHANGED stage

Finish ==
    stage \in {"agreeing", "delivering"} /\ stage' = "finished" /\ power' = FALSE

Close == stage # "closed" /\ stage' = "closed" /\ power' = FALSE

Reopen == stage = "closed" /\ stage' = "setup" /\ UNCHANGED power

Next == \/ Authorize \/ Deliver \/ Energise \/ Renegotiate \/ Test \/ Finish
        \/ Close \/ Reopen

Spec == Init /\ [][Next]_vars

\* Power flows only in an authorized session that is neither finished nor
\* closed.
PowerInSession == power => stage \in {"agreeing", "delivering"}
=============================================================================
