-------------------- MODULE MCWaitForConfirmationPlanner --------------------
(***************************************************************************)
(* Small instances of WaitForConfirmationPlanner for TLC.                  *)
(***************************************************************************)
EXTENDS WaitForConfirmationPlanner, TLC

CONSTANTS t1, Unset, Unread

(* One Model and its scheduler. *)
MCPlannerToken == {t1}

(* The robot as most tasks find it: charged, battery tracked. *)
MCPlannerState == { [time |-> 0, soc |-> 4] }

(* A setter call after make_model gives the Description another wait. *)
MCPlannerDurations == {2}
=============================================================================
