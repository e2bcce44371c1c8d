-------------------- MODULE MCWaitForConfirmationBasic ---------------------
(***************************************************************************)
(* A small instance of WaitForConfirmationBasic for TLC.                  *)
(***************************************************************************)
EXTENDS WaitForConfirmationBasic

CONSTANTS m1, m2, Unset

(* Two Models made from one Description, before and after a setter call. *)
MCModels == {m1, m2}

(* A charged robot, one at the threshold, and an untracked battery. *)
MCInitStates ==
  { [time |-> 0, soc |-> 4], [time |-> 0, soc |-> 2], [time |-> 0, soc |-> Unset] }

(* A longer duration, and a negative one, which Description accepts. *)
MCDurations == {-1, 2}
=============================================================================
