----------------------- MODULE MCWaitForConfirmation -----------------------
(***************************************************************************)
(* Small instances of WaitForConfirmation for TLC.                         *)
(***************************************************************************)
EXTENDS WaitForConfirmation, TLC

CONSTANTS t1, t2, Unset

(* Two Models sharing the topic pair, so that foreign UUIDs are delivered. *)
MCTokens == {t1, t2}

(* One Model: enough for the properties of a single estimator. *)
MCOneToken == {t1}

(* A charged robot whose battery reaches the threshold after two waits,  *)
(* and one whose battery is not tracked.                                 *)
MCInitStates == { [time |-> 0, soc |-> 4], [time |-> 0, soc |-> Unset] }

(* A robot at the threshold. *)
MCLowState == { [time |-> 0, soc |-> 2] }

(* Durations the setters may be given: a longer one, and a negative one, *)
(* which Description accepts as it is.                                  *)
MCDurations == {-1, 2}

(* The robot as most tasks find it: charged, battery tracked. *)
MCChargedState == { [time |-> 0, soc |-> 4] }

(* A robot one drain above the threshold: an estimate that drains the     *)
(* battery is rejected, one that does not drain it is accepted.           *)
MCMarginalState == { [time |-> 0, soc |-> 3] }

(* The Models are interchangeable. *)
MCSymmetry == Permutations(MCTokens)
=============================================================================
