--------------------- MODULE WaitForConfirmationPlanner ---------------------
(***************************************************************************)
(* The live WaitForConfirmation Model composed with the scheduler that    *)
(* uses it: besides calling estimate_finish, the scheduler calls          *)
(* Model::invariant_duration() for an estimation-free duration bound. The *)
(* two calls read _confirmation_received separately, and the executor's   *)
(* callback may latch it in between.                                      *)
(***************************************************************************)
EXTENDS WaitForConfirmation

CONSTANT NoPlan   \* no invariant_duration() read yet

ASSUME PlannerAssumption == NoPlan \notin Int

VARIABLES
  planned,  \* per token, what the scheduler's last invariant_duration() returned
  bound     \* history: per token, the planned bound in force at the last estimate_finish

pvars == <<vars, planned, bound>>

PInit ==
  /\ Init
  /\ planned = [t \in Tokens |-> NoPlan]
  /\ bound = [t \in Tokens |-> NoPlan]

(* The scheduler calls invariant_duration() on Model t. *)
ReadInvariantDuration(t) ==
  /\ t \in created
  /\ planned' = [planned EXCEPT ![t] = InvariantDuration(t)]
  /\ UNCHANGED <<vars, bound>>

(* The scheduler calls estimate_finish on Model t, holding the bound it   *)
(* read last.                                                             *)
PlannedPoll(t) ==
  /\ Poll(t)
  /\ bound' = [bound EXCEPT ![t] = planned[t]]
  /\ UNCHANGED planned

(* The steps of the Model, the topics and the responder, which leave the *)
(* scheduler's reads alone.                                              *)
ModelStep ==
  /\ \/ Tick
     \/ \E d \in Durations : SetInitialWaitDuration(d) \/ SetTimeoutDuration(d)
     \/ \E t \in Tokens, s0 \in InitStates : MakeModel(t, s0)
     \/ \E t \in Tokens : Respond(t) \/ LoseRequest(t)
     \/ \E s, m \in Tokens : LoseResponse(s, m) \/ OnConfirmationReceived(s, m)
  /\ UNCHANGED <<planned, bound>>

PNext ==
  \/ ModelStep
  \/ \E t \in Tokens : ReadInvariantDuration(t) \/ PlannedPoll(t)

PSpec == PInit /\ [][PNext]_pvars

-----------------------------------------------------------------------------
(* For an estimate that extends the wait, the scheduler's estimation-free *)
(* bound equals the extension: an unconfirmed estimate_finish means the  *)
(* latch was clear at the earlier read too, and both calls read the       *)
(* Model's own _initial_wait_duration, which later setter calls on the   *)
(* Description do not change.                                             *)
UnconfirmedBoundExact ==
  \A t \in Tokens :
    result[t].kind = "estimate" /\ ~result[t].finished /\ bound[t] # NoPlan =>
      bound[t] = result[t].state.time - result[t].in.time

(* UnconfirmedBoundExact made inductive: the scheduler reads and holds    *)
(* bounds only for constructed Models; while a Model is unconfirmed the  *)
(* bound it read is its own _initial_wait_duration (the latch never      *)
(* clears, so it was unconfirmed at the read too); and                 *)
(* UnconfirmedBoundExact itself.                                          *)
PlannerInv ==
  /\ TypeOK
  /\ planned \in [Tokens -> Int \cup {NoPlan}]
  /\ bound \in [Tokens -> Int \cup {NoPlan}]
  /\ \A t \in Tokens \ created : planned[t] = NoPlan /\ bound[t] = NoPlan
  /\ \A t \in Tokens : planned[t] # NoPlan /\ ~received[t] => planned[t] = model[t].wait
  /\ UnconfirmedBoundExact
=============================================================================
