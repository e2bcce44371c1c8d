------------------- MODULE WaitForConfirmationPlannerProofs -------------------
(***************************************************************************)
(* Proofs about the scheduler composed with the live Model, for every     *)
(* value of the constants: the bound the scheduler read from              *)
(* invariant_duration() before an estimate_finish that extends the wait   *)
(* is exactly that extension.                                             *)
(***************************************************************************)
EXTENDS WaitForConfirmationPlanner, WaitForConfirmationRefinementProofs

USE ConstantsAssumption, PlannerAssumption

(* A step of the composition is a step of the Model or leaves it alone:   *)
(* the scheduler's read changes only its own variable.                    *)
LEMMA ModelProjection == [PNext]_pvars => [Next]_vars
  BY DEF PNext, ModelStep, ReadInvariantDuration, PlannedPoll, Poll, Next, pvars

(* The battery part of estimate_finish keeps the time of the state it is  *)
(* given and reports the input and the finished flag it is passed.       *)
LEMMA BatteryOutcomeTime ==
  ASSUME NEW s \in State, NEW db \in BOOLEAN, NEW drain \in Nat,
         NEW fin \in BOOLEAN, NEW in \in State
  PROVE  /\ BatteryOutcome(s, db, drain, fin, in).state.time = s.time
         /\ BatteryOutcome(s, db, drain, fin, in).in = in
         /\ BatteryOutcome(s, db, drain, fin, in).finished = fin
  BY DEF BatteryOutcome, Outcome, State

(* An estimate_finish that returns an unfinished Estimate took the        *)
(* waiting branch, unconfirmed and not timed out, and extended the input  *)
(* state's time by the Model's _initial_wait_duration.                    *)
LEMMA WaitingExtends ==
  ASSUME TypeOK, NEW t \in Tokens, NEW s \in State, NEW db \in BOOLEAN,
         EstimateFinish(t, s, db),
         result'[t].kind = "estimate", ~result'[t].finished
  PROVE  /\ ~received[t]
         /\ result'[t].state.time - result'[t].in.time = model[t].wait
<1>1. model[t].wait \in Int /\ model[t].drain \in Nat
  BY DEF TypeOK, ModelMembers
<1>2. [s EXCEPT !.time = s.time + model[t].wait] \in State
  BY <1>1, ExtendType
<1>3. CASE EstimateFinishConfirmed(t, s, db)
  <2>1. result'[t] = BatteryOutcome(s, db, model[t].drain, TRUE, s)
    BY <1>3 DEF EstimateFinishConfirmed, TypeOK
  <2>2. BatteryOutcome(s, db, model[t].drain, TRUE, s).finished = TRUE
    BY <1>1, BatteryOutcomeTime
  <2>3. QED
    BY <2>1, <2>2
<1>4. CASE EstimateFinishWaiting(t, s, db)
  <2>1. CASE now - reqTime[t] > model[t].timeout
    <3>1. result'[t] = Outcome("timeout", s, db, s, FALSE)
      BY <1>4, <2>1 DEF EstimateFinishWaiting, TypeOK
    <3>2. QED
      BY <3>1 DEF Outcome
  <2>2. CASE ~(now - reqTime[t] > model[t].timeout)
    <3> DEFINE s1 == [s EXCEPT !.time = s.time + model[t].wait]
    <3>1. result'[t] = BatteryOutcome(s1, db, model[t].drain, FALSE, s)
      BY <1>4, <2>2 DEF EstimateFinishWaiting, TypeOK
    <3>2. s1.time = s.time + model[t].wait /\ s.time \in Int
      BY DEF State
    <3>3. s1 \in State
      BY <1>2
    <3>4. /\ BatteryOutcome(s1, db, model[t].drain, FALSE, s).state.time = s1.time
          /\ BatteryOutcome(s1, db, model[t].drain, FALSE, s).in = s
      BY <3>3 DEF BatteryOutcome, Outcome
    <3>5. result'[t].state.time = s1.time /\ result'[t].in = s
      BY <3>1, <3>4
    <3>6. ~received[t]
      BY <1>4 DEF EstimateFinishWaiting
    <3>7. QED
      BY <1>1, <3>2, <3>5, <3>6
  <2>3. QED
    BY <2>1, <2>2
<1>5. QED
  BY <1>3, <1>4 DEF EstimateFinish

(* One step of the Model, the topics or the responder keeps PlannerInv:  *)
(* Models are only added, a new one has no read bound, the latch only    *)
(* sets, and neither the members of a Model nor its Result change.        *)
LEMMA ModelStepKeeps == PlannerInv /\ ModelStep => PlannerInv'
<1> SUFFICES ASSUME PlannerInv, ModelStep PROVE PlannerInv'
  OBVIOUS
<1>1. TypeOK'
  BY TypeStep DEF PlannerInv, ModelStep, Next
<1>2. UNCHANGED <<planned, bound, result>>
  BY DEF ModelStep, Tick, SetInitialWaitDuration, SetTimeoutDuration, MakeModel,
         Respond, LoseRequest, LoseResponse, OnConfirmationReceived
<1>3. \A t \in Tokens : planned[t] # NoPlan =>
        /\ t \in created'
        /\ model'[t] = model[t]
        /\ (~received'[t] => ~received[t])
  <2> SUFFICES ASSUME NEW t \in Tokens, planned[t] # NoPlan
               PROVE  /\ t \in created'
                      /\ model'[t] = model[t]
                      /\ (~received'[t] => ~received[t])
    OBVIOUS
  <2>1. t \in created
    BY DEF PlannerInv
  <2>2. CASE \E u \in Tokens, s0 \in InitStates : MakeModel(u, s0)
    BY <2>1, <2>2 DEF MakeModel, PlannerInv, TypeOK
  <2>3. CASE \E s, m \in Tokens : OnConfirmationReceived(s, m)
    BY <2>3 DEF OnConfirmationReceived, PlannerInv, TypeOK
  <2>4. CASE ~(\E u \in Tokens, s0 \in InitStates : MakeModel(u, s0))
             /\ ~(\E s, m \in Tokens : OnConfirmationReceived(s, m))
    BY <2>1, <2>4 DEF ModelStep, Tick, SetInitialWaitDuration, SetTimeoutDuration,
                      Respond, LoseRequest, LoseResponse
  <2>5. QED
    BY <2>2, <2>3, <2>4
<1>4. \A t \in Tokens \ created' : planned'[t] = NoPlan /\ bound'[t] = NoPlan
  <2>1. created \subseteq created'
    BY DEF ModelStep, Tick, SetInitialWaitDuration, SetTimeoutDuration, MakeModel,
           Respond, LoseRequest, LoseResponse, OnConfirmationReceived
  <2>2. QED
    BY <1>2, <2>1 DEF PlannerInv
<1>5. QED
  BY <1>1, <1>2, <1>3, <1>4 DEF PlannerInv, UnconfirmedBoundExact

(* The scheduler's read of invariant_duration() keeps PlannerInv: it     *)
(* returns the Model's own wait while the Model is unconfirmed.          *)
LEMMA ReadKeeps ==
  ASSUME PlannerInv, NEW t \in Tokens, ReadInvariantDuration(t)
  PROVE  PlannerInv'
<1>1. InvariantDuration(t) \in Int
  BY DEF InvariantDuration, PlannerInv, TypeOK, ModelMembers
<1>2. QED
  BY <1>1 DEF ReadInvariantDuration, InvariantDuration, PlannerInv, vars,
              TypeOK, UnconfirmedBoundExact

(* A planned call of estimate_finish keeps PlannerInv: the bound it      *)
(* records is the one read, and an unfinished Estimate took the waiting  *)
(* branch, unconfirmed, so the read returned the wait it extends by.     *)
LEMMA PlannedPollKeeps ==
  ASSUME PlannerInv, NEW t \in Tokens, PlannedPoll(t)
  PROVE  PlannerInv'
<1>1. PICK s \in Inputs(t), db \in BOOLEAN : EstimateFinish(t, s, db)
  BY DEF PlannedPoll, Poll
<1>2. s \in State
  BY InputsType DEF PlannerInv
<1>3. /\ t \in created
      /\ UNCHANGED <<model, created, received>>
      /\ \A u \in Tokens \ {t} : result'[u] = result[u]
  BY <1>1, PollFrame DEF PlannerInv
<1>4. TypeOK'
  BY TypeStep DEF PlannerInv, PlannedPoll, Next
<1>5. /\ bound' = [bound EXCEPT ![t] = planned[t]]
      /\ UNCHANGED planned
  BY DEF PlannedPoll
<1>6. ASSUME result'[t].kind = "estimate", ~result'[t].finished, planned[t] # NoPlan
      PROVE  planned[t] = result'[t].state.time - result'[t].in.time
  <2>1. ~received[t] /\ result'[t].state.time - result'[t].in.time = model[t].wait
    BY <1>1, <1>2, <1>6, WaitingExtends DEF PlannerInv
  <2>2. QED
    BY <1>6, <2>1 DEF PlannerInv
<1>7. UnconfirmedBoundExact'
  BY <1>3, <1>5, <1>6 DEF PlannerInv, UnconfirmedBoundExact
<1>8. QED
  BY <1>3, <1>4, <1>5, <1>7 DEF PlannerInv

(* PlannerInv holds initially and is kept by every step. *)
LEMMA PlannerStep == PlannerInv /\ [PNext]_pvars => PlannerInv'
<1> SUFFICES ASSUME PlannerInv, [PNext]_pvars PROVE PlannerInv'
  OBVIOUS
<1>1. CASE ModelStep
  BY <1>1, ModelStepKeeps
<1>2. CASE \E t \in Tokens : ReadInvariantDuration(t)
  BY <1>2, ReadKeeps
<1>3. CASE \E t \in Tokens : PlannedPoll(t)
  BY <1>3, PlannedPollKeeps
<1>4. CASE UNCHANGED pvars
  BY <1>4 DEF PlannerInv, pvars, vars, TypeOK, UnconfirmedBoundExact
<1>5. QED
  BY <1>1, <1>2, <1>3, <1>4 DEF PNext

(* In every reachable state of the composition, PlannerInv holds. *)
THEOREM PlannerInvariant == PSpec => []PlannerInv
<1>1. PInit => PlannerInv
  BY DefaultStateType
     DEF PInit, Init, PlannerInv, TypeOK, ModelMembers, DescriptionImplementation,
         NoResult, Result, Outcomes, UnconfirmedBoundExact
<1>2. QED
  BY <1>1, PlannerStep, PTL DEF PSpec

(* For every Model, duration and interleaving of reads, setter calls and  *)
(* callbacks: an Estimate that extends the wait extends it by exactly the *)
(* bound invariant_duration() returned before it.                         *)
THEOREM BoundExact == PSpec => []UnconfirmedBoundExact
  BY PlannerInvariant, PTL DEF PlannerInv
=============================================================================
