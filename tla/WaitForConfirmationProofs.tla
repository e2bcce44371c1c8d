--------------------- MODULE WaitForConfirmationProofs ---------------------
(***************************************************************************)
(* Proofs about WaitForConfirmation for every value of its constants:     *)
(* type correctness, token correlation of the confirmation latch, and     *)
(* that the latch never resets.                                           *)
(***************************************************************************)
EXTENDS WaitForConfirmation, TLAPS

USE ConstantsAssumption

(* CHOOSE picks the default state from the non-empty set InitStates. *)
LEMMA DefaultStateType == DefaultState \in State
  BY DEF DefaultState, State

(* The drain the Model constructor computes is never negative. *)
LEMMA DrainType ==
  ASSUME NEW w \in Int
  PROVE  InvariantBatteryDrain(w) \in Nat
  BY DEF InvariantBatteryDrain

(* The battery checks of estimate_finish produce a well-typed Result. *)
LEMMA BatteryOutcomeType ==
  ASSUME NEW s \in State, NEW db \in BOOLEAN, NEW drain \in Nat,
         NEW fin \in BOOLEAN, NEW in \in State
  PROVE  BatteryOutcome(s, db, drain, fin, in) \in Result
  <1>1. CASE s.soc = NoSoc
    BY <1>1 DEF BatteryOutcome, Outcome, Result, Outcomes
  <1>2. CASE s.soc # NoSoc
    <2>1. s.soc \in Int
      BY <1>2 DEF State
    <2>2. [s EXCEPT !.soc = s.soc - drain] \in State
      BY <2>1 DEF State
    <2>3. QED
      BY <1>2, <2>2 DEF BatteryOutcome, Outcome, Result, Outcomes
  <1>3. QED
    BY <1>1, <1>2

(* What the planner passes to estimate_finish is a State. *)
LEMMA InputsType ==
  ASSUME TypeOK, NEW t \in Tokens
  PROVE  Inputs(t) \subseteq State
  BY DEF Inputs, InvariantFinishState, TypeOK, ModelMembers, DescriptionImplementation, Result

(* Extending a State's time by a wait gives a State. *)
LEMMA ExtendType ==
  ASSUME NEW s \in State, NEW w \in Int
  PROVE  [s EXCEPT !.time = s.time + w] \in State
  BY DEF State

-----------------------------------------------------------------------------
(* One step of the system keeps every variable well typed. *)
LEMMA TypeStep == TypeOK /\ [Next]_vars => TypeOK'
<1> SUFFICES ASSUME TypeOK, [Next]_vars PROVE TypeOK'
  OBVIOUS
<1>1. CASE Tick
  BY <1>1 DEF Tick, TypeOK, ModelMembers, DescriptionImplementation
<1>2. ASSUME NEW d \in Durations, SetInitialWaitDuration(d) \/ SetTimeoutDuration(d)
      PROVE  TypeOK'
  BY <1>2 DEF SetInitialWaitDuration, SetTimeoutDuration, TypeOK, ModelMembers, DescriptionImplementation
<1>3. ASSUME NEW t \in Tokens, NEW s0 \in InitStates, MakeModel(t, s0)
      PROVE  TypeOK'
  <2>1. InvariantBatteryDrain(desc.wait) \in Nat
    BY DrainType DEF TypeOK, ModelMembers, DescriptionImplementation
  <2>2. s0 \in State
    BY DEF State
  <2>3. QED
    BY <1>3, <2>1, <2>2 DEF MakeModel, TypeOK, ModelMembers, DescriptionImplementation
<1>4. ASSUME NEW t \in Tokens, Respond(t) \/ LoseRequest(t)
      PROVE  TypeOK'
  BY <1>4 DEF Respond, LoseRequest, TypeOK, ModelMembers, DescriptionImplementation
<1>5. ASSUME NEW s \in Tokens, NEW m \in Tokens,
             LoseResponse(s, m) \/ OnConfirmationReceived(s, m)
      PROVE  TypeOK'
  <2>1. CASE LoseResponse(s, m)
    BY <2>1 DEF LoseResponse, TypeOK, ModelMembers, DescriptionImplementation
  <2>2. CASE OnConfirmationReceived(s, m)
    <3>1. received' \in [Tokens -> BOOLEAN]
      BY <2>2 DEF OnConfirmationReceived, TypeOK, ModelMembers, DescriptionImplementation
    <3>2. respTopic' \in [Tokens -> SUBSET Tokens]
      BY <2>2 DEF OnConfirmationReceived, TypeOK, ModelMembers, DescriptionImplementation
    <3>3. QED
      BY <2>2, <3>1, <3>2 DEF OnConfirmationReceived, TypeOK, ModelMembers, DescriptionImplementation
  <2>3. QED
    BY <1>5, <2>1, <2>2
<1>6. ASSUME NEW t \in Tokens, Poll(t)
      PROVE  TypeOK'
  <2>1. PICK s \in Inputs(t), db \in BOOLEAN : EstimateFinish(t, s, db)
    BY <1>6 DEF Poll
  <2>2. s \in State
    BY InputsType
  <2>3. /\ model[t].wait \in Int
        /\ model[t].drain \in Nat
    BY DEF TypeOK, ModelMembers, DescriptionImplementation
  <2>4. CASE EstimateFinishWaiting(t, s, db)
    <3>1. [s EXCEPT !.time = s.time + model[t].wait] \in State
      BY <2>2, <2>3, ExtendType
    <3>2. BatteryOutcome([s EXCEPT !.time = s.time + model[t].wait],
                         db, model[t].drain, FALSE, s) \in Result
      BY <2>2, <2>3, <3>1, BatteryOutcomeType
    <3>3. Outcome("timeout", s, db, s, FALSE) \in Result
      BY <2>2 DEF Outcome, Result, Outcomes
    <3>4. CASE now - reqTime[t] > model[t].timeout
      BY <2>1, <2>4, <3>3, <3>4 DEF EstimateFinish, EstimateFinishWaiting, TypeOK, ModelMembers, DescriptionImplementation
    <3>5. CASE ~(now - reqTime[t] > model[t].timeout)
      <4>1. /\ reqTime' = [reqTime EXCEPT ![t] = now]
            /\ reqTopic' = reqTopic \cup {t}
            /\ result' = [result EXCEPT ![t] =
                            BatteryOutcome([s EXCEPT !.time = s.time + model[t].wait],
                                           db, model[t].drain, FALSE, s)]
        BY <2>4, <3>5 DEF EstimateFinishWaiting
      <4>2. QED
        BY <2>1, <3>2, <4>1 DEF EstimateFinish, TypeOK, ModelMembers, DescriptionImplementation
    <3>6. QED
      BY <3>4, <3>5
  <2>5. CASE EstimateFinishConfirmed(t, s, db)
    <3>1. BatteryOutcome(s, db, model[t].drain, TRUE, s) \in Result
      BY <2>2, <2>3, BatteryOutcomeType
    <3>2. QED
      BY <2>1, <2>5, <3>1 DEF EstimateFinish, EstimateFinishConfirmed, TypeOK, ModelMembers, DescriptionImplementation
  <2>6. QED
    BY <2>1, <2>4, <2>5 DEF EstimateFinish
<1>7. CASE UNCHANGED vars
  BY <1>7 DEF vars, TypeOK, ModelMembers, DescriptionImplementation
<1>8. QED
  BY <1>1, <1>2, <1>3, <1>4, <1>5, <1>6, <1>7 DEF Next

(* Every reachable state is well typed. *)
THEOREM TypeCorrect == Spec => []TypeOK
<1>1. Init => TypeOK
  BY DefaultStateType DEF Init, TypeOK, ModelMembers, DescriptionImplementation, NoResult, Result, Outcomes
<1>2. QED
  BY <1>1, TypeStep, PTL DEF Spec

-----------------------------------------------------------------------------
(* A step that touches neither the latches, the topics, the constructed *)
(* Models nor the responder's history keeps the correlation facts.      *)
LEMMA CorrelationFrame ==
  ASSUME CorrelationInv, TypeOK',
         UNCHANGED <<received, reqTopic, respTopic, answered, created>>
  PROVE  CorrelationInv'
  BY DEF CorrelationInv, ConfirmationCorrelated

(* One step keeps the correlation facts: on_confirmation_received        *)
(* latches a flag only on the Model's own UUID, and every queued message  *)
(* was echoed by the responder for a constructed Model.                   *)
LEMMA CorrelationStep == CorrelationInv /\ [Next]_vars => CorrelationInv'
<1> SUFFICES ASSUME CorrelationInv, [Next]_vars
             PROVE  CorrelationInv'
  OBVIOUS
<1>1. TypeOK'
  BY TypeStep DEF CorrelationInv
<1>2. ASSUME NEW t \in Tokens, Respond(t)
      PROVE  CorrelationInv'
  BY <1>1, <1>2 DEF Respond, CorrelationInv, ConfirmationCorrelated, TypeOK, ModelMembers, DescriptionImplementation
<1>3. ASSUME NEW s \in Tokens, NEW m \in Tokens, LoseResponse(s, m)
      PROVE  CorrelationInv'
  BY <1>1, <1>3 DEF LoseResponse, CorrelationInv, ConfirmationCorrelated, TypeOK, ModelMembers, DescriptionImplementation
<1>4. ASSUME NEW s \in Tokens, NEW m \in Tokens, OnConfirmationReceived(s, m)
      PROVE  CorrelationInv'
  <2>1. m \in answered
    BY <1>4 DEF OnConfirmationReceived, CorrelationInv
  <2>2. ConfirmationCorrelated'
    BY <1>4, <2>1 DEF OnConfirmationReceived, CorrelationInv, ConfirmationCorrelated, TypeOK, ModelMembers, DescriptionImplementation
  <2>3. \A r \in Tokens : respTopic'[r] \subseteq answered'
    BY <1>4 DEF OnConfirmationReceived, CorrelationInv, TypeOK, ModelMembers, DescriptionImplementation
  <2>4. UNCHANGED <<reqTopic, created, answered>>
    BY <1>4 DEF OnConfirmationReceived
  <2>5. QED
    BY <1>1, <2>2, <2>3, <2>4 DEF CorrelationInv
<1>5. ASSUME NEW t \in Tokens, NEW s0 \in InitStates, MakeModel(t, s0)
      PROVE  CorrelationInv'
  BY <1>1, <1>5 DEF MakeModel, CorrelationInv, ConfirmationCorrelated, TypeOK, ModelMembers, DescriptionImplementation
<1>6. ASSUME NEW t \in Tokens, LoseRequest(t)
      PROVE  CorrelationInv'
  BY <1>1, <1>6 DEF LoseRequest, CorrelationInv, ConfirmationCorrelated
<1>7. ASSUME NEW t \in Tokens, Poll(t)
      PROVE  CorrelationInv'
  <2>1. PICK s \in Inputs(t), db \in BOOLEAN : EstimateFinish(t, s, db)
    BY <1>7 DEF Poll
  <2>2. /\ t \in created
        /\ reqTopic' \subseteq reqTopic \cup {t}
        /\ UNCHANGED <<received, respTopic, answered, created>>
    BY <2>1 DEF EstimateFinish, EstimateFinishWaiting, EstimateFinishConfirmed
  <2>3. QED
    BY <1>1, <2>2 DEF CorrelationInv, ConfirmationCorrelated
<1>8. CASE \/ Tick
           \/ \E d \in Durations : SetInitialWaitDuration(d) \/ SetTimeoutDuration(d)
           \/ UNCHANGED vars
  <2>1. UNCHANGED <<received, reqTopic, respTopic, answered, created>>
    BY <1>8 DEF Tick, SetInitialWaitDuration, SetTimeoutDuration, vars
  <2>2. QED
    BY <1>1, <2>1, CorrelationFrame
<1>9. QED
  BY <1>2, <1>3, <1>4, <1>5, <1>6, <1>7, <1>8 DEF Next

(* on_confirmation_received latches a Model's flag only on a message      *)
(* carrying its own UUID, and every queued message was echoed by the      *)
(* responder: so no Model is confirmed by another Model's response.      *)
THEOREM CorrelationInvariant == Spec => []CorrelationInv
<1>1. Init => CorrelationInv
  BY DefaultStateType
     DEF Init, CorrelationInv, ConfirmationCorrelated, TypeOK, ModelMembers, DescriptionImplementation, NoResult, Result, Outcomes
<1>2. QED
  BY <1>1, CorrelationStep, PTL DEF Spec

(* No Model is confirmed by a response to another Model's request. *)
THEOREM Correlation == Spec => []ConfirmationCorrelated
  BY CorrelationInvariant, PTL DEF CorrelationInv

(* Each step keeps a latched flag latched: only MakeModel clears a flag, *)
(* and only for a UUID not yet constructed, which no response carries.  *)
LEMMA LatchStep ==
  ASSUME CorrelationInv, [Next]_vars, NEW t \in Tokens, received[t]
  PROVE  received'[t]
  <1>1. t \in created
    BY DEF CorrelationInv, ConfirmationCorrelated
  <1>2. ASSUME NEW s \in Tokens, NEW m \in Tokens, OnConfirmationReceived(s, m)
        PROVE  received'[t]
    BY <1>2 DEF OnConfirmationReceived, CorrelationInv, TypeOK, ModelMembers, DescriptionImplementation
  <1>3. ASSUME NEW u \in Tokens, NEW s0 \in InitStates, MakeModel(u, s0)
        PROVE  received'[t]
    BY <1>1, <1>3 DEF MakeModel, CorrelationInv, TypeOK, ModelMembers, DescriptionImplementation
  <1>4. CASE \/ Tick
             \/ \E d \in Durations : SetInitialWaitDuration(d) \/ SetTimeoutDuration(d)
             \/ \E u \in Tokens : Respond(u) \/ LoseRequest(u) \/ Poll(u)
             \/ \E s, m \in Tokens : LoseResponse(s, m)
             \/ UNCHANGED vars
    BY <1>4 DEF Tick, SetInitialWaitDuration, SetTimeoutDuration, Respond, LoseRequest,
                Poll, EstimateFinish, LoseResponse, vars
  <1>5. QED
    BY <1>2, <1>3, <1>4 DEF Next

(* The confirmation latch never resets, in any interleaving of the        *)
(* callback, the planner's calls and the construction of other Models.   *)
THEOREM LatchMonotone == Spec => LatchNeverResets
<1>1. CorrelationInv /\ [Next]_vars => [\A t \in Tokens : received[t] => received'[t]]_vars
  BY LatchStep
<1>2. QED
  BY <1>1, CorrelationInvariant, PTL DEF Spec, LatchNeverResets

-----------------------------------------------------------------------------
(* An Estimate the battery part returns is above the threshold: the       *)
(* threshold is checked on the SOC after the drain.                       *)
LEMMA BatteryOutcomeAbove ==
  ASSUME NEW s \in State, NEW db \in BOOLEAN, NEW drain \in Nat,
         NEW fin \in BOOLEAN, NEW in \in State,
         BatteryOutcome(s, db, drain, fin, in).kind = "estimate"
  PROVE  BatteryOutcome(s, db, drain, fin, in).state.soc > Threshold
  <1>1. s.soc \in Int
    BY DEF BatteryOutcome, Outcome, State
  <1>2. QED
    BY <1>1 DEF BatteryOutcome, Outcome

(* TypeOK together with the threshold floor, which is inductive. *)
FloorInv == TypeOK /\ EstimateAboveThreshold

(* One step keeps every Estimate above the threshold: only estimate_finish *)
(* writes a Result, through the battery part.                             *)
LEMMA FloorStep == FloorInv /\ [Next]_vars => FloorInv'
<1> SUFFICES ASSUME FloorInv, [Next]_vars PROVE FloorInv'
  OBVIOUS
<1>1. TypeOK'
  BY TypeStep DEF FloorInv
<1>2. ASSUME NEW t \in Tokens, Poll(t)
      PROVE  EstimateAboveThreshold'
  <2>1. PICK s \in Inputs(t), db \in BOOLEAN : EstimateFinish(t, s, db)
    BY <1>2 DEF Poll
  <2>2. /\ s \in State
        /\ model[t].wait \in Int
        /\ model[t].drain \in Nat
    BY InputsType DEF FloorInv, TypeOK, ModelMembers
  <2>3. result' = [result EXCEPT ![t] =
                     IF received[t]
                     THEN BatteryOutcome(s, db, model[t].drain, TRUE, s)
                     ELSE IF now - reqTime[t] > model[t].timeout
                     THEN Outcome("timeout", s, db, s, FALSE)
                     ELSE BatteryOutcome([s EXCEPT !.time = s.time + model[t].wait],
                                         db, model[t].drain, FALSE, s)]
    BY <2>1 DEF EstimateFinish, EstimateFinishWaiting, EstimateFinishConfirmed
  <2>4. [s EXCEPT !.time = s.time + model[t].wait] \in State
    BY <2>2, ExtendType
  <2>5. result'[t].kind = "estimate" => result'[t].state.soc > Threshold
    BY <2>2, <2>3, <2>4, BatteryOutcomeAbove DEF FloorInv, TypeOK, Outcome
  <2>6. QED
    BY <2>3, <2>5 DEF FloorInv, EstimateAboveThreshold, TypeOK
<1>3. CASE ~\E t \in Tokens : Poll(t)
  <2>1. UNCHANGED result
    BY <1>3 DEF Next, Tick, SetInitialWaitDuration, SetTimeoutDuration, MakeModel,
                Respond, LoseRequest, LoseResponse, OnConfirmationReceived, vars
  <2>2. QED
    BY <1>1, <2>1 DEF FloorInv, EstimateAboveThreshold
<1>4. QED
  BY <1>1, <1>2, <1>3 DEF FloorInv

(* Over any chain of estimate_finish calls, in any interleaving with the  *)
(* callback and the other Models, an Estimate leaves the battery above    *)
(* constraints.threshold_soc().                                           *)
THEOREM EstimateFloor == Spec => []EstimateAboveThreshold
<1>1. Init => FloorInv
  BY DefaultStateType DEF Init, FloorInv, EstimateAboveThreshold, TypeOK, ModelMembers,
                          DescriptionImplementation, NoResult, Result, Outcomes
<1>2. QED
  BY <1>1, FloorStep, PTL DEF Spec, FloorInv

(* The waiting branch of the live estimate_finish and the always-advance  *)
(* estimate_finish compute the same outcome from the same wait and drain: *)
(* both extend the time, read the SOC, drain, and check the threshold.    *)
LEMMA WaitingEstimate ==
  ASSUME NEW t \in Tokens, NEW s \in State, NEW db \in BOOLEAN,
         model[t].wait \in Int, model[t].drain \in Nat
  PROVE  LET r == BatteryOutcome([s EXCEPT !.time = @ + model[t].wait], db,
                                 model[t].drain, FALSE, s)
         IN  Basic!Estimate(t, s, db) =
               [kind |-> r.kind, in |-> r.in, drain_battery |-> r.drain_battery,
                state |-> r.state]
<1> DEFINE s1 == [s EXCEPT !.time = s.time + model[t].wait]
<1>1. s1 \in State /\ s1.soc = s.soc
  BY DEF State
<1>2. CASE s.soc = NoSoc
  BY <1>1, <1>2 DEF Basic!Estimate, Basic!Outcome, BatteryOutcome, Outcome
<1>3. CASE s.soc # NoSoc
  <2>1. s1.soc \in Int
    BY <1>1, <1>3 DEF State
  <2>2. QED
    BY <1>1, <1>3, <2>1 DEF Basic!Estimate, Basic!Outcome, BatteryOutcome, Outcome
<1>4. QED
  BY <1>2, <1>3

(* In every reachable state, the live Model's waiting branch agrees with  *)
(* WaitForConfirmation.cpp's estimate_finish on every input it may get.   *)
THEOREM VariantsAgree == Spec => []WaitingMatchesBasic
<1>1. TypeOK => WaitingMatchesBasic
  <2> SUFFICES ASSUME TypeOK, NEW t \in created, NEW db \in BOOLEAN, NEW s \in Inputs(t)
               PROVE  LET r == BatteryOutcome([s EXCEPT !.time = @ + model[t].wait], db,
                                              model[t].drain, FALSE, s)
                      IN  Basic!Estimate(t, s, db) =
                            [kind |-> r.kind, in |-> r.in, drain_battery |-> r.drain_battery,
                             state |-> r.state]
    BY DEF WaitingMatchesBasic
  <2>1. t \in Tokens /\ s \in State
    BY InputsType DEF TypeOK
  <2>2. model[t].wait \in Int /\ model[t].drain \in Nat
    BY <2>1 DEF TypeOK, ModelMembers
  <2>3. QED
    BY <2>1, <2>2, WaitingEstimate
<1>2. QED
  BY <1>1, TypeCorrect, PTL

=============================================================================
