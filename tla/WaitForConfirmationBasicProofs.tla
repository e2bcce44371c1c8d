------------------- MODULE WaitForConfirmationBasicProofs -------------------
(***************************************************************************)
(* Proofs about the always-advance variant WaitForConfirmationBasic for   *)
(* every value of its constants: type correctness, and that an Estimate   *)
(* never leaves the battery at or below the threshold.                    *)
(***************************************************************************)
EXTENDS WaitForConfirmationBasic, TLAPS

USE BasicConstantsAssumption

(* The default state CHOOSE picks from the non-empty InitStates. *)
LEMMA BasicDefaultStateType == DefaultState \in State
  BY DEF DefaultState, State

(* The Model constructor's drain is never negative. *)
LEMMA BasicDrainType ==
  ASSUME NEW w \in Int
  PROVE  InvariantBatteryDrain(w) \in Nat
  BY DEF InvariantBatteryDrain

(* estimate_finish returns a well-typed Result, and an Estimate it        *)
(* returns is above the threshold.                                        *)
LEMMA EstimateProps ==
  ASSUME TypeOK, NEW m \in Models, NEW s \in State, NEW db \in BOOLEAN
  PROVE  /\ Estimate(m, s, db) \in Result
         /\ Estimate(m, s, db).kind = "estimate" => Estimate(m, s, db).state.soc > Threshold
  <1>1. /\ model[m].wait \in Int
        /\ model[m].drain \in Nat
    BY DEF TypeOK, ModelMembers
  <1>2. [s EXCEPT !.time = s.time + model[m].wait] \in State
    BY <1>1 DEF State
  <1>3. CASE s.soc = NoSoc
    BY <1>2, <1>3 DEF Estimate, Outcome, Result, Outcomes, State
  <1>4. CASE s.soc # NoSoc
    <2> DEFINE s1 == [s EXCEPT !.time = s.time + model[m].wait]
               s2 == IF db THEN [s1 EXCEPT !.soc = s1.soc - model[m].drain] ELSE s1
    <2>1. s1.soc = s.soc /\ s.soc \in Int
      BY <1>4 DEF State
    <2>7. s1 \in State /\ s1.soc - model[m].drain \in Int
      BY <1>1, <1>2, <2>1
    <2>8. [s1 EXCEPT !.soc = s1.soc - model[m].drain] \in State
      BY <2>7 DEF State
    <2>2. s2 \in State /\ s2.soc \in Int
      BY <2>1, <2>7, <2>8 DEF State
    <2>3. Estimate(m, s, db) =
            IF db /\ s1.soc - model[m].drain < 0 THEN Outcome("depleted", s, db, s1)
            ELSE IF s2.soc <= Threshold THEN Outcome("below_threshold", s, db, s2)
            ELSE Outcome("estimate", s, db, s2)
      BY <1>4, <2>1 DEF Estimate
    <2>4. Estimate(m, s, db) \in Result
      BY <1>2, <2>2, <2>3 DEF Outcome, Result, Outcomes
    <2>5. Estimate(m, s, db).kind = "estimate" => Estimate(m, s, db).state.soc > Threshold
      BY <2>2, <2>3 DEF Outcome
    <2>6. QED
      BY <2>4, <2>5
  <1>5. QED
    BY <1>3, <1>4

(* TypeOK and the threshold floor together are inductive. *)
BasicInv == TypeOK /\ EstimateAboveThreshold

(* One step keeps BasicInv: only estimate_finish writes a Result. *)
LEMMA BasicStep == BasicInv /\ [Next]_vars => BasicInv'
<1> SUFFICES ASSUME BasicInv, [Next]_vars PROVE BasicInv'
  OBVIOUS
<1>1. ASSUME NEW d \in Durations, SetInitialWaitDuration(d) \/ SetTimeoutDuration(d)
      PROVE  BasicInv'
  BY <1>1 DEF SetInitialWaitDuration, SetTimeoutDuration, BasicInv, TypeOK,
              DescriptionImplementation, EstimateAboveThreshold
<1>2. ASSUME NEW m \in Models, NEW s0 \in InitStates, MakeModel(m, s0)
      PROVE  BasicInv'
  <2>1. InvariantBatteryDrain(desc.wait) \in Nat
    BY BasicDrainType DEF BasicInv, TypeOK, DescriptionImplementation
  <2>2. s0 \in State
    BY DEF State
  <2>3. QED
    BY <1>2, <2>1, <2>2 DEF MakeModel, BasicInv, TypeOK, ModelMembers,
                            DescriptionImplementation, EstimateAboveThreshold
<1>3. ASSUME NEW m \in Models, NEW db \in BOOLEAN, NEW s \in Inputs(m),
             EstimateFinish(m, s, db)
      PROVE  BasicInv'
  <2>1. s \in State
    BY DEF Inputs, InvariantFinishState, BasicInv, TypeOK, ModelMembers, Result
  <2>2. /\ Estimate(m, s, db) \in Result
        /\ Estimate(m, s, db).kind = "estimate" => Estimate(m, s, db).state.soc > Threshold
    BY <2>1, EstimateProps DEF BasicInv
  <2>3. QED
    BY <1>3, <2>2 DEF EstimateFinish, BasicInv, TypeOK, EstimateAboveThreshold
<1>4. CASE UNCHANGED vars
  BY <1>4 DEF vars, BasicInv, TypeOK, EstimateAboveThreshold
<1>5. QED
  BY <1>1, <1>2, <1>3, <1>4 DEF Next

(* Every reachable state of the always-advance variant is well typed and *)
(* every Estimate in it is above the threshold.                          *)
THEOREM BasicInvariant == Spec => []BasicInv
<1>1. Init => BasicInv
  BY BasicDefaultStateType DEF Init, BasicInv, TypeOK, ModelMembers,
                               DescriptionImplementation, EstimateAboveThreshold,
                               NoResult, Result, Outcomes
<1>2. QED
  BY <1>1, BasicStep, PTL DEF Spec

(* Every reachable state is well typed. *)
THEOREM BasicTypeCorrect == Spec => []TypeOK
  BY BasicInvariant, PTL DEF BasicInv

(* Over any chain of estimate_finish calls, an Estimate never leaves the  *)
(* battery at or below constraints.threshold_soc().                       *)
THEOREM BasicEstimateFloor == Spec => []EstimateAboveThreshold
  BY BasicInvariant, PTL DEF BasicInv
=============================================================================
