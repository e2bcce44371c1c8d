---------------------- MODULE WaitForConfirmationBasic ----------------------
(***************************************************************************)
(* The always-advance WaitForConfirmation event of rmf_task_sequence      *)
(* (src/rmf_task_sequence/src/rmf_task_sequence/events/                   *)
(* WaitForConfirmation.cpp): a Description that manufactures Models which *)
(* hold no confirmation state; each estimate_finish extends the state by  *)
(* one wait and checks the battery. Same data abstraction as the live     *)
(* module WaitForConfirmation.                                            *)
(***************************************************************************)
EXTENDS Integers

CONSTANTS
  Models,          \* the Model objects make_model may return
  InitWait,        \* initial_wait_duration given to Description::make
  InitTimeout,     \* timeout_duration given to Description::make
  Durations,       \* durations the Description's setters may be given
  HasAmbientSink,  \* whether parameters.ambient_sink() is set
  AmbientRate,     \* SOC units the ambient sink drains per tick
  Threshold,       \* constraints.threshold_soc()
  InitStates,      \* invariant initial states make_model may be given
  NoSoc,           \* an unset State::battery_soc()
  MaxTime          \* bound on the times of the states estimated from

ASSUME BasicConstantsAssumption ==
  /\ InitWait \in Int /\ InitTimeout \in Int
  /\ Durations \subseteq Int
  /\ HasAmbientSink \in BOOLEAN
  /\ AmbientRate \in Nat
  /\ Threshold \in Int
  /\ NoSoc \notin Int
  /\ InitStates \subseteq [time : Int, soc : Int \cup {NoSoc}]
  /\ InitStates # {}
  /\ MaxTime \in Nat

VARIABLES
  desc,     \* Description::_pimpl: [wait, timeout]
  created,  \* Models constructed
  model,    \* per Model, its constant members
  result    \* history: per Model, the outcome of its last estimate_finish

vars == <<desc, created, model, result>>

State == [time : Int, soc : Int \cup {NoSoc}]

DefaultState == CHOOSE s \in InitStates : TRUE

Outcomes == {"none", "estimate", "depleted", "below_threshold", "throw"}

Result == [kind : Outcomes, in : State, drain_battery : BOOLEAN, state : State]

NoResult == [kind |-> "none", in |-> DefaultState, drain_battery |-> FALSE,
             state |-> DefaultState]

(* Model's members: _initial_wait_duration, _timeout_duration,            *)
(* _invariant_battery_drain and _invariant_finish_state.                  *)
ModelMembers == [wait : Int, timeout : Int, drain : Nat, finish : State]

(* Description::Implementation: the two durations. *)
DescriptionImplementation == [wait : Int, timeout : Int]

-----------------------------------------------------------------------------
(* Mutant: the drain computed from the raw wait, a negative one included. *)
InvariantBatteryDrainUnclamped(wait) ==
  IF HasAmbientSink THEN AmbientRate * wait ELSE 0

(* The Model constructor's _invariant_battery_drain, a negative wait      *)
(* counted as zero.                                                       *)
InvariantBatteryDrain(wait) ==
  IF HasAmbientSink
  THEN AmbientRate * (IF wait < 0 THEN 0 ELSE wait)
  ELSE 0

(* Model::invariant_duration(): always the configured wait. *)
InvariantDuration(m) == model[m].wait

(* Model::invariant_finish_state(). *)
InvariantFinishState(m) == model[m].finish

(* Description::generate_header(): the header's expected duration. *)
HeaderDuration == desc.wait

Outcome(kind, in, db, s) ==
  [kind |-> kind, in |-> in, drain_battery |-> db, state |-> s]

(* Mutant: the threshold checked against the SOC before the drain. *)
EstimateCheckBeforeDrain(m, s, db) ==
  LET s1 == [s EXCEPT !.time = @ + model[m].wait]
      soc == s1.soc - model[m].drain
      s2 == IF db THEN [s1 EXCEPT !.soc = soc] ELSE s1
  IN  IF s1.soc = NoSoc THEN Outcome("throw", s, db, s1)
      ELSE IF db /\ soc < 0 THEN Outcome("depleted", s, db, s1)
      ELSE IF s1.soc <= Threshold THEN Outcome("below_threshold", s, db, s2)
      ELSE Outcome("estimate", s, db, s2)

(* Model::estimate_finish with constraints.drain_battery() = db: extend   *)
(* the state's time by the wait, drain the battery if asked (failing if   *)
(* it goes negative), then check the threshold; .value() on an unset SOC  *)
(* throws.                                                                *)
Estimate(m, s, db) ==
  LET s1 == [s EXCEPT !.time = @ + model[m].wait]
      soc == s1.soc - model[m].drain
      s2 == IF db THEN [s1 EXCEPT !.soc = soc] ELSE s1
  IN  IF s1.soc = NoSoc THEN Outcome("throw", s, db, s1)
      ELSE IF db /\ soc < 0 THEN Outcome("depleted", s, db, s1)
      ELSE IF s2.soc <= Threshold THEN Outcome("below_threshold", s, db, s2)
      ELSE Outcome("estimate", s, db, s2)

(* The states the planner passes: the Model's invariant initial state, or *)
(* the state of its last Estimate, within the time bound.                 *)
Inputs(m) ==
  { s \in {InvariantFinishState(m)} \cup
          (IF result[m].kind = "estimate" THEN {result[m].state} ELSE {}) :
      s.time \in 0..MaxTime }

-----------------------------------------------------------------------------
Init ==
  /\ desc = [wait |-> InitWait, timeout |-> InitTimeout]
  /\ created = {}
  /\ model = [m \in Models |-> [wait |-> 0, timeout |-> 0, drain |-> 0,
                                finish |-> DefaultState]]
  /\ result = [m \in Models |-> NoResult]

(* Description::initial_wait_duration(d) and ::timeout_duration(d). *)
SetInitialWaitDuration(d) ==
  /\ desc' = [desc EXCEPT !.wait = d]
  /\ UNCHANGED <<created, model, result>>

SetTimeoutDuration(d) ==
  /\ desc' = [desc EXCEPT !.timeout = d]
  /\ UNCHANGED <<created, model, result>>

(* Description::make_model: a Model copying the durations and computing   *)
(* the drain; it keeps the timeout but never reads it.                    *)
MakeModel(m, s0) ==
  /\ m \notin created
  /\ created' = created \cup {m}
  /\ model' = [model EXCEPT ![m] = [wait |-> desc.wait, timeout |-> desc.timeout,
                                    drain |-> InvariantBatteryDrain(desc.wait),
                                    finish |-> s0]]
  /\ UNCHANGED <<desc, result>>

(* The planner calls estimate_finish on Model m. *)
EstimateFinish(m, s, db) ==
  /\ m \in created
  /\ s \in Inputs(m)
  /\ result' = [result EXCEPT ![m] = Estimate(m, s, db)]
  /\ UNCHANGED <<desc, created, model>>

Next ==
  \/ \E d \in Durations : SetInitialWaitDuration(d) \/ SetTimeoutDuration(d)
  \/ \E m \in Models, s0 \in InitStates : MakeModel(m, s0)
  \/ \E m \in Models, db \in BOOLEAN : \E s \in Inputs(m) : EstimateFinish(m, s, db)

Spec == Init /\ [][Next]_vars

-----------------------------------------------------------------------------
(* Every variable holds a value of its type. *)
TypeOK ==
  /\ desc \in DescriptionImplementation
  /\ created \subseteq Models
  /\ model \in [Models -> ModelMembers]
  /\ result \in [Models -> Result]

(* Over any chain of estimate_finish calls, an Estimate never leaves the   *)
(* battery at or below constraints.threshold_soc(): the drain is applied   *)
(* before the threshold is checked.                                       *)
EstimateAboveThreshold ==
  \A m \in Models : result[m].kind = "estimate" => result[m].state.soc > Threshold
=============================================================================
