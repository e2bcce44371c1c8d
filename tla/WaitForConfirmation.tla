------------------------- MODULE WaitForConfirmation -------------------------
(***************************************************************************)
(* The live WaitForConfirmation event of rmf_task_sequence                 *)
(* (src/unnamed/part_000): a Description that manufactures Models, each    *)
(* Model owning a UUID, a _confirmation_received flag and a                *)
(* _confirmation_request_time; the ROS topics /request_confirmation and    *)
(* /confirmation_received between the Models and an external responder;   *)
(* the subscription callback on_confirmation_received; and the planner's  *)
(* calls of estimate_finish.                                               *)
(*                                                                         *)
(* Data abstraction: durations and times are integer ticks of the steady  *)
(* clock, battery SOC is an integer number of SOC units, a UUID is a model *)
(* value of Tokens (uuid_generate_random is taken to be collision free),  *)
(* a task State is a record [time, soc] whose soc may be NoSoc (unset).   *)
(***************************************************************************)
EXTENDS Integers

CONSTANTS
  Tokens,          \* the UUIDs _task_uuid of the Models that may be made
  InitWait,        \* initial_wait_duration given to Description::make
  InitTimeout,     \* timeout_duration given to Description::make
  Durations,       \* durations the Description's setters may be given
  HasAmbientSink,  \* whether parameters.ambient_sink() is set
  AmbientRate,     \* SOC units the ambient sink drains per tick
  Threshold,       \* constraints.threshold_soc()
  InitStates,      \* invariant initial states make_model may be given
  NoSoc,           \* an unset State::battery_soc()
  MaxTime,         \* bound on the steady clock
  ExecutorSpins    \* whether an executor spins the Model's rclcpp::Node

ASSUME ConstantsAssumption ==
  /\ InitWait \in Int /\ InitTimeout \in Int
  /\ Durations \subseteq Int
  /\ HasAmbientSink \in BOOLEAN
  /\ AmbientRate \in Nat
  /\ Threshold \in Int
  /\ NoSoc \notin Int
  /\ InitStates \subseteq [time : Int, soc : Int \cup {NoSoc}]
  /\ InitStates # {}
  /\ MaxTime \in Nat
  /\ ExecutorSpins \in BOOLEAN

VARIABLES
  now,          \* std::chrono::steady_clock::now()
  desc,         \* Description::_pimpl: [wait, timeout]
  created,      \* tokens whose Model has been constructed
  model,        \* per token, the Model's constant members
  received,     \* per token, _confirmation_received
  reqTime,      \* per token, _confirmation_request_time
  reqTopic,     \* tokens in flight on /request_confirmation
  respTopic,    \* per token, messages queued at its /confirmation_received subscription
  answered,     \* history: tokens the responder has confirmed
  waitingSince, \* history: time of a Model's first request
  result        \* history: per token, the outcome of its last estimate_finish

vars == <<now, desc, created, model, received, reqTime, reqTopic, respTopic,
          answered, waitingSince, result>>

State == [time : Int, soc : Int \cup {NoSoc}]

DefaultState == CHOOSE s \in InitStates : TRUE

(* Outcomes of estimate_finish: an Estimate, or std::nullopt for one of     *)
(* three reasons, or a std::bad_optional_access thrown by .value().        *)
Outcomes == {"none", "estimate", "timeout", "depleted", "below_threshold", "throw"}

(* A result records the call's input state and drain_battery flag, the   *)
(* outcome, the resulting state and whether the finish time is the       *)
(* state's time (the event finished) or earliest_arrival_time.          *)
Result == [kind : Outcomes, in : State, drain_battery : BOOLEAN,
           state : State, finished : BOOLEAN]

NoResult == [kind |-> "none", in |-> DefaultState, drain_battery |-> FALSE,
             state |-> DefaultState, finished |-> FALSE]

(* The Model's members fixed at construction: _initial_wait_duration,     *)
(* _timeout_duration, _invariant_battery_drain, _invariant_finish_state.  *)
ModelMembers == [wait : Int, timeout : Int, drain : Nat, finish : State]

(* Description::Implementation: the two durations. *)
DescriptionImplementation == [wait : Int, timeout : Int]

-----------------------------------------------------------------------------
(* Mutant: the drain computed from the raw wait, a negative one included. *)
InvariantBatteryDrainUnclamped(wait) ==
  IF HasAmbientSink THEN AmbientRate * wait ELSE 0

(* The Model constructor's _invariant_battery_drain: the ambient sink's     *)
(* change in charge over the wait, a negative wait counted as zero.        *)
InvariantBatteryDrain(wait) ==
  IF HasAmbientSink
  THEN AmbientRate * (IF wait < 0 THEN 0 ELSE wait)
  ELSE 0

(* Mutant: the duration read from the Description's current wait rather  *)
(* than the Model's own copy.                                             *)
InvariantDurationFromDescription(t) == IF received[t] THEN 0 ELSE desc.wait

(* Model::invariant_duration(). *)
InvariantDuration(t) == IF received[t] THEN 0 ELSE model[t].wait

(* Model::invariant_finish_state(). *)
InvariantFinishState(t) == model[t].finish

(* Description::generate_header(): the header's expected duration. *)
HeaderDuration == desc.wait

(* The Result of one call of estimate_finish. *)
Outcome(kind, in, db, s, finished) ==
  [kind |-> kind, in |-> in, drain_battery |-> db, state |-> s,
   finished |-> finished]

(* Mutant: the threshold checked against the SOC before the drain. *)
BatteryOutcomeCheckBeforeDrain(s, db, drain, finished, in) ==
  LET soc == s.soc - drain
      s2 == IF db THEN [s EXCEPT !.soc = soc] ELSE s
  IN  IF s.soc = NoSoc THEN Outcome("throw", in, db, s, finished)
      ELSE IF db /\ soc < 0 THEN Outcome("depleted", in, db, s, finished)
      ELSE IF s.soc <= Threshold THEN Outcome("below_threshold", in, db, s2, finished)
      ELSE Outcome("estimate", in, db, s2, finished)

(* The battery part shared by both branches of estimate_finish: the drain  *)
(* if constraints.drain_battery(), then the threshold check, which reads   *)
(* battery_soc().value() whether or not the battery was drained.          *)
BatteryOutcome(s, db, drain, finished, in) ==
  LET soc == s.soc - drain
      s2 == IF db THEN [s EXCEPT !.soc = soc] ELSE s
  IN  IF s.soc = NoSoc THEN Outcome("throw", in, db, s, finished)
      ELSE IF db /\ soc < 0 THEN Outcome("depleted", in, db, s, finished)
      ELSE IF s2.soc <= Threshold THEN Outcome("below_threshold", in, db, s2, finished)
      ELSE Outcome("estimate", in, db, s2, finished)

(* The states the planner passes to estimate_finish for token t: the       *)
(* Model's invariant initial state, or the state of its last Estimate when *)
(* it polls again from there, within the clock's bound.                    *)
Inputs(t) ==
  { s \in {InvariantFinishState(t)} \cup
          (IF result[t].kind = "estimate" THEN {result[t].state} ELSE {}) :
      s.time \in 0..MaxTime }

-----------------------------------------------------------------------------
Init ==
  /\ now = 0
  /\ desc = [wait |-> InitWait, timeout |-> InitTimeout]
  /\ created = {}
  /\ model = [t \in Tokens |-> [wait |-> 0, timeout |-> 0, drain |-> 0,
                                finish |-> DefaultState]]
  /\ received = [t \in Tokens |-> FALSE]
  /\ reqTime = [t \in Tokens |-> 0]
  /\ reqTopic = {}
  /\ respTopic = [t \in Tokens |-> {}]
  /\ answered = {}
  /\ waitingSince = [t \in Tokens |-> 0]
  /\ result = [t \in Tokens |-> NoResult]

(* The steady clock advances. *)
Tick ==
  /\ now < MaxTime
  /\ now' = now + 1
  /\ UNCHANGED <<desc, created, model, received, reqTime, reqTopic, respTopic,
                 answered, waitingSince, result>>

(* Description::initial_wait_duration(d) and ::timeout_duration(d). *)
SetInitialWaitDuration(d) ==
  /\ desc' = [desc EXCEPT !.wait = d]
  /\ UNCHANGED <<now, created, model, received, reqTime, reqTopic, respTopic,
                 answered, waitingSince, result>>

SetTimeoutDuration(d) ==
  /\ desc' = [desc EXCEPT !.timeout = d]
  /\ UNCHANGED <<now, created, model, received, reqTime, reqTopic, respTopic,
                 answered, waitingSince, result>>

(* Description::make_model: constructs a Model with a fresh UUID t, copies *)
(* the durations, computes the drain, creates the subscription and calls   *)
(* request_confirmation(), which publishes t and records the time.         *)
MakeModel(t, s0) ==
  /\ t \notin created
  /\ created' = created \cup {t}
  /\ model' = [model EXCEPT ![t] = [wait |-> desc.wait, timeout |-> desc.timeout,
                                    drain |-> InvariantBatteryDrain(desc.wait),
                                    finish |-> s0]]
  /\ received' = [received EXCEPT ![t] = FALSE]
  /\ reqTopic' = reqTopic \cup {t}
  /\ reqTime' = [reqTime EXCEPT ![t] = now]
  /\ waitingSince' = [waitingSince EXCEPT ![t] = now]
  /\ UNCHANGED <<now, desc, respTopic, answered, result>>

(* The external responder takes a request off /request_confirmation and   *)
(* echoes its UUID on /confirmation_received, where every live Model's    *)
(* subscription receives a copy.                                          *)
Respond(t) ==
  /\ t \in reqTopic
  /\ reqTopic' = reqTopic \ {t}
  /\ respTopic' = [s \in Tokens |-> IF s \in created THEN respTopic[s] \cup {t}
                                                     ELSE respTopic[s]]
  /\ answered' = answered \cup {t}
  /\ UNCHANGED <<now, desc, created, model, received, reqTime, waitingSince,
                 result>>

(* A message on either topic is lost. *)
LoseRequest(t) ==
  /\ t \in reqTopic
  /\ reqTopic' = reqTopic \ {t}
  /\ UNCHANGED <<now, desc, created, model, received, reqTime, respTopic,
                 answered, waitingSince, result>>

LoseResponse(s, m) ==
  /\ m \in respTopic[s]
  /\ respTopic' = [respTopic EXCEPT ![s] = @ \ {m}]
  /\ UNCHANGED <<now, desc, created, model, received, reqTime, reqTopic,
                 answered, waitingSince, result>>

(* Mutant: any message on /confirmation_received latches the flag. *)
OnConfirmationReceivedAnyToken(s, m) ==
  /\ ExecutorSpins
  /\ m \in respTopic[s]
  /\ respTopic' = [respTopic EXCEPT ![s] = @ \ {m}]
  /\ received' = [received EXCEPT ![s] = TRUE]
  /\ UNCHANGED <<now, desc, created, model, reqTime, reqTopic, answered,
                 waitingSince, result>>

(* Mutant: the flag assigned the comparison instead of latched by it. *)
OnConfirmationReceivedAssign(s, m) ==
  /\ ExecutorSpins
  /\ m \in respTopic[s]
  /\ respTopic' = [respTopic EXCEPT ![s] = @ \ {m}]
  /\ received' = [received EXCEPT ![s] = (m = s)]
  /\ UNCHANGED <<now, desc, created, model, reqTime, reqTopic, answered,
                 waitingSince, result>>

(* on_confirmation_received, run by the executor spinning the Model's node *)
(* with message m: latch the flag if m carries the Model's own UUID,      *)
(* otherwise only log a warning.                                          *)
OnConfirmationReceived(s, m) ==
  /\ ExecutorSpins
  /\ m \in respTopic[s]
  /\ respTopic' = [respTopic EXCEPT ![s] = @ \ {m}]
  /\ received' = [received EXCEPT ![s] = IF m = s THEN TRUE ELSE @]
  /\ UNCHANGED <<now, desc, created, model, reqTime, reqTopic, answered,
                 waitingSince, result>>

(* Model::estimate_finish(s, earliest_arrival_time, constraints) with     *)
(* constraints.drain_battery() = db. Unconfirmed: fail on timeout, else   *)
(* extend the state's time by one wait, call request_confirmation(), and  *)
(* check the battery. Confirmed: check the battery and finish now.        *)
(* Mutant: request_confirmation() called before the timeout check, so a  *)
(* timed-out call also refreshes _confirmation_request_time.             *)
EstimateFinishWaitingRequestFirst(t, s, db) ==
  /\ ~received[t]
  /\ reqTopic' = reqTopic \cup {t}
  /\ reqTime' = [reqTime EXCEPT ![t] = now]
  /\ result' = [result EXCEPT ![t] =
                   IF now - reqTime[t] > model[t].timeout
                   THEN Outcome("timeout", s, db, s, FALSE)
                   ELSE BatteryOutcome([s EXCEPT !.time = @ + model[t].wait],
                                       db, model[t].drain, FALSE, s)]

(* Mutant: the waiting branch without its return of the Estimate, falling *)
(* through to the confirmed branch's finalization of the extended state.  *)
EstimateFinishWaitingFallsThrough(t, s, db) ==
  /\ ~received[t]
  /\ IF now - reqTime[t] > model[t].timeout
     THEN /\ result' = [result EXCEPT ![t] = Outcome("timeout", s, db, s, FALSE)]
          /\ UNCHANGED <<reqTopic, reqTime>>
     ELSE /\ reqTopic' = reqTopic \cup {t}
          /\ reqTime' = [reqTime EXCEPT ![t] = now]
          /\ result' = [result EXCEPT ![t] =
                          BatteryOutcome([s EXCEPT !.time = @ + model[t].wait],
                                         db, model[t].drain, TRUE, s)]

EstimateFinishWaiting(t, s, db) ==
  /\ ~received[t]
  /\ IF now - reqTime[t] > model[t].timeout
     THEN /\ result' = [result EXCEPT ![t] = Outcome("timeout", s, db, s, FALSE)]
          /\ UNCHANGED <<reqTopic, reqTime>>
     ELSE /\ reqTopic' = reqTopic \cup {t}
          /\ reqTime' = [reqTime EXCEPT ![t] = now]
          /\ result' = [result EXCEPT ![t] =
                          BatteryOutcome([s EXCEPT !.time = @ + model[t].wait],
                                         db, model[t].drain, FALSE, s)]

(* Mutant: the confirmed branch still adds a wait and reports the event  *)
(* as not finished.                                                      *)
EstimateFinishConfirmedStillWaiting(t, s, db) ==
  /\ received[t]
  /\ result' = [result EXCEPT ![t] = BatteryOutcome([s EXCEPT !.time = @ + model[t].wait],
                                                    db, model[t].drain, FALSE, s)]
  /\ UNCHANGED <<reqTopic, reqTime>>

EstimateFinishConfirmed(t, s, db) ==
  /\ received[t]
  /\ result' = [result EXCEPT ![t] = BatteryOutcome(s, db, model[t].drain, TRUE, s)]
  /\ UNCHANGED <<reqTopic, reqTime>>

EstimateFinish(t, s, db) ==
  /\ t \in created
  /\ s \in Inputs(t)
  /\ \/ EstimateFinishWaiting(t, s, db)
     \/ EstimateFinishConfirmed(t, s, db)
  /\ UNCHANGED <<now, desc, created, model, received, respTopic, answered,
                 waitingSince>>

(* The planner calls estimate_finish on Model t with one of its inputs. *)
Poll(t) == \E s \in Inputs(t), db \in BOOLEAN : EstimateFinish(t, s, db)

Next ==
  \/ Tick
  \/ \E d \in Durations : SetInitialWaitDuration(d) \/ SetTimeoutDuration(d)
  \/ \E t \in Tokens, s0 \in InitStates : MakeModel(t, s0)
  \/ \E t \in Tokens : Respond(t) \/ LoseRequest(t)
  \/ \E s, m \in Tokens : LoseResponse(s, m) \/ OnConfirmationReceived(s, m)
  \/ \E t \in Tokens : Poll(t)

(* Fairness the code does not give but the spec's progress claim needs:   *)
(* the clock runs, the scheduler keeps polling each Model (spec section 5 *)
(* leaves re-polling to the caller), and a message republished again and *)
(* again is eventually answered and delivered. The spec is checked under  *)
(* these generous assumptions only to show that, with make_model's node  *)
(* never spun (ExecutorSpins = FALSE), even they do not bring a decision. *)
Fairness ==
  /\ WF_vars(Tick)
  /\ \A t \in Tokens : WF_vars(Poll(t))
  /\ \A t \in Tokens : SF_vars(Respond(t))
  /\ \A s, m \in Tokens : SF_vars(OnConfirmationReceived(s, m))

Spec == Init /\ [][Next]_vars /\ Fairness

-----------------------------------------------------------------------------
(* Every variable holds a value of its type. *)
TypeOK ==
  /\ now \in 0..MaxTime
  /\ desc \in DescriptionImplementation
  /\ created \subseteq Tokens
  /\ model \in [Tokens -> ModelMembers]
  /\ received \in [Tokens -> BOOLEAN]
  /\ reqTime \in [Tokens -> 0..MaxTime]
  /\ reqTopic \subseteq Tokens
  /\ respTopic \in [Tokens -> SUBSET Tokens]
  /\ answered \subseteq Tokens
  /\ waitingSince \in [Tokens -> 0..MaxTime]
  /\ result \in [Tokens -> Result]

-----------------------------------------------------------------------------
(* Token correlation: a Model's _confirmation_received is latched only     *)
(* after the responder echoed that Model's own UUID, whatever the other    *)
(* live Models, which share both topics, are sent (on_confirmation_received *)
(* compares the message with _task_uuid).                                  *)
ConfirmationCorrelated ==
  \A t \in Tokens : received[t] => t \in answered

(* ConfirmationCorrelated made inductive: every message queued at any    *)
(* subscription is a UUID the responder has echoed, and only constructed *)
(* Models' UUIDs are requested or echoed.                                *)
CorrelationInv ==
  /\ TypeOK
  /\ reqTopic \subseteq created
  /\ answered \subseteq created
  /\ \A s \in Tokens : respTopic[s] \subseteq answered
  /\ ConfirmationCorrelated

(* The latch: once on_confirmation_received has set                         *)
(* _confirmation_received, no later message or call clears it.            *)
LatchNeverResets ==
  [][\A t \in Tokens : received[t] => received'[t]]_vars

(* Rejection after a timeout is final: once estimate_finish has failed on   *)
(* the timeout, every later call fails on it again until a confirmation    *)
(* arrives, since the timeout branch does not refresh                     *)
(* _confirmation_request_time.                                            *)
TimeoutSticks ==
  [][\A t \in Tokens :
       result[t].kind = "timeout" /\ ~received'[t] =>
         result'[t].kind = "timeout"]_vars

(* Over any chain of estimate_finish calls, an Estimate never leaves the   *)
(* battery at or below constraints.threshold_soc(): the drain is applied   *)
(* before the threshold is checked.                                       *)
EstimateAboveThreshold ==
  \A t \in Tokens : result[t].kind = "estimate" => result[t].state.soc > Threshold

(* The event's main safety promise: estimate_finish reports the event     *)
(* finished only for a Model that has latched a confirmation of its own   *)
(* UUID, echoed by the responder; neither a foreign echo on the shared     *)
(* topic nor an unconfirmed call ends the wait.                           *)
FinishedOnlyWhenEchoed ==
  \A t \in Tokens :
    result[t].kind = "estimate" /\ result[t].finished => received[t] /\ t \in answered

(* The always-advance Model of WaitForConfirmation.cpp, read with this    *)
(* module's constants and Model members.                                   *)
Basic == INSTANCE WaitForConfirmationBasic WITH Models <- Tokens

(* The two copies of the event agree: an unconfirmed live Model that has  *)
(* not timed out computes, for every input the planner may pass it, the   *)
(* same outcome as WaitForConfirmation.cpp's estimate_finish (extend by   *)
(* the wait, drain, check the threshold), finished flag aside.            *)
WaitingMatchesBasic ==
  \A t \in created, db \in BOOLEAN : \A s \in Inputs(t) :
    LET r == BatteryOutcome([s EXCEPT !.time = @ + model[t].wait], db,
                            model[t].drain, FALSE, s)
    IN  Basic!Estimate(t, s, db) =
          [kind |-> r.kind, in |-> r.in, drain_battery |-> r.drain_battery,
           state |-> r.state]

(* Spec section 4.2: a polled Model is eventually confirmed or observed to *)
(* time out, though requests and responses may be lost, since each call of *)
(* estimate_finish while waiting publishes the request again.             *)
ConfirmationEventuallyDecided ==
  \A t \in Tokens :
    t \in created ~> (received[t] \/ result[t].kind = "timeout")
-----------------------------------------------------------------------------
(* Refinement mapping onto the event's promise (ConfirmationLatch): an    *)
(* unmade UUID is idle, a latched one confirmed, an unlatched one whose    *)
(* last estimate_finish failed on the timeout timed out, any other one     *)
(* waiting; the verdict is read off the last Result.                      *)
LatchStatus(t) ==
  IF t \notin created THEN "idle"
  ELSE IF received[t] THEN "confirmed"
  ELSE IF result[t].kind = "timeout" THEN "timed_out"
  ELSE "waiting"

Verdict(t) ==
  IF result[t].kind = "none" THEN "none"
  ELSE IF result[t].kind = "estimate"
       THEN IF result[t].finished THEN "finished" ELSE "extended"
  ELSE IF result[t].kind = "timeout" THEN "failed"
  ELSE "rejected"

Latch == INSTANCE ConfirmationLatch
           WITH status <- [t \in Tokens |-> LatchStatus(t)],
                echoed <- answered,
                last <- [t \in Tokens |-> Verdict(t)]

(* A Model seen to time out and still unconfirmed is still past its       *)
(* timeout: the clock only advances, and the timeout branch of            *)
(* estimate_finish returns before request_confirmation() can refresh      *)
(* _confirmation_request_time.                                            *)
TimeoutPersists ==
  \A t \in Tokens :
    result[t].kind = "timeout" /\ ~received[t] => now - reqTime[t] > model[t].timeout

(* The strengthening under which the refinement is proved: correlation, a *)
(* UUID not yet made has no result, and a timeout persists.               *)
RefinementInv ==
  /\ CorrelationInv
  /\ \A t \in Tokens \ created : result[t] = NoResult
  /\ TimeoutPersists

(* The live Model implements the header's promise: it confirms only on an *)
(* echo of its own request and never unconfirms, it extends the wait only *)
(* while waiting and finishes only once confirmed, and after a timeout    *)
(* every estimate_finish fails until the confirmation arrives.            *)
LatchRefinement == Latch!Spec

-----------------------------------------------------------------------------
(* The properties below are what spec.md promises; TLC finds the code      *)
(* breaking each of them.                                                 *)

(* Spec Scenario 1: the wait is bounded by timeout_duration, so an        *)
(* estimate_finish call made more than timeout_duration after the first   *)
(* request fails. (For a waiting Estimate, reqTime is its call's time.)   *)
TotalWaitWithinTimeout ==
  \A t \in Tokens :
    result[t].kind = "estimate" /\ ~result[t].finished =>
      reqTime[t] - waitingSince[t] <= model[t].timeout

(* Spec section 8: with drain_battery() false, estimate_finish never      *)
(* rejects on battery grounds, whatever the SOC.                          *)
NoBatteryRejectionWithoutDrain ==
  \A t \in Tokens :
    result[t].kind \in {"below_threshold", "depleted"} => result[t].drain_battery

(* Spec section 7: a negative configured duration is normalised to zero, *)
(* so waiting never moves the state's time backwards.                    *)
WaitNeverRewindsTime ==
  \A t \in Tokens :
    result[t].kind = "estimate" => result[t].state.time >= result[t].in.time

(* Spec section 7: a negative timeout_duration is normalised to zero, so   *)
(* estimate_finish fails on the timeout only when the time elapsed since   *)
(* the last request exceeds the normalised timeout (a call made at the     *)
(* moment of the request never fails).                                     *)
TimeoutNeverEarly ==
  \A t \in Tokens :
    result[t].kind = "timeout" =>
      now - reqTime[t] > (IF model[t].timeout < 0 THEN 0 ELSE model[t].timeout)

(* Spec section 3: an unset battery SOC means the battery is not tracked; *)
(* estimate_finish still answers.                                         *)
UntrackedBatteryNeverThrows ==
  \A t \in Tokens : result[t].kind # "throw"
=============================================================================
