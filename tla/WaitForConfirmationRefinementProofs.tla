----------------- MODULE WaitForConfirmationRefinementProofs -----------------
(***************************************************************************)
(* Proofs that the live WaitForConfirmation Model keeps its timeout once  *)
(* observed and implements the event's promise, ConfirmationLatch, under  *)
(* the refinement mapping LatchStatus / Verdict, for every value of the   *)
(* constants.                                                             *)
(***************************************************************************)
EXTENDS WaitForConfirmationProofs

USE ConstantsAssumption

(* A step of estimate_finish on Model t touches no other Model's latch,   *)
(* result or construction, nor the responder's history.                   *)
LEMMA PollFrame ==
  ASSUME TypeOK, NEW t \in Tokens, NEW s, NEW db, EstimateFinish(t, s, db)
  PROVE  /\ t \in created
         /\ UNCHANGED <<now, model, created, received, answered>>
         /\ \A u \in Tokens \ {t} : result'[u] = result[u]
         /\ \A u \in Tokens \ {t} : reqTime'[u] = reqTime[u]
  BY DEF EstimateFinish, EstimateFinishWaiting, EstimateFinishConfirmed, TypeOK

(* One step keeps a UUID that is not constructed free of results: only   *)
(* estimate_finish writes a Result, and only for a constructed Model.     *)
LEMMA UnmadeStep ==
  ASSUME TypeOK, [Next]_vars, \A t \in Tokens \ created : result[t] = NoResult
  PROVE  \A t \in Tokens \ created' : result'[t] = NoResult
<1>1. CASE \E t \in Tokens : Poll(t)
  <2>1. PICK t \in Tokens : Poll(t)
    BY <1>1
  <2>2. PICK s \in Inputs(t), db \in BOOLEAN : EstimateFinish(t, s, db)
    BY <2>1 DEF Poll
  <2>3. QED
    BY <2>2, PollFrame
<1>2. CASE ~\E t \in Tokens : Poll(t)
  <2>1. UNCHANGED result /\ created \subseteq created'
    BY <1>2 DEF Next, Tick, SetInitialWaitDuration, SetTimeoutDuration, MakeModel,
                Respond, LoseRequest, LoseResponse, OnConfirmationReceived, vars
  <2>2. QED
    BY <2>1
<1>3. QED
  BY <1>1, <1>2

(* One step keeps an observed timeout in force for an unconfirmed Model:  *)
(* the clock only advances, the callback only sets the latch, and a       *)
(* timed-out call of estimate_finish neither republishes nor refreshes    *)
(* _confirmation_request_time.                                           *)
LEMMA TimeoutStep ==
  ASSUME TypeOK, TypeOK', [Next]_vars, TimeoutPersists,
         \A t \in Tokens \ created : result[t] = NoResult
  PROVE  TimeoutPersists'
<1> SUFFICES ASSUME NEW u \in Tokens, result'[u].kind = "timeout", ~received'[u]
             PROVE  now' - reqTime'[u] > model'[u].timeout
  BY DEF TimeoutPersists
<1>1. /\ now \in Int /\ reqTime[u] \in Int /\ model[u].timeout \in Int
      /\ now' \in Int /\ reqTime'[u] \in Int /\ model'[u].timeout \in Int
  BY DEF TypeOK, ModelMembers
<1>2. CASE Tick
  BY <1>1, <1>2 DEF Tick, TimeoutPersists
<1>3. ASSUME NEW t \in Tokens, Poll(t)
      PROVE  now' - reqTime'[u] > model'[u].timeout
  <2>1. PICK s \in Inputs(t), db \in BOOLEAN : EstimateFinish(t, s, db)
    BY <1>3 DEF Poll
  <2>2. CASE u # t
    BY <2>1, <2>2, PollFrame DEF TimeoutPersists
  <2>3. CASE u = t /\ EstimateFinishConfirmed(t, s, db)
    BY <2>1, <2>3, PollFrame DEF EstimateFinishConfirmed
  <2>4. CASE u = t /\ EstimateFinishWaiting(t, s, db)
                   /\ now - reqTime[t] > model[t].timeout
    BY <2>1, <2>4, PollFrame DEF EstimateFinishWaiting
  <2>5. CASE u = t /\ EstimateFinishWaiting(t, s, db)
                   /\ ~(now - reqTime[t] > model[t].timeout)
    <3>1. result'[t] = BatteryOutcome([s EXCEPT !.time = s.time + model[t].wait],
                                      db, model[t].drain, FALSE, s)
      BY <2>5 DEF EstimateFinishWaiting, TypeOK
    <3>2. result'[t].kind # "timeout"
      BY <3>1 DEF BatteryOutcome, Outcome
    <3>3. QED
      BY <2>5, <3>2
  <2>6. QED
    BY <2>1, <2>2, <2>3, <2>4, <2>5 DEF EstimateFinish
<1>4. ASSUME NEW t \in Tokens, NEW s0 \in InitStates, MakeModel(t, s0)
      PROVE  now' - reqTime'[u] > model'[u].timeout
  <2>1. CASE u = t
    BY <1>4, <2>1 DEF MakeModel, NoResult
  <2>2. CASE u # t
    BY <1>4, <2>2 DEF MakeModel, TimeoutPersists, TypeOK
  <2>3. QED
    BY <2>1, <2>2
<1>5. ASSUME NEW s \in Tokens, NEW m \in Tokens, OnConfirmationReceived(s, m)
      PROVE  now' - reqTime'[u] > model'[u].timeout
  <2>1. ~received[u]
    BY <1>5 DEF OnConfirmationReceived, TypeOK
  <2>2. QED
    BY <1>5, <2>1 DEF OnConfirmationReceived, TimeoutPersists
<1>6. CASE \/ \E d \in Durations : SetInitialWaitDuration(d) \/ SetTimeoutDuration(d)
           \/ \E t \in Tokens : Respond(t) \/ LoseRequest(t)
           \/ \E s, m \in Tokens : LoseResponse(s, m)
           \/ UNCHANGED vars
  BY <1>6 DEF SetInitialWaitDuration, SetTimeoutDuration, Respond, LoseRequest,
              LoseResponse, vars, TimeoutPersists
<1>7. QED
  BY <1>2, <1>3, <1>4, <1>5, <1>6 DEF Next

(* The strengthening used by the refinement is inductive. *)
LEMMA RefinementStep == RefinementInv /\ [Next]_vars => RefinementInv'
<1> SUFFICES ASSUME RefinementInv, [Next]_vars PROVE RefinementInv'
  OBVIOUS
<1>1. CorrelationInv'
  BY CorrelationStep DEF RefinementInv
<1>2. TypeOK /\ TypeOK'
  BY <1>1 DEF RefinementInv, CorrelationInv
<1>3. \A t \in Tokens \ created' : result'[t] = NoResult
  BY <1>2, UnmadeStep DEF RefinementInv
<1>4. TimeoutPersists'
  BY <1>2, TimeoutStep DEF RefinementInv
<1>5. QED
  BY <1>1, <1>3, <1>4 DEF RefinementInv

(* Every reachable state satisfies the strengthening. *)
THEOREM RefinementInvariant == Spec => []RefinementInv
<1>1. Init => RefinementInv
  BY DefaultStateType
     DEF Init, RefinementInv, CorrelationInv, ConfirmationCorrelated, TimeoutPersists,
         TypeOK, ModelMembers, DescriptionImplementation, NoResult, Result, Outcomes
<1>2. QED
  BY <1>1, RefinementStep, PTL DEF Spec
-----------------------------------------------------------------------------
(* A step that changes no construction, latch, result or echo is a        *)
(* stuttering step of the promise.                                        *)
LEMMA MappingFrame ==
  ASSUME UNCHANGED <<created, received, result, answered>>
  PROVE  UNCHANGED Latch!vars
  BY DEF Latch!vars, LatchStatus, Verdict

(* A step that changes only Model t's result leaves every other Model's  *)
(* status and verdict as they were.                                      *)
LEMMA MappingOthers ==
  ASSUME NEW t \in Tokens,
         UNCHANGED <<created, received, answered>>,
         \A u \in Tokens \ {t} : result'[u] = result[u]
  PROVE  \A u \in Tokens \ {t} : /\ LatchStatus(u)' = LatchStatus(u)
                                 /\ Verdict(u)' = Verdict(u)
  BY DEF LatchStatus, Verdict

(* MakeModel is the promise's Make: the new Model starts waiting. *)
LEMMA MakeSim ==
  ASSUME RefinementInv, NEW t \in Tokens, NEW s0 \in InitStates, MakeModel(t, s0)
  PROVE  Latch!Make(t)
<1>1. /\ t \notin created /\ t \in created'
      /\ received'[t] = FALSE
      /\ result[t] = NoResult
      /\ UNCHANGED <<result, answered>>
  BY DEF MakeModel, RefinementInv, CorrelationInv, TypeOK
<1>2. LatchStatus(t) = "idle"
  BY <1>1 DEF LatchStatus
<1>6. result'[t].kind = "none"
  BY <1>1 DEF NoResult
<1>7. LatchStatus(t)' = "waiting"
  BY <1>1, <1>6 DEF LatchStatus
<1>3. \A u \in Tokens \ {t} : LatchStatus(u)' = LatchStatus(u)
  BY DEF MakeModel, LatchStatus, RefinementInv, CorrelationInv, TypeOK
<1>4. \A u \in Tokens : Verdict(u)' = Verdict(u)
  BY <1>1 DEF Verdict
<1>5. QED
  BY <1>1, <1>2, <1>7, <1>3, <1>4 DEF Latch!Make

(* The responder's echo is the promise's Echo of a made Model. *)
LEMMA RespondSim ==
  ASSUME RefinementInv, NEW t \in Tokens, Respond(t)
  PROVE  Latch!Echo(t)
<1>1. t \in created
  BY DEF Respond, RefinementInv, CorrelationInv
<1>2. UNCHANGED <<created, received, result>> /\ answered' = answered \cup {t}
  BY DEF Respond
<1>3. LatchStatus(t) # "idle"
  BY <1>1 DEF LatchStatus
<1>4. \A u \in Tokens : LatchStatus(u)' = LatchStatus(u) /\ Verdict(u)' = Verdict(u)
  BY <1>2 DEF LatchStatus, Verdict
<1>5. QED
  BY <1>2, <1>3, <1>4 DEF Latch!Echo

(* The callback either latches a Model on its own echoed UUID, which is  *)
(* the promise's Confirm, or changes nothing the promise sees.           *)
LEMMA CallbackSim ==
  ASSUME RefinementInv, NEW s \in Tokens, NEW m \in Tokens, OnConfirmationReceived(s, m)
  PROVE  [Latch!Next]_Latch!vars
<1>1. UNCHANGED <<created, result, answered>>
  BY DEF OnConfirmationReceived
<1>2. CASE m = s /\ ~received[s]
  <2>1. s \in answered /\ s \in created
    BY <1>2 DEF OnConfirmationReceived, RefinementInv, CorrelationInv
  <2>6. received'[s] = TRUE
    BY <1>2 DEF OnConfirmationReceived, RefinementInv, CorrelationInv, TypeOK
  <2>7. LatchStatus(s) \in {"waiting", "timed_out"}
    BY <1>2, <2>1 DEF LatchStatus
  <2>2. LatchStatus(s)' = "confirmed"
    BY <1>1, <2>1, <2>6 DEF LatchStatus
  <2>3. \A u \in Tokens \ {s} : LatchStatus(u)' = LatchStatus(u)
    BY <1>1 DEF OnConfirmationReceived, LatchStatus, RefinementInv, CorrelationInv, TypeOK
  <2>4. \A u \in Tokens : Verdict(u)' = Verdict(u)
    BY <1>1 DEF Verdict
  <2>5. Latch!Confirm(s)
    BY <1>1, <2>1, <2>7, <2>2, <2>3, <2>4 DEF Latch!Confirm
  <2>8. QED
    BY <2>5 DEF Latch!Next
<1>3. CASE ~(m = s /\ ~received[s])
  <2>1. UNCHANGED received
    BY <1>3 DEF OnConfirmationReceived, RefinementInv, CorrelationInv, TypeOK
  <2>2. QED
    BY <1>1, <2>1, MappingFrame
<1>4. QED
  BY <1>2, <1>3

(* A call of estimate_finish is the promise's Finish or Reject when the   *)
(* Model is confirmed, its Fail when the wait is past the timeout, and    *)
(* its Extend or Reject otherwise; the last needs TimeoutPersists, since  *)
(* a Model seen to time out must not be extended again.                  *)
LEMMA PollSim ==
  ASSUME RefinementInv, NEW t \in Tokens, Poll(t)
  PROVE  [Latch!Next]_Latch!vars
<1>1. PICK s \in Inputs(t), db \in BOOLEAN : EstimateFinish(t, s, db)
  BY DEF Poll
<1>2. TypeOK
  BY DEF RefinementInv, CorrelationInv
<1>3. /\ t \in created
      /\ UNCHANGED <<created, received, answered>>
      /\ \A u \in Tokens \ {t} : LatchStatus(u)' = LatchStatus(u) /\ Verdict(u)' = Verdict(u)
  BY <1>1, <1>2, PollFrame, MappingOthers
<1>4. CASE EstimateFinishConfirmed(t, s, db)
  <2> DEFINE r == BatteryOutcome(s, db, model[t].drain, TRUE, s)
  <2>1. result'[t] = r /\ received[t]
    BY <1>2, <1>4 DEF EstimateFinishConfirmed, TypeOK
  <2>2. r.finished = TRUE
         /\ r.kind \in {"estimate", "throw", "depleted", "below_threshold"}
    BY DEF BatteryOutcome, Outcome
  <2>3. LatchStatus(t) = "confirmed" /\ LatchStatus(t)' = "confirmed"
    BY <1>3, <2>1 DEF LatchStatus
  <2>4. CASE r.kind = "estimate"
    <3>1. Verdict(t)' = "finished"
      BY <2>1, <2>2, <2>4 DEF Verdict
    <3>2. Latch!Finish(t)
      BY <1>3, <2>3, <3>1 DEF Latch!Finish
    <3>3. QED
      BY <3>2 DEF Latch!Next
  <2>5. CASE r.kind # "estimate"
    <3>1. Verdict(t)' = "rejected"
      BY <2>1, <2>2, <2>5 DEF Verdict
    <3>2. Latch!Reject(t)
      BY <1>3, <2>3, <3>1 DEF Latch!Reject
    <3>3. QED
      BY <3>2 DEF Latch!Next
  <2>6. QED
    BY <2>4, <2>5
<1>5. CASE EstimateFinishWaiting(t, s, db) /\ now - reqTime[t] > model[t].timeout
  <2>1. result'[t] = Outcome("timeout", s, db, s, FALSE) /\ ~received[t]
    BY <1>2, <1>5 DEF EstimateFinishWaiting, TypeOK
  <2>2. LatchStatus(t) \in {"waiting", "timed_out"} /\ LatchStatus(t)' = "timed_out"
    BY <1>3, <2>1 DEF LatchStatus, Outcome
  <2>3. Verdict(t)' = "failed"
    BY <2>1 DEF Verdict, Outcome
  <2>4. Latch!Fail(t)
    BY <1>3, <2>2, <2>3 DEF Latch!Fail
  <2>5. QED
    BY <2>4 DEF Latch!Next
<1>6. CASE EstimateFinishWaiting(t, s, db) /\ ~(now - reqTime[t] > model[t].timeout)
  <2> DEFINE r == BatteryOutcome([s EXCEPT !.time = s.time + model[t].wait],
                                 db, model[t].drain, FALSE, s)
  <2>1. result'[t] = r /\ ~received[t]
    BY <1>2, <1>6 DEF EstimateFinishWaiting, TypeOK
  <2>2. r.finished = FALSE
         /\ r.kind \in {"estimate", "throw", "depleted", "below_threshold"}
    BY DEF BatteryOutcome, Outcome
  <2>3. result[t].kind # "timeout"
    BY <1>6, <2>1 DEF RefinementInv, TimeoutPersists
  <2>4. LatchStatus(t) = "waiting" /\ LatchStatus(t)' = "waiting"
    BY <1>3, <2>1, <2>2, <2>3 DEF LatchStatus
  <2>5. CASE r.kind = "estimate"
    <3>1. Verdict(t)' = "extended"
      BY <2>1, <2>2, <2>5 DEF Verdict
    <3>2. Latch!Extend(t)
      BY <1>3, <2>4, <3>1 DEF Latch!Extend
    <3>3. QED
      BY <3>2 DEF Latch!Next
  <2>6. CASE r.kind # "estimate"
    <3>1. Verdict(t)' = "rejected"
      BY <2>1, <2>2, <2>6 DEF Verdict
    <3>2. Latch!Reject(t)
      BY <1>3, <2>4, <3>1 DEF Latch!Reject
    <3>3. QED
      BY <3>2 DEF Latch!Next
  <2>7. QED
    BY <2>5, <2>6
<1>7. QED
  BY <1>1, <1>4, <1>5, <1>6 DEF EstimateFinish

(* Every step of the live Model, under the strengthening, is a step of    *)
(* the promise or leaves what the promise sees unchanged.                 *)
LEMMA SimStep == RefinementInv /\ [Next]_vars => [Latch!Next]_Latch!vars
<1> SUFFICES ASSUME RefinementInv, [Next]_vars PROVE [Latch!Next]_Latch!vars
  OBVIOUS
<1>1. ASSUME NEW t \in Tokens, NEW s0 \in InitStates, MakeModel(t, s0)
      PROVE  [Latch!Next]_Latch!vars
  BY <1>1, MakeSim DEF Latch!Next
<1>2. ASSUME NEW t \in Tokens, Respond(t)
      PROVE  [Latch!Next]_Latch!vars
  BY <1>2, RespondSim DEF Latch!Next
<1>3. ASSUME NEW s \in Tokens, NEW m \in Tokens, OnConfirmationReceived(s, m)
      PROVE  [Latch!Next]_Latch!vars
  BY <1>3, CallbackSim
<1>4. ASSUME NEW t \in Tokens, Poll(t)
      PROVE  [Latch!Next]_Latch!vars
  BY <1>4, PollSim
<1>5. CASE \/ Tick
           \/ \E d \in Durations : SetInitialWaitDuration(d) \/ SetTimeoutDuration(d)
           \/ \E t \in Tokens : LoseRequest(t)
           \/ \E s, m \in Tokens : LoseResponse(s, m)
           \/ UNCHANGED vars
  <2>1. UNCHANGED <<created, received, result, answered>>
    BY <1>5 DEF Tick, SetInitialWaitDuration, SetTimeoutDuration, LoseRequest,
                LoseResponse, vars
  <2>2. QED
    BY <2>1, MappingFrame
<1>6. QED
  BY <1>1, <1>2, <1>3, <1>4, <1>5 DEF Next

(* The live Model implements the promise of the header's class comment:  *)
(* confirmation only by its own echoed UUID and never withdrawn, the     *)
(* wait extended only while waiting, the event finished only once        *)
(* confirmed, and a timeout final until a confirmation arrives.          *)
THEOREM Refinement == Spec => LatchRefinement
<1>1. Init => Latch!Init
  BY DEF Init, Latch!Init, LatchStatus, Verdict, NoResult
<1>2. QED
  BY <1>1, SimStep, RefinementInvariant, PTL DEF Spec, LatchRefinement, Latch!Spec

(* Rejection after a timeout is final: a later call of estimate_finish   *)
(* on an unconfirmed Model fails on the timeout again, because the       *)
(* timeout branch does not refresh _confirmation_request_time.           *)
LEMMA TimeoutSticksStep ==
  ASSUME RefinementInv, [Next]_vars, NEW t \in Tokens,
         result[t].kind = "timeout", ~received'[t]
  PROVE  result'[t].kind = "timeout"
<1>1. ~received[t]
  BY LatchStep DEF RefinementInv
<1>2. now - reqTime[t] > model[t].timeout
  BY <1>1 DEF RefinementInv, TimeoutPersists
<1>3. TypeOK
  BY DEF RefinementInv, CorrelationInv
<1>4. CASE Poll(t)
  <2>1. PICK s \in Inputs(t), db \in BOOLEAN : EstimateFinish(t, s, db)
    BY <1>4 DEF Poll
  <2>2. EstimateFinishWaiting(t, s, db)
    BY <1>1, <2>1 DEF EstimateFinish, EstimateFinishConfirmed
  <2>3. QED
    BY <1>2, <1>3, <2>2 DEF EstimateFinishWaiting, Outcome, TypeOK
<1>5. ASSUME NEW u \in Tokens \ {t}, Poll(u)
      PROVE  result'[t].kind = "timeout"
  <2>1. PICK s \in Inputs(u), db \in BOOLEAN : EstimateFinish(u, s, db)
    BY <1>5 DEF Poll
  <2>2. QED
    BY <1>3, <2>1, PollFrame
<1>6. CASE ~\E u \in Tokens : Poll(u)
  <2>1. UNCHANGED result
    BY <1>6 DEF Next, Tick, SetInitialWaitDuration, SetTimeoutDuration, MakeModel,
                Respond, LoseRequest, LoseResponse, OnConfirmationReceived, vars
  <2>2. QED
    BY <2>1
<1>7. QED
  BY <1>4, <1>5, <1>6

(* Once estimate_finish has failed on the timeout, every later call fails *)
(* on it too until the confirmation is latched.                           *)
THEOREM TimeoutFinal == Spec => TimeoutSticks
<1>1. RefinementInv /\ [Next]_vars =>
        [\A t \in Tokens : result[t].kind = "timeout" /\ ~received'[t] =>
                             result'[t].kind = "timeout"]_vars
  BY TimeoutSticksStep
<1>2. QED
  BY <1>1, RefinementInvariant, PTL DEF Spec, TimeoutSticks

(* The live event reports finished only for a Model that latched its own  *)
(* UUID after the responder echoed it: the promise's LatchInv, proved     *)
(* once for ConfirmationLatch, read back through the refinement mapping.  *)
THEOREM EchoedBeforeFinish == Spec => []FinishedOnlyWhenEchoed
<1>1. Latch!LatchInv => FinishedOnlyWhenEchoed
  <2> SUFFICES ASSUME Latch!LatchInv, NEW t \in Tokens,
                      result[t].kind = "estimate", result[t].finished
               PROVE  received[t] /\ t \in answered
    BY DEF FinishedOnlyWhenEchoed
  <2>1. Verdict(t) = "finished"
    BY DEF Verdict
  <2>2. LatchStatus(t) = "confirmed" /\ t \in answered
    BY <2>1 DEF Latch!LatchInv
  <2>3. QED
    BY <2>2 DEF LatchStatus
<1>2. Latch!Spec => [](Latch!TypeOK /\ Latch!LatchInv)
  BY Latch!LatchSafe
<1>3. QED
  BY <1>1, <1>2, Refinement, PTL DEF LatchRefinement

=============================================================================
