# Formal model of the WaitForConfirmation event (rmf_task_sequence)

This directory holds TLA+ models of the `WaitForConfirmation` event, TLC
configurations that check them on small instances, and TLAPS proofs that hold
for every value of the constants.

## 1. The system

There are two implementations of the same event class:

* **Live variant**, `src/unnamed/part_000`. A `Model` talks to an external
  confirmer over ROS 2.
* **Always-advance variant**,
  `src/rmf_task_sequence/src/rmf_task_sequence/events/WaitForConfirmation.cpp`.
  Each `estimate_finish` adds one wait. This variant holds no confirmation
  state.

### Components, their state and their operations

| Component | State | Operations (source lines in part_000 / .cpp) |
|---|---|---|
| Event template `Description` | `initial_wait_duration`, `timeout_duration` (pimpl) | `make` + ctor (254-269 / 62-73), the setters (281-295 / 88-101), `make_model` (297-310 / 104-110), `generate_header` (312-320 / 113-121) |
| Live estimator `Model` | `_invariant_finish_state`, `_invariant_battery_drain`, both durations, `_confirmation_received` (mutable), `_confirmation_request_time` (mutable), `_task_uuid`, node, publisher, subscription | ctor (66-105), `request_confirmation` (120-129), `on_confirmation_received` (133-144), `estimate_finish` (148-221), `invariant_duration` (225-231) |
| Always-advance estimator `Model` | the first four members above | ctor (124-147), `estimate_finish` (150-173), `invariant_duration` (176-179) |
| Correlation channel | the topics `/request_confirmation` and `/confirmation_received`, with QoS depth 10 | publish (124), subscription callback (98-101) |
| Battery evaluator | none (it is a pure function) | `ambient_sink()->compute_change_in_charge` (85-87). A negative wait is clamped first (82-83). |
| Scheduler (not under src/) | candidate states | calls `make_model`, `estimate_finish` and `invariant_duration` |

### How the components interact

The scheduler owns a `Description`. Its `make_model` builds a `Model`, and
building a live `Model` has side effects. It creates a fresh `rclcpp::Node`,
a publisher and a subscription, and then publishes the `Model`'s UUID.

The scheduler then calls `estimate_finish` repeatedly. While the `Model` is
unconfirmed, each call does the following, in this order:

1. It checks the timeout against `_confirmation_request_time`.
2. It adds one wait to the state's time.
3. It republishes the UUID and resets `_confirmation_request_time`.
4. It drains the battery and checks the threshold.

An external responder echoes UUIDs on `/confirmation_received`. Every
`Model`'s subscription receives every echo. The callback latches
`_confirmation_received` only if the echo carries the `Model`'s own UUID. The
callback would run on an executor thread, unsynchronised with the planner,
but only if the node were spun: `make_model` never spins it (Finding 5), so
in the shipped code the callback never runs and `_confirmation_received`
stays false. The constant `ExecutorSpins` chooses between the two; the
passing runs set it to `TRUE`, which only adds behaviours (callbacks
interleaved anywhere), so every safety property they show holds a fortiori
of the shipped code, and the extra behaviours are what a caller that spins
the node would get.

### What is hard to test

* **Interleavings.** The callback and the planner interleave, and several
  `Model`s share one topic pair.
* **Lost messages.** The first request can be published before anyone
  subscribes.
* **Retries that reset the timeout.** Each republish resets the clock the
  timeout is measured from.
* **Order of steps inside a call.** The request is republished before the
  battery check, so a call that fails on the battery still counts as a request.
* **Numeric edges.** Durations can be negative. The battery can be drained
  step by step down to the threshold. The SOC can be unset.

`PROJECT.json` lists each hazard at the line where it bites.

### Properties that make each component correct

* **Channel and live estimator.** A `Model` is confirmed only by its own
  UUID. The event reports finished only for a `Model` whose own UUID was
  echoed and latched. The latch never resets. A timeout is final. A polled `Model` is
  eventually confirmed or observed to time out.
* **Both estimators.** An `Estimate` never leaves the battery at or below the
  threshold. The live waiting branch computes exactly what the
  always-advance `estimate_finish` computes (`WaitingMatchesBasic`).
* **Scheduler.** A bound read from `invariant_duration()` before an
  estimate that extends the wait equals the extension.
* **Spec promises the code breaks** (see Findings):
  * the wait is bounded by the timeout;
  * with `drain_battery()` false, a call is never rejected on battery grounds;
  * a negative duration is treated as zero;
  * an unset SOC means the battery is not tracked.

## 2. Modules

| Module | Models |
|---|---|
| `WaitForConfirmation.tla` | The live variant: the `Description`, any number of `Model`s (`Tokens`), the steady clock, both topics with loss, the responder, the callback and `estimate_finish`. |
| `WaitForConfirmationProofs.tla` | TLAPS proofs about `WaitForConfirmation`. |
| `WaitForConfirmationRefinementProofs.tla` | TLAPS proof that the live module implements `ConfirmationLatch`, and of `TimeoutSticks`. |
| `WaitForConfirmationBasic.tla` | The always-advance variant. |
| `WaitForConfirmationBasicProofs.tla` | TLAPS proofs about the always-advance variant. |
| `ConfirmationLatch.tla` | The abstract promise of the header's class comment (`.hpp` 20-38): per event instance, idle → waiting → confirmed (absorbing) or timed_out, with the verdict each status allows; and the proof of its invariant `LatchInv`. |
| `WaitForConfirmationPlanner.tla` | The live module composed with a scheduler that reads `invariant_duration()` (`planned`) and then calls `estimate_finish` (`bound` records the bound in force). |
| `WaitForConfirmationPlannerProofs.tla` | TLAPS proof that the bound the scheduler reads is exactly the extension of an unconfirmed estimate. |
| `MCWaitForConfirmation.tla`, `MCWaitForConfirmationBasic.tla`, `MCWaitForConfirmationPlanner.tla` | The model values and small sets for TLC. |

### Data abstraction

* Times and durations are integer ticks.
* SOC is an integer count of SOC units.
* A task `State` is a record `[time, soc]`. Its `soc` can be the model value
  `NoSoc`, which stands for an unset optional.
* A UUID is a model value, so UUIDs are assumed never to collide.
* `compute_change_in_charge` is linear: `AmbientRate` units per tick.
* The history variables `result`, `answered` and `waitingSince` record what
  the properties talk about. They do not constrain any step.

### Correspondence between actions and code (live module)

| Action | Code |
|---|---|
| `Init` | `Description::make` |
| `SetInitialWaitDuration`, `SetTimeoutDuration` | the two setters |
| `MakeModel(t, s0)` | `make_model`: the constructor, the subscription and `request_confirmation()` |
| `Respond(t)` | the external responder (modelled from spec section 4.3) |
| `LoseRequest`, `LoseResponse` | DDS dropping a message |
| `OnConfirmationReceived(s, m)` | the callback. It is enabled only if `ExecutorSpins`. |
| `Poll(t)` / `EstimateFinish(t, s, db)` | one whole call of `estimate_finish`. `EstimateFinishWaiting` and `EstimateFinishConfirmed` are its two branches. `BatteryOutcome` is the drain and threshold part. |
| `Tick` | the steady clock |

### Refinement mapping

`WaitForConfirmation` instantiates `ConfirmationLatch` with
`status[t]` = idle if `t` is not constructed, confirmed if `received[t]`,
timed_out if the last `Result` was a timeout, else waiting; `echoed` =
`answered`; `last[t]` = the kind of the last `Result` (an unfinished
`Estimate` is "extended", a finished one "finished", a battery failure
"rejected"). `MakeModel` maps to `Make`, `Respond` to `Echo`, a latching
callback to `Confirm`, each branch of `estimate_finish` to `Extend`,
`Finish`, `Fail` or `Reject`, and every other step to a stutter.

If the node is spun (`ExecutorSpins = TRUE`), the callback's write to the
`bool` races with the planner's read. The model makes it one atomic step placed
before or after the read: those are the outcomes a race on a single `bool` can
produce. With the node as `make_model` creates it there is no such race.

## 3. Runs

| Run | cfg | Expect | What it shows |
|---|---|---|---|
| correlation | `MCCorrelation.cfg` | pass | With two `Model`s on the same topics, echoes of one `Model`'s UUID reach the other. Still a `Model` latches only on an echo of its own UUID (`ConfirmationCorrelated`), finishes only after one (`FinishedOnlyWhenEchoed`), and never unlatches (`LatchNeverResets`). |
| estimator | `MCEstimator.cfg` | pass | With one `Model`, lossy topics, chained estimates and durations reset to 2 or -1, these hold: `TypeOK`, `EstimateAboveThreshold`, `TimeoutSticks` and `WaitingMatchesBasic` (the live waiting branch against `Basic!Estimate`, an `INSTANCE` of the always-advance module, on set and unset SOC and on waits 1, 2 and -1). |
| basic | `MCWaitForConfirmationBasic.cfg` | pass | In the always-advance variant, `TypeOK` and `EstimateAboveThreshold` hold. |
| refinement | `MCRefinement.cfg` | pass | Two `Model`s, timeout 0, lossy topics, a marginal battery (SOC 3): `RefinementInv` holds and every step implements `ConfirmationLatch` (`LatchRefinement`), including a confirmation arriving after a timeout. |
| planner | `MCPlanner.cfg` | pass | With a scheduler reading `invariant_duration()` between other steps: an unconfirmed estimate extends the wait by exactly the bound read before it (`UnconfirmedBoundExact`), setter calls in between notwithstanding |
| timeout_refreshed | `MCTimeoutRefreshed.cfg` | violation | `TotalWaitWithinTimeout` fails. |
| threshold_without_drain | `MCThresholdWithoutDrain.cfg` | violation | `NoBatteryRejectionWithoutDrain` fails. |
| negative_wait | `MCNegativeWait.cfg` | violation | `WaitNeverRewindsTime` fails. |
| untracked_battery | `MCUntrackedBattery.cfg` | violation | `UntrackedBatteryNeverThrows` fails. |
| negative_timeout | `MCNegativeTimeout.cfg` | violation | `TimeoutNeverEarly` fails: after `set_timeout_duration(-1)`, a poll at the moment of the request already times out. |
| node_not_spun | `MCNodeNotSpun.cfg` | violation | `ConfirmationEventuallyDecided` fails when `ExecutorSpins = FALSE`. That is how `make_model` creates the node. |

### Bounds

* **Two tokens** are enough for cross-talk: a foreign echo reaches a
  subscription.
* **One token** is enough for the properties of a single estimator.
* **`MaxTime` = 3 with wait 1 and timeout 1.** This lets a `Model` time out
  (elapsed 2 > 1), get polled again after timing out, and build chains of
  three estimates.
* **SOC 4, drain 1, threshold 2.** A chain reaches the threshold on its
  second estimate.
* **Setter durations.** `Durations = {-1, 2}` covers a longer wait and timeout,
  and a negative wait and timeout.
* **Refinement run: `MaxTime` = 1, timeout 0, SOC 3.** Timeout 0 lets a
  `Model` time out after one tick, and then be confirmed late; SOC 3 with
  threshold 2 gives both an accepted and a rejected estimate. Two tokens with
  `MaxTime` 2 exceed 8 million states; this instance has 345,582.
* **Planner run: one token, `MaxTime` = 3, setter duration 2.** Reads, setter
  calls and the callback can fall between the read and the poll.
* **Symmetry.** The correlation run uses symmetry over the tokens. It checks
  safety properties only.

### Fairness

The fairness in `Spec` is not something the code guarantees; it is what the
spec's progress claim (section 4.2: a polled `Model` is eventually confirmed
or times out) would need, and it is used only by the `node_not_spun` run:

* `WF(Tick)`: the clock runs.
* `WF(Poll(t))`: the scheduler keeps polling. Spec section 5 leaves
  re-polling to the caller.
* `SF(Respond(t))` and `SF(OnConfirmationReceived(s, m))`: a message that is
  published again and again is eventually answered and delivered. Loss can
  disable these actions, so weak fairness would not be enough.

Even under these generous assumptions, with the node never spun the
callback is never enabled, and `ConfirmationEventuallyDecided` fails. No
passing run checks a liveness property: with `ExecutorSpins = TRUE` the
strong fairness of the callback would be an assumption about an executor
the code does not create.

## 4. Findings

1. **Refreshed timeout** (`part_000:170`). The timeout counts from the most
   recent request, so a `Model` polled more often than `timeout_duration`
   never times out. Spec Scenario 1 expects it to.
2. **Threshold without drain** (`part_000:189`, and `.cpp:169`). The threshold
   is checked even when `drain_battery()` is false.
3. **Negative wait** (`part_000:167`). A negative wait is added to the
   state's time.
4. **Unset SOC** (`part_000:178/189`). `.value()` throws on an unset SOC, and
   it does so after the request has already been republished.
5. **Node never spun** (`part_000:302`). `make_model`'s node is never spun, so
   a confirmation is never observed.
6. **Negative timeout not normalised** (`part_000:160`). Spec section 7 says
   a negative duration is normalised silently to zero. The code stores
   `timeout_duration` as given and compares `now - request_time >
   timeout`, so with a timeout of -1 a poll at the very moment of the
   request fails as timed out (run `negative_timeout`).

## 5. Proofs (checked by tlapm)

Every theorem holds for any `Tokens`, any durations (negative ones included),
any rate, threshold, initial states and `MaxTime`, from `ConstantsAssumption`
(resp. `BasicConstantsAssumption`) only.

`WaitForConfirmationProofs.tla`:

* **`TypeCorrect`**: `Spec => []TypeOK` (lemmas `TypeStep`, `DrainType`,
  `BatteryOutcomeType`, `ExtendType`, `InputsType`).
* **`Correlation`**: `Spec => []ConfirmationCorrelated`, from the inductive
  strengthening `CorrelationInv` (lemmas `CorrelationStep` and the
  supporting theorem `CorrelationInvariant`). `ConfirmationCorrelated` alone
  is not inductive: a callback step could latch on a queued message unless
  every queued message was echoed. So `CorrelationInv` adds: every queued
  response is in `answered`; `answered` and `reqTopic` are subsets of
  `created`.
* **`LatchMonotone`**: `Spec => LatchNeverResets`. Only `MakeModel` clears a
  flag, and only for a token not constructed yet, which by `CorrelationInv`
  was never latched (lemma `LatchStep`).
* **`EstimateFloor`**: `Spec => []EstimateAboveThreshold`, by the inductive
  `FloorInv == TypeOK /\ EstimateAboveThreshold` and lemma
  `BatteryOutcomeAbove` (the only branch that yields an estimate checks the
  threshold on the state it returns).
* **`VariantsAgree`**: `Spec => []WaitingMatchesBasic`. Lemma
  `WaitingEstimate` shows, for any state, wait, drain and flag, that
  `BatteryOutcome` on the extended state equals `Basic!Estimate` field by
  field (split on an unset SOC); `TypeOK` supplies that the inputs are
  states and the members are typed.

`WaitForConfirmationRefinementProofs.tla`:

* **`RefinementInvariant`**: `Spec => []RefinementInv`, where `RefinementInv`
  is `CorrelationInv`, "a token not constructed has no `Result`" and
  `TimeoutPersists` (an unconfirmed `Model` whose last `Result` is a timeout
  is still past its timeout). The second conjunct makes `MakeModel` map to
  `Make` from idle; the third makes a poll of a timed-out `Model` fail again
  rather than extend, which `ConfirmationLatch` forbids. `TimeoutPersists` is
  inductive because the clock only grows and the timeout branch returns
  before `request_confirmation()` refreshes the request time.
* **`Refinement`**: `Spec => LatchRefinement`. Init maps to `Latch!Init`, and
  lemma `SimStep` shows every step under `RefinementInv` is a latch step or a
  stutter, one lemma per action (`MakeSim`, `RespondSim`, `CallbackSim`,
  `PollSim`; `PollFrame` and `MappingFrame` give the frame).
* **`TimeoutFinal`**: `Spec => TimeoutSticks`, from `TimeoutPersists`.
* **`EchoedBeforeFinish`**: `Spec => []FinishedOnlyWhenEchoed`. It is not
  proved from the live steps but from the promise: `ConfirmationLatch`
  proves `LatchSafe == Spec => [](TypeOK /\ LatchInv)` by one step per
  abstract action, `Refinement` gives `Latch!Spec`, so `Latch!LatchInv`
  holds of the mapped state, and its conjuncts "finished only while
  confirmed" and "confirmed only after an echo" read back through
  `Verdict` and `LatchStatus` as the concrete property.

`WaitForConfirmationPlannerProofs.tla`:

* **`BoundExact`**: `PSpec => []UnconfirmedBoundExact`, through the
  supporting theorem `PlannerInvariant` (`PSpec => []PlannerInv`). `UnconfirmedBoundExact` alone is not
  inductive: the step that records a bound needs to know what the read
  returned. `PlannerInv` adds that a bound is read only for a constructed
  `Model` (so `MakeModel` finds none) and that an unconfirmed `Model`'s read
  bound is its own wait (true at the read, kept because the latch never
  clears and the members never change). Lemma `WaitingExtends` shows that
  an unfinished `Estimate` comes from the waiting branch, unconfirmed, and
  extends the time by the wait; `ModelStepKeeps`, `ReadKeeps` and
  `PlannedPollKeeps` give one lemma per kind of step.

`WaitForConfirmationBasicProofs.tla`: **`BasicTypeCorrect`** and
**`BasicEstimateFloor`**, both from the inductive `BasicInv == TypeOK /\
EstimateAboveThreshold` (lemmas `EstimateProps`, `BasicStep`).

Every invariant and action property of the passing runs is proved. Only
model-checked: the findings, which are violations TLC exhibits, among them
the failure of the liveness property `ConfirmationEventuallyDecided` in
`node_not_spun` (fairness and ENABLED are beyond TLAPS in any case).

## 6. Not modelled

* The QoS depth of 10 (keep-last). `LoseResponse` may drop any queued
  message at any time, which covers overflow drops for every safety
  property. Since `make_model`'s node is never spun, nothing is ever taken
  off the queue, so the depth decides nothing in the shipped code.
* Destroying a `Model` while its callback runs, and other races between the
  callback and the planner: the callback never runs in the shipped code.
* UUID collisions.
* Logging.
* The commented-out request factories.
* The scheduler's own algorithm. Only its calls are modelled.

## 7. Status and next steps

Done: the live and basic modules with their runs, mutants and findings; the
abstract `ConfirmationLatch` with a checked and proved refinement and an
invariant of the promise carried to the live module; the scheduler
composition, the negative-timeout finding and the proof of the exact bound; the
agreement of the two variants; proofs of every safety property the passing
runs check.

Next:

1. **Bounded subscription queues** as sequences of depth `QueueDepth`, with a
   run showing a confirmation pushed out by foreign traffic.
2. **The always-advance variant against the promise**: it never confirms, so
   it implements `ConfirmationLatch` only with every instance waiting.
