--------------------------- MODULE ConfirmationLatch ---------------------------
(***************************************************************************)
(* What a WaitForConfirmation event promises, per event instance (one      *)
(* UUID of Tokens), as the header's class comment states it: the wait is   *)
(* extended until the confirmation is received or a timeout occurs. An     *)
(* instance is made, then waits; a confirmation is accepted only for an    *)
(* instance whose own request was echoed, and it is absorbing; a timeout  *)
(* ends the estimation but not the instance, which a late confirmation    *)
(* can still complete. The last verdict of an estimate is recorded so the *)
(* steps say which verdict each status allows.                            *)
(***************************************************************************)
EXTENDS TLAPS

CONSTANT Tokens

VARIABLES
  status,  \* per instance: "idle" (not made), "waiting", "confirmed", "timed_out"
  echoed,  \* instances whose request the far end has confirmed
  last     \* per instance: verdict of its last estimate

vars == <<status, echoed, last>>

Statuses == {"idle", "waiting", "confirmed", "timed_out"}

Verdicts == {"none", "extended", "finished", "failed", "rejected"}

Init ==
  /\ status = [t \in Tokens |-> "idle"]
  /\ echoed = {}
  /\ last = [t \in Tokens |-> "none"]

(* The template manufactures an instance; it starts waiting. *)
Make(t) ==
  /\ status[t] = "idle"
  /\ status' = [status EXCEPT ![t] = "waiting"]
  /\ UNCHANGED <<echoed, last>>

(* The far end confirms the request of a made instance. *)
Echo(t) ==
  /\ status[t] # "idle"
  /\ echoed' = echoed \cup {t}
  /\ UNCHANGED <<status, last>>

(* The instance takes in its own confirmation, also after a timeout. *)
Confirm(t) ==
  /\ t \in echoed
  /\ status[t] \in {"waiting", "timed_out"}
  /\ status' = [status EXCEPT ![t] = "confirmed"]
  /\ UNCHANGED <<echoed, last>>

(* An estimate of a waiting instance extends the wait. *)
Extend(t) ==
  /\ status[t] = "waiting"
  /\ last' = [last EXCEPT ![t] = "extended"]
  /\ UNCHANGED <<status, echoed>>

(* An estimate of a confirmed instance finishes the event. *)
Finish(t) ==
  /\ status[t] = "confirmed"
  /\ last' = [last EXCEPT ![t] = "finished"]
  /\ UNCHANGED <<status, echoed>>

(* The wait exceeds the timeout: this and every later estimate fails      *)
(* until a confirmation arrives.                                          *)
Fail(t) ==
  /\ status[t] \in {"waiting", "timed_out"}
  /\ status' = [status EXCEPT ![t] = "timed_out"]
  /\ last' = [last EXCEPT ![t] = "failed"]
  /\ UNCHANGED echoed

(* An estimate that is not timed out fails on the battery. *)
Reject(t) ==
  /\ status[t] \in {"waiting", "confirmed"}
  /\ last' = [last EXCEPT ![t] = "rejected"]
  /\ UNCHANGED <<status, echoed>>

Next ==
  \E t \in Tokens :
    \/ Make(t) \/ Echo(t) \/ Confirm(t)
    \/ Extend(t) \/ Finish(t) \/ Fail(t) \/ Reject(t)

Spec == Init /\ [][Next]_vars

(* Every variable holds a value of its type. *)
TypeOK ==
  /\ status \in [Tokens -> Statuses]
  /\ echoed \subseteq Tokens
  /\ last \in [Tokens -> Verdicts]

(* What the promise guarantees of each instance: it is confirmed only     *)
(* after its own request was echoed, it reports finished only while       *)
(* confirmed, a timed-out instance's last verdict is the failure, and an  *)
(* instance not yet made has neither an echo nor a verdict.               *)
LatchInv ==
  \A t \in Tokens :
    /\ status[t] = "confirmed" => t \in echoed
    /\ last[t] = "finished" => status[t] = "confirmed"
    /\ status[t] = "timed_out" => last[t] = "failed"
    /\ status[t] = "idle" => last[t] = "none" /\ t \notin echoed

(* Every behaviour of the promise keeps its type and LatchInv: each step  *)
(* is checked against the four implications for the instance it moves.   *)
THEOREM LatchSafe == Spec => [](TypeOK /\ LatchInv)
<1>1. Init => TypeOK /\ LatchInv
  BY DEF Init, TypeOK, LatchInv, Statuses, Verdicts
<1>2. TypeOK /\ LatchInv /\ [Next]_vars => TypeOK' /\ LatchInv'
  <2> SUFFICES ASSUME TypeOK, LatchInv, [Next]_vars PROVE TypeOK' /\ LatchInv'
    OBVIOUS
  <2> USE DEF TypeOK, LatchInv, Statuses, Verdicts
  <2>1. ASSUME NEW t \in Tokens, Make(t) PROVE TypeOK' /\ LatchInv'
    BY <2>1 DEF Make
  <2>2. ASSUME NEW t \in Tokens, Echo(t) PROVE TypeOK' /\ LatchInv'
    BY <2>2 DEF Echo
  <2>3. ASSUME NEW t \in Tokens, Confirm(t) PROVE TypeOK' /\ LatchInv'
    BY <2>3 DEF Confirm
  <2>4. ASSUME NEW t \in Tokens, Extend(t) PROVE TypeOK' /\ LatchInv'
    BY <2>4 DEF Extend
  <2>5. ASSUME NEW t \in Tokens, Finish(t) PROVE TypeOK' /\ LatchInv'
    BY <2>5 DEF Finish
  <2>6. ASSUME NEW t \in Tokens, Fail(t) PROVE TypeOK' /\ LatchInv'
    BY <2>6 DEF Fail
  <2>7. ASSUME NEW t \in Tokens, Reject(t) PROVE TypeOK' /\ LatchInv'
    BY <2>7 DEF Reject
  <2>8. CASE UNCHANGED vars
    BY <2>8 DEF vars
  <2>9. QED
    BY <2>1, <2>2, <2>3, <2>4, <2>5, <2>6, <2>7, <2>8 DEF Next
<1>3. QED
  BY <1>1, <1>2, PTL DEF Spec
=============================================================================
