----------------------------- MODULE Escalation -----------------------------
(***************************************************************************)
(* The way from a selector that matches nothing to a decision              *)
(* (flow/waits.py, vision/escalation.py): the primary model is asked, then *)
(* the stronger one, as long as the budget of llm_max_calls_per_run lasts. *)
(* The counter is a dictionary keyed by run id, but waits.py passes none,  *)
(* so that every fetch of the process counts under the key "ad-hoc"; and   *)
(* reset_counter has no caller.                                            *)
(***************************************************************************)
EXTENDS Naturals

CONSTANTS
  Customer,
  MaxCalls    \* llm_max_calls_per_run

ASSUME BudgetIsNat == MaxCalls \in Nat

VARIABLES
  calls,   \* _CALL_COUNTER["ad-hoc"]
  spent,   \* spent[c]: the calls made while customer c was fetched (history)
  tier     \* the model to ask about the current miss; 0: no miss is open

visionVars == <<calls, spent, tier>>

VisionTypeOK ==
  /\ calls \in Nat
  /\ spent \in [Customer -> Nat]
  /\ tier  \in 0 .. 2

\* The module of a process that starts now.
VisionStart == calls' = 0 /\ spent' = [c \in Customer |-> 0] /\ tier' = 0

\* No candidate of a selector becomes visible in time.
Miss == tier = 0 /\ tier' = 1 /\ UNCHANGED <<calls, spent>>

BudgetLeft == calls < MaxCalls

\* Plausible bug: the budget is looked at once, before the first model.
AnswerUnchecked(c, verdict) ==
  \/ /\ tier # 0
     /\ tier = 2 \/ BudgetLeft
     /\ calls' = calls + 1
     /\ spent' = [spent EXCEPT ![c] = @ + 1]
     /\ \/ verdict \in {"found", "missed"} /\ tier' = 0
        \/ verdict = "escalate" /\ tier = 1 /\ tier' = 2
  \/ /\ tier = 1 /\ ~BudgetLeft
     /\ verdict = "missed" /\ tier' = 0
     /\ UNCHANGED <<calls, spent>>

\* One tier of escalate_resolve for customer c.  A blocked page, a proposed
\* selector that is not visible either, and an answer of the stronger model
\* that is no use, all miss; an error or low confidence of the primary model
\* escalates.
Answer(c, verdict) ==
  /\ tier # 0
  /\ \/ /\ BudgetLeft
        /\ calls' = calls + 1
        /\ spent' = [spent EXCEPT ![c] = @ + 1]
        /\ \/ verdict \in {"found", "missed"} /\ tier' = 0
           \/ verdict = "escalate" /\ tier = 1 /\ tier' = 2
     \/ /\ ~BudgetLeft
        /\ verdict = "missed" /\ tier' = 0
        /\ UNCHANGED <<calls, spent>>

\* The calls paid for never exceed the budget, whichever tiers fail in
\* whichever order: not for one fetch, nor for all fetches of the process.
BudgetHolds == calls <= MaxCalls /\ \A c \in Customer : spent[c] <= calls
=============================================================================
