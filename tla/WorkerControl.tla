---------------------------- MODULE WorkerControl ----------------------------
(***************************************************************************)
(* What every part of a worker run on the host looks at: the job's         *)
(* deadline and its cancellation request (night_shifts/executor.py,        *)
(* ExecutionControl), and the budget of operations that raise.             *)
(***************************************************************************)
EXTENDS Integers, FiniteSets

CONSTANT MaxFaults  \* bound: operations outside the process that raise

ASSUME FaultAssumption == MaxFaults \in Nat

VARIABLES expired,          \* the job's monotonic deadline has passed
          cancelRequested,  \* cancellation_requested() answers True
          faults            \* operations that raised so far

control == <<expired, cancelRequested>>

ControlInit == /\ expired = FALSE
               /\ cancelRequested = FALSE
               /\ faults = 0

Works == UNCHANGED faults
Fails == faults < MaxFaults /\ faults' = faults + 1

(* stop_outcome(): a cancellation is reported before an expired deadline. *)
StopOutcome == IF cancelRequested THEN "cancelled"
               ELSE IF expired THEN "timed_out" ELSE "none"

DeadlinePasses == ~expired /\ expired' = TRUE /\ UNCHANGED <<cancelRequested, faults>>
=============================================================================
