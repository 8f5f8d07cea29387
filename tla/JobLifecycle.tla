---------------------------- MODULE JobLifecycle ----------------------------
(***************************************************************************)
(* What the night-shift job table promises its readers, without callers,   *)
(* calls or events: a job is created as a draft, its status moves along    *)
(* the edges of the state machine only, and a requested cancellation stays *)
(* requested.  What breaks the promise is counted: an update that was made *)
(* from a row other than the stored one.                                   *)
(***************************************************************************)
EXTENDS Naturals, JobStates

CONSTANT NoJob
VARIABLES
  row,  \* the job's row: its status and its cancellation_requested flag
  lost  \* number of updates made from another row than the stored one

Init == row = NoJob /\ lost = 0

Create == row = NoJob /\ row' = [status |-> "draft", cancel |-> FALSE]

Move == /\ row # NoJob
        /\ \E s \in Statuses : <<row.status, s>> \in Edges /\ row' = [row EXCEPT !.status = s]

RequestCancellation == /\ row # NoJob
                       /\ row.status \notin Final
                       /\ row' = [row EXCEPT !.cancel = TRUE]

LoseUpdate == lost' = lost + 1 /\ row' \in [status : Statuses, cancel : BOOLEAN]

Next == (lost' = lost /\ (Create \/ Move \/ RequestCancellation)) \/ LoseUpdate

Spec == Init /\ [][Next]_<<row, lost>>
=============================================================================
