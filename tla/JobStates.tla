----------------------------- MODULE JobStates ------------------------------
(* The statuses of a night-shift job and the edges between them, from      *)
(* night_shifts/models.py (JobStatus) and night_shifts/state_machine.py.   *)

Statuses == {"draft", "queued", "provisioning", "running", "waiting_for_input", "paused",
             "completed", "awaiting_review", "revision_requested", "approved", "published",
             "failed", "cancelled", "rejected", "merged"}

(* No edge leaves these; request_cancellation() refuses them too. *)
Final == {"failed", "cancelled", "rejected", "merged"}

(* _ALLOWED *)
Edges ==
  ({"draft", "revision_requested"} \X {"queued", "cancelled"})
    \cup ({"queued"} \X {"provisioning", "cancelled", "failed"})
    \cup ({"provisioning", "waiting_for_input", "paused"} \X {"running", "cancelled", "failed"})
    \cup ({"running"} \X {"waiting_for_input", "paused", "completed", "cancelled", "failed"})
    \cup ({"awaiting_review"} \X {"revision_requested", "rejected", "approved"})
    \cup {<<"completed", "awaiting_review">>, <<"approved", "published">>,
          <<"published", "merged">>}
=============================================================================
