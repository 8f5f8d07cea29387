------------------------------ MODULE Inference ------------------------------
(***************************************************************************)
(* The model behind a worker: night_shifts/inference.py                    *)
(* (TrustedInferenceGateway, one session of it) in front of                *)
(* night_shifts/process_inference.py (ProcessInferenceModel and its        *)
(* spawned child, which night_shifts/model_factory.py equips).             *)
(*                                                                         *)
(* One worker thread infers; the canceller and the run's cleanup revoke.   *)
(* infer() is taken apart where a revocation can come in between: the      *)
(* session is looked up under the gateway's lock and used under its own,   *)
(* and the pipe is written and polled without any lock that close()        *)
(* takes.  What a request and a response may contain is "valid" or not.    *)
(***************************************************************************)
EXTENDS WorkerControl

CONSTANTS MaxRequests  \* InferenceLimits.max_requests

ASSUME InferenceAssumption == MaxRequests \in Nat \ {0}

Revokers == {"worker", "canceller"}

VARIABLES
  lease,     \* the token is in the gateway's table
  requests,  \* requests the session has counted
  inf,       \* infer(): "idle", "fetched", "send", "wait", "parse", "close", "closing", "ok", "raised"
  child,     \* "idle", "working", "replied", "failed" (sent its error and left), "dead"
  pipe,      \* the host's end: "open" or "closed"
  stopped,   \* _stopped is set
  closer,    \* who is inside close(), under its lock, or "nobody"
  unreaped,  \* _cleanup_error is set
  revoke     \* close_client() and cancel_client(): "no", "popped", "in", "clean", "raised"

modelVars == <<lease, requests, child, pipe, stopped, closer, unreaped, revoke>>
inferenceVars == <<modelVars, inf>>

(* create_client(): a fresh token, its model and its limits in the table. *)
NewClient == lease = TRUE /\ requests = 0

(* authorize_client(): the token is still there, and is this job's. *)
Authorized == lease

InferenceInit ==
  /\ NewClient /\ inf = "idle"
  /\ child = "idle" /\ pipe = "open"
  /\ stopped = FALSE /\ closer = "nobody" /\ unreaped = FALSE
  /\ revoke = [r \in Revokers |-> "no"]

(* Without a model: the parts of the run that do not infer. *)
NoModelInit ==
  /\ lease = FALSE /\ requests = 0 /\ inf = "idle"
  /\ child = "dead" /\ pipe = "closed"
  /\ stopped = TRUE /\ closer = "nobody" /\ unreaped = FALSE
  /\ revoke = [r \in Revokers |-> "no"]

-----------------------------------------------------------------------------
(* close(): the first caller stops, closes the pipe, terminates and kills; *)
(* a later one waits for the lock and reports what the first one found.    *)
CloseModel(who) == closer = "nobody" /\ ~stopped /\ closer' = who /\ stopped' = TRUE

(* Mutant: a second close() takes the first one's word for it. *)
SecondCloseIsQuiet == "clean"

SecondClose == IF unreaped THEN "raised" ELSE "clean"

(* Mutant: the pipe is closed once the child is gone. *)
ReapFirst == \/ pipe' = "closed" /\ child' = "dead" /\ UNCHANGED unreaped /\ Works
             \/ UNCHANGED <<pipe, child>> /\ unreaped' = TRUE /\ Fails

Reap == /\ pipe' = "closed"
        /\ \/ child' = "dead" /\ UNCHANGED unreaped /\ Works
           \/ child # "failed" /\ UNCHANGED child /\ unreaped' = TRUE /\ Fails

(* Mutant: only the caller's cancellation stops a request. *)
RunningUntilCancelled == ~stopped /\ ~cancelRequested /\ child \notin {"failed", "dead"}

(* _require_running(). *)
Running == ~stopped /\ ~cancelRequested /\ ~expired /\ child \notin {"failed", "dead"}

(* The gateway's lookup. *)
Fetch ==
  /\ inf' = IF lease THEN "fetched" ELSE "raised"
  /\ UNCHANGED modelVars
  /\ Works

(* _authorize() and _validate_request() raise without touching the model;  *)
(* after the request is counted the model checks that it may run.          *)
Authorize ==
  /\ inf = "fetched"
  /\ \/ /\ requests >= MaxRequests
        /\ inf' = "raised" /\ UNCHANGED requests /\ Works
     \/ /\ requests < MaxRequests
        /\ inf' = "raised" /\ UNCHANGED requests /\ Fails
     \/ /\ requests < MaxRequests
        /\ requests' = requests + 1
        /\ inf' = IF Running THEN "send" ELSE "close"
        /\ Works
  /\ UNCHANGED <<lease, child, pipe, stopped, closer, unreaped, revoke>>

SendRequest ==
  /\ inf = "send"
  /\ IF pipe = "open" /\ child = "idle" THEN inf' = "wait" /\ child' = "working"
     ELSE inf' = "close" /\ UNCHANGED child
  /\ Works
  /\ UNCHANGED <<lease, requests, pipe, stopped, closer, unreaped, revoke>>

(* LLMInferenceModel.infer(): the client's reply, or an exception. *)
Model == \/ child' = "replied" /\ Works
         \/ child' = "failed" /\ Fails

(* _child(): a response, or an error frame and the end of the process. *)
ChildAnswers ==
  /\ child = "working" /\ Model
  /\ UNCHANGED <<lease, requests, inf, pipe, stopped, closer, unreaped, revoke>>

(* One round of _receive(): poll until something is there. *)
Receive ==
  /\ inf = "wait"
  /\ IF ~Running \/ pipe = "closed" THEN inf' = "close" /\ UNCHANGED child
     ELSE child = "replied" /\ inf' = "parse" /\ child' = "idle"
  /\ Works
  /\ UNCHANGED <<lease, requests, pipe, stopped, closer, unreaped, revoke>>

(* Cancellation wins over a late success.  A response the model cannot     *)
(* parse closes it; one that only the gateway refuses does not.            *)
Parse ==
  /\ inf = "parse"
  /\ \/ inf' = (IF Running THEN "ok" ELSE "close") /\ Works
     \/ Running /\ inf' \in {"close", "raised"} /\ Fails
  /\ UNCHANGED modelVars

(* infer()'s own close(), on its way out with the exception. *)
InferCloses ==
  /\ inf = "close"
  /\ \/ CloseModel("worker") /\ inf' = "closing"
     \/ closer = "nobody" /\ stopped /\ inf' = "raised" /\ UNCHANGED <<closer, stopped>>
  /\ Works
  /\ UNCHANGED <<lease, requests, child, pipe, unreaped, revoke>>

InferReaps ==
  /\ inf = "closing" /\ closer = "worker"
  /\ Reap
  /\ closer' = "nobody" /\ inf' = "raised"
  /\ UNCHANGED <<lease, requests, stopped, revoke>>

-----------------------------------------------------------------------------
(* close_client() and cancel_client(): whoever pops the token is the one   *)
(* that closes the model; the other finds nothing and returns.             *)
Revoke(who) ==
  /\ revoke[who] = "no"
  /\ revoke' = [revoke EXCEPT ![who] = IF lease THEN "popped" ELSE "clean"]
  /\ lease' = FALSE
  /\ Works
  /\ UNCHANGED <<requests, inf, child, pipe, stopped, closer, unreaped>>

RevokeCloses(who) ==
  /\ revoke[who] = "popped"
  /\ \/ CloseModel(who) /\ revoke' = [revoke EXCEPT ![who] = "in"]
     \/ /\ closer = "nobody" /\ stopped
        /\ revoke' = [revoke EXCEPT ![who] = SecondClose]
        /\ UNCHANGED <<closer, stopped>>
  /\ Works
  /\ UNCHANGED <<lease, requests, inf, child, pipe, unreaped>>

RevokeReaps(who) ==
  /\ revoke[who] = "in"
  /\ Reap
  /\ closer' = "nobody"
  /\ revoke' = [revoke EXCEPT ![who] = IF unreaped' THEN "raised" ELSE "clean"]
  /\ UNCHANGED <<lease, requests, inf, stopped>>

Revoked(who) == revoke[who] \in {"clean", "raised"}

InferenceStep ==
  /\ \/ Authorize \/ SendRequest \/ Receive \/ Parse
     \/ InferCloses \/ InferReaps
     \/ \E who \in Revokers: RevokeCloses(who) \/ RevokeReaps(who)
  /\ UNCHANGED control

InferenceChild == ChildAnswers /\ UNCHANGED control
=============================================================================
