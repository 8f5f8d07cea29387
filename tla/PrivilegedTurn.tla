--------------------------- MODULE PrivilegedTurn ---------------------------
(***************************************************************************)
(* The gate between the head agent and Windows elevation:                  *)
(* runtime/privileged_turn.py (class PrivilegedTurn), the tools that drive *)
(* it (tools/system/elevated.py, privileged_host.py,                       *)
(* privileged_inspection.py, runtime/elevated_commands.py) and the calls   *)
(* the Textual UI makes on it, up to the elevated helper process that      *)
(* executes an approved request (runtime/privileged_host.py, _elevate, and *)
(* scripts/privileged_command_helper.ps1).                                 *)
(*                                                                         *)
(* Every method body of the class runs under one lock, so one action is    *)
(* one method call.  The agent threads, the UI thread and the clock        *)
(* interleave between calls.  An uncaught PermissionError or ValueError    *)
(* that leaves the gate as it was is a disabled action, unless the caller  *)
(* moves on because of it (SubmitRefused, RequireRefused).                 *)
(***************************************************************************)
EXTENDS Integers, FiniteSets

CONSTANTS Threads,      \* agent worker threads
          TurnIds,      \* uuid4 identities of head turns
          RequestIds,   \* uuid4 identities of claims and of their requests
          ARM_SECONDS,  \* lifetime of an unused arm
          TURN_SECONDS, \* authorization budget of a head turn
          GRACE,        \* how long past the deadline _wait_for_helper still waits
          MaxTime,      \* bound: the clock stops there
          MaxArms,      \* bound: number of arm() calls
          None          \* Python's None

ASSUME GateAssumption ==
  /\ ARM_SECONDS \in Nat \ {0}
  /\ TURN_SECONDS \in Nat \ {0}
  /\ GRACE \in Nat
  /\ MaxTime \in Nat
  /\ MaxArms \in Nat
  /\ None \notin TurnIds \cup RequestIds

Evidence   == "collect_host_evidence"
Inspection == "inspect_image_copy"
Elevated   == "elevated_commands"
Operations == {Evidence, Inspection, Elevated}

(* One tool call of an agent thread: inside a turn between calls           *)
(* ("running"), after claim(), inside wait(), after wait() returned        *)
(* "accepted", after the revalidation of the installed policy, after       *)
(* require_accepted() succeeded but before the elevation, in front of the  *)
(* UAC prompt, and inside _wait_for_helper().                              *)
PcStates == {"idle", "running", "claimed", "waiting", "accepted", "rechecked",
             "handed", "uac", "helper"}

(* The elevated helper: absent, created, past its permanent start claim,   *)
(* executing the approved script, and gone: without a result receipt, with *)
(* executed = false, with executed = null, with executed = true.           *)
HelperStates == {"absent", "created", "started", "executing",
                 "refused", "not_run", "unsure", "ran"}
HelperGone == {"refused", "not_run", "unsure", "ran"}

Decisions == {"none", "pending", "accepted", "rejected", "expired", "handed_off"}

VARIABLES
  now,         \* self._clock()
  armedUntil,  \* self._armed_until
  turn,        \* self._turn
  deadline,    \* self._deadline
  used,        \* self._used
  operation,   \* self._operation
  fixedUsed,   \* self._fixed_used
  claims,      \* keys of self._claims
  decisions,   \* self._decisions; "none" is an absent key of _requests/_decisions/_events
  ctx,         \* the _context ContextVar of every thread
  pc,          \* where every agent thread is in its tool call
  held,        \* the claim (and request) an agent thread holds
  helper,      \* the elevated helper process of a request
  report,      \* what the tool result says of the execution of a request
  \* history
  arms,        \* number of arm() calls so far
  begun,       \* turn identities already drawn
  owner,       \* the turn in which a claim was issued
  opOf,        \* claim.operation
  due,         \* claim.deadline_unix
  uiSaid,      \* what the operator answered to a request
  handoffs,    \* how often require_accepted() let a request through
  withdrawn,   \* claims outstanding when authority was revoked or their turn ended
  launched     \* requests whose script was started

gateVars  == <<armedUntil, turn, deadline, used, operation, fixedUsed, claims, decisions>>
agentVars == <<ctx, pc, held>>
execVars  == <<helper, report, launched>>
history   == <<arms, begun, owner, opOf, due, uiSaid, handoffs, withdrawn>>
vars      == <<now, gateVars, agentVars, execVars, history>>

Init ==
  /\ now = 0
  /\ armedUntil = 0
  /\ turn = None
  /\ deadline = 0
  /\ used = FALSE
  /\ operation = Evidence
  /\ fixedUsed = {}
  /\ claims = {}
  /\ decisions = [r \in RequestIds |-> "none"]
  /\ ctx = [t \in Threads |-> None]
  /\ pc = [t \in Threads |-> "idle"]
  /\ held = [t \in Threads |-> None]
  /\ helper = [r \in RequestIds |-> "absent"]
  /\ report = [r \in RequestIds |-> "none"]
  /\ launched = {}
  /\ arms = 0
  /\ begun = {}
  /\ owner = [r \in RequestIds |-> None]
  /\ opOf = [r \in RequestIds |-> None]
  /\ due = [r \in RequestIds |-> 0]
  /\ uiSaid = [r \in RequestIds |-> "nothing"]
  /\ handoffs = [r \in RequestIds |-> 0]
  /\ withdrawn = {}

Issued    == {r \in RequestIds : owner[r] # None}
Requested == {r \in RequestIds : decisions[r] # "none"}

-----------------------------------------------------------------------------
(* uuid4(): an identity never drawn before.  Identities are only compared, *)
(* so which one is drawn does not matter.                                  *)
Fresh(S) == CHOOSE x \in S : TRUE

(* _invalidate(): every request known to this turn is expired, also one    *)
(* that was accepted or handed off, and its waiter is woken.               *)
Invalidated == [r \in RequestIds |-> IF r \in Requested THEN "expired" ELSE decisions[r]]

(* _live(claim) *)
Live(r) == turn # None /\ now < deadline /\ r \in claims

(* arm(operation): refused while a turn is active. *)
Arm(op) ==
  /\ arms < MaxArms
  /\ turn = None
  /\ operation' = op
  /\ armedUntil' = now + ARM_SECONDS
  /\ arms' = arms + 1
  /\ UNCHANGED <<now, turn, deadline, used, fixedUsed, claims, decisions, agentVars, execVars,
                 begun, owner, opOf, due, uiSaid, handoffs, withdrawn>>

(* Mutant: the budget of the running turn is left alone. *)
RevokeKeepsDeadline ==
  /\ armedUntil' = 0
  /\ used' = TRUE
  /\ decisions' = Invalidated
  /\ withdrawn' = withdrawn \cup Issued
  /\ UNCHANGED <<now, turn, deadline, operation, fixedUsed, claims, agentVars, execVars,
                 arms, begun, owner, opOf, due, uiSaid, handoffs>>

(* revoke(): from the settings view, Agent.reset and the UI's shutdown. *)
Revoke ==
  /\ armedUntil' = 0
  /\ deadline' = 0
  /\ used' = TRUE
  /\ decisions' = Invalidated
  /\ withdrawn' = withdrawn \cup Issued
  /\ UNCHANGED <<now, turn, operation, fixedUsed, claims, agentVars, execVars,
                 arms, begun, owner, opOf, due, uiSaid, handoffs>>

(* turn('head'), entry: consumes the arm.  A second concurrent head turn   *)
(* raises.                                                                 *)
BeginHeadTurn(t) ==
  /\ pc[t] = "idle"
  /\ turn = None
  /\ TurnIds \ begun # {}
  /\ now + TURN_SECONDS <= MaxTime
  /\ LET enabled == now < armedUntil
     IN  /\ deadline' = IF enabled THEN now + TURN_SECONDS ELSE 0
         /\ used' = ~enabled
  /\ armedUntil' = 0
  /\ fixedUsed' = {}
  /\ claims' = {}
  /\ decisions' = [r \in RequestIds |-> "none"]
  /\ LET i == Fresh(TurnIds \ begun)
     IN  /\ turn' = i
         /\ begun' = begun \cup {i}
         /\ ctx' = [ctx EXCEPT ![t] = i]
  /\ pc' = [pc EXCEPT ![t] = "running"]
  /\ UNCHANGED <<now, operation, held, execVars, arms, owner, opOf, due, uiSaid, handoffs, withdrawn>>

(* turn(profile) for any other profile: the context variable hides the     *)
(* head's turn from the worker.                                            *)
BeginWorkerTurn(t) ==
  /\ pc[t] = "idle"
  /\ ctx' = [ctx EXCEPT ![t] = None]
  /\ pc' = [pc EXCEPT ![t] = "running"]
  /\ UNCHANGED <<now, gateVars, held, execVars, history>>

(* turn(), the finally block, on every exit path of Agent._step. *)
EndTurn(t) ==
  /\ pc[t] = "running"
  /\ ctx' = [ctx EXCEPT ![t] = None]
  /\ pc' = [pc EXCEPT ![t] = "idle"]
  /\ IF ctx[t] = None
       THEN UNCHANGED <<decisions, turn, deadline, used, withdrawn>>
       ELSE /\ decisions' = Invalidated
            /\ turn' = None
            /\ deadline' = 0
            /\ used' = TRUE
            /\ withdrawn' = withdrawn \cup Issued
  /\ UNCHANGED <<now, armedUntil, operation, fixedUsed, claims, held, execVars,
                 arms, begun, owner, opOf, due, uiSaid, handoffs>>

-----------------------------------------------------------------------------
Unified == operation = Elevated

(* Mutant: a worker's context is not told from the head's. *)
ClaimIgnoresContext(t, op) ==
  /\ turn # None /\ ~used /\ now < deadline /\ (Unified \/ op = operation)
  /\ ~(Unified /\ op # Elevated /\ op \in fixedUsed)

(* Mutant: a fixed helper may be claimed again. *)
ClaimRefundsFixed(t, op) ==
  /\ ctx[t] # None /\ ctx[t] = turn /\ ~used /\ now < deadline
  /\ Unified \/ op = operation

(* claim(operation), the refusal condition. *)
MayClaim(t, op) ==
  /\ ctx[t] # None
  /\ ctx[t] = turn
  /\ ~used
  /\ now < deadline
  /\ Unified \/ op = operation
  /\ ~(Unified /\ op # Elevated /\ op \in fixedUsed)

(* claim(operation): the attempt is spent before any validation or UAC. *)
Claim(t, op) ==
  /\ pc[t] = "running"
  /\ MayClaim(t, op)
  /\ RequestIds \ Issued # {}
  /\ used' = IF Unified THEN used ELSE TRUE
  /\ fixedUsed' = IF Unified /\ op # Elevated THEN fixedUsed \cup {op} ELSE fixedUsed
  /\ LET r == Fresh(RequestIds \ Issued)
     IN  /\ claims' = claims \cup {r}
         /\ owner' = [owner EXCEPT ![r] = turn]
         /\ opOf' = [opOf EXCEPT ![r] = op]
         /\ due' = [due EXCEPT ![r] = deadline]
         /\ held' = [held EXCEPT ![t] = r]
  /\ pc' = [pc EXCEPT ![t] = "claimed"]
  /\ UNCHANGED <<now, armedUntil, turn, deadline, operation, decisions, ctx, execVars,
                 arms, begun, uiSaid, handoffs, withdrawn>>

(* The tool call returns to the model with a statement about execution;    *)
(* the claim is not refunded.                                              *)
Return(t, said) ==
  /\ pc' = [pc EXCEPT ![t] = "running"]
  /\ held' = [held EXCEPT ![t] = None]
  /\ report' = [report EXCEPT ![held[t]] = said]

GoOn(t, next) ==
  /\ pc' = [pc EXCEPT ![t] = next]
  /\ UNCHANGED <<held, report>>

MaySubmit(t) ==
  /\ ctx[t] = turn
  /\ Live(held[t])
  /\ held[t] \notin Requested

(* submit(claim, details), called by await_approval(). *)
Submit(t) ==
  /\ pc[t] = "claimed"
  /\ MaySubmit(t)
  /\ decisions' = [decisions EXCEPT ![held[t]] = "pending"]
  /\ GoOn(t, "waiting")
  /\ UNCHANGED <<now, armedUntil, turn, deadline, used, operation, fixedUsed, claims,
                 ctx, helper, launched, history>>

(* The installed policy or the request is unsuitable, or submit() raises:  *)
(* "blocked_or_outcome_unknown".                                           *)
SubmitRefused(t) ==
  /\ pc[t] = "claimed"
  /\ Return(t, "unknown")
  /\ UNCHANGED <<now, gateVars, ctx, helper, launched, history>>

(* Mutant: the waiter does not look at the deadline itself. *)
WaitForgetsDeadline(t) ==
  IF held[t] \notin Requested THEN "expired" ELSE decisions[held[t]]

(* wait(request): what one pass of its loop finds.  While that is          *)
(* "pending" the thread sleeps at most 0.2 s, so a missed wake-up only     *)
(* delays it.                                                              *)
WaitAnswer(t) ==
  IF held[t] \notin Requested \/ ~Live(held[t])
    THEN "expired"
    ELSE decisions[held[t]]

Wait(t) ==
  /\ pc[t] = "waiting"
  /\ WaitAnswer(t) # "pending"
  /\ IF WaitAnswer(t) = "accepted" THEN GoOn(t, "accepted") ELSE Return(t, "not_executed")
  /\ UNCHANGED <<now, gateVars, ctx, helper, launched, history>>

(* run_approved_script() between wait() and require_accepted(): the        *)
(* protected installation is read again and must not have changed, the     *)
(* claim's deadline must not have passed, the working directory must still *)
(* be there.                                                               *)
Recheck(t) ==
  /\ pc[t] = "accepted"
  /\ \/ now < due[held[t]] /\ GoOn(t, "rechecked")
     \/ now >= due[held[t]] /\ Return(t, "not_executed")
     \/ Return(t, "unknown")
  /\ UNCHANGED <<now, gateVars, ctx, helper, launched, history>>

(* Mutant: a withdrawn approval is still taken. *)
HandOffAfterExpiry(t) ==
  ctx[t] = turn /\ decisions[held[t]] \in {"accepted", "expired"}

(* require_accepted(request), the refusal condition. *)
MayHandOff(t) ==
  /\ ctx[t] = turn
  /\ Live(held[t])
  /\ decisions[held[t]] = "accepted"

(* require_accepted(request): a single handoff. *)
RequireAccepted(t) ==
  /\ pc[t] = "rechecked"
  /\ MayHandOff(t)
  /\ decisions' = [decisions EXCEPT ![held[t]] = "handed_off"]
  /\ handoffs' = [handoffs EXCEPT ![held[t]] = @ + 1]
  /\ GoOn(t, "handed")
  /\ UNCHANGED <<now, armedUntil, turn, deadline, used, operation, fixedUsed, claims,
                 ctx, helper, launched, arms, begun, owner, opOf, due, uiSaid, withdrawn>>

RequireRefused(t) ==
  /\ pc[t] = "rechecked"
  /\ ~MayHandOff(t)
  /\ Return(t, "unknown")
  /\ UNCHANGED <<now, gateVars, ctx, helper, launched, history>>

-----------------------------------------------------------------------------
(* _elevate(): the request file is written, the deadline checked once      *)
(* more and Windows asked for consent.  Revocation is not looked at from   *)
(* here on.                                                                *)
Elevate(t) ==
  /\ pc[t] = "handed"
  /\ \/ now < due[held[t]] /\ GoOn(t, "uac")
     \/ Return(t, "unknown")
  /\ UNCHANGED <<now, gateVars, ctx, helper, launched, history>>

(* The UAC prompt: ERROR_CANCELLED, another refusal, or a helper process.  *)
UacAnswered(t) ==
  /\ pc[t] = "uac"
  /\ \/ Return(t, "not_executed") /\ UNCHANGED helper
     \/ Return(t, "unknown") /\ UNCHANGED helper
     \/ /\ GoOn(t, "helper")
        /\ helper' = [helper EXCEPT ![held[t]] = "created"]
  /\ UNCHANGED <<now, gateVars, ctx, launched, history>>

(* The helper's checks of installation, deadline, digest and schema, then  *)
(* its create-new start claim; a consent that comes after the deadline is  *)
(* refused here.                                                           *)
HelperStart(r) ==
  /\ helper[r] = "created"
  /\ \/ now < due[r] /\ helper' = [helper EXCEPT ![r] = "started"]
     \/ helper' = [helper EXCEPT ![r] = "refused"]
  /\ UNCHANGED <<now, gateVars, agentVars, report, launched, history>>

(* The deadline is compared a last time right before the command starts;   *)
(* past it, or when preparing the launch fails, the result receipt says    *)
(* executed = false.                                                       *)
HelperLaunch(r) ==
  /\ helper[r] = "started"
  /\ \/ /\ now < due[r]
        /\ helper' = [helper EXCEPT ![r] = "executing"]
        /\ launched' = launched \cup {r}
     \/ helper' = [helper EXCEPT ![r] = "not_run"] /\ UNCHANGED launched
  /\ UNCHANGED <<now, gateVars, agentVars, report, history>>

(* Completion, failure or the watchdog's timeout; or an answer that never  *)
(* came back from the native call (executed = null).                       *)
HelperFinish(r) ==
  /\ helper[r] = "executing"
  /\ \E how \in {"ran", "unsure"} : helper' = [helper EXCEPT ![r] = how]
  /\ UNCHANGED <<now, gateVars, agentVars, report, launched, history>>

(* Mutant: no receipt is taken for no execution. *)
GaveUpMeansNotRun(r) ==
  IF helper[r] = "ran" THEN "executed"
  ELSE IF helper[r] = "unsure" THEN "unknown"
  ELSE "not_executed"

(* The result receipt as run_approved_script() passes it on.  A helper     *)
(* that left no receipt and one that is still alive are both unknown.      *)
ReportOf(r) ==
  IF helper[r] = "ran" THEN "executed"
  ELSE IF helper[r] = "not_run" THEN "not_executed"
  ELSE "unknown"

(* _wait_for_helper(): until the helper exits, at the longest until a      *)
(* grace period after the claim's deadline.                                *)
WaitForHelper(t) ==
  /\ pc[t] = "helper"
  /\ helper[held[t]] \in HelperGone \/ now >= due[held[t]] + GRACE
  /\ Return(t, ReportOf(held[t]))
  /\ UNCHANGED <<now, gateVars, ctx, helper, launched, history>>

-----------------------------------------------------------------------------
(* pending(): the UI's refresh.  Past the deadline it expires every        *)
(* request first.                                                          *)
Pending ==
  /\ now >= deadline
  /\ decisions' = Invalidated
  /\ UNCHANGED <<now, armedUntil, turn, deadline, used, operation, fixedUsed, claims,
                 agentVars, execVars, history>>

(* Mutant: the operator's answer is not looked at. *)
DecideIgnoresReject(r, accept) == IF Live(r) THEN "accepted" ELSE "expired"

(* decide(): the request's claim may have died while it was on display. *)
DecisionOf(r, accept) ==
  IF ~Live(r) THEN "expired" ELSE IF accept THEN "accepted" ELSE "rejected"

(* decide(identity, accept): the operator answers a request on a view that *)
(* may be stale by now; anything no longer pending raises.                 *)
Decide(r, accept) ==
  /\ decisions[r] = "pending"
  /\ decisions' = [decisions EXCEPT ![r] = DecisionOf(r, accept)]
  /\ uiSaid' = [uiSaid EXCEPT ![r] = IF accept THEN "accept" ELSE "reject"]
  /\ UNCHANGED <<now, armedUntil, turn, deadline, used, operation, fixedUsed, claims,
                 agentVars, execVars, arms, begun, owner, opOf, due, handoffs, withdrawn>>

Tick ==
  /\ now < MaxTime
  /\ now' = now + 1
  /\ UNCHANGED <<gateVars, agentVars, execVars, history>>

-----------------------------------------------------------------------------
ToolStep(t) ==
  \/ \E op \in Operations : Claim(t, op)
  \/ Submit(t)
  \/ SubmitRefused(t)
  \/ Wait(t)
  \/ Recheck(t)
  \/ RequireAccepted(t)
  \/ RequireRefused(t)
  \/ Elevate(t)
  \/ UacAnswered(t)
  \/ WaitForHelper(t)

TurnStep(t) == BeginHeadTurn(t) \/ BeginWorkerTurn(t) \/ EndTurn(t)

HelperStep(r) == HelperStart(r) \/ HelperLaunch(r) \/ HelperFinish(r)

UIStep ==
  \/ \E op \in Operations : Arm(op)
  \/ Revoke
  \/ Pending
  \/ \E r \in RequestIds, accept \in BOOLEAN : Decide(r, accept)

Next ==
  \/ Tick
  \/ UIStep
  \/ \E t \in Threads : TurnStep(t) \/ ToolStep(t)
  \/ \E r \in RequestIds : HelperStep(r)

(* Time passes, and wait() and _wait_for_helper() poll.  Nothing obliges   *)
(* the operator to answer, the model to call a tool or the helper to end.  *)
Fairness ==
  /\ WF_vars(Tick)
  /\ \A t \in Threads : WF_vars(Wait(t)) /\ WF_vars(WaitForHelper(t))

Spec == Init /\ [][Next]_vars /\ Fairness

-----------------------------------------------------------------------------
(* Type correctness of the gate, its agent threads, helpers and history. *)
TypeOK ==
  /\ now \in Nat
  /\ armedUntil \in Nat
  /\ turn \in TurnIds \cup {None}
  /\ deadline \in Nat
  /\ used \in BOOLEAN
  /\ operation \in Operations
  /\ fixedUsed \subseteq Operations
  /\ claims \subseteq RequestIds
  /\ decisions \in [RequestIds -> Decisions]
  /\ ctx \in [Threads -> TurnIds \cup {None}]
  /\ pc \in [Threads -> PcStates]
  /\ held \in [Threads -> RequestIds \cup {None}]
  /\ helper \in [RequestIds -> HelperStates]
  /\ report \in [RequestIds -> {"none", "not_executed", "executed", "unknown"}]
  /\ launched \subseteq RequestIds
  /\ arms \in Nat
  /\ begun \subseteq TurnIds
  /\ owner \in [RequestIds -> TurnIds \cup {None}]
  /\ opOf \in [RequestIds -> Operations \cup {None}]
  /\ due \in [RequestIds -> Nat]
  /\ uiSaid \in [RequestIds -> {"nothing", "accept", "reject"}]
  /\ handoffs \in [RequestIds -> Nat]
  /\ withdrawn \subseteq RequestIds

(* "Single handoff; duplicate execution with this approval is denied", and *)
(* nothing is handed to elevation or executed that the operator did not    *)
(* accept (privileged_turn.py, decide and require_accepted).               *)
HandoffOncePerAcceptance ==
  \A r \in RequestIds :
    /\ handoffs[r] > 0 => handoffs[r] = 1 /\ uiSaid[r] = "accept"
    /\ r \in launched => handoffs[r] = 1

(* Authority ends with the turn, with revoke() and at the deadline: no     *)
(* request handed to elevation may stem from before a revoke, from an      *)
(* earlier turn, or be past the budget of its turn, whatever the operator  *)
(* answered and however late the agent thread gets to run.                 *)
HandoffOnlyUnderAuthority ==
  [][\A r \in RequestIds :
       handoffs'[r] > handoffs[r] => /\ r \notin withdrawn
                                     /\ owner[r] = turn
                                     /\ now < deadline]_vars

(* No turn has two claims of one fixed helper. *)
FixedClaimedOnce ==
  \A r, s \in Issued :
    r # s /\ owner[r] = owner[s] /\ opOf[r] = opOf[s] => opOf[r] = Elevated

(* The budget of claims: each arm() authorises at most one head turn, and  *)
(* in one turn a fixed helper is claimed at most once, never refunded by a *)
(* failed attempt (arm, turn and claim).                                   *)
ClaimBudget ==
  /\ Cardinality({owner[r] : r \in Issued}) <= arms
  /\ FixedClaimedOnce

(* status, as the settings view shows it. *)
Status ==
  IF turn # None
    THEN IF now >= deadline THEN "expired"
         ELSE IF Unified \/ ~used THEN "active" ELSE "consumed"
    ELSE IF now >= armedUntil THEN "disabled" ELSE "armed"

(* The settings view's "active" is honest: status says so exactly while a  *)
(* thread inside the head turn could claim the armed operation, although   *)
(* status does not look at _used in a unified turn.                        *)
StatusIsHonest ==
  \A t \in Threads :
    ctx[t] # None => (Status = "active" <=> MayClaim(t, operation))

(* A tool result never states more than happened: "executed": false means  *)
(* the script was not and will not be started, true means it was, even     *)
(* when consent, helper and client race with the deadline                  *)
(* (run_approved_script, _wait_for_helper, the helper's receipts).         *)
ReportIsTruthful ==
  \A r \in RequestIds :
    /\ report[r] = "not_executed" => r \notin launched
    /\ report[r] = "executed" => r \in launched

(* What the gate says is true: to the user, of what may be claimed, and to *)
(* the model, of what was executed (status, run_approved_script).          *)
GateIsTruthful == StatusIsHonest /\ ReportIsTruthful

(* A waiting tool call always gets an answer: a decision, or "expired" at  *)
(* the latest when the turn's budget runs out.                             *)
WaitReturns == \A t \in Threads : pc[t] = "waiting" ~> pc[t] # "waiting"

-----------------------------------------------------------------------------
(* The inductive invariant behind the theorems of PrivilegedTurnProofs.    *)

(* Turn identities: the current one and every context were drawn; a thread *)
(* inside a head turn is inside the current one.                           *)
TurnInv ==
  /\ turn # None => turn \in begun
  /\ \A t \in Threads : ctx[t] # None => ctx[t] = turn
  /\ \A t, u \in Threads : ctx[t] # None /\ ctx[u] # None => t = u
  /\ \A r \in RequestIds : owner[r] # None => owner[r] \in begun

(* A claim is held by a thread inside the very turn that issued it: a      *)
(* worker profile never gets one and none outlives its turn.               *)
HeldInv ==
  /\ \A t \in Threads :
       /\ pc[t] \notin {"idle", "running"} =>
            held[t] # None /\ ctx[t] = owner[held[t]] /\ ctx[t] # None
       /\ pc[t] \in {"idle", "running"} => held[t] = None
  /\ \A t, u \in Threads : t # u /\ held[t] # None => held[t] # held[u]

(* What is in the gate's tables belongs to the current turn; an entry that *)
(* can still be handed off was not; and what was withdrawn is in no live   *)
(* table.                                                                  *)
TableInv ==
  /\ claims \subseteq Issued
  /\ Requested \subseteq claims
  /\ withdrawn \subseteq Issued
  /\ turn # None => \A r \in claims : owner[r] = turn
  /\ \A r \in RequestIds : decisions[r] \in {"pending", "accepted"} => handoffs[r] = 0
  /\ \A r \in RequestIds : decisions[r] = "accepted" => uiSaid[r] = "accept"
  /\ \A r \in claims : r \in withdrawn => turn = None \/ deadline = 0
  /\ turn # None /\ deadline # 0 /\ Unified => ~used

(* A request is handed off at most once, after acceptance, and only a      *)
(* request that was handed off has a helper or ran.                        *)
ExecInv ==
  /\ \A r \in RequestIds :
       /\ handoffs[r] \in {0, 1}
       /\ handoffs[r] = 1 => uiSaid[r] = "accept"
       /\ helper[r] # "absent" => handoffs[r] = 1
       /\ r \in launched <=> helper[r] \in {"executing", "unsure", "ran"}
  /\ \A t \in Threads :
       /\ pc[t] = "claimed" => handoffs[held[t]] = 0
       /\ pc[t] \in {"handed", "uac", "helper"} => handoffs[held[t]] = 1

(* A report is given when the tool call is over and its helper, if any,    *)
(* has reached the state the report tells of.                              *)
ReportInv ==
  /\ \A r \in RequestIds :
       /\ owner[r] = None => report[r] = "none" /\ helper[r] = "absent" /\ handoffs[r] = 0
       /\ report[r] = "not_executed" => helper[r] \in {"absent", "not_run"}
       /\ report[r] = "executed" => helper[r] = "ran"
  /\ \A t \in Threads :
       held[t] # None => /\ report[held[t]] = "none"
                         /\ pc[t] # "helper" => helper[held[t]] = "absent"

(* Everything in the gate's tables, in the agent threads' calls and in the *)
(* helpers agrees on which turn issued, which answer released and which    *)
(* step used up each request.                                              *)
GateInv ==
  /\ TypeOK
  /\ TurnInv
  /\ HeldInv
  /\ TableInv
  /\ ExecInv
  /\ ReportInv

(* The turns that took an arm: those that claimed and the open one, while  *)
(* it may claim.                                                           *)
Spent == {owner[r] : r \in Issued} \cup (IF turn # None /\ deadline # 0 THEN {turn} ELSE {})

(* An arm is outstanding or was spent on one turn, and the tables of the   *)
(* open turn remember what it has claimed.                                 *)
BudgetInv ==
  /\ IsFiniteSet(Spent)
  /\ Cardinality(Spent) + (IF armedUntil # 0 THEN 1 ELSE 0) <= arms
  /\ \A r \in Issued :
       owner[r] = turn => IF Unified THEN opOf[r] \in fixedUsed \cup {Elevated} ELSE used
  /\ FixedClaimedOnce

(* The inductive invariant. *)
IInv == GateInv /\ BudgetInv
=============================================================================
