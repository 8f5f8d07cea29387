# simple-ai-agent: TLA+ verification project

simple-ai-agent is a local coding agent: a Textual user interface drives one
head agent that calls tools (file edits, shell, search, elevated Windows
commands), and a "night shift" subsystem runs worker agents in disposable
Hyper-V machines. This directory holds TLA+ models of the parts of it that keep
state and can go wrong between two steps, the TLC configurations that check
them, and TLAPS proofs about them. `PROJECT.json` lists components, runs,
theorems, hazards and, for each definition, the source lines it models. Paths
below are relative to `src/`.

    tlc -workers 2 -config MCJobService.cfg MCJobService
    tlapm JobServiceProofs.tla

## 1. Inventory

| Component | Source | State | Operations | Talks to |
|---|---|---|---|---|
| Privileged turn gate | `runtime/privileged_turn.py`, `runtime/elevated_commands.py`, `runtime/privileged_host.py`, `tools/system/elevated.py` | arm deadline, current turn and its deadline, claims, requests with decisions, one lock | arm, revoke, turn enter and exit, claim, submit, accept, reject, wait, require_accepted, expire; elevation and its receipts | agent threads, UI thread, clock, elevated helper process |
| Agent loop | `core/agent.py`, `llm/openai_responses.py` | transcript, pending native tool calls, response id | step, set_llm, reset; restore of a chat | LLM service, tools, UI |
| Pending file operations | `editing/store.py`, `tools/fs/edit.py`, `tools/fs/ops.py` | list of proposals with status | propose edit, replace, create, move, copy, delete; approve; reject | file system, other programs, agent, operator |
| Night-shift job service | `night_shifts/service.py`, `state_machine.py`, `storage/sqlite.py` | job rows, event rows | create, transition, request_cancellation, run_local | CLI and runner processes, worker backend |
| Disposable Hyper-V worker | `night_shifts/backends/sandbox_worker.py`, `hyperv.py`, `hyperv_serial.py`, `hyperv_scripts/` | sandbox table, machine, disk, directory, workspace, serial session | run, cleanup, create, start, status, destroy, reconcile; reader thread | Hyper-V, guest, event store, caller that cancels |
| Tool session and execution loop | `night_shifts/tool_session.py`, `fixture_transfer.py`, `executor.py`, `job_execution.py`, `guest/fixture_transfer.py` | phase, offsets, request ids, operation lock; turn, call and cancellation of the loop | start, load_chunk, finalize, invoke, export_chunk, cancel, close; execute, run | guest, inference, canceller, machine |
| Inference gateway | `night_shifts/inference.py`, `process_inference.py` | leases, request budget, model process and its pipe | open, infer, close, cancel | worker thread, canceller, model process |
| Process worker backend | `night_shifts/backends/process.py`, `worker_process.py` | child process, reader thread, queue | run, terminate | job service, child |
| Artifacts and review | `night_shifts/artifacts.py`, `review_*.py`, `final_workspace.py`, `snapshot.py` | bundle directory, artifact copies, Git processes and their readers | collect, read, export | tool session, reviewer, Git |
| Guest runtime | `night_shifts/guest/` | repository, effects of calls, frames written | run_once, invoke | host over the serial channel |
| Serial and TLS pipes | `night_shifts/serial_pipe_io.py`, `bounded_tls_pipe.py`, `guest/serial_device_io.py`, `guest/bounded_tls_serial.py`, `maintenance_tls_prototype.py` | one pending overlapped operation, TLS state, pins, budget | open, handshake, send, receive, close | peer, Windows kernel |
| Native bootstrap | `night_shifts/bootstrap_native_*`, `guest/bootstrap_native_*`, `maintenance_store_native_prototype.py` | child, pipes, pidfd, kernel log cursor, held fixtures; handles and files | boot, supervise, observe; provision, materialize, probe | kernel, cloud-init, other programs |
| Mailbox and memory channels | `night_shifts/channels/`, `protocol.py` | files or lists | send, receive | worker, host |
| Image preparation and publication | `night_shifts/ubuntu_*preparation*.py`, `ubuntu_seed_attachment.py`, `image_*.py`, `guest/finalize_image_copy.py`, `backends/hyperv_scripts/*_image_*.ps1` | manifest, permanent claims, guard file; machine, disk, copy, export | create, attach, launch, retire; maintain, publish | operator's processes, Hyper-V, guest |
| Native validator launcher | `scripts/*.cs` | handles | launch | Windows |
| LLM clients and retry | `llm/` | retry budget | request, retry | LLM services |
| Response parser, tool registry | `core/protocol.py`, `core/tool_registry.py` | none | parse, register | agent loop |
| Chat store, runtime state | `runtime/chat_store.py`, `runtime/state.py` | turn files, settings | append, load | UI |
| Textual UI | `adapters/textual/` | mode, processing flag | commands, selection views | all of the above |
| Read-only tools, knowledge search | `tools/` | none, vector store | search, read | agent loop |

The parts meet in four places. The UI runs `Agent.step` on one worker thread and
refuses commands that touch the agent meanwhile, but calls the gate and the edit
store at any time. A tool call of that thread may sit in the gate's `wait()`
until the operator answers. `NightShiftService.run_local` calls a worker backend
between two of its own writes. The backend owns a machine, a serial session with
a reader thread, and rows in two SQLite stores, none of which change together.

The hard behaviours are in `PROJECT.json` under `hazards`: for the gate,
revocation and timeouts racing an approval; for the job service, overlapping
read-modify-writes and a crash between row and event; for the sandbox, death
anywhere in a row of external effects and results racing cancellation; for the
edit store, a file tree that changes between review and approval; for the agent
loop, what a failed request leaves to the next turn; for a worker run, a
cancellation that comes between any two steps of an exchange, and threads that
read for a process that is gone; for the native prototypes, cleanup whose
outcome is unknown, and files nobody holds for a moment; for images, stale
records in several processes, and a death between a command and its record.

What makes each correct:

- gate: a request is handed to elevation at most once, after the operator
  accepted it, within the turn and deadline that issued it, and what the tool
  says of the execution is true;
- agent loop: the model reads one true answer to each tool call and nothing of a
  conversation that was reset, and every turn ends;
- edit store: an approval changes the text that was reviewed, once, and nothing
  that no review named;
- job service: statuses follow the life cycle, a second backend on a job costs a
  lost update (the service has no transactional claim), the event trail says what
  happened;
- sandbox: whatever is left after a crash or failure can be found again and is
  reported; a success has a complete stream and collected artifacts;
- worker run: host and guest agree on what was transferred, a call takes effect
  once, a revoked model is asked nothing, what is stored or returned is whole,
  and every run returns;
- native prototypes: what a summary or exit status says was observed or done,
  whatever failed, and every program ends;
- images: whatever raced, failed or died, a machine is started and seeded at most
  once, and a record that claims to know the host's state is right.

## 2. Modules

### PrivilegedTurn

State is that of `PrivilegedTurn.__init__`, per thread the position in its tool
call (`pc`), and the elevated helper of each request. Every method runs under
one lock, so an action is a method call; agent threads, the UI and the clock
interleave between them. The helper process goes through the steps of
`privileged_command_helper.ps1` up to the receipt it may or may not leave. The
two fixed helpers (host evidence, image inspection) are claimed through the same
table; their own receipts are not followed. History variables (`owner`, `due`,
`withdrawn`, `handoffs`, `launched`) remember which turn issued a claim, until
when, and what became of it.

### JobStates, JobLifecycle, JobService

`JobStates` is the transition table of `state_machine.py`. `JobLifecycle` is
what the service promises of one job: a row that moves along that table, and a
cancellation that stays, lost updates excepted. `JobService` is the service: `transition` and
`request_cancellation` are a read, a write of the whole row and an append of an
event, three SQLite transactions; `run_local` is a sequence of such calls around
a backend. A crash may fall between any two. Nothing in the code keeps calls of
two processes apart, so calls overlap as they like. Two history variables tell what
came of it: `overlap` is set when a call reads while another is past its read, `lost`
counts the writes over a row that was not the row read. The service implements
`JobLifecycle` (`ImplementsLifecycle`; `row` and `lost` are mapped to `row` and
`lost`), whose promise has one exception, `LoseUpdate`: only a counted lost update
leaves the table or withdraws a cancellation.

### SandboxWorker

A step is one external effect: the part of a PowerShell script between two
effects on Hyper-V, a directory operation, a write to a store, a message on the
serial channel. The single process is `pc`; the guest, the reader thread, the
canceller and the clock act on their own. Every operation may raise (bounded by
`MaxFaults`), the process may die at any point, the sandbox table may be lost,
and a later process reconciles.

### PendingEdits

The file tree is a function from path names to absent, directory or file; a file
is a row of regions holding texts, so that an exact edit has zero, one or many
matches and two changes can overlap. Beside its text a file has the way its lines
end on disk, because `read_text()` does not see it and `write_text()` does not
keep it: an approved edit leaves the whole file with the endings of the platform
(`Written`), and a file whose endings alone changed compares equal. Each kind of
proposal is checked and recorded as in `propose_*`; `approve` re-checks and
applies it in one step, or meets an `OSError` in the middle (`ApproveFails`) and
leaves any part of its effect (`Interrupted`): a file cut short, a tree partly
removed or partly copied, a copy whose source is still there. The proposal stays
pending then and may be approved again. Other programs create, change (text or
endings) and delete between calls.

### AgentLoop

The loop of `Agent._step`: a request, its reply of one of six kinds, the tool
batch, and the next iteration. A chat-completions client carries everything in
`messages`. For a Responses client `chain` stands for the conversation the
provider stores: the calls it waits for (`owed`); a request that does not answer
exactly those is refused (`Accepted`, the provider's half of it is external).
Between turns the UI may switch models, reset, or restore a chat. A reply the
parser calls invalid is an empty reply here, as in the code (section 6).

### NightWorker and its parts

One run of a worker on the host, in the forms the code has; nothing under `src/`
combines two of them on one sandbox, so `form` is drawn at the beginning. All
share `WorkerControl`: the deadline, the cancellation request
(`executor.py`, `ExecutionControl`) and the budget of operations that raise.

| Module | Models | A step is |
|---|---|---|
| `ToolSession` | `SandboxToolSession` and the guest's `FixtureGuestSession` | the checks under the locks, the send, the guest, the receive with its second look at the phase, the updates after the locks, each half of an abort |
| `FixtureRun` | `run_fixture_in_sandbox`, `transfer_fixture` over a `ToolSession`, which whoever made it may cancel during loads and exports | a provider call or a session operation |
| `Inference` | one session of the gateway, `ProcessInferenceModel`, its child | what lies between two points at which a revocation may come |
| `GuestTools` | the guest's tools over repository, commands and artifacts | a tool call, which may raise before or after its effect |
| `HostJob` | `MediatedModelExecutor.execute` inside `HostJobExecution.run` | a round of the loop, a call, a cleanup operation |
| `ReviewBundle` | `collect_after_worker`, `ReviewBundleStore`, `ArtifactRetriever` | a retrieval, a write that may be torn by a crash |
| `ProcessWorker` | `ProcessWorkerBackend.run` and its child | a line written, moved by the reader, or taken; a poll |
| `SnapshotExport` | `GitSnapshotExporter.export` over `_bounded_git` | a Git command, a chunk its readers take, a poll |
| `GuestRuntime` | `run_once` and its frames | a frame written whole, in part or not at all |

Two threads revoke a model (`Revokers`), the run's own cleanup and the
canceller; both go through the same steps at the same time.

### NativeBootstrap and its parts

The prototypes of the native bootstrap, and the operator's work on images.
Nothing under `src/` starts them but each other, so each is a form of its own. `NativeWorker` is one supervised worker on
both sides of its pipes, with the kernel's audit log, in which records of earlier
processes precede and others interleave; `NativeSequence` is the boot entry, the
held fixtures and the eleven workers in order; `NativeStore` is the three bodies
that create files under handles while another program may write wherever no
handle forbids it, and which may die and be run again; `SerialTls` is both ends
of a session, with the kernel that completes an overlapped transfer before,
after or in spite of its cancellation.

`ImagePreparation` is one preparation machine and several processes that attach,
launch and retire it. A step is what lies between two looks at, or writes of, the
control directory, or a script on the host; what an interrupted step leaves is
drawn (`Interrupted`): a claim made or not, a `manifest.pending`, the machine as
the script found it, left it or anything between. `MachineLifecycle` states what
`manifest.json` promises without operators, guards, claims and mishaps: a command is
announced on disk before anything of the machine changes, changes what it is for and
nothing else, and is concluded only when the machine is as the record will say; one
disk, one seed, one start, and nothing after a retirement. The refinement mapping
(`status` is `manifest`, `machine` is `host`) is in `NativeBootstrap`. `ImageMaintenance` is one
maintenance (`attempt` for the Python caller and its script, `bench` for the
disks and the machine, `rescue` for the guest, which runs on when script and
caller are gone) and two processes that publish its result (`export`, `pub`).

## 3. Runs

| Run | Question | Bounds | Result |
|---|---|---|---|
| `privileged_turn` | Is elevation bound to one acceptance, in time, in its turn, reported truthfully? | 2 threads, 2 turns, 2 requests, clock 0..2, 2 arms | passes, 1.3 M states |
| `job_service` | What does the service keep of the life cycle, the trail, the claim and the end of a run when calls overlap? | 2 callers, 5 calls, 1 crash | passes, 1.0 M states |
| `job_service_claim` | Is a queued job executed by one backend? | 2 callers, 4 calls | violated |
| `job_service_race` | Does a cancellation survive overlapping calls? | 2 callers, 5 calls | violated |
| `sandbox_worker` | Can what is left always be found, is it reported, does run() return? | 2 sandboxes, 1 fault, 1 crash, 1 reconcile, 1 lost table, 1 queued event | passes, 1.65 M states |
| `sandbox_vanish` | Does reconcile clean everything if a machine disappeared? | 1 sandbox, 1 crash | violated |
| `pending_edits` | Do approvals do what was reviewed and touch nothing else, after others' changes and half-way failures? | 4 names (2 nested), 2 regions, 3 texts, 2 line endings, 2 inputs, 1 of them a fault | passes, 1.2 M states |
| `pending_edits_force` | Does a failed approval change nothing? | 1 input | violated |
| `agent_loop` | Are calls answered once and truthfully over failures, resets and model switches? | 2 turns, 3 requests per turn, batches of 1 and 3 with limit 2, 2 clients | passes, 0.5 M states |
| `agent_switch` | Does a model switch refresh what belongs to the old client? | 1 turn | violated |
| `night_worker` | Are transfer, calls, revocation, evidence and results of a worker run true, and does it return? | 1 fault, 2 chunks each way, 2 model requests, 2 turns and 2 calls, 3 call ids, 2 artifacts, 3 lines, 3 paths (listing and files at most 2), 2 events | passes, 0.84 M states |
| `native_bootstrap` | Are reports, exit statuses, messages and image records earned, and do the programs end? | 1 fault, 3 log records per worker, 2 boots, 2 fixtures (8 in the code), 2 runs, 2 messages; 2 operator processes, 3 calls, 2 mishaps | passes, 0.64 M states |

Why the bounds reach the interesting cases. Two requests and two turns let a
request of one turn be answered in the next; time 2 is past one arm and one turn.
Five calls cover create, queue and run_local with a competing run, and a cancellation
or a person's transition that races both, or a retry after the crash; two callers are
enough for every way in which one call reads what another is about to change. One fault and one crash together reach cleanup that fails
after a fault, and reconcile after a death in cleanup; two sandboxes are needed
for one that strands another in a reconcile. Two inputs to the edit store are a
proposal and a change of the tree or of a file's endings, a proposal and a failure in
the middle of its approval, which is then repeated, or two proposals that interfere. Two turns are
enough to leave something pending and to meet it; a batch of three over a limit
of two has an executed, a failed or skipped, and an excess call. In a worker run
two chunks are a first and a last one; two requests let a model repeat in its
second reply a call of the first; a batch of two ends at a limit or at a
cancellation in the middle; three lines are an event, a result and one too many;
three paths over a listing and a file list of two make either of
them one too long. One fault is enough to fail a cleanup after a cancellation, which is
no fault, or after the deadline. Two boots are cloud-init running the entry
again, two runs the retry of a body that died; two messages can be reordered.
Three calls on an image are an attachment, a launch and a retirement, or two of a
kind that race; two mishaps are a death and a failure of what comes after it.
No symmetry is used. `CHECK_DEADLOCK FALSE` is set throughout since callers may stop, and the
bounds make them.

The properties, in short:

- `IInv` of the gate and the job service are the inductive invariants of section 5.
- `HandoffOncePerAcceptance`, `HandoffOnlyUnderAuthority`, `ClaimBudget`,
  `GateIsTruthful` (`StatusIsHonest`, `ReportIsTruthful`), `WaitReturns`: the gate.
- `SecondBackendNeedsLostUpdate` (n backends at once only after n - 1 lost updates),
  `TrailIsComplete` (one gap per crash at most, until two calls overlap),
  `ImplementsLifecycle` (a write is an edge of the table or a lost update), `RunEnds`:
  the job service.
- `Traceable` (a machine or disk has a row that is not final),
  `CleanUnlessFailed`, `SuccessIsComplete`, `ReconcileLeavesNothing`,
  `RunReturns`: the sandbox.
- `AppliedAsReviewed` (the text of an edited file changes as the reviewed diff says
  and what others changed in it stays; its line endings become the platform's;
  creations, moves, copies and deletions show in the tree), `NoClobber`,
  `EffectOnce`: edits.
- `EveryCallIsAnswered` (one answer to each call, and a true one),
  `NothingOutlivesReset`, `AnswersHearEverything`, `TurnEnds`: the agent loop.
- `TransferIsWhole` (host and guest in step at every moment, a success complete),
  `RevocationHolds` (no dispatch after a revocation, no clean end over a live
  process), `CallsOnce` (ids, cancellation,
  artifacts), `BundleIsHonest` (what is stored is whole wherever the host died,
  what is ready for review was done), `ResultsAreWhole` (what child processes,
  Git and the guest return), `RunsReturn`: worker runs.
- `ReportIsEarned` (the denials counted and the summary), `StoreIsEarned` (exit
  statuses, records, paths), `ChannelIsHonest` (order, pins, buffers),
  `ImageIsEarned` (one operation at a time, one start, one seed, true records, an
  export that is the finished copy), `ImplementsMachine` (`manifest.json` keeps the
  promises of `MachineLifecycle`), `ProgramsEnd`: the native prototypes and images.

Each has a mutant, a definition changed the way a plausible bug would, under which
the run finds it violated.

## 4. Fairness

- Gate: the clock ticks, and a thread in `wait()` or `_wait_for_helper()` polls
  (both loop with a timeout). The operator, the model and the helper owe nothing.
- Job service: a caller inside a call goes on; backends have a timeout
  (`budget.timeout_seconds`). `RunEnds` excuses a crash, since nothing in the
  code picks up a job whose runner died, and a lost update, which may put "running" back
  over the final status.
- Sandbox: the process goes on and its deadline passes; PowerShell calls and
  polls have timeouts. The guest, the pipe and the operator owe nothing.
- Agent loop: a turn goes on, because requests time out after 180 s and the
  tools have limits of their own. The user owes nothing.
- Worker runs (`HostNext`, `ClockNext`): the host's threads are scheduled, the
  deadline passes, and the waits after it (closing, reaping, joining) have
  timeouts of their own. Guest, machine, model process, Git and the canceller owe
  nothing. Neither does the guest's own program (`GuestProgram`): it reads its task
  from the channel (`guest/runtime.py:146`) and runs its executor (`:132`) without a
  limit, so `RunsReturn` excludes that form. And a child process need not read its
  task: `ProcessWorkerBackend.run` writes it to the child's stdin before it has a
  deadline (`process.py:84-91`). `TaskTaken` has no fairness, `RunsReturn` assumes
  that the write does not last for ever (`[]<>(ppc # "task")`); of a child that
  never reads, its conclusion is false (section 6).
- Native prototypes (`ProgramStep`, `ClockNext`): the same; `boot()` has the
  timeout of its phase process, the supervisor a deadline for each worker. The
  kernel, the children and the serial line owe nothing. An operator's call goes on,
  since every script has a timeout; guests, and operators between calls, owe nothing.
- Edit store: no liveness is claimed and no fairness assumed.

## 5. Proofs

`PrivilegedTurnProofs` proves, for any sets of threads, turns and requests, any
durations and an unbounded clock, `Spec => []IInv` and from it type correctness,
`HandoffOncePerAcceptance`, `ClaimBudget`, `GateIsTruthful` and
`HandoffOnlyUnderAuthority`, from `GateAssumption` (durations are numbers, None
is none of the identities). None of these is inductive. `IInv` adds to the
types: `TurnInv` (the open turn and every thread's context carry an identity that
was drawn, and one thread at most is inside a head turn), `HeldInv` (a thread in
a tool call holds a claim of the turn it is in, and no other thread holds it),
`TableInv` (what the tables hold belongs to the open turn, and what can still be
handed off was not), `ExecInv` (at most one hand-off, after acceptance, before any
helper) and `ReportInv` (a report agrees with the state its helper ended in). The
step lemma has one step per action and under it one per conjunct. For `ClaimBudget`,
`BudgetInv` counts what the arms were spent on: the turns that claimed something and
the open one if it took an arm (`Spent`), together with the arm still outstanding, are
never more than the arms. Each step adds one turn to that set at most (`BudgetFrame`,
and `FS_AddElement` of the library), and what a turn has claimed is in `fixedUsed`
and `used` as long as it is open.

`JobServiceProofs` proves all the safety of the job service for any number of callers,
calls and crashes, without an assumption on how calls overlap. `IInv` has two parts.
`Overlapping` holds always: `PhaseMatchesCall` (where run_local() is fits the call it has
in progress), `AcceptedInside` (a call past its checks passed them on the row it read)
and `ClaimsPaid`: the callers that have claimed the job (`Holders`) are no more than the
lost updates, and one more while the stored row says that it is claimed. The only step
that adds a holder writes "provisioning" over the row: either the row is still the
"queued" one that was read, which nobody had claimed, or the update of somebody else is
lost (`WritePays`; `ClaimsKept` for every other step). `ClaimsCost` follows, that is
`SecondBackendNeedsLostUpdate`. So does `Refinement` (`Spec => ImplementsLifecycle`): a row
computed from a row that passed the checks is a step of `JobLifecycle` if that row is
still the stored one (`NewRowIsStep`), and is counted as lost if not. The other part
holds until two calls overlap: `FreshRead` (a call in progress has read the row that is
still stored) and `TrailKept`: between the write of a row and the append of its event
the trail told the row that was read, so an event appended closes the gap it is for
(`AppendCloses`), and a crash in between leaves one more. `TrailTells` proves
`TrailIsComplete` from it.

`SandboxWorkerProofs` proves `TypeOK`, `Traceable`, `CleanUnlessFailed`,
`SuccessIsComplete` and `ReconcileLeavesNothing` for any sandboxes and any number of
faults, crashes, reconciliations, lost tables and queued events, from
`SandboxAssumption` (bounds are numbers, only a sandbox vanishes, None is neither a
sandbox nor an outcome). What holds at the end of a run depends on every step before
it, so the invariant says what each position in `run()` already knows: `Activity` (a
run and a reconciliation exclude each other, and a run works on a sandbox of its own),
`RowFirst` (the row is stored before the machine and closed after it), `MachineStays`
(a created machine is marked), `DestroyOrder`, `LocalsTell` (the locals of `run()` say
what there is to remove), `CleanupHonest` (a cleanup without an error removed
everything), `OneTask` and `DoneIsLast` (one task, and a result frame is the last
thing read), `ResultKnown`, `SuccessIsSaid`, `SweepHonest` (what a reconciliation
is done with is gone or reported).

`PendingEditsProofs` proves `TypeOK`, `EffectOnce`, `NoClobber` and `AppliedAsReviewed` for
any paths closed under parents, any finite set of regions, any texts, line endings and
initial contents and any number of proposals, foreign changes and faults
(`EditsAssumption`). Two things make it hard. The tree must stay one (a file has no
children, what exists has a parent that is a directory) when a subtree is moved
or copied over, under or beside another, or left half moved by an `OSError`
(`InterruptedTree`, from `PartlyTree`), which rests on lemmas about prefixes and
`Rebase`; and what a half-way failure touches was named in the review like what an
approval does. And approving an exact edit applies its batch to a content that changed
since the review, while `AppliedAsReviewed` compares regions: `Replay` shows that a
batch that goes through on both contents matches the same regions up to a
bijection. Both runs of the batch are rows of intermediate contents; the
correspondence of step k follows from that of step k - 1, and since no induction
principle can be cited, the proof takes the least k without one and derives a
contradiction (`Least`). The invariant itself adds `Honest`: what is stored of a
proposal is what its review computed.

`AgentLoopProofs` proves `TypeOK`, `EveryCallIsAnswered`, `NothingOutlivesReset`
and `AnswersHearEverything` for any limits of the code and any numbers of turns, clients
and batch sizes (`AgentAssumption`: `MaxSteps > 2`, since the loop reminds the model two steps
before its end). The invariant adds `BatchShape` (what ran of a batch are its first calls),
`Older` (pending calls are from earlier iterations of this conversation), `Owed` (the
provider waits for the pending outputs of this client, or for those of the running
batch, and for nothing else), `StoredHeard` (a stored conversation lacks at most
the message to be sent next) and `Transcript` (the transcript is well formed but
for a running batch).

`NativeBootstrapProofs` treats each form with an invariant of its own, for any numbers
of fixtures, boots, log records, runs, messages, operators, calls and mishaps.
`StoreCorrect` and `StoreEarned`: `RefusalsAreClean` (what an exit code claims still
holds), `WrittenInOrder` (while a run builds, the outputs before its position are whole,
and the handles it has are those of its stage), `FinishedForGood` and `RecordIsLast` (the
record is whole only after everything it speaks of). `PreparationCorrect`: `StatusHolds`
(what `manifest.json` says of the host) and, for each operator in a call,
`CallFits`: its position, what it has read, the claims and the lock fit, and nobody
else is between its write and the end of its script. `MaintenanceCorrect`: the same
for an attempt, its copy, and the publications (`AttemptFollows`, `CopyFollows`,
`PublicationFollows`: at most one publication is past its claim).
`ImageEarned` follows from the last two. `ChannelCorrect` and `ChannelEarned`: `Genuines` (the
records an end that has sent k messages can have made, each half under the number that it
has in the session, besides foreign ones), `RecordsAreGenuine` (nothing else is buffered, on the
wire or in a transfer, whatever the line drops, repeats or invents), `SessionFollows`
(the number of the next record follows from the messages given and taken, so only the next
half fits) and `DescriptorFollows` (an outstanding transfer is the one its
operation waits for, until it is given up). The proof that a script may be
interrupted anywhere (`Interrupted`, `PublicationFails`) is by its outcomes: each
state it may leave satisfies the invariant. `MachineRefined` (`Spec => ImplementsMachine`)
takes that further: under `PreparationInv` each step of an operator is a step of
`MachineLifecycle` or a stutter, a write of the manifest by `StoreRefines`, a script by
`CommandRefines`, what an interrupted one leaves by `InterruptedRefines`.
`SequenceCorrect` and `ReportEarned`: `LogFollows` (no record of another process under the
child's id comes after the cursor, because the child is reaped only once the log is
closed), `EvidenceFollows` (the denials counted are the child's own, `OwnDenials`),
`FixturesFollow` and `FailureFollows` (what is open, and what failed, at each position of
the observer), `BootFollows` and `ConsoleFollows` (the workers done and the summary
written are those of this boot). `BoundsCorrect` and `TypeCorrect`: a step of a
form pays for a fault, or the mishap it meets, from that form's budget, and moves no
variable of another form.
They rest on `LogAssumption`, `SequenceAssumption`, `RunsAssumption` and `BoundsAssumption`,
which say that the bounds are numbers, and on what the modules say of names that must differ.

`NightWorkerProofs` and `NightJobProofs` prove all the safety of worker runs, for any
numbers of chunks, turns, calls, requests, lines, events, paths and faults. A form
that is not the one of a behaviour rests, so each form has an invariant of its own and
the rest is a frame condition.

- `TransfersAreWhole`: `SessionInv` adds to `Agreement` what an operation in flight and
  the frame on the wire say (`OpFits`, `WireFits`, and `Served`: a good reply tells what the guest
  has done; it is why the host counts a chunk only when the guest has it), and that an
  unfinished end still waits for chunks (`Unfinished`). It holds in every form; `FixtureFits`
  follows a fixture run to its destroyed machine, with a canceller that may have closed the
  session first (`Cancelled`) or still has its transport to close (`LeftToCanceller`).
- `BundlesAreHonest`: `InOrder` (a file that exists was preceded by whole ones, and the report says
  what was so when it was written), `ReviewFits` (what the collection knows at its
  position), `CopiesWhole`.
- `CallsTakeEffectOnce`: `BatchFits` (calls to be made have not been seen), `EffectsFit`
  (the call on the line had no effect yet), `OneIsLate`, `ArtifactsFit`.
- `RevocationsHold`: `RevocationFits` and `ModelFits` (who revokes, how far each thread
  is, and that a model that was stopped and is not being closed is dead or reported),
  `SubmissionFits`. The first half is an action property: the only step that
  dispatches needs a pipe that a finished revocation has closed.
- `ResultsWhole`: `Counted` (the lines taken and the events recorded agree at every position
  of `run()`, by one line more or one append at a time), `FramesFit` (the frames
  written are the events emitted until something breaks), `PipesFit` (a settled command's output
  was read to its end), `EntriesFit` (what is exported and what is still to be
  are the tree).
- `TypeCorrect`, from all of these.

They rest on the assumptions on constants in the modules (bounds are numbers, at
least 1 where the code's configuration demands it: `SessionAssumption`,
`InferenceAssumption`, `JobAssumption`, `SnapshotAssumption`) and on `NoneAssumption`: an
operation is not `None`.

Model-checked only: liveness (`WaitReturns`, `RunEnds`, `RunReturns`, `TurnEnds`,
`RunsReturn`, `ProgramsEnd`), because the provers do not reason about fairness and
ENABLED. Every invariant and every action property of a passing run is also a theorem.

## 6. Where code and documents disagree

Shown by a run (`findings` in `PROJECT.json`):

1. `job_service_race`: `transition()` writes back the row it read, and undoes a
   cancellation committed in between.
2. `sandbox_vanish`: `status()` records a machine that Hyper-V does not know as
   destroyed; after a crash reconcile skips it and its disk stays.
3. `pending_edits_force`: a forced move or copy onto a directory above its source
   deletes both and then fails.
4. `agent_switch`: `set_llm()` keeps the tool outputs pending for the old client;
   a new Responses client refuses them, and every turn fails until a reset.
5. `job_service_claim`: two runners that both read a queued job both start a backend
   on it; the claim is a read and a whole-row write (`service.py:44-53`).
   `ClaimsCost` says that this is the only way, one lost update for each backend more.

Met while modelling, modelled as the code has it, without a run of their own:

- `_is_effectively_empty()` (`core/agent.py:270`) is true of every reply the parser
  calls invalid, so the branch for invalid replies (`core/agent.py:706`), with its
  parser error and its retry limit, is never reached: the model is told its reply
  was empty.
- With a Responses client the reminder of the last steps (`core/agent.py:530`) is
  appended to `messages`, but not sent when tool outputs are submitted; and when
  it follows a result of a tool call written as text, it is the only message sent
  (`llm/openai_responses.py:108`) and the result is not.
- With a Responses client, the message of a turn whose request failed is not sent
  with the next turn; `AnswersHearEverything` excepts this case.
- The settings view (`adapters/textual/app.py:650`) and the system prompt
  (`core/agent.py:168`) speak of a limit of 60 seconds for elevated commands,
  `MAX_TIMEOUT` is 900 (`runtime/elevated_commands.py:23`).
- `HostJobExecution.run` always closes its tool session
  (`job_execution.py:114`), but `review_collection.py:3` expects to be called "after
  the worker loop, while the VM still exists" with a session that can export; nothing
  composes them.
- A transport that fails to close in `_abort()` (`tool_session.py:435`) is swallowed
  by the executor, and a later `cancel()` is silent, so the run reports no cleanup
  failure; `ProcessInferenceModel` remembers one. A reaping failure met by
  `cancel_client()` is told to the canceller only (`RevocationHolds` asks no more).
- A cancellation that comes late takes the place of a submitted result, not of a
  blocked one (`job_execution.py`).
- `ProcessWorkerBackend.run` writes the task to the stdin of its child before it has a
  deadline or looks at the cancellation (`process.py:84-91`), and blocks for as long as
  the child does not read; `backends/base.py:24` says "Run a task until a result,
  cancellation, failure, or timeout."
- On POSIX `apply_patch` unlinks the temporary name it has just renamed away, and
  reports an edit that was made as an error (`guest/repository.py:285`);
  `test_guest_repository_offline.py:29` asserts that it does not.
- In `ProcessWorkerBackend.run`, an event that cannot be recorded leaves the child
  running; a descendant that holds stdout makes a finished run a timeout.
- "Whole-file replacements are rejected as stale", says `editing/store.py:16`, but files
  are compared after `read_text()`: when another program changed only the line endings
  of a file, its replacement is applied all the same (`store.py:329-362`).
- An approved edit rewrites every line ending of its file, also in regions that the
  reviewed diff does not show (`store.py:362`): on Windows a file of LF lines comes
  out with CRLF, elsewhere one of CRLF lines with LF. `AppliedAsReviewed` says so of
  the whole file.
- A forced move to another device whose copy succeeded and whose source could not be
  removed stays pending; approved again it first deletes the complete copy and then
  moves what is left of the source (`store.py:391-394`).
- A fixture run whose session is cancelled after its last chunk reports success, and
  may do so while the canceller has not closed the transport yet: `close()` is silent
  when somebody else has set `_closed` (`tool_session.py:262-268`).
- `collect_after_worker` passes no replay receipt, so what it stores is never ready
  for review; a crash while `complete.json` is written makes `read()` raise instead
  of reporting an incomplete bundle.
- `runtime.py:3` says the guest "exits on channel failure"; `run_once`
  catches a channel error raised in `emit` and writes a failed result behind the
  torn frame. One event too many turns a finished task into a failed one.
- The output of `run_command` near 16 KiB becomes an error after the command ran
  (`guest/tools.py`).
- When the constructor of the native owner or of the kernel capture fails to clean
  up after itself, the caller holds no object, and the failure stays
  `worker_observation_unknown` (`bootstrap_native_capture.py:334`); `_RETAINED` still
  blocks later workers. When `boot()` times out only the phase process is killed; its
  worker lives until its own deadline.
- When the result of a maintenance cannot be stored, the handler stores it again
  (`image_finalization.py:276`) with the status of the success, and the caller is
  told that it failed; a publication accepts what is stored. The manifest is true,
  so `ImageIsEarned` holds.
- `create_image_preparation_vm()` does not take the guard the other operations
  share; what keeps a retirement away from a creation still at work is the
  operator's `unknown_state_reviewed`.

## 7. Not modelled

Parsing, wire formats and prompt text; read-only tools and knowledge search (no
state of their own); the chat store (written once per turn from one thread); the
UI beyond its calls on modelled parts; the mailbox channels (single operations
without state between them); the validator launcher (Windows calls in a fixed
order, one actor); the inspection of ISO images, seeds and bundles before an image
is prepared; the retry of `llm/openai_flex.py`
(attempt and deadline of one call). Within modelled parts: `pause()` and `stop()`
of the Hyper-V controller, which `run()` never calls; a daemon reader that
outlives its run and may connect again under a sandbox id nobody uses any more;
file-system races inside one `approve()`; the text of a proposal or of a review that has
carriage returns of its own, and the endings of single lines (a file has one kind, mixed
ones being a kind of their own); a cancellation during the retrieval for a review, whose
session no other thread is given; receipts of the two fixed privileged
helpers; the agent's audit records; a Responses client whose stored conversation
waits for calls with unusable arguments (`EveryCallIsAnswered` excepts them);
processes a guest's command leaves behind; a script that outlives its dead caller,
and another program that writes a maintenance copy before it is hashed; token usage; process ids, and a late
audit record of an earlier process with the same id; TLS writes that want to
read first; byte limits, names, modes, ACLs and digests, each of which is as
expected or a refusal. `components` in `PROJECT.json` gives the reason for each
part.

## 8. Plan

What is left is proofs; new modules only where a change of the code asks for one.

1. Abstract specifications, with their refinements, of the other records an operator
   trusts: the rows of the sandbox table (`SandboxWorker`), and the two ends of the serial
   line as a channel that may only end early (`SerialTls`).
2. The safety half of the liveness properties: that a call which goes on goes forward,
   so that `RunReturns` and `TurnEnds` rest on fairness alone.
