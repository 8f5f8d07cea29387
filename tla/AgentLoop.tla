------------------------------ MODULE AgentLoop ------------------------------
(***************************************************************************)
(* core/agent.py (Agent.step, set_llm, reset): the turns of the agent over *)
(* an LLM client.  A chat-completions client replays the whole transcript  *)
(* with every request.  A Responses client (llm/openai_responses.py)       *)
(* continues a conversation that the provider stores: it sends the last    *)
(* message only, or the outputs of the tool calls the provider waits for.  *)
(*                                                                         *)
(* The UI (adapters/textual/app.py) runs one turn at a time on a worker    *)
(* thread and refuses to reset, restore or switch models during a turn.    *)
(* Left out: callbacks, audit records, the privileged gate (module         *)
(* PrivilegedTurn) and the api_type mismatch check: the UI replaces the    *)
(* model configuration and the client together.                            *)
(***************************************************************************)
EXTENDS Integers, Sequences, FiniteSets, SequencesExt

CONSTANTS MaxSteps,         \* MAX_AGENT_STEPS
          MaxEmptyRetries,  \* MAX_EMPTY_RETRIES
          MaxBatch,         \* MAX_BATCH_TOOL_CALLS
          BatchSizes,       \* how many tool calls a reply may ask for
          MaxTurns,         \* bound: user turns
          MaxClients        \* bound: LLM clients, the first included

ASSUME AgentAssumption ==
  /\ {MaxEmptyRetries, MaxTurns} \subseteq Nat
  /\ {MaxBatch, MaxClients} \subseteq Nat \ {0}
  /\ MaxSteps \in Nat /\ MaxSteps > 2
  /\ BatchSizes \subseteq Nat \ {0}

VARIABLES pc,        \* where step() is
          turn,      \* user turns so far
          since,     \* history: the last turn before the present conversation
          api, client,  \* self._api_type, self.llm: the client in use, by number
          messages,  \* self.messages, without the system message
          step, empties,  \* the loop's counters of the running turn
          calls, ran,     \* the tool calls of the running batch, and how the executed ones ended
          pending,   \* self._pending_native_tool_calls
          pendingOf, \* history: the client that asked for the pending calls
          chain,     \* the stored conversation at self._last_response_id
          heard,     \* history: turns whose message reached the model in this conversation
          told,      \* history: the outcomes reported for the last batch
          missed,    \* history: a request of this client failed, or a turn left calls pending
          garbled,   \* history: a reply of this client could not be used
          outcome    \* history: how step() ended last, in this conversation with this client

loopVars == <<step, empties, calls, ran, told>>
clientVars == <<api, client>>
historyVars == <<heard, missed, garbled, outcome>>
vars == <<pc, turn, since, clientVars, messages, loopVars, pending, pendingOf, chain, historyVars>>

Apis == {"chat_completions", "responses"}
NoChain == [stored |-> FALSE, owed |-> <<>>]
Stored(ids) == [stored |-> TRUE, owed |-> ids]
Restored == 0     \* the turn of a message that a restored chat brings

User(t) == [role |-> "user", turn |-> t]
Note == [role |-> "note"]                 \* a user message the agent itself wrote
Said == [role |-> "assistant"]
Asked(ids) == [role |-> "calls", ids |-> ids]
Result(id) == [role |-> "tool", id |-> id]

Init ==
  /\ pc = "idle" /\ turn = 0 /\ since = 0
  /\ api \in Apis /\ client = 1
  /\ messages = <<>>
  /\ step = 0 /\ empties = 0
  /\ calls = <<>> /\ ran = <<>> /\ told = <<>>
  /\ pending = <<>> /\ pendingOf = 1
  /\ chain = NoChain
  /\ heard = {} /\ missed = FALSE /\ garbled = FALSE
  /\ outcome = "none"

-----------------------------------------------------------------------------
(* What a request carries. *)
UsersIn(msgs) == {m.turn : m \in {x \in ToSet(msgs) : x.role = "user"}}

(* Outputs are submitted when some are pending and the client takes them.  *)
SubmitsOutputs == pending # <<>> /\ api = "responses"

(* Mutant: the oldest message stands for the new ones. *)
OldestMessage(msgs) == IF msgs = <<>> THEN <<>> ELSE <<Head(msgs)>>

LatestMessage(msgs) == IF msgs = <<>> THEN <<>> ELSE <<Last(msgs)>>

(* The input of chat(). *)
Input == IF chain.stored THEN LatestMessage(messages) ELSE messages

Ids(pairs) == [i \in DOMAIN pairs |-> pairs[i].id]

(* The service takes a request when it answers exactly the tool calls the  *)
(* stored conversation waits for; submit_tool_outputs() itself refuses     *)
(* without a stored conversation.                                          *)
Accepted ==
  IF SubmitsOutputs THEN chain.stored /\ Ids(pending) = chain.owed
                    ELSE chain.owed = <<>>

-----------------------------------------------------------------------------
(* The end of a turn, and of an iteration of its loop. *)
ReturnWith(o) ==
  /\ pc' = "idle"
  /\ outcome' = o
  /\ UNCHANGED step

(* Mutant: only replies with a final answer count as steps. *)
StepStays(s) == s

StepAfter(s) == s + 1

(* What an iteration that starts appends first. *)
Reminder(s) == IF s = MaxSteps - 1 THEN <<Note>> ELSE <<>>

(* continue, with the messages this iteration added. *)
Continue(added, leaves) ==
  IF step = MaxSteps
  THEN /\ messages' = messages \o added
       /\ missed' = (missed \/ leaves)
       /\ ReturnWith("error")
  ELSE /\ messages' = messages \o added \o Reminder(StepAfter(step))
       /\ step' = StepAfter(step)
       /\ pc' = "ask"
       /\ UNCHANGED <<missed, outcome>>

-----------------------------------------------------------------------------
(* step(user_input), from the UI when no turn is running. *)
Submit ==
  /\ pc = "idle" /\ turn < MaxTurns
  /\ turn' = turn + 1
  /\ messages' = Append(messages, User(turn + 1)) \o Reminder(1)
  /\ step' = 1 /\ empties' = 0
  /\ calls' = <<>> /\ ran' = <<>> /\ told' = <<>>
  /\ pc' = "ask" /\ outcome' = "none"
  /\ UNCHANGED <<since, clientVars, pending, pendingOf, chain, heard, missed, garbled>>

(* The request raises: the service refuses it, it times out, or the client *)
(* cannot send it. The pending outputs stay for the next turn.             *)
RequestFails ==
  /\ pc = "ask"
  /\ ReturnWith("error")
  /\ missed' = (missed \/ api = "responses")
  /\ UNCHANGED <<turn, since, clientVars, messages, empties, calls, ran, told, pending,
                 pendingOf, chain, heard, garbled>>

NewIds(n) == [i \in 1..n |-> <<turn, step, i>>]

(* An accepted request was read by the model, and a Responses client       *)
(* remembers the reply it will continue.                                   *)
Heard(asked) ==
  /\ pc = "ask" /\ Accepted
  /\ heard' = IF SubmitsOutputs THEN heard ELSE heard \cup UsersIn(Input)
  /\ chain' = IF api = "responses" THEN Stored(asked) ELSE chain

(* Submitted outputs are forgotten. *)
PendingAfterReply == IF SubmitsOutputs THEN <<>> ELSE pending

(* Mutant: one retry too many. *)
MayRetryLate(e) == e <= MaxEmptyRetries

MayRetry(e) == e < MaxEmptyRetries

(* _is_effectively_empty(): blank, or anything the parser calls invalid. *)
ReplyEmpty ==
  /\ Heard(<<>>)
  /\ pending' = PendingAfterReply
  /\ \/ /\ MayRetry(empties)
        /\ empties' = empties + 1
        /\ Continue(<<Note>>, FALSE)
     \/ /\ ~MayRetry(empties)
        /\ ReturnWith("error")
        /\ UNCHANGED <<messages, empties, missed>>
  /\ UNCHANGED <<turn, since, clientVars, calls, ran, told, pendingOf, garbled>>

ReplyFinal ==
  /\ Heard(<<>>)
  /\ pending' = <<>>
  /\ messages' = Append(messages, Said)
  /\ empties' = 0
  /\ ReturnWith("final")
  /\ UNCHANGED <<turn, since, clientVars, calls, ran, told, pendingOf, missed, garbled>>

(* A tool call written in the text of the reply. The parser allows at most *)
(* MaxBatch of them.                                                       *)
ReplyTextCalls ==
  \E n \in BatchSizes \cap 1..MaxBatch :
    /\ Heard(<<>>)
    /\ pending' = PendingAfterReply
    /\ messages' = Append(messages, Said)
    /\ calls' = NewIds(n) /\ ran' = <<>> /\ told' = <<>>
    /\ empties' = 0
    /\ pc' = "text_batch"
    /\ UNCHANGED <<turn, since, clientVars, step, pendingOf, missed, garbled, outcome>>

(* Native calls stay with the provider, or join the transcript. *)
ReplyNativeCalls ==
  \E n \in BatchSizes :
    /\ Heard(NewIds(n))
    /\ pending' = PendingAfterReply
    /\ messages' = IF api = "responses" THEN messages ELSE Append(messages, Asked(NewIds(n)))
    /\ calls' = NewIds(n) /\ ran' = <<>> /\ told' = <<>>
    /\ empties' = 0
    /\ pc' = "native_batch"
    /\ UNCHANGED <<turn, since, clientVars, step, pendingOf, missed, garbled, outcome>>

(* Native calls whose arguments are no JSON: the client raises, after it   *)
(* has moved on to the new reply (openai_responses.py:142).           *)
ReplyUnparsable ==
  \E n \in BatchSizes :
    /\ Heard(NewIds(n))
    /\ garbled' = (garbled \/ api = "responses")
    /\ missed' = (missed \/ api = "responses")
    /\ ReturnWith("error")
    /\ UNCHANGED <<turn, since, clientVars, messages, empties, calls, ran, told, pending, pendingOf>>

(* Arguments that are JSON but no object: step() raises. A chat-completions *)
(* client raises itself.                                                   *)
ReplyNoObject ==
  \E n \in BatchSizes :
    /\ api = "responses"
    /\ Heard(NewIds(n))
    /\ pending' = PendingAfterReply
    /\ garbled' = TRUE
    /\ missed' = TRUE
    /\ ReturnWith("raised")
    /\ UNCHANGED <<turn, since, clientVars, messages, empties, calls, ran, told, pendingOf>>

-----------------------------------------------------------------------------
(* _execute_tool_batch() and the excess calls. *)
Smaller(m, n) == IF m < n THEN m ELSE n

Kept(ids) == SubSeq(ids, 1, Smaller(Len(ids), MaxBatch))

Aborted == \E i \in DOMAIN ran : ran[i].status = "failed"
BatchOver == Aborted \/ Len(ran) = Len(Kept(calls))

RunTool ==
  /\ pc \in {"text_batch", "native_batch"} /\ ~BatchOver
  /\ \E s \in {"success", "failed"} :
       ran' = Append(ran, [id |-> Kept(calls)[Len(ran) + 1], status |-> s])
  /\ UNCHANGED <<pc, turn, since, clientVars, messages, step, empties, calls, told, pending,
                 pendingOf, chain, historyVars>>

(* Mutant: excess calls get no record. *)
RecordsWithoutExcess ==
  [i \in 1..Len(Kept(calls)) |-> IF i \in DOMAIN ran THEN ran[i].status ELSE "skipped"]

(* The records: what ran, then the skipped and the excess calls. *)
Records == [i \in 1..Len(calls) |-> IF i \in DOMAIN ran THEN ran[i].status ELSE "skipped"]

(* zip(records, native_tool_calls) *)
Zipped == [i \in DOMAIN Records |-> [id |-> calls[i], status |-> Records[i]]]

FinishTextBatch ==
  /\ pc = "text_batch" /\ BatchOver
  /\ told' = Zipped
  /\ Continue(<<Note>>, FALSE)
  /\ UNCHANGED <<turn, since, clientVars, empties, calls, ran, pending, pendingOf, chain, heard, garbled>>

(* _append_chat_completions_tool_results(), or the outputs to submit with  *)
(* the next request.                                                       *)
FinishNativeBatch ==
  /\ pc = "native_batch" /\ BatchOver
  /\ told' = Zipped
  /\ \/ /\ api = "chat_completions"
        /\ Continue([i \in DOMAIN Zipped |-> Result(Zipped[i].id)], FALSE)
        /\ UNCHANGED <<pending, pendingOf>>
     \/ /\ api = "responses"
        /\ pending' = Zipped /\ pendingOf' = client
        /\ Continue(<<>>, TRUE)
  /\ UNCHANGED <<turn, since, clientVars, empties, calls, ran, chain, heard, garbled>>

-----------------------------------------------------------------------------
(* The UI between turns. *)
NewClient(a) ==
  /\ client < MaxClients
  /\ client' = client + 1
  /\ api' = a
  /\ chain' = NoChain
  /\ heard' = {} /\ missed' = FALSE /\ garbled' = FALSE

(* set_llm(): the transcript stays, and so do the pending calls. *)
SwitchModel ==
  /\ pc = "idle"
  /\ \E a \in Apis : NewClient(a)
  /\ outcome' = "none"
  /\ UNCHANGED <<pc, turn, since, messages, loopVars, pending, pendingOf>>

(* Mutant: the client goes on with its stored conversation. *)
ForgetPendingOnly ==
  /\ pending' = <<>>
  /\ chain' = chain
  /\ UNCHANGED heard

(* What reset() drops: pending calls, and the client's conversation. *)
Forget ==
  /\ pending' = <<>>
  /\ chain' = NoChain
  /\ heard' = {}

(* reset(), alone or before the turns of a stored chat are put back. *)
Reset ==
  /\ pc = "idle"
  /\ since' = turn
  /\ messages' \in {<<>>, <<User(Restored), Said>>}
  /\ Forget
  /\ missed' = FALSE /\ garbled' = FALSE /\ outcome' = "none"
  /\ calls' = <<>> /\ ran' = <<>> /\ told' = <<>>
  /\ UNCHANGED <<pc, turn, clientVars, step, empties, pendingOf>>

(* Restoring a chat first rebuilds the client it was held with. *)
RestoreWithClient ==
  /\ pc = "idle"
  /\ \E a \in Apis : NewClient(a)
  /\ since' = turn
  /\ messages' = <<User(Restored), Said>>
  /\ pending' = <<>>
  /\ outcome' = "none"
  /\ calls' = <<>> /\ ran' = <<>> /\ told' = <<>>
  /\ UNCHANGED <<pc, turn, step, empties, pendingOf>>

Replies == ReplyEmpty \/ ReplyFinal \/ ReplyTextCalls \/ ReplyNativeCalls \/ ReplyUnparsable \/ ReplyNoObject
Turn == RequestFails \/ Replies \/ RunTool \/ FinishTextBatch \/ FinishNativeBatch
Next == Submit \/ Turn \/ SwitchModel \/ Reset \/ RestoreWithClient

(* Requests have a timeout, and tools a time limit: a turn goes on. *)
Spec == Init /\ [][Next]_vars /\ WF_vars(Turn)

-----------------------------------------------------------------------------
AnyId == (1..MaxTurns) \X (1..MaxSteps) \X Nat
Status == {"success", "failed", "skipped"}

(* Types; the retry counter stays within its limit. *)
TypeOK ==
  /\ pc \in {"idle", "ask", "text_batch", "native_batch"}
  /\ turn \in 0..MaxTurns /\ since \in 0..turn
  /\ api \in Apis /\ client \in 1..MaxClients /\ pendingOf \in 1..client
  /\ step \in 0..MaxSteps /\ empties \in 0..MaxEmptyRetries
  /\ messages \in Seq({User(t) : t \in 0..turn} \cup {Note, Said}
                      \cup [role : {"calls"}, ids : Seq(AnyId)] \cup [role : {"tool"}, id : AnyId])
  /\ calls \in Seq(AnyId)
  /\ ran \in Seq([id : AnyId, status : Status]) /\ Len(ran) <= MaxBatch
  /\ {pending, told} \subseteq Seq([id : AnyId, status : Status])
  /\ chain \in [stored : BOOLEAN, owed : Seq(AnyId)]
  /\ heard \subseteq 0..turn
  /\ {missed, garbled} \subseteq BOOLEAN
  /\ outcome \in {"none", "final", "error", "raised"}

(* In the transcript every list of native calls is followed at once by the *)
(* results of exactly these calls, in their order.                         *)
WellFormed(msgs) ==
  \A i \in DOMAIN msgs : msgs[i].role = "calls" =>
    /\ i + Len(msgs[i].ids) <= Len(msgs)
    /\ \A k \in DOMAIN msgs[i].ids : msgs[i + k] = Result(msgs[i].ids[k])

(* Whenever the agent sends a request, each native call the model          *)
(* made is answered once, in the transcript or by the submitted outputs,   *)
(* through retries, failed requests and turns that ended early. Excepted   *)
(* are replies with unusable arguments and calls of an earlier client.     *)
AnswersComplete ==
  pc = "ask" =>
    /\ WellFormed(messages)
    /\ ~garbled /\ (SubmitsOutputs => pendingOf = client) => Accepted

(* The outcome reported for a call is that of this call: it is             *)
(* reported as skipped if and only if it did not run, in order, with       *)
(* fail-fast, oversized and submitted-again batches alike.                 *)
ReportsMatchEffects ==
  \A pairs \in {told, pending} : pairs # <<>> /\ Ids(pairs) = calls =>
    \A i \in DOMAIN pairs :
      IF pairs[i].status = "skipped" THEN \A r \in ToSet(ran) : r.id # pairs[i].id
                                     ELSE pairs[i] \in ToSet(ran)

(* Safety: the model reads one answer to each tool call, and a true one    *)
(* (core/agent.py, _step and _execute_tool_batch).                         *)
EveryCallIsAnswered == AnswersComplete /\ ReportsMatchEffects

(* Safety: nothing of an earlier conversation reaches the model after a    *)
(* reset: not in the transcript, the pending outputs or the conversation   *)
(* the client continues.                                                   *)
NothingOutlivesReset ==
  /\ \A t \in UsersIn(messages) \cup heard : t > since \/ t = Restored
  /\ \A p \in ToSet(pending) : p.id[1] > since
  /\ \A id \in ToSet(chain.owed) : id[1] > since

(* Safety: when a turn ends with an answer, the model has read every user  *)
(* message of the conversation, although a Responses client sends only the *)
(* latest message; unless a request to this client failed before, or a     *)
(* turn ended with its outputs unsent.                                     *)
AnswersHearEverything ==
  pc = "idle" /\ outcome = "final" /\ ~missed => UsersIn(messages) \subseteq heard

(* Liveness: every turn ends, whatever the model replies. *)
TurnEnds == (pc # "idle") ~> (pc = "idle")

(* "Swap LLM client and refresh all llm-dependent runtime caches."         *)
(* (core/agent.py:153): calls left pending belong to the client in use.    *)
SwitchRefreshesCaches == pending # <<>> => pendingOf = client
=============================================================================
