---------------------------- MODULE AgentLoopProofs ----------------------------
(* Theorems about AgentLoop, for any limits of the code and any numbers of *)
(* turns and clients.                                                      *)
EXTENDS AgentLoop, SequenceTheorems, TLAPS

(* Messages of the turns up to t. *)
Messages(t) == {User(u) : u \in 0..t} \cup {Note, Said}
               \cup [role : {"calls"}, ids : Seq(AnyId)] \cup [role : {"tool"}, id : AnyId]

Reports == [id : AnyId, status : Status]

(* What carries neither a user's words nor calls. *)
Plain(msgs) == \A i \in DOMAIN msgs : msgs[i].role \notin {"user", "calls"}

-----------------------------------------------------------------------------
(* Transcripts. *)

LEMMA Roles ==
  /\ \A t : User(t).role = "user" /\ User(t).turn = t
  /\ Note.role = "note" /\ Said.role = "assistant"
  /\ \A ids : Asked(ids).role = "calls" /\ Asked(ids).ids = ids
  /\ \A id : Result(id).role = "tool" /\ Result(id).id = id
BY DEF User, Note, Said, Asked, Result

LEMMA Limits ==
  /\ MaxSteps \in Nat /\ MaxSteps > 2 /\ MaxTurns \in Nat /\ MaxEmptyRetries \in Nat
  /\ MaxBatch \in Nat \ {0} /\ MaxClients \in Nat \ {0} /\ BatchSizes \subseteq Nat \ {0}
BY AgentAssumption

LEMMA MessageTypes ==
  ASSUME NEW t \in Nat
  PROVE  /\ \A u \in 0..t : User(u) \in Messages(t)
         /\ Note \in Messages(t) /\ Said \in Messages(t)
         /\ \A ids \in Seq(AnyId) : Asked(ids) \in Messages(t)
         /\ \A id \in AnyId : Result(id) \in Messages(t)
         /\ \A m \in Messages(t) : m.role = "user" => m.turn \in 0..t
         /\ Messages(t) \subseteq Messages(t + 1)
<1>1. \A ids \in Seq(AnyId) : Asked(ids) \in Messages(t)
  BY DEF Asked, Messages
<1>2. \A id \in AnyId : Result(id) \in Messages(t)
  BY DEF Result, Messages
<1>3. \A m \in Messages(t) : m.role = "user" => m.turn \in 0..t
  BY Roles DEF Messages
<1>4. Messages(t) \subseteq Messages(t + 1)
  BY DEF Messages
<1> QED BY <1>1, <1>2, <1>3, <1>4 DEF Messages

LEMMA UsersDef ==
  ASSUME NEW msgs, NEW t
  PROVE  t \in UsersIn(msgs) <=> \E i \in DOMAIN msgs : msgs[i].role = "user" /\ msgs[i].turn = t
BY DEF UsersIn, ToSet

LEMMA UsersConcat ==
  ASSUME NEW S, NEW a \in Seq(S), NEW b \in Seq(S)
  PROVE  /\ UsersIn(a \o b) = UsersIn(a) \cup UsersIn(b)
         /\ Plain(b) => UsersIn(a \o b) = UsersIn(a)
<1>1. /\ Len(a) \in Nat /\ Len(b) \in Nat /\ Len(a \o b) = Len(a) + Len(b)
      /\ DOMAIN a = 1..Len(a) /\ DOMAIN b = 1..Len(b) /\ DOMAIN (a \o b) = 1..Len(a) + Len(b)
      /\ \A i \in 1..Len(a) + Len(b) : (a \o b)[i] = IF i <= Len(a) THEN a[i] ELSE b[i - Len(a)]
  BY ConcatProperties, LenProperties
<1>2. ASSUME NEW t PROVE t \in UsersIn(a \o b) => t \in UsersIn(a) \cup UsersIn(b)
  <2> SUFFICES ASSUME t \in UsersIn(a \o b) PROVE t \in UsersIn(a) \cup UsersIn(b)
    OBVIOUS
  <2>1. PICK i \in DOMAIN (a \o b) : (a \o b)[i].role = "user" /\ (a \o b)[i].turn = t
    <3> DEFINE c == a \o b
    <3>1. t \in UsersIn(c)
      OBVIOUS
    <3> HIDE DEF c
    <3>2. \E i \in DOMAIN c : c[i].role = "user" /\ c[i].turn = t
      BY <3>1, UsersDef
    <3> QED BY <3>2 DEF c
  <2>2. CASE i <= Len(a)
    <3>1. i \in DOMAIN a /\ a[i].role = "user" /\ a[i].turn = t
      BY <1>1, <2>1, <2>2
    <3> QED BY <3>1, UsersDef
  <2>3. CASE ~(i <= Len(a))
    <3>1. i - Len(a) \in DOMAIN b /\ b[i - Len(a)].role = "user" /\ b[i - Len(a)].turn = t
      BY <1>1, <2>1, <2>3
    <3> QED BY <3>1, UsersDef
  <2> QED BY <2>2, <2>3
<1>3. ASSUME NEW t, t \in UsersIn(a) PROVE t \in UsersIn(a \o b)
  <2>1. PICK i \in DOMAIN a : a[i].role = "user" /\ a[i].turn = t
    BY <1>3, UsersDef
  <2>2. i \in DOMAIN (a \o b) /\ (a \o b)[i] = a[i]
    BY <1>1
  <2> QED BY <2>1, <2>2, UsersDef
<1>4. ASSUME NEW t, t \in UsersIn(b) PROVE t \in UsersIn(a \o b)
  <2>1. PICK i \in DOMAIN b : b[i].role = "user" /\ b[i].turn = t
    BY <1>4, UsersDef
  <2>2. Len(a) + i \in DOMAIN (a \o b) /\ ~(Len(a) + i <= Len(a)) /\ Len(a) + i - Len(a) = i
    BY <1>1
  <2>3. (a \o b)[Len(a) + i] = b[i]
    BY <1>1, <2>2
  <2> QED BY <2>1, <2>2, <2>3, UsersDef
<1>5. Plain(b) => UsersIn(b) = {}
  BY UsersDef DEF Plain
<1> QED BY <1>2, <1>3, <1>4, <1>5

LEMMA UsersOfCalls ==
  ASSUME NEW S, NEW a \in Seq(S), NEW b \in Seq(S), \A i \in DOMAIN b : b[i].role # "user"
  PROVE  UsersIn(a \o b) = UsersIn(a)
<1>1. UsersIn(b) = {}
  BY UsersDef
<1>2. UsersIn(a \o b) = UsersIn(a) \cup UsersIn(b)
  BY UsersConcat
<1> QED BY <1>1, <1>2

(* Whatever is no list of calls may follow a well-formed transcript. *)
LEMMA WellFormedPlain ==
  ASSUME NEW S, NEW a \in Seq(S), NEW b \in Seq(S), WellFormed(a),
         \A i \in DOMAIN b : b[i].role # "calls",
         \A i \in DOMAIN a : a[i].role = "calls" => a[i].ids \in Seq(AnyId)
  PROVE  WellFormed(a \o b)
<1>1. /\ Len(a) \in Nat /\ Len(b) \in Nat /\ Len(a \o b) = Len(a) + Len(b)
      /\ DOMAIN a = 1..Len(a) /\ DOMAIN b = 1..Len(b) /\ DOMAIN (a \o b) = 1..Len(a) + Len(b)
      /\ \A i \in 1..Len(a) + Len(b) : (a \o b)[i] = IF i <= Len(a) THEN a[i] ELSE b[i - Len(a)]
  BY ConcatProperties, LenProperties
<1> SUFFICES ASSUME NEW i \in DOMAIN (a \o b), (a \o b)[i].role = "calls"
             PROVE  /\ i + Len((a \o b)[i].ids) <= Len(a \o b)
                    /\ \A k \in DOMAIN (a \o b)[i].ids : (a \o b)[i + k] = Result((a \o b)[i].ids[k])
  BY DEF WellFormed
<1>2. i \in DOMAIN a /\ (a \o b)[i] = a[i]
  <2>1. ASSUME ~(i <= Len(a)) PROVE FALSE
    <3>1. i - Len(a) \in DOMAIN b /\ (a \o b)[i] = b[i - Len(a)]
      BY <1>1, <2>1
    <3> QED BY <3>1
  <2> QED BY <1>1, <2>1
<1>3. /\ i + Len(a[i].ids) <= Len(a)
      /\ \A k \in DOMAIN a[i].ids : a[i + k] = Result(a[i].ids[k])
  BY <1>2 DEF WellFormed
<1>4. Len(a[i].ids) \in Nat /\ DOMAIN a[i].ids = 1..Len(a[i].ids)
  BY <1>2, LenProperties
<1>5. ASSUME NEW k \in DOMAIN a[i].ids PROVE (a \o b)[i + k] = a[i + k]
  BY <1>1, <1>2, <1>3, <1>4
<1> QED BY <1>1, <1>2, <1>3, <1>4, <1>5

(* Calls and their results in a row. *)
LEMMA WellFormedAnswers ==
  ASSUME NEW S, NEW pre \in Seq(S), WellFormed(pre),
         \A i \in DOMAIN pre : pre[i].role = "calls" => pre[i].ids \in Seq(AnyId),
         NEW ids \in Seq(AnyId), Asked(ids) \in S, \A id \in AnyId : Result(id) \in S,
         NEW results \in Seq(S), Len(results) = Len(ids),
         \A i \in 1..Len(ids) : results[i] = Result(ids[i])
  PROVE  WellFormed(Append(pre, Asked(ids)) \o results)
<1> DEFINE a == Append(pre, Asked(ids))
           n == Len(pre)
<1>1. /\ a \in Seq(S) /\ Len(a) = n + 1 /\ n \in Nat /\ Len(ids) \in Nat
      /\ \A i \in 1..n : a[i] = pre[i]
      /\ a[n + 1] = Asked(ids)
      /\ DOMAIN pre = 1..n /\ DOMAIN ids = 1..Len(ids)
  BY AppendProperties, LenProperties
<1> HIDE DEF a
<1>2. /\ Len(a \o results) = n + 1 + Len(ids) /\ DOMAIN (a \o results) = 1..n + 1 + Len(ids)
      /\ a \o results \in Seq(S)
      /\ \A i \in 1..n + 1 + Len(ids) : (a \o results)[i] = IF i <= n + 1 THEN a[i] ELSE results[i - (n + 1)]
  <2>1. /\ a \o results \in Seq(S) /\ Len(a \o results) = Len(a) + Len(results)
        /\ \A i \in 1..Len(a) + Len(results) : (a \o results)[i] = IF i <= Len(a) THEN a[i] ELSE results[i - Len(a)]
    <3>1. a \in Seq(S)
      BY <1>1
    <3> QED BY <3>1, ConcatProperties, Zenon
  <2>2. Len(a) = n + 1 /\ Len(results) = Len(ids)
    BY <1>1
  <2>3. DOMAIN (a \o results) = 1..Len(a \o results)
    BY <2>1, LenProperties
  <2> QED BY <2>1, <2>2, <2>3, Zenon
<1> DEFINE w == a \o results
<1>0. /\ Len(w) = n + 1 + Len(ids) /\ DOMAIN w = 1..n + 1 + Len(ids)
      /\ \A i \in 1..n + 1 + Len(ids) : w[i] = IF i <= n + 1 THEN a[i] ELSE results[i - (n + 1)]
  BY <1>2
<1> HIDE DEF w
<1> SUFFICES ASSUME NEW i \in DOMAIN w, w[i].role = "calls"
             PROVE  /\ i + Len(w[i].ids) <= Len(w)
                    /\ \A k \in DOMAIN w[i].ids :
                         w[i + k] = Result(w[i].ids[k])
  BY DEF WellFormed, a, w
<1>3. CASE i <= n
  <2>1. i \in DOMAIN pre /\ w[i] = pre[i]
    BY <1>1, <1>0, <1>3
  <2>2. /\ i + Len(pre[i].ids) <= n
        /\ \A k \in DOMAIN pre[i].ids : pre[i + k] = Result(pre[i].ids[k])
    BY <2>1 DEF WellFormed
  <2>3. Len(pre[i].ids) \in Nat /\ DOMAIN pre[i].ids = 1..Len(pre[i].ids)
    BY <2>1, LenProperties
  <2>4. ASSUME NEW k \in DOMAIN pre[i].ids PROVE w[i + k] = pre[i + k]
    <3>1. i + k \in 1..n /\ i + k \in 1..n + 1 + Len(ids) /\ i + k <= n + 1
      BY <1>1, <2>1, <2>2, <2>3
    <3>2. w[i + k] = a[i + k]
      BY <1>0, <3>1
    <3>3. a[i + k] = pre[i + k]
      BY <1>1, <3>1
    <3> QED BY <3>2, <3>3
  <2> QED BY <1>1, <1>0, <2>1, <2>2, <2>3, <2>4
<1>4. CASE i = n + 1
  <2>1. w[i] = Asked(ids)
    BY <1>1, <1>0, <1>4
  <2>2. w[i].ids = ids
    BY <2>1, Roles
  <2>3. ASSUME NEW k \in 1..Len(ids) PROVE w[i + k] = Result(ids[k])
    <3>1. i + k \in 1..n + 1 + Len(ids) /\ ~(i + k <= n + 1) /\ i + k - (n + 1) = k
      BY <1>1, <1>4
    <3>2. w[i + k] = results[i + k - (n + 1)]
      BY <1>0, <3>1
    <3> QED BY <3>1, <3>2
  <2> QED BY <1>1, <1>0, <1>4, <2>2, <2>3
<1>5. CASE i > n + 1
  <2>1. i - (n + 1) \in 1..Len(ids) /\ w[i] = results[i - (n + 1)]
    BY <1>1, <1>0, <1>5
  <2>2. results[i - (n + 1)].role = "tool"
    BY <2>1, Roles
  <2> QED BY <2>1, <2>2
<1>6. i <= n \/ i = n + 1 \/ i > n + 1
  <2>1. i \in 1..n + 1 + Len(ids)
    BY <1>0
  <2> QED BY <1>1, <2>1
<1> QED BY <1>3, <1>4, <1>5, <1>6

-----------------------------------------------------------------------------
(* The inductive invariant.                                                *)

Typed ==
  /\ pc \in {"idle", "ask", "text_batch", "native_batch"}
  /\ turn \in 0..MaxTurns /\ since \in 0..turn
  /\ api \in Apis /\ client \in 1..MaxClients /\ pendingOf \in 1..client
  /\ step \in 0..MaxSteps /\ empties \in 0..MaxEmptyRetries
  /\ messages \in Seq(Messages(turn))
  /\ calls \in Seq(AnyId)
  /\ ran \in Seq(Reports) /\ Len(ran) <= MaxBatch
  /\ pending \in Seq(Reports) /\ told \in Seq(Reports)
  /\ chain \in [stored : BOOLEAN, owed : Seq(AnyId)]
  /\ heard \subseteq 0..turn
  /\ missed \in BOOLEAN /\ garbled \in BOOLEAN
  /\ outcome \in {"none", "final", "error", "raised"}

(* A running turn is in its loop and belongs to the present conversation. *)
Running == pc # "idle" => step > 0 /\ since < turn

(* A running batch has tools left to report, and what ran are its first calls. *)
BatchShape ==
  pc \in {"text_batch", "native_batch"} =>
    /\ calls # <<>> /\ told = <<>>
    /\ \A i \in 1..Len(calls) : calls[i] = <<turn, step, i>>
    /\ Len(ran) <= Len(calls)
    /\ \A i \in 1..Len(ran) : ran[i].id = calls[i] /\ ran[i].status # "skipped"

(* The pending calls are older than what the running iteration can ask for. *)
Older ==
  \A i \in 1..Len(pending) :
    /\ pending[i].id[1] > since
    /\ \/ pending[i].id[1] < turn
       \/ pending[i].id[1] = turn /\ (pc = "idle" \/ pending[i].id[2] < step)

(* Only Responses clients continue a stored conversation. *)
ChatStoresNothing == api = "chat_completions" => chain = NoChain

(* The provider waits for the pending outputs of this client, or for those *)
(* of the running batch, and for nothing else.                             *)
Owed ==
  ~garbled /\ api = "responses" =>
    /\ pending # <<>> =>
         /\ pc \in {"idle", "ask"}
         /\ IF pendingOf = client THEN chain.stored /\ Ids(pending) = chain.owed
                                  ELSE chain = NoChain
    /\ pending = <<>> =>
         IF pc = "native_batch" THEN chain = Stored(calls) ELSE chain.owed = <<>>

OwedIsRecent == \A i \in 1..Len(chain.owed) : chain.owed[i][1] > since

UsersAreRecent == \A t \in UsersIn(messages) \cup heard : t > since \/ t = Restored

GarbledMisses == garbled => missed

(* A stored conversation lacks at most the message to be sent next. *)
StoredHeard ==
  ~missed /\ chain.stored =>
    /\ pc # "ask" => pending = <<>> /\ UsersIn(messages) \subseteq heard
    /\ pc = "ask" => UsersIn(messages) \subseteq
         IF pending = <<>> THEN heard \cup UsersIn(LatestMessage(messages)) ELSE heard

(* The running batch of a chat-completions client is asked for last. *)
Transcript ==
  IF pc = "native_batch" /\ api = "chat_completions"
  THEN \E pre \in Seq(Messages(turn)) : messages = Append(pre, Asked(calls)) /\ WellFormed(pre)
  ELSE WellFormed(messages)

IInv ==
  /\ Typed /\ Running /\ BatchShape /\ Older /\ ChatStoresNothing /\ Owed /\ OwedIsRecent
  /\ UsersAreRecent /\ GarbledMisses /\ StoredHeard /\ AnswersHearEverything /\ Transcript
  /\ ReportsMatchEffects

-----------------------------------------------------------------------------
(* What the parts of an action do.                                         *)

LEMMA LatestUsers ==
  ASSUME NEW S, NEW msgs \in Seq(S)
  PROVE  UsersIn(LatestMessage(msgs)) \subseteq UsersIn(msgs)
<1>1. CASE msgs = <<>>
  BY <1>1 DEF LatestMessage
<1>2. CASE msgs # <<>>
  <2>1. Len(msgs) \in DOMAIN msgs
    BY <1>2, LenProperties, EmptySeq
  <2>2. LatestMessage(msgs) = <<msgs[Len(msgs)]>>
    BY <1>2 DEF LatestMessage, Last
  <2> SUFFICES ASSUME NEW t \in UsersIn(<<msgs[Len(msgs)]>>) PROVE t \in UsersIn(msgs)
    BY <2>2
  <2> DEFINE one == <<msgs[Len(msgs)]>>
  <2>3. DOMAIN one = {1} /\ one[1] = msgs[Len(msgs)]
    OBVIOUS
  <2>4. t \in UsersIn(one)
    OBVIOUS
  <2> HIDE DEF one
  <2>5. PICK i \in DOMAIN one : one[i].role = "user" /\ one[i].turn = t
    BY <2>4, UsersDef
  <2> QED BY <2>1, <2>3, <2>5, UsersDef
<1> QED BY <1>1, <1>2

LEMMA NewIdsAre ==
  ASSUME Typed, Running, pc = "ask", NEW n \in Nat \ {0}
  PROVE  /\ NewIds(n) \in Seq(AnyId) /\ Len(NewIds(n)) = n
         /\ NewIds(n) # <<>>
         /\ \A i \in 1..n : NewIds(n)[i] = <<turn, step, i>> /\ NewIds(n)[i][1] = turn
<1>1. turn \in 1..MaxTurns /\ step \in 1..MaxSteps
  BY AgentAssumption DEF Typed, Running
<1>2. \A i \in 1..n : <<turn, step, i>> \in AnyId
  BY <1>1 DEF AnyId
<1>3. NewIds(n) \in [1..n -> AnyId]
  BY <1>2 DEF NewIds
<1>4. NewIds(n) \in Seq(AnyId) /\ Len(NewIds(n)) = n
  BY <1>3
<1> QED BY <1>4 DEF NewIds

LEMMA ContinueEffect ==
  ASSUME Typed, NEW added \in Seq(Messages(turn)), NEW leaves \in BOOLEAN, Continue(added, leaves)
  PROVE  /\ messages' \in Seq(Messages(turn))
         /\ UsersIn(messages') = UsersIn(messages \o added)
         /\ WellFormed(messages \o added) => WellFormed(messages')
         /\ \/ /\ pc' = "ask" /\ step' = step + 1 /\ step' \in 1..MaxSteps
               /\ missed' = missed /\ outcome' = outcome
            \/ /\ pc' = "idle" /\ step' = step /\ missed' = (missed \/ leaves)
               /\ outcome' = "error"
<1> DEFINE c == messages \o added
           M == Messages(turn)
           r == Reminder(StepAfter(step))
<1>0. turn \in Nat /\ step \in 0..MaxSteps /\ MaxSteps \in Nat
  BY AgentAssumption DEF Typed
<1>1. c \in Seq(M)
  BY ConcatProperties DEF Typed
<1>2. r \in Seq(M) /\ Plain(r) /\ \A i \in DOMAIN r : r[i].role # "calls"
  BY <1>0, Roles, MessageTypes DEF Reminder, Plain
<1>3. \A i \in DOMAIN c : c[i].role = "calls" => c[i].ids \in Seq(AnyId)
  <2>1. \A m \in M : m.role = "calls" => m.ids \in Seq(AnyId)
    BY Roles DEF Messages
  <2> QED BY <1>1, <2>1
<1>4. (messages' = c \/ messages' = c \o r)
      /\ \/ /\ pc' = "ask" /\ step' = step + 1 /\ step # MaxSteps
            /\ missed' = missed /\ outcome' = outcome
         \/ /\ pc' = "idle" /\ step' = step /\ missed' = (missed \/ leaves)
            /\ outcome' = "error"
  BY DEF Continue, ReturnWith, StepAfter
<1> HIDE DEF c, r, M
<1>5. CASE messages' = c
  BY <1>0, <1>1, <1>4, <1>5 DEF c, M
<1>6. CASE messages' = c \o r
  <2>1. messages' \in Seq(M) /\ UsersIn(messages') = UsersIn(c)
    BY <1>1, <1>2, <1>6, ConcatProperties, UsersConcat
  <2>2. WellFormed(c) => WellFormed(messages')
    BY <1>1, <1>2, <1>3, <1>6, WellFormedPlain
  <2> QED BY <1>0, <1>4, <2>1, <2>2 DEF c, M
<1> QED BY <1>4, <1>5, <1>6

LEMMA HeardEffect ==
  ASSUME IInv, NEW asked \in Seq(AnyId), Heard(asked)
  PROVE  /\ pc = "ask"
         /\ heard' \subseteq 0..turn
         /\ \A t \in heard' : t \in UsersIn(messages) \cup heard
         /\ chain' \in [stored : BOOLEAN, owed : Seq(AnyId)]
         /\ api = "chat_completions" => chain' = NoChain
         /\ api = "responses" => chain' = Stored(asked) /\ PendingAfterReply = <<>>
         /\ PendingAfterReply \in {<<>>, pending}
         /\ ~missed => UsersIn(messages) \subseteq heard'
<1>0. /\ Typed /\ StoredHeard /\ ChatStoresNothing
  BY DEF IInv
<1>1. /\ pc = "ask" /\ Accepted
      /\ heard' = IF SubmitsOutputs THEN heard ELSE heard \cup UsersIn(Input)
      /\ chain' = IF api = "responses" THEN Stored(asked) ELSE chain
  BY DEF Heard
<1>2. UsersIn(Input) \subseteq UsersIn(messages)
  BY <1>0, LatestUsers DEF Input, Typed
<1>3. UsersIn(messages) \subseteq 0..turn
  <2>1. turn \in Nat /\ messages \in Seq(Messages(turn))
    BY <1>0, AgentAssumption DEF Typed
  <2>2. \A m \in Messages(turn) : m.role = "user" => m.turn \in 0..turn
    BY <2>1, MessageTypes
  <2>3. \A i \in DOMAIN messages : messages[i] \in Messages(turn)
    BY <2>1, LenProperties, ElementOfSeq
  <2> QED BY <2>2, <2>3, UsersDef
<1>4. heard' \subseteq 0..turn /\ \A t \in heard' : t \in UsersIn(messages) \cup heard
  BY <1>0, <1>1, <1>2, <1>3 DEF Typed
<1>5. chain' \in [stored : BOOLEAN, owed : Seq(AnyId)]
  BY <1>0, <1>1 DEF Typed, Stored
<1>6. api = "chat_completions" => chain' = NoChain
  BY <1>0, <1>1 DEF ChatStoresNothing
<1>7. api = "responses" => chain' = Stored(asked) /\ PendingAfterReply = <<>>
  BY <1>1 DEF PendingAfterReply, SubmitsOutputs
<1>8. ASSUME ~missed PROVE UsersIn(messages) \subseteq heard'
  <2>1. CASE SubmitsOutputs
    <3>1. chain.stored /\ pending # <<>> /\ heard' = heard
      BY <1>1, <2>1 DEF Accepted, SubmitsOutputs
    <3> QED BY <1>0, <1>1, <1>8, <3>1 DEF StoredHeard
  <2>2. CASE ~SubmitsOutputs /\ chain.stored
    <3>1. pending = <<>>
      BY <1>0, <2>2 DEF Typed, Apis, ChatStoresNothing, NoChain, SubmitsOutputs
    <3> QED BY <1>0, <1>1, <1>8, <2>2, <3>1 DEF StoredHeard, Input
  <2>3. CASE ~SubmitsOutputs /\ ~chain.stored
    BY <1>1, <2>3 DEF Input
  <2> QED BY <2>1, <2>2, <2>3
<1> QED BY <1>1, <1>4, <1>5, <1>6, <1>7, <1>8 DEF PendingAfterReply

LEMMA OneMore ==
  ASSUME NEW t \in Nat, NEW msgs \in Seq(Messages(t)), NEW m \in Messages(t), m.role # "calls"
  PROVE  /\ Append(msgs, m) \in Seq(Messages(t))
         /\ UsersIn(Append(msgs, m)) = UsersIn(msgs) \cup (IF m.role = "user" THEN {m.turn} ELSE {})
         /\ WellFormed(msgs) => WellFormed(Append(msgs, m))
         /\ LatestMessage(Append(msgs, m)) = <<m>>
<1> DEFINE one == <<m>>
<1>1. one \in Seq(Messages(t)) /\ DOMAIN one = {1} /\ one[1] = m
  OBVIOUS
<1>2. Append(msgs, m) = msgs \o one
  BY AppendIsConcat
<1>3. Append(msgs, m) \in Seq(Messages(t)) /\ Append(msgs, m) # <<>>
      /\ Len(Append(msgs, m)) = Len(msgs) + 1 /\ Append(msgs, m)[Len(msgs) + 1] = m
  BY AppendProperties
<1>4. LatestMessage(Append(msgs, m)) = <<m>>
  BY <1>3, Zenon DEF LatestMessage, Last
<1> HIDE DEF one
<1>5. UsersIn(one) = IF m.role = "user" THEN {m.turn} ELSE {}
  BY <1>1, UsersDef
<1>6. \A i \in DOMAIN msgs : msgs[i].role = "calls" => msgs[i].ids \in Seq(AnyId)
  <2>1. \A x \in Messages(t) : x.role = "calls" => x.ids \in Seq(AnyId)
    BY Roles DEF Messages
  <2> QED BY <2>1, ElementOfSeq, LenProperties
<1>7. WellFormed(msgs) => WellFormed(Append(msgs, m))
  <2>1. \A i \in DOMAIN one : one[i].role # "calls"
    BY <1>1
  <2> QED BY <1>1, <1>2, <1>6, <2>1, WellFormedPlain
<1>8. UsersIn(Append(msgs, m)) = UsersIn(msgs) \cup UsersIn(one)
  BY <1>1, <1>2, UsersConcat
<1> QED BY <1>3, <1>4, <1>5, <1>7, <1>8

LEMMA ReportsKept ==
  ASSUME ReportsMatchEffects, UNCHANGED <<calls, ran, told>>, pending' \in {<<>>, pending}
  PROVE  ReportsMatchEffects'
BY DEF ReportsMatchEffects, Ids

LEMMA PendingTyped ==
  ASSUME Typed
  PROVE  \A i \in 1..Len(pending) :
           pending[i].id \in AnyId /\ pending[i].id[1] \in Int /\ pending[i].id[2] \in Int
<1> SUFFICES ASSUME NEW i \in 1..Len(pending)
             PROVE  pending[i].id \in AnyId /\ pending[i].id[1] \in Int /\ pending[i].id[2] \in Int
  OBVIOUS
<1>1. pending[i].id \in AnyId
  <2>1. pending \in Seq(Reports)
    BY DEF Typed
  <2>2. pending[i] \in Reports
    BY <2>1, ElementOfSeq
  <2> QED BY <2>2 DEF Reports
<1> QED BY <1>1, AgentAssumption DEF AnyId

LEMMA PendingStays ==
  ASSUME Typed, pending' \in {<<>>, pending}
  PROVE  pending' \in Seq(Reports)
<1>1. pending \in Seq(Reports) /\ <<>> \in Seq(Reports)
  BY DEF Typed
<1> QED BY <1>1

(* No pending call is one that the running iteration asks for. *)
LEMMA NotPending ==
  ASSUME Typed, Older, pc # "idle", pending # <<>>,
         NEW ids, \A i \in 1..Len(ids) : ids[i] = <<turn, step, i>>, ids = Ids(pending)
  PROVE  FALSE
<1>1. 1 \in 1..Len(pending) /\ DOMAIN pending = 1..Len(pending)
  BY LenProperties, EmptySeq DEF Typed
<1>2. ids = [i \in 1..Len(pending) |-> pending[i].id]
  BY <1>1 DEF Ids
<1>3. Len(ids) = Len(pending)
  BY <1>1, <1>2
<1>4. pending[1].id = <<turn, step, 1>>
  BY <1>1, <1>2, <1>3
<1>5. pending[1].id[1] = turn /\ pending[1].id[2] = step
  BY <1>4
<1>6. turn \in Nat /\ step \in Nat
  BY AgentAssumption DEF Typed
<1> QED BY <1>1, <1>5, <1>6 DEF Older

(* What every reply keeps. *)
LEMMA ReplyKeeps ==
  ASSUME IInv, NEW asked \in Seq(AnyId), Heard(asked),
         UNCHANGED <<turn, since, api, client>>,
         UsersIn(messages') = UsersIn(messages)
  PROVE  /\ ChatStoresNothing' /\ UsersAreRecent'
         /\ missed' \/ (~missed /\ pending' \in {<<>>, PendingAfterReply})
              => StoredHeard' /\ AnswersHearEverything'
<1>1. /\ \A t \in heard' : t \in UsersIn(messages) \cup heard
      /\ api = "chat_completions" => chain' = NoChain
      /\ api = "responses" => PendingAfterReply = <<>>
      /\ ~missed => UsersIn(messages) \subseteq heard'
  BY HeardEffect
<1>2. ChatStoresNothing'
  BY <1>1 DEF ChatStoresNothing, NoChain
<1>3. UsersAreRecent'
  BY <1>1 DEF UsersAreRecent, IInv
<1>4. ASSUME missed' \/ (~missed /\ pending' \in {<<>>, PendingAfterReply})
      PROVE  StoredHeard' /\ AnswersHearEverything'
  <2>1. api \in {"chat_completions", "responses"}
    BY DEF IInv, Typed, Apis
  <2>2. ~missed' /\ chain'.stored => pending' = <<>>
    BY <1>1, <1>4, <2>1 DEF NoChain
  <2>3. ~missed' => UsersIn(messages') \subseteq heard'
    BY <1>1, <1>4
  <2> QED BY <2>2, <2>3 DEF StoredHeard, AnswersHearEverything
<1> QED BY <1>2, <1>3, <1>4

(* What a reply without native calls keeps besides, unless it starts a batch. *)
LEMMA PlainReplyKeeps ==
  ASSUME IInv, Heard(<<>>), UNCHANGED <<turn, since, api, client, pendingOf, garbled>>,
         pending' \in {<<>>, PendingAfterReply},
         pc' \in {"idle", "ask", "text_batch"}, step' \in {step, step + 1}
  PROVE  Older' /\ Owed' /\ OwedIsRecent'
<1>1. /\ pc = "ask"
      /\ api = "chat_completions" => chain' = NoChain
      /\ api = "responses" => chain' = Stored(<<>>) /\ PendingAfterReply = <<>>
      /\ PendingAfterReply \in {<<>>, pending}
  <2>1. <<>> \in Seq(AnyId)
    OBVIOUS
  <2> QED BY <2>1, HeardEffect
<1>2. api \in {"chat_completions", "responses"} /\ step \in Nat
  BY AgentAssumption DEF IInv, Typed, Apis
<1>3. chain'.owed = <<>>
  BY <1>1, <1>2 DEF NoChain, Stored
<1>4. Older'
  <2>1. CASE pending' = <<>>
    BY <2>1 DEF Older
  <2>2. CASE pending' = pending
    <3> SUFFICES ASSUME NEW i \in 1..Len(pending)
                 PROVE  /\ pending[i].id[1] > since
                        /\ \/ pending[i].id[1] < turn
                           \/ pending[i].id[1] = turn /\ (pc' = "idle" \/ pending[i].id[2] < step')
      BY <2>2 DEF Older
    <3>1. pending[i].id[2] \in Int
      BY PendingTyped DEF IInv
    <3> QED BY <1>1, <1>2, <3>1 DEF IInv, Older
  <2> QED BY <1>1, <2>1, <2>2
<1>5. Owed'
  BY <1>1, <1>3 DEF Owed, NoChain, Stored
<1>6. OwedIsRecent'
  BY <1>3 DEF OwedIsRecent
<1> QED BY <1>4, <1>5, <1>6

-----------------------------------------------------------------------------
(* The actions.                                                            *)

LEMMA InitHolds == Init => IInv
<1> SUFFICES ASSUME Init PROVE IInv
  OBVIOUS
<1>1. /\ pc = "idle" /\ turn = 0 /\ messages = <<>> /\ heard = {}
      /\ pending = <<>> /\ told = <<>> /\ calls = <<>> /\ ran = <<>>
      /\ chain = NoChain /\ ~missed /\ ~garbled /\ outcome = "none"
  BY DEF Init
<1>2. UsersIn(messages) = {}
  BY <1>1 DEF UsersIn, ToSet
<1>3. Typed
  <2>1. missed = FALSE /\ garbled = FALSE /\ since = 0 /\ api \in Apis /\ client = 1 /\ pendingOf = 1 /\ step = 0 /\ empties = 0
    BY DEF Init
  <2>2. NoChain \in [stored : BOOLEAN, owed : Seq(AnyId)]
    BY DEF NoChain
  <2>3. messages \in Seq(Messages(turn)) /\ calls \in Seq(AnyId) /\ ran \in Seq(Reports)
        /\ pending \in Seq(Reports) /\ told \in Seq(Reports) /\ Len(ran) = 0
    BY <1>1
  <2>4. /\ client \in 1..MaxClients /\ pendingOf \in 1..client /\ turn \in 0..MaxTurns /\ since \in 0..turn
        /\ step \in 0..MaxSteps /\ empties \in 0..MaxEmptyRetries /\ Len(ran) <= MaxBatch
    BY <1>1, <2>1, <2>3, Limits
  <2> QED BY <1>1, <2>1, <2>2, <2>3, <2>4 DEF Typed
<1>4. Owed /\ OwedIsRecent /\ ChatStoresNothing /\ StoredHeard
  BY <1>1 DEF Owed, OwedIsRecent, ChatStoresNothing, StoredHeard, NoChain
<1>5. Transcript
  BY <1>1 DEF Transcript, WellFormed
<1>6. ReportsMatchEffects
  BY <1>1 DEF ReportsMatchEffects
<1>7. Older /\ Running /\ BatchShape
  BY <1>1 DEF Older, Running, BatchShape
<1> QED BY <1>1, <1>2, <1>3, <1>4, <1>5, <1>6, <1>7
        DEF IInv, UsersAreRecent, GarbledMisses, AnswersHearEverything

LEMMA SubmitKeeps == ASSUME IInv, Submit PROVE IInv'
<1>0. /\ Typed /\ Running /\ Older /\ Owed /\ OwedIsRecent /\ UsersAreRecent /\ GarbledMisses
      /\ StoredHeard /\ Transcript /\ ChatStoresNothing
  BY DEF IInv
<1>1. /\ pc = "idle" /\ turn < MaxTurns /\ turn' = turn + 1
      /\ messages' = Append(messages, User(turn + 1)) \o Reminder(1)
      /\ step' = 1 /\ empties' = 0 /\ calls' = <<>> /\ ran' = <<>> /\ told' = <<>>
      /\ pc' = "ask" /\ outcome' = "none"
      /\ UNCHANGED <<since, clientVars, pending, pendingOf, chain, heard, missed, garbled>>
  BY DEF Submit
<1>2. turn \in Nat /\ since \in 0..turn /\ MaxSteps > 2 /\ MaxSteps \in Nat
  BY <1>0, Limits DEF Typed
<1>3. messages \in Seq(Messages(turn + 1)) /\ User(turn + 1) \in Messages(turn + 1)
  <2>1. Messages(turn) \subseteq Messages(turn + 1)
    BY <1>2, MessageTypes
  <2>2. messages \in Seq(Messages(turn))
    BY <1>0 DEF Typed
  <2>3. messages \in Seq(Messages(turn + 1))
    BY <2>1, <2>2, SeqMonotonic
  <2>4. turn + 1 \in Nat /\ turn + 1 \in 0..turn + 1
    BY <1>2
  <2>5. User(turn + 1) \in Messages(turn + 1)
    BY <2>4, MessageTypes
  <2> QED BY <2>3, <2>5
<1>4. Append(messages, User(turn + 1)) \in Seq(Messages(turn + 1))
  BY <1>2, <1>3, AppendProperties
<1>5. messages' = Append(messages, User(turn + 1))
  <2>1. Reminder(1) = <<>>
    BY <1>2 DEF Reminder
  <2> QED BY <1>1, <1>4, <2>1, ConcatEmptySeq
<1>6. /\ UsersIn(messages') = UsersIn(messages) \cup {turn + 1}
      /\ WellFormed(messages) => WellFormed(messages')
      /\ LatestMessage(messages') = <<User(turn + 1)>>
  BY <1>2, <1>3, <1>5, OneMore, Roles
<1>7. Typed'
  <2>1. /\ turn' \in 0..MaxTurns /\ since' \in 0..turn' /\ step' \in 0..MaxSteps
        /\ empties' \in 0..MaxEmptyRetries /\ Len(ran') <= MaxBatch
        /\ calls' \in Seq(AnyId) /\ ran' \in Seq(Reports) /\ told' \in Seq(Reports)
    BY <1>1, <1>2, Limits
  <2>2. heard' \subseteq 0..turn'
    BY <1>0, <1>1, <1>2 DEF Typed
  <2>3. messages' \in Seq(Messages(turn'))
    BY <1>1, <1>4, <1>5
  <2> QED BY <1>0, <1>1, <2>1, <2>2, <2>3 DEF Typed, clientVars
<1>8. Running' /\ BatchShape'
  BY <1>1, <1>2 DEF Running, BatchShape
<1>9. Older'
  <2> SUFFICES ASSUME NEW i \in 1..Len(pending)
               PROVE  pending[i].id[1] > since /\ pending[i].id[1] < turn + 1
    BY <1>1 DEF Older
  <2> QED BY <1>0, <1>2, PendingTyped DEF Older
<1>10. ChatStoresNothing' /\ Owed' /\ OwedIsRecent' /\ GarbledMisses'
  BY <1>0, <1>1 DEF ChatStoresNothing, Owed, OwedIsRecent, GarbledMisses, clientVars, Ids, NoChain
<1>11. UsersAreRecent'
  BY <1>0, <1>1, <1>2, <1>6 DEF UsersAreRecent
<1>12. StoredHeard'
  <2>1. turn + 1 \in UsersIn(LatestMessage(messages'))
    <3> DEFINE one == <<User(turn + 1)>>
    <3>1. 1 \in DOMAIN one /\ one[1].role = "user" /\ one[1].turn = turn + 1
      BY Roles
    <3> HIDE DEF one
    <3>2. turn + 1 \in UsersIn(one)
      BY <3>1, UsersDef
    <3> QED BY <1>6, <3>2 DEF one
  <2> QED BY <1>0, <1>1, <1>6, <2>1 DEF StoredHeard
<1>13. Transcript' /\ AnswersHearEverything'
  BY <1>0, <1>1, <1>6 DEF Transcript, AnswersHearEverything
<1>14. ReportsMatchEffects'
  <2>1. ASSUME NEW pairs \in {<<>>, pending}, pairs # <<>>, Ids(pairs) = <<>> PROVE FALSE
    <3>1. pairs \in Seq(Reports) /\ DOMAIN pairs = DOMAIN Ids(pairs)
      BY <1>0, <2>1 DEF Ids, Typed
    <3> QED BY <2>1, <3>1, LenProperties, EmptySeq
  <2> QED BY <1>1, <2>1 DEF ReportsMatchEffects, Ids
<1> QED BY <1>7, <1>8, <1>9, <1>10, <1>11, <1>12, <1>13, <1>14 DEF IInv

LEMMA RequestFailsKeeps == ASSUME IInv, RequestFails PROVE IInv'
<1>0. /\ Typed /\ Running /\ Older /\ Owed /\ OwedIsRecent /\ UsersAreRecent /\ GarbledMisses
      /\ StoredHeard /\ Transcript /\ ChatStoresNothing /\ ReportsMatchEffects
  BY DEF IInv
<1>1. /\ pc = "ask" /\ pc' = "idle" /\ outcome' = "error" /\ step' = step
      /\ missed' = (missed \/ api = "responses")
      /\ UNCHANGED <<turn, since, clientVars, messages, empties, calls, ran, told, pending,
                     pendingOf, chain, heard, garbled>>
  BY DEF RequestFails, ReturnWith
<1>2. Typed'
  BY <1>0, <1>1 DEF Typed, clientVars
<1>3. Running' /\ BatchShape' /\ Older'
  BY <1>0, <1>1 DEF Running, BatchShape, Older
<1>4. ChatStoresNothing' /\ Owed' /\ OwedIsRecent' /\ GarbledMisses' /\ UsersAreRecent'
  BY <1>0, <1>1 DEF ChatStoresNothing, Owed, OwedIsRecent, GarbledMisses, UsersAreRecent, clientVars, Ids, NoChain
<1>5. StoredHeard'
  BY <1>0, <1>1 DEF StoredHeard, ChatStoresNothing, NoChain, Typed, Apis, clientVars
<1>6. Transcript' /\ AnswersHearEverything'
  BY <1>0, <1>1 DEF Transcript, AnswersHearEverything
<1>7. ReportsMatchEffects'
  BY <1>0, <1>1, ReportsKept
<1> QED BY <1>2, <1>3, <1>4, <1>5, <1>6, <1>7 DEF IInv

LEMMA ReplyEmptyKeeps == ASSUME IInv, ReplyEmpty PROVE IInv'
<1>0. /\ Typed /\ Running /\ GarbledMisses /\ Transcript /\ ReportsMatchEffects
  BY DEF IInv
<1>1. /\ Heard(<<>>) /\ pending' = PendingAfterReply
      /\ UNCHANGED <<turn, since, clientVars, calls, ran, told, pendingOf, garbled>>
  BY DEF ReplyEmpty
<1>2. /\ pc = "ask" /\ heard' \subseteq 0..turn
      /\ chain' \in [stored : BOOLEAN, owed : Seq(AnyId)]
      /\ PendingAfterReply \in {<<>>, pending}
  <2>1. <<>> \in Seq(AnyId)
    OBVIOUS
  <2> QED BY <1>1, <2>1, HeardEffect
<1>3. /\ messages' \in Seq(Messages(turn)) /\ UsersIn(messages') = UsersIn(messages)
      /\ WellFormed(messages) => WellFormed(messages')
      /\ missed' = missed
      /\ empties' \in 0..MaxEmptyRetries
      /\ \/ /\ pc' = "ask" /\ step' = step + 1 /\ step' \in 1..MaxSteps /\ outcome' = outcome
         \/ /\ pc' = "idle" /\ step' = step /\ outcome' = "error"
  <2>1. CASE MayRetry(empties) /\ empties' = empties + 1 /\ Continue(<<Note>>, FALSE)
    <3>1. turn \in Nat /\ messages \in Seq(Messages(turn)) /\ Note \in Messages(turn)
          /\ Note.role \notin {"calls", "user"}
      BY <1>0, Limits, MessageTypes, Roles DEF Typed
    <3>2. Append(messages, Note) = messages \o <<Note>> /\ <<Note>> \in Seq(Messages(turn))
      BY <3>1, AppendIsConcat
    <3>3. /\ UsersIn(Append(messages, Note)) = UsersIn(messages)
          /\ WellFormed(messages) => WellFormed(Append(messages, Note))
      BY <3>1, OneMore
    <3>4. empties' \in 0..MaxEmptyRetries
      BY <1>0, <2>1, Limits DEF MayRetry, Typed
    <3>5. missed \in BOOLEAN
      BY <1>0 DEF Typed
    <3> QED BY <1>0, <2>1, <3>2, <3>3, <3>4, <3>5, ContinueEffect
  <2>2. CASE ReturnWith("error") /\ UNCHANGED <<messages, empties, missed>>
    BY <1>0, <2>2 DEF ReturnWith, Typed
  <2> QED BY <2>1, <2>2 DEF ReplyEmpty
<1>4. Typed'
  <2>1. pending' \in Seq(Reports)
    BY <1>0, <1>1, <1>2, PendingStays
  <2>2. /\ step' \in 0..MaxSteps /\ outcome' \in {"none", "final", "error", "raised"}
        /\ pc' \in {"idle", "ask"} /\ missed' \in BOOLEAN
    BY <1>0, <1>3, Limits DEF Typed
  <2> QED BY <1>0, <1>1, <1>2, <1>3, <2>1, <2>2 DEF Typed, clientVars
<1>5. Running' /\ BatchShape' /\ GarbledMisses'
  BY <1>0, <1>1, <1>2, <1>3 DEF Running, BatchShape, GarbledMisses
<1>6. /\ ChatStoresNothing' /\ UsersAreRecent' /\ StoredHeard' /\ AnswersHearEverything'
  <2>1. <<>> \in Seq(AnyId)
    OBVIOUS
  <2>2. UNCHANGED <<turn, since, api, client>>
    BY <1>1 DEF clientVars
  <2>3. missed' \/ (~missed /\ pending' \in {<<>>, PendingAfterReply})
    BY <1>1, <1>3
  <2> QED BY <1>1, <1>3, <2>1, <2>2, <2>3, ReplyKeeps
<1>7. Older' /\ Owed' /\ OwedIsRecent'
  BY <1>1, <1>3, PlainReplyKeeps DEF clientVars
<1>8. Transcript'
  BY <1>0, <1>1, <1>2, <1>3 DEF Transcript, clientVars
<1>9. ReportsMatchEffects'
  BY <1>0, <1>1, <1>2, ReportsKept
<1> QED BY <1>4, <1>5, <1>6, <1>7, <1>8, <1>9 DEF IInv

LEMMA ReplyFinalKeeps == ASSUME IInv, ReplyFinal PROVE IInv'
<1>0. /\ Typed /\ Running /\ GarbledMisses /\ Transcript /\ ReportsMatchEffects
  BY DEF IInv
<1>1. /\ Heard(<<>>) /\ pending' = <<>> /\ messages' = Append(messages, Said)
      /\ empties' = 0 /\ pc' = "idle" /\ outcome' = "final" /\ step' = step
      /\ UNCHANGED <<turn, since, clientVars, calls, ran, told, pendingOf, missed, garbled>>
  BY DEF ReplyFinal, ReturnWith
<1>2. /\ pc = "ask" /\ heard' \subseteq 0..turn
      /\ chain' \in [stored : BOOLEAN, owed : Seq(AnyId)]
  <2>1. <<>> \in Seq(AnyId)
    OBVIOUS
  <2> QED BY <1>1, <2>1, HeardEffect
<1>3. /\ messages' \in Seq(Messages(turn)) /\ UsersIn(messages') = UsersIn(messages)
      /\ WellFormed(messages) => WellFormed(messages')
  <2>1. turn \in Nat /\ messages \in Seq(Messages(turn)) /\ Said \in Messages(turn)
        /\ Said.role \notin {"calls", "user"}
    BY <1>0, Limits, MessageTypes, Roles DEF Typed
  <2> QED BY <1>1, <2>1, OneMore
<1>4. Typed'
  <2>1. pending' \in Seq(Reports) /\ empties' \in 0..MaxEmptyRetries
    BY <1>1, Limits
  <2> QED BY <1>0, <1>1, <1>2, <1>3, <2>1 DEF Typed, clientVars
<1>5. Running' /\ BatchShape' /\ GarbledMisses'
  BY <1>0, <1>1, <1>2 DEF Running, BatchShape, GarbledMisses
<1>6. /\ ChatStoresNothing' /\ UsersAreRecent' /\ StoredHeard' /\ AnswersHearEverything'
  <2>1. <<>> \in Seq(AnyId)
    OBVIOUS
  <2>2. UNCHANGED <<turn, since, api, client>>
    BY <1>1 DEF clientVars
  <2>3. missed' \/ (~missed /\ pending' \in {<<>>, PendingAfterReply})
    BY <1>1
  <2> QED BY <1>1, <1>3, <2>1, <2>2, <2>3, ReplyKeeps
<1>7. Older' /\ Owed' /\ OwedIsRecent'
  BY <1>1, PlainReplyKeeps DEF clientVars
<1>8. Transcript'
  BY <1>0, <1>1, <1>2, <1>3 DEF Transcript, clientVars
<1>9. ReportsMatchEffects'
  BY <1>0, <1>1, ReportsKept
<1> QED BY <1>4, <1>5, <1>6, <1>7, <1>8, <1>9 DEF IInv

(* A reply that starts a batch. *)
LEMMA BatchStarts ==
  ASSUME IInv, pc = "ask", NEW n \in BatchSizes,
         calls' = NewIds(n), ran' = <<>>, told' = <<>>, pending' \in {<<>>, pending},
         UNCHANGED <<turn, since, step>>
  PROVE  /\ calls' \in Seq(AnyId) /\ ran' \in Seq(Reports) /\ told' \in Seq(Reports)
         /\ pending' \in Seq(Reports) /\ Len(ran') <= MaxBatch
         /\ BatchShape' /\ ReportsMatchEffects'
<1>1. Typed /\ Running /\ Older /\ n \in Nat \ {0}
  BY Limits DEF IInv
<1>2. /\ calls' \in Seq(AnyId) /\ Len(calls') = n /\ calls' # <<>>
      /\ \A i \in 1..n : calls'[i] = <<turn, step, i>>
  BY <1>1, NewIdsAre
<1>3. BatchShape'
  <2>1. Len(ran') = 0 /\ Len(ran') <= Len(calls')
    BY <1>1, <1>2
  <2> QED BY <1>2, <2>1 DEF BatchShape
<1>4. ReportsMatchEffects'
  <2>1. ASSUME pending # <<>>, Ids(pending) = calls' PROVE FALSE
    <3> DEFINE ids == calls'
    <3>1. \A i \in 1..Len(ids) : ids[i] = <<turn, step, i>>
      BY <1>2
    <3>2. ids = Ids(pending)
      BY <2>1
    <3> HIDE DEF ids
    <3> QED BY <1>1, <2>1, <3>1, <3>2, NotPending
  <2>2. ASSUME NEW pairs \in {told', pending'}, pairs # <<>>, Ids(pairs) = calls' PROVE FALSE
    BY <2>1, <2>2
  <2> QED BY <2>2 DEF ReportsMatchEffects, Ids
<1>5. pending' \in Seq(Reports) /\ ran' \in Seq(Reports) /\ told' \in Seq(Reports)
  BY <1>1, PendingStays
<1>6. Len(ran') <= MaxBatch
  BY Limits
<1> QED BY <1>2, <1>3, <1>4, <1>5, <1>6

LEMMA ReplyTextCallsKeeps == ASSUME IInv, ReplyTextCalls PROVE IInv'
<1>0. /\ Typed /\ Running /\ GarbledMisses /\ Transcript
  BY DEF IInv
<1>1. PICK n \in BatchSizes \cap 1..MaxBatch :
        /\ Heard(<<>>) /\ pending' = PendingAfterReply /\ messages' = Append(messages, Said)
        /\ calls' = NewIds(n) /\ ran' = <<>> /\ told' = <<>>
        /\ empties' = 0 /\ pc' = "text_batch"
        /\ UNCHANGED <<turn, since, clientVars, step, pendingOf, missed, garbled, outcome>>
  BY DEF ReplyTextCalls
<1>2. /\ pc = "ask" /\ heard' \subseteq 0..turn
      /\ chain' \in [stored : BOOLEAN, owed : Seq(AnyId)]
      /\ PendingAfterReply \in {<<>>, pending}
  <2>1. <<>> \in Seq(AnyId)
    OBVIOUS
  <2> QED BY <1>1, <2>1, HeardEffect
<1>3. /\ messages' \in Seq(Messages(turn)) /\ UsersIn(messages') = UsersIn(messages)
      /\ WellFormed(messages) => WellFormed(messages')
  <2>1. turn \in Nat /\ messages \in Seq(Messages(turn)) /\ Said \in Messages(turn)
        /\ Said.role \notin {"calls", "user"}
    BY <1>0, Limits, MessageTypes, Roles DEF Typed
  <2> QED BY <1>1, <2>1, OneMore
<1>4. /\ calls' \in Seq(AnyId) /\ ran' \in Seq(Reports) /\ told' \in Seq(Reports)
      /\ pending' \in Seq(Reports) /\ Len(ran') <= MaxBatch
      /\ BatchShape' /\ ReportsMatchEffects'
  BY <1>1, <1>2, BatchStarts
<1>5. Typed'
  <2>1. empties' \in 0..MaxEmptyRetries
    BY <1>1, Limits
  <2> QED BY <1>0, <1>1, <1>2, <1>3, <1>4, <2>1 DEF Typed, clientVars
<1>6. Running' /\ GarbledMisses'
  BY <1>0, <1>1, <1>2 DEF Running, GarbledMisses
<1>7. /\ ChatStoresNothing' /\ UsersAreRecent' /\ StoredHeard' /\ AnswersHearEverything'
  <2>1. <<>> \in Seq(AnyId)
    OBVIOUS
  <2>2. UNCHANGED <<turn, since, api, client>>
    BY <1>1 DEF clientVars
  <2>3. missed' \/ (~missed /\ pending' \in {<<>>, PendingAfterReply})
    BY <1>1
  <2> QED BY <1>1, <1>3, <2>1, <2>2, <2>3, ReplyKeeps
<1>8. Older' /\ Owed' /\ OwedIsRecent'
  BY <1>1, PlainReplyKeeps DEF clientVars
<1>9. Transcript'
  BY <1>0, <1>1, <1>2, <1>3 DEF Transcript, clientVars
<1> QED BY <1>4, <1>5, <1>6, <1>7, <1>8, <1>9 DEF IInv

(* What a reply with native calls keeps besides, wherever it leads. *)
LEMMA NativeReplyKeeps ==
  ASSUME IInv, NEW n \in BatchSizes, Heard(NewIds(n)),
         UNCHANGED <<turn, since, step, api, client>>,
         pending' \in {<<>>, pending}
  PROVE  /\ pc = "ask" /\ NewIds(n) \in Seq(AnyId)
         /\ heard' \subseteq 0..turn
         /\ chain' \in [stored : BOOLEAN, owed : Seq(AnyId)]
         /\ pending' \in Seq(Reports)
         /\ Older' /\ OwedIsRecent'
<1>0. Typed /\ Running /\ Older /\ pc = "ask" /\ n \in Nat \ {0} /\ since < turn
  BY Limits DEF IInv, Heard, Running
<1>1. /\ NewIds(n) \in Seq(AnyId) /\ Len(NewIds(n)) = n
      /\ \A i \in 1..n : NewIds(n)[i][1] = turn
  BY <1>0, NewIdsAre
<1>2. /\ heard' \subseteq 0..turn
      /\ chain' \in [stored : BOOLEAN, owed : Seq(AnyId)]
      /\ api = "chat_completions" => chain' = NoChain
      /\ api = "responses" => chain' = Stored(NewIds(n))
  BY <1>1, HeardEffect
<1>3. Older'
  BY <1>0 DEF Older
<1>4. OwedIsRecent'
  <2>1. CASE api = "chat_completions"
    BY <1>2, <2>1 DEF OwedIsRecent, NoChain
  <2>2. CASE api = "responses"
    <3>1. chain'.owed = NewIds(n)
      BY <1>2, <2>2 DEF Stored
    <3> QED BY <1>0, <1>1, <3>1 DEF OwedIsRecent
  <2> QED BY <1>0, <2>1, <2>2 DEF Typed, Apis
<1>5. pending' \in Seq(Reports)
  BY <1>0, PendingStays
<1> QED BY <1>0, <1>1, <1>2, <1>3, <1>4, <1>5

LEMMA ReplyNativeCallsKeeps == ASSUME IInv, ReplyNativeCalls PROVE IInv'
<1>0. /\ Typed /\ Running /\ GarbledMisses /\ Transcript
  BY DEF IInv
<1>1. PICK n \in BatchSizes :
        /\ Heard(NewIds(n)) /\ pending' = PendingAfterReply
        /\ messages' = IF api = "responses" THEN messages ELSE Append(messages, Asked(NewIds(n)))
        /\ calls' = NewIds(n) /\ ran' = <<>> /\ told' = <<>>
        /\ empties' = 0 /\ pc' = "native_batch"
        /\ UNCHANGED <<turn, since, clientVars, step, pendingOf, missed, garbled, outcome>>
  BY DEF ReplyNativeCalls
<1>2. pending' \in {<<>>, pending} /\ UNCHANGED <<api, client>>
  BY <1>1 DEF PendingAfterReply, clientVars
<1>3. /\ pc = "ask" /\ NewIds(n) \in Seq(AnyId)
      /\ heard' \subseteq 0..turn
      /\ chain' \in [stored : BOOLEAN, owed : Seq(AnyId)]
      /\ Older' /\ OwedIsRecent'
  BY <1>1, <1>2, NativeReplyKeeps
<1>4. /\ api = "chat_completions" => chain' = NoChain
      /\ api = "responses" => chain' = Stored(NewIds(n)) /\ PendingAfterReply = <<>>
  BY <1>1, <1>3, HeardEffect
<1>5. /\ turn \in Nat /\ messages \in Seq(Messages(turn)) /\ api \in {"chat_completions", "responses"}
      /\ WellFormed(messages)
  BY <1>0, <1>3, Limits DEF Typed, Transcript, Apis
<1>6. messages' \in Seq(Messages(turn)) /\ UsersIn(messages') = UsersIn(messages)
  <2>1. CASE api = "responses"
    BY <1>1, <1>5, <2>1
  <2>2. CASE api = "chat_completions"
    <3> DEFINE one == <<Asked(NewIds(n))>>
    <3>1. messages' = Append(messages, Asked(NewIds(n))) /\ Asked(NewIds(n)) \in Messages(turn)
      BY <1>1, <1>3, <1>5, <2>2, MessageTypes
    <3>2. messages' \in Seq(Messages(turn)) /\ messages' = messages \o one
      BY <1>5, <3>1, AppendProperties, AppendIsConcat
    <3>3. one \in Seq(Messages(turn)) /\ \A i \in DOMAIN one : one[i].role # "user"
      BY <3>1, Roles
    <3> QED BY <1>5, <3>2, <3>3, UsersOfCalls
  <2> QED BY <1>5, <2>1, <2>2
<1>7. /\ calls' \in Seq(AnyId) /\ ran' \in Seq(Reports) /\ told' \in Seq(Reports)
      /\ pending' \in Seq(Reports) /\ Len(ran') <= MaxBatch
      /\ BatchShape' /\ ReportsMatchEffects'
  BY <1>1, <1>2, <1>3, BatchStarts
<1>8. Typed'
  <2>1. empties' \in 0..MaxEmptyRetries
    BY <1>1, Limits
  <2> QED BY <1>0, <1>1, <1>3, <1>6, <1>7, <2>1 DEF Typed, clientVars
<1>9. Running' /\ GarbledMisses'
  BY <1>0, <1>1, <1>3 DEF Running, GarbledMisses
<1>10. /\ ChatStoresNothing' /\ UsersAreRecent' /\ StoredHeard' /\ AnswersHearEverything'
  <2>1. UNCHANGED <<turn, since, api, client>>
    BY <1>1, <1>2
  <2>2. missed' \/ (~missed /\ pending' \in {<<>>, PendingAfterReply})
    BY <1>1
  <2> QED BY <1>1, <1>3, <1>6, <2>1, <2>2, ReplyKeeps
<1>11. Owed'
  <2>1. ASSUME api = "responses" PROVE pending' = <<>> /\ chain' = Stored(calls')
    BY <1>1, <1>4, <2>1
  <2> QED BY <1>1, <1>2, <2>1 DEF Owed
<1>12. Transcript'
  <2>1. CASE api = "responses"
    BY <1>1, <1>2, <1>5, <2>1 DEF Transcript
  <2>2. CASE api = "chat_completions"
    BY <1>1, <1>2, <1>5, <2>2 DEF Transcript
  <2> QED BY <1>5, <2>1, <2>2
<1> QED BY <1>3, <1>7, <1>8, <1>9, <1>10, <1>11, <1>12 DEF IInv

(* A native reply that no batch follows: its calls stay unanswered. *)
LEMMA GarbledReplyKeeps ==
  ASSUME IInv, NEW n \in BatchSizes, Heard(NewIds(n)),
         garbled' = (garbled \/ api = "responses"), missed' = (missed \/ api = "responses"),
         pending' \in {pending, PendingAfterReply}, pc' = "idle", outcome' \in {"error", "raised"},
         UNCHANGED <<turn, since, clientVars, messages, step, empties, calls, ran, told, pendingOf>>
  PROVE  IInv'
<1>0. /\ Typed /\ Running /\ GarbledMisses /\ Transcript /\ ReportsMatchEffects
  BY DEF IInv
<1>1. pending' \in {<<>>, pending} /\ UNCHANGED <<api, client>> /\ api \in {"chat_completions", "responses"}
  BY <1>0 DEF PendingAfterReply, clientVars, Typed, Apis
<1>2. /\ pc = "ask" /\ NewIds(n) \in Seq(AnyId)
      /\ heard' \subseteq 0..turn
      /\ chain' \in [stored : BOOLEAN, owed : Seq(AnyId)]
      /\ pending' \in Seq(Reports)
      /\ Older' /\ OwedIsRecent'
  BY <1>1, NativeReplyKeeps
<1>3. Typed'
  BY <1>0, <1>2 DEF Typed, clientVars
<1>4. Running' /\ GarbledMisses' /\ BatchShape' /\ Transcript'
  BY <1>0, <1>1, <1>2 DEF Running, GarbledMisses, BatchShape, Transcript
<1>5. /\ ChatStoresNothing' /\ UsersAreRecent' /\ StoredHeard' /\ AnswersHearEverything'
  <2>1. CASE api = "responses"
    <3>1. missed'
      BY <2>1
    <3> QED BY <1>1, <1>2, <3>1, ReplyKeeps
  <2>2. CASE api = "chat_completions"
    <3>1. ChatStoresNothing' /\ UsersAreRecent' /\ chain' = NoChain
      BY <1>1, <1>2, <2>2, ReplyKeeps, HeardEffect
    <3> QED BY <3>1 DEF StoredHeard, AnswersHearEverything, NoChain
  <2> QED BY <1>1, <2>1, <2>2
<1>6. Owed'
  BY <1>1 DEF Owed
<1>7. ReportsMatchEffects'
  BY <1>0, <1>1, ReportsKept
<1> QED BY <1>2, <1>3, <1>4, <1>5, <1>6, <1>7 DEF IInv

LEMMA ReplyUnparsableKeeps == ASSUME IInv, ReplyUnparsable PROVE IInv'
<1>1. PICK n \in BatchSizes :
        /\ Heard(NewIds(n)) /\ garbled' = (garbled \/ api = "responses")
        /\ missed' = (missed \/ api = "responses")
        /\ pc' = "idle" /\ outcome' = "error"
        /\ UNCHANGED <<turn, since, clientVars, messages, step, empties, calls, ran, told, pending, pendingOf>>
  BY DEF ReplyUnparsable, ReturnWith
<1> QED BY <1>1, GarbledReplyKeeps

LEMMA ReplyNoObjectKeeps == ASSUME IInv, ReplyNoObject PROVE IInv'
<1>1. PICK n \in BatchSizes :
        /\ api = "responses" /\ Heard(NewIds(n)) /\ garbled' = TRUE /\ missed' = TRUE
        /\ pending' = PendingAfterReply
        /\ pc' = "idle" /\ outcome' = "raised"
        /\ UNCHANGED <<turn, since, clientVars, messages, step, empties, calls, ran, told, pendingOf>>
  BY DEF ReplyNoObject, ReturnWith
<1> QED BY <1>1, GarbledReplyKeeps

-----------------------------------------------------------------------------
(* Batches. *)

LEMMA KeptIs ==
  ASSUME Typed
  PROVE  /\ Len(calls) \in Nat
         /\ Len(Kept(calls)) = Smaller(Len(calls), MaxBatch)
         /\ Len(Kept(calls)) \in 0..Len(calls) /\ Len(Kept(calls)) <= MaxBatch
         /\ \A i \in 1..Len(Kept(calls)) : Kept(calls)[i] = calls[i] /\ calls[i] \in AnyId
<1> DEFINE n == Smaller(Len(calls), MaxBatch)
<1>1. calls \in Seq(AnyId) /\ Len(calls) \in Nat /\ n \in 0..Len(calls) /\ n <= MaxBatch
  BY Limits DEF Typed, Smaller
<1> HIDE DEF n
<1>2. \A k \in 0..Len(calls) :
        /\ Len(SubSeq(calls, 1, k)) = k
        /\ \A i \in 1..k : SubSeq(calls, 1, k)[i] = calls[i] /\ calls[i] \in AnyId
  BY <1>1
<1>3. /\ Len(SubSeq(calls, 1, n)) = n
      /\ \A i \in 1..n : SubSeq(calls, 1, n)[i] = calls[i] /\ calls[i] \in AnyId
  BY <1>1, <1>2
<1>4. Kept(calls) = SubSeq(calls, 1, n)
  BY DEF Kept, n
<1> QED BY <1>1, <1>3, <1>4 DEF n

LEMMA RunToolKeeps == ASSUME IInv, RunTool PROVE IInv'
<1>0. /\ Typed /\ Running /\ BatchShape /\ Older /\ Owed /\ OwedIsRecent /\ UsersAreRecent /\ GarbledMisses
      /\ StoredHeard /\ Transcript /\ ChatStoresNothing /\ ReportsMatchEffects /\ AnswersHearEverything
  BY DEF IInv
<1>1. /\ pc \in {"text_batch", "native_batch"} /\ Len(ran) # Len(Kept(calls))
      /\ UNCHANGED <<pc, turn, since, clientVars, messages, step, empties, calls, told, pending,
                     pendingOf, chain, historyVars>>
  BY DEF RunTool, BatchOver
<1> DEFINE k == Len(ran) + 1
<1>2. PICK s \in {"success", "failed"} : ran' = Append(ran, [id |-> Kept(calls)[k], status |-> s])
  BY DEF RunTool
<1>3. ran \in Seq(Reports) /\ Len(ran) \in Nat /\ Len(ran) <= MaxBatch /\ Len(ran) <= Len(calls)
  BY <1>0, <1>1, LenProperties DEF Typed, BatchShape
<1>4. k \in 1..Len(Kept(calls)) /\ k \in 1..Len(calls) /\ k <= MaxBatch
  BY <1>0, <1>1, <1>3, KeptIs, Limits DEF Smaller
<1>5. Kept(calls)[k] = calls[k] /\ calls[k] \in AnyId
  BY <1>0, <1>4, KeptIs
<1> DEFINE r == [id |-> calls[k], status |-> s]
<1>6. r \in Reports /\ r.id = calls[k] /\ r.status # "skipped"
  BY <1>5 DEF Reports, Status
<1>7. ran' = Append(ran, r)
  BY <1>2, <1>5
<1> HIDE DEF r
<1>8. /\ ran' \in Seq(Reports) /\ Len(ran') = k /\ \A i \in 1..Len(ran) : ran'[i] = ran[i]
      /\ ran'[k] = r
  BY <1>3, <1>6, <1>7, AppendProperties
<1>9. Typed'
  <2>1. Len(ran') <= MaxBatch
    BY <1>4, <1>8
  <2> QED BY <1>0, <1>1, <1>8, <2>1 DEF Typed, clientVars, historyVars
<1>10. BatchShape'
  <2>1. /\ calls' # <<>> /\ told' = <<>> /\ Len(ran') <= Len(calls')
        /\ \A i \in 1..Len(calls') : calls'[i] = <<turn', step', i>>
    BY <1>0, <1>1, <1>4, <1>8 DEF BatchShape
  <2>2. ASSUME NEW i \in 1..Len(ran') PROVE ran'[i].id = calls[i] /\ ran'[i].status # "skipped"
    <3>1. CASE i = k
      BY <1>6, <1>8, <3>1
    <3>2. CASE i # k
      <4>1. i \in 1..Len(ran)
        BY <1>3, <1>8, <3>2
      <4>2. ran'[i] = ran[i]
        BY <1>8, <4>1
      <4> QED BY <1>0, <1>1, <4>1, <4>2 DEF BatchShape
    <3> QED BY <3>1, <3>2
  <2> QED BY <1>1, <2>1, <2>2 DEF BatchShape
<1>11. Running' /\ Older' /\ ChatStoresNothing' /\ OwedIsRecent' /\ UsersAreRecent' /\ GarbledMisses'
  BY <1>0, <1>1 DEF Running, Older, ChatStoresNothing, OwedIsRecent, UsersAreRecent, GarbledMisses,
     clientVars, historyVars, NoChain
<1>12. Owed' /\ StoredHeard' /\ AnswersHearEverything' /\ Transcript'
  BY <1>0, <1>1 DEF Owed, StoredHeard, AnswersHearEverything, Transcript, clientVars, historyVars, NoChain, Ids
<1>13. ReportsMatchEffects'
  <2>1. ASSUME pending # <<>>, Ids(pending) = calls PROVE FALSE
    BY <1>0, <1>1, <2>1, NotPending DEF BatchShape
  <2>2. told' = <<>> /\ pending' = pending /\ calls' = calls
    BY <1>0, <1>1 DEF BatchShape
  <2> QED BY <2>1, <2>2 DEF ReportsMatchEffects, Ids
<1> QED BY <1>9, <1>10, <1>11, <1>12, <1>13 DEF IInv

(* The reports of a batch: each call once and in order, with what became of it. *)
LEMMA ZippedReports ==
  ASSUME Typed, BatchShape, pc \in {"text_batch", "native_batch"}
  PROVE  /\ Zipped \in Seq(Reports) /\ Len(Zipped) = Len(calls) /\ Zipped # <<>>
         /\ Ids(Zipped) = calls
         /\ \A i \in 1..Len(calls) :
              /\ Zipped[i].id = <<turn, step, i>> /\ Zipped[i].id = calls[i]
              /\ IF Zipped[i].status = "skipped" THEN \A r \in ToSet(ran) : r.id # Zipped[i].id
                                                 ELSE Zipped[i] \in ToSet(ran)
<1>1. /\ calls \in Seq(AnyId) /\ Len(calls) \in Nat /\ DOMAIN calls = 1..Len(calls) /\ calls # <<>>
      /\ \A i \in 1..Len(calls) : calls[i] \in AnyId /\ calls[i] = <<turn, step, i>>
      /\ ran \in Seq(Reports) /\ DOMAIN ran = 1..Len(ran) /\ Len(ran) \in Nat
      /\ Len(ran) <= Len(calls)
      /\ \A i \in 1..Len(ran) : ran[i].id = calls[i] /\ ran[i].status # "skipped" /\ ran[i] \in Reports
  BY LenProperties, ElementOfSeq DEF Typed, BatchShape
<1> DEFINE status(i) == IF i \in 1..Len(ran) THEN ran[i].status ELSE "skipped"
<1>2. Zipped = [i \in 1..Len(calls) |-> [id |-> calls[i], status |-> status(i)]]
  <2>1. Records = [i \in 1..Len(calls) |-> status(i)]
    BY <1>1 DEF Records
  <2>2. DOMAIN Records = 1..Len(calls) /\ \A i \in 1..Len(calls) : Records[i] = status(i)
    BY <2>1
  <2> QED BY <2>2 DEF Zipped
<1>3. \A i \in 1..Len(calls) : status(i) \in Status
  BY <1>1 DEF Reports, Status
<1> HIDE DEF status
<1>4. Zipped \in [1..Len(calls) -> Reports]
  BY <1>1, <1>2, <1>3 DEF Reports
<1>5. Zipped \in Seq(Reports) /\ Len(Zipped) = Len(calls)
  BY <1>1, <1>4
<1>6. \A i \in 1..Len(calls) : Zipped[i].id = calls[i] /\ Zipped[i].status = status(i)
                               /\ Zipped[i] = [id |-> calls[i], status |-> status(i)]
  BY <1>2
<1>7. Ids(Zipped) = calls
  <2>1. DOMAIN Zipped = 1..Len(calls)
    BY <1>4
  <2>2. Ids(Zipped) = [i \in 1..Len(calls) |-> calls[i]]
    BY <1>6, <2>1 DEF Ids
  <2>3. calls = [i \in 1..Len(calls) |-> calls[i]]
    BY <1>1
  <2> QED BY <2>2, <2>3
<1>8. Zipped # <<>>
  <2>1. Len(calls) # 0
    BY <1>1, EmptySeq
  <2> QED BY <1>5, <2>1, EmptySeq
<1>9. ASSUME NEW i \in 1..Len(calls)
      PROVE  IF Zipped[i].status = "skipped" THEN \A r \in ToSet(ran) : r.id # Zipped[i].id
                                             ELSE Zipped[i] \in ToSet(ran)
  <2>1. CASE i \in 1..Len(ran)
    <3>1. ran[i] = [id |-> calls[i], status |-> ran[i].status]
      BY <1>1, <2>1 DEF Reports
    <3>2. Zipped[i] = ran[i] /\ Zipped[i].status # "skipped"
      BY <1>1, <1>6, <2>1, <3>1 DEF status
    <3> QED BY <1>1, <2>1, <3>2 DEF ToSet
  <2>2. CASE i \notin 1..Len(ran)
    <3>1. Zipped[i].status = "skipped" /\ Zipped[i].id = <<turn, step, i>>
      BY <1>1, <1>6, <2>2 DEF status
    <3>2. ASSUME NEW j \in 1..Len(ran) PROVE ran[j].id # Zipped[i].id
      <4>1. j \in 1..Len(calls) /\ j # i
        BY <1>1, <2>2
      <4>2. ran[j].id = <<turn, step, j>>
        BY <1>1, <4>1
      <4> QED BY <3>1, <4>1, <4>2
    <3>3. \A r \in ToSet(ran) : \E j \in 1..Len(ran) : r = ran[j]
      BY <1>1 DEF ToSet
    <3> QED BY <3>1, <3>2, <3>3
  <2> QED BY <2>1, <2>2
<1> QED BY <1>1, <1>5, <1>6, <1>7, <1>8, <1>9

(* What the end of a batch keeps, whatever it reports. *)
LEMMA FinishKeeps ==
  ASSUME IInv, pc \in {"text_batch", "native_batch"},
         NEW added \in Seq(Messages(turn)), NEW leaves \in BOOLEAN, Continue(added, leaves),
         \A i \in DOMAIN added : added[i].role # "user",
         WellFormed(messages \o added),
         told' = Zipped,
         UNCHANGED <<turn, since, clientVars, empties, calls, ran, chain, heard, garbled>>
  PROVE  /\ pc' \in {"idle", "ask"}
         /\ pc' = "ask" => step' = step + 1
         /\ pc' = "idle" => step' = step
         /\ missed' \in {missed, missed \/ leaves}
         /\ pc' = "ask" => missed' = missed
         /\ pc' = "idle" => missed' = (missed \/ leaves)
         /\ pending' \in Seq(Reports) /\ pendingOf' \in 1..client => Typed'
         /\ Running' /\ BatchShape' /\ ChatStoresNothing' /\ OwedIsRecent' /\ UsersAreRecent'
         /\ GarbledMisses' /\ Transcript' /\ AnswersHearEverything'
         /\ UsersIn(messages') = UsersIn(messages)
         /\ pending' \in {pending, Zipped} => ReportsMatchEffects'
<1>0. /\ Typed /\ Running /\ BatchShape /\ ChatStoresNothing /\ OwedIsRecent
      /\ UsersAreRecent /\ GarbledMisses /\ StoredHeard /\ ReportsMatchEffects /\ messages \in Seq(Messages(turn))
  BY DEF IInv, Typed
<1>1. /\ messages' \in Seq(Messages(turn))
      /\ UsersIn(messages') = UsersIn(messages \o added)
      /\ WellFormed(messages')
      /\ \/ /\ pc' = "ask" /\ step' = step + 1 /\ step' \in 1..MaxSteps
            /\ missed' = missed /\ outcome' = outcome
         \/ /\ pc' = "idle" /\ step' = step /\ missed' = (missed \/ leaves)
            /\ outcome' = "error"
  BY <1>0, ContinueEffect
<1>2. UsersIn(messages') = UsersIn(messages)
  BY <1>0, <1>1, UsersOfCalls
<1>3. /\ Zipped \in Seq(Reports) /\ Zipped # <<>> /\ Ids(Zipped) = calls
      /\ Len(Zipped) = Len(calls)
      /\ \A i \in 1..Len(calls) :
           IF Zipped[i].status = "skipped" THEN \A r \in ToSet(ran) : r.id # Zipped[i].id
                                           ELSE Zipped[i] \in ToSet(ran)
  BY <1>0, ZippedReports
<1>4. missed' \in BOOLEAN
  BY <1>0, <1>1 DEF Typed
<1>5. ASSUME pending' \in Seq(Reports) /\ pendingOf' \in 1..client PROVE Typed'
  <2>1. step' \in 0..MaxSteps /\ pc' \in {"idle", "ask"} /\ outcome' \in {"none", "final", "error", "raised"}
    BY <1>0, <1>1, Limits DEF Typed
  <2> QED BY <1>0, <1>1, <1>3, <1>4, <1>5, <2>1 DEF Typed, clientVars
<1>6. Running'
  <2>1. step \in Nat /\ step > 0 /\ since < turn
    BY <1>0 DEF Typed, Running
  <2> QED BY <1>1, <2>1 DEF Running
<1>7. BatchShape' /\ Transcript'
  BY <1>1 DEF BatchShape, Transcript
<1>8. ChatStoresNothing' /\ OwedIsRecent' /\ UsersAreRecent'
  BY <1>0, <1>2 DEF ChatStoresNothing, OwedIsRecent, UsersAreRecent, clientVars, NoChain
<1>9. GarbledMisses'
  <2>1. missed => missed'
    BY <1>1, Zenon
  <2> QED BY <1>0, <2>1, Zenon DEF GarbledMisses
<1>10. AnswersHearEverything'
  BY <1>1 DEF AnswersHearEverything
<1>11. ASSUME pending' \in {pending, Zipped} PROVE ReportsMatchEffects'
  <2>1. calls' = calls /\ ran' = ran /\ DOMAIN Zipped = 1..Len(calls)
    BY <1>3, LenProperties
  <2>2. ASSUME NEW pairs \in {pending, Zipped}, pairs # <<>>, Ids(pairs) = calls, NEW i \in DOMAIN pairs
        PROVE  IF pairs[i].status = "skipped" THEN \A r \in ToSet(ran) : r.id # pairs[i].id
                                              ELSE pairs[i] \in ToSet(ran)
    <3>1. CASE pairs = pending
      BY <1>0, <2>2, <3>1 DEF ReportsMatchEffects
    <3>2. CASE pairs = Zipped
      BY <1>3, <2>1, <2>2, <3>2
    <3> QED BY <2>2, <3>1, <3>2
  <2>3. \A pairs \in {told', pending'} : pairs \in {pending, Zipped}
    BY <1>11
  <2> QED BY <2>1, <2>2, <2>3 DEF ReportsMatchEffects, Ids
<1> QED BY <1>0, <1>1, <1>2, <1>5, <1>6, <1>7, <1>8, <1>9, <1>10, <1>11

LEMMA FinishTextBatchKeeps == ASSUME IInv, FinishTextBatch PROVE IInv'
<1>0. /\ Typed /\ Running /\ Older /\ Owed /\ StoredHeard /\ Transcript
  BY DEF IInv
<1>1. /\ pc = "text_batch" /\ told' = Zipped /\ Continue(<<Note>>, FALSE)
      /\ UNCHANGED <<turn, since, clientVars, empties, calls, ran, pending, pendingOf, chain, heard, garbled>>
  BY DEF FinishTextBatch
<1>2. turn \in Nat /\ messages \in Seq(Messages(turn)) /\ Note \in Messages(turn)
      /\ Note.role \notin {"calls", "user"}
  BY <1>0, Limits, MessageTypes, Roles DEF Typed
<1> DEFINE added == <<Note>>
<1>3. /\ added \in Seq(Messages(turn)) /\ \A i \in DOMAIN added : added[i].role # "user"
      /\ Append(messages, Note) = messages \o added
  BY <1>2, AppendIsConcat
<1>4. WellFormed(messages \o added)
  <2>1. WellFormed(messages)
    BY <1>0, <1>1 DEF Transcript
  <2>2. WellFormed(Append(messages, Note))
    BY <1>2, <2>1, OneMore
  <2> QED BY <1>3, <2>2
<1>5. Continue(added, FALSE)
  BY <1>1
<1> HIDE DEF added
<1>6. /\ pc' \in {"idle", "ask"}
      /\ pc' = "ask" => step' = step + 1
      /\ pc' = "idle" => step' = step
      /\ missed' \in {missed, missed \/ FALSE}
      /\ pending' \in Seq(Reports) /\ pendingOf' \in 1..client => Typed'
      /\ Running' /\ BatchShape' /\ ChatStoresNothing' /\ OwedIsRecent' /\ UsersAreRecent'
      /\ GarbledMisses' /\ Transcript' /\ AnswersHearEverything'
      /\ UsersIn(messages') = UsersIn(messages)
      /\ pending' \in {pending, Zipped} => ReportsMatchEffects'
  BY <1>1, <1>3, <1>4, <1>5, FinishKeeps
<1>7. Typed' /\ ReportsMatchEffects'
  BY <1>0, <1>1, <1>6 DEF Typed
<1>8. Older'
  <2> SUFFICES ASSUME NEW i \in 1..Len(pending)
               PROVE  /\ pending[i].id[1] > since
                      /\ \/ pending[i].id[1] < turn
                         \/ pending[i].id[1] = turn /\ (pc' = "idle" \/ pending[i].id[2] < step')
    BY <1>1 DEF Older
  <2>1. pending[i].id[2] \in Int /\ step \in Int
    BY <1>0, PendingTyped DEF Typed
  <2> QED BY <1>0, <1>1, <1>6, <2>1 DEF Older
<1>9. Owed'
  BY <1>0, <1>1, <1>6 DEF Owed, Ids, NoChain, clientVars
<1>10. StoredHeard'
  <2>1. ~missed' => ~missed
    BY <1>6
  <2> QED BY <1>0, <1>1, <1>6, <2>1 DEF StoredHeard
<1> QED BY <1>6, <1>7, <1>8, <1>9, <1>10 DEF IInv

LEMMA FinishNativeBatchKeeps == ASSUME IInv, FinishNativeBatch PROVE IInv'
<1>0. /\ Typed /\ Running /\ BatchShape /\ Older /\ Owed /\ StoredHeard /\ Transcript
      /\ ChatStoresNothing
  BY DEF IInv
<1>1. /\ pc = "native_batch" /\ told' = Zipped
      /\ UNCHANGED <<turn, since, clientVars, empties, calls, ran, chain, heard, garbled>>
  BY DEF FinishNativeBatch
<1>2. turn \in Nat /\ step \in Nat /\ messages \in Seq(Messages(turn)) /\ calls \in Seq(AnyId)
  BY <1>0, Limits DEF Typed
<1>3. /\ Zipped \in Seq(Reports) /\ Len(Zipped) = Len(calls) /\ Zipped # <<>>
      /\ Ids(Zipped) = calls
      /\ \A i \in 1..Len(calls) : Zipped[i].id = <<turn, step, i>> /\ Zipped[i].id = calls[i]
  BY <1>0, <1>1, ZippedReports
<1>4. CASE api = "chat_completions"
  <2> DEFINE added == [i \in DOMAIN Zipped |-> Result(Zipped[i].id)]
  <2>1. Continue(added, FALSE) /\ UNCHANGED <<pending, pendingOf>>
    BY <1>4 DEF FinishNativeBatch
  <2>2. \A id \in AnyId : Result(id) \in Messages(turn) /\ Result(id).role = "tool"
    BY <1>2, MessageTypes, Roles
  <2>3. \A i \in 1..Len(calls) : Result(calls[i]) \in Messages(turn) /\ Result(calls[i]).role = "tool"
    BY <1>2, <2>2, ElementOfSeq
  <2>4. DOMAIN Zipped = 1..Len(calls) /\ Len(calls) \in Nat
    BY <1>2, <1>3, LenProperties
  <2>5. added \in [1..Len(calls) -> Messages(turn)] /\ \A i \in 1..Len(calls) : added[i] = Result(calls[i])
    BY <1>3, <2>3, <2>4
  <2>6. added \in Seq(Messages(turn)) /\ Len(added) = Len(calls) /\ DOMAIN added = 1..Len(calls)
    BY <2>4, <2>5
  <2> HIDE DEF added
  <2>7. \A i \in DOMAIN added : added[i].role # "user"
    BY <2>3, <2>5, <2>6
  <2>8. PICK pre \in Seq(Messages(turn)) : messages = Append(pre, Asked(calls)) /\ WellFormed(pre)
    BY <1>0, <1>1, <1>4 DEF Transcript
  <2>9. WellFormed(messages \o added)
    <3>1. \A m \in Messages(turn) : m.role = "calls" => m.ids \in Seq(AnyId)
      BY Roles DEF Messages
    <3>2. \A i \in DOMAIN pre : pre[i].role = "calls" => pre[i].ids \in Seq(AnyId)
      BY <3>1, ElementOfSeq, LenProperties
    <3>3. Asked(calls) \in Messages(turn)
      BY <1>2, MessageTypes
    <3>4. WellFormed(Append(pre, Asked(calls)) \o added)
      BY <1>2, <2>2, <2>5, <2>6, <2>8, <3>2, <3>3, WellFormedAnswers
    <3> QED BY <2>8, <3>4
  <2>10. /\ pc' \in {"idle", "ask"}
         /\ pc' = "ask" => step' = step + 1
         /\ pc' = "idle" => step' = step
         /\ pending' \in Seq(Reports) /\ pendingOf' \in 1..client => Typed'
         /\ Running' /\ BatchShape' /\ ChatStoresNothing' /\ OwedIsRecent' /\ UsersAreRecent'
         /\ GarbledMisses' /\ Transcript' /\ AnswersHearEverything'
         /\ pending' \in {pending, Zipped} => ReportsMatchEffects'
    BY <1>1, <2>1, <2>6, <2>7, <2>9, FinishKeeps
  <2>11. Typed' /\ ReportsMatchEffects'
    BY <1>0, <2>1, <2>10 DEF Typed
  <2>12. Older'
    <3> SUFFICES ASSUME NEW i \in 1..Len(pending)
                 PROVE  /\ pending[i].id[1] > since
                        /\ \/ pending[i].id[1] < turn
                           \/ pending[i].id[1] = turn /\ (pc' = "idle" \/ pending[i].id[2] < step')
      BY <1>1, <2>1 DEF Older
    <3>1. pending[i].id[2] \in Int
      BY <1>0, PendingTyped
    <3> QED BY <1>0, <1>1, <1>2, <2>10, <3>1 DEF Older
  <2>13. Owed' /\ StoredHeard'
    BY <1>0, <1>1, <1>4 DEF Owed, StoredHeard, ChatStoresNothing, NoChain, clientVars
  <2> QED BY <2>10, <2>11, <2>12, <2>13 DEF IInv
<1>5. CASE api = "responses"
  <2>1. pending' = Zipped /\ pendingOf' = client /\ Continue(<<>>, TRUE)
    BY <1>5 DEF FinishNativeBatch
  <2> DEFINE added == <<>>
  <2>2. /\ added \in Seq(Messages(turn)) /\ \A i \in DOMAIN added : added[i].role # "user"
        /\ messages \o added = messages
    BY <1>2, ConcatEmptySeq
  <2>3. WellFormed(messages \o added)
    BY <1>0, <1>5, <2>2 DEF Transcript
  <2>4. Continue(added, TRUE)
    BY <2>1
  <2> HIDE DEF added
  <2>5. /\ pc' \in {"idle", "ask"}
        /\ pc' = "ask" => step' = step + 1
        /\ pc' = "idle" => step' = step
        /\ pc' = "ask" => missed' = missed
        /\ pc' = "idle" => missed' = (missed \/ TRUE)
        /\ pending' \in Seq(Reports) /\ pendingOf' \in 1..client => Typed'
        /\ Running' /\ BatchShape' /\ ChatStoresNothing' /\ OwedIsRecent' /\ UsersAreRecent'
        /\ GarbledMisses' /\ Transcript' /\ AnswersHearEverything'
        /\ UsersIn(messages') = UsersIn(messages)
        /\ pending' \in {pending, Zipped} => ReportsMatchEffects'
    BY <1>1, <2>2, <2>3, <2>4, FinishKeeps
  <2>6. Typed' /\ ReportsMatchEffects'
    <3>1. pendingOf' \in 1..client
      BY <1>0, <2>1 DEF Typed
    <3> QED BY <1>3, <2>1, <2>5, <3>1
  <2>7. Older'
    <3> SUFFICES ASSUME NEW i \in 1..Len(calls)
                 PROVE  /\ Zipped[i].id[1] > since /\ Zipped[i].id[1] = turn
                        /\ pc' = "idle" \/ Zipped[i].id[2] < step'
      BY <1>1, <1>3, <2>1 DEF Older
    <3>1. Zipped[i].id[1] = turn /\ Zipped[i].id[2] = step
      BY <1>3
    <3>2. turn > since
      BY <1>0, <1>1, <1>2 DEF Running, Typed
    <3> QED BY <1>2, <2>5, <3>1, <3>2
  <2>8. Owed'
    <3> SUFFICES ASSUME ~garbled PROVE chain.stored /\ Ids(Zipped) = chain.owed
      BY <1>1, <1>3, <2>1, <2>5 DEF Owed, Ids, clientVars
    <3>1. chain = Stored(calls)
      <4>1. pending = <<>>
        BY <1>0, <1>1, <1>5 DEF Owed
      <4> QED BY <1>0, <1>1, <1>5, <4>1 DEF Owed
    <3> QED BY <1>3, <3>1 DEF Stored
  <2>9. StoredHeard'
    <3>1. CASE pc' = "idle"
      <4>1. missed'
        BY <2>5, <3>1
      <4> QED BY <4>1 DEF StoredHeard
    <3>2. CASE pc' = "ask"
      <4>1. missed' = missed /\ pending' # <<>>
        BY <1>3, <2>1, <2>5, <3>2
      <4>2. ~missed' /\ chain.stored => UsersIn(messages') \subseteq heard
        BY <1>0, <1>1, <2>5, <4>1 DEF StoredHeard
      <4> QED BY <1>1, <3>2, <4>1, <4>2 DEF StoredHeard
    <3> QED BY <2>5, <3>1, <3>2
  <2> QED BY <2>5, <2>6, <2>7, <2>8, <2>9 DEF IInv
<1> QED BY <1>0, <1>4, <1>5 DEF Typed, Apis

-----------------------------------------------------------------------------
(* Between turns. *)

LEMMA SwitchModelKeeps == ASSUME IInv, SwitchModel PROVE IInv'
<1>0. /\ Typed /\ Older /\ UsersAreRecent /\ Transcript /\ ReportsMatchEffects
  BY DEF IInv
<1>1. /\ pc = "idle" /\ client < MaxClients /\ client' = client + 1 /\ api' \in Apis
      /\ chain' = NoChain /\ heard' = {} /\ missed' = FALSE /\ garbled' = FALSE /\ outcome' = "none"
      /\ UNCHANGED <<pc, turn, since, messages, step, empties, calls, ran, told, pending, pendingOf>>
  BY DEF SwitchModel, NewClient, loopVars
<1>2. Typed'
  <2>1. NoChain \in [stored : BOOLEAN, owed : Seq(AnyId)]
    BY DEF NoChain
  <2>2. client' \in 1..MaxClients /\ pendingOf' \in 1..client'
    BY <1>0, <1>1, Limits DEF Typed
  <2> QED BY <1>0, <1>1, <2>1, <2>2 DEF Typed
<1>3. Running' /\ BatchShape' /\ Older' /\ UsersAreRecent'
  BY <1>0, <1>1 DEF Running, BatchShape, Older, UsersAreRecent
<1>4. Owed'
  <2>1. pendingOf # client'
    BY <1>0, <1>1, Limits DEF Typed
  <2> QED BY <1>1, <2>1 DEF Owed, NoChain
<1>5. ChatStoresNothing' /\ OwedIsRecent' /\ GarbledMisses' /\ StoredHeard' /\ AnswersHearEverything'
  BY <1>1 DEF ChatStoresNothing, OwedIsRecent, GarbledMisses, StoredHeard, AnswersHearEverything, NoChain
<1>6. Transcript'
  BY <1>0, <1>1 DEF Transcript
<1>7. ReportsMatchEffects'
  BY <1>0, <1>1, ReportsKept
<1> QED BY <1>2, <1>3, <1>4, <1>5, <1>6, <1>7 DEF IInv

(* A conversation that starts anew, empty or with the turns of a stored chat. *)
LEMMA Afresh ==
  ASSUME IInv, pc = "idle", since' = turn, messages' \in {<<>>, <<User(Restored), Said>>},
         pending' = <<>>, chain' = NoChain, heard' = {}, missed' = FALSE, garbled' = FALSE,
         outcome' = "none", calls' = <<>>, ran' = <<>>, told' = <<>>,
         api' \in Apis, client' \in client..MaxClients,
         UNCHANGED <<pc, turn, step, empties, pendingOf>>
  PROVE  IInv'
<1>0. Typed /\ turn \in Nat /\ pendingOf \in 1..client /\ client \in Nat
  BY Limits DEF IInv, Typed
<1>1. /\ messages' \in Seq(Messages(turn)) /\ WellFormed(messages')
      /\ \A t \in UsersIn(messages') : t = Restored
  <2>1. CASE messages' = <<>>
    <3> DEFINE none == <<>>
    <3>1. none \in Seq(Messages(turn)) /\ DOMAIN none = {}
      OBVIOUS
    <3>2. messages' = none
      BY <2>1
    <3> HIDE DEF none
    <3> QED BY <3>1, <3>2, UsersDef DEF WellFormed
  <2>2. CASE messages' = <<User(Restored), Said>>
    <3> DEFINE two == <<User(Restored), Said>>
    <3>1. DOMAIN two = {1, 2} /\ two[1] = User(Restored) /\ two[2] = Said
      OBVIOUS
    <3>2. User(Restored) \in Messages(turn) /\ Said \in Messages(turn)
      BY <1>0, MessageTypes DEF Restored
    <3>3. two \in Seq(Messages(turn))
      BY <3>2
    <3>4. messages' = two
      BY <2>2
    <3> HIDE DEF two
    <3>5. \A i \in DOMAIN two : two[i].role # "calls" /\ (two[i].role = "user" => two[i].turn = Restored)
      BY <3>1, Roles
    <3>6. \A t \in UsersIn(two) : t = Restored
      BY <3>5, UsersDef
    <3> QED BY <3>3, <3>4, <3>5, <3>6 DEF WellFormed
  <2> QED BY <2>1, <2>2
<1>2. Typed'
  <2>1. NoChain \in [stored : BOOLEAN, owed : Seq(AnyId)]
    BY DEF NoChain
  <2>2. client' \in 1..MaxClients /\ pendingOf' \in 1..client' /\ since' \in 0..turn'
    BY <1>0, Limits
  <2>3. Len(ran') <= MaxBatch /\ calls' \in Seq(AnyId) /\ ran' \in Seq(Reports) /\ told' \in Seq(Reports)
        /\ pending' \in Seq(Reports)
    BY Limits
  <2> QED BY <1>0, <1>1, <2>1, <2>2, <2>3 DEF Typed
<1>3. Running' /\ BatchShape' /\ Older' /\ ChatStoresNothing' /\ OwedIsRecent' /\ GarbledMisses'
  BY DEF Running, BatchShape, Older, ChatStoresNothing, OwedIsRecent, GarbledMisses, NoChain
<1>4. Owed' /\ StoredHeard' /\ AnswersHearEverything'
  BY DEF Owed, StoredHeard, AnswersHearEverything, NoChain
<1>5. UsersAreRecent' /\ Transcript'
  BY <1>1 DEF UsersAreRecent, Transcript
<1>6. ReportsMatchEffects'
  BY DEF ReportsMatchEffects
<1> QED BY <1>2, <1>3, <1>4, <1>5, <1>6 DEF IInv

LEMMA ResetKeeps == ASSUME IInv, Reset PROVE IInv'
<1>1. client \in 1..MaxClients /\ api \in Apis
  BY DEF IInv, Typed
<1>2. client \in client..MaxClients
  BY <1>1, Limits
<1> QED BY <1>1, <1>2, Afresh DEF Reset, Forget, clientVars

LEMMA RestoreWithClientKeeps == ASSUME IInv, RestoreWithClient PROVE IInv'
<1>1. client \in 1..MaxClients
  BY DEF IInv, Typed
<1>2. client < MaxClients /\ client' = client + 1 /\ api' \in Apis
  BY DEF RestoreWithClient, NewClient
<1>3. client' \in client..MaxClients
  BY <1>1, <1>2, Limits
<1> QED BY <1>2, <1>3, Afresh DEF RestoreWithClient, NewClient

LEMMA Inductive == IInv /\ [Next]_vars => IInv'
<1> SUFFICES ASSUME IInv, [Next]_vars PROVE IInv'
  OBVIOUS
<1>1. CASE UNCHANGED vars
  BY <1>1 DEF vars, clientVars, loopVars, historyVars, IInv, Typed, Running, BatchShape, Older,
     ChatStoresNothing, Owed, OwedIsRecent, UsersAreRecent, GarbledMisses, StoredHeard,
     AnswersHearEverything, Transcript, ReportsMatchEffects, Ids, NoChain
<1>2. CASE Submit \/ RequestFails
  BY <1>2, SubmitKeeps, RequestFailsKeeps
<1>3. CASE Replies
  BY <1>3, ReplyEmptyKeeps, ReplyFinalKeeps, ReplyTextCallsKeeps, ReplyNativeCallsKeeps,
     ReplyUnparsableKeeps, ReplyNoObjectKeeps DEF Replies
<1>4. CASE RunTool \/ FinishTextBatch \/ FinishNativeBatch
  BY <1>4, RunToolKeeps, FinishTextBatchKeeps, FinishNativeBatchKeeps
<1>5. CASE SwitchModel \/ Reset \/ RestoreWithClient
  BY <1>5, SwitchModelKeeps, ResetKeeps, RestoreWithClientKeeps
<1> QED BY <1>1, <1>2, <1>3, <1>4, <1>5 DEF Next, Turn

-----------------------------------------------------------------------------
(* The properties.                                                         *)

(* Everything the inductive invariant says of step() and its transcript    *)
(* holds in every state.                                                   *)
THEOREM Correct == Spec => []IInv
BY InitHolds, Inductive, PTL DEF Spec

(* Types, and the limits of retries and batches (core/agent.py).           *)
THEOREM TypeCorrect == Spec => []TypeOK
<1>1. IInv => TypeOK
  BY DEF IInv, Typed, TypeOK, Messages, Reports
<1> QED BY <1>1, Correct, PTL

(* Each native call is answered once whenever step() sends a request, and  *)
(* with what became of this call.                                          *)
THEOREM CallsAnswered == Spec => []EveryCallIsAnswered
<1>1. ASSUME IInv PROVE EveryCallIsAnswered
  <2>1. ASSUME pc = "ask" PROVE WellFormed(messages)
    BY <1>1, <2>1 DEF IInv, Transcript
  <2>2. ASSUME pc = "ask", ~garbled, SubmitsOutputs => pendingOf = client PROVE Accepted
    <3>1. api \in {"chat_completions", "responses"}
      BY <1>1 DEF IInv, Typed, Apis
    <3>2. CASE api = "responses"
      BY <1>1, <2>2, <3>2 DEF IInv, Owed, Accepted, SubmitsOutputs
    <3>3. CASE api = "chat_completions"
      BY <1>1, <2>2, <3>3 DEF IInv, ChatStoresNothing, NoChain, Accepted, SubmitsOutputs
    <3> QED BY <3>1, <3>2, <3>3
  <2> QED BY <1>1, <2>1, <2>2 DEF IInv, EveryCallIsAnswered, AnswersComplete
<1> QED BY <1>1, Correct, PTL

(* After reset() nothing of an earlier conversation reaches the model.     *)
THEOREM ResetForgets == Spec => []NothingOutlivesReset
<1>1. ASSUME IInv PROVE NothingOutlivesReset
  <2>1. pending \in Seq(Reports) /\ chain.owed \in Seq(AnyId)
    BY <1>1 DEF IInv, Typed
  <2>2. \A p \in ToSet(pending) : p.id[1] > since
    BY <1>1, <2>1, LenProperties DEF IInv, Older, ToSet
  <2>3. \A id \in ToSet(chain.owed) : id[1] > since
    BY <1>1, <2>1, LenProperties DEF IInv, OwedIsRecent, ToSet
  <2> QED BY <1>1, <2>2, <2>3 DEF IInv, UsersAreRecent, NothingOutlivesReset
<1> QED BY <1>1, Correct, PTL

(* A turn that ends with an answer was answered by a model that has read   *)
(* every user message, with the exceptions the property names.             *)
THEOREM EverythingHeard == Spec => []AnswersHearEverything
<1>1. IInv => AnswersHearEverything
  BY DEF IInv
<1> QED BY <1>1, Correct, PTL
=============================================================================
