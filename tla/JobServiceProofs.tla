-------------------------- MODULE JobServiceProofs --------------------------
(* Theorems about JobService, for every number of callers, calls and       *)
(* crashes, and for calls that overlap as they like.                       *)
EXTENDS JobService, FiniteSetTheorems, TLAPS

LEMMA HoldersFinite ==
  /\ IsFiniteSet(Holders)
  /\ Cardinality(Holders) \in Nat
BY ServiceAssumption, FS_Subset, FS_CardinalityType DEF Holders

LEMMA InitOverlapping == Init => Overlapping
<1> SUFFICES ASSUME Init PROVE Overlapping
  OBVIOUS
<1>0. overlap \in BOOLEAN
  BY DEF Init
<1>1. TypeOK /\ PhaseMatchesCall /\ AcceptedInside
  BY <1>0, ServiceAssumption
  DEF Init, TypeOK, PhaseMatchesCall, AcceptedInside, Inside, Rows, Stages, Phases, Wants
<1>2. Holders = {}
  BY DEF Init, Holders, Holder
<1> QED
  BY <1>1, <1>2, FS_EmptySet DEF Overlapping, ClaimsPaid, Init, Claimed

(* A row computed from a row that passed the checks is a row. *)
LEMMA NewRowType ==
  ASSUME NEW w \in Wants, NEW r \in Rows \cup {NoJob}, Accepted(w, r), w # None
  PROVE  NewRow(w, r) \in Rows
BY ServiceAssumption DEF Accepted, NewRow, Rows, Wants, Statuses

(* One step along the calls keeps the row's promise: it is a step of       *)
(* JobLifecycle, provided the row is the one that was checked.             *)
LEMMA NewRowIsStep ==
  ASSUME NEW w \in Wants, w # None, Accepted(w, row), row \in Rows \cup {NoJob},
         row' = NewRow(w, row), lost' = lost
  PROVE  Lifecycle!Next
<1>1. CASE w = "create"
  BY <1>1 DEF Accepted, NewRow, Lifecycle!Next, Lifecycle!Create
<1>2. CASE w = "cancel"
  BY <1>2 DEF Accepted, NewRow, Lifecycle!Next, Lifecycle!RequestCancellation, Final, Lifecycle!Final
<1>3. CASE w \notin {"create", "cancel"}
  <2>1. w \in Statuses
    BY <1>3 DEF Wants
  <2>2. row # NoJob /\ <<row.status, w>> \in Edges /\ row' = [row EXCEPT !.status = w]
    BY <1>3 DEF Accepted, MayMove, NewRow
  <2> QED
    BY <2>1, <2>2 DEF Lifecycle!Next, Lifecycle!Move, Statuses, Lifecycle!Statuses, Edges, Lifecycle!Edges
<1> QED
  BY <1>1, <1>2, <1>3

(* A step that makes nobody a holder and leaves the row and the count of   *)
(* lost updates alone keeps the claims paid.                               *)
LEMMA ClaimsKept ==
  ASSUME TypeOK, ClaimsPaid, Holders' \subseteq Holders, row' = row, lost' = lost
  PROVE  ClaimsPaid'
<1>1. Cardinality(Holders') <= Cardinality(Holders) /\ IsFiniteSet(Holders')
  BY HoldersFinite, FS_Subset
<1>2. Cardinality(Holders') \in Nat /\ Cardinality(Holders) \in Nat
  BY <1>1, HoldersFinite, FS_CardinalityType
<1>3. Claimed(row)' = Claimed(row)
  BY DEF Claimed
<1> QED
  BY <1>1, <1>2, <1>3 DEF ClaimsPaid, TypeOK

(* The write of a call: a claim is bought with the status "queued" or with *)
(* a lost update, and only the holder's own result frees the status.       *)
LEMMA WritePays ==
  ASSUME Overlapping, NEW c \in Callers, Write(c), row' \in Rows
  PROVE  ClaimsPaid'
<1> DEFINE n == Cardinality(Holders)
           k == IF Claimed(row) THEN 1 ELSE 0
           kk == IF Claimed(row)' THEN 1 ELSE 0
<1>1. n \in Nat /\ lost \in Nat /\ n <= lost + k
  BY HoldersFinite DEF Overlapping, TypeOK, ClaimsPaid
<1>2. /\ stage[c] = "write" /\ row' = NewRow(want[c], seen[c]) /\ Accepted(want[c], seen[c])
      /\ want[c] \in Wants /\ seen[c] \in Rows \cup {NoJob}
  BY DEF Overlapping, AcceptedInside, Inside, Write, TypeOK
<1>3. row' # NoJob /\ want[c] # None
  BY <1>2, ServiceAssumption DEF Rows, Accepted, MayMove, Edges, Statuses
<1>4. CASE want[c] = "provisioning"
  <2>1. Holders' \subseteq Holders \cup {c}
    BY <1>4 DEF Write, Holders, Holder, Overlapping, TypeOK
  <2>2. IsFiniteSet(Holders \cup {c}) /\ Cardinality(Holders \cup {c}) <= n + 1
    <3>1. /\ IsFiniteSet(Holders \cup {c})
          /\ Cardinality(Holders \cup {c}) = IF c \in Holders THEN n ELSE n + 1
      BY HoldersFinite, FS_AddElement
    <3> QED BY <1>1, <3>1
  <2>3. IsFiniteSet(Holders') /\ Cardinality(Holders') <= Cardinality(Holders \cup {c})
    BY <2>1, <2>2, FS_Subset
  <2>4. Cardinality(Holders') \in Nat /\ Cardinality(Holders \cup {c}) \in Nat
    BY <2>2, <2>3, FS_CardinalityType
  <2>5. Cardinality(Holders') <= n + 1
    BY <1>1, <2>2, <2>3, <2>4
  <2>6. seen[c] # NoJob /\ seen[c].status = "queued" /\ row'.status = "provisioning"
    BY <1>2, <1>4 DEF Accepted, MayMove, Edges, NewRow, Rows
  <2>7. Claimed(row)'
    BY <1>3, <2>6 DEF Claimed
  <2>8. CASE seen[c] = row
    <3>1. ~Claimed(row) /\ lost' = lost
      BY <2>6, <2>8 DEF Claimed, Write
    <3> QED
      BY <1>1, <2>4, <2>5, <2>7, <3>1 DEF ClaimsPaid
  <2>9. CASE seen[c] # row
    <3>1. lost' = lost + 1
      BY <2>9 DEF Write
    <3> QED
      BY <1>1, <2>4, <2>5, <2>7, <3>1 DEF ClaimsPaid
  <2> QED BY <2>8, <2>9
<1>5. CASE want[c] # "provisioning"
  <2>1. Holders' \subseteq Holders
    BY <1>5 DEF Write, Holders, Holder, Overlapping, TypeOK, PhaseMatchesCall
  <2>2. IsFiniteSet(Holders') /\ Cardinality(Holders') <= n
    BY <2>1, HoldersFinite, FS_Subset
  <2>3. Cardinality(Holders') \in Nat
    BY <2>2, FS_CardinalityType
  <2>4. CASE seen[c] # row
    <3>1. lost' = lost + 1
      BY <2>4 DEF Write
    <3> QED
      BY <1>1, <2>2, <2>3, <3>1 DEF ClaimsPaid
  <2>5. CASE seen[c] = row /\ (Claimed(row) => Claimed(row)')
    <3>1. lost' = lost
      BY <2>5 DEF Write
    <3> QED
      BY <1>1, <2>2, <2>3, <2>5, <3>1 DEF ClaimsPaid
  <2>6. CASE seen[c] = row /\ Claimed(row) /\ ~Claimed(row)'
    <3>1. want[c] # "create" /\ want[c] # "cancel"
      BY <1>2, <1>3, <2>6 DEF Accepted, Claimed, NewRow, Rows
    <3>2. <<row.status, want[c]>> \in Edges /\ row'.status = want[c]
      BY <1>2, <2>6, <3>1 DEF Accepted, MayMove, NewRow, Claimed, Rows
    <3>3. want[c] \in {"waiting_for_input", "paused", "completed"}
      BY <1>3, <2>6, <3>2 DEF Edges, Claimed
    <3>4. want[c] = "completed" /\ phase[c] = "closing"
      BY <1>2, <1>3, <3>3, ServiceAssumption
      DEF Overlapping, PhaseMatchesCall, TypeOK, UserTargets, Phases, Statuses
    <3>5. c \in Holders /\ c \notin Holders'
      BY <1>2, <3>4 DEF Holders, Holder, Write, Overlapping, TypeOK
    <3>6. Holders' \subseteq Holders \ {c}
      BY <2>1, <3>5
    <3>7. IsFiniteSet(Holders \ {c}) /\ Cardinality(Holders \ {c}) = n - 1
      BY <3>5, HoldersFinite, FS_RemoveElement
    <3>8. Cardinality(Holders') <= n - 1
      BY <3>6, <3>7, FS_Subset
    <3>9. lost' = lost
      BY <2>6 DEF Write
    <3> QED
      BY <1>1, <2>3, <2>6, <3>8, <3>9 DEF ClaimsPaid
  <2> QED BY <2>4, <2>5, <2>6
<1> QED BY <1>4, <1>5

LEMMA StepOverlapping == Overlapping /\ [Next]_vars => Overlapping'
<1> SUFFICES ASSUME Overlapping, [Next]_vars PROVE Overlapping'
  OBVIOUS
<1> USE ServiceAssumption DEF Overlapping, callVars
<1>1. ASSUME NEW c \in Callers, NEW w \in UserTargets \cup {"create", "cancel"}, UserCall(c, w)
      PROVE  Overlapping'
  <2>1. TypeOK'
    BY <1>1 DEF UserCall, Unoccupied, Start, TypeOK, Wants, Stages, Phases, UserTargets, Statuses
  <2>2. AcceptedInside'
    BY <1>1 DEF UserCall, Unoccupied, Start, TypeOK, AcceptedInside, Inside, Accepted, MayMove
  <2>3. PhaseMatchesCall'
    BY <1>1 DEF UserCall, Unoccupied, Start, TypeOK, PhaseMatchesCall
  <2>4. Holders' \subseteq Holders
    BY <1>1 DEF UserCall, Unoccupied, Start, TypeOK, Holders, Holder
  <2> QED BY <1>1, <2>1, <2>2, <2>3, <2>4, ClaimsKept DEF UserCall
<1>2. ASSUME NEW c \in Callers, StartRun(c) PROVE Overlapping'
  <2>1. TypeOK' /\ AcceptedInside' /\ PhaseMatchesCall'
    BY <1>2 DEF StartRun, Unoccupied, TypeOK, Phases, AcceptedInside, Inside, Accepted, MayMove,
                PhaseMatchesCall
  <2>2. Holders' \subseteq Holders
    BY <1>2 DEF StartRun, Unoccupied, TypeOK, Holders, Holder
  <2> QED BY <1>2, <2>1, <2>2, ClaimsKept DEF StartRun
<1>3. ASSUME NEW c \in Callers, EnterRun(c) PROVE Overlapping'
  <2>1. TypeOK'
    BY <1>3 DEF EnterRun, Start, TypeOK, Wants, Stages, Phases, Statuses
  <2>2. AcceptedInside'
    BY <1>3 DEF EnterRun, Start, TypeOK, AcceptedInside, Inside, Accepted, MayMove
  <2>3. PhaseMatchesCall'
    BY <1>3 DEF EnterRun, Start, TypeOK, PhaseMatchesCall
  <2>4. Holders' \subseteq Holders
    BY <1>3 DEF EnterRun, Start, TypeOK, Holders, Holder
  <2> QED BY <1>3, <2>1, <2>2, <2>3, <2>4, ClaimsKept DEF EnterRun
<1>4. ASSUME NEW c \in Callers, Read(c) PROVE Overlapping'
  <2>1. TypeOK'
    BY <1>4 DEF Read, TypeOK, Wants, Stages, Phases
  <2>2. AcceptedInside'
    BY <1>4 DEF Read, TypeOK, AcceptedInside, Inside, Accepted, MayMove
  <2>3. PhaseMatchesCall'
    BY <1>4 DEF Read, TypeOK, PhaseMatchesCall
  <2>4. Holders' \subseteq Holders
    BY <1>4 DEF Read, TypeOK, Holders, Holder, PhaseMatchesCall
  <2> QED BY <1>4, <2>1, <2>2, <2>3, <2>4, ClaimsKept DEF Read
<1>5. ASSUME NEW c \in Callers, Write(c) PROVE Overlapping'
  <2>1. /\ Accepted(want[c], seen[c]) /\ want[c] \in Wants /\ want[c] # None
        /\ seen[c] \in Rows \cup {NoJob}
    BY <1>5 DEF Write, TypeOK, AcceptedInside, Inside, Accepted, MayMove, Edges, Statuses
  <2>2. row' = NewRow(want[c], seen[c]) /\ row' \in Rows
    BY <1>5, <2>1, NewRowType DEF Write
  <2>3. TypeOK'
    BY <1>5, <2>2 DEF Write, TypeOK, Stages
  <2>4. AcceptedInside'
    BY <1>5 DEF Write, TypeOK, AcceptedInside, Inside, Accepted, MayMove
  <2>5. PhaseMatchesCall'
    BY <1>5, <2>2 DEF Write, TypeOK, PhaseMatchesCall, Rows
  <2>6. ClaimsPaid'
    BY <1>5, <2>2, WritePays
  <2> QED BY <2>3, <2>4, <2>5, <2>6
<1>6. ASSUME NEW c \in Callers, AppendEvent(c) PROVE Overlapping'
  <2>1. TypeOK'
    <3>1. EventOf(want[c], seen[c]) \in [from : Statuses \cup {None}, to : Statuses]
      <4>1. Accepted(want[c], seen[c]) /\ want[c] \in Wants /\ seen[c] \in Rows \cup {NoJob}
        BY <1>6 DEF AppendEvent, AcceptedInside, Inside, TypeOK
      <4>2. want[c] # None
        BY <4>1 DEF Accepted, MayMove, Edges, Statuses
      <4> QED
        BY <4>1, <4>2 DEF EventOf, Accepted, Wants, Rows, Statuses
    <3>2. events' \in Seq([from : Statuses \cup {None}, to : Statuses])
      BY <1>6, <3>1 DEF AppendEvent, TypeOK
    <3> QED
      BY <1>6, <3>2 DEF AppendEvent, Resume, Start, TypeOK, Stages, Phases, Wants, Statuses
  <2>2. AcceptedInside'
    BY <1>6 DEF AppendEvent, Resume, Start, TypeOK, AcceptedInside, Inside, Accepted, MayMove
  <2>3. PhaseMatchesCall'
    BY <1>6 DEF AppendEvent, Resume, Start, TypeOK, PhaseMatchesCall
  <2>4. Holders' \subseteq Holders
    BY <1>6 DEF AppendEvent, Resume, Start, TypeOK, Holders, Holder, PhaseMatchesCall
  <2> QED BY <1>6, <2>1, <2>2, <2>3, <2>4, ClaimsKept DEF AppendEvent
<1>7. ASSUME NEW c \in Callers, BackendReturns(c) PROVE Overlapping'
  <2>1. TypeOK'
    BY <1>7 DEF BackendReturns, TargetOf, Start, TypeOK, Wants, Stages, Phases, Statuses
  <2>2. AcceptedInside'
    BY <1>7 DEF BackendReturns, Start, TypeOK, AcceptedInside, Inside, Accepted, MayMove
  <2>3. PhaseMatchesCall'
    BY <1>7 DEF BackendReturns, TargetOf, Start, TypeOK, PhaseMatchesCall
  <2>4. Holders' \subseteq Holders
    BY <1>7 DEF BackendReturns, Start, TypeOK, Holders, Holder
  <2> QED BY <1>7, <2>1, <2>2, <2>3, <2>4, ClaimsKept DEF BackendReturns
<1>8. CASE Crash
  <2>1. TypeOK' /\ AcceptedInside' /\ PhaseMatchesCall'
    BY <1>8 DEF Crash, TypeOK, Wants, Stages, Phases, AcceptedInside, Inside, PhaseMatchesCall
  <2>2. Holders' \subseteq Holders
    BY <1>8 DEF Crash, Holders, Holder
  <2> QED BY <1>8, <2>1, <2>2, ClaimsKept DEF Crash
<1>9. CASE UNCHANGED vars
  <2>1. TypeOK' /\ AcceptedInside' /\ PhaseMatchesCall'
    BY <1>9 DEF vars, TypeOK, AcceptedInside, Inside, Accepted, MayMove, PhaseMatchesCall
  <2>2. Holders' \subseteq Holders
    BY <1>9 DEF vars, Holders, Holder
  <2> QED BY <1>9, <2>1, <2>2, ClaimsKept DEF vars
<1> QED
  BY <1>1, <1>2, <1>3, <1>4, <1>5, <1>6, <1>7, <1>8, <1>9 DEF Next, CallStep

-----------------------------------------------------------------------------
(* As long as no call has read while another was past its read, a call     *)
(* acts on the row it read.                                                *)
LEMMA OverlapStays == TypeOK /\ [Next]_vars /\ ~overlap' => ~overlap
BY DEF Next, CallStep, UserCall, StartRun, EnterRun, Read, Write, AppendEvent, BackendReturns,
       Crash, vars, TypeOK

LEMMA StepTurns == ~overlap' /\ Overlapping /\ FreshRead /\ [Next]_vars => FreshRead'
<1> SUFFICES ASSUME ~overlap', Overlapping, FreshRead, [Next]_vars PROVE FreshRead'
  OBVIOUS
<1> USE DEF Overlapping, TypeOK, FreshRead, Inside, callVars
<1>1. ASSUME NEW c \in Callers, NEW w \in UserTargets \cup {"create", "cancel"}, UserCall(c, w)
      PROVE  FreshRead'
  BY <1>1 DEF UserCall, Unoccupied, Start
<1>2. ASSUME NEW c \in Callers, StartRun(c) PROVE FreshRead'
  BY <1>2 DEF StartRun
<1>3. ASSUME NEW c \in Callers, EnterRun(c) PROVE FreshRead'
  BY <1>3 DEF EnterRun, Start
<1>4. ASSUME NEW c \in Callers, Read(c) PROVE FreshRead'
  BY <1>4 DEF Read
<1>5. ASSUME NEW c \in Callers, Write(c) PROVE FreshRead'
  BY <1>5 DEF Write
<1>6. ASSUME NEW c \in Callers, AppendEvent(c) PROVE FreshRead'
  BY <1>6 DEF AppendEvent, Resume, Start
<1>7. ASSUME NEW c \in Callers, BackendReturns(c) PROVE FreshRead'
  BY <1>7 DEF BackendReturns, Start
<1>8. CASE Crash
  BY <1>8 DEF Crash
<1>9. CASE UNCHANGED vars
  BY <1>9 DEF vars
<1> QED
  BY <1>1, <1>2, <1>3, <1>4, <1>5, <1>6, <1>7, <1>8, <1>9 DEF Next, CallStep

-----------------------------------------------------------------------------
Events == [from : Statuses \cup {None}, to : Statuses]

LEMMA BreaksFinite ==
  ASSUME events \in Seq(Events)
  PROVE  IsFiniteSet(Breaks) /\ Cardinality(Breaks) \in Nat
<1>1. IsFiniteSet(1..Len(events) - 1)
  BY FS_Interval
<1>2. Breaks \in SUBSET (1..Len(events) - 1)
  BY DEF Breaks
<1> QED
  BY <1>1, <1>2, FS_Subset, FS_CardinalityType

(* An event that starts in the status of r closes the gap that the trail   *)
(* had to r, or turns it into a break.                                     *)
LEMMA AppendCloses ==
  ASSUME events \in Seq(Events), NEW e \in Events, events' = Append(events, e),
         NEW r \in Rows \cup {NoJob},
         r = NoJob => events = <<>>,
         r # NoJob => e.from = r.status
  PROVE  Cardinality(Breaks') \in Nat /\ Cardinality(Breaks') <= Gaps(r)
<1>1. IsFiniteSet(Breaks) /\ Cardinality(Breaks) \in Nat
  BY BreaksFinite
<1>2. /\ Len(events) \in Nat
      /\ Len(events') = Len(events) + 1
      /\ \A i \in 1..Len(events) : events'[i] = events[i]
      /\ events'[Len(events) + 1] = e
      /\ Len(events) = 0 <=> events = <<>>
  BY DEF Events
<1>3. CASE events # <<>> /\ events[Len(events)].to # e.from
  <2>1. Breaks' \subseteq Breaks \cup {Len(events)}
    BY <1>2 DEF Breaks
  <2>2. IsFiniteSet(Breaks \cup {Len(events)}) /\ Cardinality(Breaks \cup {Len(events)}) <= Cardinality(Breaks) + 1
    <3>1. /\ IsFiniteSet(Breaks \cup {Len(events)})
          /\ Cardinality(Breaks \cup {Len(events)})
               = IF Len(events) \in Breaks THEN Cardinality(Breaks) ELSE Cardinality(Breaks) + 1
      BY <1>1, FS_AddElement
    <3> QED BY <1>1, <3>1
  <2>3. Cardinality(Breaks') \in Nat /\ Cardinality(Breaks') <= Cardinality(Breaks) + 1
    <3>1. IsFiniteSet(Breaks') /\ Cardinality(Breaks') <= Cardinality(Breaks \cup {Len(events)})
      BY <2>1, <2>2, FS_Subset
    <3>2. Cardinality(Breaks') \in Nat /\ Cardinality(Breaks \cup {Len(events)}) \in Nat
      BY <2>2, <3>1, FS_CardinalityType
    <3> QED BY <1>1, <2>2, <3>1, <3>2
  <2>4. r # NoJob /\ events[Len(events)].to # r.status
    BY <1>3
  <2> QED BY <2>3, <2>4 DEF Gaps
<1>4. CASE events = <<>> \/ events[Len(events)].to = e.from
  <2>1. Breaks' \subseteq Breaks
    BY <1>2, <1>4 DEF Breaks
  <2>2. IsFiniteSet(Breaks') /\ Cardinality(Breaks') <= Cardinality(Breaks)
    BY <2>1, <1>1, FS_Subset
  <2>3. Cardinality(Breaks') \in Nat
    BY <2>2, FS_CardinalityType
  <2> QED BY <1>1, <2>2, <2>3 DEF Gaps
<1> QED BY <1>3, <1>4

LEMMA GapsBound ==
  ASSUME events \in Seq(Events), NEW r
  PROVE  /\ Gaps(r) \in Nat
         /\ Cardinality(Breaks) <= Gaps(r)
         /\ Gaps(r) <= Cardinality(Breaks) + 1
BY BreaksFinite DEF Gaps

LEMMA InitTrail == Init => TrailKept
<1> SUFFICES ASSUME Init PROVE TrailKept
  OBVIOUS
<1>1. Breaks = {}
  BY DEF Init, Breaks
<1>2. Gaps(row) = 0
  BY <1>1, FS_EmptySet DEF Gaps, Init
<1> QED
  BY <1>2 DEF Init, TrailKept

LEMMA StepTrail == Overlapping /\ FreshRead /\ TrailKept /\ [Next]_vars => TrailKept'
<1> SUFFICES ASSUME Overlapping, FreshRead, TrailKept, [Next]_vars PROVE TrailKept'
  OBVIOUS
<1> USE DEF callVars
<1>0. events \in Seq(Events) /\ crashes \in Nat
  BY DEF Overlapping, TypeOK, Events
<1>1. ASSUME UNCHANGED <<row, events, crashes>>,
             \A c \in Callers : (stage'[c] = "append") = (stage[c] = "append"),
             \A c \in Callers : stage[c] = "append" => want'[c] = want[c] /\ seen'[c] = seen[c]
      PROVE  TrailKept'
  <2>1. Gaps(row)' = Gaps(row)
    BY <1>1 DEF Gaps, Breaks
  <2>2. \A c \in Callers : stage[c] = "append" => Gaps(seen[c])' = Gaps(seen[c])
    BY <1>1 DEF Gaps, Breaks
  <2> QED
    BY <1>1, <2>1, <2>2 DEF TrailKept
<1>2. ASSUME NEW c \in Callers, NEW w \in UserTargets \cup {"create", "cancel"}, UserCall(c, w)
      PROVE  TrailKept'
  BY <1>2, <1>1 DEF UserCall, Unoccupied, Start, Overlapping, TypeOK
<1>3. ASSUME NEW c \in Callers, StartRun(c) PROVE TrailKept'
  BY <1>3, <1>1 DEF StartRun
<1>4. ASSUME NEW c \in Callers, EnterRun(c) PROVE TrailKept'
  BY <1>4, <1>1 DEF EnterRun, Start, Overlapping, TypeOK
<1>5. ASSUME NEW c \in Callers, Read(c) PROVE TrailKept'
  BY <1>5, <1>1 DEF Read, Overlapping, TypeOK
<1>6. ASSUME NEW c \in Callers, BackendReturns(c) PROVE TrailKept'
  BY <1>6, <1>1 DEF BackendReturns, Start, Overlapping, TypeOK
<1>7. CASE UNCHANGED vars
  BY <1>7, <1>1 DEF vars
<1>8. CASE Crash
  <2>1. Gaps(row)' = Gaps(row)
    BY <1>8 DEF Crash, Gaps, Breaks
  <2>2. Gaps(row) <= crashes + 1
    <3>1. CASE \A c \in Callers : stage[c] # "append"
      BY <3>1, <1>0, GapsBound DEF TrailKept
    <3>2. ASSUME NEW c \in Callers, stage[c] = "append" PROVE Gaps(row) <= crashes + 1
      <4>1. Gaps(seen[c]) <= crashes
        BY <3>2 DEF TrailKept
      <4>2. Gaps(seen[c]) \in Nat /\ Cardinality(Breaks) <= Gaps(seen[c])
        BY <1>0, GapsBound
      <4>3. Gaps(row) \in Nat /\ Gaps(row) <= Cardinality(Breaks) + 1
        BY <1>0, GapsBound
      <4>4. Cardinality(Breaks) \in Nat
        BY <1>0, BreaksFinite
      <4> QED BY <1>0, <4>1, <4>2, <4>3, <4>4
    <3> QED BY <3>1, <3>2
  <2>3. /\ \A c \in Callers : stage'[c] # "append"
        /\ crashes' = crashes + 1 /\ row' = row /\ events' = events
    BY <1>8 DEF Crash
  <2> QED
    BY <2>1, <2>2, <2>3 DEF TrailKept
<1>9. ASSUME NEW c \in Callers, Write(c) PROVE TrailKept'
  <2>1. /\ seen[c] = row /\ Accepted(want[c], row) /\ want[c] \in Wants /\ want[c] # None
        /\ \A d \in Callers : stage[d] # "append"
    BY <1>9, ServiceAssumption
    DEF Write, Overlapping, AcceptedInside, TypeOK, FreshRead, Inside, Accepted, MayMove, Edges, Statuses
  <2>2. row' = NewRow(want[c], row) /\ row' \in Rows
    BY <1>9, <2>1, NewRowType DEF Write, Overlapping, TypeOK
  <2>3. row' # NoJob
    BY <2>2, ServiceAssumption DEF Rows
  <2>4. /\ events' = events /\ crashes' = crashes /\ want' = want /\ seen' = seen
        /\ \A d \in Callers : stage'[d] = "append" <=> d = c
    BY <1>9, <2>1 DEF Write, Overlapping, TypeOK
  <2>5. Gaps(seen[c])' = Gaps(row)
    BY <2>4, <2>1 DEF Gaps, Breaks
  <2>6. Gaps(row) <= crashes
    BY <2>1 DEF TrailKept
  <2>7. row = NoJob => events = <<>>
    BY DEF TrailKept
  <2> QED
    BY <2>1, <2>2, <2>3, <2>4, <2>5, <2>6, <2>7 DEF TrailKept
<1>10. ASSUME NEW c \in Callers, AppendEvent(c) PROVE TrailKept'
  <2> DEFINE e == EventOf(want[c], seen[c])
  <2>1. /\ stage[c] = "append" /\ Accepted(want[c], seen[c])
        /\ want[c] \in Wants /\ seen[c] \in Rows \cup {NoJob}
    BY <1>10 DEF AppendEvent, Overlapping, AcceptedInside, FreshRead, Inside, TypeOK
  <2>2. want[c] # None
    BY <2>1, ServiceAssumption DEF Accepted, MayMove, Edges, Statuses
  <2>3. /\ row = NewRow(want[c], seen[c]) /\ Gaps(seen[c]) <= crashes
        /\ seen[c] = NoJob => events = <<>>
    BY <2>1 DEF TrailKept
  <2>4. /\ e \in Events /\ e.to = row.status
        /\ seen[c] # NoJob => e.from = seen[c].status
    BY <2>1, <2>2, <2>3, ServiceAssumption
    DEF EventOf, Accepted, Wants, Rows, Statuses, NewRow, Events
  <2>5. /\ events' = Append(events, e) /\ row' = row /\ crashes' = crashes
        /\ \A d \in Callers : stage'[d] # "append"
    BY <1>10 DEF AppendEvent, Resume, Start, Overlapping, TypeOK, FreshRead, Inside
  <2> HIDE DEF e
  <2>6. Cardinality(Breaks') \in Nat /\ Cardinality(Breaks') <= Gaps(seen[c])
    BY <1>0, <2>1, <2>3, <2>4, <2>5, AppendCloses
  <2>7. Gaps(seen[c]) \in Nat
    BY <1>0, GapsBound
  <2>8. events' # <<>> /\ events'[Len(events')].to = row'.status
    BY <1>0, <2>4, <2>5
  <2>9. row # NoJob
    BY <2>1, <2>2, <2>3, NewRowType, ServiceAssumption DEF Rows
  <2>10. Gaps(row)' = Cardinality(Breaks')
    BY <2>6, <2>8 DEF Gaps
  <2>11. Gaps(row)' <= crashes'
    BY <1>0, <2>3, <2>5, <2>6, <2>7, <2>10
  <2> QED
    BY <2>5, <2>9, <2>11 DEF TrailKept
<1> QED
  BY <1>2, <1>3, <1>4, <1>5, <1>6, <1>7, <1>8, <1>9, <1>10 DEF Next, CallStep

-----------------------------------------------------------------------------
(* However calls overlap, n backends work on one job at once only after    *)
(* n - 1 lost updates: the state machine itself never lets a second caller *)
(* claim a job that a backend may still complete, crashes included.        *)
THEOREM ClaimsCost == Spec => []SecondBackendNeedsLostUpdate
<1>1. Overlapping => SecondBackendNeedsLostUpdate
  <2> SUFFICES ASSUME Overlapping PROVE SecondBackendNeedsLostUpdate
    OBVIOUS
  <2>1. Backends \subseteq Holders
    BY DEF Backends, Holders, Holder
  <2>2. IsFiniteSet(Backends) /\ Cardinality(Backends) <= Cardinality(Holders)
    BY <2>1, HoldersFinite, FS_Subset
  <2>3. Cardinality(Backends) \in Nat
    BY <2>2, FS_CardinalityType
  <2> QED
    BY <2>2, <2>3, HoldersFinite DEF Overlapping, TypeOK, ClaimsPaid, SecondBackendNeedsLostUpdate
<1>2. Spec => []Overlapping
  BY InitOverlapping, StepOverlapping, PTL DEF Spec
<1> QED
  BY <1>1, <1>2, PTL

(* The inductive invariant holds. *)
THEOREM Correct == Spec => []IInv
<1>1. Init => IInv
  BY InitOverlapping, InitTrail DEF IInv, Init, FreshRead, Inside
<1>2. IInv /\ [Next]_vars => IInv'
  <2> SUFFICES ASSUME IInv, [Next]_vars PROVE IInv'
    OBVIOUS
  <2>1. Overlapping /\ Overlapping'
    BY StepOverlapping DEF IInv
  <2>2. CASE ~overlap'
    <3>1. FreshRead /\ TrailKept
      BY <2>1, <2>2, OverlapStays DEF IInv, Overlapping
    <3> QED
      BY <2>1, <2>2, <3>1, StepTurns, StepTrail DEF IInv
  <2> QED
    BY <2>1, <2>2 DEF IInv
<1> QED
  BY <1>1, <1>2, PTL DEF Spec

(* Until two calls overlap, the event trail misses at most one event per   *)
(* crash, and the one of the call in progress.                             *)
THEOREM TrailTells == Spec => []TrailIsComplete
<1>1. IInv => TrailIsComplete
  <2> SUFFICES ASSUME Overlapping, TrailKept PROVE TrailIsComplete
    BY DEF IInv, TrailIsComplete
  <2>0. events \in Seq(Events) /\ crashes \in Nat
    BY DEF Overlapping, TypeOK, Events
  <2>1. CASE \A c \in Callers : stage[c] # "append"
    BY <2>0, <2>1 DEF TrailKept, TrailIsComplete
  <2>2. ASSUME NEW c \in Callers, stage[c] = "append" PROVE TrailIsComplete
    <3>1. Gaps(seen[c]) <= crashes
      BY <2>2 DEF TrailKept
    <3>2. Gaps(seen[c]) \in Nat /\ Cardinality(Breaks) <= Gaps(seen[c])
      BY <2>0, GapsBound
    <3>3. Gaps(row) \in Nat /\ Gaps(row) <= Cardinality(Breaks) + 1
      BY <2>0, GapsBound
    <3>4. Cardinality(Breaks) \in Nat
      BY <2>0, BreaksFinite
    <3>5. Gaps(row) <= crashes + 1
      BY <2>0, <3>1, <3>2, <3>3, <3>4
    <3> QED BY <2>2, <3>5 DEF TrailIsComplete
  <2> QED BY <2>1, <2>2
<1> QED
  BY <1>1, Correct, PTL

(* However calls overlap, every write of the service is a step of the      *)
(* abstract lifecycle or a lost update: outside lost updates no status     *)
(* leaves the state machine and no requested cancellation is withdrawn,    *)
(* crashes included.                                                       *)
THEOREM Refinement == Spec => ImplementsLifecycle
<1>1. Init => Lifecycle!Init
  BY DEF Init, Lifecycle!Init
<1>2. IInv /\ [Next]_vars => [Lifecycle!Next]_<<row, lost>>
  <2> SUFFICES ASSUME IInv, [Next]_vars PROVE Lifecycle!Next \/ UNCHANGED <<row, lost>>
    OBVIOUS
  <2>1. ASSUME NEW c \in Callers, Write(c) PROVE Lifecycle!Next
    <3>1. /\ Accepted(want[c], seen[c]) /\ want[c] \in Wants
          /\ seen[c] \in Rows \cup {NoJob} /\ row' = NewRow(want[c], seen[c])
      BY <2>1 DEF IInv, Overlapping, AcceptedInside, Inside, TypeOK, Write
    <3>2. want[c] # None
      BY <3>1, ServiceAssumption DEF Accepted, MayMove, Edges, Statuses
    <3>3. CASE seen[c] = row
      BY <2>1, <3>1, <3>2, <3>3, NewRowIsStep DEF Write
    <3>4. CASE seen[c] # row
      <4>1. row' \in Rows
        BY <3>1, <3>2, NewRowType
      <4> QED
        BY <2>1, <3>4, <4>1 DEF Write, Rows, Lifecycle!Next, Lifecycle!LoseUpdate,
                                Statuses, Lifecycle!Statuses
    <3> QED
      BY <3>3, <3>4
  <2>2. CASE UNCHANGED <<row, lost>>
    BY <2>2
  <2> QED
    BY <2>1, <2>2 DEF Next, CallStep, UserCall, StartRun, EnterRun, Read, AppendEvent, BackendReturns,
                      Crash, vars
<1> QED
  BY <1>1, <1>2, Correct, PTL DEF Spec, ImplementsLifecycle, Lifecycle!Spec
=============================================================================
