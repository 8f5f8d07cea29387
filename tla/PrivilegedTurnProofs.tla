------------------------ MODULE PrivilegedTurnProofs ------------------------
(* Theorems about PrivilegedTurn, for every set of threads, turns and      *)
(* requests and every choice of the time budgets.                          *)
EXTENDS PrivilegedTurn, FiniteSetTheorems, TLAPS

(* What uuid4 draws is a member of the set of unused identities. *)
LEMMA FreshIsMember ==
  ASSUME NEW S, S # {}
  PROVE  Fresh(S) \in S
BY DEF Fresh

LEMMA InitGate == Init => GateInv
<1> SUFFICES ASSUME Init PROVE GateInv
  OBVIOUS
<1> USE GateAssumption DEF Init, Issued, Requested
<1>1. TypeOK
  BY DEF TypeOK, Operations, Evidence, Inspection, Elevated, PcStates, HelperStates, Decisions
<1>2. TurnInv /\ HeldInv
  BY DEF TurnInv, HeldInv
<1>3. TableInv
  BY DEF TableInv
<1>4. ExecInv /\ ReportInv
  BY DEF ExecInv, ReportInv
<1> QED
  BY <1>1, <1>2, <1>3, <1>4 DEF GateInv

LEMMA StepGate == GateInv /\ [Next]_vars => GateInv'
<1> SUFFICES ASSUME GateInv, [Next]_vars PROVE GateInv'
  OBVIOUS
<1> USE GateAssumption
<1> USE DEF GateInv
<1> USE DEF gateVars, agentVars, execVars, history, Operations, PcStates, HelperStates, Decisions,
        Evidence, Inspection, Elevated
<1>1. CASE Tick
  BY <1>1 DEF Tick, TypeOK, TurnInv, HeldInv, TableInv, ExecInv, ReportInv, Issued, Requested, Unified
<1>2. ASSUME NEW op \in Operations, Arm(op) PROVE GateInv'
  BY <1>2 DEF Arm, TypeOK, TurnInv, HeldInv, TableInv, ExecInv, ReportInv, Issued, Requested
<1>3. CASE Revoke
  BY <1>3 DEF Revoke, Invalidated, TypeOK, TurnInv, HeldInv, TableInv, ExecInv, ReportInv, Issued, Requested
<1>4. CASE Pending
  BY <1>4 DEF Pending, Invalidated, TypeOK, TurnInv, HeldInv, TableInv, ExecInv, ReportInv, Issued, Requested, Unified
<1>5. ASSUME NEW r \in RequestIds, NEW accept \in BOOLEAN, Decide(r, accept) PROVE GateInv'
  <2>1. TypeOK'
    BY <1>5 DEF Decide, DecisionOf, TypeOK
  <2>2. TurnInv'
    BY <1>5 DEF Decide, TurnInv
  <2>3. HeldInv'
    BY <1>5 DEF Decide, HeldInv
  <2>4. TableInv'
    BY <1>5 DEF Decide, DecisionOf, TypeOK, TableInv, Issued, Requested, Unified
  <2>5. ExecInv'
    BY <1>5 DEF Decide, TableInv, ExecInv
  <2>6. ReportInv'
    BY <1>5 DEF Decide, ReportInv
  <2> QED BY <2>1, <2>2, <2>3, <2>4, <2>5, <2>6
<1>6. ASSUME NEW t \in Threads, BeginHeadTurn(t) PROVE GateInv'
  <2>1. TypeOK'
    BY <1>6, FreshIsMember DEF BeginHeadTurn, TypeOK, TurnInv, TableInv, ExecInv, ReportInv, Requested
  <2>2. TurnInv'
    BY <1>6, FreshIsMember DEF BeginHeadTurn, TurnInv
  <2>3. HeldInv'
    BY <1>6, FreshIsMember DEF BeginHeadTurn, HeldInv
  <2>4. TableInv'
    BY <1>6, FreshIsMember DEF BeginHeadTurn, TableInv, Issued, Requested
  <2>5. ExecInv'
    BY <1>6, FreshIsMember DEF BeginHeadTurn, ExecInv
  <2>6. ReportInv'
    BY <1>6, FreshIsMember DEF BeginHeadTurn, ReportInv
  <2> QED BY <2>1, <2>2, <2>3, <2>4, <2>5, <2>6
<1>7. ASSUME NEW t \in Threads, BeginWorkerTurn(t) PROVE GateInv'
  BY <1>7 DEF BeginWorkerTurn, TypeOK, TurnInv, HeldInv, TableInv, ExecInv, ReportInv, Issued, Requested, Unified
<1>8. ASSUME NEW t \in Threads, EndTurn(t) PROVE GateInv'
  <2>1. CASE ctx[t] = None
    <3>1. TypeOK'
      BY <1>8, <2>1 DEF EndTurn, TypeOK
    <3>2. TurnInv'
      BY <1>8, <2>1 DEF EndTurn, TurnInv
    <3>3. HeldInv'
      BY <1>8, <2>1 DEF EndTurn, HeldInv
    <3>4. TableInv'
      BY <1>8, <2>1 DEF EndTurn, TableInv, Issued, Requested, Unified
    <3>5. ExecInv'
      BY <1>8, <2>1 DEF EndTurn, ExecInv
    <3>6. ReportInv'
      BY <1>8, <2>1 DEF EndTurn, ReportInv
    <3> QED BY <3>1, <3>2, <3>3, <3>4, <3>5, <3>6
  <2>2. CASE ctx[t] # None
    <3>1. TypeOK'
      BY <1>8, <2>2 DEF EndTurn, Invalidated, TypeOK, Issued
    <3>2. TurnInv'
      BY <1>8, <2>2 DEF EndTurn, TypeOK, TurnInv
    <3>3. HeldInv'
      BY <1>8, <2>2 DEF EndTurn, HeldInv
    <3>4. TableInv'
      BY <1>8, <2>2 DEF EndTurn, Invalidated, TableInv, Issued, Requested
    <3>5. ExecInv'
      BY <1>8, <2>2 DEF EndTurn, ExecInv
    <3>6. ReportInv'
      BY <1>8, <2>2 DEF EndTurn, ReportInv
    <3> QED BY <3>1, <3>2, <3>3, <3>4, <3>5, <3>6
  <2> QED BY <2>1, <2>2
<1>9. ASSUME NEW t \in Threads, NEW op \in Operations, Claim(t, op) PROVE GateInv'
  <2>1. TypeOK'
    <3>1. Fresh(RequestIds \ Issued) \in RequestIds
      BY <1>9, FreshIsMember DEF Claim
    <3> HIDE DEF Fresh, Issued
    <3> QED BY <1>9, <3>1 DEF Claim, TypeOK
  <2>2. TurnInv'
    BY <1>9, FreshIsMember DEF Claim, TurnInv
  <2>3. HeldInv'
    BY <1>9, FreshIsMember DEF Claim, MayClaim, TypeOK, HeldInv, Issued
  <2>4. TableInv'
    BY <1>9, FreshIsMember DEF Claim, MayClaim, TypeOK, TableInv, Issued, Requested, Unified
  <2>5. ExecInv'
    BY <1>9, FreshIsMember DEF Claim, TypeOK, ExecInv, ReportInv, Issued
  <2>6. ReportInv'
    BY <1>9, FreshIsMember DEF Claim, ReportInv, Issued
  <2> QED BY <2>1, <2>2, <2>3, <2>4, <2>5, <2>6
<1>10. ASSUME NEW t \in Threads, Submit(t) PROVE GateInv'
  <2>1. TypeOK'
    BY <1>10 DEF Submit, GoOn, TypeOK
  <2>2. TurnInv'
    BY <1>10 DEF Submit, TurnInv
  <2>3. HeldInv'
    BY <1>10 DEF Submit, GoOn, HeldInv
  <2>4. TableInv'
    BY <1>10 DEF Submit, MaySubmit, Live, TableInv, ExecInv, Issued, Requested, Unified
  <2>5. ExecInv'
    BY <1>10 DEF Submit, GoOn, ExecInv
  <2>6. ReportInv'
    BY <1>10 DEF Submit, GoOn, ReportInv
  <2> QED BY <2>1, <2>2, <2>3, <2>4, <2>5, <2>6
<1>11. ASSUME NEW t \in Threads, SubmitRefused(t) PROVE GateInv'
  BY <1>11 DEF SubmitRefused, Return, TypeOK, TurnInv, HeldInv, TableInv, ExecInv, ReportInv, Issued, Requested, Unified
<1>12. ASSUME NEW t \in Threads, Wait(t) PROVE GateInv'
  BY <1>12 DEF Wait, Return, GoOn, TypeOK, TurnInv, HeldInv, TableInv, ExecInv, ReportInv, Issued, Requested, Unified
<1>13. ASSUME NEW t \in Threads, Recheck(t) PROVE GateInv'
  BY <1>13 DEF Recheck, Return, GoOn, TypeOK, TurnInv, HeldInv, TableInv, ExecInv, ReportInv, Issued, Requested, Unified
<1>14. ASSUME NEW t \in Threads, RequireAccepted(t) PROVE GateInv'
  BY <1>14 DEF RequireAccepted, MayHandOff, GoOn, TypeOK, TurnInv, HeldInv, TableInv, ExecInv, ReportInv, Issued, Requested, Unified
<1>15. ASSUME NEW t \in Threads, RequireRefused(t) PROVE GateInv'
  BY <1>15 DEF RequireRefused, Return, TypeOK, TurnInv, HeldInv, TableInv, ExecInv, ReportInv, Issued, Requested, Unified
<1>16. ASSUME NEW t \in Threads, Elevate(t) PROVE GateInv'
  BY <1>16 DEF Elevate, Return, GoOn, TypeOK, TurnInv, HeldInv, TableInv, ExecInv, ReportInv, Issued, Requested, Unified
<1>17. ASSUME NEW t \in Threads, UacAnswered(t) PROVE GateInv'
  BY <1>17 DEF UacAnswered, Return, GoOn, TypeOK, TurnInv, HeldInv, TableInv, ExecInv, ReportInv, Issued, Requested, Unified
<1>18. ASSUME NEW t \in Threads, WaitForHelper(t) PROVE GateInv'
  <2>1. TypeOK'
    BY <1>18 DEF WaitForHelper, ReportOf, Return, TypeOK
  <2>2. TurnInv'
    BY <1>18 DEF WaitForHelper, TurnInv
  <2>3. HeldInv'
    BY <1>18 DEF WaitForHelper, Return, TypeOK, HeldInv
  <2>4. TableInv'
    BY <1>18 DEF WaitForHelper, TableInv, Issued, Requested, Unified
  <2>5. ExecInv'
    BY <1>18 DEF WaitForHelper, Return, TypeOK, ExecInv
  <2>6. ReportInv'
    BY <1>18 DEF WaitForHelper, ReportOf, Return, TypeOK, HeldInv, ReportInv
  <2> QED BY <2>1, <2>2, <2>3, <2>4, <2>5, <2>6
<1>19. ASSUME NEW r \in RequestIds, HelperStep(r) PROVE GateInv'
  <2>1. TypeOK'
    <3>1. CASE HelperStart(r)
      BY <3>1 DEF HelperStart, TypeOK
    <3>2. CASE HelperLaunch(r)
      BY <3>2 DEF HelperLaunch, TypeOK
    <3>3. CASE HelperFinish(r)
      BY <3>3 DEF HelperFinish, TypeOK
    <3> QED BY <1>19, <3>1, <3>2, <3>3 DEF HelperStep
  <2>2. TurnInv'
    BY <1>19 DEF HelperStep, HelperStart, HelperLaunch, HelperFinish, TurnInv
  <2>3. HeldInv'
    BY <1>19 DEF HelperStep, HelperStart, HelperLaunch, HelperFinish, HeldInv
  <2>4. TableInv'
    BY <1>19 DEF HelperStep, HelperStart, HelperLaunch, HelperFinish, TableInv, Issued, Requested, Unified
  <2>5. ExecInv'
    BY <1>19 DEF HelperStep, HelperStart, HelperLaunch, HelperFinish, TypeOK, TurnInv, HeldInv, TableInv, ExecInv, ReportInv, Issued, Requested, Unified
  <2>6. ReportInv'
    BY <1>19 DEF HelperStep, HelperStart, HelperLaunch, HelperFinish, TypeOK, TurnInv, HeldInv, TableInv, ExecInv, ReportInv, Issued, Requested, Unified
  <2> QED BY <2>1, <2>2, <2>3, <2>4, <2>5, <2>6
<1>20. CASE UNCHANGED vars
  BY <1>20 DEF vars, TypeOK, TurnInv, HeldInv, TableInv, ExecInv, ReportInv, Issued, Requested, Unified
<1> QED
  BY <1>1, <1>2, <1>3, <1>4, <1>5, <1>6, <1>7, <1>8, <1>9, <1>10, <1>11, <1>12, <1>13, <1>14,
     <1>15, <1>16, <1>17, <1>18, <1>19, <1>20
  DEF Next, UIStep, TurnStep, ToolStep

-----------------------------------------------------------------------------
LEMMA InitBudget == Init => BudgetInv
<1> SUFFICES ASSUME Init PROVE BudgetInv
  OBVIOUS
<1>1. Issued = {}
  BY GateAssumption DEF Init, Issued
<1>2. Spent = {}
  BY <1>1 DEF Spent, Init
<1>3. IsFiniteSet({}) /\ Cardinality({}) = 0
  BY FS_EmptySet
<1> QED
  BY <1>1, <1>2, <1>3 DEF Init, BudgetInv, FixedClaimedOnce

(* A step that takes no arm and issues no claim keeps the budget when no   *)
(* new turn opens.                                                         *)
LEMMA BudgetFrame ==
  ASSUME BudgetInv, TypeOK,
         UNCHANGED <<owner, opOf, arms>>,
         armedUntil' = armedUntil \/ armedUntil' = 0,
         turn' = None \/ UNCHANGED <<turn, deadline>> \/ deadline' = 0,
         \/ turn' = None
         \/ UNCHANGED <<turn, operation, fixedUsed>> /\ (used => used')
  PROVE  BudgetInv'
<1>1. Issued' = Issued
  BY DEF Issued
<1>2. Spent' \subseteq Spent
  BY <1>1 DEF Spent
<1>3. IsFiniteSet(Spent)
  BY DEF BudgetInv
<1>4. /\ IsFiniteSet(Spent') /\ Cardinality(Spent') <= Cardinality(Spent)
      /\ Cardinality(Spent') \in Nat /\ Cardinality(Spent) \in Nat
  <2>1. IsFiniteSet(Spent') /\ Cardinality(Spent') <= Cardinality(Spent)
    BY <1>2, <1>3, FS_Subset
  <2> QED BY <2>1, <1>3, FS_CardinalityType
<1>5. Cardinality(Spent') + (IF armedUntil' # 0 THEN 1 ELSE 0) <= arms'
  <2> HIDE DEF Spent
  <2>1. Cardinality(Spent) + (IF armedUntil # 0 THEN 1 ELSE 0) <= arms
    BY DEF BudgetInv
  <2> QED BY <1>4, <2>1 DEF TypeOK
<1>6. FixedClaimedOnce'
  BY <1>1 DEF BudgetInv, FixedClaimedOnce
<1>7. \A r \in Issued' :
        owner'[r] = turn' => IF Unified' THEN opOf'[r] \in fixedUsed' \cup {Elevated} ELSE used'
  BY <1>1 DEF BudgetInv, Unified, Issued
<1> QED
  BY <1>4, <1>5, <1>6, <1>7 DEF BudgetInv

LEMMA StepBudget == GateInv /\ BudgetInv /\ [Next]_vars => BudgetInv'
<1> SUFFICES ASSUME GateInv, BudgetInv, [Next]_vars PROVE BudgetInv'
  OBVIOUS
<1> USE GateAssumption DEF gateVars, agentVars, execVars, history
<1>0. TypeOK /\ TurnInv /\ TableInv
  BY DEF GateInv
<1>1. CASE UNCHANGED <<owner, opOf, arms, armedUntil, turn, deadline, operation, fixedUsed, used>>
  BY <1>0, <1>1, BudgetFrame
<1>2. CASE Revoke
  BY <1>0, <1>2, BudgetFrame DEF Revoke
<1>3. ASSUME NEW t \in Threads, EndTurn(t) PROVE BudgetInv'
  BY <1>0, <1>3, BudgetFrame DEF EndTurn
<1>4. ASSUME NEW op \in Operations, Arm(op) PROVE BudgetInv'
  <2>1. /\ Issued' = Issued /\ Spent' = Spent /\ arms' = arms + 1
        /\ owner' = owner /\ opOf' = opOf /\ turn' = None /\ turn = None
    BY <1>4 DEF Arm, Issued, Spent
  <2>2. Cardinality(Spent) \in Nat
    BY FS_CardinalityType DEF BudgetInv
  <2>3. Cardinality(Spent) <= arms /\ arms \in Nat
    BY <1>0, <2>2 DEF BudgetInv, TypeOK
  <2>4. Cardinality(Spent') + (IF armedUntil' # 0 THEN 1 ELSE 0) <= arms'
    BY <2>1, <2>2, <2>3
  <2> QED
    BY <2>1, <2>4 DEF BudgetInv, FixedClaimedOnce, Issued
<1>5. ASSUME NEW t \in Threads, BeginHeadTurn(t) PROVE BudgetInv'
  <2> DEFINE i == Fresh(TurnIds \ begun)
  <2>1. /\ i \in TurnIds \ begun /\ turn = None /\ turn' = i /\ armedUntil' = 0
        /\ UNCHANGED <<owner, opOf, arms>>
        /\ now < armedUntil \/ deadline' = 0
    BY <1>5, FreshIsMember DEF BeginHeadTurn
  <2> HIDE DEF i
  <2>2. Issued' = Issued /\ \A r \in Issued : owner[r] # turn'
    BY <1>0, <2>1 DEF Issued, TurnInv
  <2>3. IsFiniteSet(Spent) /\ Cardinality(Spent) \in Nat
    BY FS_CardinalityType DEF BudgetInv
  <2>4. IsFiniteSet(Spent') /\ Cardinality(Spent') <= arms
    <3>1. CASE deadline' = 0
      <4>1. Spent' = Spent
        BY <2>1, <2>2, <3>1 DEF Spent
      <4> QED BY <1>0, <2>3, <4>1 DEF BudgetInv, TypeOK
    <3>2. CASE deadline' # 0
      <4>1. Spent' = Spent \cup {i} /\ armedUntil # 0
        BY <1>0, <2>1, <2>2, <3>2 DEF Spent, TypeOK
      <4>2. /\ IsFiniteSet(Spent \cup {i})
            /\ Cardinality(Spent \cup {i})
                 = IF i \in Spent THEN Cardinality(Spent) ELSE Cardinality(Spent) + 1
        BY <2>3, FS_AddElement
      <4>3. Cardinality(Spent) + 1 <= arms
        BY <4>1 DEF BudgetInv
      <4> QED BY <1>0, <2>3, <4>1, <4>2, <4>3 DEF TypeOK
    <3> QED BY <3>1, <3>2
  <2>5. Cardinality(Spent') + (IF armedUntil' # 0 THEN 1 ELSE 0) <= arms'
    <3>1. Cardinality(Spent') \in Nat
      BY <2>4, FS_CardinalityType
    <3> QED BY <2>1, <2>4, <3>1
  <2>6. FixedClaimedOnce'
    BY <2>1, <2>2 DEF BudgetInv, FixedClaimedOnce
  <2> QED
    BY <2>1, <2>2, <2>4, <2>5, <2>6 DEF BudgetInv
<1>6. ASSUME NEW t \in Threads, NEW op \in Operations, Claim(t, op) PROVE BudgetInv'
  <2> DEFINE r == Fresh(RequestIds \ Issued)
  <2>1. r \in RequestIds /\ r \notin Issued
    BY <1>6, FreshIsMember DEF Claim
  <2>2. /\ owner' = [owner EXCEPT ![r] = turn] /\ opOf' = [opOf EXCEPT ![r] = op]
        /\ UNCHANGED <<turn, deadline, armedUntil, arms, operation>>
        /\ MayClaim(t, op)
        /\ used' = IF Unified THEN used ELSE TRUE
        /\ fixedUsed' = IF Unified /\ op # Elevated THEN fixedUsed \cup {op} ELSE fixedUsed
    BY <1>6 DEF Claim
  <2> HIDE DEF r
  <2>3. turn # None /\ deadline # 0
    BY <1>0, <2>2 DEF MayClaim, TypeOK
  <2>4. /\ Issued' = Issued \cup {r} /\ owner'[r] = turn /\ opOf'[r] = op
        /\ \A s \in Issued : owner'[s] = owner[s] /\ opOf'[s] = opOf[s]
    BY <1>0, <2>1, <2>2, <2>3 DEF Issued, TypeOK
  <2>5. Spent' = Spent
    BY <2>2, <2>3, <2>4 DEF Spent
  <2>6. Unified' = Unified
    BY <2>2 DEF Unified
  <2>7. \A s \in Issued : owner[s] = turn /\ opOf[s] = op => op = Elevated
    BY <2>2 DEF BudgetInv, MayClaim
  <2>8. FixedClaimedOnce'
    BY <2>1, <2>4, <2>7 DEF BudgetInv, FixedClaimedOnce
  <2>9. \A s \in Issued' :
          owner'[s] = turn' => IF Unified' THEN opOf'[s] \in fixedUsed' \cup {Elevated} ELSE used'
    <3>1. ASSUME NEW s \in Issued, owner[s] = turn
          PROVE  IF Unified THEN opOf'[s] \in fixedUsed' \cup {Elevated} ELSE used'
      BY <2>2, <2>4, <3>1 DEF BudgetInv
    <3>2. IF Unified THEN opOf'[r] \in fixedUsed' \cup {Elevated} ELSE used'
      BY <2>2, <2>4
    <3> QED BY <2>2, <2>4, <2>6, <3>1, <3>2
  <2> QED
    BY <2>2, <2>5, <2>8, <2>9 DEF BudgetInv
<1> QED
  BY <1>1, <1>2, <1>3, <1>4, <1>5, <1>6
  DEF Next, UIStep, TurnStep, ToolStep, HelperStep, vars, Tick, Pending, Decide,
      BeginWorkerTurn, Submit, SubmitRefused, Wait, Recheck, RequireAccepted, RequireRefused,
      Elevate, UacAnswered, WaitForHelper, HelperStart, HelperLaunch, HelperFinish

-----------------------------------------------------------------------------
(* The inductive invariant holds in every reachable state.  It contains    *)
(* the type invariant and that claims, threads and turns belong together.  *)
THEOREM Correct == Spec => []IInv
<1>1. Init => IInv
  BY InitGate, InitBudget DEF IInv
<1>2. IInv /\ [Next]_vars => IInv'
  BY StepGate, StepBudget DEF IInv
<1> QED
  BY <1>1, <1>2, PTL DEF Spec

(* Type correctness (TypeOK), for every value of the constants. *)
THEOREM TypeCorrect == Spec => []TypeOK
<1>1. IInv => TypeOK
  BY DEF IInv, GateInv
<1> QED
  BY <1>1, Correct, PTL

(* Whatever the interleaving of agent threads, UI and clock, a request is  *)
(* handed to elevation at most once and only after the operator accepted   *)
(* it, and only such a request is executed (require_accepted, decide).     *)
THEOREM HandoffOnce == Spec => []HandoffOncePerAcceptance
<1>1. IInv => HandoffOncePerAcceptance
  BY DEF IInv, GateInv, TypeOK, ExecInv, HandoffOncePerAcceptance
<1> QED
  BY <1>1, Correct, PTL

(* However arms, turns, refused and failed attempts follow each other, the *)
(* turns that claimed are no more than the arms, and no turn claims a      *)
(* fixed helper twice (arm, turn and claim).                               *)
THEOREM ClaimsStayInBudget == Spec => []ClaimBudget
<1>1. IInv => ClaimBudget
  <2> SUFFICES ASSUME IInv PROVE ClaimBudget
    OBVIOUS
  <2> DEFINE Owners == {owner[r] : r \in Issued}
  <2>1. Owners \subseteq Spent /\ IsFiniteSet(Spent)
    BY DEF Spent, IInv, BudgetInv
  <2> HIDE DEF Owners
  <2>2. IsFiniteSet(Owners) /\ Cardinality(Owners) <= Cardinality(Spent)
    BY <2>1, FS_Subset
  <2>3. Cardinality(Owners) \in Nat /\ Cardinality(Spent) \in Nat
    BY <2>1, <2>2, FS_CardinalityType
  <2>4. Cardinality(Spent) <= arms /\ arms \in Nat
    BY <2>3 DEF IInv, BudgetInv, GateInv, TypeOK
  <2>5. Cardinality(Owners) <= arms
    BY <2>2, <2>3, <2>4
  <2> QED
    BY <2>5 DEF Owners, ClaimBudget, IInv, BudgetInv
<1> QED
  BY <1>1, Correct, PTL

(* What the tool result says about execution is true of the helper, also   *)
(* when it gave up waiting for it, and the settings view says "active"     *)
(* exactly while the armed operation can be claimed by the thread running  *)
(* the head turn.                                                          *)
THEOREM TruthfulGate == Spec => []GateIsTruthful
<1>1. IInv => ReportIsTruthful
  BY DEF IInv, GateInv, TypeOK, ExecInv, ReportInv, ReportIsTruthful
<1>2. IInv => StatusIsHonest
  BY GateAssumption
  DEF IInv, GateInv, TypeOK, TurnInv, TableInv, StatusIsHonest, Status, MayClaim, Unified
<1>3. IInv => GateIsTruthful
  BY <1>1, <1>2 DEF GateIsTruthful
<1> QED
  BY <1>3, Correct, PTL

(* A handoff happens only under live authority: not after revoke(), not in *)
(* a later turn, not past the deadline.                                    *)
THEOREM AuthorityBound == Spec => HandoffOnlyUnderAuthority
<1> DEFINE Bound == \A r \in RequestIds :
                      handoffs'[r] > handoffs[r] => /\ r \notin withdrawn
                                                    /\ owner[r] = turn
                                                    /\ now < deadline
<1>1. IInv /\ [Next]_vars => [Bound]_vars
  <2> SUFFICES ASSUME IInv, [Next]_vars PROVE Bound \/ UNCHANGED vars
    OBVIOUS
  <2>1. ASSUME NEW t \in Threads, RequireAccepted(t) PROVE Bound
    BY <2>1, GateAssumption
    DEF RequireAccepted, MayHandOff, Live, IInv, GateInv, TypeOK, TableInv, HeldInv, Requested, Issued
  <2>2. CASE UNCHANGED handoffs
    BY <2>2 DEF IInv, GateInv, TypeOK
  <2> QED
    BY <2>1, <2>2
    DEF Next, UIStep, TurnStep, ToolStep, HelperStep, vars, history, Tick, Arm, Revoke, Pending, Decide,
        BeginHeadTurn, BeginWorkerTurn, EndTurn, Claim, Submit, SubmitRefused, Wait, Recheck,
        RequireRefused, Elevate, UacAnswered, WaitForHelper, HelperStart, HelperLaunch, HelperFinish
<1> QED
  BY <1>1, Correct, PTL DEF Spec, HandoffOnlyUnderAuthority
=============================================================================
