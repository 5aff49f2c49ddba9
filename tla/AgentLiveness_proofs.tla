------------------------ MODULE AgentLiveness_proofs ------------------------
(***************************************************************************)
(* Proofs about AgentLiveness, for any number of assets and any threshold: *)
(* its type invariant, and that the job's alerts and marks are sound.      *)
(***************************************************************************)
EXTENDS AgentLiveness, TLAPS

\* The job inserts only for an asset whose alerts, at the insert, are no more
\* than the counts that failed.
InsertIsDue ==
  \A a \in Assets : pc = "insert" /\ target = a => alerts[a] <= faults

\* An asset whose agent has never lapsed has reported lately, once it exists,
\* and the job does not have it among its targets.
WorkingIsFresh ==
  \A a \in Assets : ~lapsed[a] =>
    /\ agent[a] = "reporting"
    /\ a \notin targets
    /\ lastSeen[a] = Never \/ lastSeen[a] <= ReportEvery
    /\ status[a] = "absent" => lastSeen[a] = Never

IInv == /\ TypeOK
        /\ OneAlert /\ InsertIsDue
        /\ WorkingStaysOnline /\ WorkingIsFresh
        /\ OfflineIsAnnounced

\* Never, Late and the ages of a working agent's reports are different.
LEMMA AgeFacts ==
  /\ Threshold \in Nat /\ ReportEvery \in Nat
  /\ ReportEvery <= Threshold
  /\ Late = Threshold + 1 /\ Never = Threshold + 2
  BY AgentLivenessAssumption DEF Late, Never

LEMMA InitIInv == Init => IInv
  BY AgentLivenessAssumption, AgeFacts
  DEF Init, IInv, TypeOK, OneAlert, InsertIsDue, WorkingStaysOnline,
      WorkingIsFresh, OfflineIsAnnounced, Ages

-----------------------------------------------------------------------------
LEMMA NextTypeOK == TypeOK /\ [Next]_vars => TypeOK'
<1> SUFFICES ASSUME TypeOK, [Next]_vars PROVE TypeOK'
  OBVIOUS
<1> USE AgentLivenessAssumption DEF TypeOK, assetVars, jobVars
<1>1. ASSUME NEW a \in Assets, Register(a) \/ Report(a) PROVE TypeOK'
  BY <1>1, AgeFacts DEF Register, Report, Ages
<1>2. ASSUME NEW a \in Assets, FallSilent(a) \/ ComeBack(a) PROVE TypeOK'
  <2>1. CASE FallSilent(a)
    BY <1>2, <2>1 DEF FallSilent, Mood
  <2>2. CASE ComeBack(a)
    BY <1>2, <2>2 DEF ComeBack, Mood
  <2>. QED BY <1>2, <2>1, <2>2
<1>3. ASSUME NEW a \in Assets, HandleAlert(a) PROVE TypeOK'
  BY <1>3 DEF HandleAlert, UserAct
<1>4. ASSUME NEW a \in Assets, Delete(a) PROVE TypeOK'
  BY <1>4 DEF Delete, UserAct
<1>5. ASSUME NEW a \in Assets, NEW s \in EditedTo, SetStatus(a, s) PROVE TypeOK'
  BY <1>5 DEF SetStatus, UserAct, EditedTo
<1>6. CASE Tick
  <2>1. lastSeen' \in [Assets -> Ages \cup {Never}]
    BY <1>6, AgeFacts DEF Tick, Older, Ages
  <2>. QED BY <1>6, <2>1 DEF Tick
<1>7. CASE Select
  BY <1>7 DEF Select
<1>8. ASSUME NEW a \in Assets, Mark(a) PROVE TypeOK'
  BY <1>8 DEF Mark
<1>9. CASE CountAlerts
  BY <1>9 DEF CountAlerts, LeaveFor
<1>10. CASE InsertAlert
  BY <1>10 DEF InsertAlert, LeaveFor
<1>11. ASSUME NEW a \in Assets, MarkFails(a) PROVE TypeOK'
  BY <1>11 DEF MarkFails, Fault, LeaveFor
<1>12. CASE CountFails
  BY <1>12 DEF CountFails, Fault
<1>13. CASE InsertFails \/ TimeOut
  BY <1>13 DEF InsertFails, TimeOut, Fault, LeaveFor
<1>14. CASE UNCHANGED vars
  BY <1>14 DEF vars
<1>. QED BY <1>1, <1>2, <1>3, <1>4, <1>5, <1>6, <1>7, <1>8, <1>9, <1>10, <1>11,
            <1>12, <1>13, <1>14 DEF Next, Job, Fail

\* The alerts: only an insert adds one, and it follows a count of none, or one
\* that failed.
LEMMA NextOneAlert ==
  TypeOK /\ OneAlert /\ InsertIsDue /\ [Next]_vars => OneAlert' /\ InsertIsDue'
<1> SUFFICES ASSUME TypeOK, OneAlert, InsertIsDue, [Next]_vars
             PROVE  OneAlert' /\ InsertIsDue'
  OBVIOUS
<1> USE AgentLivenessAssumption DEF TypeOK, OneAlert, InsertIsDue, assetVars, jobVars
<1>1. ASSUME NEW a \in Assets,
             \/ Register(a) \/ Report(a) \/ FallSilent(a) \/ ComeBack(a) \/ Delete(a)
             \/ \E s \in EditedTo : SetStatus(a, s)
      PROVE  OneAlert' /\ InsertIsDue'
  BY <1>1 DEF Register, Report, FallSilent, ComeBack, Delete, SetStatus
<1>2. ASSUME NEW a \in Assets, HandleAlert(a) PROVE OneAlert' /\ InsertIsDue'
  BY <1>2 DEF HandleAlert
<1>3. CASE Tick \/ Select \/ UNCHANGED vars
  BY <1>3 DEF Tick, Select, vars
<1>4. ASSUME NEW a \in Assets, Mark(a) \/ MarkFails(a) PROVE OneAlert' /\ InsertIsDue'
  BY <1>4 DEF Mark, MarkFails, Fault, LeaveFor
<1>5. CASE CountAlerts
  BY <1>5 DEF CountAlerts, LeaveFor
<1>6. CASE CountFails
  BY <1>6 DEF CountFails, Fault
<1>7. CASE InsertAlert
  BY <1>7 DEF InsertAlert, LeaveFor
<1>8. CASE InsertFails \/ TimeOut
  BY <1>8 DEF InsertFails, TimeOut, Fault, LeaveFor
<1>. QED BY <1>1, <1>2, <1>3, <1>4, <1>5, <1>6, <1>7, <1>8 DEF Next, Job, Fail

\* The marks: the job selects only what is older than the threshold, which a
\* working agent's last report never is.
LEMMA NextWorking ==
  TypeOK /\ WorkingStaysOnline /\ WorkingIsFresh /\ [Next]_vars
    => WorkingStaysOnline' /\ WorkingIsFresh'
<1> SUFFICES ASSUME TypeOK, WorkingStaysOnline, WorkingIsFresh, [Next]_vars
             PROVE  WorkingStaysOnline' /\ WorkingIsFresh'
  OBVIOUS
<1> USE AgeFacts DEF TypeOK, WorkingStaysOnline, WorkingIsFresh, assetVars, jobVars
<1>1. ASSUME NEW a \in Assets, Register(a) \/ Report(a)
      PROVE  WorkingStaysOnline' /\ WorkingIsFresh'
  BY <1>1 DEF Register, Report
<1>2. ASSUME NEW a \in Assets, FallSilent(a) \/ ComeBack(a)
      PROVE  WorkingStaysOnline' /\ WorkingIsFresh'
  BY <1>2 DEF FallSilent, ComeBack
<1>3. ASSUME NEW a \in Assets, HandleAlert(a) \/ Delete(a)
      PROVE  WorkingStaysOnline' /\ WorkingIsFresh'
  BY <1>3 DEF HandleAlert, Delete, UserAct
<1>4. ASSUME NEW a \in Assets, NEW s \in EditedTo, SetStatus(a, s)
      PROVE  WorkingStaysOnline' /\ WorkingIsFresh'
  BY <1>4 DEF SetStatus, UserAct, EditedTo
<1>5. CASE Tick
  BY <1>5 DEF Tick, Overdue, Older, Ages
<1>6. CASE Select
  BY <1>6 DEF Select, Stale, Ages
<1>7. ASSUME NEW a \in Assets, Mark(a) \/ MarkFails(a)
      PROVE  WorkingStaysOnline' /\ WorkingIsFresh'
  BY <1>7 DEF Mark, MarkFails, LeaveFor
<1>8. CASE CountAlerts \/ InsertAlert \/ CountFails \/ InsertFails \/ TimeOut
  BY <1>8 DEF CountAlerts, InsertAlert, CountFails, InsertFails, TimeOut, LeaveFor
<1>9. CASE UNCHANGED vars
  BY <1>9 DEF vars
<1>. QED BY <1>1, <1>2, <1>3, <1>4, <1>5, <1>6, <1>7, <1>8, <1>9 DEF Next, Job, Fail

\* The announcement: between its mark and its alert an asset is the target.
LEMMA NextAnnounced ==
  TypeOK /\ OfflineIsAnnounced /\ [Next]_vars => OfflineIsAnnounced'
<1> SUFFICES ASSUME TypeOK, OfflineIsAnnounced, [Next]_vars, faults' = 0
             PROVE  OfflineIsAnnounced'
  BY DEF OfflineIsAnnounced
<1> USE AgentLivenessAssumption DEF TypeOK, OfflineIsAnnounced, assetVars, jobVars
<1>1. ASSUME NEW a \in Assets, Register(a) \/ Report(a) \/ FallSilent(a) \/ ComeBack(a)
      PROVE  OfflineIsAnnounced'
  BY <1>1 DEF Register, Report, FallSilent, ComeBack
<1>2. ASSUME NEW a \in Assets, HandleAlert(a) \/ Delete(a) PROVE OfflineIsAnnounced'
  BY <1>2 DEF HandleAlert, Delete, UserAct
<1>3. ASSUME NEW a \in Assets, NEW s \in EditedTo, SetStatus(a, s)
      PROVE  OfflineIsAnnounced'
  BY <1>3 DEF SetStatus, UserAct
<1>4. CASE Tick \/ Select \/ UNCHANGED vars
  BY <1>4 DEF Tick, Select, vars
<1>5. ASSUME NEW a \in Assets, Mark(a) PROVE OfflineIsAnnounced'
  BY <1>5 DEF Mark
<1>6. CASE CountAlerts
  BY <1>6 DEF CountAlerts, LeaveFor
<1>7. CASE InsertAlert
  BY <1>7 DEF InsertAlert, LeaveFor
<1>8. CASE Fail
  <2>1. faults' = faults + 1
    BY <1>8 DEF Fail, MarkFails, CountFails, InsertFails, TimeOut, Fault
  <2>2. faults \in Nat
    OBVIOUS
  <2>. QED BY <2>1, <2>2
<1>. QED BY <1>1, <1>2, <1>3, <1>4, <1>5, <1>6, <1>7, <1>8 DEF Next, Job

-----------------------------------------------------------------------------
\* Everything above, in every reachable state.
THEOREM AgentInvariant == Spec => []IInv
<1>1. IInv /\ [Next]_vars => IInv'
  BY NextTypeOK, NextOneAlert, NextWorking, NextAnnounced DEF IInv
<1>. QED BY <1>1, InitIInv, PTL DEF Spec

\* The type invariant holds in every behaviour.
THEOREM AgentTypeCorrect == Spec => []TypeOK
<1>1. IInv => TypeOK
  BY DEF IInv
<1>. QED BY <1>1, AgentInvariant, PTL

\* However reports, operators and failures fall between the job's statements,
\* an asset has at most one active offline alert per failed count, plus one.
THEOREM AgentOneAlert == Spec => []OneAlert
<1>1. IInv => OneAlert
  BY DEF IInv
<1>. QED BY <1>1, AgentInvariant, PTL

\* An agent that reports at least once per threshold is never marked offline.
THEOREM AgentWorkingStaysOnline == Spec => []WorkingStaysOnline
<1>1. IInv => WorkingStaysOnline
  BY DEF IInv
<1>. QED BY <1>1, AgentInvariant, PTL

\* While no statement has failed, no asset is offline without an alert.
THEOREM AgentOfflineIsAnnounced == Spec => []OfflineIsAnnounced
<1>1. IInv => OfflineIsAnnounced
  BY DEF IInv
<1>. QED BY <1>1, AgentInvariant, PTL
=============================================================================
