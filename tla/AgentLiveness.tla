--------------------------- MODULE AgentLiveness ---------------------------
(***************************************************************************)
(* Who is online: the reports that mark an asset online (registration,     *)
(* heartbeat, pushed metrics, polled metrics), the job that marks silent   *)
(* assets offline and raises their alert (scheduler/offline_check.go), and *)
(* the operators who edit assets and handle alerts.                        *)
(*                                                                         *)
(* The job runs every minute and gives up after 30 s, so two of its runs   *)
(* never overlap; it selects its targets in one statement and then updates *)
(* them one by one, while reports keep arriving.                           *)
(*                                                                         *)
(* Time is a clock of ticks, a tick being short against the threshold.     *)
(***************************************************************************)
EXTENDS Naturals, FiniteSets

CONSTANTS
  Assets,       \* rows the assets table may get
  Threshold,    \* agent_check_interval, in ticks
  ReportEvery,  \* a working agent reports at least every so many ticks
  MaxMoods,     \* bound: how often agents fall silent or come back
  MaxUserActs,  \* bound: requests of operators
  MaxFaults,    \* bound: statements that fail and runs that time out
  NoAsset       \* no asset in the job's hands

ASSUME AgentLivenessAssumption ==
  /\ Threshold \in Nat \ {0}
  /\ ReportEvery \in 1..Threshold
  /\ {MaxMoods, MaxUserActs, MaxFaults} \subseteq Nat
  /\ NoAsset \notin Assets

Late  == Threshold + 1      \* older than the threshold, by whatever margin
Never == Threshold + 2      \* last_seen IS NULL
Ages  == 0..Late

VARIABLES
  status,    \* assets.status ("absent": the row does not exist yet)
  lastSeen,  \* ticks since assets.last_seen, saturating at Late, or Never
  enabled,   \* assets.is_active
  agent,     \* whether the agent of the asset is reporting
  lapsed,    \* history: the agent has been silent at some time
  alerts,    \* active alerts of the asset with source 'offline_check'
  handled,   \* history: an operator dealt with an alert of the asset, or set
             \* its status, since the job last marked it offline
  pc,        \* the statement the job is about to execute
  targets,   \* assets it selected and has still to visit
  target,    \* the asset it is working on
  moods, userActs, faults   \* counters of the bounds

assetVars == <<status, lastSeen, enabled>>
jobVars   == <<pc, targets, target>>
vars      == <<assetVars, agent, lapsed, alerts, handled, jobVars,
               moods, userActs, faults>>

-----------------------------------------------------------------------------
Init ==
  /\ status = [a \in Assets |-> "absent"]
  /\ lastSeen = [a \in Assets |-> Never]
  /\ enabled = [a \in Assets |-> TRUE]
  /\ agent = [a \in Assets |-> "reporting"]
  /\ lapsed = [a \in Assets |-> FALSE]
  /\ alerts = [a \in Assets |-> 0]
  /\ handled = [a \in Assets |-> FALSE]
  /\ pc = "idle"
  /\ targets = {}
  /\ target = NoAsset
  /\ moods = 0
  /\ userActs = 0
  /\ faults = 0

-----------------------------------------------------------------------------
(* Agents.                                                                 *)

\* Register with a token not yet bound to an asset: the row is inserted as
\* online, without a last_seen.
Register(a) ==
  /\ status[a] = "absent"
  /\ agent[a] = "reporting"
  /\ status' = [status EXCEPT ![a] = "online"]
  /\ UNCHANGED <<lastSeen, enabled, agent, lapsed, alerts, handled, jobVars,
                 moods, userActs, faults>>

\* Faulty variant, for testing the properties: only last_seen is updated.
ReportKeepsStatus(a) ==
  /\ status[a] # "absent"
  /\ agent[a] = "reporting"
  /\ lastSeen' = [lastSeen EXCEPT ![a] = 0]
  /\ UNCHANGED <<status, enabled, agent, lapsed, alerts, handled, jobVars,
                 moods, userActs, faults>>

\* Heartbeat, pushed metrics, a successful poll, or registering again: one
\* UPDATE, which does not look at is_active.
Report(a) ==
  /\ status[a] # "absent"
  /\ agent[a] = "reporting"
  /\ status' = [status EXCEPT ![a] = "online"]
  /\ lastSeen' = [lastSeen EXCEPT ![a] = 0]
  /\ UNCHANGED <<enabled, agent, lapsed, alerts, handled, jobVars,
                 moods, userActs, faults>>

Mood == moods < MaxMoods /\ moods' = moods + 1

FallSilent(a) ==
  /\ Mood
  /\ agent[a] = "reporting"
  /\ agent' = [agent EXCEPT ![a] = "silent"]
  /\ lapsed' = [lapsed EXCEPT ![a] = TRUE]
  /\ UNCHANGED <<assetVars, alerts, handled, jobVars, userActs, faults>>

ComeBack(a) ==
  /\ Mood
  /\ agent[a] = "silent"
  /\ agent' = [agent EXCEPT ![a] = "reporting"]
  /\ UNCHANGED <<assetVars, lapsed, alerts, handled, jobVars, userActs, faults>>

\* Time passes; an agent that works has reported in time.
Overdue(a) ==
  /\ status[a] # "absent"
  /\ agent[a] = "reporting"
  /\ lastSeen[a] = Never \/ lastSeen[a] >= ReportEvery

Older(s) == IF s = Never \/ s = Late THEN s ELSE s + 1

Tick ==
  /\ ~\E a \in Assets : Overdue(a)
  /\ lastSeen' = [a \in Assets |-> Older(lastSeen[a])]
  /\ UNCHANGED <<status, enabled, agent, lapsed, alerts, handled, jobVars,
                 moods, userActs, faults>>

-----------------------------------------------------------------------------
(* The offline job.                                                        *)

\* Faulty variant, for testing the properties: no last_seen counts as an old one.
StaleOrNever(a) == lastSeen[a] > Threshold

Stale(a) == lastSeen[a] # Never /\ lastSeen[a] > Threshold

Select ==
  /\ pc = "idle"
  /\ targets' = {a \in Assets : status[a] = "online" /\ Stale(a) /\ enabled[a]}
  /\ pc' = IF targets' = {} THEN "idle" ELSE "mark"
  /\ UNCHANGED <<assetVars, agent, lapsed, alerts, handled, target,
                 moods, userActs, faults>>

\* After the last asset the run is over.
LeaveFor(rest) ==
  /\ targets' = rest
  /\ target' = NoAsset
  /\ pc' = IF rest = {} THEN "idle" ELSE "mark"

\* The UPDATE names the id only: what the asset has reported since the select
\* does not matter.
Mark(a) ==
  /\ pc = "mark"
  /\ a \in targets
  /\ status' = [status EXCEPT ![a] = "offline"]
  /\ handled' = [handled EXCEPT ![a] = FALSE]
  /\ targets' = targets \ {a}
  /\ target' = a
  /\ pc' = "count"
  /\ UNCHANGED <<lastSeen, enabled, agent, lapsed, alerts, moods, userActs, faults>>

\* Faulty variant, for testing the properties: the count is not asked for.
CountNothing ==
  /\ pc = "count"
  /\ pc' = "insert"
  /\ UNCHANGED <<assetVars, targets, target, agent, lapsed, alerts, handled,
                 moods, userActs, faults>>

\* Faulty variant, for testing the properties: the test of the count is inverted.
CountBackwards ==
  /\ pc = "count"
  /\ IF alerts[target] > 0
       THEN pc' = "insert" /\ UNCHANGED <<targets, target>>
       ELSE LeaveFor(targets)
  /\ UNCHANGED <<assetVars, agent, lapsed, alerts, handled, moods, userActs, faults>>

CountAlerts ==
  /\ pc = "count"
  /\ IF alerts[target] = 0
       THEN pc' = "insert" /\ UNCHANGED <<targets, target>>
       ELSE LeaveFor(targets)
  /\ UNCHANGED <<assetVars, agent, lapsed, alerts, handled, moods, userActs, faults>>

InsertAlert ==
  /\ pc = "insert"
  /\ alerts' = [alerts EXCEPT ![target] = @ + 1]
  /\ LeaveFor(targets)
  /\ UNCHANGED <<assetVars, agent, lapsed, handled, moods, userActs, faults>>

Fault == faults < MaxFaults /\ faults' = faults + 1

MarkFails(a) ==
  /\ pc = "mark"
  /\ a \in targets
  /\ Fault
  /\ LeaveFor(targets \ {a})
  /\ UNCHANGED <<assetVars, agent, lapsed, alerts, handled, moods, userActs>>

\* The error of the count is not looked at: it counts as no alert.
CountFails ==
  /\ pc = "count"
  /\ Fault
  /\ pc' = "insert"
  /\ UNCHANGED <<assetVars, agent, lapsed, alerts, handled, targets, target,
                 moods, userActs>>

InsertFails ==
  /\ pc = "insert"
  /\ Fault
  /\ LeaveFor(targets)
  /\ UNCHANGED <<assetVars, agent, lapsed, alerts, handled, moods, userActs>>

\* The 30 s context of the run expires: all that is left fails.
TimeOut ==
  /\ pc # "idle"
  /\ Fault
  /\ LeaveFor({})
  /\ UNCHANGED <<assetVars, agent, lapsed, alerts, handled, moods, userActs>>

-----------------------------------------------------------------------------
(* Operators.                                                              *)

UserAct(a) ==
  /\ userActs < MaxUserActs
  /\ userActs' = userActs + 1
  /\ handled' = [handled EXCEPT ![a] = TRUE]

\* Ack or resolve one of the asset's active alerts.
HandleAlert(a) ==
  /\ alerts[a] > 0
  /\ UserAct(a)
  /\ alerts' = [alerts EXCEPT ![a] = @ - 1]
  /\ UNCHANGED <<assetVars, agent, lapsed, jobVars, moods, faults>>

\* Assets.Update sets any status ("warning" stands for all that the job and the
\* reports do not know).
EditedTo == {"online", "offline", "warning"}

SetStatus(a, s) ==
  /\ status[a] # "absent"
  /\ UserAct(a)
  /\ status' = [status EXCEPT ![a] = s]
  /\ UNCHANGED <<lastSeen, enabled, agent, lapsed, alerts, jobVars, moods, faults>>

\* Assets.Delete only switches the asset off.
Delete(a) ==
  /\ status[a] # "absent"
  /\ UserAct(a)
  /\ enabled' = [enabled EXCEPT ![a] = FALSE]
  /\ UNCHANGED <<status, lastSeen, agent, lapsed, alerts, jobVars, moods, faults>>

-----------------------------------------------------------------------------
Job == \/ Select \/ CountAlerts \/ InsertAlert
       \/ \E a \in Assets : Mark(a)

Fail == \/ CountFails \/ InsertFails \/ TimeOut
        \/ \E a \in Assets : MarkFails(a)

Next ==
  \/ \E a \in Assets : \/ Register(a) \/ Report(a)
                       \/ FallSilent(a) \/ ComeBack(a)
                       \/ HandleAlert(a) \/ Delete(a)
                       \/ \E s \in EditedTo : SetStatus(a, s)
  \/ Tick
  \/ Job
  \/ Fail

\* A working agent keeps reporting, cron keeps starting the job and a run goes
\* on, and time passes.
Fairness == /\ \A a \in Assets : WF_vars(Report(a))
            /\ WF_vars(Job)
            /\ SF_vars(Tick)

Spec == Init /\ [][Next]_vars
FairSpec == Spec /\ Fairness

-----------------------------------------------------------------------------
TypeOK ==
  /\ status \in [Assets -> {"absent", "online", "offline", "warning"}]
  /\ lastSeen \in [Assets -> Ages \cup {Never}]
  /\ enabled \in [Assets -> BOOLEAN]
  /\ agent \in [Assets -> {"reporting", "silent"}]
  /\ lapsed \in [Assets -> BOOLEAN]
  /\ alerts \in [Assets -> Nat]
  /\ handled \in [Assets -> BOOLEAN]
  /\ pc \in {"idle", "mark", "count", "insert"}
  /\ targets \subseteq Assets
  /\ target \in Assets \cup {NoAsset}
  /\ pc \in {"count", "insert"} <=> target # NoAsset
  /\ moods \in 0..MaxMoods
  /\ userActs \in 0..MaxUserActs
  /\ faults \in 0..MaxFaults

\* An agent that reports in time is never taken for offline, however the job's
\* select and updates fall between its reports (an operator may still say so).
WorkingStaysOnline ==
  \A a \in Assets : ~lapsed[a] /\ ~handled[a] => status[a] # "offline"

\* An asset has at most one active offline alert, plus one for every count that
\* failed: the job counts before it inserts, and nobody else inserts.
OneAlert ==
  \A a \in Assets : alerts[a] <= 1 + faults

\* While the database answers, an asset the job has marked offline has an
\* active alert, unless an operator has dealt with it or the job is just about
\* to raise it.
OfflineIsAnnounced ==
  faults = 0 =>
    \A a \in Assets :
      status[a] = "offline" /\ target # a => alerts[a] > 0 \/ handled[a]

\* The status follows the agent in the end: one that has reported before and falls
\* silent for good does not stay online, one that comes back and keeps reporting is
\* online, whatever a run that selected it before still does to it.
StatusFollows ==
  \A a \in Assets :
    /\ <>[](agent[a] = "silent" /\ lastSeen[a] # Never /\ enabled[a])
         => <>[](status[a] # "online")
    /\ <>[](agent[a] = "reporting" /\ status[a] # "absent") => <>[](status[a] = "online")

\* "creates warning alerts for newly offline assets": a newly offline asset has
\* an active alert in the end, even if a statement of the run fails.
NewlyOfflineIsAlerted ==
  \A a \in Assets :
    <>[](status[a] = "offline" /\ ~handled[a]) => <>(alerts[a] > 0)
=============================================================================
