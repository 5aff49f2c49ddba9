---------------------------- MODULE ServiceCheck ----------------------------
(***************************************************************************)
(* The service checks of scheduler/service_check.go: every minute a run    *)
(* starts one goroutine per active check, at most Workers of them at a     *)
(* time; each probes its service, stores the result as a new row, compares *)
(* it with the row before the newest and raises or resolves an alert.      *)
(*                                                                         *)
(* The probes are bounded by the timeouts of the checks only, not by the   *)
(* context of the run, and cron does not wait for the previous run: runs   *)
(* may overlap.  Agents store results of the same checks                   *)
(* (handler/agent.go), without looking at alerts.                          *)
(***************************************************************************)
EXTENDS Naturals, FiniteSets

CONSTANTS
  Checks,       \* rows the service_checks table may get
  Runs,         \* runs that may be going on at the same time
  Workers,      \* serviceCheckConcurrency
  Verdicts,     \* what a probe or an agent may find
  Covers,       \* <<c, d>>: same asset, and the name of c occurs in d's title
  MaxChanges,   \* bound: how often services change
  MaxPosts,     \* bound: results posted by agents
  MaxUserActs,  \* bound: requests of operators
  MaxFaults     \* bound: statements that fail

ASSUME ServiceCheckAssumption ==
  /\ Workers \in Nat \ {0}
  /\ {"ok", "critical"} \subseteq Verdicts
  /\ "none" \notin Verdicts
  /\ Covers \subseteq Checks \X Checks
  /\ \A c \in Checks : <<c, c>> \in Covers
  /\ {MaxChanges, MaxPosts, MaxUserActs, MaxFaults} \subseteq Nat

VARIABLES
  service,   \* what a probe of the check would find now
  row,       \* whether the check exists, and its is_active
  newest,    \* status of its newest result ("none": no result yet)
  before,    \* status of the result before that one
  sawGood,   \* history: a stored result was not critical
  alerts,    \* active alerts of the check
  handled,   \* history: an operator dealt with its latest alert
  at,        \* the next step of the worker of a run for a check
  got,       \* what that worker's probe found
  changes, posts, userActs, faults   \* counters of the bounds

resultVars == <<newest, before, sawGood>>
alertVars  == <<alerts, handled>>
workVars   == <<at, got>>
bounds     == <<changes, posts, userActs, faults>>
vars       == <<service, row, resultVars, alertVars, workVars, bounds>>

-----------------------------------------------------------------------------
Init ==
  /\ service \in [Checks -> Verdicts]
  /\ row = [c \in Checks |-> "absent"]
  /\ newest = [c \in Checks |-> "none"]
  /\ before = [c \in Checks |-> "none"]
  /\ sawGood = [c \in Checks |-> FALSE]
  /\ alerts = [c \in Checks |-> 0]
  /\ handled = [c \in Checks |-> FALSE]
  /\ at = [r \in Runs |-> [c \in Checks |-> "none"]]
  /\ got = [r \in Runs |-> [c \in Checks |-> "none"]]
  /\ changes = 0
  /\ posts = 0
  /\ userActs = 0
  /\ faults = 0

\* A result is a row of its own, stamped with the time of its insertion.
AddResult(c, v) ==
  /\ newest' = [newest EXCEPT ![c] = v]
  /\ before' = [before EXCEPT ![c] = newest[c]]
  /\ sawGood' = [sawGood EXCEPT ![c] = @ \/ v # "critical"]

-----------------------------------------------------------------------------
(* A run.                                                                  *)

Idle(r) == \A c \in Checks : at[r][c] = "none"

\* Goroutines that hold a slot of the semaphore.
Busy(r) == {c \in Checks : at[r][c] \notin {"none", "queued"}}

Start(r) ==
  /\ Idle(r)
  /\ \E c \in Checks : row[c] = "on"
  /\ at' = [at EXCEPT ![r] =
              [c \in Checks |-> IF row[c] = "on" THEN "queued" ELSE "none"]]
  /\ UNCHANGED <<service, row, resultVars, alertVars, got, bounds>>

\* Faulty variant, for testing the properties: one slot too few.
LaunchFewer(r, c) ==
  /\ at[r][c] = "queued"
  /\ Cardinality(Busy(r)) < Workers - 1
  /\ at' = [at EXCEPT ![r][c] = "probe"]
  /\ UNCHANGED <<service, row, resultVars, alertVars, got, bounds>>

Launch(r, c) ==
  /\ at[r][c] = "queued"
  /\ Cardinality(Busy(r)) < Workers
  /\ at' = [at EXCEPT ![r][c] = "probe"]
  /\ UNCHANGED <<service, row, resultVars, alertVars, got, bounds>>

Probe(r, c) ==
  /\ at[r][c] = "probe"
  /\ got' = [got EXCEPT ![r][c] = service[c]]
  /\ at' = [at EXCEPT ![r][c] = "store"]
  /\ UNCHANGED <<service, row, resultVars, alertVars, bounds>>

Store(r, c) ==
  /\ at[r][c] = "store"
  /\ AddResult(c, got[r][c])
  /\ at' = [at EXCEPT ![r][c] = "compare"]
  /\ UNCHANGED <<service, row, alertVars, got, bounds>>

\* Faulty variant, for testing the properties: what the probe found is kept.
LeaveKeeps(r, c) ==
  /\ at' = [at EXCEPT ![r][c] = "none"]
  /\ UNCHANGED got

\* The worker ends and gives its slot back.
Leave(r, c) ==
  /\ at' = [at EXCEPT ![r][c] = "none"]
  /\ got' = [got EXCEPT ![r][c] = "none"]

\* Faulty variant, for testing the properties: every critical result raises.
ReactionEager(old, new) ==
  CASE old # "none" /\ new = "critical"        -> "raise"
    [] new = "ok" /\ old = "critical"          -> "resolve"
    [] OTHER                                   -> "none"

\* Faulty variant, for testing the properties: a recovery is taken for a good result.
ReactionSlow(old, new) ==
  IF old \notin {"none", new} /\ new = "critical" THEN "raise" ELSE "none"

\* What a worker has to do about alerts when the row before is old and its own
\* result is new.
Reaction(old, new) ==
  CASE old \notin {"none", new} /\ new = "critical" -> "raise"
    [] new = "ok" /\ old = "critical"               -> "resolve"
    [] OTHER                                        -> "none"

\* Faulty variant, for testing the properties: the newest row, its own, is compared.
CompareNewest(r, c) ==
  /\ at[r][c] = "compare"
  /\ LET todo == Reaction(newest[c], got[r][c])
     IN IF todo = "none"
          THEN Leave(r, c)
          ELSE at' = [at EXCEPT ![r][c] = todo] /\ UNCHANGED got
  /\ UNCHANGED <<service, row, resultVars, alertVars, bounds>>

Compare(r, c) ==
  /\ at[r][c] = "compare"
  /\ LET todo == Reaction(before[c], got[r][c])
     IN IF todo = "none"
          THEN Leave(r, c)
          ELSE at' = [at EXCEPT ![r][c] = todo] /\ UNCHANGED got
  /\ UNCHANGED <<service, row, resultVars, alertVars, bounds>>

Raise(r, c) ==
  /\ at[r][c] = "raise"
  /\ alerts' = [alerts EXCEPT ![c] = @ + 1]
  /\ handled' = [handled EXCEPT ![c] = FALSE]
  /\ Leave(r, c)
  /\ UNCHANGED <<service, row, resultVars, bounds>>

\* The UPDATE finds the alerts by the asset and by the check's name within the
\* title.
Resolve(r, c) ==
  /\ at[r][c] = "resolve"
  /\ alerts' = [d \in Checks |-> IF <<c, d>> \in Covers THEN 0 ELSE alerts[d]]
  /\ Leave(r, c)
  /\ UNCHANGED <<service, row, resultVars, handled, bounds>>

Fault == /\ faults < MaxFaults
         /\ faults' = faults + 1
         /\ UNCHANGED <<changes, posts, userActs>>

\* A result that cannot be stored is compared all the same.
StoreFails(r, c) ==
  /\ at[r][c] = "store"
  /\ Fault
  /\ at' = [at EXCEPT ![r][c] = "compare"]
  /\ UNCHANGED <<service, row, resultVars, alertVars, got>>

\* A read or a write of alerts that fails is not tried again.
AlertFails(r, c) ==
  /\ at[r][c] \in {"compare", "raise", "resolve"}
  /\ Fault
  /\ Leave(r, c)
  /\ UNCHANGED <<service, row, resultVars, alertVars>>

-----------------------------------------------------------------------------
(* Services, agents and operators.                                         *)

Change(c, v) ==
  /\ changes < MaxChanges
  /\ changes' = changes + 1
  /\ v # service[c]
  /\ service' = [service EXCEPT ![c] = v]
  /\ UNCHANGED <<row, resultVars, alertVars, workVars, posts, userActs, faults>>

AgentPost(c) ==
  /\ row[c] # "absent"
  /\ posts < MaxPosts
  /\ posts' = posts + 1
  /\ AddResult(c, service[c])
  /\ UNCHANGED <<service, row, alertVars, workVars, changes, userActs, faults>>

Create(c) ==
  /\ row[c] = "absent"
  /\ row' = [row EXCEPT ![c] = "on"]
  /\ UNCHANGED <<service, resultVars, alertVars, workVars, bounds>>

UserAct ==
  /\ userActs < MaxUserActs
  /\ userActs' = userActs + 1
  /\ UNCHANGED <<changes, posts, faults>>

\* Deleting a check only switches it off.
Delete(c) ==
  /\ row[c] = "on"
  /\ UserAct
  /\ row' = [row EXCEPT ![c] = "off"]
  /\ UNCHANGED <<service, resultVars, alertVars, workVars>>

\* Ack or resolve one of the active alerts.
HandleAlert(c) ==
  /\ alerts[c] > 0
  /\ UserAct
  /\ alerts' = [alerts EXCEPT ![c] = @ - 1]
  /\ handled' = [handled EXCEPT ![c] = TRUE]
  /\ UNCHANGED <<service, row, resultVars, workVars>>

-----------------------------------------------------------------------------
Work(r, c) == \/ Launch(r, c) \/ Probe(r, c) \/ Store(r, c)
              \/ Compare(r, c) \/ Raise(r, c) \/ Resolve(r, c)

Next ==
  \/ \E r \in Runs : Start(r)
  \/ \E r \in Runs, c \in Checks :
       Work(r, c) \/ StoreFails(r, c) \/ AlertFails(r, c)
  \/ \E c \in Checks :
       \/ \E v \in Verdicts : Change(c, v)
       \/ AgentPost(c) \/ Create(c) \/ Delete(c) \/ HandleAlert(c)

\* Cron keeps starting runs, and every goroutine goes on: probes time out, and
\* the semaphore serves whoever the run launches next.
Fairness == \A r \in Runs :
              /\ WF_vars(Start(r))
              /\ \A c \in Checks : WF_vars(Work(r, c))

Spec == Init /\ [][Next]_vars
FairSpec == Spec /\ Fairness

-----------------------------------------------------------------------------
Steps == {"none", "queued", "probe", "store", "compare", "raise", "resolve"}

TypeOK ==
  /\ service \in [Checks -> Verdicts]
  /\ row \in [Checks -> {"absent", "on", "off"}]
  /\ newest \in [Checks -> Verdicts \cup {"none"}]
  /\ before \in [Checks -> Verdicts \cup {"none"}]
  /\ sawGood \in [Checks -> BOOLEAN]
  /\ alerts \in [Checks -> Nat]
  /\ handled \in [Checks -> BOOLEAN]
  /\ at \in [Runs -> [Checks -> Steps]]
  /\ got \in [Runs -> [Checks -> Verdicts \cup {"none"}]]
  /\ \A r \in Runs, c \in Checks :
       got[r][c] = "none" <=> at[r][c] \in {"none", "queued", "probe"}
  /\ changes \in 0..MaxChanges
  /\ posts \in 0..MaxPosts
  /\ userActs \in 0..MaxUserActs
  /\ faults \in 0..MaxFaults

\* No worker of the check is between storing a result and acting on it.
Settled(c) ==
  \A r \in Runs : at[r][c] \in {"none", "queued", "probe", "store"}

\* "State transitions trigger alert creation or resolution": between two
\* results, a check has one active alert if its last result is critical and it
\* was good before, and none otherwise, unless an operator dealt with it.  This
\* holds while no statement has failed and no agent has stored a result.
Undisturbed == faults = 0 /\ posts = 0

AlertTracksState ==
  Undisturbed =>
    \A c \in Checks :
      Settled(c) /\ ~handled[c] =>
        alerts[c] = IF newest[c] = "critical" /\ sawGood[c] THEN 1 ELSE 0

\* The alert of a check whose service is well for good is resolved in the end.
GoodIsResolved ==
  \A c \in Checks :
    <>[](service[c] = "ok" /\ row[c] = "on" /\ Undisturbed) => <>[](alerts[c] = 0)

\* A check that was good and whose service is down for good has an alert in the
\* end, unless an operator dealt with it.
DownIsAlerted ==
  \A c \in Checks :
    <>[](/\ service[c] = "critical" /\ row[c] = "on"
         /\ sawGood[c] /\ ~handled[c] /\ Undisturbed)
      => <>[](alerts[c] > 0)

\* The wait for the workers ends: a queued check gets its slot, however the
\* others end, and a new run can start.
RunsEnd == \A r \in Runs : ~Idle(r) ~> Idle(r)
=============================================================================
