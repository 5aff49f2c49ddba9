----------------------------- MODULE AlertEval -----------------------------
(***************************************************************************)
(* The threshold-alert engine of the Go core                               *)
(* (internal/scheduler/alert_eval.go), together with everything that       *)
(* writes the same rows of the alerts table or changes what an evaluation  *)
(* reads: the operators' ack and resolve requests, the switching-off of    *)
(* rules, the deletion of assets, and the metrics that arrive.             *)
(*                                                                         *)
(* An evaluation is a cron job in a goroutine of its own.  It reads and    *)
(* writes the database statement by statement, without a transaction, so   *)
(* each statement is one action here and anything may happen between two   *)
(* of them.  cron starts a job whether or not the previous one has ended;  *)
(* Evals is the set of evaluations that may be running at a time.          *)
(*                                                                         *)
(* Time is a clock of ticks.  Only "was that at least Cooldown ago" is ever *)
(* asked, so each alert keeps the ticks since its fired_at, or since its   *)
(* resolved_at once it has one, saturating at Cooldown.                    *)
(***************************************************************************)
EXTENDS Naturals, FiniteSets

CONSTANTS
  Rules,       \* rows of alert_rules
  Assets,      \* rows of assets
  Pinned,      \* rules with an asset_id; the others watch all active assets
  PinnedTo,    \* PinnedTo[r]: the asset a pinned rule names
  Evals,       \* evaluations that may overlap
  Cooldown,    \* alert_cooldown_s, in ticks
  MaxAlerts,   \* bound: rows the alerts table may hold
  MaxChanges,  \* bound: changes of metrics, rules and assets
  MaxUserActs, \* bound: ack and resolve requests
  MaxFaults    \* bound: statements that fail and runs that time out

ASSUME AlertEvalAssumption ==
  /\ Pinned \subseteq Rules
  /\ PinnedTo \in [Pinned -> Assets]
  /\ IsFiniteSet(Evals)
  /\ Cooldown \in Nat \ {0}
  /\ {MaxAlerts, MaxChanges, MaxUserActs, MaxFaults} \subseteq Nat

Targets  == Rules \X Assets
NoTarget == <<>>
AlertIds == 1..MaxAlerts
NoId     == 0

\* The samples of a target's duration window: there are none, at least one is
\* within the limit, or all of them breach the threshold.
Window == {"none", "below", "all"}

VARIABLES
  ruleOn,   \* alert_rules.is_active
  assetOn,  \* assets.is_active, and not decommissioned
  window,   \* Window of every target
  status,   \* alerts.status ("none": the row does not exist yet)
  about,    \* alerts.(rule_id, asset_id)
  age,      \* ticks since alerts.fired_at, then since alerts.resolved_at
  touched,  \* history: an operator has acked or resolved the alert
  pc,       \* the statement an evaluation is about to execute
  rules,    \* rules an evaluation has still to visit
  todo,     \* targets of the current rule it has still to visit
  target,   \* the target it is working on
  seen,     \* the window it read for that target
  found,    \* the active alert it found for that target, or NoId
  overlapped, \* history: an evaluation started while another one was running
  changes, userActs, faults   \* counters of the bounds

world  == <<ruleOn, assetOn, window, changes>>
table  == <<status, about, age, touched>>
run    == <<pc, rules, todo, target, seen, found, overlapped>>
vars   == <<world, table, run, userActs, faults>>

Active(t) == {i \in AlertIds : about[i] = t /\ status[i] = "active"}
Open(t)   == {i \in AlertIds : about[i] = t /\ status[i] \in {"active", "acked"}}

\* An asset id a rule is evaluated for: a pinned rule does not ask whether its
\* asset is still active.
AssetsOf(r) == IF r \in Pinned THEN {PinnedTo[r]} ELSE {a \in Assets : assetOn[a]}
Watched(t)  == ruleOn[t[1]] /\ t[2] \in AssetsOf(t[1])

\* Faulty variant, for testing the properties: one breaching sample would do.
TriggeredBySome(w) == w # "none"

Triggered(w) == w = "all"

-----------------------------------------------------------------------------
Init ==
  /\ ruleOn = [r \in Rules |-> TRUE]
  /\ assetOn = [a \in Assets |-> TRUE]
  /\ window \in [Targets -> Window]
  /\ status = [i \in AlertIds |-> "none"]
  /\ about = [i \in AlertIds |-> NoTarget]
  /\ age = [i \in AlertIds |-> 0]
  /\ touched = [i \in AlertIds |-> FALSE]
  /\ pc = [e \in Evals |-> "idle"]
  /\ rules = [e \in Evals |-> {}]
  /\ todo = [e \in Evals |-> {}]
  /\ target = [e \in Evals |-> NoTarget]
  /\ seen = [e \in Evals |-> "none"]
  /\ found = [e \in Evals |-> NoId]
  /\ overlapped = FALSE
  /\ changes = 0
  /\ userActs = 0
  /\ faults = 0

-----------------------------------------------------------------------------
(* One evaluation.                                                         *)

Fault == faults < MaxFaults /\ faults' = faults + 1

\* The job starts: load the active rules.
Start(e) ==
  /\ pc[e] = "idle"
  /\ pc' = [pc EXCEPT ![e] = "next"]
  /\ rules' = [rules EXCEPT ![e] = {r \in Rules : ruleOn[r]}]
  /\ overlapped' = (overlapped \/ \E d \in Evals \ {e} : pc[d] # "idle")
  /\ UNCHANGED <<world, table, todo, target, seen, found, userActs, faults>>

\* evaluateRule: list the assets of the next rule.
BeginRule(e, r) ==
  /\ pc[e] = "next"
  /\ todo[e] = {}
  /\ r \in rules[e]
  /\ rules' = [rules EXCEPT ![e] = @ \ {r}]
  /\ todo' = [todo EXCEPT ![e] = {r} \X AssetsOf(r)]
  /\ UNCHANGED <<world, table, pc, target, seen, found, overlapped, userActs, faults>>

\* The assets cannot be listed: the rule is skipped.
BeginRuleFails(e, r) ==
  /\ pc[e] = "next"
  /\ todo[e] = {}
  /\ r \in rules[e] \ Pinned
  /\ Fault
  /\ rules' = [rules EXCEPT ![e] = @ \ {r}]
  /\ UNCHANGED <<world, table, pc, todo, target, seen, found, overlapped, userActs>>

\* Count the samples in the window of the next asset.
Count(e, t) ==
  /\ pc[e] = "next"
  /\ t \in todo[e]
  /\ todo' = [todo EXCEPT ![e] = @ \ {t}]
  /\ target' = [target EXCEPT ![e] = t]
  /\ seen' = [seen EXCEPT ![e] = window[t]]
  /\ pc' = [pc EXCEPT ![e] = "lookup"]
  /\ UNCHANGED <<world, table, rules, found, overlapped, userActs, faults>>

\* Go on with the next asset; what was read for this one is forgotten.
NextTarget(e) ==
  /\ pc' = [pc EXCEPT ![e] = "next"]
  /\ target' = [target EXCEPT ![e] = NoTarget]
  /\ seen' = [seen EXCEPT ![e] = "none"]
  /\ found' = [found EXCEPT ![e] = NoId]

GoTo(e, l) ==
  /\ pc' = [pc EXCEPT ![e] = l]
  /\ UNCHANGED <<target, seen, found>>

\* What follows a lookup that found no active alert.
NoneFound(e) ==
  IF Triggered(seen[e]) THEN GoTo(e, "cooldown") ELSE NextTarget(e)

\* Faulty variant, for testing the properties: an active alert is no reason not to fire.
LookupBlind(e) ==
  /\ pc[e] = "lookup"
  /\ NoneFound(e)
  /\ UNCHANGED <<world, table, rules, todo, overlapped, userActs, faults>>

\* Look for an active alert of the target.
Lookup(e) ==
  /\ pc[e] = "lookup"
  /\ \/ /\ Active(target[e]) = {}
        /\ NoneFound(e)
     \/ \E i \in Active(target[e]) :
          IF Triggered(seen[e])
            THEN NextTarget(e)
            ELSE /\ found' = [found EXCEPT ![e] = i]
                 /\ pc' = [pc EXCEPT ![e] = "resolve"]
                 /\ UNCHANGED <<target, seen>>
  /\ UNCHANGED <<world, table, rules, todo, overlapped, userActs, faults>>

\* The query fails: any error counts as "no active alert".
LookupFails(e) ==
  /\ pc[e] = "lookup"
  /\ Fault
  /\ NoneFound(e)
  /\ UNCHANGED <<world, table, rules, todo, overlapped, userActs>>

\* Faulty variant, for testing the properties: off by one tick.
CoolingDownShort(t) ==
  \E i \in AlertIds : about[i] = t /\ status[i] = "resolved" /\ age[i] < Cooldown - 1

\* Faulty variant, for testing the properties: the age of the alert does not count.
CoolingDownForever(t) ==
  \E i \in AlertIds : about[i] = t /\ status[i] = "resolved"

CoolingDown(t) ==
  \E i \in AlertIds : about[i] = t /\ status[i] = "resolved" /\ age[i] < Cooldown

\* Ask how long ago the last resolved alert of the target was resolved.
CheckCooldown(e) ==
  /\ pc[e] = "cooldown"
  /\ IF CoolingDown(target[e]) THEN NextTarget(e) ELSE GoTo(e, "insert")
  /\ UNCHANGED <<world, table, rules, todo, overlapped, userActs, faults>>

\* The query fails: any error counts as "never resolved".
CheckCooldownFails(e) ==
  /\ pc[e] = "cooldown"
  /\ Fault
  /\ GoTo(e, "insert")
  /\ UNCHANGED <<world, table, rules, todo, overlapped, userActs>>

NextId(i) == status[i] = "none" /\ \A j \in 1..(i-1) : status[j] # "none"

Insert(e) ==
  /\ pc[e] = "insert"
  /\ \E i \in AlertIds :
       /\ NextId(i)
       /\ status' = [status EXCEPT ![i] = "active"]
       /\ about' = [about EXCEPT ![i] = target[e]]
  /\ NextTarget(e)
  /\ UNCHANGED <<world, age, touched, rules, todo, overlapped, userActs, faults>>

\* Resolve the alert found, whatever its status has become meanwhile.
Resolve(e) ==
  /\ pc[e] = "resolve"
  /\ status' = [status EXCEPT ![found[e]] = "resolved"]
  /\ age' = [age EXCEPT ![found[e]] = 0]
  /\ NextTarget(e)
  /\ UNCHANGED <<world, about, touched, rules, todo, overlapped, userActs, faults>>

\* The insert or the update fails: it is logged, and the loop goes on.
WriteFails(e) ==
  /\ pc[e] \in {"insert", "resolve"}
  /\ Fault
  /\ NextTarget(e)
  /\ UNCHANGED <<world, table, rules, todo, overlapped, userActs>>

\* The count fails: the asset is skipped.
CountFails(e, t) ==
  /\ pc[e] = "next"
  /\ t \in todo[e]
  /\ Fault
  /\ todo' = [todo EXCEPT ![e] = @ \ {t}]
  /\ UNCHANGED <<world, table, pc, rules, target, seen, found, overlapped, userActs>>

\* The last rule is done.
Finish(e) ==
  /\ pc[e] = "next"
  /\ rules[e] = {} /\ todo[e] = {}
  /\ GoTo(e, "idle")
  /\ UNCHANGED <<world, table, rules, todo, overlapped, userActs, faults>>

\* The 60 s context of the run expires: every statement left fails.
TimeOut(e) ==
  /\ pc[e] # "idle"
  /\ Fault
  /\ pc' = [pc EXCEPT ![e] = "idle"]
  /\ target' = [target EXCEPT ![e] = NoTarget]
  /\ seen' = [seen EXCEPT ![e] = "none"]
  /\ found' = [found EXCEPT ![e] = NoId]
  /\ rules' = [rules EXCEPT ![e] = {}]
  /\ todo' = [todo EXCEPT ![e] = {}]
  /\ UNCHANGED <<world, table, overlapped, userActs>>

-----------------------------------------------------------------------------
(* Operators: neither update looks at the status the alert has.            *)

UserAct(i) ==
  /\ status[i] # "none"
  /\ userActs < MaxUserActs
  /\ userActs' = userActs + 1
  /\ touched' = [touched EXCEPT ![i] = TRUE]

Ack(i) ==
  /\ UserAct(i)
  /\ status' = [status EXCEPT ![i] = "acked"]
  /\ UNCHANGED <<world, about, age, run, faults>>

ResolveByUser(i) ==
  /\ UserAct(i)
  /\ status' = [status EXCEPT ![i] = "resolved"]
  /\ age' = [age EXCEPT ![i] = 0]
  /\ UNCHANGED <<world, about, run, faults>>

-----------------------------------------------------------------------------
(* What evaluations read, and the clock.                                   *)

Change == changes < MaxChanges /\ changes' = changes + 1

\* Samples are ingested for a target, or leave its window.
Sample(t, w) ==
  /\ Change
  /\ window' = [window EXCEPT ![t] = w]
  /\ UNCHANGED <<ruleOn, assetOn, table, run, userActs, faults>>

SwitchRule(r) ==
  /\ Change
  /\ ruleOn' = [ruleOn EXCEPT ![r] = ~@]
  /\ UNCHANGED <<assetOn, window, table, run, userActs, faults>>

\* An asset is deleted, decommissioned, or put back into service.
SwitchAsset(a) ==
  /\ Change
  /\ assetOn' = [assetOn EXCEPT ![a] = ~@]
  /\ UNCHANGED <<ruleOn, window, table, run, userActs, faults>>

Tick ==
  /\ age' = [i \in AlertIds |-> IF status[i] # "none" /\ age[i] < Cooldown
                                  THEN age[i] + 1 ELSE age[i]]
  /\ UNCHANGED <<world, status, about, touched, run, userActs, faults>>

-----------------------------------------------------------------------------
Evaluate(e) ==
  \/ Start(e) \/ Finish(e)
  \/ \E r \in Rules : BeginRule(e, r)
  \/ \E t \in Targets : Count(e, t)
  \/ Lookup(e) \/ CheckCooldown(e) \/ Insert(e) \/ Resolve(e)

Fail(e) ==
  \/ LookupFails(e) \/ CheckCooldownFails(e) \/ WriteFails(e) \/ TimeOut(e)
  \/ \E r \in Rules : BeginRuleFails(e, r)
  \/ \E t \in Targets : CountFails(e, t)

Next ==
  \/ \E e \in Evals : Evaluate(e) \/ Fail(e)
  \/ \E i \in AlertIds : Ack(i) \/ ResolveByUser(i)
  \/ \E t \in Targets, w \in Window : Sample(t, w)
  \/ \E r \in Rules : SwitchRule(r)
  \/ \E a \in Assets : SwitchAsset(a)
  \/ Tick

\* cron starts a run every minute for as long as the server runs, a run goes
\* on from statement to statement, and time passes.
Fairness == /\ \A e \in Evals : WF_vars(Evaluate(e))
            /\ WF_vars(Tick)

Spec == Init /\ [][Next]_vars
FairSpec == Spec /\ Fairness

-----------------------------------------------------------------------------
TypeOK ==
  /\ ruleOn \in [Rules -> BOOLEAN]
  /\ assetOn \in [Assets -> BOOLEAN]
  /\ window \in [Targets -> Window]
  /\ status \in [AlertIds -> {"none", "active", "acked", "resolved"}]
  /\ about \in [AlertIds -> Targets \cup {NoTarget}]
  /\ \A i \in AlertIds : status[i] = "none" <=> about[i] = NoTarget
  /\ age \in [AlertIds -> 0..Cooldown]
  /\ touched \in [AlertIds -> BOOLEAN]
  /\ pc \in [Evals -> {"idle", "next", "lookup", "cooldown", "insert", "resolve"}]
  /\ rules \in [Evals -> SUBSET Rules]
  /\ todo \in [Evals -> SUBSET Targets]
  /\ target \in [Evals -> Targets \cup {NoTarget}]
  /\ \A e \in Evals : pc[e] \in {"lookup", "cooldown", "insert", "resolve"}
                        <=> target[e] # NoTarget
  /\ seen \in [Evals -> Window]
  /\ found \in [Evals -> AlertIds \cup {NoId}]
  /\ \A e \in Evals : pc[e] = "resolve" => /\ found[e] \in AlertIds
                                           /\ about[found[e]] = target[e]
  /\ overlapped \in BOOLEAN
  /\ changes \in 0..MaxChanges
  /\ userActs \in 0..MaxUserActs
  /\ faults \in 0..MaxFaults

\* Evaluations that have decided that t has no active alert and may insert one.
Deciding(t) == {e \in Evals : target[e] = t /\ pc[e] \in {"cooldown", "insert"}}

\* The lookup before the insert is not atomic with it, and no constraint of the
\* table backs it up.  What it still guarantees: a target never has more active
\* alerts than there are overlapping evaluations, plus one for every lookup
\* that failed.  With one evaluation and a sound database that is at most one.
DuplicatesBounded ==
  \A t \in Targets :
    Cardinality(Active(t)) + Cardinality(Deciding(t)) <= Cardinality(Evals) + faults

\* As long as no evaluations have overlapped and the database has answered, a
\* target is not alerted again until Cooldown after its last alert was
\* resolved, unless an operator has handled one of its alerts.
Fires(i) == status[i] = "none" /\ status'[i] = "active"
QuietPeriod ==
  [][~overlapped /\ faults = 0 =>
       \A i \in AlertIds : Fires(i) =>
         \A j \in AlertIds : about[j] = about'[i] /\ ~touched[j] =>
           status[j] = "resolved" /\ age[j] = Cooldown]_vars

\* A target that stays watched and stays within its limits ends up without an
\* active alert, even if it had several.
RecoveredIsResolved ==
  \A t \in Targets :
    <>[](Watched(t) /\ window[t] = "below") => <>[](Active(t) = {})

\* A target that stays watched and keeps breaching ends up with an alert that
\* somebody can see: a cooldown, an operator who resolved it too early, or a
\* run that died half way only delay it.
BreachIsAlerted ==
  \A t \in Targets :
    <>[](Watched(t) /\ window[t] = "all") => <>[](Open(t) # {})

\* "time to wait before sending the same alert again": a target is not alerted
\* while an alert of it that is still open was sent less than Cooldown ago.
SameAlertWaits ==
  [][\A i \in AlertIds : Fires(i) =>
       \A j \in AlertIds : j \in Open(about'[i]) => age[j] = Cooldown]_vars
=============================================================================
