------------------------------ MODULE RuleDesk ------------------------------
(***************************************************************************)
(* Threshold alerts: runAlertEvaluation of lib/alert-engine.ts, which cron *)
(* starts every minute without waiting for the last run, sendAlert of      *)
(* lib/notify.ts, api/alerts/rules and api/alerts with their pages.        *)
(***************************************************************************)
EXTENDS Desk

CONSTANTS
  RuleIds, NoticeIds,  \* ids the tables may hand out, numbers
  Gauges,              \* assets with metrics
  KindOf(_), Types,   \* their types, and the types a rule can be limited to
  Readings, Levels,    \* values of a metric, and thresholds, numbers
  ChannelSets,         \* sets of channels a rule may be given
  Evals                \* bound: evaluations in work at the same time, numbers

Pairs == RuleIds \X Gauges
Notices == [pair : Pairs, status : {"active", "acked", "resolved"}, recent : BOOLEAN,
            sent : SUBSET [by : {"slack", "email", "webhook"}, ok : BOOLEAN]]

ASSUME RuleAssumption ==
  /\ Nil \notin Notices
  /\ UNION {RuleIds, NoticeIds, Evals, Readings, Levels} \subseteq Int
  /\ \E x \in Levels : \A y \in Levels : y <= x
  /\ IsFiniteSet(NoticeIds) /\ IsFiniteSet(Evals)
  /\ {"slack"} \in ChannelSets /\ ChannelSets \subseteq SUBSET {"slack", "email", "webhook"}

VARIABLES
  rule,       \* alert_rules: the row, or Nil
  reading,    \* metrics: the latest value of the last five minutes, or Nil
  notice,     \* alerts of rules: the row with its notifications, or Nil
  eval,       \* the evaluation in work in a slot
  rulePage,   \* the rules page: rows shown, and the row in the form
  alertPage,  \* the alerts page: rows shown, filter and selection
  doubled     \* history: looks of one evaluation between another's look and insert

ruleVars == <<rule, reading, notice, eval, rulePage, alertPage, doubled>>

NoEval == [at |-> "idle", todo |-> {}, pair |-> Nil, via |-> {}, id |-> Nil]
LowestId(S, x) == x \in S /\ \A y \in S : x <= y
RuleRows == [asset : Gauges \cup {Nil}, kind : Types \cup {Nil}, op : {">", "<="},
             level : Levels, via : ChannelSets, active : {TRUE}]

\* The form starts as a rule for all assets, over the highest threshold, to Slack.
EmptyRule == [asset |-> Nil, kind |-> Nil, op |-> ">", via |-> {"slack"}, active |-> TRUE,
              level |-> CHOOSE x \in Levels : \A y \in Levels : y <= x]

\* One rule is there, and may have raised an alert; the pages have just loaded.
RuleInit ==
  /\ rule = [r \in RuleIds |-> IF LowestId(RuleIds, r) THEN EmptyRule ELSE Nil]
  /\ reading = [g \in Gauges |-> Nil]
  /\ \E old \in SUBSET {n \in NoticeIds : LowestId(NoticeIds, n)}, p \in Pairs :
       /\ LowestId(RuleIds, p[1])
       /\ notice = [n \in NoticeIds |->
            IF n \in old THEN [pair |-> p, status |-> "active", recent |-> TRUE, sent |-> {}] ELSE Nil]
  /\ eval = [e \in Evals |-> NoEval]
  /\ rulePage = [shown |-> rule, form |-> Nil, id |-> Nil]
  /\ alertPage = [shown |-> [n \in NoticeIds |-> IF notice[n] = Nil THEN Nil ELSE "active"],
                  status |-> "active", picked |-> {}]
  /\ doubled = [p \in Pairs |-> 0]

-----------------------------------------------------------------------------
(* runAlertEvaluation                                                      *)

KeepsPages == UNCHANGED <<rulePage, alertPage>>

\* A sample arrives, or the last one is five minutes old.
Measure(g, v) ==
  /\ Act
  /\ reading[g] # v
  /\ reading' = [reading EXCEPT ![g] = v]
  /\ UNCHANGED <<rule, notice, eval, doubled>> /\ KeepsPages

\* alert_cooldown_s passes.
CooldownPasses(n) ==
  /\ Act
  /\ notice[n] # Nil /\ notice[n].recent
  /\ notice' = [notice EXCEPT ![n].recent = FALSE]
  /\ UNCHANGED <<rule, reading, eval, doubled>> /\ KeepsPages

Fires(row, v) == IF row.op = ">" THEN v > row.level ELSE v <= row.level

\* The rule's asset, or all assets of its type, or all; the time a rule asks a
\* breach to last is not looked at.
Targets(row) == {g \in Gauges : IF row.asset # Nil THEN g = row.asset
                                ELSE row.kind \in {Nil, KindOf(g)}}

Due == {p \in Pairs : /\ rule[p[1]] # Nil /\ rule[p[1]].active
                      /\ p[2] \in Targets(rule[p[1]]) /\ reading[p[2]] # Nil
                      /\ Fires(rule[p[1]], reading[p[2]])}

\* The rules with their channels, and the metrics, are read once; of what a run
\* does with them only the pairs that are over the threshold are kept here.
StartEval(e) ==
  /\ LowestId({x \in Evals : eval[x].at = "idle"}, e)
  /\ Due # {}
  /\ eval' = [eval EXCEPT ![e] = [NoEval EXCEPT !.at = "look",
                !.todo = {[pair |-> p, via |-> rule[p[1]].via] : p \in Due}]]
  /\ UNCHANGED <<rule, reading, notice, doubled>> /\ KeepsPages
  /\ UNCHANGED deskVars

Recent(n, p) == /\ notice[n] # Nil /\ notice[n].pair = p
                /\ notice[n].status = "active" /\ notice[n].recent

\* Faulty variant, for testing the properties: the comparison with the cooldown is
\* turned around.
LookOlder(p) == \E n \in NoticeIds :
  notice[n] # Nil /\ notice[n].pair = p /\ notice[n].status = "active" /\ ~notice[n].recent

LookRecent(p) == \E n \in NoticeIds : Recent(n, p)

TakePair(e) ==
  /\ eval[e].at = "look"
  /\ \E t \in eval[e].todo :
       LET fires == ~LookRecent(t.pair)
           rival == \E x \in Evals \ {e} : eval[x].at = "insert" /\ eval[x].pair = t.pair IN
       /\ eval' = [eval EXCEPT ![e] = IF fires
            THEN [eval[e] EXCEPT !.at = "insert", !.todo = @ \ {t}, !.pair = t.pair, !.via = t.via]
            ELSE [eval[e] EXCEPT !.todo = @ \ {t}]]
       /\ doubled' = [doubled EXCEPT ![t.pair] = IF fires /\ rival THEN @ + 1 ELSE @]
  /\ UNCHANGED <<rule, reading, notice>> /\ KeepsPages
  /\ UNCHANGED deskVars

\* A rule without channels goes to Slack.
Channels(via) == IF via = {} THEN {"slack"} ELSE via

\* The alert refers to its rule: when that is gone the insert fails and ends the run.
InsertNotice(e) ==
  /\ eval[e].at = "insert"
  /\ IF rule[eval[e].pair[1]] = Nil
       THEN eval' = [eval EXCEPT ![e] = NoEval] /\ UNCHANGED notice
       ELSE \E n \in NoticeIds :
              /\ LowestId({x \in NoticeIds : notice[x] = Nil}, n)
              /\ notice' = [notice EXCEPT ![n] = [pair |-> eval[e].pair, status |-> "active",
                                                  recent |-> TRUE, sent |-> {}]]
              /\ eval' = [eval EXCEPT ![e].at = "send", ![e].id = n,
                                      ![e].via = Channels(eval[e].via)]
  /\ UNCHANGED <<rule, reading, doubled>> /\ KeepsPages
  /\ UNCHANGED deskVars

\* sendAlert, one channel after the other.  Slack may be sent or fail; there are no
\* recipients for the mail, and webhook has no sender: both are noted as failed.
Notify(e, channel, ok) ==
  /\ eval[e].at = "send"
  /\ channel \in eval[e].via
  /\ ok => channel = "slack"
  /\ notice' = [notice EXCEPT ![eval[e].id].sent = @ \cup {[by |-> channel, ok |-> ok]}]
  /\ eval' = [eval EXCEPT ![e].via = @ \ {channel}]
  /\ UNCHANGED <<rule, reading, doubled>> /\ KeepsPages
  /\ UNCHANGED deskVars

NextPair(e) ==
  /\ \/ eval[e].at = "send" /\ eval[e].via = {}
     \/ eval[e].at = "look" /\ eval[e].todo = {}
  /\ eval' = [eval EXCEPT ![e] = IF eval[e].todo = {} THEN NoEval
                                 ELSE [NoEval EXCEPT !.at = "look", !.todo = eval[e].todo]]
  /\ UNCHANGED <<rule, reading, notice, doubled>> /\ KeepsPages
  /\ UNCHANGED deskVars

\* A statement fails: the catch around the run ends it.
EvalFails(e) ==
  /\ Act
  /\ eval[e].at # "idle"
  /\ eval' = [eval EXCEPT ![e] = NoEval]
  /\ UNCHANGED <<rule, reading, notice, doubled>> /\ KeepsPages

-----------------------------------------------------------------------------
(* The rules page and its route.  The page loads after every change.       *)

KeepsEval == UNCHANGED <<reading, notice, eval, alertPage, doubled>>
RulePage(form, id) == rulePage' = [shown |-> rule', form |-> form, id |-> id]

RuleRefresh ==
  /\ Act
  /\ UNCHANGED rule
  /\ RulePage(rulePage.form, rulePage.id)
  /\ KeepsEval

\* The form opens empty, or with a row as the page shows it.
EditRule(r) ==
  /\ Act
  /\ rulePage.form = Nil
  /\ r = Nil \/ r \in {x \in RuleIds : rulePage.shown[x] # Nil}
  /\ rulePage' = [rulePage EXCEPT !.form = IF r = Nil THEN EmptyRule ELSE rulePage.shown[r],
                                  !.id = r]
  /\ UNCHANGED rule /\ KeepsEval

CancelRule ==
  /\ Act
  /\ rulePage.form # Nil
  /\ rulePage' = [rulePage EXCEPT !.form = Nil, !.id = Nil]
  /\ UNCHANGED rule /\ KeepsEval

\* The form offers the fields below; the asset of a rule and whether it is active
\* stay what they were.
Inputs(form) ==
  {[form EXCEPT !.kind = k, !.op = o, !.level = l, !.via = v] :
     k \in Types \cup {Nil}, o \in {">", "<="}, l \in Levels, v \in ChannelSets}

\* POST inserts an active rule; PUT writes all fields of the form over the row, if it
\* is still there.
SaveRule(row) ==
  LET r == rulePage.id IN
  /\ Act
  /\ rulePage.form # Nil
  /\ row \in Inputs(rulePage.form)
  /\ \/ /\ r = Nil
        /\ \E x \in RuleIds : /\ LowestId({y \in RuleIds : rule[y] = Nil}, x)
                              /\ rule' = [rule EXCEPT ![x] = row]
     \/ /\ r # Nil
        /\ rule' = [rule EXCEPT ![r] =
             IF @ = Nil THEN Nil ELSE [row EXCEPT !.active = rule[r].active]]
  /\ RulePage(Nil, Nil)
  /\ KeepsEval

\* The switch writes the opposite of what the page shows.
ToggleRule(r) ==
  /\ Act
  /\ rulePage.form = Nil /\ rulePage.shown[r] # Nil
  /\ rule' = [rule EXCEPT ![r] =
       IF @ = Nil THEN Nil ELSE [@ EXCEPT !.active = ~rulePage.shown[r].active]]
  /\ RulePage(Nil, Nil)
  /\ KeepsEval

\* A rule that has raised an alert cannot be deleted: the foreign key of alerts holds
\* it, and the page loads as if nothing had happened.
DeleteRule(r) ==
  /\ Act
  /\ rulePage.form = Nil /\ rulePage.shown[r] # Nil
  /\ rule' = [rule EXCEPT ![r] =
       IF \E n \in NoticeIds : notice[n] # Nil /\ notice[n].pair[1] = r THEN @ ELSE Nil]
  /\ RulePage(Nil, Nil)
  /\ KeepsEval

-----------------------------------------------------------------------------
(* The alerts page and its route.                                          *)

KeepsRules == UNCHANGED <<rule, reading, eval, rulePage, doubled>>

\* GET: no filter means the active ones.
AlertList(status) ==
  [n \in NoticeIds |-> IF notice'[n] # Nil /\ notice'[n].status =
                            (IF status = "" THEN "active" ELSE status)
                         THEN notice'[n].status ELSE Nil]
AlertPage(status, picked) ==
  alertPage' = [shown |-> AlertList(status), status |-> status, picked |-> picked]

\* A new filter loads, and the selection stays.
FilterAlerts(status) ==
  /\ Act
  /\ UNCHANGED notice
  /\ AlertPage(status, alertPage.picked)
  /\ KeepsRules

ShownAlerts == {n \in NoticeIds : alertPage.shown[n] # Nil}

PickAlert(n) ==
  /\ Act
  /\ n \in ShownAlerts
  /\ alertPage' = [alertPage EXCEPT !.picked = (@ \ {n}) \cup ({n} \ @)]
  /\ UNCHANGED notice /\ KeepsRules

\* The box of the header compares sizes only.
PickAll ==
  /\ Act
  /\ alertPage' = [alertPage EXCEPT !.picked =
       IF Cardinality(@) = Cardinality(ShownAlerts) THEN {} ELSE ShownAlerts]
  /\ UNCHANGED notice /\ KeepsRules

\* POST: an active alert can be acknowledged, an active or acknowledged one resolved.
Handled(row, action) ==
  CASE action = "ack" /\ row.status = "active" -> [row EXCEPT !.status = "acked"]
    [] action = "resolve" -> [row EXCEPT !.status = "resolved"]
    [] OTHER -> row

SingleAction(n, action) ==
  /\ Act
  /\ n \in ShownAlerts
  /\ alertPage.shown[n] \in (IF action = "ack" THEN {"active"} ELSE {"active", "acked"})
  /\ notice' = [notice EXCEPT ![n] = Handled(@, action)]
  /\ AlertPage(alertPage.status, alertPage.picked)
  /\ KeepsRules

\* One request for each alert of the selection, shown or not.
BulkAction(action) ==
  /\ Act
  /\ alertPage.picked # {}
  /\ notice' = [n \in NoticeIds |-> IF n \in alertPage.picked
                                      THEN Handled(notice[n], action) ELSE notice[n]]
  /\ AlertPage(alertPage.status, {})
  /\ KeepsRules

-----------------------------------------------------------------------------
EvalStep(e) ==
  \/ StartEval(e) \/ TakePair(e) \/ InsertNotice(e) \/ NextPair(e)
  \/ \E channel \in {"slack", "email", "webhook"}, ok \in BOOLEAN : Notify(e, channel, ok)

RulePageNext ==
  \/ RuleRefresh \/ CancelRule
  \/ \E r \in RuleIds \cup {Nil} : EditRule(r)
  \/ \E row \in RuleRows : SaveRule(row)
  \/ \E r \in RuleIds : ToggleRule(r) \/ DeleteRule(r)

AlertPageNext ==
  \/ PickAll
  \/ \E status \in {"active", "acked", "resolved", ""} : FilterAlerts(status)
  \/ \E n \in NoticeIds : \/ PickAlert(n)
                          \/ \E a \in {"ack", "resolve"} : SingleAction(n, a)
  \/ \E a \in {"ack", "resolve"} : BulkAction(a)

\* Evaluations run while somebody is at one of the two pages.
RuleNext ==
  \/ \E g \in Gauges, v \in Readings \cup {Nil} : Measure(g, v)
  \/ \E n \in NoticeIds : CooldownPasses(n)
  \/ \E e \in Evals : EvalStep(e) \/ EvalFails(e)
  \/ desk = "rules" /\ RulePageNext
  \/ desk = "alerts" /\ AlertPageNext

RuleSpec == DeskInit /\ RuleInit /\ [][RuleNext]_<<ruleVars, deskVars>>

RuleTypeOK ==
  /\ \A r \in RuleIds : rule[r] # Nil => [rule[r] EXCEPT !.active = TRUE] \in RuleRows
  /\ reading \in [Gauges -> Readings \cup {Nil}]
  /\ \A n \in NoticeIds : notice[n] # Nil => notice[n] \in Notices
  /\ \A e \in Evals : eval[e].at \in {"idle", "look", "insert", "send"}
  /\ alertPage.picked \subseteq {n \in NoticeIds : notice[n] # Nil}
  /\ doubled \in [Pairs -> Nat]

\* A rule has at most one active alert of an asset that is younger than the cooldown,
\* plus one for each evaluation that looked while another one was between its look
\* and its insert (runs are started by the minute and may overlap).
OneRecentAlert ==
  \A p \in Pairs : Cardinality({n \in NoticeIds : Recent(n, p)}) <= 1 + doubled[p]
=============================================================================
