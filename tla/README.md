# Formal specification of the Argus / Digicap core

Argus (go_digi) monitors servers, network devices and storage. Two servers run
side by side on one PostgreSQL database (`docker-entrypoint.sh`):

* the **Go core** (`cmd/server/main.go`, `internal/`): HTTP API, cron jobs,
  syslog receiver, WebSocket hub;
* the **web server** (`web/src`): the dashboard, an API of its own that takes
  precedence where both have a route, and a second implementation of the jobs
  (dormant as shipped: Next.js 14 runs `instrumentation.ts` only if
  `next.config.mjs` enables the hook, and it does not).

The repository has no tests. The code that is hard to get right is where several
things happen to the same rows or channels: goroutines that share channels; jobs
that read and write statement by statement, without transactions and without
unique constraints behind them, and overlap with their own next run; and routes
of the web server that check and then write in separate statements, called by
pages that work on rows they loaded earlier, in several tabs, while agents write
the same tables. That is what these modules model.

## 1. Inventory

What is modelled is marked with its module; `PROJECT.json` has the same list
with all source files.

The Go core:

| Part | State | Operations | What makes it correct |
|---|---|---|---|
| WebSocket hub, `internal/websocket/hub.go` -- **Hub** | map of clients, four channels, three goroutines per connection | connect, subscribe, broadcast, dispatch, kick, disconnect | the hub goroutine never panics; a registered client misses nothing; order; no goroutine or client is left behind |
| Alert evaluation, `scheduler/alert_eval.go` -- **AlertEval** | `alerts`, `alert_rules`, windows of `metrics` | count window, look up active alert, check cooldown, insert, resolve | no unbounded duplicates, cooldown kept, alerts follow the metrics |
| Offline check, `scheduler/offline_check.go` -- **AgentLiveness** | `assets.status`, `assets.last_seen`, offline alerts | select stale assets, mark, count alerts, insert | working agents stay online; silent ones are found and announced; one alert each |
| Service checks, `scheduler/service_check.go` -- **ServiceCheck** | `service_checks`, `service_check_results`, alerts | start workers under a semaphore, probe, store, compare, raise, resolve | alerts are the transitions between results; runs end |
| Syslog receiver, `syslog/receiver.go` -- **SyslogReceiver** | socket, entry channel, `syslog_entries` | read, resolve asset, enqueue or drop, store, stop | order, nothing accepted is lost while up, clean stop |
| Start and shutdown, `cmd/server/main.go`, `scheduler/scheduler.go` -- partly in **SyslogReceiver** | cron entries, contexts | start, signal, stop in sequence | nothing crashes at the stop; what is cut off is repaired by later runs |
| Agent API, `handler/agent.go`, `scheduler/agent_poll.go` -- partly in **AgentLiveness**, **ServiceCheck** | `agent_tokens`, `assets` | register, heartbeat, post results, poll | an asset's status follows its reports |
| Metric ingestion, `handler/metrics.go` -- by effect in **AlertEval** | `metrics` | batch insert | stored samples count in the next evaluation |
| Aggregation, `scheduler/aggregation.go` | `metrics_5m`, `metrics_1h` | roll up | every sample is counted once in its bucket |
| SSL, maintenance, BMC, prediction jobs | alerts and their sources | check, raise once | one open alert per object and condition |
| LLM providers, `internal/llm`, `handler/llm.go` | cached provider, streams | configure, chat, stream, analyse | after a reconfiguration the new configuration is used |

The web server, pages with their routes and jobs:

| Part | State | Operations | What makes it correct |
|---|---|---|---|
| Assets -- **AssetDesk** | `assets`, `audit_logs`, the page's selection | create, edit, retire one or many | every change is in the audit log |
| Imports -- **ImportDesk** | a modal, one transaction per file | read, check, show, send, store | a file is stored once |
| Contracts and software -- **ContractDesk** | `maintenance_contracts` | save from three places, delete | one active contract per asset and vendor |
| Organizations -- **OrgDesk** | a tree in `organizations` | add, move, delete | three levels |
| Racks -- **RackDesk** | `racks`, `rack_units` | place, move, remove | no two units in one slot |
| Agent tokens -- **AgentDesk** | `agent_tokens`, `assets` | issue, revoke, register (push and pull) | one token, one asset |
| Topology -- **TopologyDesk** | tables read from switches, nodes, edges, layout | upload, discover, LLDP, draw | no double nodes or edges; what LLDP found stays |
| Addresses -- **IpamDesk** | `ip_subnets`, `ip_allocations`, forms | add, edit, remove | an edit reaches the row it was made for |
| Predictions -- **PredictDesk** | `system_settings`, analyses | save key by key, run by cron or button | calls use settings somebody saved |
| Accounts -- **AccountDesk** | `users`, sessions, logins in work | log in, lock, unlock, administer | guesses are bounded; owners get in |
| Outage watch, incidents -- **IncidentDesk** | `assets.status`, alerts, `incidents` | claim, look, open, close; acknowledge, resolve, delete | an outage is reported, a recovery closes it |
| Service checks -- **ServiceDesk** | results, alerts | probe, store, compare, raise, resolve | few alerts per outage, none after it |
| Rules and alerts -- **RuleDesk** | `alert_rules`, `alerts`, notifications | evaluate, notify; edit rules, handle alerts | one recent alert per rule and asset |
| Hardware -- **HardwareDesk** | `hw_health`, alerts | collect from controllers, raise | one alert per component |
| Capacity, SSL, storage, virtual machines, network ports, dependencies, reports, audit, settings | a table each | single statements | -- see section 7 |

Interactions: agents write `assets`, `metrics` and `service_check_results`
over HTTP; the jobs read those and write `alerts` and `assets.status`; the
operators edit all of them. Nothing in the repository calls `Hub.Broadcast`
yet: the hub is modelled for any caller. The hard behaviours are

* interleavings of goroutines (hub, receiver), of jobs, agents and operators on
  the same rows, and of requests of one page that are on their way together;
* jobs that overlap with their own next run (cron does not wait), or fail or
  time out between two statements that belong together;
* forms and lists that are older than the rows they speak about;
* answers that get lost, so that people send again what was already done;
* bounded channels that drop, semaphores, and the order of the shutdown.

`PROJECT.json` lists each hazard at its line with the properties that watch it.

## 2. Modules

| Module | Models |
|---|---|
| `Hub`, `MCHub`, `Hub_proofs` | `internal/websocket/hub.go` |
| `AlertEval`, `MCAlertEval`, `AlertEval_proofs` | `scheduler/alert_eval.go` with `handler/alerts.go` |
| `AgentLiveness`, `MCAgentLiveness`, `AgentLiveness_proofs` | `scheduler/offline_check.go` with the reports of `handler/agent.go` |
| `ServiceCheck`, `MCServiceCheck`, `ServiceCheck_proofs` | `scheduler/service_check.go` with `handler/service_checks.go` |
| `SyslogReceiver`, `MCSyslogReceiver`, `SyslogReceiver_proofs` | `internal/syslog/receiver.go` with the shutdown of `main` |
| `LossyLog` | abstract: a pipeline that may lose, never reorders, repeats or invents |
| `Desk` | what the areas of the web server share: SQL NULL, the area a behaviour is about, the bound on inputs |
| `AssetDesk`, `ImportDesk`, `ContractDesk`, `OrgDesk`, `RackDesk`, `AgentDesk`, `TopologyDesk`, `IpamDesk`, `PredictDesk` | one area each, see section 1 |
| `Inventory`, `MCInventory` | these nine areas, where people keep records |
| `Records_proofs` | proofs about `AssetDesk`, `ImportDesk`, `ContractDesk`, `AgentDesk`, `OrgDesk` |
| `Inventory_proofs` | proofs about `RackDesk`, `IpamDesk`, `PredictDesk`, `TopologyDesk`, and about `Inventory` |
| `AccountDesk`, `IncidentDesk`, `ServiceDesk`, `RuleDesk`, `HardwareDesk`; `MCServiceDesk` | areas that watch and tell |
| `Operations`, `MCOperations`, `Operations_proofs` | these five areas, and the proofs about each and all of them |

Conventions. One action is one step another actor can see: a channel
operation, a SQL statement, a use of a shared field. `pc`, `at`, `loop` and the
like name the next such step of a goroutine or a run. Variables named *history*
in their comment are not in the code; they record what the properties speak
about. The modules of the Go core have `MaxFaults`, the number of statements that may
fail or runs that may time out, and bounds for inputs from outside; the areas of
the web server have one bound, `Budget`, on both together. Definitions called
*faulty variant* play no part in the specification: each is a plausible bug of
the definition that follows it, kept to show that the properties notice.

**Hub.** `Run` sits at its `select` when `todo` is empty and dispatches one
message, client by client, otherwise; `register` and `unregister` are
rendezvous, so the sender's step and `Run`'s are one action
(`RunRegister`, `RunUnregisterReader`, `RunUnregisterKick`). `send[c]` is the
client's channel, `closed[c]` whether it has been closed. `writePump` may have
taken a message and be blocked writing it; that message is counted as one of
the `SendCap` slots. `panicked` is set where Go would panic: a send on a closed
channel, a second close. Several frames coalesced into one write keep their
order and are one `Write` each. The ping ticker only matters when it fails.

**AlertEval.** A target is a pair of rule and asset. `Count`, `Lookup`,
`CheckCooldown`, `Insert` and `Resolve` are the statements of `evaluateRule`,
`LookupFails` and so on their failures, each with what the code does about it
(a failed lookup is taken for "no active alert"). The samples of a target are
abstracted to what the window query tells: none, some within the limit, all
beyond it. Ages of alerts are counted in ticks up to `Cooldown`. Two
evaluations may run at once. A rule's severity, title and message are data.

**AgentLiveness.** Registration inserts an asset as online and leaves
`last_seen` empty; every report sets both. The job selects once and then marks,
counts and inserts asset by asset. Its context ends after 30 s and it starts
every 60 s, so there is one run at a time. Ticks stop while a working agent is
overdue, which is what "reports in time" means.

**ServiceCheck.** A run queues every active check, starts at most `Workers`
goroutines and waits for them. A check's history is its last two results, which
is all the code reads (`OFFSET 1`). Probes are bounded by the timeouts of the
checks, not by the run, so runs can overlap (`Runs`).

**SyslogReceiver.** The loop of `Start`, the writer, and `main` once a signal
has arrived, sharing `r.conn`, the socket, the context and the entry channel.
The parsing of a datagram and the outcome of the asset lookup are abstracted to
"is dropped" or "goes on". A step from a nil `r.conn` is the panic of a method
call on a nil pointer. After `exited` or `panicked` nothing runs any more.

**Areas of the web server.** An area has the tables it owns, its pages and the
requests in work. A click or a key that matters is an action of the page; a
request sits in a *slot* (`stockCall`, `rackCall`, ...) whose field `at` names its
next statement, so requests of all tabs and of agents interleave statement by
statement; an answer is on its way in `...Loads` or in the slot until the page
takes it, and may be overtaken. The guards of the pages (what a disabled button
or a closed form prevents) are kept, since many a race depends on what the page
lets people do. Failures take the path the code gives them: most pages treat any
answer as a success. The areas own disjoint tables (where one touches a row of
another, the effect is modelled as a step of the world: `AgentContract`,
`HandleAlarm`, `Wear`), so `Inventory` and `Operations` compose them by letting
each behaviour stay at one area, and put the others at rest in one initial state.

* **AssetDesk**: list, filters, selection, bulk actions (all requests at once) and
  form; each change and its audit entry are two statements, and the audit entry
  may fail without anybody noticing.
* **ImportDesk**: both modals; the checks of the page and of the server differ, and
  a row that fails rolls the file back.
* **ContractDesk**: deactivate and insert for the modal of the asset page, insert
  for software, update and delete by id.
* **OrgDesk**: the level check of a new organisation reads ancestors before it
  inserts; deletions lift children; updates check nothing.
* **RackDesk**: the search for a free slot in the page, the overlap check and the
  write on the server.
* **AgentDesk**: insert, bind and contract of a registration, with breaks between
  them, and the guide that shows the token.
* **TopologyDesk**: a discovery run is a transaction per layer whose writes others
  do not see until its commit; an LLDP event autocommits; a parser is given by
  the kinds of lines it accepts.
* **IpamDesk**: the upsert of an address, edits by id, removals, two forms.
* **PredictDesk**: the save of provider, model and key one after the other, runs
  that read them in one statement, the mask that stands for a key.
* **AccountDesk**: a login reads the row, compares for a while, and writes the
  counter it read plus one; sessions are not looked at again.
* **IncidentDesk**: the outage half of the alert engine, claims first and reports
  later; heartbeats and polls; incidents as people handle them.
* **ServiceDesk**: a probe's result is compared with the latest that is a minute
  old; alerts are matched by titles (`Within`: names that contain each other).
* **RuleDesk**: the look for a recent alert, the insert and the notifications of an
  evaluation; both pages with the selection that survives a filter.
* **HardwareDesk**: a collection stores component by component and looks for an
  alert that mentions the component (`Mentions`) before it inserts one; a card's
  button and the button for all start collections side by side.

The jobs of the web server are modelled as they are written, though they are
dormant as shipped.

## 3. Runs

The runs of the Go core check deadlock; the runs of the web server's areas do
not, because a behaviour ends when its `Budget` is used up. "fails" means TLC
finds the stated property violated by what the code does (section 6).

| Run | Bounds | Shows |
|---|---|---|
| `hub` | 1 client, 2 topics (one the parent of the other), send buffer 1, broadcast buffer 2, 3 messages; 28,688 states | `NoPanic`, `CompleteUntilDropped`, `InOrder`, `LostIsCleanedUp` (also of clients that are too slow) |
| `alert` | 1 rule, 1 asset, any window to start with, 2 evaluations, cooldown 1 tick, 8 alerts, 2 changes, 1 operator request, 1 fault; 626,822 states | `DuplicatesBounded`, `QuietPeriod`, `RecoveredIsResolved`, `BreachIsAlerted` |
| `alert_acked` | 1 evaluation, a pinned rule | fails: `SameAlertWaits` |
| `agent` | 2 assets, threshold 2 ticks, 4 changes of mood, 1 operator request, 1 fault; 51,697 states | `WorkingStaysOnline`, `OneAlert`, `OfflineIsAnnounced`, `StatusFollows` (silent agents go offline, agents that are back go online) |
| `agent_unalerted` | 1 asset, 1 fault | fails: `NewlyOfflineIsAlerted` |
| `service` | 2 checks, 1 run, 1 slot, 3 changes of services, 1 agent result, 1 operator request, 1 fault; 375,232 states | `AlertTracksState`, `GoodIsResolved`, `DownIsAlerted`, `RunsEnd` |
| `service_twice` | 1 check, 2 runs | fails: `GoodIsResolved` |
| `syslog` | channel of 2, 4 datagrams, 1 failing insert, a signal at any time; 25,627 states | `AcceptedIsKept`, `KeepsOrder` (implements `LossyLog`), `AcceptedIsStored`, `PanicOnlyAtStop` |
| `syslog_stop` | channel of 2, 2 datagrams | fails: `StopsGracefully` |
| `inventory` | inputs: 3 for organizations, the discovery graph and predictions, 4 for assets and the discovery panel, 5 for imports, contracts, the map and addresses, 6 for racks, 7 for agents; two requests in work; 1,481,914 states | `AuditTrail`, `ImportedOnce`, `OneContract`, `ShallowTree`, `SlotsDisjoint`, `RegistersOnce`, `NoDoubles`, `LldpKept`, `EditHitsItsRow`, `CallsAsSaved`, types |
| `operations` | inputs: 5 for accounts, 3 for the others; two logins, runs or collections at once; 387,804 states | `GuessesBounded`, `OwnerGetsIn`, `DownIsReported`, `RecoveryClosesIncident`, `FewAlarms`, `OneRecentAlert`, `FewHardwareAlarms`, types |
| `service_recovery` | 1 check, 2 inputs | fails: `ServiceRecovers` |

Why these bounds are enough to be interesting. In `hub` three messages against
a buffer of one make two kicks of one client coexist with its own unregister,
which is the case `Remove` guards against; clients share nothing but the order
in which `Run` visits them, and the proofs cover any number of them. In `alert` two evaluations and one
fault give three concurrent ways to a duplicate; a target that breaches at the
start, recovers and breaches again takes the two changes; eight rows are more
than any behaviour within the other bounds inserts (nine give the same states);
targets share nothing but their evaluation. In `agent` four moods let an agent
fall silent, come back and fall silent again while the other asset is in the
job's hands. In `service` three changes give a down, an up and a down again with
one slot for two checks. In `syslog` four datagrams fill the writer's hand, both
slots and overflow. In `inventory` and `operations` the inputs are clicks,
submissions, failures and changes of the world; what the server goes on with by
itself is not counted. Two requests or runs at once are what a race between a
check and a write takes; each budget is enough for the case the property is
about, with one input to spare in most areas: two placements with a rack of two
slots and a form opened in between (racks), two registrations with one token, one
of them broken off and repeated (agents), a lock that runs out between guesses
(accounts), a recovery while a second run has read the outage (incidents), a card
and all cards collected side by side after a component wore out (hardware). The
properties that allow for races count them in history variables (`crossed`,
`raced`, `doubled`, `lost`, `overlapped`, ...): they say that nothing but the named
race breaks the promise, and how much it costs.

**Fairness.** Goroutines and jobs go on (weak fairness of their steps): Go
schedules them, statements and probes have deadlines, and cron restarts every
job. In `Hub` the three rendezvous with `Run` have strong fairness: `Run` may be
busy again and again, but Go's `select` chooses at random among ready channels,
so none is passed over for ever. Time advances (in `AgentLiveness` with strong
fairness, since overdue reports block the clock now and then). Nothing is
assumed of peers, agents, services, operators or failures, but that an agent
which keeps working keeps reporting. In `Operations` a login that has begun goes
on, a lock runs out, and outage checks are started and go on (weak fairness);
people who are locked out try again (strong fairness of `Submit`, since all slots
may be taken by others now and then). In `FairServiceSpec` probes are started and
go on. Inputs within the budget are never owed.

## 4. Proofs

Every safety property that a passing run checks -- all invariants, `KeepsOrder`,
`QuietPeriod` and `LldpKept` -- is also proved by TLAPS, for every value of the
constants that the assumptions below allow: any number of clients, rules, assets,
rows, pages, requests, runs and failures, any capacity and any budget. The runs
are where each of these formulas was tried first; the proofs need stronger ones,
because hardly any of them is inductive.

### The Go core

* `Hub_proofs` -- `HubTypeCorrect`, `HubNeverPanics`,
  `HubCompleteUntilDropped` from `IInv`. `NoPanic` is not inductive: the argument
  is that a client in the map has a channel that is not closed, that only clients
  of the map are in `todo`, and that a client that has not been registered has no
  pumps and no kicks yet. `HubKeepsOrder` needs where the messages are (`Order`): the
  broadcast channel holds later ones than the dispatch has seen, the clients earlier
  ones or the same, and those that the dispatch has still to visit earlier ones.
* `AlertEval_proofs` -- `AlertEvalTypeCorrect`, `AlertEvalDuplicatesBounded`,
  `AlertEvalKeepsQuiet`. The bound is made inductive by counting, besides the
  active alerts of a target, the evaluations that have decided to insert one
  (`Deciding`): a successful lookup adds an evaluation only if no alert is active,
  and each failed one is paid for by `faults`. The quiet period needs that an
  evaluation past its lookup has seen every untouched alert of its target over
  (`SeenOver`), and resolved long enough ago once it means to insert.
* `AgentLiveness_proofs` -- `AgentTypeCorrect`, `AgentOneAlert`,
  `AgentWorkingStaysOnline`, `AgentOfflineIsAnnounced`. The strengthening says that
  a run about to insert has seen no alert, and that an agent that has never lapsed
  has a fresh report and is in no run's hands.
* `ServiceCheck_proofs` -- `ServiceTypeCorrect`; `ServiceCriticalIsAlerted` and
  `ServiceAlertTracksState` under two assumptions of their own: runs do not overlap
  (`Apart`) and no check's name contains another's (`Separate`), the second one
  also that probes answer ok or critical only. Without the first the property is
  false in general (`service_twice`), without the second alerts of one check are
  taken for another's, and a warning between critical and ok hides the recovery;
  the run `service` meets all three. The invariant ties the alerts of a check to the results
  stored for it and to where its worker is between store, compare and react.
* `SyslogReceiver_proofs` -- `SyslogTypeCorrect`, `SyslogKeepsOrder` (the receiver
  implements `LossyLog`), `SyslogPanicOnlyAtStop`, `SyslogAcceptedIsKept`. The
  invariant for the refinement orders every entry on its way: rows, the one being
  stored, the channel, the datagram in the loop's hands.

### The areas of the web server

The arguments are of three kinds.

*What is counted between a check and a write.* A bound like "one alert, plus one
for each run that crossed" is not inductive, since the insert adds a row and crosses
nobody: its look did. So the invariant counts the runs past their look as well.
`RecentAlertsBounded`, `HardwareAlarmsBounded`, `AgentTokenRegistersOnce` (a
registration that found its token unbound), `ImportStoredOnce` (what the modal may
still send, and what the server may still commit), `AccountGuessesBounded` (the
logins that carry a copy of the counter), `ServiceRaisesFewAlarms` (an
alert still to be raised; there are no more than results of the outage among the two
that are compared).

*What an old copy still says.* Pages, requests and jobs hold rows they read
earlier. `IpamEditHitsItsRow`: what a list, a form, an answer on its way or a
request says of an address still holds, or the row is gone, because rows never
change address or subnet and ids never come back. `ContractsAreSingle`: a
request between its two statements has made room for its row, unless another one
storing the same deal crossed it. `RackSlotsDisjoint`: a placement past its check
has nothing in its way, unless a unit was written meanwhile, and the unit
of an update stays in its rack for as long as it is there. `StockIsAudited`: a change is in the log or in
the slot of the request that made it. `PredictCallsAsSaved`: pages, answers,
saves in work and runs have a model of their provider, unless a save was read half
way. `IncidentDownIsReported`: an outage that no check has in work has an open
incident or an excuse, and the incident a check has found or opened was there.

*Structures.* `OrgTreeIsShallow`: while nothing was moved, no row has a third
ancestor (`Shallow`), and the parent a creation has checked has no second one until
the row is stored: rows stay, other creations put nothing above a row, and a deletion
only cuts. `LevelIsShort` ties this to the level the recursive query counts. The climb
is a recursive function, and what it computes would need an induction whose theorem
takes an operator as a parameter, which none of the provers can instantiate; the
proof that the climb exists takes a least counterexample instead (`LeastOf`, from
`WFMin`). `TopologyHasNoDoubles` and `TopologyKeepsLldp`:
rows that a job counts on are there until it is over, rows that others cannot see
belong to a run that has not committed, two writers in the same place have
overlapped; LLDP's edges have no overwriting in store unless LLDP came while the
run was past its test. An edge has two nodes for as long as it is there, also for
those who cannot see one of them yet (`EndsInv`).

*Together.* `InventoryKeepsItsPromises`, `InventoryKeepsLldp`,
`OperationsKeepTheirPromises`: a step of the composition is, for each area, a step
of that area or none, so the invariants of the areas hold side by side.
`InventoryTypeCorrect` and `OperationsTypeCorrect` prove the composed type
invariants, which the runs check: besides the invariants above they need what
the promises do not rest on (`ImportRest`, `AgentRest`, `RackRest`,
`IncidentRest`, `ServiceRest`, `RuleRest`, `HardwareRest`) and that every step is
an input within the budget or leaves the budget alone (`StockBudget` and so on).

### Assumptions

Each module names its own (`HubAssumption`, ... `PredictAssumption`), and TLC
evaluates them on the runs. They say: capacities and bounds are natural numbers;
what is counted is finite; ids are numbers; NULL is no id, no value and no row
(`Nil \notin ...`). Beyond these, organisations are numbered from 1 in the order of
their insertion, as SERIAL does, and without gaps (a constant set of ids has to be
some set; `OrgAssumption`); the thresholds have a highest one, with which the
form of a rule starts (`RuleAssumption`); a name contains itself (`ServiceAssumption`,
`HardwareAssumption`).

### What stays with TLC

All liveness properties -- `LostIsCleanedUp`, `RecoveredIsResolved`,
`BreachIsAlerted`, `StatusFollows`, `GoodIsResolved`, `DownIsAlerted`, `RunsEnd`,
`AcceptedIsStored`, `OwnerGetsIn`, `RecoveryClosesIncident` -- since `ENABLED` and
fairness are out of the provers' reach; and that the properties of section 6 fail,
which takes a behaviour and no proof. `TypeOK` of `Hub`, `AlertEval` and
`SyslogReceiver` are only proved, no run repeats them.

## 5. Plan

1. *Done:* the hub, the alert engine, the offline check, the service checks, the
   syslog receiver with its shutdown; fourteen areas of the web server in two
   compositions; proofs of every safety property of all of them.
2. *Next modules:* aggregation (the buckets' contents against a reference), the
   daily jobs (SSL, maintenance, BMC and prediction alerts over an abstract "one
   open alert per object"), the provider cache of `handler/llm.go`, capacity
   planning, and the SSL page with its import.
3. *Abstract specification* `AlertLifecycle` (an object's alert is open or not,
   opened by its condition, closed by its end or an operator), implemented by
   `AgentLiveness` without faults and by `ServiceCheck` with one run; the hub's
   stream to a client as a second implementation of `LossyLog`.
4. *Proofs:* the refinements of 3; `ServiceAlertTracksState` for any verdicts, with
   the property restated for warnings.

## 6. Where code and documentation differ

With a run that shows it:

* `alert_acked`: an acknowledged alert is neither "active" for the lookup nor
  "resolved" for the cooldown, so the next evaluation sends it again at once;
  the setting is documented as the time before the same alert is sent again.
* `agent_unalerted`: the offline job marks an asset before it inserts the alert;
  if the insert fails, no later run looks at the asset again.
* `service_twice`: with two overlapping runs both results of a recovery are
  compared with each other and nobody resolves the alert.
* `service_recovery`: the web server compares a result with the latest one that is
  a minute old; a slow critical result and the good one after it are both compared
  with an older good one, and the alert of the slow one is never resolved.
* `syslog_stop`: `Stop` sets `r.conn` to nil under the loop, which then calls a
  method of it and takes the process down in the middle of its shutdown.

Seen while modelling, without a run:

* A window without samples counts as recovered and resolves alerts.
* The offline job may overwrite a report that arrived after its select; the next
  report repairs it (`StatusFollows`).
* An asset that registered and never reported stays online for ever.
* `Register` returns a heartbeat interval equal to the offline threshold.
* A check that goes from critical over warning to ok never resolves; checks of
  one asset whose names contain each other share their alerts; a result posted
  by an agent can hide a transition. Hence the conditions of the properties of
  `ServiceCheck`, and the verdicts and names of its run.
* The writer of the receiver drops what is left in its channel at the stop,
  though its comment says that it drains the channel.
* `NewEventParser` selects a column that `syslog_parse_patterns` does not have,
  and `handler/incidents.go` uses columns `incidents` does not have.

In the web server, without a run (paths under `web/src/`):

* Jobs. The scheduler's BMC collection carries no cookie and the middleware answers
  401 (`lib/scheduler.ts:36`, `middleware.ts:3`), though `api/bmc/collect/route.ts:6`
  says the scheduler calls it. Maintenance alerts repeat every day
  (`lib/maintenance-checker.ts:25`) and SSL alerts every run. Polls that fail mark
  an asset offline without an alert (`api/agent/pull/collect/route.ts:101`); an
  outage that a failed run had claimed is never reported
  (`lib/alert-engine.ts:249`). Acknowledged outage alerts are not resolved by a
  recovery, and neither are alerts of deleted checks or ports.
* Alerts. The filter "전체" shows active alerts only (`api/alerts/route.ts:13`). The
  rules page offers `load_avg_1m`, which the engine never reads
  (`lib/alert-engine.ts:58`), and a duration it ignores. A mail without recipients
  is noted as failed. A hardware alert is suppressed by any alert of the server
  whose title contains the component's name, or the server's
  (`api/bmc/collect/route.ts:120`); `bmc_sel` has no key for its ON CONFLICT.
* Assets and contracts. The form "장비 추가" sends an empty `bmc_ip`, which the column
  does not take, and the page ignores the error (`assets/page.tsx:101`,
  `api/assets/route.ts:142`); so does the software form with its dates. The empty
  contract of a registration hides the real ones (`assets/page.tsx:361`). A
  selection survives a change of filters (`assets/page.tsx:170`), and updates reach
  assets deleted meanwhile. Imports are not audited; an answer without `errors`
  breaks the page; closing the modal does not stop the import.
* Organizations and racks. PUT may exceed the depth or close a cycle, though
  `api/organizations/route.ts:61` says "최대 3단계까지만 지원됩니다". Moving a unit drops its
  link to the asset (`api/rack/route.ts:163`); racks without a location are not drawn.
* Topology. Discovery resolves names with LIMIT 1 (`run/route.ts:162`); a SAN run
  overwrites the method of LLDP edges (`run/route.ts:342`); the page shows the answer
  for a layer it has left (`topology/page.tsx:188`) and forgets a drag made while it
  saves; the panel's deletion removes MAC rows only; replacing a table is not a
  transaction (`device-table/route.ts:18`).
* Addresses. Failures look like successes; the answer of an earlier save closes a
  form opened since; one CIDR may be added twice.
* Predictions. Another provider keeps the old key unless one is typed;
  "저장 시 암호화됩니다" (`settings/llm/page.tsx:263`), but the key is stored as it is;
  `llm_predict_interval` is never read and `alert_sent` never set.
* Accounts and tokens. The last administrator may deactivate himself; a token can
  be copied again though the page says "다시 표시되지 않습니다"
  (`settings/agents/page.tsx:358`).

## 7. Not modelled

* Pages and routes of single statements over one table (capacity, SSL, storage,
  virtual machines, network ports, dependencies, reports, audit, settings,
  licence): no steps to interleave. The SSL import repeats the modals of
  `ImportDesk`.
* Handlers of the Go core that the dashboard does not call, where a route of the
  web server takes precedence.
* The daily jobs, aggregation and the LLM providers of the Go core: in the plan.
* Text and pixels: parsers of syslog lines, the wording of alerts and mails,
  reports, drawing. Parsers of MAC tables are modelled by which lines they take.
* The database itself: a statement is atomic and sees all committed rows, which
  is PostgreSQL's read committed level for single statements; transactions are
  modelled where the code opens them.
* Data races of the Go memory model beyond the order of accesses (the field
  `r.conn`, the cached LLM provider): a stale read behaves like a later write.
* Wall clocks going backwards, and more failures per behaviour than `MaxFaults` or
  `Budget` allow.
* Two areas of the web server in one behaviour: no step of one writes what another
  models, so there is nothing to interleave.
