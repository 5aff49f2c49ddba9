---------------------------- MODULE ServiceDesk ----------------------------
(***************************************************************************)
(* Service checks of the web server (lib/service-checker.ts), the routes   *)
(* under api/service-checks and the services page.  Every minute all       *)
(* active checks are probed side by side; each stores its result, compares *)
(* it with the latest result that is more than a minute old, and raises or *)
(* resolves alerts by their titles.                                        *)
(***************************************************************************)
EXTENDS Desk

CONSTANTS
  SvcIds,   \* ids the table may hand out, numbers
  SvcHosts,   \* assets
  Names,    \* names of checks
  Within(_, _)  \* the first name is part of the second, as LIKE sees it

SvcRows == [host : SvcHosts, name : Names, kind : {"probed", "unprobed"}, active : BOOLEAN]

ASSUME ServiceAssumption ==
  /\ SvcIds \subseteq Nat /\ Nil \notin SvcRows
  /\ \A n \in Names : Within(n, n)

VARIABLES
  svc,       \* service_checks: the row, or Nil
  answers,   \* the service behind a check answers as it should
  before,    \* service_check_results: the latest of each check but one
  last,      \* the latest
  due,       \* checks of the run in work not probed yet
  verdict,   \* what a probed check still has to do: "raise", "resolve" or "none"
  svcAlarms, \* active alerts of a host about a name
  raised,    \* history: alerts a check has raised in its current outage
  svcPage,   \* the page: rows shown, form open, request under way
  svcLoads   \* answers on their way to the page

serviceVars == <<svc, answers, before, last, due, verdict, svcAlarms, raised, svcPage, svcLoads>>

\* No result yet, the status a check without results has on the page.
NoResult == [status |-> "unknown", slow |-> FALSE, stored |-> FALSE]
NextId(k) == svc[k] = Nil /\ \A j \in SvcIds : svc[j] = Nil => k <= j
ActiveSvc == {k \in SvcIds : svc[k] # Nil /\ svc[k].active}
CheckRows == {row \in SvcRows : row.active}

\* Some check is there; the page offers only hosts that have one.
ServiceInit ==
  /\ \E k \in SvcIds, row \in CheckRows :
       /\ \A j \in SvcIds : k <= j
       /\ svc = [j \in SvcIds |-> IF j = k THEN row ELSE Nil]
  /\ answers = [k \in SvcIds |-> TRUE]
  /\ before = [k \in SvcIds |-> NoResult]
  /\ last = [k \in SvcIds |-> NoResult]
  /\ due = {}
  /\ verdict = [k \in SvcIds |-> "none"]
  /\ svcAlarms = [h \in SvcHosts, n \in Names |-> 0]
  /\ raised = [k \in SvcIds |-> 0]
  /\ svcPage = [shown |-> ActiveSvc, add |-> FALSE, saving |-> FALSE]
  /\ svcLoads = {}

-----------------------------------------------------------------------------
(* runServiceChecks                                                        *)

KeepsPage == UNCHANGED <<svc, svcPage, svcLoads>>

ServiceFlips(k) ==
  /\ Act
  /\ answers' = [answers EXCEPT ![k] = ~@]
  /\ UNCHANGED <<before, last, due, verdict, svcAlarms, raised>> /\ KeepsPage

\* The next minute.
StartProbes ==
  /\ due = {} /\ \A k \in SvcIds : verdict[k] = "none"
  /\ due' = ActiveSvc
  /\ due' # {}
  /\ UNCHANGED <<answers, before, last, verdict, svcAlarms, raised, deskVars>> /\ KeepsPage

\* checkPing, checkPort and checkHTTP: right at once, or late; a host that does not
\* answer is refused at once or times out.  The page also offers types that the
\* checker does not know.
Probed(k, slow) ==
  [status |-> IF svc[k].kind = "unprobed" THEN "unknown"
              ELSE IF answers[k] THEN "ok" ELSE "critical",
   slow |-> slow /\ svc[k].kind = "probed", stored |-> TRUE]

\* Probes start with the minute, and a result is stored when its probe ends: a
\* result of the last minute that came late is not a minute old when this one comes
\* at once, and one that came at once is when this one is late.
MayBeOld(r, now) == ~r.slow \/ now.slow
MayBeYoung(r, now) == r.slow \/ ~now.slow

\* Faulty variant, for testing the properties: without ORDER BY some result is
\* compared, and some were ok.
PreviousAny(k, now) == {last[k], before[k], [now EXCEPT !.status = "ok"]}

Previous(k, now) ==
  {r \in {last[k]} : ~r.stored \/ MayBeOld(r, now)}
  \cup {r \in {before[k]} : last[k].stored /\ MayBeYoung(last[k], now)}

Verdict(now, prev) ==
  IF now.status # "ok" /\ prev.status = "ok" THEN "raise"
  ELSE IF now.status = "ok" /\ prev.status # "ok" THEN "resolve" ELSE "none"

Probe(k, slow) ==
  LET now == Probed(k, slow) IN
  /\ k \in due
  /\ \E prev \in Previous(k, now) : verdict' = [verdict EXCEPT ![k] = Verdict(now, prev)]
  /\ before' = [before EXCEPT ![k] = last[k]]
  /\ last' = [last EXCEPT ![k] = now]
  /\ raised' = [raised EXCEPT ![k] = IF now.status = "ok" THEN 0 ELSE @]
  /\ due' = due \ {k}
  /\ UNCHANGED <<answers, svcAlarms, deskVars>> /\ KeepsPage

RaiseSvcAlarm(k) ==
  /\ verdict[k] = "raise"
  /\ svcAlarms' = [svcAlarms EXCEPT ![<<svc[k].host, svc[k].name>>] = @ + 1]
  /\ raised' = [raised EXCEPT ![k] = @ + 1]
  /\ verdict' = [verdict EXCEPT ![k] = "none"]
  /\ UNCHANGED <<answers, before, last, due, deskVars>> /\ KeepsPage

\* All active alerts of the host whose title contains the name.
ResolveSvcAlarms(k) ==
  /\ verdict[k] = "resolve"
  /\ svcAlarms' = [h \in SvcHosts, n \in Names |->
       IF h = svc[k].host /\ Within(svc[k].name, n) THEN 0 ELSE svcAlarms[h, n]]
  /\ verdict' = [verdict EXCEPT ![k] = "none"]
  /\ UNCHANGED <<answers, before, last, due, raised, deskVars>> /\ KeepsPage

\* A statement of one check fails; the others are not held up.
ProbeFails(k) ==
  /\ Act
  /\ k \in due \/ verdict[k] # "none"
  /\ due' = due \ {k}
  /\ verdict' = [verdict EXCEPT ![k] = "none"]
  /\ UNCHANGED <<answers, before, last, svcAlarms, raised>> /\ KeepsPage

-----------------------------------------------------------------------------
(* The page and its routes.                                                *)

KeepsRun == UNCHANGED <<answers, before, last, due, verdict, raised>>

SvcLoad == svcLoads' = svcLoads \cup {{k \in SvcIds : svc'[k] # Nil /\ svc'[k].active}}

SvcRefresh ==
  /\ Act
  /\ UNCHANGED svc
  /\ SvcLoad
  /\ UNCHANGED <<svcPage, svcAlarms>> /\ KeepsRun

SvcArrives(rows) ==
  /\ rows \in svcLoads
  /\ svcPage' = [svcPage EXCEPT !.shown = rows]
  /\ svcLoads' = svcLoads \ {rows}
  /\ UNCHANGED <<svc, svcAlarms, deskVars>> /\ KeepsRun

ToggleAdd ==
  /\ Act
  /\ svcPage' = [svcPage EXCEPT !.add = ~@]
  /\ UNCHANGED <<svc, svcLoads, svcAlarms>> /\ KeepsRun

\* The form lists the hosts of the rows shown, so a host without a check is not
\* among them; names may be taken twice.
AddCheck(row) ==
  /\ Act
  /\ svcPage.add /\ ~svcPage.saving
  /\ \E k \in svcPage.shown : svc[k].host = row.host
  /\ \E k \in SvcIds : NextId(k) /\ svc' = [svc EXCEPT ![k] = row]
  /\ svcPage' = [svcPage EXCEPT !.add = FALSE]
  /\ SvcLoad
  /\ UNCHANGED svcAlarms /\ KeepsRun

\* The row stays, inactive, and so do its alerts: no run looks at them again.
DeleteCheck(k) ==
  /\ Act
  /\ k \in svcPage.shown
  /\ svc' = [svc EXCEPT ![k].active = FALSE]
  /\ svcPage' = [svcPage EXCEPT !.shown = @ \ {k}]
  /\ UNCHANGED <<svcLoads, svcAlarms>> /\ KeepsRun

\* The alerts page.
HandleSvcAlarm(h, n) ==
  /\ Act
  /\ svcAlarms[h, n] > 0
  /\ svcAlarms' = [svcAlarms EXCEPT ![<<h, n>>] = @ - 1]
  /\ UNCHANGED <<svc, svcPage, svcLoads>> /\ KeepsRun

-----------------------------------------------------------------------------
ProbeStep(k) ==
  \/ \E slow \in BOOLEAN : Probe(k, slow)
  \/ RaiseSvcAlarm(k) \/ ResolveSvcAlarms(k)

ServiceNext ==
  \/ StartProbes \/ SvcRefresh \/ ToggleAdd
  \/ \E k \in SvcIds : ServiceFlips(k) \/ ProbeStep(k) \/ ProbeFails(k) \/ DeleteCheck(k)
  \/ \E rows \in svcLoads : SvcArrives(rows)
  \/ \E row \in CheckRows : AddCheck(row)
  \/ \E h \in SvcHosts, n \in Names : HandleSvcAlarm(h, n)

ServiceSpec == DeskInit /\ ServiceInit /\ [][ServiceNext]_<<serviceVars, deskVars>>

\* cron starts a run every minute, and every probe ends, at the latest by its timeout.
ServiceFairness ==
  /\ WF_<<serviceVars, deskVars>>(StartProbes)
  /\ \A k \in SvcIds : WF_<<serviceVars, deskVars>>(ProbeStep(k))

FairServiceSpec == ServiceSpec /\ ServiceFairness

Results == [status : {"ok", "critical", "unknown"}, slow : BOOLEAN, stored : BOOLEAN]

ServiceTypeOK ==
  /\ svc \in [SvcIds -> SvcRows \cup {Nil}]
  /\ before \in [SvcIds -> Results] /\ last \in [SvcIds -> Results]
  /\ due \cup svcPage.shown \subseteq {k \in SvcIds : svc[k] # Nil}
  /\ verdict \in [SvcIds -> {"none", "raise", "resolve"}]

\* One outage raises at most two alerts: the result that is compared is the last one,
\* or the one before it when the last is not yet a minute old.
FewAlarms == \A k \in SvcIds : raised[k] <= 2

\* A service that answers again and goes on to do so, and whose check stays active,
\* gets its alerts resolved (service-checker.ts:96).
ServiceRecovers ==
  \A k \in SvcIds : \A h \in SvcHosts, n \in Names :
    <>[](k \in ActiveSvc /\ svc[k].host = h /\ svc[k].name = n
          /\ svc[k].kind = "probed" /\ answers[k]
          /\ \A j \in ActiveSvc : j = k \/ svc[j].host # h \/ svc[j].name # n)
      => <>[](svcAlarms[h, n] = 0)
=============================================================================
