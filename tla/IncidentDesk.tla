---------------------------- MODULE IncidentDesk ----------------------------
(***************************************************************************)
(* The outage watch of the web server and the incidents it keeps: the      *)
(* second half of lib/alert-engine.ts, started every minute by             *)
(* lib/scheduler.ts and never waited for, the heartbeats and polls that    *)
(* say a box is up, api/incidents and the incidents page.                  *)
(***************************************************************************)
EXTENDS Desk

CONSTANTS
  Boxes,        \* servers and network devices that are watched
  IncidentIds,  \* ids the table may hand out, numbers
  Checks        \* bound: runs of the check in work at the same time, numbers

Statuses == {"open", "investigating", "resolved"}
Logs == SUBSET {"down", "recovered", "created", "changed", "comment", "assigned"}
Incidents == [boxes : SUBSET Boxes, status : Statuses, log : Logs, cause : {"none", "text"}]
Deleted == [boxes |-> {}, status |-> "deleted", log |-> {}, cause |-> "none"]

ASSUME IncidentAssumption ==
  /\ IncidentIds \cup Checks \subseteq Nat /\ IncidentIds # {}
  /\ Nil \notin Boxes /\ Nil \notin Incidents \cup {Deleted}

VARIABLES
  box,       \* assets: status online (up), last_seen within the threshold (fresh)
  alarms,    \* alerts: active ones that say the box is down
  paged,     \* alert_notifications: what became of the latest Slack message
  incident,  \* incidents: the row with its timeline, or Nil
  check,     \* the run in work in a slot
  incPage,   \* the incidents page
  incLoads,  \* answers on their way to the page
  excused    \* history: why a box that is down may have no open incident

incidentVars == <<box, alarms, paged, incident, check, incPage, incLoads, excused>>

NoCheck == [at |-> "idle", todo |-> {}, box |-> Nil, found |-> Nil]
FirstFree(i) == incident[i] = Nil /\ \A j \in IncidentIds : incident[j] = Nil => i <= j
Has(i) == incident[i] # Nil /\ incident[i] # Deleted
OpenFor(b) == {i \in IncidentIds : /\ Has(i) /\ b \in incident[i].boxes
                                   /\ incident[i].status # "resolved"}

Opened(boxes, log) == [boxes |-> boxes, status |-> "open", log |-> log, cause |-> "none"]

\* All boxes are up, or one has gone down before; the page has just loaded.
IncidentInit ==
  /\ \E gone \in {{}} \cup {{b} : b \in Boxes} :
       /\ box = [b \in Boxes |-> [up |-> b \notin gone, fresh |-> b \notin gone]]
       /\ alarms = [b \in Boxes |-> IF b \in gone THEN 1 ELSE 0]
       /\ paged = [b \in Boxes |-> IF b \in gone THEN "sent" ELSE "none"]
       /\ incident = [i \in IncidentIds |->
            IF gone # {} /\ \A j \in IncidentIds : i <= j THEN Opened(gone, {"down"}) ELSE Nil]
  /\ check = [c \in Checks |-> NoCheck]
  /\ incPage = [shown |-> [i \in IncidentIds |->
                            IF incident[i] = Nil THEN Nil ELSE [status |-> "open", cause |-> "none"]],
                only |-> Nil, loading |-> FALSE,
                open |-> Nil, draft |-> "none", lines |-> {}, form |-> FALSE]
  /\ incLoads = {}
  /\ excused = [b \in Boxes |-> FALSE]

-----------------------------------------------------------------------------
(* What the boxes do.                                                      *)

Watched == UNCHANGED <<alarms, paged, incident, check, incPage, incLoads>>

\* A heartbeat, or a poll the agent answers.
Heartbeat(b) ==
  /\ Act
  /\ box' = [box EXCEPT ![b] = [up |-> TRUE, fresh |-> TRUE]]
  /\ UNCHANGED excused /\ Watched

\* agent_check_interval passes without one.
GoesQuiet(b) ==
  /\ Act
  /\ box[b].fresh
  /\ box' = [box EXCEPT ![b].fresh = FALSE]
  /\ UNCHANGED excused /\ Watched

\* A poll the agent answers with an error: the box is offline, and nobody is told.
\* A poll without an answer changes nothing.
PollRefused(b) ==
  /\ Act
  /\ box[b].up
  /\ box' = [box EXCEPT ![b].up = FALSE]
  /\ excused' = [excused EXCEPT ![b] = TRUE]
  /\ Watched

-----------------------------------------------------------------------------
(* runOfflineCheck                                                         *)

At(c, at) == check[c].at = at
Go(c, at) == check' = [check EXCEPT ![c].at = at]
Take(c, b, at) == check' = [check EXCEPT ![c].at = at, ![c].todo = @ \ {b}, ![c].box = b]
DoneBox(c, at) == check' = [check EXCEPT ![c].at = at, ![c].box = Nil, ![c].found = Nil]
OffPage == UNCHANGED <<incPage, incLoads, deskVars>>

\* One statement claims the boxes that have gone quiet: no other run has them too.
ClaimOffline(c) ==
  LET gone == {b \in Boxes : box[b].up /\ ~box[b].fresh} IN
  /\ At(c, "idle") /\ \A o \in Checks : At(o, "idle") => c <= o
  /\ box' = [b \in Boxes |-> [box[b] EXCEPT !.up = @ /\ b \notin gone]]
  /\ excused' = [b \in Boxes |-> excused[b] /\ b \notin gone]
  /\ check' = [check EXCEPT ![c] = [NoCheck EXCEPT !.at = "down", !.todo = gone]]
  /\ UNCHANGED <<alarms, paged, incident>> /\ OffPage

LookAlarm(c) ==
  /\ At(c, "down")
  /\ \E b \in check[c].todo : Take(c, b, IF alarms[b] = 0 THEN "alarm" ELSE "look")
  /\ UNCHANGED <<box, alarms, paged, incident, excused>> /\ OffPage

RaiseAlarm(c) ==
  /\ At(c, "alarm")
  /\ alarms' = [alarms EXCEPT ![check[c].box] = @ + 1]
  /\ Go(c, "page")
  /\ UNCHANGED <<box, paged, incident, excused>> /\ OffPage

\* sendAlert: Slack may be slow, unset or refuse; the mail of this check has no
\* recipients and is always noted as failed.
SendAlert(c, status) ==
  /\ At(c, "page")
  /\ paged' = [paged EXCEPT ![check[c].box] = status]
  /\ Go(c, "look")
  /\ UNCHANGED <<box, alarms, incident, excused>> /\ OffPage

\* Faulty variant, for testing the properties: resolved incidents count too.
LookAnyIncident(c) ==
  /\ At(c, "look")
  /\ IF \E i \in IncidentIds : Has(i) /\ check[c].box \in incident[i].boxes
       THEN DoneBox(c, "down") ELSE Go(c, "open")
  /\ UNCHANGED <<box, alarms, paged, incident, excused>> /\ OffPage

LookIncident(c) ==
  /\ At(c, "look")
  /\ IF OpenFor(check[c].box) # {} THEN DoneBox(c, "down") ELSE Go(c, "open")
  /\ UNCHANGED <<box, alarms, paged, incident, excused>> /\ OffPage

OpenIncident(c) ==
  /\ At(c, "open")
  /\ \E i \in IncidentIds :
       /\ FirstFree(i)
       /\ incident' = [incident EXCEPT ![i] = Opened({check[c].box}, {})]
       /\ check' = [check EXCEPT ![c].at = "note", ![c].found = i]
  /\ UNCHANGED <<box, alarms, paged, excused>> /\ OffPage

\* The timeline row: of the opening, or of the recovery.
Noted(c, what) == incident' = [incident EXCEPT ![check[c].found].log =
                                 IF Has(check[c].found) THEN @ \cup {what} ELSE @]

NoteOpened(c) ==
  /\ At(c, "note")
  /\ Noted(c, "down")
  /\ DoneBox(c, "down")
  /\ UNCHANGED <<box, alarms, paged, excused>> /\ OffPage

\* The second half starts with the list of the boxes that are online.
ReadOnline(c) ==
  /\ At(c, "down") /\ check[c].todo = {}
  /\ check' = [check EXCEPT ![c].at = "up", ![c].todo = {b \in Boxes : box[b].up}]
  /\ UNCHANGED <<box, alarms, paged, incident, excused>> /\ OffPage

ResolveAlarms(c) ==
  /\ At(c, "up")
  /\ \E b \in check[c].todo :
       /\ alarms' = [alarms EXCEPT ![b] = 0]
       /\ Take(c, b, "find")
  /\ UNCHANGED <<box, paged, incident, excused>> /\ OffPage

\* Faulty variant, for testing the properties: only those nobody works on are found.
FindUntouched(c) ==
  LET S == {i \in OpenFor(check[c].box) : incident[i].status = "open"} IN
  /\ At(c, "find")
  /\ \/ \E i \in S : check' = [check EXCEPT ![c].at = "close", ![c].found = i]
     \/ S = {} /\ DoneBox(c, "up")
  /\ UNCHANGED <<box, alarms, paged, incident, excused>> /\ OffPage

\* LIMIT 1: any one of them, and only one in a run.
FindIncident(c) ==
  LET S == OpenFor(check[c].box) IN
  /\ At(c, "find")
  /\ \/ \E i \in S : check' = [check EXCEPT ![c].at = "close", ![c].found = i]
     \/ S = {} /\ DoneBox(c, "up")
  /\ UNCHANGED <<box, alarms, paged, incident, excused>> /\ OffPage

\* Whoever takes the incident of a box away while it is down.
Excuse(boxes) ==
  excused' = [b \in Boxes |-> excused[b] \/ (b \in boxes /\ ~box[b].up)]

CloseIncident(c) ==
  LET i == check[c].found IN
  /\ At(c, "close")
  /\ incident' = [incident EXCEPT ![i].status = IF Has(i) THEN "resolved" ELSE @]
  /\ Excuse(incident[i].boxes)
  /\ Go(c, "log")
  /\ UNCHANGED <<box, alarms, paged>> /\ OffPage

NoteRecovery(c) ==
  /\ At(c, "log")
  /\ Noted(c, "recovered")
  /\ DoneBox(c, "up")
  /\ UNCHANGED <<box, alarms, paged, excused>> /\ OffPage

EndCheck(c) ==
  /\ At(c, "up") /\ check[c].todo = {}
  /\ check' = [check EXCEPT ![c] = NoCheck]
  /\ UNCHANGED <<box, alarms, paged, incident, excused>> /\ OffPage

\* A statement fails: the catch around the whole run ends it, and the boxes it has
\* claimed and not yet treated are offline for good as far as later runs go.
Claimed(c) ==
  IF check[c].at \in {"down", "alarm", "page", "look", "open", "note"}
    THEN check[c].todo \cup (IF At(c, "note") THEN {} ELSE {check[c].box} \cap Boxes) ELSE {}

CheckFails(c) ==
  /\ Act
  /\ ~At(c, "idle")
  /\ excused' = [b \in Boxes |-> excused[b] \/ b \in Claimed(c)]
  /\ check' = [check EXCEPT ![c] = NoCheck]
  /\ UNCHANGED <<box, alarms, paged, incident, incPage, incLoads>>

CheckStep(c) ==
  \/ ClaimOffline(c) \/ LookAlarm(c) \/ RaiseAlarm(c)
  \/ \E status \in {"sent", "failed"} : SendAlert(c, status)
  \/ LookIncident(c) \/ OpenIncident(c) \/ NoteOpened(c) \/ ReadOnline(c)
  \/ ResolveAlarms(c) \/ FindIncident(c) \/ CloseIncident(c) \/ NoteRecovery(c)
  \/ EndCheck(c)

-----------------------------------------------------------------------------
(* The page and api/incidents.                                             *)

OffCheck == UNCHANGED <<box, alarms, paged, check>>

\* The rows of GET /api/incidents as they will be after this step.
ListFor(only) ==
  [i \in IncidentIds |->
     LET row == incident'[i] IN
     IF row = Nil \/ row = Deleted THEN Nil
     ELSE IF only # Nil /\ row.status # only THEN Nil
     ELSE [status |-> row.status, cause |-> row.cause]]

\* load(), and the timeline of incident i once its answer is there.
LoadThen(page, i) ==
  /\ incPage' = [page EXCEPT !.loading = TRUE]
  /\ incLoads' = incLoads \cup {[kind |-> "list", rows |-> ListFor(page.only), of |-> i]}

IncRefresh ==
  /\ Act
  /\ UNCHANGED <<incident, excused>>
  /\ LoadThen(incPage, Nil)
  /\ OffCheck

\* A count is also the switch of its filter, and a new filter loads.
ToggleFilter(status) ==
  /\ Act
  /\ UNCHANGED <<incident, excused>>
  /\ LoadThen([incPage EXCEPT !.only = IF @ = status THEN Nil ELSE status], Nil)
  /\ OffCheck

\* The list that arrives last is the one shown, whatever filter it was read with.
ListArrives(l) ==
  /\ l \in incLoads /\ l.kind = "list"
  /\ incPage' = [incPage EXCEPT !.shown = l.rows, !.loading = FALSE]
  /\ incLoads' = (incLoads \ {l}) \cup
       (IF l.of = Nil \/ ~Has(l.of) THEN {} ELSE {[kind |-> "lines", log |-> incident[l.of].log]})
  /\ UNCHANGED <<incident, excused, deskVars>> /\ OffCheck

LinesArrive(l) ==
  /\ l \in incLoads /\ l.kind = "lines"
  /\ incPage' = [incPage EXCEPT !.lines = l.log]
  /\ incLoads' = incLoads \ {l}
  /\ UNCHANGED <<incident, excused, deskVars>> /\ OffCheck

\* Rows are there unless the page is loading.
ShownRow(i) == ~incPage.loading /\ incPage.shown[i] # Nil

\* A click on a row closes it or opens it, with the drafts the list has for it.
Expand(i) ==
  /\ Act
  /\ ShownRow(i)
  /\ IF incPage.open = i
       THEN incPage' = [incPage EXCEPT !.open = Nil] /\ UNCHANGED incLoads
       ELSE /\ incPage' = [incPage EXCEPT !.open = i, !.draft = incPage.shown[i].cause]
            /\ incLoads' = incLoads \cup {[kind |-> "lines", log |-> incident[i].log]}
  /\ UNCHANGED <<incident, excused>> /\ OffCheck

EditDraft ==
  /\ Act
  /\ incPage.open # Nil /\ ShownRow(incPage.open)
  /\ incPage' = [incPage EXCEPT !.draft = "text"]
  /\ UNCHANGED <<incident, incLoads, excused>> /\ OffCheck

\* doAction: PATCH, then the list, and the timeline of an incident that was open.
Patch(i, row) ==
  /\ incident' = [incident EXCEPT ![i] = IF Has(i) THEN row ELSE @]
  /\ LoadThen(incPage, IF incPage.open = i THEN i ELSE Nil)
  /\ OffCheck

\* The row is updated whatever its status has become since the page loaded it; the
\* timeline row is a statement of its own that may fail.
PatchStatus(i, logged) ==
  LET to == IF incPage.shown[i].status = "open" THEN "investigating" ELSE "resolved" IN
  /\ Act
  /\ ShownRow(i) /\ incPage.shown[i].status # "resolved"
  /\ Patch(i, [incident[i] EXCEPT !.status = to, !.log = IF logged THEN @ \cup {"changed"} ELSE @])
  /\ IF to = "resolved" THEN Excuse(incident[i].boxes) ELSE UNCHANGED excused

SendComment(i) ==
  /\ Act
  /\ incPage.open = i /\ ShownRow(i)
  /\ Patch(i, [incident[i] EXCEPT !.log = @ \cup {"comment"}])
  /\ UNCHANGED excused

\* The drafts are those of the moment the row was opened, and overwrite what
\* somebody else has saved since.
SaveDetail(i) ==
  /\ Act
  /\ incPage.open = i /\ ShownRow(i)
  /\ Patch(i, [incident[i] EXCEPT !.cause = incPage.draft])
  /\ UNCHANGED excused

ToggleNew ==
  /\ Act
  /\ incPage' = [incPage EXCEPT !.form = ~@]
  /\ UNCHANGED <<incident, incLoads, excused>> /\ OffCheck

\* An incident entered by hand is about no box.
CreateIncident ==
  /\ Act
  /\ incPage.form
  /\ \E i \in IncidentIds :
       /\ FirstFree(i)
       /\ incident' = [incident EXCEPT ![i] = Opened({}, {"created"})]
  /\ LoadThen([incPage EXCEPT !.form = FALSE], Nil)
  /\ UNCHANGED excused /\ OffCheck

\* The rest of the API, which the page has no buttons for.
AssignIncident(i) ==
  /\ Act
  /\ Has(i)
  /\ incident' = [incident EXCEPT ![i].log = @ \cup {"assigned"}]
  /\ UNCHANGED <<incPage, incLoads, excused>> /\ OffCheck

DeleteIncident(i) ==
  /\ Act
  /\ Has(i)
  /\ incident' = [incident EXCEPT ![i] = Deleted]
  /\ Excuse(incident[i].boxes)
  /\ UNCHANGED <<incPage, incLoads>> /\ OffCheck

\* Faulty variant, for testing the properties: an alert that is no longer active is
\* handled once more.
HandleAlarmAgain(b) ==
  /\ Act
  /\ alarms' = [alarms EXCEPT ![b] = @ - 1]
  /\ UNCHANGED <<box, paged, check, incident, incPage, incLoads, excused>>

\* The alerts page acknowledges or resolves an active alert of a box.
HandleAlarm(b) ==
  /\ Act
  /\ alarms[b] > 0
  /\ alarms' = [alarms EXCEPT ![b] = @ - 1]
  /\ UNCHANGED <<box, paged, check, incident, incPage, incLoads, excused>>

-----------------------------------------------------------------------------
IncidentNext ==
  \/ \E b \in Boxes : Heartbeat(b) \/ GoesQuiet(b) \/ PollRefused(b) \/ HandleAlarm(b)
  \/ \E c \in Checks : CheckStep(c) \/ CheckFails(c)
  \/ IncRefresh \/ ToggleNew \/ CreateIncident \/ EditDraft
  \/ \E status \in Statuses : ToggleFilter(status)
  \/ \E l \in incLoads : ListArrives(l) \/ LinesArrive(l)
  \/ \E i \in IncidentIds :
       \/ Expand(i) \/ SendComment(i) \/ SaveDetail(i)
       \/ AssignIncident(i) \/ DeleteIncident(i)
       \/ \E logged \in BOOLEAN : PatchStatus(i, logged)

IncidentSpec == DeskInit /\ IncidentInit /\ [][IncidentNext]_<<incidentVars, deskVars>>

IncidentTypeOK ==
  /\ box \in [Boxes -> [up : BOOLEAN, fresh : BOOLEAN]]
  /\ alarms \in [Boxes -> Nat]
  /\ paged \in [Boxes -> {"none", "sent", "failed"}]
  /\ \A i \in IncidentIds : Has(i) => incident[i] \in Incidents
  /\ \A c \in Checks : /\ check[c].todo \subseteq Boxes
                       /\ check[c].box \in Boxes \cup {Nil}
                       /\ check[c].found \in IncidentIds \cup {Nil}
  /\ incPage.open \in IncidentIds \cup {Nil}
  /\ excused \in [Boxes -> BOOLEAN]

\* A box that runOfflineCheck has put offline has an incident that is not resolved,
\* once no run has it in work any more: unless a poll put it offline, the run that
\* claimed it failed, or somebody took the incident away while the box was down (a
\* user, or a run that had read the box as online before).
DownIsReported ==
  \A b \in Boxes :
    ~box[b].up /\ ~excused[b] /\ (\A c \in Checks : b \notin Claimed(c)) => OpenFor(b) # {}

\* A box that comes back and stays gets all its incidents resolved and its alarms
\* cleared, however runs overlap and whatever users did with them before.
RecoveryClosesIncident ==
  \A b \in Boxes : <>[]box[b].up => <>[](OpenFor(b) = {} /\ alarms[b] = 0)
=============================================================================
