---------------------------- MODULE HardwareDesk ----------------------------
(***************************************************************************)
(* Hardware monitoring: api/bmc/collect, which reads the management        *)
(* controllers (lib/redfish.ts) and raises alerts, api/bmc/latest, and the *)
(* hardware page.  Collections are started by the buttons of the page: the *)
(* call of lib/scheduler.ts carries no cookie and the middleware turns it  *)
(* away.                                                                   *)
(***************************************************************************)
EXTENDS Desk

CONSTANTS
  Blades,            \* servers with a management controller
  Parts,             \* components in the order they are stored, numbers
  Supplies,          \* those of them that are power supplies
  Mentions(_, _, _), \* (b, p, q): the title of b's alert about p contains the name of q
  HwSlots            \* bound: collections in work at the same time, numbers

ASSUME HardwareAssumption ==
  /\ Parts \cup HwSlots \subseteq Nat /\ Supplies \subseteq Parts /\ IsFiniteSet(HwSlots)
  /\ \A b \in Blades, p \in Parts : Mentions(b, p, p)

VARIABLES
  worn,      \* the components a controller calls critical
  hwHealth,  \* hw_health: the latest status of a component
  hwAlarm,   \* alerts: number of active ones about a component
  hwCall,    \* the POST in work in a slot: who waits for it
  hwWork,    \* collectOne of a slot for a server
  hwPage,    \* the hardware page: its cards, and whether all are being collected
  hwLoads,   \* answers of GET /api/bmc/latest on their way to the page
  crossed    \* history: looks of a collection between another's look and insert

hardwareVars == <<worn, hwHealth, hwAlarm, hwCall, hwWork, hwPage, hwLoads, crossed>>

NoWork == [at |-> "idle", seen |-> <<>>, todo |-> {}]
NoCall == [by |-> Nil, all |-> FALSE, of |-> {}]
Latest(b, single) == [of |-> b, health |-> hwHealth[b], single |-> single]

\* Nothing has been collected; the page has its servers and loads their cards.
HardwareInit ==
  /\ worn = [b \in Blades |-> {}]
  /\ hwHealth = [b \in Blades |-> [p \in Parts |-> Nil]]
  /\ hwAlarm = [b \in Blades |-> [p \in Parts |-> 0]]
  /\ hwCall = [s \in HwSlots |-> NoCall]
  /\ hwWork = [s \in HwSlots |-> [b \in Blades |-> NoWork]]
  /\ hwPage = [card |-> [b \in Blades |-> [health |-> hwHealth[b], loading |-> TRUE,
                                           collecting |-> FALSE, open |-> FALSE]],
               all |-> FALSE]
  /\ hwLoads = {Latest(b, FALSE) : b \in Blades}
  /\ crossed = [b \in Blades |-> [p \in Parts |-> 0]]

-----------------------------------------------------------------------------
(* The page.                                                               *)

Stored == <<worn, hwHealth, hwAlarm, crossed>>

\* The arrow of a card with components.  The filter above the cards, by their overall
\* health, only hides some of them.
ExpandCard(b) ==
  /\ Act
  /\ \E p \in Parts : hwPage.card[b].health[p] # Nil
  /\ hwPage' = [hwPage EXCEPT !.card[b].open = ~@]
  /\ UNCHANGED <<hwCall, hwWork, hwLoads, Stored>>

Post(s, by, all, of) ==
  /\ hwCall[s] = NoCall /\ \A o \in HwSlots : hwCall[o] = NoCall => s <= o
  /\ hwCall' = [hwCall EXCEPT ![s] = [by |-> by, all |-> all, of |-> of]]
  /\ hwWork' = [hwWork EXCEPT ![s] = [b \in Blades |->
                  IF b \in of THEN [NoWork EXCEPT !.at = "read"] ELSE NoWork]]
  /\ UNCHANGED <<hwLoads, Stored>>

\* The button of a card; it is disabled while the card waits, not while all are collected.
CollectCard(s, b) ==
  /\ Act
  /\ ~hwPage.card[b].collecting
  /\ Post(s, b, FALSE, {b})
  /\ hwPage' = [hwPage EXCEPT !.card[b].collecting = TRUE]

CollectAll(s) ==
  /\ Act
  /\ ~hwPage.all
  /\ Post(s, Nil, TRUE, Blades)
  /\ hwPage' = [hwPage EXCEPT !.all = TRUE]

\* loadBmc: the card says so while it loads.
LoadCards(of, single) ==
  /\ hwLoads' = hwLoads \cup {Latest(b, single) : b \in of}
  /\ hwPage' = [hwPage EXCEPT !.all = @ /\ single,
       !.card = [b \in Blades |-> [@[b] EXCEPT !.loading = @ \/ b \in of]]]

\* The answer says ok whatever became of the single servers; then the page loads.
CollectAnswer(s) ==
  LET c == hwCall[s] IN
  /\ c # NoCall /\ \A b \in Blades : hwWork[s][b] = NoWork
  /\ hwCall' = [hwCall EXCEPT ![s] = NoCall]
  /\ CASE c.all                -> LoadCards(Blades, FALSE)
       [] ~c.all /\ c.by # Nil -> LoadCards({c.by}, TRUE)
       [] OTHER                -> UNCHANGED <<hwPage, hwLoads>>
  /\ UNCHANGED <<hwWork, Stored, deskVars>>

\* The query for the servers fails: the page takes the error like any other answer.
CollectRefused(s) ==
  /\ Act
  /\ hwCall[s].of # {} /\ \A b \in hwCall[s].of : hwWork[s][b].at = "read"
  /\ hwWork' = [hwWork EXCEPT ![s] = [b \in Blades |-> NoWork]]
  /\ UNCHANGED <<hwCall, hwPage, hwLoads, Stored>>

\* The connection breaks: the button can be pressed again while the server goes on.
CollectLost(s) ==
  LET c == hwCall[s] IN
  /\ Act
  /\ c.all \/ c.by # Nil
  /\ hwCall' = [hwCall EXCEPT ![s] = [c EXCEPT !.by = Nil, !.all = FALSE]]
  /\ hwPage' = IF c.all THEN [hwPage EXCEPT !.all = FALSE]
               ELSE [hwPage EXCEPT !.card[c.by].collecting = FALSE]
  /\ UNCHANGED <<hwWork, hwLoads, Stored>>

\* Answers may overtake each other: the last to arrive stays.
CardArrives(l, ok) ==
  /\ l \in hwLoads
  /\ ok \/ acts < Budget[desk]
  /\ hwLoads' = hwLoads \ {l}
  /\ hwPage' = [hwPage EXCEPT !.card[l.of] =
       [@ EXCEPT !.loading = FALSE, !.collecting = @ /\ ~l.single,
                 !.health = IF ok THEN l.health ELSE @]]
  /\ UNCHANGED <<hwCall, hwWork, Stored, desk>>
  /\ acts' = IF ok THEN acts ELSE acts + 1

-----------------------------------------------------------------------------
(* collectOne                                                              *)

Working(s, b, at) == hwWork[s][b].at = at
Step(s, b, new) == hwWork' = [hwWork EXCEPT ![s][b] = new]
Offstage == UNCHANGED <<hwCall, hwPage, hwLoads>>

Least(todo) == CHOOSE p \in todo : \A q \in todo : p <= q
Part(s, b) == Least(hwWork[s][b].todo)
PartDone(s, b) == [hwWork[s][b] EXCEPT !.at = "part", !.todo = @ \ {Part(s, b)}]

\* What the controller says.  Without the health report the board is unknown, without
\* the power report the supplies are left out.
Reported(b, health, power) ==
  [p \in (Parts \ Supplies) \cup (IF power THEN Supplies ELSE {}) |->
     IF p \notin Supplies /\ ~health THEN "unknown"
     ELSE IF p \in worn[b] THEN "critical" ELSE "ok"]

ReadController(s, b, health, power) ==
  LET seen == Reported(b, health, power) IN
  /\ Working(s, b, "read")
  /\ Step(s, b, [at |-> "metric", seen |-> seen, todo |-> DOMAIN seen])
  /\ UNCHANGED <<Stored, deskVars>> /\ Offstage

\* The measurements are data.
StoreMetric(s, b) ==
  /\ Working(s, b, "metric")
  /\ Step(s, b, [hwWork[s][b] EXCEPT !.at = "part"])
  /\ UNCHANGED <<Stored, deskVars>> /\ Offstage

StorePart(s, b) ==
  LET seen == hwWork[s][b].seen IN
  /\ Working(s, b, "part") /\ hwWork[s][b].todo # {}
  /\ hwHealth' = [hwHealth EXCEPT ![b][Part(s, b)] = seen[Part(s, b)]]
  /\ Step(s, b, IF seen[Part(s, b)] = "critical"
                  THEN [hwWork[s][b] EXCEPT !.at = "look"] ELSE PartDone(s, b))
  /\ UNCHANGED <<worn, hwAlarm, crossed, deskVars>> /\ Offstage

\* Faulty variant, for testing the properties: the pattern wants something after the name.
AlarmedLonger(b, q) == \E p \in Parts : hwAlarm[b][p] > 0 /\ p # q /\ Mentions(b, p, q)

\* An active alert of the server whose title has the name of the component somewhere:
\* that of another component will do, and so will the name of the server.
Alarmed(b, q) == \E p \in Parts : hwAlarm[b][p] > 0 /\ Mentions(b, p, q)

LookHardware(s, b) ==
  LET p == Part(s, b)
      rival == \E o \in HwSlots \ {s} : Working(o, b, "alarm") /\ Part(o, b) = p IN
  /\ Working(s, b, "look")
  /\ Step(s, b, IF Alarmed(b, p) THEN PartDone(s, b) ELSE [hwWork[s][b] EXCEPT !.at = "alarm"])
  /\ crossed' = [crossed EXCEPT ![b][p] = IF rival /\ ~Alarmed(b, p) THEN @ + 1 ELSE @]
  /\ UNCHANGED <<worn, hwHealth, hwAlarm, deskVars>> /\ Offstage

RaiseHardware(s, b) ==
  /\ Working(s, b, "alarm")
  /\ hwAlarm' = [hwAlarm EXCEPT ![b][Part(s, b)] = @ + 1]
  /\ Step(s, b, [hwWork[s][b] EXCEPT !.at = "send"])
  /\ UNCHANGED <<worn, hwHealth, crossed, deskVars>> /\ Offstage

\* sendAlert returns, whatever became of the messages.
SendHardware(s, b) ==
  /\ Working(s, b, "send")
  /\ Step(s, b, PartDone(s, b))
  /\ UNCHANGED <<Stored, deskVars>> /\ Offstage

\* The event log comes last; it fails without harm and no property is about it.
EndCollect(s, b) ==
  /\ Working(s, b, "part") /\ hwWork[s][b].todo = {}
  /\ Step(s, b, NoWork)
  /\ UNCHANGED <<Stored, deskVars>> /\ Offstage

\* A statement fails: the rest of this server is left out, the others go on.
CollectFails(s, b) ==
  /\ Act
  /\ hwWork[s][b].at \in {"metric", "part", "look", "alarm", "send"}
  /\ Step(s, b, NoWork)
  /\ UNCHANGED Stored /\ Offstage

-----------------------------------------------------------------------------
(* The world around.                                                       *)

Wear(b, p) ==
  /\ Act
  /\ worn' = [worn EXCEPT ![b] = (@ \ {p}) \cup ({p} \ @)]
  /\ UNCHANGED <<hwHealth, hwAlarm, crossed, hwWork>> /\ Offstage

\* api/alerts: an operator acknowledges or resolves an active alert.
HandleHardware(b, p) ==
  /\ Act
  /\ hwAlarm[b][p] > 0
  /\ hwAlarm' = [hwAlarm EXCEPT ![b][p] = @ - 1]
  /\ UNCHANGED <<worn, hwHealth, crossed, hwWork>> /\ Offstage

-----------------------------------------------------------------------------
CollectStep(s, b) ==
  \/ \E health, power \in BOOLEAN : ReadController(s, b, health, power)
  \/ StoreMetric(s, b) \/ StorePart(s, b) \/ LookHardware(s, b)
  \/ RaiseHardware(s, b) \/ SendHardware(s, b) \/ EndCollect(s, b)

HardwareNext ==
  \/ \E l \in hwLoads, ok \in BOOLEAN : CardArrives(l, ok)
  \/ \E b \in Blades : \/ ExpandCard(b)
                       \/ \E p \in Parts : Wear(b, p) \/ HandleHardware(b, p)
                       \/ \E s \in HwSlots : CollectCard(s, b) \/ CollectStep(s, b) \/ CollectFails(s, b)
  \/ \E s \in HwSlots : CollectAll(s) \/ CollectAnswer(s) \/ CollectRefused(s) \/ CollectLost(s)

HardwareSpec == DeskInit /\ HardwareInit /\ [][HardwareNext]_<<hardwareVars, deskVars>>

HardwareTypeOK ==
  /\ worn \in [Blades -> SUBSET Parts]
  /\ hwHealth \in [Blades -> [Parts -> {Nil, "ok", "critical", "unknown"}]]
  /\ {hwAlarm, crossed} \subseteq [Blades -> [Parts -> Nat]]
  /\ \A s \in HwSlots : hwCall[s].of \subseteq Blades
  /\ \A s \in HwSlots, b \in Blades :
       /\ hwWork[s][b].at \in {"idle", "read", "metric", "part", "look", "alarm", "send"}
       /\ hwWork[s][b].todo \subseteq Parts

\* A component has at most one active alert, plus one for each collection that looked
\* while another one was between its look and its insert: the buttons of a card and of
\* all cards start collections of one server at the same time (route.ts:117 looks and
\* route.ts:124 inserts, two statements).
FewHardwareAlarms ==
  \A b \in Blades, p \in Parts : hwAlarm[b][p] <= 1 + crossed[b][p]
=============================================================================
