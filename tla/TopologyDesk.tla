---------------------------- MODULE TopologyDesk ----------------------------
(***************************************************************************)
(* The topology: app/api/topology, lib/mac-parser.ts, the discovery panel  *)
(* and the page.  Three writers add nodes and edges: a discovery run, in a *)
(* transaction for each kind of table it reads, an LLDP event, statement   *)
(* by statement, and both look for a row before they insert one; no        *)
(* constraint of topology_nodes or topology_edges backs them.  Ports,      *)
(* labels, confidences and drawing are left out.                           *)
(***************************************************************************)
EXTENDS Desk

CONSTANTS
  Servers, Switches,  \* assets; all of them have a MAC address and a WWN
  Stranger,           \* a neighbour LLDP reports that is no asset
  Texts,              \* command outputs an operator may paste (see Parsed)
  NodeIds, EdgeIds,   \* ids the two tables may hand out, numbers
  Jobs,               \* bound: runs, events and saves at the same time, numbers
  Places,             \* positions on the page; 0 is the default of the column
  Seen                \* tables the switches may start with

Gear == Servers \cup Switches
Layers == {"physical", "san"}
Laid == 1    \* where the automatic layout puts a node

\* Rows of the two tables; by is the run that has not committed yet, or 0, pending
\* what a run has updated and not yet committed.
NoChange == [by |-> 0, method |-> Nil]
Methods == {"arp", "wwn", "lldp"}
NodeRows == [asset : Gear \cup {Stranger}, layer : Layers, pos : Places, by : {0} \cup Jobs]
EdgeRows == [from : NodeIds, to : NodeIds, layer : Layers, method : Methods,
             by : {0} \cup Jobs,
             pending : [by : Jobs, method : Methods] \cup {NoChange}]

ASSUME TopologyAssumption ==
  /\ NodeIds \cup EdgeIds \cup Jobs \subseteq Nat \ {0}
  /\ {0, Laid} \subseteq Places
  /\ Seen \subseteq [Switches -> SUBSET Gear]
  /\ \A text \in Texts : \A l \in text.lines : l.of \in Gear \cup {Nil}
  /\ Nil \notin Switches \cup Places /\ Nil \notin NodeRows /\ Nil \notin EdgeRows

VARIABLES
  known,      \* assets: the switches registered so far
  macTable,   \* device_mac_table: whose MAC a switch has seen
  wwnTable,   \* wwn_entries: a set of [dev, wwn, kind]
  nodes,      \* topology_nodes: [asset, layer, pos, by], or Nil
  edges,      \* topology_edges: [from, to, layer, method, by], or Nil
  job,        \* what is in work in a slot
  panel,      \* the discovery panel
  topoPage,   \* the page
  pageLoads,  \* answers of GET /api/topology on their way to the page
  overlapped, \* history: a node or an edge was added which another job, that had
              \* looked for it before, or had added it unseen, adds as well
  overtaken   \* history: edges LLDP has written while a run was about to

tableVars == <<known, macTable, wwnTable>>
graphVars == <<nodes, edges>>
screenVars == <<panel, topoPage, pageLoads>>
topologyVars == <<tableVars, graphVars, job, screenVars, overlapped, overtaken>>

Min1(S, x) == x \in S /\ \A y \in S : x <= y
NoJob == [kind |-> "none", at |-> "idle"]

-----------------------------------------------------------------------------
(* The parser.  A text is what its head and its patterns let one detect,   *)
(* and a set of lines [form, of, kind]: form names the regular expression  *)
(* a line matches, of the owner of its address, Nil for an address that is *)
(* not usable (multicast, broadcast, null), which WWN lines never are.     *)

SwitchVendors == {"auto", "cisco", "juniper", "fortigate", "brocade"}

DetectVendor(text) == text.head

LinesOf(text, form) == {l \in text.lines : l.form = form /\ l.of # Nil}

\* A parser for each vendor and type; FortiGate has one for both.
Parser(vendor, type) ==
  CASE vendor = "fortigate" -> "fortigateMac"
    [] vendor = "cisco" -> IF type = "arp" THEN "ciscoArp" ELSE "ciscoMac"
    [] vendor = "juniper" /\ type = "arp" -> "juniperArp"
    [] OTHER -> "juniperMac"

\* Without a vendor the parsers for MAC tables are tried one after the other.
FirstThatFits(text) ==
  LET Fitting(order) == {i \in DOMAIN order : LinesOf(text, order[i]) # {}}
      order == <<"ciscoMac", "juniperMac", "fortigateMac", "csvMac">> IN
  IF Fitting(order) = {} THEN {}
  ELSE LinesOf(text, order[CHOOSE i \in Fitting(order) : \A k \in Fitting(order) : i <= k])

\* parseDeviceOutput, called with type 'mac'.
Parsed(text, choice) ==
  LET vendor == IF choice = "auto" THEN DetectVendor(text) ELSE choice
      type == IF vendor = "brocade" \/ text.pattern = "wwn" THEN "wwn" ELSE text.pattern
      lines == IF type = "wwn"
               THEN IF vendor = "brocade" /\ ~text.csv
                    THEN LinesOf(text, "switchshow") \cup LinesOf(text, "nsshow")
                    ELSE LinesOf(text, "csvWwn")
               ELSE IF text.csv THEN LinesOf(text, "csvMac")
               ELSE IF vendor \in {"auto", "brocade"} THEN FirstThatFits(text)
               ELSE LinesOf(text, Parser(vendor, type)) IN
  {[of |-> l.of, kind |-> l.kind] : l \in lines}

-----------------------------------------------------------------------------
(* The panel.                                                              *)

WithRows == {d \in Switches : macTable[d] # {} \/
               \E w \in wwnTable : w.dev = d /\ w.kind \in {"switch_port", "target"}}

\* loadStatus: the devices, and which of them have rows.
Status(p) == [p EXCEPT !.devices = known', !.rows = WithRows']

NoPanel == [open |-> FALSE, devices |-> {}, rows |-> {}, asset |-> Nil,
            parsed |-> {}, saving |-> FALSE, running |-> FALSE]
NoData == [pos |-> [n \in NodeIds |-> Nil], linked |-> {}]

\* Three situations: the tables are being filled (panel), several writers work on the
\* graph (graph), somebody arranges the map (map).  The WWNs are those the servers'
\* agents report.
TopologyInit ==
  /\ IF desk = "panel" THEN known \in SUBSET Switches /\ macTable = [d \in Switches |-> {}]
                       ELSE known = Switches /\ macTable \in Seen
  /\ wwnTable = {[dev |-> v, wwn |-> v, kind |-> "hba"] : v \in Servers}
  /\ nodes = [n \in NodeIds |-> Nil]
  /\ edges = [e \in EdgeIds |-> Nil]
  /\ job = [j \in Jobs |-> NoJob]
  /\ panel = [NoPanel EXCEPT !.open = desk # "panel"]
  /\ topoPage = [layer |-> "physical", data |-> NoData, shown |-> NoData.pos, all |-> FALSE,
                 dirty |-> FALSE, saving |-> FALSE, loading |-> FALSE]
  /\ pageLoads = {}
  /\ overlapped = FALSE
  /\ overtaken = {}

History == UNCHANGED <<overlapped, overtaken>>
Panel(new) == /\ panel' = new
              /\ UNCHANGED <<graphVars, topoPage, pageLoads>>
              /\ History
FreeJob(j) == Min1({o \in Jobs : job[o] = NoJob}, j)

TogglePanel ==
  /\ Act
  /\ UNCHANGED <<tableVars, job>>
  /\ Panel(IF panel.open THEN [panel EXCEPT !.open = FALSE]
           ELSE Status([panel EXCEPT !.open = TRUE]))

PickDevice(d) ==
  /\ Act
  /\ panel.open /\ d \in panel.devices
  /\ UNCHANGED <<tableVars, job>>
  /\ Panel([panel EXCEPT !.asset = d])

\* A device that is not there yet is registered on the spot.
CreateDevice(d) ==
  /\ Act
  /\ panel.open /\ d \in Switches \ known
  /\ known' = known \cup {d}
  /\ UNCHANGED <<macTable, wwnTable, job>>
  /\ Panel([Status(panel) EXCEPT !.asset = d])

\* A file or the text area; the result before it is dropped.
DoParse(text, vendor) ==
  /\ Act
  /\ panel.open
  /\ UNCHANGED <<tableVars, job>>
  /\ Panel([panel EXCEPT !.parsed = Parsed(text, vendor)])

\* The type detected decides which of the two tables the entries go to; the API
\* refuses a request without entries.
HandleSave(j) ==
  /\ Act
  /\ panel.open /\ panel.parsed # {} /\ panel.asset # Nil /\ ~panel.saving
  /\ FreeJob(j)
  /\ job' = [job EXCEPT ![j] = [kind |-> "save", at |-> "delete", dev |-> panel.asset,
                                rows |-> panel.parsed]]
  /\ UNCHANGED tableVars
  /\ Panel([panel EXCEPT !.saving = TRUE])

\* The button deletes the MAC rows only.
HandleDelete(d) ==
  /\ Act
  /\ panel.open /\ d \in panel.rows
  /\ macTable' = [macTable EXCEPT ![d] = {}]
  /\ UNCHANGED <<known, wwnTable, job>>
  /\ Panel(Status(panel))

HandleRun(j, dry) ==
  /\ Act
  /\ panel.open /\ ~panel.running
  /\ FreeJob(j)
  /\ job' = [job EXCEPT ![j] = [kind |-> "run", at |-> "readMac", dry |-> dry]]
  /\ UNCHANGED tableVars
  /\ Panel([panel EXCEPT !.running = TRUE])

-----------------------------------------------------------------------------
(* The two tables: replaced by a DELETE and an upsert for every row.       *)

IsMac(rows) == \A x \in rows : x.kind = "mac"

DeleteRows(j) ==
  LET c == job[j] IN
  /\ c.kind = "save" /\ c.at = "delete"
  /\ IF IsMac(c.rows)
       THEN macTable' = [macTable EXCEPT ![c.dev] = {}] /\ UNCHANGED wwnTable
       ELSE /\ wwnTable' = {w \in wwnTable : w.dev # c.dev \/ w.kind = "hba"}
            /\ UNCHANGED macTable
  /\ job' = [job EXCEPT ![j].at = "rows"]
  /\ UNCHANGED <<known, graphVars, screenVars, deskVars>> /\ History

UpsertRow(j, x) ==
  LET c == job[j] IN
  /\ c.kind = "save" /\ c.at = "rows"
  /\ x \in c.rows
  /\ IF x.kind = "mac"
       THEN macTable' = [macTable EXCEPT ![c.dev] = @ \cup {x.of}] /\ UNCHANGED wwnTable
       ELSE /\ wwnTable' = {w \in wwnTable : w.dev # c.dev \/ w.wwn # x.of}
                             \cup {[dev |-> c.dev, wwn |-> x.of, kind |-> x.kind]}
            /\ UNCHANGED macTable
  /\ job' = [job EXCEPT ![j].rows = @ \ {x}]
  /\ UNCHANGED <<known, graphVars, screenVars, deskVars>> /\ History

\* The answer clears the parse result that is shown by now.
SaveAnswer(j) ==
  /\ job[j].kind = "save" /\ job[j].at = "rows" /\ job[j].rows = {}
  /\ job' = [job EXCEPT ![j] = NoJob]
  /\ UNCHANGED <<tableVars, deskVars>>
  /\ Panel([Status(panel) EXCEPT !.parsed = {}, !.saving = FALSE])

\* api/topology/wwn: a WWN a switch reports itself.
WwnSeen(d, g) ==
  /\ Act
  /\ d \in known
  /\ wwnTable' = wwnTable \cup (IF \E w \in wwnTable : w.dev = d /\ w.wwn = g THEN {}
                                ELSE {[dev |-> d, wwn |-> g, kind |-> "switch_port"]})
  /\ UNCHANGED <<known, macTable, graphVars, job, screenVars>> /\ History

-----------------------------------------------------------------------------
(* Nodes and edges.  A run works in a transaction: others see its rows     *)
(* (by its job) and its updates (pending) once it has committed.           *)

Visible(row, j) == row # Nil /\ row.by \in {0, j}
MethodFor(e, j) == IF edges[e].pending.by = j THEN edges[e].pending.method ELSE edges[e].method

Graph(j, new) == /\ job' = [job EXCEPT ![j] = new]
                 /\ UNCHANGED <<tableVars, screenVars, deskVars>>

\* api/topology/lldp: a switch reports a neighbour, which may be no asset.
LldpEvent(j, d, g) ==
  /\ Act
  /\ d \in known /\ g # d
  /\ g \in known \cup Servers \cup {Stranger}
  /\ FreeJob(j)
  /\ job' = [job EXCEPT ![j] =
       [kind |-> "lldp", at |-> "from", method |-> "lldp", todo |-> {},
        link |-> [from |-> d, to |-> g, layer |-> "physical"], from |-> 0, to |-> 0, edge |-> 0]]
  /\ UNCHANGED <<tableVars, graphVars, screenVars>> /\ History

\* A run with its links for one kind of table; a preview stops at the links.
WithLinks(c, links, method, next) ==
  IF c.dry \/ links = {} THEN [kind |-> "run", at |-> next, dry |-> c.dry]
  ELSE [kind |-> "run", at |-> "pick", dry |-> c.dry, method |-> method, todo |-> links,
        link |-> Nil, from |-> 0, to |-> 0, edge |-> 0]

\* A switch has seen the MAC of a server, or of another switch.
EthernetLinks ==
  {[from |-> x[1], to |-> x[2], layer |-> "physical"] :
     x \in {y \in known \X Gear : y[2] \in macTable[y[1]] \ {y[1]} /\ y[2] \in Servers \cup known}}

ReadMacs(j) ==
  LET c == job[j] IN
  /\ c.kind = "run" /\ c.at = "readMac"
  /\ Graph(j, WithLinks(c, EthernetLinks, "arp", "readSwitch"))
  /\ UNCHANGED graphVars /\ History

ReadSwitchWwns(j) ==
  LET c == job[j] IN
  /\ c.kind = "run" /\ c.at = "readSwitch"
  /\ Graph(j, [kind |-> "run", at |-> "readTarget", dry |-> c.dry,
               hba |-> {w \in wwnTable : w.kind = "hba"},
               port |-> {w \in wwnTable : w.kind = "switch_port"}])
  /\ UNCHANGED graphVars /\ History

\* Same WWN: server to switch, and switch to target; without any switch, servers
\* and targets directly.  Each link is entered in both layers.
SanPairs(hba, port, target) ==
  {<<x[1].dev, x[2].dev>> : x \in {y \in hba \X port : y[1].wwn = y[2].wwn}}
  \cup {<<x[1].dev, x[2].dev>> : x \in {y \in port \X target : y[1].wwn = y[2].wwn}}
  \cup IF port = {} THEN {<<x[1].dev, x[2].dev>> : x \in hba \X target} ELSE {}

SanLinks(hba, port, target) ==
  {[from |-> x[1], to |-> x[2], layer |-> l] : x \in SanPairs(hba, port, target), l \in Layers}

ReadTargetWwns(j) ==
  LET c == job[j]
      target == {w \in wwnTable : w.kind = "target"} IN
  /\ c.kind = "run" /\ c.at = "readTarget"
  /\ Graph(j, WithLinks(c, SanLinks(c.hba, c.port, target), "wwn", "log"))
  /\ UNCHANGED graphVars /\ History

\* The next link; of two switches that see each other one direction is enough.
Twins(c, x) == {x} \cup IF c.method = "arp"
                         THEN {[x EXCEPT !.from = x.to, !.to = x.from]} ELSE {}

PickLink(j, x) ==
  LET c == job[j] IN
  /\ c.at = "pick" /\ x \in c.todo
  /\ Graph(j, [c EXCEPT !.at = "from", !.link = x, !.todo = @ \ Twins(c, x)])
  /\ UNCHANGED graphVars /\ History

\* What another job adds, or has added, without j being able to see it.
Wanted(c) == IF c.at = "addFrom" THEN {<<c.link.from, c.link.layer>>}
             ELSE IF c.at = "addTo" THEN {<<c.link.to, c.link.layer>>} ELSE {}
NodeUnderWay(j, asset, layer) ==
  \/ \E o \in Jobs \ {j} : <<asset, layer>> \in Wanted(job[o])
  \/ \E n \in NodeIds : /\ nodes[n] # Nil /\ ~Visible(nodes[n], j)
                        /\ nodes[n].asset = asset /\ nodes[n].layer = layer

\* ensureNode: look for the node of one end of the link ...
LookNode(j, end) ==
  LET c == job[j]
      asset == c.link[end]
      found == {n \in NodeIds : Visible(nodes[n], j) /\ nodes[n].asset = asset
                                  /\ nodes[n].layer = c.link.layer}
      next == IF end = "from" THEN "to" ELSE "edge" IN
  /\ c.at = end
  /\ IF found = {}
       THEN /\ Graph(j, [c EXCEPT !.at = IF end = "from" THEN "addFrom" ELSE "addTo"])
            /\ overlapped' = (overlapped \/ NodeUnderWay(j, asset, c.link.layer))
       ELSE /\ \E n \in found : Graph(j, [c EXCEPT !.at = next, ![end] = n])
            /\ UNCHANGED overlapped
  /\ UNCHANGED <<graphVars, overtaken>>

\* ... and insert it if there is none.
Owner(j) == IF job[j].kind = "lldp" THEN 0 ELSE j
AddNode(j, end) ==
  LET c == job[j] IN
  /\ c.at = IF end = "from" THEN "addFrom" ELSE "addTo"
  /\ \E n \in NodeIds :
       /\ Min1({m \in NodeIds : nodes[m] = Nil}, n)
       /\ nodes' = [nodes EXCEPT ![n] = [asset |-> c.link[end], layer |-> c.link.layer,
                                         pos |-> 0, by |-> Owner(j)]]
       /\ Graph(j, [c EXCEPT !.at = IF end = "from" THEN "to" ELSE "edge", ![end] = n])
  /\ UNCHANGED edges /\ History

Joins(e, a, b) == edges[e].from = a /\ edges[e].to = b
EdgeUnderWay(j) ==
  LET c == job[j] IN
  \/ \E o \in Jobs \ {j} : /\ job[o].at = "write"
                           /\ job[o].edge = 0 /\ job[o].from = c.from /\ job[o].to = c.to
  \/ \E e \in EdgeIds : edges[e] # Nil /\ ~Visible(edges[e], j) /\ Joins(e, c.from, c.to)

\* Faulty variant, for testing the properties: the ends are swapped.
BetweenSwapped(j) ==
  {e \in EdgeIds : Visible(edges[e], j) /\ Joins(e, job[j].to, job[j].from)}

\* A run looks for an edge in either direction, an event in its own.
Between(j) ==
  LET c == job[j] IN
  {e \in EdgeIds : /\ Visible(edges[e], j)
                   /\ Joins(e, c.from, c.to) \/ (c.kind = "run" /\ Joins(e, c.to, c.from))}

\* Faulty variant, for testing the properties: LLDP has no priority.
KeepsNone(j, e) == FALSE

\* What LLDP has found is not overwritten by the MAC tables.
KeepsLldp(j, e) == job[j].method = "arp" /\ MethodFor(e, j) = "lldp"

LookEdge(j) ==
  LET c == job[j] IN
  /\ c.at = "edge"
  /\ IF Between(j) = {}
       THEN /\ Graph(j, [c EXCEPT !.at = "write", !.edge = 0])
            /\ overlapped' = (overlapped \/ EdgeUnderWay(j))
       ELSE /\ \E e \in Between(j) :
                 Graph(j, [c EXCEPT !.at = IF KeepsLldp(j, e) THEN "pick" ELSE "write",
                                    !.edge = IF KeepsLldp(j, e) THEN 0 ELSE e])
            /\ UNCHANGED overlapped
  /\ UNCHANGED <<graphVars, overtaken>>

\* An event is over with its edge; a run goes on with the next link.
AfterEdge(c) == IF c.kind = "lldp" THEN NoJob ELSE [c EXCEPT !.at = "pick", !.edge = 0]

InsertEdge(j) ==
  LET c == job[j] IN
  /\ c.at = "write" /\ c.edge = 0
  /\ \E e \in EdgeIds :
       /\ Min1({f \in EdgeIds : edges[f] = Nil}, e)
       /\ edges' = [edges EXCEPT ![e] = [from |-> c.from, to |-> c.to, layer |-> c.link.layer,
                      method |-> c.method, by |-> Owner(j), pending |-> NoChange]]
  /\ Graph(j, AfterEdge(c))
  /\ UNCHANGED nodes /\ History

\* An update waits for the transaction that has updated the row before.
UpdateEdge(j) ==
  LET c == job[j]
      row == edges[c.edge] IN
  /\ c.at = "write" /\ c.edge # 0
  /\ row.pending.by \in {0, j}
  /\ edges' = [edges EXCEPT ![c.edge] =
       IF c.kind = "lldp" \/ row.by = j THEN [row EXCEPT !.method = c.method]
       ELSE [row EXCEPT !.pending = [by |-> j, method |-> c.method]]]
  /\ overtaken' = IF c.kind = "lldp" /\ \E o \in Jobs \ {j} : job[o].at = "write"
                       /\ job[o].edge = c.edge /\ job[o].method = "arp"
                  THEN overtaken \cup {c.edge} ELSE overtaken
  /\ Graph(j, AfterEdge(c))
  /\ UNCHANGED <<nodes, overlapped>>

\* The end of a transaction, for good or ill.
Mine(row, j) == row # Nil /\ row.by = j

CloseNodes(j, keep) ==
  nodes' = [n \in NodeIds |-> IF ~Mine(nodes[n], j) THEN nodes[n]
                              ELSE IF keep THEN [nodes[n] EXCEPT !.by = 0] ELSE Nil]

\* Faulty variant, for testing the properties: edges are written outside of it.
CloseEdgesAnyway(j, keep) ==
  edges' = [e \in EdgeIds |-> IF Mine(edges[e], j) THEN [edges[e] EXCEPT !.by = 0] ELSE edges[e]]

CloseEdges(j, keep) ==
  edges' = [e \in EdgeIds |->
    IF edges[e] = Nil THEN Nil
    ELSE IF Mine(edges[e], j) THEN IF keep THEN [edges[e] EXCEPT !.by = 0] ELSE Nil
    ELSE IF edges[e].pending.by # j THEN edges[e]
    ELSE [edges[e] EXCEPT !.pending = NoChange,
                          !.method = IF keep THEN edges[e].pending.method ELSE @]]

Close(j, keep) == CloseNodes(j, keep) /\ CloseEdges(j, keep)

Commit(j) ==
  LET c == job[j] IN
  /\ c.at = "pick" /\ c.todo = {}
  /\ Close(j, TRUE)
  /\ Graph(j, [kind |-> "run", at |-> IF c.method = "arp" THEN "readSwitch" ELSE "log",
               dry |-> FALSE])
  /\ History

-----------------------------------------------------------------------------
(* The page.                                                               *)

\* load(): the rows of a layer are on their way, what was not saved is dropped.
LoadMap(page) ==
  /\ topoPage' = [page EXCEPT !.dirty = FALSE, !.loading = TRUE]
  /\ pageLoads' = pageLoads \cup
       {[pos |-> [n \in NodeIds |-> IF Visible(nodes'[n], 0) /\ nodes'[n].layer = page.layer
                                    THEN nodes'[n].pos ELSE Nil],
         linked |-> UNION {{edges'[e].from, edges'[e].to} : e \in
                      {f \in EdgeIds : Visible(edges'[f], 0) /\ edges'[f].layer = page.layer}}]}

OnPage == UNCHANGED <<tableVars, graphVars, panel>> /\ History

\* What applyFilter shows of the rows: all, or those with an edge if there is one,
\* and these laid out if nobody has moved any yet.
Filtered(data, all) ==
  LET wanted(n) == data.pos[n] # Nil /\ (all \/ data.linked = {} \/ n \in data.linked)
      moved == \E n \in NodeIds : data.pos[n] \notin {Nil, 0} IN
  [n \in NodeIds |-> IF ~wanted(n) THEN Nil
                     ELSE IF all \/ moved THEN data.pos[n] ELSE Laid]

OpenLayer(layer) ==
  /\ Act
  /\ UNCHANGED <<tableVars, graphVars, panel, job>> /\ History
  /\ LoadMap([topoPage EXCEPT !.layer = layer])

MapArrives(data) ==
  /\ data \in pageLoads
  /\ pageLoads' = pageLoads \ {data}
  /\ topoPage' = [topoPage EXCEPT !.data = data, !.loading = FALSE,
                                  !.shown = Filtered(data, topoPage.all)]
  /\ UNCHANGED <<job, deskVars>> /\ OnPage

ToggleAll ==
  /\ Act
  /\ topoPage' = [topoPage EXCEPT !.all = ~@, !.shown = Filtered(topoPage.data, ~topoPage.all)]
  /\ UNCHANGED <<pageLoads, job>> /\ OnPage

DragNode(n, p) ==
  /\ Act
  /\ ~topoPage.loading /\ topoPage.shown[n] # Nil
  /\ topoPage' = [topoPage EXCEPT !.shown[n] = p, !.dirty = TRUE]
  /\ UNCHANGED <<pageLoads, job>> /\ OnPage

\* The layout shows and moves the hidden nodes as well.
AutoLayout ==
  /\ Act
  /\ topoPage' = [topoPage EXCEPT !.dirty = TRUE,
       !.shown = [n \in NodeIds |-> IF topoPage.data.pos[n] = Nil THEN Nil ELSE Laid]]
  /\ UNCHANGED <<pageLoads, job>> /\ OnPage

SavePositions(j) ==
  /\ Act
  /\ topoPage.dirty /\ ~topoPage.saving
  /\ FreeJob(j)
  /\ job' = [job EXCEPT ![j] = [kind |-> "place", at |-> "rows", to |-> topoPage.shown,
                                rows |-> {n \in NodeIds : topoPage.shown[n] # Nil}]]
  /\ topoPage' = [topoPage EXCEPT !.saving = TRUE]
  /\ UNCHANGED pageLoads /\ OnPage

PlaceNode(j, n) ==
  LET c == job[j] IN
  /\ c.kind = "place" /\ n \in c.rows
  /\ nodes' = [nodes EXCEPT ![n].pos = c.to[n]]
  /\ job' = [job EXCEPT ![j].rows = @ \ {n}]
  /\ UNCHANGED <<tableVars, edges, screenVars, deskVars>> /\ History

PlaceAnswer(j) ==
  /\ job[j].kind = "place" /\ job[j].rows = {}
  /\ job' = [job EXCEPT ![j] = NoJob]
  /\ topoPage' = [topoPage EXCEPT !.dirty = FALSE, !.saving = FALSE]
  /\ UNCHANGED <<pageLoads, deskVars>> /\ OnPage

\* The run is logged and answered; the page loads its layer again, unless it was
\* only a preview.
RunAnswer(j) ==
  /\ job[j].kind = "run" /\ job[j].at = "log"
  /\ job' = [job EXCEPT ![j] = NoJob]
  /\ panel' = [panel EXCEPT !.running = FALSE]
  /\ UNCHANGED <<tableVars, graphVars, deskVars>> /\ History
  /\ IF job[j].dry THEN UNCHANGED <<topoPage, pageLoads>> ELSE LoadMap(topoPage)

\* A statement fails: a run is rolled back, of the others what is written stays.
JobFails(j) ==
  /\ Act
  /\ job[j] # NoJob
  /\ Close(j, FALSE)
  /\ job' = [job EXCEPT ![j] = NoJob]
  /\ panel' = [panel EXCEPT !.running = @ /\ job[j].kind # "run",
                            !.saving = @ /\ job[j].kind # "save"]
  /\ topoPage' = [topoPage EXCEPT !.saving = @ /\ job[j].kind # "place",
                                  !.dirty = @ /\ job[j].kind # "place"]
  /\ UNCHANGED <<tableVars, pageLoads>> /\ History

-----------------------------------------------------------------------------
GraphStep(j) ==
  \/ ReadMacs(j) \/ ReadSwitchWwns(j) \/ ReadTargetWwns(j)
  \/ \E end \in {"from", "to"} : LookNode(j, end) \/ AddNode(j, end)
  \/ LookEdge(j) \/ InsertEdge(j) \/ UpdateEdge(j) \/ Commit(j)
  \/ RunAnswer(j)

PanelNext ==
  \/ TogglePanel
  \/ \E d \in Switches : PickDevice(d) \/ CreateDevice(d) \/ HandleDelete(d)
  \/ \E text \in Texts, v \in SwitchVendors : DoParse(text, v)
  \/ \E j \in Jobs : \/ HandleSave(j) \/ DeleteRows(j) \/ SaveAnswer(j)
                     \/ \E x \in UNION {Parsed(t, v) : t \in Texts, v \in SwitchVendors} :
                          UpsertRow(j, x)
  \/ \E d \in Switches, g \in Gear : WwnSeen(d, g)

MapNext ==
  \/ \E l \in Layers : OpenLayer(l)
  \/ \E data \in pageLoads : MapArrives(data)
  \/ ToggleAll \/ AutoLayout
  \/ \E n \in NodeIds, p \in Places : DragNode(n, p)
  \/ \E j \in Jobs : \/ SavePositions(j) \/ PlaceAnswer(j)
                     \/ \E n \in NodeIds : PlaceNode(j, n)

TopologyNext ==
  \/ desk = "panel" /\ PanelNext
  \/ desk = "map" /\ MapNext
  \/ /\ desk = "graph"
     /\ \E d \in Switches, j \in Jobs, g \in Gear \cup {Stranger} : LldpEvent(j, d, g)
  \/ \E j \in Jobs : \/ GraphStep(j) \/ JobFails(j)
                     \/ \E dry \in BOOLEAN : HandleRun(j, dry)
                     \/ job[j].at = "pick" /\ \E x \in job[j].todo : PickLink(j, x)

TopologySpec == DeskInit /\ TopologyInit /\ [][TopologyNext]_<<topologyVars, deskVars>>

TopologyTypeOK ==
  /\ known \subseteq Switches
  /\ macTable \in [Switches -> SUBSET Gear]
  /\ \A w, x \in wwnTable : w.dev = x.dev /\ w.wwn = x.wwn => w = x
  /\ nodes \in [NodeIds -> NodeRows \cup {Nil}]
  /\ edges \in [EdgeIds -> EdgeRows \cup {Nil}]
  /\ \A e \in EdgeIds : edges[e] # Nil =>
       nodes[edges[e].from] # Nil /\ nodes[edges[e].to] # Nil
  /\ panel.devices \subseteq known /\ panel.asset \in known \cup {Nil}
  /\ topoPage.shown \in [NodeIds -> Places \cup {Nil}]
  /\ topoPage.layer \in Layers
  /\ overlapped \in BOOLEAN /\ overtaken \subseteq EdgeIds

\* An asset has one node in a layer, and two nodes one edge in a direction, unless two
\* writers looked for the row before either could see the other's (run/route.ts and
\* lldp/route.ts look and insert in separate statements).
NoDoubles ==
  ~overlapped =>
    /\ \A m, n \in NodeIds : m # n /\ nodes[m] # Nil /\ nodes[n] # Nil =>
         nodes[m].asset # nodes[n].asset \/ nodes[m].layer # nodes[n].layer
    /\ \A e, f \in EdgeIds : e # f /\ edges[e] # Nil /\ edges[f] # Nil =>
         ~Joins(f, edges[e].from, edges[e].to)

\* What LLDP has found stays, and is at most confirmed as Fibre Channel: no reading of
\* MAC tables overwrites it, unless LLDP reported the link while the run was about to.
LldpKept ==
  [][\A e \in EdgeIds : edges[e] # Nil /\ edges[e].method = "lldp" =>
       edges'[e].method \in {"lldp", "wwn"} \/ e \in overtaken]_<<topologyVars, deskVars>>
=============================================================================
