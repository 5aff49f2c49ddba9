------------------------------ MODULE RackDesk ------------------------------
(***************************************************************************)
(* The rack page and its API (app/api/rack/route.ts).  A unit is placed by *)
(* a check that no other unit is in the way and a write, two statements    *)
(* that no constraint of rack_units ties together; the page works on the   *)
(* rows it loaded last.                                                    *)
(***************************************************************************)
EXTENDS Desk

CONSTANTS
  RackIds, UnitIds,  \* ids the two tables may hand out, numbers
  Devices,           \* assets
  RackTabs,          \* pages open at the same time
  RackSlots,         \* bound: requests in work at the same time, numbers
  Heights,           \* total_u an operator may enter
  MaxSize            \* highest size_u an operator enters

Starts == 1..(CHOOSE h \in Heights : \A g \in Heights : g <= h)
Sizes  == 1..MaxSize
UnitRows == [rack : RackIds, start : Starts, size : Sizes, asset : Devices \cup {Nil}]

\* An id is handed out once.
Unmounted  == [rack |-> Nil, start |-> 0, size |-> 0, asset |-> Nil]
Dismantled == -1

ASSUME RackAssumption ==
  /\ UNION {RackIds, UnitIds, RackSlots} \subseteq Nat
  /\ Heights \subseteq Nat \ {0} /\ MaxSize \in Nat \ {0}
  /\ Nil \notin UnitIds /\ Nil \notin UnitRows \cup {Unmounted}

VARIABLES
  height,    \* racks: total_u, 0 before the row is there, Dismantled after
  units,     \* rack_units: the row, Nil before it is there, Unmounted after
  rackPage,  \* the page of a tab: rows shown, edit mode, the open modal
  rackLoads, \* answers of GET /api/rack on their way to a tab
  rackCall,  \* the request in work in a slot
  raced      \* history: a unit was written between another's check and write

rackVars == <<height, units, rackPage, rackLoads, rackCall, raced>>

Idle == [at |-> "idle"]
Exists(u) == units[u] \notin {Nil, Unmounted}
Rows == [racks |-> height, units |-> [u \in UnitIds |-> IF Exists(u) THEN units[u] ELSE Nil]]

\* The page has just loaded; some racks are there.
RackInit ==
  /\ height \in [RackIds -> Heights \cup {0}]
  /\ units = [u \in UnitIds |-> Nil]
  /\ rackPage = [t \in RackTabs |-> [shown |-> Rows, edit |-> FALSE,
                                     modal |-> Nil, saving |-> FALSE]]
  /\ rackLoads = [t \in RackTabs |-> {}]
  /\ rackCall = [s \in RackSlots |-> Idle]
  /\ raced = FALSE

-----------------------------------------------------------------------------
(* The page.                                                               *)

Page(t, new) == rackPage' = [rackPage EXCEPT ![t] = new]
Lowest(S, x) == x \in S /\ \A y \in S : x <= y
Send(s, call) ==
  /\ Lowest({o \in RackSlots : rackCall[o] = Idle}, s)
  /\ rackCall' = [rackCall EXCEPT ![s] = call]

\* load(): on mount, with the refresh button and after every change.
Load(t) == rackLoads' = [rackLoads EXCEPT ![t] = @ \cup {Rows}]

RackRefresh(t) ==
  /\ Act
  /\ Load(t)
  /\ UNCHANGED <<height, units, rackPage, rackCall, raced>>

\* Answers may overtake each other; the page shows the one that came last.
RackArrive(t, rows) ==
  /\ rows \in rackLoads[t]
  /\ Page(t, [rackPage[t] EXCEPT !.shown = rows])
  /\ rackLoads' = [rackLoads EXCEPT ![t] = @ \ {rows}]
  /\ UNCHANGED <<height, units, rackCall, raced, deskVars>>

ToggleEdit(t) ==
  /\ Act
  /\ rackPage[t].modal = Nil
  /\ Page(t, [rackPage[t] EXCEPT !.edit = ~@])
  /\ UNCHANGED <<height, units, rackLoads, rackCall, raced>>

\* What is in the rack as far as the page knows, and the slots it offers.
Shown(t, r) == {rackPage[t].shown.units[u] : u \in
                  {v \in UnitIds : /\ rackPage[t].shown.units[v] # Nil
                                   /\ rackPage[t].shown.units[v].rack = r}}
Span(x) == (x.start - x.size + 1)..x.start
FreeOnPage(t, r) ==
  (1..rackPage[t].shown.racks[r]) \ UNION {Span(x) : x \in Shown(t, r)}

\* The assets a unit can be given: none, the one it has, and those that the list,
\* loaded when the modal opens, does not show in a rack.
Linkable(asset) ==
  {Nil, asset} \cup {a \in Devices : \A u \in UnitIds : Exists(u) => units[u].asset # a}

\* The modals the edit mode opens: a rack, new or shown; a unit, at a free slot
\* or one that is shown; the question before a deletion.  A modal covers the page.
Modals(t) ==
  LET p == rackPage[t].shown IN
  {[kind |-> "rack", id |-> r] : r \in {Nil} \cup {x \in RackIds : p.racks[x] > 0}}
  \cup {[kind |-> "unit", id |-> Nil, rack |-> r, assets |-> Linkable(Nil)] :
          r \in {x \in RackIds : FreeOnPage(t, x) # {}}}
  \cup {[kind |-> "unit", id |-> u, rack |-> p.units[u].rack,
          assets |-> Linkable(p.units[u].asset)] : u \in {x \in UnitIds : p.units[x] # Nil}}
  \cup {[kind |-> "deleteRack", id |-> r] : r \in {x \in RackIds : p.racks[x] > 0}}
  \cup {[kind |-> "deleteUnit", id |-> u] : u \in {x \in UnitIds : p.units[x] # Nil}}

OpenModal(t, m) ==
  /\ Act
  /\ rackPage[t].edit
  /\ rackPage[t].modal = Nil
  /\ m \in Modals(t)
  /\ Page(t, [rackPage[t] EXCEPT !.modal = m])
  /\ UNCHANGED <<height, units, rackLoads, rackCall, raced>>

CloseModal(t) ==
  /\ Act
  /\ rackPage[t].modal # Nil
  /\ Page(t, [rackPage[t] EXCEPT !.modal = Nil])
  /\ UNCHANGED <<height, units, rackLoads, rackCall, raced>>

SaveRack(t, s, h) ==
  LET m == rackPage[t].modal IN
  /\ Act
  /\ m # Nil /\ m.kind = "rack" /\ ~rackPage[t].saving
  /\ Send(s, [op |-> "rack", at |-> "write", tab |-> t, id |-> m.id, height |-> h])
  /\ Page(t, [rackPage[t] EXCEPT !.saving = TRUE])
  /\ UNCHANGED <<height, units, rackLoads, raced>>

\* The request carries every field of the modal.
SaveUnit(t, s, start, size, asset) ==
  LET m == rackPage[t].modal IN
  /\ Act
  /\ m # Nil /\ m.kind = "unit" /\ ~rackPage[t].saving
  /\ asset \in m.assets
  /\ Send(s, [op |-> "unit", at |-> IF m.id = Nil THEN "rack" ELSE "current", tab |-> t,
              id |-> m.id, row |-> [rack |-> m.rack, start |-> start,
                                    size |-> size, asset |-> asset]])
  /\ Page(t, [rackPage[t] EXCEPT !.saving = TRUE])
  /\ UNCHANGED <<height, units, rackLoads, raced>>

\* One slot up or down: the request carries the id and the new start only, which
\* the API takes for a unit without an asset.
MoveUnit(t, s, u, start) ==
  LET x == rackPage[t].shown.units[u]
      r == rackPage[t].shown.racks IN
  /\ Act
  /\ rackPage[t].edit /\ rackPage[t].modal = Nil
  /\ x # Nil
  /\ start \in {x.start - 1, x.start + 1}
  /\ start \in 1..r[x.rack] /\ start - x.size + 1 >= 1
  /\ Send(s, [op |-> "move", at |-> "current", tab |-> t, id |-> u,
              row |-> [rack |-> Nil, start |-> start, size |-> Nil, asset |-> Nil]])
  /\ UNCHANGED <<height, units, rackPage, rackLoads, raced>>

ConfirmDelete(t, s) ==
  LET m == rackPage[t].modal IN
  /\ Act
  /\ m # Nil /\ m.kind \in {"deleteRack", "deleteUnit"}
  /\ Send(s, [op |-> m.kind, at |-> "write", tab |-> t, id |-> m.id])
  /\ UNCHANGED <<height, units, rackPage, rackLoads, raced>>

\* The answer: the modal closes and the page loads again; a refused unit keeps its
\* modal.  The answer closes whatever modal of its kind is open by now.
Kinds(op) == CASE op = "rack" -> {"rack"}
               [] op = "unit" -> {"unit"}
               [] op = "move" -> {}
               [] OTHER -> {"deleteRack", "deleteUnit"}

RackAnswer(s) ==
  LET c == rackCall[s]
      p == rackPage[c.tab]
      refused == c.at = "refused" /\ c.op \in {"unit", "move"}
      closes == ~refused /\ p.modal # Nil /\ p.modal.kind \in Kinds(c.op) IN
  /\ c.at \in {"done", "refused"}
  /\ Page(c.tab, [p EXCEPT !.modal = IF closes THEN Nil ELSE @,
                           !.saving = IF c.op \in {"rack", "unit"} THEN FALSE ELSE @])
  /\ IF refused THEN UNCHANGED rackLoads ELSE Load(c.tab)
  /\ rackCall' = [rackCall EXCEPT ![s] = Idle]
  /\ UNCHANGED <<height, units, raced, deskVars>>

-----------------------------------------------------------------------------
(* The API.                                                                *)

To(s, at) == rackCall' = [rackCall EXCEPT ![s].at = at]
ToRow(s, at, row) == rackCall' = [rackCall EXCEPT ![s].at = at, ![s].row = row]
Reads == UNCHANGED <<height, units, rackPage, rackLoads, raced, deskVars>>

\* update_unit: what the request leaves out is taken from the row.
ReadCurrent(s) ==
  LET c == rackCall[s] IN
  /\ c.at = "current"
  /\ IF Exists(c.id)
       THEN ToRow(s, "rack", [c.row EXCEPT !.rack = units[c.id].rack,
                     !.size = IF @ = Nil THEN units[c.id].size ELSE @])
       ELSE To(s, "refused")
  /\ Reads

Fits(x) == x.start \in 1..height[x.rack] /\ x.start - x.size + 1 >= 1

\* An update whose rack is gone is not held up by the range.
ReadRack(s) ==
  LET c == rackCall[s] IN
  /\ c.at = "rack"
  /\ To(s, IF Fits(c.row) \/ (c.id # Nil /\ height[c.row.rack] <= 0)
             THEN "overlap" ELSE "refused")
  /\ Reads

\* Faulty variant, for testing the properties: an off-by-one at the upper end.
InTheWayOffByOne(x, y) ==
  /\ x.rack = y.rack
  /\ y.start - y.size + 1 < x.start
  /\ x.start - x.size + 1 < y.start + 1

\* The comparison of the SQL, y a row and x the request.
InTheWay(x, y) ==
  /\ x.rack = y.rack
  /\ y.start - y.size + 1 < x.start + 1
  /\ x.start - x.size + 1 < y.start + 1

CheckOverlap(s) ==
  LET c == rackCall[s] IN
  /\ c.at = "overlap"
  /\ To(s, IF \E u \in UnitIds \ {c.id} : Exists(u) /\ InTheWay(c.row, units[u])
             THEN "refused" ELSE "write")
  /\ Reads

Placing(s) == rackCall[s].at = "write" /\ rackCall[s].op \in {"unit", "move"}

\* INSERT, which needs its rack, or UPDATE by id, which may find no row.
WriteUnit(s) ==
  LET c == rackCall[s] IN
  /\ Placing(s)
  /\ raced' = (raced \/ \E o \in RackSlots \ {s} : Placing(o))
  /\ \/ /\ c.id = Nil /\ height[c.row.rack] > 0
        /\ \E u \in UnitIds : /\ Lowest({v \in UnitIds : units[v] = Nil}, u)
                              /\ units' = [units EXCEPT ![u] = c.row]
        /\ To(s, "done")
     \/ /\ c.id = Nil /\ height[c.row.rack] <= 0
        /\ To(s, "refused")
        /\ UNCHANGED units
     \/ /\ c.id # Nil
        /\ units' = IF Exists(c.id) THEN [units EXCEPT ![c.id] = c.row] ELSE units
        /\ To(s, "done")
  /\ UNCHANGED <<height, rackPage, rackLoads, deskVars>>

\* create_rack and update_rack: the height is taken as it is, whatever is mounted.
WriteRack(s) ==
  LET c == rackCall[s] IN
  /\ c.at = "write" /\ c.op = "rack"
  /\ IF c.id = Nil
       THEN \E r \in RackIds : /\ Lowest({q \in RackIds : height[q] = 0}, r)
                              /\ height' = [height EXCEPT ![r] = c.height]
       ELSE height' = [height EXCEPT ![c.id] = IF @ > 0 THEN c.height ELSE @]
  /\ To(s, "done")
  /\ UNCHANGED <<units, rackPage, rackLoads, raced, deskVars>>

\* Deleting a rack deletes its units with it.
DeleteRow(s) ==
  LET c == rackCall[s] IN
  /\ c.at = "write" /\ c.op \in {"deleteRack", "deleteUnit"}
  /\ IF c.op = "deleteRack"
       THEN /\ height' = [height EXCEPT ![c.id] = Dismantled]
            /\ units' = [u \in UnitIds |-> IF Exists(u) /\ units[u].rack = c.id
                                             THEN Unmounted ELSE units[u]]
       ELSE units' = [units EXCEPT ![c.id] = Unmounted] /\ UNCHANGED height
  /\ To(s, "done")
  /\ UNCHANGED <<rackPage, rackLoads, raced, deskVars>>

-----------------------------------------------------------------------------
RackWork(s) == \/ ReadCurrent(s) \/ ReadRack(s) \/ CheckOverlap(s) \/ WriteUnit(s)
               \/ WriteRack(s) \/ DeleteRow(s) \/ RackAnswer(s)

RackNext ==
  \/ \E t \in RackTabs :
       \/ RackRefresh(t) \/ ToggleEdit(t) \/ CloseModal(t)
       \/ \E m \in Modals(t) : OpenModal(t, m)
       \/ \E rows \in rackLoads[t] : RackArrive(t, rows)
       \/ \E s \in RackSlots :
            \/ \E h \in Heights : SaveRack(t, s, h)
            \/ \E a \in Devices \cup {Nil}, st \in Starts, sz \in Sizes :
                 SaveUnit(t, s, st, sz, a)
            \/ \E u \in UnitIds, st \in Starts : MoveUnit(t, s, u, st)
            \/ ConfirmDelete(t, s)
  \/ \E s \in RackSlots : RackWork(s)

RackSpec == DeskInit /\ RackInit /\ [][RackNext]_<<rackVars, deskVars>>

RackTypeOK ==
  /\ height \in [RackIds -> Heights \cup {0, Dismantled}]
  /\ units \in [UnitIds -> UnitRows \cup {Nil, Unmounted}]
  /\ \A t \in RackTabs :
       /\ rackPage[t].shown.units \in [UnitIds -> UnitRows \cup {Nil}]
       /\ rackPage[t].edit \in BOOLEAN /\ rackPage[t].saving \in BOOLEAN
  /\ \A s \in RackSlots : rackCall[s].at \in
       {"idle", "current", "rack", "overlap", "write", "done", "refused"}
  /\ raced \in BOOLEAN

\* No two units of a rack share a slot, unless a unit was written between the check
\* and the write of another one (route.ts checks and writes in separate statements),
\* and no unit reaches below the bottom of its rack.
SlotsDisjoint ==
  /\ ~raced => \A u, v \in UnitIds :
       u # v /\ Exists(u) /\ Exists(v) /\ units[u].rack = units[v].rack
         => Span(units[u]) \cap Span(units[v]) = {}
  /\ \A u \in UnitIds : Exists(u) => Span(units[u]) \subseteq Nat \ {0}
=============================================================================
