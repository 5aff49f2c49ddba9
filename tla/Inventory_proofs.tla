-------------------------- MODULE Inventory_proofs --------------------------
(***************************************************************************)
(* Proofs about the other areas of Inventory: the racks, the address plan, *)
(* the settings of the predictions and the topology, each with its         *)
(* inductive invariant; then all areas at work together.                   *)
(***************************************************************************)
EXTENDS Inventory, Records_proofs

-----------------------------------------------------------------------------
(* The racks, for any racks, units, tabs and requests at the same time.    *)

Bottom(x) == x.start - x.size + 1

\* A modal for a unit names a unit, or the rack that a new one is for.
UnitNamed(m) == m # Nil /\ m.kind = "unit" => /\ m.id \in UnitIds \cup {Nil}
                                              /\ m.id = Nil => m.rack \in RackIds
ModalFits(p) ==
  /\ p \in [shown : {p.shown}, edit : {p.edit}, modal : {p.modal}, saving : {p.saving}]
  /\ UnitNamed(p.modal)

\* A request; past the reading of what it leaves out, its row is complete.
Shelves(c) ==
  /\ c \in [op : {"unit", "move"},
            at : {"current", "rack", "overlap", "write", "done", "refused"},
            tab : RackTabs, id : UnitIds \cup {Nil}, row : {c.row}]
  /\ c.row \in [rack : {c.row.rack}, start : Starts, size : Sizes \cup {Nil},
                asset : Devices \cup {Nil}]
  /\ c.at = "current" => c.id \in UnitIds
  /\ c.at \in {"rack", "overlap", "write"} => c.row \in UnitRows
Others(c) ==
  \/ c = Idle
  \/ c \in [op : {"rack"}, at : {"write", "done"}, tab : RackTabs, id : {c.id},
            height : Heights]
  \/ c \in [op : {"deleteRack", "deleteUnit"}, at : {"write", "done"}, tab : RackTabs,
            id : {c.id}]

\* The unit of an update has been there, and has not changed its rack.
StaysIn(c) ==
  c.at \in {"rack", "overlap", "write"} /\ c.id # Nil =>
    units[c.id] # Nil /\ (Exists(c.id) => units[c.id].rack = c.row.rack)

\* What passed the range fits, but for an update of a unit that is gone for good.
Ranged(c) ==
  c.at \in {"overlap", "write"} =>
    Bottom(c.row) >= 1 \/ (c.id # Nil /\ ~Exists(c.id))

\* What passed the check has no other unit in its way, unless requests crossed.
Clear(c) ==
  ~raced /\ c.at = "write" =>
    \A u \in UnitIds \ {c.id} : Exists(u) => ~InTheWay(c.row, units[u])

CallStands(c) == Others(c) \/ (Shelves(c) /\ StaysIn(c) /\ Ranged(c) /\ Clear(c))

\* SlotsDisjoint is not inductive: what a request found before it writes must still
\* hold of the rows when it does.
UnitsStand ==
  /\ \A u \in UnitIds : Exists(u) => height[units[u].rack] > 0 /\ Bottom(units[u]) >= 1
  /\ ~raced => \A u \in UnitIds : \A v \in UnitIds \ {u} :
                 Exists(u) /\ Exists(v) => ~InTheWay(units[u], units[v])

RackTyped ==
  /\ height \in [RackIds -> Int]
  /\ units \in [UnitIds -> UnitRows \cup {Nil, Unmounted}]
  /\ raced \in BOOLEAN

PagesFit == /\ rackPage = [t \in RackTabs |-> rackPage[t]]
            /\ \A t \in RackTabs : ModalFits(rackPage[t])
CallsStand == /\ rackCall = [s \in RackSlots |-> rackCall[s]]
              /\ \A s \in RackSlots : CallStands(rackCall[s])

RackInv == RackTyped /\ PagesFit /\ UnitsStand /\ CallsStand

-----------------------------------------------------------------------------
\* The numbers of a row are numbers.
LEMMA RowNumbers ==
  ASSUME NEW x \in UnitRows
  PROVE  x.rack \in RackIds /\ x.start \in Int /\ x.size \in Int /\ x.size >= 1
  BY RackAssumption DEF UnitRows, Starts, Sizes

\* Two rows of a rack share a slot only when one is in the way of the other.
LEMMA InTheWaySpans ==
  ASSUME NEW x \in UnitRows, NEW y \in UnitRows, x.rack = y.rack, ~InTheWay(x, y)
  PROVE  Span(x) \cap Span(y) = {}
  BY RowNumbers DEF InTheWay, Span

LEMMA InTheWaySymmetric ==
  ASSUME NEW x \in UnitRows, NEW y \in UnitRows, InTheWay(x, y)
  PROVE  InTheWay(y, x)
  BY RowNumbers DEF InTheWay

LEMMA ExistsRow ==
  ASSUME RackTyped, NEW u \in UnitIds, Exists(u)
  PROVE  units[u] \in UnitRows
  BY DEF RackTyped, Exists

LEMMA RackDisjoint == RackInv => SlotsDisjoint
<1>. SUFFICES ASSUME RackInv PROVE SlotsDisjoint
  OBVIOUS
<1>1. ASSUME ~raced, NEW u \in UnitIds, NEW v \in UnitIds, u # v, Exists(u), Exists(v),
             units[u].rack = units[v].rack
      PROVE  Span(units[u]) \cap Span(units[v]) = {}
  BY <1>1, ExistsRow, InTheWaySpans DEF RackInv, UnitsStand
<1>2. ASSUME NEW u \in UnitIds, Exists(u) PROVE Span(units[u]) \subseteq Nat \ {0}
  BY <1>2, ExistsRow, RowNumbers DEF RackInv, UnitsStand, Span, Bottom
<1>. QED BY <1>1, <1>2 DEF SlotsDisjoint

LEMMA RackInitHolds == RackInit => RackInv
<1>. SUFFICES ASSUME RackInit PROVE RackInv
  OBVIOUS
<1>0. Heights \cup {0} \subseteq Int
  BY RackAssumption
<1>1. height \in [RackIds -> Int]
  BY <1>0 DEF RackInit
<1>2. \A u \in UnitIds : ~Exists(u)
  BY DEF RackInit, Exists
<1>3. RackTyped /\ UnitsStand
  BY <1>1, <1>2 DEF RackInit, RackTyped, UnitsStand
<1>4. PagesFit
  BY DEF RackInit, PagesFit, ModalFits, UnitNamed
<1>5. CallsStand
  BY DEF RackInit, CallsStand, CallStands, Others
<1>. QED BY <1>3, <1>4, <1>5 DEF RackInv

-----------------------------------------------------------------------------
LEMMA ModalFields ==
  ASSUME NEW p, ModalFits(p)
  PROVE  /\ \A v : ModalFits([p EXCEPT !.shown = v]) /\ ModalFits([p EXCEPT !.edit = v])
                   /\ ModalFits([p EXCEPT !.saving = v])
         /\ ModalFits([p EXCEPT !.modal = Nil])
         /\ \A v : ModalFits([p EXCEPT !.modal = Nil, !.saving = v])
         /\ \A v : ModalFits([p EXCEPT !.modal = p.modal, !.saving = v])
         /\ \A m : UnitNamed(m) => ModalFits([p EXCEPT !.modal = m])
<1>1. p \in [shown : {p.shown}, edit : {p.edit}, modal : {p.modal}, saving : {p.saving}]
  BY DEF ModalFits
<1>2. \A v : /\ ModalFits([p EXCEPT !.shown = v]) /\ ModalFits([p EXCEPT !.edit = v])
             /\ ModalFits([p EXCEPT !.saving = v])
  BY <1>1 DEF ModalFits
<1>3. ModalFits([p EXCEPT !.modal = Nil])
  BY <1>1 DEF ModalFits, UnitNamed
<1>4. \A v : ModalFits([p EXCEPT !.modal = Nil, !.saving = v])
  BY <1>1 DEF ModalFits, UnitNamed
<1>5. \A v : ModalFits([p EXCEPT !.modal = p.modal, !.saving = v])
  BY <1>1 DEF ModalFits
<1>6. ASSUME NEW m, UnitNamed(m)
      PROVE  ModalFits([p EXCEPT !.modal = m])
  <2>. DEFINE q == [p EXCEPT !.modal = m]
  <2>1. q.modal = m /\ q \in [shown : {q.shown}, edit : {q.edit}, modal : {q.modal},
                              saving : {q.saving}]
    BY <1>1
  <2>. HIDE DEF q
  <2>2. ModalFits(q)
    BY <1>6, <2>1 DEF ModalFits
  <2>. QED BY <2>2 DEF q
<1>. QED BY <1>2, <1>3, <1>4, <1>5, <1>6

\* A step that leaves the rows alone and gives one request and one page a new value.
LEMMA SlotStands ==
  ASSUME RackInv, UNCHANGED <<height, units, raced>>, PagesFit',
         NEW s, NEW c, CallStands(c),
         rackCall' = [rackCall EXCEPT ![s] = c] \/ UNCHANGED rackCall
  PROVE  RackInv'
<1>1. RackTyped' /\ UnitsStand'
  BY DEF RackInv, RackTyped, UnitsStand, Exists
<1>2. \A d : CallStands(d) => CallStands(d)'
  BY DEF CallStands, Others, Shelves, StaysIn, Ranged, Clear, Exists
<1>3. \A o \in RackSlots : rackCall'[o] \in {rackCall[o], c}
  BY DEF RackInv, CallsStand
<1>4. rackCall' = [o \in RackSlots |-> rackCall'[o]]
  BY DEF RackInv, CallsStand
<1>5. \A o \in RackSlots : CallStands(rackCall'[o])
  BY <1>3 DEF RackInv, CallsStand
<1>6. CallsStand'
  BY <1>2, <1>4, <1>5 DEF CallsStand
<1>. QED BY <1>1, <1>6 DEF RackInv

LEMMA PageGets ==
  ASSUME PagesFit, NEW t \in RackTabs, NEW p, ModalFits(p), Page(t, p)
  PROVE  PagesFit'
<1>1. \A o \in RackTabs : rackPage'[o] \in {rackPage[o], p}
  BY DEF PagesFit, Page
<1>2. rackPage' = [o \in RackTabs |-> rackPage'[o]]
  BY DEF PagesFit, Page
<1>3. \A o \in RackTabs : ModalFits(rackPage'[o])
  BY <1>1 DEF PagesFit
<1>. QED BY <1>2, <1>3 DEF PagesFit, ModalFits, UnitNamed

\* A step that changes no row and no request.
LEMMA RequestsStand ==
  ASSUME RackInv, UNCHANGED <<height, units, raced, rackCall>>, PagesFit'
  PROVE  RackInv'
<1>1. CallStands(Idle)
  BY DEF CallStands, Others
<1>. QED BY <1>1, SlotStands

LEMMA ModalsNamed ==
  ASSUME NEW t \in RackTabs, NEW m \in Modals(t)
  PROVE  UnitNamed(m)
  BY RackAssumption DEF Modals, UnitNamed

LEMMA RackPageHolds ==
  ASSUME RackInv, NEW t \in RackTabs,
         \/ RackRefresh(t) \/ ToggleEdit(t) \/ CloseModal(t)
         \/ \E m \in Modals(t) : OpenModal(t, m)
         \/ \E rows \in rackLoads[t] : RackArrive(t, rows)
  PROVE  RackInv'
<1>1. PagesFit /\ ModalFits(rackPage[t])
  BY DEF RackInv, PagesFit
<1>2. CASE RackRefresh(t)
  <2>1. PagesFit'
    BY <1>1, <1>2 DEF RackRefresh, PagesFit, ModalFits, UnitNamed
  <2>. QED BY <1>2, <2>1, RequestsStand DEF RackRefresh
<1>3. CASE ToggleEdit(t)
  <2>1. ModalFits([rackPage[t] EXCEPT !.edit = ~rackPage[t].edit])
    BY <1>1, ModalFields, Zenon
  <2>2. PagesFit'
    BY <1>1, <1>3, <2>1, PageGets DEF ToggleEdit
  <2>. QED BY <1>3, <2>2, RequestsStand DEF ToggleEdit
<1>4. CASE CloseModal(t)
  <2>1. ModalFits([rackPage[t] EXCEPT !.modal = Nil])
    BY <1>1, ModalFields
  <2>2. PagesFit'
    BY <1>1, <1>4, <2>1, PageGets DEF CloseModal
  <2>. QED BY <1>4, <2>2, RequestsStand DEF CloseModal
<1>5. ASSUME NEW m \in Modals(t), OpenModal(t, m) PROVE RackInv'
  <2>1. ModalFits([rackPage[t] EXCEPT !.modal = m])
    BY <1>1, ModalFields, ModalsNamed
  <2>2. PagesFit'
    BY <1>1, <1>5, <2>1, PageGets DEF OpenModal
  <2>. QED BY <1>5, <2>2, RequestsStand DEF OpenModal
<1>6. ASSUME NEW rows \in rackLoads[t], RackArrive(t, rows) PROVE RackInv'
  <2>1. ModalFits([rackPage[t] EXCEPT !.shown = rows])
    BY <1>1, ModalFields
  <2>2. PagesFit'
    BY <1>1, <1>6, <2>1, PageGets DEF RackArrive
  <2>. QED BY <1>6, <2>2, RequestsStand DEF RackArrive
<1>. QED BY <1>2, <1>3, <1>4, <1>5, <1>6

\* A request of the page carries what its modal names, and has read nothing yet.
LEMMA RackSendHolds ==
  ASSUME RackInv, NEW t \in RackTabs, NEW s \in RackSlots,
         \/ \E h \in Heights : SaveRack(t, s, h)
         \/ \E a \in Devices \cup {Nil}, st \in Starts, sz \in Sizes : SaveUnit(t, s, st, sz, a)
         \/ \E u \in UnitIds, st \in Starts : MoveUnit(t, s, u, st)
         \/ ConfirmDelete(t, s)
  PROVE  RackInv'
<1>1. PagesFit /\ ModalFits(rackPage[t])
  BY DEF RackInv, PagesFit
<1>2. ModalFits([rackPage[t] EXCEPT !.saving = TRUE])
  BY <1>1, ModalFields, Zenon
<1>3. ASSUME NEW h \in Heights, SaveRack(t, s, h) PROVE RackInv'
  <2>. DEFINE c == [op |-> "rack", at |-> "write", tab |-> t, id |-> rackPage[t].modal.id,
                    height |-> h]
  <2>1. CallStands(c)
    BY DEF CallStands, Others
  <2>2. rackCall' = [rackCall EXCEPT ![s] = c] /\ PagesFit'
    BY <1>1, <1>2, <1>3, PageGets DEF SaveRack, Send
  <2>. HIDE DEF c
  <2>. QED BY <1>3, <2>1, <2>2, SlotStands DEF SaveRack
<1>4. ASSUME NEW a \in Devices \cup {Nil}, NEW st \in Starts, NEW sz \in Sizes,
             SaveUnit(t, s, st, sz, a)
      PROVE  RackInv'
  <2>. DEFINE m == rackPage[t].modal
              c == [op |-> "unit", at |-> IF m.id = Nil THEN "rack" ELSE "current", tab |-> t,
                    id |-> m.id, row |-> [rack |-> m.rack, start |-> st, size |-> sz,
                                          asset |-> a]]
  <2>1. UnitNamed(m) /\ m # Nil /\ m.kind = "unit"
    BY <1>1, <1>4 DEF ModalFits, SaveUnit
  <2>2. m.id \in UnitIds \cup {Nil} /\ (m.id = Nil => m.rack \in RackIds)
    BY <2>1 DEF UnitNamed
  <2>3. CallStands(c)
    BY <2>2 DEF CallStands, Shelves, StaysIn, Ranged, Clear, UnitRows
  <2>4. rackCall' = [rackCall EXCEPT ![s] = c] /\ PagesFit'
    BY <1>1, <1>2, <1>4, PageGets DEF SaveUnit, Send
  <2>. HIDE DEF c
  <2>. QED BY <1>4, <2>3, <2>4, SlotStands DEF SaveUnit
<1>5. ASSUME NEW u \in UnitIds, NEW st \in Starts, MoveUnit(t, s, u, st) PROVE RackInv'
  <2>. DEFINE c == [op |-> "move", at |-> "current", tab |-> t, id |-> u,
                    row |-> [rack |-> Nil, start |-> st, size |-> Nil, asset |-> Nil]]
  <2>1. CallStands(c)
    BY DEF CallStands, Shelves, StaysIn, Ranged, Clear
  <2>2. rackCall' = [rackCall EXCEPT ![s] = c] /\ PagesFit'
    BY <1>1, <1>5 DEF MoveUnit, Send, PagesFit, ModalFits, UnitNamed
  <2>. HIDE DEF c
  <2>. QED BY <1>5, <2>1, <2>2, SlotStands DEF MoveUnit
<1>6. CASE ConfirmDelete(t, s)
  <2>. DEFINE m == rackPage[t].modal
              c == [op |-> m.kind, at |-> "write", tab |-> t, id |-> m.id]
  <2>1. CallStands(c)
    BY <1>6 DEF ConfirmDelete, CallStands, Others
  <2>2. rackCall' = [rackCall EXCEPT ![s] = c] /\ PagesFit'
    BY <1>1, <1>6 DEF ConfirmDelete, Send, PagesFit, ModalFits, UnitNamed
  <2>. HIDE DEF c
  <2>. QED BY <1>6, <2>1, <2>2, SlotStands DEF ConfirmDelete
<1>. QED BY <1>3, <1>4, <1>5, <1>6

\* A request that goes on without learning anything stands.
LEMMA MovedOn ==
  ASSUME NEW c, NEW at, Shelves(c), at \in {"refused", "done"}
  PROVE  CallStands([c EXCEPT !.at = at])
<1>1. Shelves([c EXCEPT !.at = at])
  BY DEF Shelves
<1>2. [c EXCEPT !.at = at].at = at
  BY DEF Shelves
<1>. QED BY <1>1, <1>2 DEF CallStands, StaysIn, Ranged, Clear

\* A slot at one of the steps of a placement holds a placement.
LEMMA PlacesAt ==
  ASSUME RackInv, NEW s \in RackSlots,
         rackCall[s].at \in {"current", "rack", "overlap"} \/ Placing(s)
  PROVE  /\ Shelves(rackCall[s]) /\ StaysIn(rackCall[s])
         /\ Ranged(rackCall[s]) /\ Clear(rackCall[s])
<1>1. CallStands(rackCall[s])
  BY DEF RackInv, CallsStand
<1>2. ~Others(rackCall[s])
  BY DEF Others, Idle, Placing
<1>. QED BY <1>1, <1>2 DEF CallStands

LEMMA RackReadHolds ==
  ASSUME RackInv, NEW s \in RackSlots, ReadCurrent(s) \/ ReadRack(s) \/ CheckOverlap(s)
  PROVE  RackInv'
<1>. DEFINE c == rackCall[s]
<1>1. /\ Shelves(c) /\ StaysIn(c) /\ Ranged(c)
      /\ c.at \in {"current", "rack", "overlap"}
      /\ UNCHANGED <<height, units, raced>> /\ PagesFit'
  BY PlacesAt DEF ReadCurrent, ReadRack, CheckOverlap, Reads, RackInv, PagesFit, ModalFits,
                  UnitNamed
<1>2. RackTyped /\ UnitsStand
  BY DEF RackInv
<1>3. ASSUME To(s, "refused") PROVE RackInv'
  <2>1. CallStands([c EXCEPT !.at = "refused"])
    BY <1>1, MovedOn
  <2>2. rackCall' = [rackCall EXCEPT ![s] = [c EXCEPT !.at = "refused"]]
    BY <1>3 DEF To
  <2>. QED BY <1>1, <2>1, <2>2, SlotStands
<1>4. CASE ReadCurrent(s) /\ Exists(c.id)
  <2>. DEFINE row == [c.row EXCEPT !.rack = units[c.id].rack,
                                   !.size = IF @ = Nil THEN units[c.id].size ELSE @]
              d == [c EXCEPT !.at = "rack", !.row = row]
  <2>1. rackCall' = [rackCall EXCEPT ![s] = d]
    BY <1>4 DEF ReadCurrent, ToRow
  <2>2. c.id \in UnitIds /\ units[c.id] \in UnitRows
    <3>1. c.id \in UnitIds
      BY <1>1, <1>4 DEF Shelves, ReadCurrent
    <3>. QED BY <1>2, <1>4, <3>1, ExistsRow
  <2>3. row \in UnitRows /\ row.rack = units[c.id].rack
    BY <1>1, <2>2 DEF Shelves, UnitRows
  <2>4. /\ d.at = "rack" /\ d.id = c.id /\ d.row = row
        /\ d \in [op : {"unit", "move"},
                  at : {"current", "rack", "overlap", "write", "done", "refused"},
                  tab : RackTabs, id : UnitIds \cup {Nil}, row : {d.row}]
    BY <1>1 DEF Shelves
  <2>. HIDE DEF d, row
  <2>5. Shelves(d)
    BY <2>2, <2>3, <2>4 DEF Shelves, UnitRows
  <2>6. units[d.id] # Nil /\ units[d.id].rack = d.row.rack
    BY <1>4, <2>3, <2>4 DEF Exists
  <2>7. CallStands(d)
    BY <2>4, <2>5, <2>6 DEF CallStands, StaysIn, Ranged, Clear
  <2>. QED BY <1>1, <2>1, <2>7, SlotStands
<1>5. CASE ReadRack(s) /\ (Fits(c.row) \/ (c.id # Nil /\ height[c.row.rack] <= 0))
  <2>. DEFINE d == [c EXCEPT !.at = "overlap"]
  <2>1. rackCall' = [rackCall EXCEPT ![s] = d]
    BY <1>5 DEF ReadRack, To
  <2>2. c.at = "rack"
    BY <1>5 DEF ReadRack
  <2>3. d.at = "overlap" /\ d.id = c.id /\ d.row = c.row /\ Shelves(d)
    BY <1>1, <2>2 DEF Shelves
  <2>4. c.id # Nil /\ Exists(c.id) => height[c.row.rack] > 0
    BY <1>1, <1>2, <2>2 DEF StaysIn, UnitsStand, Shelves, RackTyped
  <2>5. Ranged(d)
    <3>1. c.row.rack \in RackIds /\ height[c.row.rack] \in Int
      BY <1>1, <1>2, <2>2, RowNumbers DEF Shelves, RackTyped
    <3>. QED BY <1>5, <2>3, <2>4, <3>1 DEF Ranged, Fits, Bottom
  <2>6. StaysIn(d)
    BY <1>1, <2>2, <2>3 DEF StaysIn
  <2>7. CallStands(d)
    BY <2>3, <2>5, <2>6 DEF CallStands, Clear
  <2>. HIDE DEF d
  <2>. QED BY <1>1, <2>1, <2>7, SlotStands
<1>6. CASE /\ CheckOverlap(s)
           /\ \A u \in UnitIds \ {c.id} : Exists(u) => ~InTheWay(c.row, units[u])
  <2>. DEFINE d == [c EXCEPT !.at = "write"]
  <2>1. rackCall' = [rackCall EXCEPT ![s] = d]
    BY <1>6 DEF CheckOverlap, To
  <2>2. c.at = "overlap"
    BY <1>6 DEF CheckOverlap
  <2>3. d.at = "write" /\ d.id = c.id /\ d.row = c.row /\ Shelves(d)
    BY <1>1, <2>2 DEF Shelves
  <2>4. Ranged(d) /\ StaysIn(d) /\ Clear(d)
    BY <1>1, <1>6, <2>2, <2>3 DEF Ranged, StaysIn, Clear
  <2>5. CallStands(d)
    BY <2>3, <2>4 DEF CallStands
  <2>. HIDE DEF d
  <2>. QED BY <1>1, <2>1, <2>5, SlotStands
<1>. QED BY <1>3, <1>4, <1>5, <1>6 DEF ReadCurrent, ReadRack, CheckOverlap

LEMMA RackAnswerHolds ==
  ASSUME RackInv, NEW s \in RackSlots, RackAnswer(s)
  PROVE  RackInv'
<1>. DEFINE c == rackCall[s]
            p == rackPage[c.tab]
            refused == c.at = "refused" /\ c.op \in {"unit", "move"}
            closes == ~refused /\ p.modal # Nil /\ p.modal.kind \in Kinds(c.op)
            save == IF c.op \in {"rack", "unit"} THEN FALSE ELSE p.saving
<1>1. c.tab \in RackTabs
  <2>1. CallStands(c) /\ c.at \in {"done", "refused"}
    BY DEF RackInv, CallsStand, RackAnswer
  <2>. QED BY <2>1 DEF CallStands, Others, Shelves, Idle
<1>2. PagesFit /\ ModalFits(p)
  BY <1>1 DEF RackInv, PagesFit
<1>3. Page(c.tab, [p EXCEPT !.modal = IF closes THEN Nil ELSE p.modal, !.saving = save])
  BY DEF RackAnswer
<1>4. ModalFits([p EXCEPT !.modal = IF closes THEN Nil ELSE p.modal, !.saving = save])
  <2>1. CASE closes
    BY <1>2, <2>1, ModalFields
  <2>2. CASE ~closes
    BY <1>2, <2>2, ModalFields
  <2>. QED BY <2>1, <2>2
<1>5. PagesFit'
  BY <1>1, <1>2, <1>3, <1>4, PageGets
<1>6. CallStands(Idle) /\ rackCall' = [rackCall EXCEPT ![s] = Idle]
  BY DEF CallStands, Others, RackAnswer
<1>. QED BY <1>5, <1>6, SlotStands DEF RackAnswer

\* A step that takes rows away leaves what requests know of the rest.
LEMMA RowsMayGo ==
  ASSUME UNCHANGED raced, \A u \in UnitIds : units'[u] \in {units[u], Unmounted},
         NEW c, CallStands(c)
  PROVE  CallStands(c)'
<1>1. Unmounted # Nil
  BY RackAssumption
<1>2. \A u \in UnitIds : Exists(u)' => Exists(u) /\ units'[u] = units[u]
  BY DEF Exists
<1>3. Others(c) => Others(c)'
  BY DEF Others
<1>4. CASE Shelves(c) /\ StaysIn(c) /\ Ranged(c) /\ Clear(c)
  <2>1. Shelves(c)' /\ c.id \in UnitIds \cup {Nil}
    BY <1>4 DEF Shelves
  <2>2. StaysIn(c)'
    BY <1>1, <1>2, <1>4, <2>1 DEF StaysIn
  <2>3. Ranged(c)'
    BY <1>2, <1>4, <2>1 DEF Ranged
  <2>4. Clear(c)'
    BY <1>2, <1>4 DEF Clear
  <2>. QED BY <2>1, <2>2, <2>3, <2>4 DEF CallStands
<1>. QED BY <1>3, <1>4 DEF CallStands

\* The request of a slot is over; those of the other slots still stand.
LEMMA RequestEnds ==
  ASSUME CallsStand, NEW s \in RackSlots, NEW at \in {"done", "refused"}, To(s, at),
         at = "done" \/ Shelves(rackCall[s]), rackCall[s] # Idle,
         \A o \in RackSlots \ {s} : \A e : e = rackCall[o] => CallStands(e)'
  PROVE  CallsStand'
<1>1. PICK c : c = rackCall[s]
  OBVIOUS
<1>2. PICK d : d = [c EXCEPT !.at = at]
  OBVIOUS
<1>3. CallStands(c) /\ c # Idle
  BY <1>1 DEF CallsStand
<1>4. Others(c) /\ at = "done" => Others(d)
  BY <1>2, <1>3 DEF Others
<1>5. Shelves(c) => Shelves(d) /\ d.at = at
  BY <1>2 DEF Shelves
<1>6. Others(d)' \/ (Shelves(d)' /\ d.at = at)
  BY <1>1, <1>3, <1>4, <1>5 DEF CallStands, Others, Shelves
<1>7. CallStands(d)'
  BY <1>6 DEF CallStands, StaysIn, Ranged, Clear
<1>8. rackCall' = [rackCall EXCEPT ![s] = d]
  BY <1>1, <1>2 DEF To
<1>9. /\ rackCall' = [o \in RackSlots |-> rackCall'[o]] /\ rackCall'[s] = d
      /\ \A o \in RackSlots \ {s} : rackCall'[o] = rackCall[o]
  BY <1>8 DEF CallsStand
<1>10. ASSUME NEW o \in RackSlots PROVE CallStands(rackCall[o])'
  <2>1. PICK e : e = rackCall'[o]
    OBVIOUS
  <2>2. CallStands(e)'
    BY <1>7, <1>9, <2>1
  <2>. QED BY <2>1, <2>2 DEF CallStands, Others, Shelves, StaysIn, Ranged, Clear
<1>. QED BY <1>9, <1>10 DEF CallsStand

LEMMA RackRowHolds ==
  ASSUME RackInv, NEW s \in RackSlots, WriteRack(s) \/ DeleteRow(s)
  PROVE  RackInv'
<1>. DEFINE c == rackCall[s]
<1>1. /\ RackTyped /\ UnitsStand /\ CallsStand /\ CallStands(c)
      /\ \A o \in RackSlots : CallStands(rackCall[o])
  BY DEF RackInv, CallsStand
<1>2. PagesFit' /\ c # Idle /\ To(s, "done")
  BY DEF RackInv, WriteRack, DeleteRow, PagesFit, ModalFits, UnitNamed, Idle
<1>3. \A u \in UnitIds : Exists(u) => units[u].rack \in RackIds
  BY <1>1, ExistsRow, RowNumbers
<1>4. CASE WriteRack(s)
  <2>1. UNCHANGED <<units, raced>>
    BY <1>4 DEF WriteRack
  <2>2. c.height \in Int /\ c.height > 0
    <3>1. c \in [op : {"rack"}, at : {"write", "done"}, tab : RackTabs, id : {c.id},
                 height : Heights]
      BY <1>1, <1>4 DEF WriteRack, CallStands, Others, Shelves, Idle
    <3>2. Heights \subseteq Nat \ {0}
      BY RackAssumption
    <3>3. c.height \in Heights
      BY <3>1
    <3>4. \A h \in Heights : h \in Int /\ h > 0
      BY <3>2
    <3>. QED BY <3>3, <3>4
  <2>3. height' \in [RackIds -> Int]
        /\ \A r \in RackIds : height[r] > 0 => height'[r] > 0
    BY <1>1, <1>4, <2>2 DEF WriteRack, RackTyped
  <2>4. RackTyped' /\ UnitsStand'
    BY <1>1, <1>3, <2>1, <2>3 DEF RackTyped, UnitsStand, Exists
  <2>5. \A o \in RackSlots \ {s} : \A e : e = rackCall[o] => CallStands(e)'
    BY <1>1, <2>1, RowsMayGo
  <2>. QED BY <1>1, <1>2, <2>4, <2>5, RequestEnds DEF RackInv
<1>5. CASE DeleteRow(s)
  <2>1. /\ UNCHANGED raced
        /\ \A u \in UnitIds : units'[u] \in {units[u], Unmounted}
        /\ units' = [u \in UnitIds |-> units'[u]]
    BY <1>1, <1>5 DEF DeleteRow, RackTyped
  <2>2. height' \in [RackIds -> Int]
    BY <1>1, <1>5 DEF DeleteRow, RackTyped, Dismantled
  <2>3. RackTyped'
    BY <1>1, <2>1, <2>2 DEF RackTyped
  <2>4. \A u \in UnitIds : Exists(u)' =>
          Exists(u) /\ units'[u] = units[u] /\ height'[units[u].rack] = height[units[u].rack]
    BY <1>1, <1>3, <1>5, <2>1 DEF DeleteRow, RackTyped, Exists
  <2>5. UnitsStand'
    BY <1>1, <2>1, <2>4 DEF UnitsStand
  <2>6. \A o \in RackSlots \ {s} : \A e : e = rackCall[o] => CallStands(e)'
    BY <1>1, <2>1, RowsMayGo
  <2>. QED BY <1>1, <1>2, <2>3, <2>5, <2>6, RequestEnds DEF RackInv
<1>. QED BY <1>4, <1>5

LEMMA RackWriteHolds ==
  ASSUME RackInv, NEW s \in RackSlots, WriteUnit(s)
  PROVE  RackInv'
<1>. DEFINE c == rackCall[s]
<1>1. /\ RackTyped /\ UnitsStand /\ CallsStand
      /\ \A o \in RackSlots : CallStands(rackCall[o])
  BY DEF RackInv, CallsStand
<1>2. Placing(s) /\ UNCHANGED height /\ PagesFit'
  BY DEF RackInv, WriteUnit, PagesFit, ModalFits, UnitNamed
<1>3. Shelves(c) /\ StaysIn(c) /\ Ranged(c) /\ Clear(c) /\ c.at = "write" /\ c # Idle
  BY <1>2, PlacesAt DEF Placing, Idle
<1>4. c.row \in UnitRows /\ c.row # Nil /\ c.row # Unmounted
  BY <1>3, RackAssumption, RowNumbers DEF Shelves, UnitRows, Unmounted
<1>5. raced' = (raced \/ \E o \in RackSlots \ {s} : Placing(o)) /\ raced' \in BOOLEAN
  BY <1>1 DEF WriteUnit, RackTyped
\* Unless requests crossed, no other one is about to write.
<1>6. ASSUME ~raced', NEW o \in RackSlots \ {s} PROVE ~Placing(o)
  BY <1>5, <1>6
<1>7. CASE UNCHANGED units /\ (To(s, "done") \/ To(s, "refused"))
  <2>1. RackTyped' /\ UnitsStand'
    BY <1>1, <1>2, <1>5, <1>7 DEF RackTyped, UnitsStand, Exists
  <2>2. \A o \in RackSlots \ {s} : \A e : e = rackCall[o] => CallStands(e)'
    BY <1>1, <1>5, <1>7 DEF CallStands, Others, Shelves, StaysIn, Ranged, Clear, Exists
  <2>. QED BY <1>1, <1>2, <1>3, <1>7, <2>1, <2>2, RequestEnds DEF RackInv
<1>8. CASE /\ c.id = Nil /\ height[c.row.rack] > 0 /\ To(s, "done")
           /\ \E u \in UnitIds : units[u] = Nil /\ units' = [units EXCEPT ![u] = c.row]
  <2>1. PICK u \in UnitIds : units[u] = Nil /\ units' = [units EXCEPT ![u] = c.row]
    BY <1>8
  <2>2. /\ RackTyped' /\ units'[u] = c.row
        /\ \A v \in UnitIds \ {u} : units'[v] = units[v]
    BY <1>1, <1>2, <1>4, <1>5, <2>1 DEF RackTyped
  <2>3. Bottom(c.row) >= 1
    BY <1>3, <1>8 DEF Ranged
  <2>4. ASSUME NEW v \in UnitIds, Exists(v)'
        PROVE  height'[units'[v].rack] > 0 /\ Bottom(units'[v]) >= 1
    BY <1>1, <1>2, <1>8, <2>2, <2>3, <2>4 DEF UnitsStand, Exists
  <2>5. ASSUME ~raced', NEW v \in UnitIds, NEW w \in UnitIds \ {v}, Exists(v)', Exists(w)'
        PROVE  ~InTheWay(units'[v], units'[w])
    <3>1. ~raced /\ \A x \in UnitIds : Exists(x) => ~InTheWay(c.row, units[x])
      BY <1>3, <1>5, <1>8, <2>5, RackAssumption DEF Clear
    <3>2. CASE v = u
      BY <2>2, <2>5, <3>1, <3>2 DEF Exists
    <3>3. CASE w = u
      BY <1>1, <1>4, <2>2, <2>5, <3>1, <3>3, ExistsRow, InTheWaySymmetric DEF Exists
    <3>4. CASE v # u /\ w # u
      BY <1>1, <2>2, <2>5, <3>1, <3>4 DEF UnitsStand, Exists
    <3>. QED BY <3>2, <3>3, <3>4
  <2>6. UnitsStand'
    BY <2>4, <2>5 DEF UnitsStand
  <2>7. ASSUME NEW o \in RackSlots \ {s}, NEW e, e = rackCall[o] PROVE CallStands(e)'
    <3>1. CallStands(e)
      BY <1>1, <2>7
    <3>2. CASE Others(e)
      BY <3>2 DEF CallStands, Others
    <3>3. CASE Shelves(e) /\ StaysIn(e) /\ Ranged(e) /\ Clear(e)
      <4>1. Shelves(e)' /\ e.id \in UnitIds \cup {Nil}
        BY <3>3 DEF Shelves
      <4>2. StaysIn(e)' /\ Ranged(e)'
        BY <2>1, <2>2, <3>3, <4>1 DEF StaysIn, Ranged, Exists
      <4>3. Clear(e)'
        BY <1>6, <2>7, <3>3 DEF Clear, Placing, Shelves
      <4>. QED BY <4>1, <4>2, <4>3 DEF CallStands
    <3>. QED BY <3>1, <3>2, <3>3 DEF CallStands
  <2>. QED BY <1>1, <1>2, <1>3, <1>8, <2>2, <2>6, <2>7, RequestEnds DEF RackInv
<1>9. CASE /\ c.id # Nil /\ Exists(c.id) /\ To(s, "done")
            /\ units' = [units EXCEPT ![c.id] = c.row]
  <2>1. c.id \in UnitIds /\ units[c.id] # Nil /\ units[c.id].rack = c.row.rack
    BY <1>3, <1>9 DEF Shelves, StaysIn
  <2>2. /\ RackTyped' /\ units'[c.id] = c.row
        /\ \A v \in UnitIds \ {c.id} : units'[v] = units[v]
    BY <1>1, <1>2, <1>4, <1>5, <1>9, <2>1 DEF RackTyped
  <2>3. Bottom(c.row) >= 1
    BY <1>3, <1>9 DEF Ranged
  <2>4. \A v \in UnitIds : Exists(v)' <=> Exists(v)
    BY <1>4, <1>9, <2>1, <2>2 DEF Exists
  <2>5. ASSUME NEW v \in UnitIds, Exists(v)'
        PROVE  height'[units'[v].rack] > 0 /\ Bottom(units'[v]) >= 1
    BY <1>1, <1>2, <2>1, <2>2, <2>3, <2>4, <2>5 DEF UnitsStand
  <2>6. ASSUME ~raced', NEW v \in UnitIds, NEW w \in UnitIds \ {v}, Exists(v)', Exists(w)'
        PROVE  ~InTheWay(units'[v], units'[w])
    <3>1. ~raced /\ \A x \in UnitIds \ {c.id} : Exists(x) => ~InTheWay(c.row, units[x])
      BY <1>3, <1>5, <2>6 DEF Clear
    <3>2. CASE v = c.id
      BY <2>2, <2>4, <2>6, <3>1, <3>2
    <3>3. CASE w = c.id
      BY <1>1, <1>4, <2>2, <2>4, <2>6, <3>1, <3>3, ExistsRow, InTheWaySymmetric
    <3>4. CASE v # c.id /\ w # c.id
      BY <1>1, <2>2, <2>4, <2>6, <3>1, <3>4 DEF UnitsStand
    <3>. QED BY <3>2, <3>3, <3>4
  <2>7. UnitsStand'
    BY <2>5, <2>6 DEF UnitsStand
  <2>8. ASSUME NEW o \in RackSlots \ {s}, NEW e, e = rackCall[o] PROVE CallStands(e)'
    <3>1. CallStands(e)
      BY <1>1, <2>8
    <3>2. CASE Others(e)
      BY <3>2 DEF CallStands, Others
    <3>3. CASE Shelves(e) /\ StaysIn(e) /\ Ranged(e) /\ Clear(e)
      <4>1. Shelves(e)' /\ e.id \in UnitIds \cup {Nil}
        BY <3>3 DEF Shelves
      <4>2. StaysIn(e)' /\ Ranged(e)'
        BY <1>4, <2>1, <2>2, <2>4, <3>3, <4>1 DEF StaysIn, Ranged
      <4>3. Clear(e)'
        BY <1>6, <2>8, <3>3 DEF Clear, Placing, Shelves
      <4>. QED BY <4>1, <4>2, <4>3 DEF CallStands
    <3>. QED BY <3>1, <3>2, <3>3 DEF CallStands
  <2>. QED BY <1>1, <1>2, <1>3, <1>9, <2>2, <2>7, <2>8, RequestEnds DEF RackInv
<1>. QED BY <1>7, <1>8, <1>9 DEF WriteUnit, Lowest

LEMMA RackStepHolds == RackInv /\ [RackNext]_rackVars => RackInv'
<1>. SUFFICES ASSUME RackInv, [RackNext]_rackVars PROVE RackInv'
  OBVIOUS
<1>1. CASE RackNext
  BY <1>1, RackPageHolds, RackSendHolds, RackReadHolds, RackAnswerHolds, RackRowHolds,
     RackWriteHolds DEF RackNext, RackWork
<1>2. CASE UNCHANGED rackVars
  <2>1. PagesFit'
    BY <1>2 DEF RackInv, PagesFit, ModalFits, UnitNamed, rackVars
  <2>. QED BY <1>2, <2>1, RequestsStand DEF rackVars
<1>. QED BY <1>1, <1>2

\* Two units of a rack never share a slot unless requests crossed, and no unit reaches
\* below its rack, whatever racks and units there are.
THEOREM RackSlotsDisjoint == RackSpec => []SlotsDisjoint
<1>1. RackInit => RackInv
  BY RackInitHolds
<1>2. RackInv /\ [RackNext]_<<rackVars, deskVars>> => RackInv'
  BY RackStepHolds DEF rackVars
<1>3. RackInv => SlotsDisjoint
  BY RackDisjoint
<1>. QED BY <1>1, <1>2, <1>3, PTL DEF RackSpec

-----------------------------------------------------------------------------
(* The address plan, for any subnets, addresses, tabs and requests: an     *)
(* edit never reaches a row other than the one its form was opened for.    *)

IpTables == [AllocIds -> AllocRows \cup {Nil, Gone}]
Answers == [nets : SUBSET NetIds, rows : IpTables \cup {Nil}]
IpForms == [id : AllocIds \cup {Nil},
          row : [net : NetIds, addr : Addresses \cup {Nil}, use : Uses]]
IpPages == [shown : [nets : SUBSET NetIds, rows : IpTables],
          unfolded : NetIds \cup {Nil}, loading : BOOLEAN, form : IpForms \cup {Nil},
          saving : BOOLEAN, netForm : BOOLEAN, netSaving : BOOLEAN]
IpCalls == [at : {"idle", "asked", "done"}, op : IpOps \cup {Nil}, tab : IpTabs \cup {Nil},
          id : AllocIds \cup {Nil}, row : AllocRows \cup {Gone}]

IpamTyped ==
  /\ nets \subseteq NetIds
  /\ alloc \in IpTables
  /\ ipPage \in [IpTabs -> IpPages]
  /\ ipLoads \in [IpTabs -> SUBSET Answers]
  /\ ipCall \in [IpSlots -> IpCalls]

\* The row has been stored with this id, and has not become another one.
KeepsRow(table, i, row) ==
  /\ table[i] # Nil
  /\ table[i] # Gone => table[i].addr = row.addr /\ table[i].net = row.net

\* What a page was told of a row still holds of it, or the row is gone.
FreshIp(table, rows) ==
  \A i \in AllocIds : rows[i] \notin {Nil, Gone} => KeepsRow(table, i, rows[i])

FreshForm(table, f) ==
  f # Nil /\ f.id # Nil => f.row \in AllocRows /\ KeepsRow(table, f.id, f.row)
FreshCall(table, c) ==
  /\ c.op \in {"add", "edit"} => c.row \in AllocRows
  /\ c.op = "edit" => c.id \in AllocIds /\ KeepsRow(table, c.id, c.row)

FreshAll ==
  /\ \A t \in IpTabs : FreshIp(alloc, ipPage[t].shown.rows) /\ FreshForm(alloc, ipPage[t].form)
  /\ \A t \in IpTabs : \A l \in ipLoads[t] : l.rows # Nil => FreshIp(alloc, l.rows)
  /\ \A s \in IpSlots : FreshCall(alloc, ipCall[s])

IpamInv == IpamTyped /\ FreshAll

\* A row never changes its address or its subnet, and never comes back.
Settled ==
  \A i \in AllocIds : alloc[i] # Nil =>
    /\ alloc'[i] # Nil
    /\ alloc'[i] # Gone => /\ alloc[i] # Gone
                           /\ alloc'[i].addr = alloc[i].addr /\ alloc'[i].net = alloc[i].net

-----------------------------------------------------------------------------
\* While rows are settled, what was fresh stays fresh.
LEMMA KeepsStays ==
  ASSUME Settled, NEW i \in AllocIds, NEW row, KeepsRow(alloc, i, row)
  PROVE  KeepsRow(alloc', i, row)
  BY DEF Settled, KeepsRow

LEMMA FreshStays ==
  ASSUME Settled, NEW rows, FreshIp(alloc, rows)
  PROVE  FreshIp(alloc', rows)
  BY KeepsStays DEF FreshIp

LEMMA SettledByNone == alloc' = alloc => Settled
  BY DEF Settled

\* A step that settles the rows and leaves the pages alone keeps what pages and
\* answers show; it may only tell calls that they are done.
LEMMA TableStep ==
  ASSUME FreshAll, Settled, IpamTyped, IpamTyped', UNCHANGED <<ipPage, ipLoads>>,
         \A s \in IpSlots : ipCall'[s] = ipCall[s] \/ ipCall'[s] = [ipCall[s] EXCEPT !.at = "done"]
  PROVE  FreshAll'
<1>1. \A t \in IpTabs : FreshIp(alloc', ipPage'[t].shown.rows) /\ FreshForm(alloc', ipPage'[t].form)
  <2> SUFFICES ASSUME NEW t \in IpTabs
               PROVE  FreshIp(alloc', ipPage'[t].shown.rows) /\ FreshForm(alloc', ipPage'[t].form)
    OBVIOUS
  <2>1. FreshIp(alloc', ipPage'[t].shown.rows)
    BY FreshStays DEF FreshAll
  <2>2. FreshForm(alloc', ipPage'[t].form)
    <3>1. SUFFICES ASSUME ipPage[t].form # Nil, ipPage[t].form.id # Nil
                   PROVE  ipPage[t].form.row \in AllocRows
                          /\ KeepsRow(alloc', ipPage'[t].form.id, ipPage'[t].form.row)
      BY DEF FreshForm
    <3>2. ipPage[t].form.id \in AllocIds
      BY <3>1 DEF IpamTyped, IpPages, IpForms
    <3>. QED BY <3>1, <3>2, KeepsStays DEF FreshAll, FreshForm
  <2>. QED BY <2>1, <2>2
<1>2. \A t \in IpTabs : \A l \in ipLoads'[t] : l.rows # Nil => FreshIp(alloc', l.rows)
  BY FreshStays DEF FreshAll
<1>3. \A s \in IpSlots : FreshCall(alloc', ipCall'[s])
  <2> SUFFICES ASSUME NEW s \in IpSlots
               PROVE  FreshCall(alloc', ipCall'[s])
    OBVIOUS
  <2>1. /\ ipCall'[s].op = ipCall[s].op /\ ipCall'[s].id = ipCall[s].id
        /\ ipCall'[s].row = ipCall[s].row
    BY DEF IpamTyped, IpCalls
  <2>2. FreshCall(alloc, ipCall[s])
    BY DEF FreshAll
  <2>3. CASE ipCall[s].op = "edit"
    BY <2>1, <2>2, <2>3, KeepsStays DEF FreshCall
  <2>4. CASE ipCall[s].op # "edit"
    BY <2>1, <2>2, <2>4 DEF FreshCall
  <2>. QED BY <2>3, <2>4
<1>. QED BY <1>1, <1>2, <1>3 DEF FreshAll

-----------------------------------------------------------------------------
LEMMA CallKept ==
  ASSUME IpamTyped, NEW s, NEW call \in IpCalls, Ask(s, call)
  PROVE  ipCall' \in [IpSlots -> IpCalls]
  BY DEF IpamTyped, Ask

LEMMA PageKept ==
  ASSUME IpamTyped, NEW t \in IpTabs, NEW new \in IpPages, IpPage(t, new)
  PROVE  ipPage' \in [IpTabs -> IpPages]
  BY DEF IpamTyped, IpPage

LEMMA LoadKept ==
  ASSUME IpamTyped, NEW t \in IpTabs, StartLoad(t)
  PROVE  ipLoads' \in [IpTabs -> SUBSET Answers]
  BY DEF IpamTyped, StartLoad, Reading, Answers

LEMMA DoneKept ==
  ASSUME IpamTyped, NEW s \in IpSlots, IpDone(s)
  PROVE  /\ ipCall' \in [IpSlots -> IpCalls]
         /\ \A o \in IpSlots : ipCall'[o] = ipCall[o] \/ ipCall'[o] = [ipCall[o] EXCEPT !.at = "done"]
<1>1. [ipCall[s] EXCEPT !.at = "done"] \in IpCalls
  BY DEF IpamTyped, IpCalls
<1>2. ipCall' = [ipCall EXCEPT ![s] = [ipCall[s] EXCEPT !.at = "done"]]
  BY DEF IpDone
<1>. QED BY <1>1, <1>2 DEF IpamTyped

\* The pages and the requests keep their types; the rows do in TableTyped.
LEMMA PageTyped ==
  ASSUME IpamTyped, NEW t \in IpTabs,
         \/ IpRefresh(t) \/ CloseAllocModal(t) \/ ToggleSubnetForm(t)
         \/ \E n \in NetIds : Unfold(t, n)
         \/ \E i \in AllocIds \cup {Nil} : OpenAllocModal(t, i)
         \/ \E l \in ipLoads[t] : ReadRows(t, l) \/ IpArrive(t, l) \/ IpLost(t, l)
  PROVE  IpamTyped'
<1>0. ipPage[t] \in IpPages
  BY DEF IpamTyped
<1>1. CASE IpRefresh(t)
  <2>1. [ipPage[t] EXCEPT !.loading = TRUE] \in IpPages
    BY <1>0 DEF IpPages
  <2>. QED BY <1>1, <2>1, PageKept, LoadKept DEF IpRefresh, IpamTyped, Table
<1>2. CASE CloseAllocModal(t)
  <2>1. [ipPage[t] EXCEPT !.form = Nil] \in IpPages
    BY <1>0 DEF IpPages
  <2>. QED BY <1>2, <2>1, PageKept DEF CloseAllocModal, IpamTyped, Table
<1>3. CASE ToggleSubnetForm(t)
  <2>1. [ipPage[t] EXCEPT !.netForm = ~@] \in IpPages
    BY <1>0, Zenon DEF IpPages
  <2>. QED BY <1>3, <2>1, PageKept DEF ToggleSubnetForm, IpamTyped, Table
<1>4. ASSUME NEW n \in NetIds, Unfold(t, n) PROVE IpamTyped'
  <2>1. [ipPage[t] EXCEPT !.unfolded = IF @ = n THEN Nil ELSE n] \in IpPages
    BY <1>0 DEF IpPages
  <2>. QED BY <1>4, <2>1, PageKept DEF Unfold, IpamTyped, Table
<1>5. ASSUME NEW i \in AllocIds \cup {Nil}, OpenAllocModal(t, i) PROVE IpamTyped'
  <2> DEFINE row == IF i = Nil THEN [net |-> ipPage[t].unfolded, addr |-> Nil, use |-> "used"]
                    ELSE ipPage[t].shown.rows[i]
             form == [id |-> i, row |-> row]
  <2>1. ASSUME i = Nil PROVE form \in IpForms
    <3>1. ipPage[t].unfolded \in NetIds
      BY <1>0, <1>5 DEF OpenAllocModal, IpPages
    <3>. QED BY <2>1, <3>1 DEF IpForms, Uses
  <2>2. ASSUME i # Nil PROVE form \in IpForms
    <3>1. ipPage[t].shown.rows[i] \in AllocRows
      BY <1>0, <1>5, <2>2 DEF OpenAllocModal, RowsBelow, IpPages, IpTables
    <3>2. row \in AllocRows
      BY <2>2, <3>1
    <3>. QED BY <1>5, <3>2 DEF IpForms, AllocRows
  <2>3. form \in IpForms
    BY <2>1, <2>2
  <2>4. [ipPage[t] EXCEPT !.form = form] \in IpPages
    BY <1>0, <2>3 DEF IpPages
  <2>. QED BY <1>5, <2>4, PageKept DEF OpenAllocModal, IpamTyped, Table
<1>6. ASSUME NEW l \in ipLoads[t], ReadRows(t, l) PROVE IpamTyped'
  <2>1. l \in Answers
    BY DEF IpamTyped
  <2>2. [l EXCEPT !.rows = alloc] \in Answers
    BY <2>1 DEF IpamTyped, Answers
  <2>. QED BY <1>6, <2>2 DEF ReadRows, IpamTyped, Table
<1>7. ASSUME NEW l \in ipLoads[t], IpArrive(t, l) PROVE IpamTyped'
  <2>1. l \in [nets : SUBSET NetIds, rows : IpTables]
    <3>1. l \in Answers /\ l.rows # Nil
      BY <1>7 DEF IpArrive, IpamTyped
    <3>2. l.rows \in IpTables
      BY <3>1 DEF Answers
    <3>. QED BY <3>1, <3>2 DEF Answers
  <2>2. [ipPage[t] EXCEPT !.shown = l, !.loading = FALSE] \in IpPages
    BY <1>0, <2>1 DEF IpPages
  <2>. QED BY <1>7, <2>2, PageKept DEF IpArrive, IpamTyped, Table
<1>8. ASSUME NEW l \in ipLoads[t], IpLost(t, l) PROVE IpamTyped'
  <2>1. [ipPage[t] EXCEPT !.loading = FALSE] \in IpPages
    BY <1>0 DEF IpPages
  <2>. QED BY <1>8, <2>1, PageKept DEF IpLost, IpamTyped, Table
<1>. QED BY <1>1, <1>2, <1>3, <1>4, <1>5, <1>6, <1>7, <1>8

\* No step of a page touches a row, so what is fresh stays so; what a page comes to
\* show is the answer it takes, and its form shows one of the rows it lists.
LEMMA PageFresh ==
  ASSUME IpamTyped, FreshAll, NEW t \in IpTabs,
         \/ IpRefresh(t) \/ CloseAllocModal(t) \/ ToggleSubnetForm(t)
         \/ \E n \in NetIds : Unfold(t, n)
         \/ \E i \in AllocIds \cup {Nil} : OpenAllocModal(t, i)
         \/ \E l \in ipLoads[t] : ReadRows(t, l) \/ IpArrive(t, l) \/ IpLost(t, l)
  PROVE  FreshAll'
<1> USE DEF FreshAll
<1>0. ipPage[t] \in IpPages
  BY DEF IpamTyped
<1>a. alloc' = alloc /\ ipCall' = ipCall
  BY DEF IpRefresh, CloseAllocModal, ToggleSubnetForm, Unfold, OpenAllocModal, ReadRows,
         IpArrive, IpLost, Table
<1>c. \A s \in IpSlots : FreshCall(alloc', ipCall'[s])
  BY <1>a DEF FreshCall
<1>d. ASSUME NEW new, IpPage(t, new), FreshIp(alloc, new.shown.rows), FreshForm(alloc, new.form)
      PROVE  \A u \in IpTabs : FreshIp(alloc', ipPage'[u].shown.rows) /\ FreshForm(alloc', ipPage'[u].form)
  BY <1>a, <1>d DEF IpPage, FreshForm, IpamTyped
<1>e. ASSUME NEW asked \in SUBSET Answers, \A l \in asked : l.rows # Nil => FreshIp(alloc, l.rows),
             ipLoads' = [ipLoads EXCEPT ![t] = asked]
      PROVE  \A u \in IpTabs : \A l \in ipLoads'[u] : l.rows # Nil => FreshIp(alloc', l.rows)
  BY <1>a, <1>e DEF IpamTyped
<1>1. CASE IpRefresh(t)
  <2> DEFINE new == [ipPage[t] EXCEPT !.loading = TRUE]
  <2>1. new.shown = ipPage[t].shown /\ new.form = ipPage[t].form
    BY <1>0 DEF IpPages
  <2>2. Reading(Nil).rows = Nil
    BY DEF Reading
  <2>. QED BY <1>1, <2>1, <2>2, <1>a, <1>c, <1>d DEF IpRefresh, StartLoad, IpamTyped
<1>2. CASE CloseAllocModal(t)
  <2> DEFINE new == [ipPage[t] EXCEPT !.form = Nil]
  <2>1. new.shown = ipPage[t].shown /\ new.form = Nil
    BY <1>0 DEF IpPages
  <2>. QED BY <1>2, <2>1, <1>a, <1>c, <1>d DEF CloseAllocModal, FreshForm
<1>3. CASE ToggleSubnetForm(t)
  <2> DEFINE new == [ipPage[t] EXCEPT !.netForm = ~@]
  <2>1. new.shown = ipPage[t].shown /\ new.form = ipPage[t].form
    BY <1>0 DEF IpPages
  <2>. QED BY <1>3, <2>1, <1>a, <1>c, <1>d DEF ToggleSubnetForm
<1>4. ASSUME NEW n \in NetIds, Unfold(t, n) PROVE FreshAll'
  <2> DEFINE new == [ipPage[t] EXCEPT !.unfolded = IF @ = n THEN Nil ELSE n]
  <2>1. new.shown = ipPage[t].shown /\ new.form = ipPage[t].form
    BY <1>0 DEF IpPages
  <2>. QED BY <1>4, <2>1, <1>a, <1>c, <1>d DEF Unfold
<1>5. ASSUME NEW i \in AllocIds \cup {Nil}, OpenAllocModal(t, i) PROVE FreshAll'
  <2> DEFINE row == IF i = Nil THEN [net |-> ipPage[t].unfolded, addr |-> Nil, use |-> "used"]
                    ELSE ipPage[t].shown.rows[i]
             form == [id |-> i, row |-> row]
             new == [ipPage[t] EXCEPT !.form = form]
  <2>1. new.shown = ipPage[t].shown /\ new.form = form
    BY <1>0 DEF IpPages
  <2>2. ASSUME i # Nil PROVE row \in AllocRows /\ KeepsRow(alloc, i, row)
    <3>1. i \in RowsBelow(t)
      BY <1>5, <2>2 DEF OpenAllocModal
    <3>2. row = ipPage[t].shown.rows[i] /\ row \notin {Nil, Gone}
      BY <2>2, <3>1 DEF RowsBelow
    <3>3. row \in AllocRows
      BY <1>0, <1>5, <2>2, <3>2 DEF IpPages, IpTables
    <3>. QED BY <1>5, <2>2, <3>2, <3>3 DEF FreshIp
  <2>3. FreshForm(alloc, form)
    BY <2>2 DEF FreshForm
  <2>. QED BY <1>5, <2>1, <2>3, <1>a, <1>c, <1>d DEF OpenAllocModal
<1>6. ASSUME NEW l \in ipLoads[t], ReadRows(t, l) PROVE FreshAll'
  <2> DEFINE read == [l EXCEPT !.rows = alloc]
  <2>1. l \in Answers
    BY DEF IpamTyped
  <2>2. read.rows = alloc /\ read \in Answers
    BY <2>1 DEF IpamTyped, Answers
  <2>3. FreshIp(alloc, alloc)
    BY DEF FreshIp, KeepsRow
  <2>4. ipPage' = ipPage /\ ipLoads' = [ipLoads EXCEPT ![t] = (ipLoads[t] \ {l}) \cup {read}]
    BY <1>6 DEF ReadRows
  <2>5. /\ (ipLoads[t] \ {l}) \cup {read} \in SUBSET Answers
        /\ \A m \in (ipLoads[t] \ {l}) \cup {read} : m.rows # Nil => FreshIp(alloc, m.rows)
    BY <2>2, <2>3 DEF IpamTyped
  <2>6. \A u \in IpTabs : \A m \in ipLoads'[u] : m.rows # Nil => FreshIp(alloc', m.rows)
    BY <1>e, <2>4, <2>5
  <2>7. \A u \in IpTabs : FreshIp(alloc', ipPage'[u].shown.rows) /\ FreshForm(alloc', ipPage'[u].form)
    BY <2>4, <1>a DEF FreshForm
  <2>. QED BY <2>6, <2>7, <1>c
<1>7. ASSUME NEW l \in ipLoads[t], IpArrive(t, l) PROVE FreshAll'
  <2> DEFINE new == [ipPage[t] EXCEPT !.shown = l, !.loading = FALSE]
  <2>1. new.shown = l /\ new.form = ipPage[t].form
    BY <1>0 DEF IpPages
  <2>2. FreshIp(alloc, l.rows)
    BY <1>7 DEF IpArrive
  <2>3. \A u \in IpTabs : \A m \in ipLoads'[u] : m.rows # Nil => FreshIp(alloc', m.rows)
    BY <1>7, <1>a DEF IpArrive, IpamTyped
  <2>. QED BY <1>7, <2>1, <2>2, <2>3, <1>c, <1>d DEF IpArrive
<1>8. ASSUME NEW l \in ipLoads[t], IpLost(t, l) PROVE FreshAll'
  <2> DEFINE new == [ipPage[t] EXCEPT !.loading = FALSE]
  <2>1. new.shown = ipPage[t].shown /\ new.form = ipPage[t].form
    BY <1>0 DEF IpPages
  <2>2. \A u \in IpTabs : \A m \in ipLoads'[u] : m.rows # Nil => FreshIp(alloc', m.rows)
    BY <1>8, <1>a DEF IpLost, IpamTyped
  <2>. QED BY <1>8, <2>1, <2>2, <1>c, <1>d DEF IpLost
<1>. QED BY <1>1, <1>2, <1>3, <1>4, <1>5, <1>6, <1>7, <1>8

-----------------------------------------------------------------------------
\* A request carries the row of the form it was made from.
LEMMA AskStep ==
  ASSUME IpamTyped, FreshAll, NEW t \in IpTabs, NEW s \in IpSlots,
         \/ SaveSubnet(t, s)
         \/ \E a \in Addresses, u \in Uses : SaveAlloc(t, s, a, u)
         \/ \E i \in AllocIds : DeleteAlloc(t, s, i)
  PROVE  IpamTyped' /\ FreshAll'
<1>0. ipPage[t] \in IpPages
  BY DEF IpamTyped
<1>a. alloc' = alloc /\ nets' = nets /\ ipLoads' = ipLoads
  BY DEF SaveSubnet, SaveAlloc, DeleteAlloc, Table
<1>b. ASSUME NEW new \in IpPages, new.shown = ipPage[t].shown, new.form = ipPage[t].form,
             NEW call \in IpCalls, FreshCall(alloc, call), Ask(s, call),
             ipPage' = ipPage \/ IpPage(t, new)
      PROVE  IpamTyped' /\ FreshAll'
  <2>1. IpamTyped'
    BY <1>a, <1>b, CallKept, PageKept DEF IpamTyped
  <2>2. \A o \in IpSlots : FreshCall(alloc', ipCall'[o])
    BY <1>a, <1>b DEF Ask, IpamTyped, FreshAll
  <2>3. \A u \in IpTabs : FreshIp(alloc', ipPage'[u].shown.rows) /\ FreshForm(alloc', ipPage'[u].form)
    BY <1>a, <1>b DEF IpPage, IpamTyped, FreshAll
  <2>. QED BY <1>a, <2>1, <2>2, <2>3 DEF FreshAll
<1>1. CASE SaveSubnet(t, s)
  <2> DEFINE new == [ipPage[t] EXCEPT !.netSaving = TRUE]
             call == [IpIdle EXCEPT !.at = "asked", !.op = "subnet", !.tab = t]
  <2>1. new \in IpPages /\ new.shown = ipPage[t].shown /\ new.form = ipPage[t].form
    BY <1>0 DEF IpPages
  <2>2. call \in IpCalls /\ FreshCall(alloc, call)
    BY DEF IpCalls, IpOps, IpIdle, FreshCall
  <2>. QED BY <1>1, <1>b, <2>1, <2>2 DEF SaveSubnet
<1>2. ASSUME NEW i \in AllocIds, DeleteAlloc(t, s, i) PROVE IpamTyped' /\ FreshAll'
  <2> DEFINE call == [IpIdle EXCEPT !.at = "asked", !.op = "delete", !.tab = t, !.id = i]
  <2>1. call \in IpCalls /\ FreshCall(alloc, call)
    BY DEF IpCalls, IpOps, IpIdle, FreshCall
  <2>. QED BY <1>0, <1>2, <1>b, <2>1 DEF DeleteAlloc
<1>3. ASSUME NEW a \in Addresses, NEW u \in Uses, SaveAlloc(t, s, a, u)
      PROVE  IpamTyped' /\ FreshAll'
  <2> DEFINE f == ipPage[t].form
             row == [f.row EXCEPT !.addr = a, !.use = u]
             op == IF f.id = Nil THEN "add" ELSE "edit"
             call == [at |-> "asked", op |-> op, tab |-> t, id |-> f.id, row |-> row]
             new == [ipPage[t] EXCEPT !.saving = TRUE]
  <2>1. new \in IpPages /\ new.shown = ipPage[t].shown /\ new.form = f
    BY <1>0 DEF IpPages
  <2>2. f \in IpForms /\ f # Nil
    BY <1>0, <1>3 DEF SaveAlloc, IpPages
  <2>3. row \in AllocRows /\ row.addr = a /\ row.net = f.row.net
    BY <2>2 DEF IpForms, AllocRows
  <2>4. op \in IpOps /\ (op = "edit" => f.id # Nil)
    BY DEF IpOps
  <2>5. call \in IpCalls
    BY <2>2, <2>3, <2>4 DEF IpCalls, IpForms
  <2>6. ASSUME f.id # Nil PROVE f.id \in AllocIds /\ KeepsRow(alloc, f.id, row)
    <3>1. f.id \in AllocIds /\ KeepsRow(alloc, f.id, f.row)
      BY <2>2, <2>6 DEF FreshAll, FreshForm, IpForms
    <3>2. row.addr = f.row.addr
      BY <1>3, <2>3, <2>6 DEF SaveAlloc
    <3>. QED BY <2>3, <3>1, <3>2 DEF KeepsRow
  <2>7. FreshCall(alloc, call)
    BY <2>3, <2>4, <2>6 DEF FreshCall
  <2>. QED BY <1>3, <1>b, <2>1, <2>5, <2>7 DEF SaveAlloc
<1>. QED BY <1>1, <1>2, <1>3

\* An answer leaves its slot and may close a form.
LEMMA AnswerStep ==
  ASSUME IpamTyped, FreshAll, NEW s \in IpSlots, NEW heard \in BOOLEAN, IpAnswer(s, heard)
  PROVE  IpamTyped' /\ FreshAll'
<1> DEFINE c == ipCall[s]
           p == ipPage[c.tab]
           free == [p EXCEPT !.saving = @ /\ c.op \notin {"add", "edit"},
                             !.netSaving = @ /\ c.op # "subnet"]
           form == IF c.op \in {"add", "edit"} THEN Nil ELSE p.form
           netForm == free.netForm /\ c.op # "subnet"
           closed == [free EXCEPT !.form = form, !.netForm = netForm, !.loading = TRUE]
<1>1. /\ alloc' = alloc /\ nets' = nets
      /\ ipCall' = [ipCall EXCEPT ![s] = IpIdle]
      /\ \/ IpPage(c.tab, closed) /\ StartLoad(c.tab)
         \/ IpPage(c.tab, free) /\ ipLoads' = ipLoads
  BY DEF IpAnswer, Table
<1>2. IpIdle \in IpCalls /\ FreshCall(alloc, IpIdle)
  BY IpamAssumption DEF IpCalls, IpIdle, FreshCall, IpOps
<1>3. ipCall' \in [IpSlots -> IpCalls] /\ \A o \in IpSlots : FreshCall(alloc', ipCall'[o])
  BY <1>1, <1>2 DEF IpamTyped, FreshAll
<1>4. ASSUME c.tab \in IpTabs
      PROVE  /\ free \in IpPages /\ free.shown = p.shown /\ free.form = p.form
             /\ closed \in IpPages /\ closed.shown = p.shown /\ closed.form = form
  <2>1. p \in IpPages
    BY <1>4 DEF IpamTyped
  <2>2. /\ (p.saving /\ c.op \notin {"add", "edit"}) \in BOOLEAN
        /\ (p.netSaving /\ c.op # "subnet") \in BOOLEAN
        /\ (p.netForm /\ c.op # "subnet") \in BOOLEAN
    OBVIOUS
  <2>3. free \in IpPages /\ free.shown = p.shown /\ free.form = p.form
    BY <2>1, <2>2 DEF IpPages
  <2>5. form \in IpForms \cup {Nil}
    BY <2>1 DEF IpPages
  <2>6. netForm \in BOOLEAN
    OBVIOUS
  <2> HIDE DEF c, p, free, form, netForm
  <2>7. closed.shown = free.shown /\ closed.form = form
    BY <2>3 DEF IpPages
  <2>8. closed \in IpPages
    BY <2>3, <2>5, <2>6 DEF IpPages
  <2>. QED BY <2>3, <2>7, <2>8
<1>5. ipPage' \in [IpTabs -> IpPages]
  BY <1>1, <1>4 DEF IpamTyped, IpPage
<1>6. ipLoads' \in [IpTabs -> SUBSET Answers]
  BY <1>1 DEF StartLoad, Reading, IpamTyped, Answers
<1>7. FreshForm(alloc, Nil)
  BY DEF FreshForm
<1>8. \A u \in IpTabs : FreshIp(alloc', ipPage'[u].shown.rows) /\ FreshForm(alloc', ipPage'[u].form)
  BY <1>1, <1>4, <1>7 DEF IpPage, IpamTyped, FreshAll
<1>9. \A u \in IpTabs : \A l \in ipLoads'[u] : l.rows # Nil => FreshIp(alloc', l.rows)
  <2>1. Reading(Nil).rows = Nil
    BY DEF Reading
  <2>. QED BY <1>1, <2>1 DEF StartLoad, IpamTyped, FreshAll
<1>. QED BY <1>1, <1>3, <1>5, <1>6, <1>8, <1>9 DEF IpamTyped, FreshAll

-----------------------------------------------------------------------------
\* The statements of the API.
LEMMA ServeStep ==
  ASSUME IpamTyped, FreshAll, NEW s \in IpSlots,
         AddAlloc(s) \/ EditAlloc(s) \/ RemoveAlloc(s) \/ AddSubnet(s) \/ IpFails(s)
  PROVE  IpamTyped' /\ FreshAll'
<1>0. IpDone(s) /\ UNCHANGED <<ipPage, ipLoads>>
  BY DEF AddAlloc, EditAlloc, RemoveAlloc, AddSubnet, IpFails
<1>a. Gone # Nil /\ Nil \notin AllocRows /\ Gone \notin AllocRows
  BY IpamAssumption DEF Gone, AllocRows
<1>b. ASSUME nets' \subseteq NetIds, alloc' \in IpTables, Settled PROVE IpamTyped' /\ FreshAll'
  <2>1. IpamTyped'
    BY <1>0, <1>b, DoneKept DEF IpamTyped
  <2>. QED BY <1>0, <1>b, <2>1, DoneKept, TableStep
<1>1. CASE AddAlloc(s)
  <2> DEFINE new == ipCall[s].row
             same == {i \in AllocIds : Held(i) /\ alloc[i].addr = new.addr}
  <2>1. new \in AllocRows
    BY <1>1 DEF AddAlloc, FreshAll, FreshCall
  <2>2. CASE same = {}
    <3>1. PICK i \in AllocIds : NextFree(i) /\ alloc' = [alloc EXCEPT ![i] = new]
      BY <1>1, <2>2 DEF AddAlloc
    <3>2. alloc' \in IpTables
      BY <2>1, <3>1 DEF IpamTyped, IpTables
    <3>3. Settled
      BY <3>1 DEF Settled, NextFree, IpamTyped, IpTables
    <3>. QED BY <1>1, <1>b, <3>2, <3>3 DEF AddAlloc, IpamTyped
  <2>3. CASE same # {}
    <3>1. alloc' = [i \in AllocIds |-> IF i \in same THEN Overwritten(alloc[i], new) ELSE alloc[i]]
      BY <1>1, <2>3 DEF AddAlloc
    <3>2. ASSUME NEW i \in same
          PROVE  /\ Overwritten(alloc[i], new) \in AllocRows
                 /\ Overwritten(alloc[i], new).addr = alloc[i].addr
                 /\ Overwritten(alloc[i], new).net = alloc[i].net
                 /\ alloc[i] # Gone
      <4>1. alloc[i] \in AllocRows /\ alloc[i] # Gone
        BY DEF Held, IpamTyped, IpTables
      <4>. QED BY <2>1, <4>1 DEF Overwritten, AllocRows
    <3>3. alloc' \in IpTables
      BY <3>1, <3>2 DEF IpamTyped, IpTables
    <3>4. Settled
      BY <1>a, <3>1, <3>2 DEF Settled
    <3>. QED BY <1>1, <1>b, <3>3, <3>4 DEF AddAlloc, IpamTyped
  <2>. QED BY <2>2, <2>3
<1>2. CASE EditAlloc(s)
  <2> DEFINE c == ipCall[s]
             row == IF Held(c.id) THEN [alloc[c.id] EXCEPT !.use = c.row.use] ELSE alloc[c.id]
  <2>1. c.id \in AllocIds /\ c.row \in AllocRows
    BY <1>2 DEF EditAlloc, FreshAll, FreshCall
  <2>2. alloc' = [alloc EXCEPT ![c.id] = row]
    BY <1>2 DEF EditAlloc
  <2>3. ASSUME Held(c.id)
        PROVE  /\ row \in AllocRows /\ alloc[c.id] # Gone
               /\ row.addr = alloc[c.id].addr /\ row.net = alloc[c.id].net
    <3>1. alloc[c.id] \in AllocRows /\ alloc[c.id] # Gone
      BY <2>1, <2>3 DEF Held, IpamTyped, IpTables
    <3>. QED BY <2>1, <2>3, <3>1 DEF AllocRows
  <2>4. ASSUME ~Held(c.id) PROVE row = alloc[c.id]
    BY <2>4
  <2> HIDE DEF row
  <2>5. row \in AllocRows \cup {Nil, Gone}
    BY <2>1, <2>3, <2>4 DEF IpamTyped, IpTables
  <2>6. alloc' \in IpTables
    BY <2>1, <2>2, <2>5 DEF IpamTyped, IpTables
  <2>7. Settled
    BY <1>a, <2>1, <2>2, <2>3, <2>4 DEF Settled, IpamTyped, IpTables
  <2>. QED BY <1>2, <1>b, <2>6, <2>7 DEF EditAlloc, IpamTyped
<1>3. CASE RemoveAlloc(s)
  <2>1. alloc' = [alloc EXCEPT ![ipCall[s].id] = Gone] /\ nets' = nets
    BY <1>3 DEF RemoveAlloc
  <2>2. alloc' \in IpTables
    BY <2>1 DEF IpamTyped, IpTables
  <2>3. Settled
    BY <1>a, <2>1 DEF Settled, IpamTyped, IpTables
  <2>. QED BY <1>b, <2>1, <2>2, <2>3 DEF IpamTyped
<1>4. CASE AddSubnet(s)
  BY <1>4, <1>b, SettledByNone DEF AddSubnet, IpamTyped
<1>5. CASE IpFails(s)
  BY <1>5, <1>b, SettledByNone DEF IpFails, Table, IpamTyped
<1>. QED BY <1>1, <1>2, <1>3, <1>4, <1>5

-----------------------------------------------------------------------------
LEMMA IpamInitHolds == DeskInit /\ IpamInit => IpamInv
<1> SUFFICES ASSUME IpamInit PROVE IpamInv
  OBVIOUS
<1>1. nets \subseteq NetIds
  BY DEF IpamInit
<1>2. alloc \in IpTables
  BY <1>1 DEF IpamInit, IpTables, AllocRows, Uses
<1>3. PICK n \in nets :
        ipPage = [t \in IpTabs |-> [shown |-> Reading(alloc), unfolded |-> n, loading |-> FALSE,
                                    form |-> Nil, saving |-> FALSE, netForm |-> FALSE,
                                    netSaving |-> FALSE]]
  BY DEF IpamInit
<1>4. ipPage \in [IpTabs -> IpPages]
  BY <1>1, <1>2, <1>3 DEF IpPages, Reading
<1>5. IpIdle \in IpCalls /\ FreshCall(alloc, IpIdle)
  BY IpamAssumption DEF IpCalls, IpIdle, FreshCall, IpOps
<1>6. IpamTyped
  BY <1>1, <1>2, <1>4, <1>5 DEF IpamInit, IpamTyped
<1>7. FreshIp(alloc, alloc)
  BY DEF FreshIp, KeepsRow
<1>8. \A t \in IpTabs : ipPage[t].shown.rows = alloc /\ ipPage[t].form = Nil
  BY <1>3 DEF Reading
<1>9. FreshAll
  BY <1>5, <1>7, <1>8 DEF FreshAll, FreshForm, IpamInit
<1>. QED BY <1>6, <1>9 DEF IpamInv

LEMMA IpamStepHolds == IpamInv /\ [IpamNext]_ipamVars => IpamInv'
<1> SUFFICES ASSUME IpamTyped, FreshAll, [IpamNext]_ipamVars PROVE IpamTyped' /\ FreshAll'
  BY DEF IpamInv
<1>1. ASSUME NEW s \in IpSlots, IpCallStep(s) PROVE IpamTyped' /\ FreshAll'
  BY <1>1, ServeStep, AnswerStep DEF IpCallStep
<1>2. ASSUME NEW t \in IpTabs,
             \/ IpRefresh(t) \/ CloseAllocModal(t) \/ ToggleSubnetForm(t)
             \/ \E n \in NetIds : Unfold(t, n)
             \/ \E i \in AllocIds \cup {Nil} : OpenAllocModal(t, i)
             \/ \E l \in ipLoads[t] : ReadRows(t, l) \/ IpArrive(t, l) \/ IpLost(t, l)
      PROVE  IpamTyped' /\ FreshAll'
  BY <1>2, PageTyped, PageFresh
<1>3. ASSUME NEW t \in IpTabs, NEW s \in IpSlots,
             \/ SaveSubnet(t, s)
             \/ \E a \in Addresses, u \in Uses : SaveAlloc(t, s, a, u)
             \/ \E i \in AllocIds : DeleteAlloc(t, s, i)
      PROVE  IpamTyped' /\ FreshAll'
  BY <1>3, AskStep
<1>4. CASE UNCHANGED ipamVars
  BY <1>4 DEF ipamVars, IpamTyped, FreshAll, FreshIp, FreshForm, FreshCall, KeepsRow
<1>. QED BY <1>1, <1>2, <1>3, <1>4 DEF IpamNext

LEMMA IpamEditsHit == IpamInv => EditHitsItsRow
<1> SUFFICES ASSUME IpamTyped, FreshAll PROVE EditHitsItsRow
  BY DEF IpamInv
<1>1. ASSUME NEW i, NEW row, KeepsRow(alloc, i, row) PROVE SameRow(i, row)
  BY <1>1 DEF KeepsRow, SameRow, Held
<1>2. \A s \in IpSlots : ipCall[s].op = "edit" => SameRow(ipCall[s].id, ipCall[s].row)
  BY <1>1 DEF FreshAll, FreshCall
<1>3. \A t \in IpTabs : ipPage[t].form # Nil =>
        (ipPage[t].form.id # Nil => SameRow(ipPage[t].form.id, ipPage[t].form.row))
  BY <1>1 DEF FreshAll, FreshForm
<1>. QED BY <1>2, <1>3 DEF EditHitsItsRow

\* A form that was opened for a row never changes another one, however many tabs, saves,
\* deletions and additions there have been since (api/assets/ipam/route.ts goes by the
\* id of the form alone).
THEOREM IpamEditHitsItsRow == IpamSpec => []EditHitsItsRow
<1>1. IpamInv /\ [IpamNext]_<<ipamVars, deskVars>> => IpamInv'
  BY IpamStepHolds DEF ipamVars
<1>. QED BY <1>1, IpamInitHolds, IpamEditsHit, PTL DEF IpamSpec

-----------------------------------------------------------------------------
(* The settings of the predictions, for any providers, pages, saves and    *)
(* runs at the same time.                                                  *)

TypedKeys == ApiKeys \cup {Nil}
LlmRows == [provider : Providers, model : Providers, key : TypedKeys, on : BOOLEAN]
LlmSheets == [provider : Providers, model : Providers, key : TypedKeys \cup {"mask"}, on : BOOLEAN]
LlmPages == [cfg : LlmSheets, keyInput : TypedKeys \cup {"mask"}, loading : BOOLEAN,
             saving : BOOLEAN, analyzing : BOOLEAN]
LlmSaves == [tab : LlmTabs \cup {Nil}, body : LlmSheets \cup {Nil}, todo : SUBSET Keys]
LlmRuns == [at : {"idle", "load", "collect", "call", "save", "alert", "end", "failed"},
            by : LlmTabs \cup {Nil}, cfg : LlmRows \cup {Nil}, torn : BOOLEAN,
            todo : SUBSET LlmAssets, about : LlmAssets \cup {Nil}]

PredictTyped ==
  /\ setting \in LlmRows
  /\ llmSave \in [SaveSlots -> LlmSaves]
  /\ llmPage \in [LlmTabs -> LlmPages]
  /\ llmLoads \in [LlmTabs -> SUBSET LlmSheets]
  /\ llmRun \in [Runs -> LlmRuns]
  /\ mixed \in BOOLEAN

\* A save has something to write only of a body, with a model of the provider.
BodyFits(c) == c.todo # {} => c.body \in LlmSheets /\ OfOneProvider(c.body)
HalfDone(todo) == ~("provider" \in todo <=> "model" \in todo)
\* The half that is written is that of the body.
HalfFits(c) ==
  HalfDone(c.todo) => /\ "provider" \notin c.todo => setting.provider = c.body.provider
                      /\ "model" \notin c.todo => setting.model = c.body.model

\* CallsAsSaved is not inductive: the two settings go through pages, answers and saves.
PagesMatch ==
  \A t \in LlmTabs : /\ OfOneProvider(llmPage[t].cfg)
                     /\ \A cfg \in llmLoads[t] : OfOneProvider(cfg)
SavesMatch ==
  /\ \A s \in SaveSlots : BodyFits(llmSave[s]) /\ HalfFits(llmSave[s])
  /\ \A s \in SaveSlots : \A o \in SaveSlots :
       HalfDone(llmSave[s].todo) /\ HalfDone(llmSave[o].todo) => s = o
  /\ (\A s \in SaveSlots : ~HalfDone(llmSave[s].todo)) => OfOneProvider(setting)

SavesFit == \A s \in SaveSlots : llmSave[s].todo # {} => llmSave[s].body \in LlmSheets
RunFits(r) ==
  r.at \in {"collect", "call", "save", "alert"} =>
    r.cfg \in LlmRows /\ (mixed \/ r.torn \/ OfOneProvider(r.cfg))
RunsFit == \A r \in Runs : RunFits(llmRun[r])

PredictInv == PredictTyped /\ SavesFit /\ RunsFit /\ (mixed \/ (PagesMatch /\ SavesMatch))

-----------------------------------------------------------------------------
\* Halfway counts; what matters is which of the two is left.
LEMMA HalfwayIsHalfDone ==
  ASSUME NEW s
  PROVE  Halfway(s) <=> HalfDone(llmSave[s].todo)
<1>. DEFINE left == {"provider", "model"} \cap llmSave[s].todo
<1>1. CASE "provider" \in llmSave[s].todo /\ "model" \in llmSave[s].todo
  <2>1. left = {"provider", "model"}
    BY <1>1
  <2>2. IsFiniteSet({"provider"}) /\ Cardinality({"provider"}) = 1
    BY FS_Singleton
  <2>3. Cardinality({"provider"} \cup {"model"}) = 2
    BY <2>2, FS_AddElement
  <2>4. {"provider"} \cup {"model"} = left
    BY <2>1
  <2>. QED BY <1>1, <2>3, <2>4 DEF Halfway, HalfDone
<1>2. CASE "provider" \in llmSave[s].todo /\ "model" \notin llmSave[s].todo
  <2>1. left = {"provider"}
    BY <1>2
  <2>. QED BY <1>2, <2>1, FS_Singleton DEF Halfway, HalfDone
<1>3. CASE "provider" \notin llmSave[s].todo /\ "model" \in llmSave[s].todo
  <2>1. left = {"model"}
    BY <1>3
  <2>. QED BY <1>3, <2>1, FS_Singleton DEF Halfway, HalfDone
<1>4. CASE "provider" \notin llmSave[s].todo /\ "model" \notin llmSave[s].todo
  <2>1. left = {}
    BY <1>4
  <2>. QED BY <1>4, <2>1, FS_EmptySet DEF Halfway, HalfDone
<1>. QED BY <1>1, <1>2, <1>3, <1>4

LEMMA CallsAreAsSaved == PredictInv => CallsAsSaved
<1>. SUFFICES ASSUME PredictInv PROVE CallsAsSaved
  OBVIOUS
<1>1. setting.key \in ApiKeys \cup {Nil}
  BY DEF PredictInv, PredictTyped, LlmRows, TypedKeys
<1>2. mixed \/ OfOneProvider(setting) \/ \E s \in SaveSlots : Halfway(s)
  BY HalfwayIsHalfDone DEF PredictInv, SavesMatch
<1>3. ASSUME NEW r \in Runs, RunIs(r, "call")
      PROVE  /\ llmRun[r].cfg.key \in ApiKeys \cup {Nil}
             /\ mixed \/ llmRun[r].torn \/ OfOneProvider(llmRun[r].cfg)
  BY <1>3 DEF PredictInv, RunsFit, RunFits, RunIs, LlmRows, TypedKeys
<1>. QED BY <1>1, <1>2, <1>3 DEF CallsAsSaved

LEMMA MaskedFits ==
  ASSUME NEW row \in LlmRows
  PROVE  Masked(row) \in LlmSheets /\ (OfOneProvider(row) => OfOneProvider(Masked(row)))
BY DEF LlmRows, LlmSheets, Masked, OfOneProvider

LEMMA ShownFits ==
  ASSUME NEW page \in LlmPages, NEW cfg \in LlmSheets
  PROVE  LlmShown(page, cfg) \in LlmPages /\ LlmShown(page, cfg).cfg = cfg
BY DEF LlmShown, LlmPages, LlmSheets

LEMMA PredictInitHolds == PredictInit => PredictInv
<1>. SUFFICES ASSUME PredictInit PROVE PredictInv
  OBVIOUS
<1>1. setting \in LlmRows /\ OfOneProvider(setting) /\ mixed = FALSE
  BY DEF PredictInit, LlmRows, TypedKeys, OfOneProvider
<1>. DEFINE page == LlmShown([cfg |-> Nil, keyInput |-> Nil, loading |-> TRUE, saving |-> FALSE,
                              analyzing |-> FALSE], Masked(setting))
<1>2. Masked(setting) \in LlmSheets /\ OfOneProvider(Masked(setting))
  BY <1>1, MaskedFits
<1>3. page \in LlmPages /\ page.cfg = Masked(setting)
  BY <1>2 DEF LlmShown, LlmPages, LlmSheets
<1>4. llmPage = [t \in LlmTabs |-> page]
  BY DEF PredictInit
<1>. HIDE DEF page
<1>5. NoSave \in LlmSaves /\ NoSave.todo = {}
  BY DEF NoSave, LlmSaves
<1>6. NoRun \in LlmRuns /\ NoRun.at = "idle"
  BY DEF NoRun, LlmRuns
<1>7. llmSave = [s \in SaveSlots |-> NoSave] /\ llmRun = [r \in Runs |-> NoRun]
      /\ llmLoads = [t \in LlmTabs |-> {}]
  BY DEF PredictInit
<1>8. PredictTyped
  BY <1>1, <1>3, <1>4, <1>5, <1>6, <1>7 DEF PredictTyped
<1>9. SavesFit /\ RunsFit
  BY <1>5, <1>6, <1>7 DEF SavesFit, RunsFit, RunFits
<1>10. PagesMatch /\ SavesMatch
  BY <1>1, <1>2, <1>3, <1>4, <1>5, <1>7 DEF PagesMatch, SavesMatch, BodyFits, HalfFits, HalfDone
<1>. QED BY <1>8, <1>9, <1>10 DEF PredictInv

-----------------------------------------------------------------------------
LEMMA SavesMatchStays ==
  ASSUME SavesMatch, UNCHANGED <<setting, llmSave>>
  PROVE  SavesMatch'
BY DEF SavesMatch, BodyFits, HalfFits

\* What a step of a page or of a run has to establish.
LEMMA PredictSides ==
  ASSUME PredictInv, UNCHANGED <<setting, llmSave>>,
         llmPage' \in [LlmTabs -> LlmPages], llmLoads' \in [LlmTabs -> SUBSET LlmSheets],
         llmRun' \in [Runs -> LlmRuns], mixed' \in BOOLEAN, mixed => mixed',
         \A r \in Runs : RunFits(llmRun'[r]), ~mixed' => PagesMatch'
  PROVE  PredictInv'
<1>1. PredictTyped' /\ SavesFit'
  BY DEF PredictInv, PredictTyped, SavesFit
<1>2. ~mixed' => SavesMatch'
  BY SavesMatchStays DEF PredictInv
<1>3. RunsFit'
  BY DEF RunsFit, RunFits
<1>4. (mixed \/ (PagesMatch /\ SavesMatch))'
  <2>1. CASE mixed'
    BY <2>1
  <2>2. CASE ~mixed'
    <3>1. PagesMatch'
      BY <2>2
    <3>2. SavesMatch'
      BY <1>2, <2>2
    <3>. QED BY <3>1, <3>2
  <2>. QED BY <2>1, <2>2
<1>. QED BY <1>1, <1>3, <1>4 DEF PredictInv

\* GET, once more.
LEMMA LlmLoadFits ==
  ASSUME PredictInv, NEW t \in LlmTabs, StartLlmLoad(t)
  PROVE  /\ llmLoads' \in [LlmTabs -> SUBSET LlmSheets]
         /\ mixed' \in BOOLEAN /\ (mixed => mixed')
         /\ ~mixed' => \A u \in LlmTabs : \A cfg \in llmLoads'[u] : OfOneProvider(cfg)
<1>1. /\ llmLoads' = [llmLoads EXCEPT ![t] = @ \cup {Masked(setting)}]
      /\ mixed' = (mixed \/ \E s \in SaveSlots : Halfway(s))
  BY DEF StartLlmLoad
<1>2. /\ llmLoads \in [LlmTabs -> SUBSET LlmSheets] /\ mixed \in BOOLEAN
      /\ setting \in LlmRows
  BY DEF PredictInv, PredictTyped
<1>3. mixed' \in BOOLEAN /\ (mixed => mixed')
  BY <1>1, <1>2
<1>4. /\ Masked(setting) \in LlmSheets
      /\ OfOneProvider(setting) => OfOneProvider(Masked(setting))
  BY <1>2, MaskedFits
<1>5. ASSUME ~mixed' PROVE OfOneProvider(setting)
  <2>1. ~mixed /\ \A s \in SaveSlots : ~Halfway(s)
    BY <1>1, <1>5, Zenon
  <2>. QED BY <2>1, HalfwayIsHalfDone DEF PredictInv, SavesMatch
<1>6. llmLoads' \in [LlmTabs -> SUBSET LlmSheets]
  BY <1>1, <1>2, <1>4
<1>7. ASSUME ~mixed', NEW u \in LlmTabs, NEW cfg \in llmLoads'[u] PROVE OfOneProvider(cfg)
  BY <1>1, <1>2, <1>3, <1>4, <1>5, <1>7 DEF PredictInv, PagesMatch
<1>. QED BY <1>3, <1>6, <1>7

\* One page changes, with settings of one provider.
LEMMA PredictPageFits ==
  ASSUME PredictInv, NEW t \in LlmTabs, NEW page \in LlmPages, LlmPage(t, page),
         mixed \/ OfOneProvider(page.cfg)
  PROVE  /\ llmPage' \in [LlmTabs -> LlmPages]
         /\ ~mixed => \A u \in LlmTabs : OfOneProvider(llmPage'[u].cfg)
BY DEF PredictInv, PredictTyped, LlmPage, PagesMatch

LEMMA PredictPageSteps ==
  ASSUME PredictInv, NEW t \in LlmTabs,
         \/ LlmRefresh(t) \/ ToggleLlm(t)
         \/ \E cfg \in llmLoads[t] : LlmArrives(t, cfg) \/ LlmLoadLost(t, cfg)
         \/ \E p \in Providers : ChooseProvider(t, p)
         \/ \E k \in ApiKeys \cup {Nil} : TypeKey(t, k)
  PROVE  PredictInv'
<1>. DEFINE p == llmPage[t]
<1>0. /\ llmPage[t] \in LlmPages /\ mixed \in BOOLEAN /\ RunsFit
      /\ llmPage \in [LlmTabs -> LlmPages]
      /\ llmLoads \in [LlmTabs -> SUBSET LlmSheets] /\ llmRun \in [Runs -> LlmRuns]
      /\ mixed \/ PagesMatch
  BY DEF PredictInv, PredictTyped
<1>1. CASE LlmRefresh(t)
  <2>1. StartLlmLoad(t) /\ LlmPage(t, [llmPage[t] EXCEPT !.loading = TRUE])
        /\ UNCHANGED <<setting, llmSave, llmRun>>
    BY <1>1 DEF LlmRefresh
  <2>2. PICK page : page = [llmPage[t] EXCEPT !.loading = TRUE]
    OBVIOUS
  <2>3. page \in LlmPages /\ page.cfg = llmPage[t].cfg
    BY <1>0, <2>2 DEF LlmPages
  <2>4. LlmPage(t, page) /\ (mixed \/ OfOneProvider(page.cfg))
    BY <1>0, <2>1, <2>2, <2>3 DEF PagesMatch
  <2>5. /\ llmPage' \in [LlmTabs -> LlmPages]
        /\ ~mixed => \A u \in LlmTabs : OfOneProvider(llmPage'[u].cfg)
    BY <2>3, <2>4, PredictPageFits
  <2>6. /\ llmLoads' \in [LlmTabs -> SUBSET LlmSheets]
        /\ mixed' \in BOOLEAN /\ (mixed => mixed')
        /\ ~mixed' => \A u \in LlmTabs : \A cfg \in llmLoads'[u] : OfOneProvider(cfg)
    BY <2>1, LlmLoadFits
  <2>7. ~mixed' => PagesMatch'
    BY <2>5, <2>6 DEF PagesMatch
  <2>8. \A r \in Runs : RunFits(llmRun'[r])
    BY <1>0, <2>1 DEF RunsFit
  <2>. QED BY <1>0, <2>1, <2>5, <2>6, <2>7, <2>8, PredictSides
\* No load starts.
<1>2. ASSUME NEW page \in LlmPages, LlmPage(t, page), mixed \/ OfOneProvider(page.cfg),
             UNCHANGED <<setting, llmSave, llmRun, mixed>>,
             llmLoads' \in [LlmTabs -> SUBSET LlmSheets],
             \A u \in LlmTabs : llmLoads'[u] \subseteq llmLoads[u]
      PROVE  PredictInv'
  <2>1. /\ llmPage' \in [LlmTabs -> LlmPages]
        /\ ~mixed => \A u \in LlmTabs : OfOneProvider(llmPage'[u].cfg)
    BY <1>2, PredictPageFits
  <2>2. ~mixed' => PagesMatch'
    BY <1>0, <1>2, <2>1 DEF PagesMatch
  <2>3. \A r \in Runs : RunFits(llmRun'[r])
    BY <1>0, <1>2 DEF RunsFit
  <2>. QED BY <1>0, <1>2, <2>1, <2>2, <2>3, PredictSides
<1>3. ASSUME NEW page \in LlmPages, Edit(t, page), mixed \/ OfOneProvider(page.cfg)
      PROVE  PredictInv'
  BY <1>0, <1>2, <1>3 DEF Edit
<1>4. CASE ToggleLlm(t)
  <2>1. PICK page : page = [llmPage[t] EXCEPT !.cfg.on = ~@]
    OBVIOUS
  <2>2. page \in LlmPages /\ page.cfg.model = llmPage[t].cfg.model
        /\ page.cfg.provider = llmPage[t].cfg.provider
    BY <1>0, <2>1 DEF LlmPages, LlmSheets
  <2>. QED BY <1>0, <1>3, <1>4, <2>1, <2>2 DEF ToggleLlm, OfOneProvider, PagesMatch
<1>5. ASSUME NEW cfg \in llmLoads[t], LlmArrives(t, cfg) \/ LlmLoadLost(t, cfg) PROVE PredictInv'
  <2>1. /\ llmLoads' = [llmLoads EXCEPT ![t] = @ \ {cfg}]
        /\ UNCHANGED <<setting, llmSave, llmRun, mixed>>
    BY <1>5 DEF LlmArrives, LlmLoadLost
  <2>2. /\ llmLoads' \in [LlmTabs -> SUBSET LlmSheets] /\ cfg \in LlmSheets
        /\ \A u \in LlmTabs : llmLoads'[u] \subseteq llmLoads[u]
    BY <1>0, <2>1
  <2>3. CASE LlmArrives(t, cfg)
    <3>1. LlmPage(t, LlmShown(llmPage[t], cfg))
      BY <2>3 DEF LlmArrives
    <3>2. LlmShown(llmPage[t], cfg) \in LlmPages /\ LlmShown(llmPage[t], cfg).cfg = cfg
      BY <1>0, <2>2, ShownFits
    <3>3. mixed \/ OfOneProvider(cfg)
      BY <1>0 DEF PagesMatch
    <3>. QED BY <1>2, <2>1, <2>2, <3>1, <3>2, <3>3
  <2>4. CASE LlmLoadLost(t, cfg)
    <3>1. PICK page : page = [llmPage[t] EXCEPT !.loading = FALSE]
      OBVIOUS
    <3>2. page \in LlmPages /\ page.cfg = llmPage[t].cfg
      BY <1>0, <3>1 DEF LlmPages
    <3>3. LlmPage(t, page)
      BY <2>4, <3>1 DEF LlmLoadLost
    <3>4. mixed \/ OfOneProvider(page.cfg)
      BY <1>0, <3>2 DEF PagesMatch
    <3>. QED BY <1>2, <2>1, <2>2, <3>2, <3>3, <3>4
  <2>. QED BY <1>5, <2>3, <2>4
<1>6. ASSUME NEW q \in Providers, ChooseProvider(t, q) PROVE PredictInv'
  <2>1. PICK page : page = [llmPage[t] EXCEPT !.cfg.provider = q, !.cfg.model = q,
                                              !.keyInput = Nil]
    OBVIOUS
  <2>2. page \in LlmPages /\ page.cfg.model = q /\ page.cfg.provider = q
    BY <1>0, <2>1 DEF LlmPages, LlmSheets, TypedKeys
  <2>. QED BY <1>3, <1>6, <2>1, <2>2 DEF ChooseProvider, OfOneProvider
<1>7. ASSUME NEW k \in ApiKeys \cup {Nil}, TypeKey(t, k) PROVE PredictInv'
  <2>1. PICK page : page = [llmPage[t] EXCEPT !.keyInput = k]
    OBVIOUS
  <2>2. page \in LlmPages /\ page.cfg = llmPage[t].cfg
    BY <1>0, <2>1 DEF LlmPages, TypedKeys
  <2>. QED BY <1>0, <1>3, <1>7, <2>1, <2>2 DEF TypeKey, PagesMatch
<1>. QED BY <1>1, <1>4, <1>5, <1>6, <1>7

-----------------------------------------------------------------------------
\* A run that waits for no page to load.
LEMMA PredictRunStands ==
  ASSUME PredictInv, UNCHANGED <<setting, llmSave, llmLoads, mixed>>,
         NEW r \in Runs, NEW run \in LlmRuns, RunTo(r, run), RunFits(run),
         \/ UNCHANGED llmPage
         \/ \E t \in LlmTabs : \E page \in LlmPages : LlmPage(t, page)
                                                      /\ page.cfg = llmPage[t].cfg
  PROVE  PredictInv'
<1>. /\ llmPage \in [LlmTabs -> LlmPages] /\ mixed \in BOOLEAN /\ RunsFit
     /\ llmLoads \in [LlmTabs -> SUBSET LlmSheets] /\ llmRun \in [Runs -> LlmRuns]
     /\ mixed \/ PagesMatch
  BY DEF PredictInv, PredictTyped
<1>1. llmRun' \in [Runs -> LlmRuns] /\ \A x \in Runs : RunFits(llmRun'[x])
  BY DEF RunTo, RunsFit
<1>2. /\ llmPage' \in [LlmTabs -> LlmPages]
      /\ \A t \in LlmTabs : llmPage'[t].cfg = llmPage[t].cfg
  BY DEF LlmPage
<1>3. ~mixed' => PagesMatch'
  BY <1>2 DEF PagesMatch
<1>. QED BY <1>1, <1>2, <1>3, PredictSides

LEMMA PredictRunSteps ==
  ASSUME PredictInv, NEW r \in Runs,
         StartRun(r) \/ RunStep(r) \/ \E t \in LlmTabs : RunAnalysis(t, r)
  PROVE  PredictInv'
<1>0. /\ llmPage \in [LlmTabs -> LlmPages] /\ mixed \in BOOLEAN /\ RunsFit
      /\ llmLoads \in [LlmTabs -> SUBSET LlmSheets] /\ llmRun \in [Runs -> LlmRuns]
      /\ llmRun[r] \in LlmRuns /\ RunFits(llmRun[r]) /\ setting \in LlmRows
      /\ mixed \/ PagesMatch
  BY DEF PredictInv, PredictTyped, RunsFit
<1>2. CASE StartRun(r)
  <2>1. PICK run : run = [NoRun EXCEPT !.at = "load"]
    OBVIOUS
  <2>2. run \in LlmRuns /\ RunFits(run)
    BY <2>1 DEF NoRun, LlmRuns, RunFits
  <2>. QED BY <1>2, <2>1, <2>2, PredictRunStands DEF StartRun, Besides
<1>3. ASSUME NEW t \in LlmTabs, RunAnalysis(t, r) PROVE PredictInv'
  <2>1. PICK run : run = [NoRun EXCEPT !.at = "load", !.by = t]
    OBVIOUS
  <2>2. run \in LlmRuns /\ RunFits(run)
    BY <2>1 DEF NoRun, LlmRuns, RunFits
  <2>3. PICK page : page = [llmPage[t] EXCEPT !.analyzing = TRUE]
    OBVIOUS
  <2>4. page \in LlmPages /\ page.cfg = llmPage[t].cfg
    BY <1>0, <2>3 DEF LlmPages
  <2>5. RunTo(r, run) /\ LlmPage(t, page) /\ UNCHANGED <<setting, llmSave, llmLoads, mixed>>
    BY <1>3, <2>1, <2>3 DEF RunAnalysis, Besides
  <2>. QED BY <2>2, <2>4, <2>5, PredictRunStands
<1>4. CASE LoadConfig(r)
  <2>1. PICK torn \in BOOLEAN : torn <=> \E s \in SaveSlots : Halfway(s)
    OBVIOUS
  <2>2. PICK run : run = [llmRun[r] EXCEPT !.at = IF setting.on THEN "collect" ELSE "end",
                                           !.cfg = setting, !.torn = torn]
    OBVIOUS
  <2>3. RunTo(r, run)
    BY <1>4, <2>1, <2>2 DEF LoadConfig
  <2>4. run \in LlmRuns /\ run.cfg = setting /\ run.torn = torn
    BY <1>0, <2>2 DEF LlmRuns
  <2>5. mixed \/ torn \/ OfOneProvider(setting)
    BY <2>1, HalfwayIsHalfDone DEF PredictInv, SavesMatch
  <2>6. RunFits(run)
    BY <1>0, <2>4, <2>5 DEF RunFits
  <2>. QED BY <1>4, <2>3, <2>4, <2>6, PredictRunStands DEF LoadConfig, Besides
\* Nothing is read again.
<1>5. ASSUME NEW run \in LlmRuns, RunTo(r, run), run.cfg = llmRun[r].cfg,
             run.torn = llmRun[r].torn,
             run.at \in {"collect", "call", "save", "alert"} =>
               llmRun[r].at \in {"collect", "call", "save", "alert"},
             UNCHANGED <<llmPage, setting, llmSave, llmLoads, mixed>>
      PROVE  PredictInv'
  <2>1. RunFits(run)
    BY <1>0, <1>5 DEF RunFits
  <2>. QED BY <1>5, <2>1, PredictRunStands
<1>6. CASE CollectTrends(r)
  <2>1. PICK online \in SUBSET LlmAssets :
          RunTo(r, [llmRun[r] EXCEPT !.at = "call", !.todo = online])
    BY <1>6 DEF CollectTrends
  <2>2. PICK run : run = [llmRun[r] EXCEPT !.at = "call", !.todo = online]
    OBVIOUS
  <2>3. run \in LlmRuns /\ run.cfg = llmRun[r].cfg /\ run.torn = llmRun[r].torn
    BY <1>0, <2>2 DEF LlmRuns
  <2>. QED BY <1>5, <1>6, <2>1, <2>2, <2>3 DEF CollectTrends, RunIs, Besides
<1>7. ASSUME NEW a \in LlmAssets, NEW issue \in BOOLEAN, AnalyzeTrend(r, a, issue)
      PROVE  PredictInv'
  <2>1. PICK run : run = [llmRun[r] EXCEPT !.at = IF issue THEN "save" ELSE "call",
                                           !.todo = llmRun[r].todo \ {a},
                                           !.about = IF issue THEN a ELSE Nil]
    OBVIOUS
  <2>2. run \in LlmRuns /\ run.cfg = llmRun[r].cfg /\ run.torn = llmRun[r].torn
    BY <1>0, <2>1 DEF LlmRuns
  <2>3. RunTo(r, run) /\ UNCHANGED <<llmPage, setting, llmSave, llmLoads, mixed>>
    BY <1>7, <2>1 DEF AnalyzeTrend, Besides
  <2>. QED BY <1>5, <1>7, <2>2, <2>3 DEF AnalyzeTrend, RunIs
<1>8. CASE SavePrediction(r)
  <2>1. PICK run : run = [llmRun[r] EXCEPT !.at = "alert"]
    OBVIOUS
  <2>2. run \in LlmRuns /\ run.cfg = llmRun[r].cfg /\ run.torn = llmRun[r].torn
    BY <1>0, <2>1 DEF LlmRuns
  <2>. QED BY <1>5, <1>8, <2>1, <2>2 DEF SavePrediction, RunIs, Besides
<1>9. CASE SendPredictionAlert(r)
  <2>1. PICK run : run = [llmRun[r] EXCEPT !.at = "call", !.about = Nil]
    OBVIOUS
  <2>2. run \in LlmRuns /\ run.cfg = llmRun[r].cfg /\ run.torn = llmRun[r].torn
    BY <1>0, <2>1 DEF LlmRuns
  <2>. QED BY <1>5, <1>9, <2>1, <2>2 DEF SendPredictionAlert, RunIs, Besides
<1>10. CASE RunBreaks(r)
  <2>1. PICK run : run = [llmRun[r] EXCEPT !.at = IF llmRun[r].at = "load" THEN "failed" ELSE "end",
                                           !.todo = {}]
    OBVIOUS
  <2>2. run \in LlmRuns /\ run.cfg = llmRun[r].cfg /\ run.torn = llmRun[r].torn
        /\ run.at \in {"failed", "end"}
    BY <1>0, <2>1 DEF LlmRuns
  <2>3. RunTo(r, run) /\ UNCHANGED <<llmPage, setting, llmSave, llmLoads, mixed>>
    BY <1>10, <2>1 DEF RunBreaks, Besides
  <2>. QED BY <1>5, <2>2, <2>3
<1>11. CASE RunEnds(r)
  <2>1. PICK run : run = [llmRun[r] EXCEPT !.at = "end"]
    OBVIOUS
  <2>2. run \in LlmRuns /\ run.cfg = llmRun[r].cfg /\ run.torn = llmRun[r].torn
    BY <1>0, <2>1 DEF LlmRuns
  <2>. QED BY <1>5, <1>11, <2>1, <2>2 DEF RunEnds, RunIs, Besides
<1>12. ASSUME NEW heard \in BOOLEAN, RunAnswered(r, heard) PROVE PredictInv'
  <2>. DEFINE t == llmRun[r].by
              well == heard /\ RunIs(r, "end")
  <2>1. NoRun \in LlmRuns /\ RunFits(NoRun) /\ RunTo(r, NoRun) /\ UNCHANGED <<setting, llmSave>>
    BY <1>12 DEF RunAnswered, NoRun, LlmRuns, RunFits
  <2>2. CASE t = Nil
    BY <1>12, <2>1, <2>2, PredictRunStands DEF RunAnswered
  <2>3. CASE t # Nil
    <3>1. t \in LlmTabs /\ well \in BOOLEAN
      BY <1>0, <2>3 DEF LlmRuns
    <3>2. /\ LlmPage(t, [llmPage[t] EXCEPT !.analyzing = FALSE, !.loading = @ \/ well])
          /\ IF well THEN StartLlmLoad(t) ELSE UNCHANGED <<llmLoads, mixed>>
      BY <1>12, <2>3 DEF RunAnswered
    <3>3. PICK loading \in BOOLEAN : loading = (llmPage[t].loading \/ well)
      OBVIOUS
    <3>4. PICK page : page = [llmPage[t] EXCEPT !.analyzing = FALSE, !.loading = loading]
      OBVIOUS
    <3>5. page \in LlmPages /\ page.cfg = llmPage[t].cfg /\ LlmPage(t, page)
      <4>0. llmPage[t] \in LlmPages /\ loading \in BOOLEAN
        BY <1>0, <3>1, <3>3
      <4>1. page \in LlmPages /\ page.cfg = llmPage[t].cfg
        BY <3>4, <4>0 DEF LlmPages
      <4>2. LlmPage(t, page)
        BY <3>2, <3>3, <3>4, Zenon
      <4>. QED BY <4>1, <4>2
    <3>6. CASE ~well
      BY <2>1, <3>1, <3>2, <3>5, <3>6, PredictRunStands
    <3>7. CASE well
      <4>1. StartLlmLoad(t)
        BY <3>2, <3>7
      <4>2. /\ llmLoads' \in [LlmTabs -> SUBSET LlmSheets]
            /\ mixed' \in BOOLEAN /\ (mixed => mixed')
            /\ ~mixed' => \A u \in LlmTabs : \A cfg \in llmLoads'[u] : OfOneProvider(cfg)
        BY <3>1, <4>1, LlmLoadFits
      <4>3. mixed \/ OfOneProvider(page.cfg)
        BY <1>0, <3>1, <3>5 DEF PagesMatch
      <4>4. /\ llmPage' \in [LlmTabs -> LlmPages]
            /\ ~mixed => \A u \in LlmTabs : OfOneProvider(llmPage'[u].cfg)
        BY <3>1, <3>5, <4>3, PredictPageFits
      <4>5. ~mixed' => PagesMatch'
        BY <4>2, <4>4 DEF PagesMatch
      <4>6. llmRun' \in [Runs -> LlmRuns] /\ \A x \in Runs : RunFits(llmRun'[x])
        BY <1>0, <2>1 DEF RunTo, RunsFit
      <4>. QED BY <2>1, <4>2, <4>4, <4>5, <4>6, PredictSides
    <3>. QED BY <3>6, <3>7
  <2>. QED BY <2>2, <2>3
<1>. QED BY <1>2, <1>3, <1>4, <1>6, <1>7, <1>8, <1>9, <1>10, <1>11, <1>12 DEF RunStep

-----------------------------------------------------------------------------
LEMMA SaveSettingsHolds ==
  ASSUME PredictInv, NEW t \in LlmTabs, NEW s \in SaveSlots, SaveSettings(t, s)
  PROVE  PredictInv'
<1>. DEFINE p == llmPage[t]
            body == [p.cfg EXCEPT !.key = IF p.keyInput \in ApiKeys THEN p.keyInput ELSE p.cfg.key]
            todo == {k \in Keys : body[k] # Nil}
            c == [tab |-> t, body |-> body, todo |-> todo]
<1>0. /\ p \in LlmPages /\ mixed \in BOOLEAN /\ RunsFit /\ SavesFit
      /\ llmPage \in [LlmTabs -> LlmPages] /\ llmSave \in [SaveSlots -> LlmSaves]
      /\ mixed \/ (PagesMatch /\ SavesMatch)
  BY DEF PredictInv, PredictTyped
<1>1. /\ llmSave[s] = NoSave /\ llmSave' = [llmSave EXCEPT ![s] = c]
      /\ LlmPage(t, [p EXCEPT !.saving = TRUE])
      /\ UNCHANGED <<setting, llmLoads, llmRun, mixed>>
  BY DEF SaveSettings
<1>2. body \in LlmSheets /\ body.provider = p.cfg.provider /\ body.model = p.cfg.model
  BY <1>0 DEF LlmPages, LlmSheets, TypedKeys
<1>3. todo \subseteq Keys /\ "provider" \in todo /\ "model" \in todo
  BY <1>2, PredictAssumption DEF LlmSheets, Keys
<1>. HIDE DEF body, todo
<1>4. c \in LlmSaves /\ c.todo = todo /\ c.body = body /\ ~HalfDone(c.todo)
  BY <1>2, <1>3 DEF LlmSaves, HalfDone
<1>. HIDE DEF c
<1>5. PICK page : page = [p EXCEPT !.saving = TRUE]
  OBVIOUS
<1>6. page \in LlmPages /\ page.cfg = p.cfg /\ LlmPage(t, page)
  BY <1>0, <1>1, <1>5 DEF LlmPages
<1>7. mixed \/ OfOneProvider(p.cfg)
  BY <1>0 DEF PagesMatch
<1>8. /\ llmPage' \in [LlmTabs -> LlmPages]
      /\ ~mixed => \A u \in LlmTabs : OfOneProvider(llmPage'[u].cfg)
  BY <1>6, <1>7, PredictPageFits
<1>9. PredictTyped' /\ SavesFit' /\ RunsFit'
  <2>1. llmSave' \in [SaveSlots -> LlmSaves]
    BY <1>0, <1>1, <1>4
  <2>2. PredictTyped'
    BY <1>1, <1>8, <2>1 DEF PredictInv, PredictTyped
  <2>3. SavesFit'
    BY <1>0, <1>1, <1>2, <1>4 DEF SavesFit
  <2>4. RunsFit'
    BY <1>0, <1>1 DEF RunsFit, RunFits
  <2>. QED BY <2>2, <2>3, <2>4
<1>10. ASSUME ~mixed PROVE PagesMatch' /\ SavesMatch'
  <2>1. PagesMatch'
    BY <1>0, <1>1, <1>8, <1>10 DEF PagesMatch
  <2>2. OfOneProvider(body)
    BY <1>2, <1>7, <1>10 DEF OfOneProvider
  <2>3. \A o \in SaveSlots : o # s => llmSave'[o] = llmSave[o]
    BY <1>0, <1>1
  <2>4. llmSave'[s] = c /\ ~HalfDone(llmSave[s].todo)
    BY <1>0, <1>1 DEF NoSave, HalfDone
  <2>5. BodyFits(c) /\ HalfFits(c)
    BY <1>2, <1>4, <2>2 DEF BodyFits, HalfFits
  <2>6. SavesMatch'
    BY <1>0, <1>1, <1>4, <1>10, <2>3, <2>4, <2>5 DEF SavesMatch, BodyFits, HalfFits
  <2>. QED BY <2>1, <2>6
<1>11. (mixed \/ (PagesMatch /\ SavesMatch))'
  BY <1>1, <1>10
<1>. QED BY <1>9, <1>11 DEF PredictInv

\* The save leaves its slot: it has nothing to write, and changes nothing that matters.
LEMMA SaveEndsFits ==
  ASSUME PredictInv, NEW s \in SaveSlots, NEW c \in LlmSaves, c.todo = {},
         ~HalfDone(llmSave[s].todo), llmSave' = [llmSave EXCEPT ![s] = c], UNCHANGED setting
  PROVE  llmSave' \in [SaveSlots -> LlmSaves] /\ SavesFit' /\ (~mixed => SavesMatch')
<1>0. /\ llmSave \in [SaveSlots -> LlmSaves] /\ SavesFit /\ (mixed \/ SavesMatch)
  BY DEF PredictInv, PredictTyped
<1>1. llmSave'[s] = c /\ ~HalfDone(c.todo) /\ BodyFits(c) /\ HalfFits(c)
  BY <1>0 DEF HalfDone, BodyFits, HalfFits
<1>2. \A o \in SaveSlots : o # s => llmSave'[o] = llmSave[o]
  BY <1>0
<1>3. ~mixed => SavesMatch'
  BY <1>0, <1>1, <1>2 DEF SavesMatch, BodyFits, HalfFits
<1>4. SavesFit'
  BY <1>0, <1>1, <1>2 DEF SavesFit
<1>. QED BY <1>0, <1>3, <1>4

LEMMA SaveAnsweredHolds ==
  ASSUME PredictInv, NEW s \in SaveSlots, NEW heard \in BOOLEAN, SaveAnswered(s, heard)
  PROVE  PredictInv'
<1>. DEFINE t == llmSave[s].tab
<1>0. /\ mixed \in BOOLEAN /\ RunsFit /\ llmLoads \in [LlmTabs -> SUBSET LlmSheets]
      /\ llmPage \in [LlmTabs -> LlmPages] /\ llmSave \in [SaveSlots -> LlmSaves]
      /\ mixed \/ (PagesMatch /\ SavesMatch)
  BY DEF PredictInv, PredictTyped
<1>1. /\ t # Nil /\ llmSave[s].todo = {} /\ llmSave' = [llmSave EXCEPT ![s] = NoSave]
      /\ UNCHANGED <<setting, llmRun>>
  BY DEF SaveAnswered
<1>2. t \in LlmTabs /\ llmPage[t] \in LlmPages
  BY <1>0, <1>1 DEF LlmSaves
<1>3. NoSave \in LlmSaves /\ NoSave.todo = {} /\ ~HalfDone(llmSave[s].todo)
  BY <1>1 DEF NoSave, LlmSaves, HalfDone
<1>4. llmSave' \in [SaveSlots -> LlmSaves] /\ SavesFit' /\ (~mixed => SavesMatch')
  BY <1>1, <1>3, SaveEndsFits
<1>5. PICK page : /\ page \in {[llmPage[t] EXCEPT !.saving = FALSE, !.loading = TRUE],
                               [llmPage[t] EXCEPT !.saving = FALSE]}
                  /\ LlmPage(t, page)
                  /\ StartLlmLoad(t) \/ UNCHANGED <<llmLoads, mixed>>
  BY DEF SaveAnswered
<1>6. page \in LlmPages /\ page.cfg = llmPage[t].cfg
  <2>1. CASE page = [llmPage[t] EXCEPT !.saving = FALSE, !.loading = TRUE]
    BY <1>2, <2>1 DEF LlmPages
  <2>2. CASE page = [llmPage[t] EXCEPT !.saving = FALSE]
    BY <1>2, <2>2 DEF LlmPages
  <2>. QED BY <1>5, <2>1, <2>2
<1>. HIDE DEF t
<1>7. mixed \/ OfOneProvider(page.cfg)
  BY <1>0, <1>2, <1>6 DEF PagesMatch
<1>8. /\ llmPage' \in [LlmTabs -> LlmPages]
      /\ ~mixed => \A u \in LlmTabs : OfOneProvider(llmPage'[u].cfg)
  BY <1>2, <1>5, <1>6, <1>7, PredictPageFits
<1>9. /\ llmLoads' \in [LlmTabs -> SUBSET LlmSheets]
      /\ mixed' \in BOOLEAN /\ (mixed => mixed')
      /\ ~mixed' => \A u \in LlmTabs : \A cfg \in llmLoads'[u] : OfOneProvider(cfg)
  <2>1. CASE StartLlmLoad(t)
    BY <1>2, <2>1, LlmLoadFits
  <2>2. CASE UNCHANGED <<llmLoads, mixed>>
    BY <1>0, <2>2 DEF PagesMatch
  <2>. QED BY <1>5, <2>1, <2>2
<1>10. PredictTyped'
  BY <1>1, <1>4, <1>8, <1>9 DEF PredictInv, PredictTyped
<1>11. RunsFit'
  BY <1>0, <1>1, <1>9 DEF RunsFit, RunFits
<1>12. ASSUME ~mixed' PROVE PagesMatch' /\ SavesMatch'
  BY <1>4, <1>8, <1>9, <1>12 DEF PagesMatch
<1>13. (mixed \/ (PagesMatch /\ SavesMatch))'
  BY <1>12
<1>. QED BY <1>4, <1>10, <1>11, <1>13 DEF PredictInv

LEMMA SaveBreaksHolds ==
  ASSUME PredictInv, NEW s \in SaveSlots, SaveBreaks(s)
  PROVE  PredictInv'
<1>0. /\ mixed \in BOOLEAN /\ RunsFit /\ llmSave \in [SaveSlots -> LlmSaves]
      /\ mixed \/ (PagesMatch /\ SavesMatch)
  BY DEF PredictInv, PredictTyped
<1>1. /\ llmSave' = [llmSave EXCEPT ![s].todo = {}] /\ mixed' = (mixed \/ Halfway(s))
      /\ UNCHANGED <<setting, llmPage, llmLoads, llmRun>>
  BY DEF SaveBreaks
<1>2. mixed' \in BOOLEAN /\ (mixed => mixed') /\ (~mixed' => ~mixed /\ ~Halfway(s))
  BY <1>0, <1>1
<1>3. PICK c : c = [llmSave[s] EXCEPT !.todo = {}]
  OBVIOUS
<1>4. c \in LlmSaves /\ c.todo = {} /\ llmSave' = [llmSave EXCEPT ![s] = c]
  BY <1>0, <1>1, <1>3 DEF LlmSaves
<1>5. llmSave' \in [SaveSlots -> LlmSaves] /\ SavesFit'
  BY <1>0, <1>4 DEF PredictInv, SavesFit
<1>6. PredictTyped'
  BY <1>1, <1>2, <1>5 DEF PredictInv, PredictTyped
<1>7. RunsFit'
  BY <1>0, <1>1, <1>2 DEF RunsFit, RunFits
<1>8. ASSUME ~mixed' PROVE PagesMatch' /\ SavesMatch'
  <2>1. ~mixed /\ ~HalfDone(llmSave[s].todo)
    BY <1>2, <1>8, HalfwayIsHalfDone
  <2>2. SavesMatch'
    BY <1>1, <1>4, <2>1, SaveEndsFits
  <2>3. PagesMatch'
    BY <1>0, <1>1, <2>1 DEF PagesMatch
  <2>. QED BY <2>2, <2>3
<1>9. (mixed \/ (PagesMatch /\ SavesMatch))'
  BY <1>8
<1>. QED BY <1>5, <1>6, <1>7, <1>9 DEF PredictInv

-----------------------------------------------------------------------------
\* One statement of a save.
LEMMA RowWritten ==
  ASSUME PredictInv, NEW s \in SaveSlots, NEW k \in Keys, WriteSetting(s, k)
  PROVE  /\ setting' \in LlmRows
         /\ setting'.provider = IF k = "provider" THEN llmSave[s].body.provider
                                ELSE setting.provider
         /\ setting'.model = IF k = "model" THEN llmSave[s].body.model ELSE setting.model
<1>. DEFINE body == llmSave[s].body
<1>1. setting \in LlmRows /\ body \in LlmSheets
  BY DEF PredictInv, PredictTyped, SavesFit, WriteSetting
<1>2. setting' = IF Skips(s, k) THEN setting ELSE [setting EXCEPT ![k] = body[k]]
  BY DEF WriteSetting
<1>3. Skips(s, k) <=> k = "key" /\ body.key = "mask"
  BY DEF Skips
<1>. HIDE DEF body
<1>4. CASE k = "key" /\ body.key = "mask"
  BY <1>1, <1>2, <1>3, <1>4
<1>5. CASE k = "key" /\ body.key # "mask"
  <2>1. setting' = [setting EXCEPT !.key = body.key] /\ body.key \in TypedKeys
    BY <1>1, <1>2, <1>3, <1>5 DEF LlmSheets
  <2>. QED BY <1>1, <1>5, <2>1 DEF LlmRows
<1>6. CASE k = "provider"
  <2>1. setting' = [setting EXCEPT !.provider = body.provider] /\ body.provider \in Providers
    BY <1>1, <1>2, <1>3, <1>6 DEF LlmSheets
  <2>. QED BY <1>1, <1>6, <2>1 DEF LlmRows, body
<1>7. CASE k = "model"
  <2>1. setting' = [setting EXCEPT !.model = body.model] /\ body.model \in Providers
    BY <1>1, <1>2, <1>3, <1>7 DEF LlmSheets
  <2>. QED BY <1>1, <1>7, <2>1 DEF LlmRows, body
<1>8. CASE k = "on"
  <2>1. setting' = [setting EXCEPT !.on = body.on] /\ body.on \in BOOLEAN
    BY <1>1, <1>2, <1>3, <1>8 DEF LlmSheets
  <2>. QED BY <1>1, <1>8, <2>1 DEF LlmRows
<1>. QED BY <1>4, <1>5, <1>6, <1>7, <1>8 DEF Keys

LEMMA WriteSettingHolds ==
  ASSUME PredictInv, NEW s \in SaveSlots, NEW k \in Keys, WriteSetting(s, k)
  PROVE  PredictInv'
<1>. DEFINE body == llmSave[s].body
            todo == llmSave[s].todo
<1>0. /\ mixed \in BOOLEAN /\ RunsFit /\ SavesFit /\ llmSave \in [SaveSlots -> LlmSaves]
      /\ mixed \/ (PagesMatch /\ SavesMatch)
  BY DEF PredictInv, PredictTyped
<1>1. /\ k \in todo /\ llmSave' = [llmSave EXCEPT ![s].todo = @ \ {k}]
      /\ mixed' = (mixed \/ (k \in {"provider", "model"} /\ \E o \in SaveSlots \ {s} : Halfway(o)))
      /\ UNCHANGED <<llmPage, llmLoads, llmRun>>
  BY DEF WriteSetting
<1>2. /\ setting' \in LlmRows
      /\ setting'.provider = IF k = "provider" THEN body.provider ELSE setting.provider
      /\ setting'.model = IF k = "model" THEN body.model ELSE setting.model
  BY RowWritten
<1>3. mixed' \in BOOLEAN /\ (mixed => mixed')
  BY <1>0, <1>1
<1>4. PICK c : c = [llmSave[s] EXCEPT !.todo = @ \ {k}]
  OBVIOUS
<1>5. /\ c \in LlmSaves /\ c.todo = todo \ {k} /\ c.body = body
      /\ llmSave' = [llmSave EXCEPT ![s] = c]
  BY <1>0, <1>1, <1>4 DEF LlmSaves
<1>6. llmSave'[s] = c /\ \A o \in SaveSlots : o # s => llmSave'[o] = llmSave[o]
  BY <1>0, <1>5
<1>7. llmSave' \in [SaveSlots -> LlmSaves] /\ SavesFit'
  BY <1>0, <1>1, <1>5, <1>6 DEF SavesFit
<1>8. PredictTyped'
  BY <1>1, <1>2, <1>3, <1>7 DEF PredictInv, PredictTyped
<1>9. RunsFit'
  BY <1>0, <1>1, <1>3 DEF RunsFit, RunFits
<1>10. ASSUME ~mixed' PROVE PagesMatch' /\ SavesMatch'
  <2>1. ~mixed /\ (k \in {"provider", "model"} => \A o \in SaveSlots : o # s => ~Halfway(o))
    BY <1>0, <1>1, <1>10
  <2>2. k \in {"provider", "model"} => \A o \in SaveSlots : o # s => ~HalfDone(llmSave[o].todo)
    BY <2>1, HalfwayIsHalfDone
  <2>3. PagesMatch' /\ SavesMatch /\ BodyFits(llmSave[s]) /\ HalfFits(llmSave[s])
    BY <1>0, <1>1, <2>1 DEF PagesMatch, SavesMatch
  <2>4. OfOneProvider(body)
    BY <1>1, <2>3 DEF BodyFits
  <2>. HIDE DEF body, todo
  <2>5. BodyFits(c)
    BY <1>1, <1>5, <2>3, <2>4 DEF BodyFits, body, todo
  <2>6. CASE k \in {"provider", "model"}
    <3>1. HalfDone(c.todo) => /\ "provider" \notin c.todo => setting'.provider = body.provider
                              /\ "model" \notin c.todo => setting'.model = body.model
      BY <1>1, <1>2, <1>5, <2>3, <2>6 DEF HalfDone, HalfFits, body, todo
    <3>2. ~HalfDone(c.todo) => setting'.provider = body.provider /\ setting'.model = body.model
      BY <1>1, <1>2, <1>5, <2>3, <2>6 DEF HalfDone, HalfFits, body, todo
    <3>3. ~HalfDone(c.todo) => OfOneProvider(setting')
      BY <2>4, <3>2 DEF OfOneProvider
    <3>4. ASSUME NEW o \in SaveSlots PROVE (BodyFits(llmSave[o]) /\ HalfFits(llmSave[o]))'
      <4>1. CASE o = s
        BY <1>5, <1>6, <2>5, <3>1, <4>1 DEF BodyFits, HalfFits
      <4>2. CASE o # s
        BY <1>6, <2>2, <2>3, <2>6, <4>2 DEF BodyFits, HalfFits, SavesMatch
      <4>. QED BY <4>1, <4>2
    <3>5. \A o \in SaveSlots : HalfDone(llmSave'[o].todo) => o = s
      BY <1>6, <2>2, <2>6
    <3>6. (\A o \in SaveSlots : ~HalfDone(llmSave'[o].todo)) => OfOneProvider(setting')
      BY <1>6, <3>3
    <3>. QED BY <2>3, <3>4, <3>5, <3>6 DEF SavesMatch
  <2>7. CASE k \notin {"provider", "model"}
    <3>1. /\ HalfDone(c.todo) <=> HalfDone(todo)
          /\ "provider" \in c.todo <=> "provider" \in todo
          /\ "model" \in c.todo <=> "model" \in todo
          /\ setting'.provider = setting.provider /\ setting'.model = setting.model
      BY <1>2, <1>5, <2>7 DEF HalfDone
    <3>2. \A o \in SaveSlots : HalfDone(llmSave'[o].todo) <=> HalfDone(llmSave[o].todo)
      BY <1>6, <3>1 DEF todo
    <3>3. ASSUME NEW o \in SaveSlots PROVE (BodyFits(llmSave[o]) /\ HalfFits(llmSave[o]))'
      <4>1. CASE o = s
        BY <1>5, <1>6, <2>3, <2>5, <3>1, <4>1 DEF BodyFits, HalfFits, body, todo
      <4>2. CASE o # s
        BY <1>6, <2>3, <3>1, <4>2 DEF BodyFits, HalfFits, SavesMatch
      <4>. QED BY <4>1, <4>2
    <3>4. OfOneProvider(setting) => OfOneProvider(setting')
      BY <3>1 DEF OfOneProvider
    <3>. QED BY <2>3, <3>2, <3>3, <3>4 DEF SavesMatch
  <2>. QED BY <2>3, <2>6, <2>7
<1>11. (mixed \/ (PagesMatch /\ SavesMatch))'
  BY <1>10
<1>. QED BY <1>7, <1>8, <1>9, <1>11 DEF PredictInv

-----------------------------------------------------------------------------
LEMMA PredictStepHolds == PredictInv /\ [PredictNext]_predictVars => PredictInv'
<1>. SUFFICES ASSUME PredictInv, [PredictNext]_predictVars PROVE PredictInv'
  OBVIOUS
<1>1. CASE PredictNext
  BY <1>1, PredictPageSteps, PredictRunSteps, SaveSettingsHolds, SaveAnsweredHolds,
     SaveBreaksHolds, WriteSettingHolds
  DEF PredictNext
<1>2. CASE UNCHANGED predictVars
  BY <1>2 DEF predictVars, PredictInv, PredictTyped, SavesFit, RunsFit, RunFits, PagesMatch,
              SavesMatch, BodyFits, HalfFits
<1>. QED BY <1>1, <1>2

\* A run calls out with a key that was typed and with a model of its provider, unless a
\* save was read, met by another one or broken off half way: for any number of pages,
\* saves and runs.
THEOREM PredictCallsAsSaved == PredictSpec => []CallsAsSaved
<1>1. PredictInit => PredictInv
  BY PredictInitHolds
<1>2. PredictInv /\ [PredictNext]_<<predictVars, deskVars>> => PredictInv'
  BY PredictStepHolds DEF predictVars
<1>3. PredictInv => CallsAsSaved
  BY CallsAreAsSaved
<1>. QED BY <1>1, <1>2, <1>3, PTL DEF PredictSpec

-----------------------------------------------------------------------------
(* The topology, for any devices, rows and writers at the same time.  The  *)
(* invariant comes in three layers: what the variables hold and which rows *)
(* a job may count on; that nothing is added twice; what LLDP has found.   *)

WwnRows == [dev : Gear, wwn : Gear, kind : {"hba", "switch_port"} \cup
              UNION {{l.kind : l \in text.lines} : text \in Texts}]
ParsedRows == [of : Gear, kind : UNION {{l.kind : l \in text.lines} : text \in Texts}]
Found == NodeIds \cup {0}
FoundEdges == EdgeIds \cup {0}
LinkRows == [from : Gear \cup {Stranger}, to : Gear \cup {Stranger}, layer : Layers]
Stages == {"from", "addFrom", "to", "addTo", "edge", "write"}

SaveJobs == [kind : {"save"}, at : {"delete", "rows"}, dev : Switches, rows : SUBSET ParsedRows]
PlaceJobs == [kind : {"place"}, at : {"rows"}, to : [NodeIds -> Places \cup {Nil}],
              rows : SUBSET NodeIds]
ReadJobs == [kind : {"run"}, at : {"readMac", "readSwitch", "log"}, dry : BOOLEAN]
TargetJobs == [kind : {"run"}, at : {"readTarget"}, dry : BOOLEAN, hba : SUBSET WwnRows,
               port : SUBSET WwnRows]
RunLinks == [kind : {"run"}, at : Stages \cup {"pick"}, dry : BOOLEAN, method : {"arp", "wwn"},
             todo : SUBSET LinkRows, link : LinkRows \cup {Nil}, from : Found, to : Found,
             edge : FoundEdges]
LldpLinks == [kind : {"lldp"}, at : Stages, method : {"lldp"}, todo : {{}}, link : LinkRows,
              from : Found, to : Found, edge : FoundEdges]
Unlinked == {NoJob} \cup SaveJobs \cup PlaceJobs \cup ReadJobs \cup TargetJobs
Linked == RunLinks \cup LldpLinks

\* A link in work has got its link, and the ends that were looked for by then.
Equipped(c) ==
  c.at \in Stages =>
    /\ c.link \in LinkRows
    /\ c.at \in {"to", "addTo", "edge", "write"} => c.from \in NodeIds
    /\ c.at \in {"edge", "write"} => c.to \in NodeIds

MapData == [pos : [NodeIds -> Places \cup {Nil}], linked : SUBSET NodeIds]

PanelForms == [open : BOOLEAN, devices : SUBSET Switches, rows : SUBSET Switches,
               asset : Switches \cup {Nil}, parsed : SUBSET ParsedRows, saving : BOOLEAN,
               running : BOOLEAN]
PageForms == [layer : Layers, data : MapData, shown : [NodeIds -> Places \cup {Nil}],
              all : BOOLEAN, dirty : BOOLEAN, saving : BOOLEAN, loading : BOOLEAN]

TablesTyped ==
  /\ known \in SUBSET Switches /\ macTable \in [Switches -> SUBSET Gear]
  /\ wwnTable \in SUBSET WwnRows
GraphTyped ==
  /\ nodes \in [NodeIds -> NodeRows \cup {Nil}]
  /\ edges \in [EdgeIds -> EdgeRows \cup {Nil}]
JobsTyped == job \in [Jobs -> Unlinked \cup Linked] /\ \A j \in Jobs : Equipped(job[j])
ScreensTyped == panel \in PanelForms /\ topoPage \in PageForms /\ pageLoads \in SUBSET MapData
TopologyTyped == TablesTyped /\ GraphTyped /\ JobsTyped /\ ScreensTyped

\* A node the page shows or is told about is there for good.
Lasting(n) == nodes[n] # Nil /\ nodes[n].by = 0
PageLasts ==
  /\ \A n \in NodeIds : topoPage.data.pos[n] # Nil \/ topoPage.shown[n] # Nil => Lasting(n)
  /\ \A l \in pageLoads : \A n \in NodeIds : l.pos[n] # Nil => Lasting(n)
JobsLast ==
  \A j \in Jobs : job[j].kind = "place" =>
    \A n \in job[j].rows : job[j].to[n] # Nil /\ Lasting(n)

\* The edge a job is about to update is there until the job is over.
EdgeHeld == \A j \in Jobs : job[j].at = "write" /\ job[j].edge # 0 =>
          edges[job[j].edge] # Nil /\ edges[job[j].edge].by \in {0, j}

TopologyInv == TopologyTyped /\ PageLasts /\ JobsLast /\ EdgeHeld

\* A job that links nothing.
LEMMA UnlinkedStages ==
  ASSUME NEW c \in Unlinked
  PROVE  /\ c.at \notin Stages \cup {"pick"} /\ Equipped(c)
         /\ c.kind = "save" => c \in SaveJobs
         /\ c.kind = "place" => c \in PlaceJobs
         /\ c.kind = "run" /\ c.at \in {"readMac", "readSwitch", "log"} => c \in ReadJobs
         /\ c.kind = "run" /\ c.at = "readTarget" => c \in TargetJobs
  BY DEF Unlinked, NoJob, SaveJobs, PlaceJobs, ReadJobs, TargetJobs, Stages, Equipped

LEMMA LinkStages ==
  ASSUME NEW c \in Linked
  PROVE  /\ c.at \in Stages \cup {"pick"} /\ c.kind \in {"run", "lldp"}
         /\ c.kind = "run" => c \in RunLinks
         /\ c.kind = "lldp" => c \in LldpLinks
         /\ c.at = "pick" => c \in RunLinks
  BY DEF Linked, RunLinks, LldpLinks, Stages

\* A step of one job: the others keep what they may count on when no lasting node and
\* no edge of theirs goes away.
LEMMA JobMoves ==
  ASSUME TopologyInv, NEW j \in Jobs, NEW new \in Unlinked \cup Linked, Equipped(new),
         job' = [job EXCEPT ![j] = new],
         \A n \in NodeIds : Lasting(n) => Lasting(n)',
         \A e \in EdgeIds, o \in Jobs \ {j} :
           edges[e] # Nil /\ edges[e].by \in {0, o} => edges'[e] # Nil /\ edges'[e].by \in {0, o},
         new.kind = "place" => \A n \in new.rows : new.to[n] # Nil /\ Lasting(n)',
         new.at = "write" /\ new.edge # 0 => edges'[new.edge] # Nil /\ edges'[new.edge].by \in {0, j}
  PROVE  JobsTyped' /\ JobsLast' /\ EdgeHeld'
<1>1. job \in [Jobs -> Unlinked \cup Linked] /\ \A o \in Jobs : Equipped(job[o])
  BY DEF TopologyInv, TopologyTyped, JobsTyped
<1>2. job' \in [Jobs -> Unlinked \cup Linked] /\ job'[j] = new
      /\ \A o \in Jobs \ {j} : job'[o] = job[o]
  BY <1>1
<1>3. JobsTyped'
  BY <1>1, <1>2 DEF JobsTyped
<1>4. ASSUME NEW o \in Jobs \ {j}, job[o].kind = "place", NEW n \in job[o].rows
      PROVE  job[o].to[n] # Nil /\ Lasting(n)'
  <2>1. job[o] \in PlaceJobs
    BY <1>1, <1>4, UnlinkedStages, LinkStages
  <2>2. n \in NodeIds
    BY <1>4, <2>1 DEF PlaceJobs
  <2>. QED BY <1>4, <2>2 DEF TopologyInv, JobsLast
<1>5. JobsLast'
  BY <1>2, <1>4 DEF JobsLast
<1>6. ASSUME NEW o \in Jobs \ {j}, job[o].at = "write", job[o].edge # 0
      PROVE  edges'[job[o].edge] # Nil /\ edges'[job[o].edge].by \in {0, o}
  <2>1. job[o] \in Linked
    BY <1>1, <1>6, UnlinkedStages DEF Stages
  <2>2. job[o].edge \in EdgeIds
    BY <1>6, <2>1 DEF Linked, RunLinks, LldpLinks, FoundEdges
  <2>. QED BY <1>6, <2>2 DEF TopologyInv, EdgeHeld
<1>7. EdgeHeld'
  BY <1>2, <1>6 DEF EdgeHeld
<1>. QED BY <1>3, <1>5, <1>7

\* A step of one job that leaves the graph and the page alone.
LEMMA JobMovesOnly ==
  ASSUME TopologyInv, NEW j \in Jobs, NEW new \in Unlinked \cup Linked, Equipped(new),
         job' = [job EXCEPT ![j] = new], UNCHANGED <<tableVars, graphVars, screenVars>>,
         new.kind # "place",
         new.at = "write" /\ new.edge # 0 => edges[new.edge] # Nil /\ edges[new.edge].by \in {0, j}
  PROVE  TopologyInv'
<1>1. JobsTyped' /\ JobsLast' /\ EdgeHeld'
  BY JobMoves DEF Lasting, graphVars
<1>. QED BY <1>1 DEF TopologyInv, TopologyTyped, TablesTyped, GraphTyped, ScreensTyped, PageLasts,
                     Lasting, graphVars, tableVars, screenVars

\* A step of the panel or of the tables.
LEMMA TablesMove ==
  ASSUME TopologyInv, UNCHANGED <<graphVars, topoPage, pageLoads>>, TablesTyped',
         panel' \in PanelForms,
         \/ UNCHANGED job
         \/ \E j \in Jobs, new \in Unlinked :
              new.kind # "place" /\ job' = [job EXCEPT ![j] = new]
  PROVE  TopologyInv'
<1>1. JobsTyped' /\ JobsLast' /\ EdgeHeld'
  <2>1. CASE UNCHANGED job
    BY <2>1 DEF TopologyInv, TopologyTyped, JobsTyped, JobsLast, EdgeHeld, Lasting, graphVars
  <2>2. ASSUME NEW j \in Jobs, NEW new \in Unlinked, new.kind # "place",
               job' = [job EXCEPT ![j] = new]
        PROVE  JobsTyped' /\ JobsLast' /\ EdgeHeld'
    <3>1. new.at # "write" /\ Equipped(new)
      BY UnlinkedStages DEF Stages
    <3>. QED BY <2>2, <3>1, JobMoves DEF Lasting, graphVars
  <2>. QED BY <2>1, <2>2
<1>. QED BY <1>1 DEF TopologyInv, TopologyTyped, GraphTyped, ScreensTyped, PageLasts, Lasting,
                     graphVars

LEMMA ParsedTyped ==
  ASSUME NEW text \in Texts, NEW choice \in SwitchVendors
  PROVE  Parsed(text, choice) \in SUBSET ParsedRows
<1>1. ASSUME NEW form PROVE LinesOf(text, form) \subseteq {l \in text.lines : l.of # Nil}
  BY DEF LinesOf
<1>2. FirstThatFits(text) \subseteq {l \in text.lines : l.of # Nil}
  BY <1>1 DEF FirstThatFits
<1>3. ASSUME NEW l \in text.lines, l.of # Nil PROVE [of |-> l.of, kind |-> l.kind] \in ParsedRows
  BY <1>3, TopologyAssumption DEF ParsedRows
<1>4. ASSUME NEW lines \in SUBSET {l \in text.lines : l.of # Nil}
      PROVE  {[of |-> l.of, kind |-> l.kind] : l \in lines} \subseteq ParsedRows
  BY <1>3, <1>4
<1>. QED BY <1>1, <1>2, <1>4 DEF Parsed

LEMMA PanelTyped ==
  ASSUME TopologyInv
  PROVE  /\ panel \in PanelForms /\ known \in SUBSET Switches
         /\ macTable \in [Switches -> SUBSET Gear] /\ wwnTable \in SUBSET WwnRows
         /\ TablesTyped
         /\ \A p \in PanelForms : known' \in SUBSET Switches => Status(p) \in PanelForms
  BY DEF TopologyInv, TopologyTyped, TablesTyped, ScreensTyped, PanelForms, Status, WithRows

LEMMA PanelHolds ==
  ASSUME TopologyInv,
         \/ TogglePanel
         \/ \E d \in Switches : PickDevice(d) \/ CreateDevice(d) \/ HandleDelete(d)
         \/ \E text \in Texts, v \in SwitchVendors : DoParse(text, v)
         \/ \E j \in Jobs : HandleSave(j) \/ SaveAnswer(j) \/ \E dry \in BOOLEAN : HandleRun(j, dry)
  PROVE  TopologyInv'
<1>1. CASE TogglePanel
  <2>1. panel' \in PanelForms
    <3>1. [panel EXCEPT !.open = FALSE] \in PanelForms /\ [panel EXCEPT !.open = TRUE] \in PanelForms
      BY PanelTyped DEF PanelForms
    <3>. QED BY <1>1, <3>1, PanelTyped DEF TogglePanel, Panel, tableVars
  <2>. QED BY <1>1, <2>1, PanelTyped, TablesMove DEF TogglePanel, Panel, tableVars, TablesTyped
<1>2. ASSUME NEW d \in Switches, PickDevice(d) PROVE TopologyInv'
  <2>1. [panel EXCEPT !.asset = d] \in PanelForms
    BY PanelTyped DEF PanelForms
  <2>. QED BY <1>2, <2>1, PanelTyped, TablesMove DEF PickDevice, Panel, tableVars, TablesTyped
<1>3. ASSUME NEW d \in Switches, CreateDevice(d) PROVE TopologyInv'
  <2>1. known' \in SUBSET Switches /\ TablesTyped'
    BY <1>3, PanelTyped DEF CreateDevice, TablesTyped
  <2>2. Status(panel) \in PanelForms
    BY <2>1, PanelTyped
  <2>3. [Status(panel) EXCEPT !.asset = d] \in PanelForms
    BY <2>2 DEF PanelForms
  <2>. QED BY <1>3, <2>1, <2>3, TablesMove DEF CreateDevice, Panel
<1>4. ASSUME NEW d \in Switches, HandleDelete(d) PROVE TopologyInv'
  <2>1. known' \in SUBSET Switches /\ TablesTyped'
    BY <1>4, PanelTyped DEF HandleDelete, TablesTyped
  <2>2. Status(panel) \in PanelForms
    BY <2>1, PanelTyped
  <2>. QED BY <1>4, <2>1, <2>2, TablesMove DEF HandleDelete, Panel
<1>5. ASSUME NEW text \in Texts, NEW v \in SwitchVendors, DoParse(text, v) PROVE TopologyInv'
  <2>1. [panel EXCEPT !.parsed = Parsed(text, v)] \in PanelForms
    BY PanelTyped, ParsedTyped DEF PanelForms
  <2>. QED BY <1>5, <2>1, PanelTyped, TablesMove DEF DoParse, Panel, tableVars, TablesTyped
<1>6. ASSUME NEW j \in Jobs, HandleSave(j) PROVE TopologyInv'
  <2>. DEFINE new == [kind |-> "save", at |-> "delete", dev |-> panel.asset, rows |-> panel.parsed]
  <2>1. new \in SaveJobs /\ [panel EXCEPT !.saving = TRUE] \in PanelForms
    BY <1>6, PanelTyped DEF HandleSave, PanelForms, SaveJobs
  <2>2. new \in Unlinked /\ new.kind # "place"
    BY <2>1 DEF Unlinked
  <2>. QED BY <1>6, <2>1, <2>2, PanelTyped, TablesMove DEF HandleSave, Panel, tableVars, TablesTyped
<1>7. ASSUME NEW j \in Jobs, SaveAnswer(j) PROVE TopologyInv'
  <2>1. known' \in SUBSET Switches /\ TablesTyped'
    BY <1>7, PanelTyped DEF SaveAnswer, TablesTyped, tableVars
  <2>2. Status(panel) \in PanelForms
    BY <2>1, PanelTyped
  <2>3. [Status(panel) EXCEPT !.parsed = {}, !.saving = FALSE] \in PanelForms
    BY <2>2 DEF PanelForms
  <2>4. NoJob \in Unlinked /\ NoJob.kind # "place"
    BY DEF Unlinked, NoJob
  <2>. QED BY <1>7, <2>1, <2>3, <2>4, TablesMove DEF SaveAnswer, Panel
<1>8. ASSUME NEW j \in Jobs, NEW dry \in BOOLEAN, HandleRun(j, dry) PROVE TopologyInv'
  <2>. DEFINE new == [kind |-> "run", at |-> "readMac", dry |-> dry]
  <2>1. new \in ReadJobs /\ [panel EXCEPT !.running = TRUE] \in PanelForms
    BY PanelTyped DEF PanelForms, ReadJobs
  <2>2. new \in Unlinked /\ new.kind # "place"
    BY <2>1 DEF Unlinked
  <2>. QED BY <1>8, <2>1, <2>2, PanelTyped, TablesMove DEF HandleRun, Panel, tableVars, TablesTyped
<1>. QED BY <1>1, <1>2, <1>3, <1>4, <1>5, <1>6, <1>7, <1>8

LEMMA JobTyped ==
  ASSUME TopologyInv, NEW j \in Jobs
  PROVE  /\ job[j] \in Unlinked \cup Linked /\ Equipped(job[j])
         /\ job[j].at \in Stages \cup {"pick"} => job[j] \in Linked
         /\ job[j].kind = "save" => job[j] \in SaveJobs
         /\ job[j].kind = "place" => job[j] \in PlaceJobs
         /\ job[j].at = "pick" => job[j] \in RunLinks
         /\ job[j].kind = "run" /\ job[j].at \in {"readMac", "readSwitch", "log"} => job[j] \in ReadJobs
         /\ job[j].kind = "run" /\ job[j].at = "readTarget" => job[j] \in TargetJobs
<1>1. job[j] \in Unlinked \cup Linked /\ Equipped(job[j])
  BY DEF TopologyInv, TopologyTyped, JobsTyped
<1>2. {"readMac", "readSwitch", "log", "readTarget"} \cap (Stages \cup {"pick"}) = {}
  BY DEF Stages
<1>. QED BY <1>1, <1>2, UnlinkedStages, LinkStages

LEMMA TableRowsHold ==
  ASSUME TopologyInv,
         \/ \E d \in Switches, g \in Gear : WwnSeen(d, g)
         \/ \E j \in Jobs : DeleteRows(j) \/ \E x \in ParsedRows : UpsertRow(j, x)
  PROVE  TopologyInv'
<1>1. ASSUME NEW d \in Switches, NEW g \in Gear, WwnSeen(d, g) PROVE TopologyInv'
  <2>1. [dev |-> d, wwn |-> g, kind |-> "switch_port"] \in WwnRows
    BY DEF WwnRows, Gear
  <2>2. TablesTyped'
    BY <1>1, <2>1, PanelTyped DEF WwnSeen, TablesTyped
  <2>. QED BY <1>1, <2>2, PanelTyped, TablesMove DEF WwnSeen, screenVars
<1>2. ASSUME NEW j \in Jobs, DeleteRows(j) PROVE TopologyInv'
  <2>1. job[j] \in SaveJobs
    BY <1>2, JobTyped DEF DeleteRows
  <2>. DEFINE new == [job[j] EXCEPT !.at = "rows"]
  <2>2. new \in SaveJobs /\ job' = [job EXCEPT ![j] = new]
    BY <1>2, <2>1 DEF DeleteRows, SaveJobs
  <2>3. new \in Unlinked /\ new.kind # "place"
    BY <2>2 DEF Unlinked, SaveJobs
  <2>4. TablesTyped'
    BY <1>2, <2>1, PanelTyped DEF DeleteRows, TablesTyped, SaveJobs
  <2>. QED BY <1>2, <2>2, <2>3, <2>4, PanelTyped, TablesMove DEF DeleteRows, screenVars
<1>3. ASSUME NEW j \in Jobs, NEW x \in ParsedRows, UpsertRow(j, x) PROVE TopologyInv'
  <2>1. job[j] \in SaveJobs
    BY <1>3, JobTyped DEF UpsertRow
  <2>. DEFINE new == [job[j] EXCEPT !.rows = job[j].rows \ {x}]
  <2>2. new \in SaveJobs /\ job' = [job EXCEPT ![j] = new]
    BY <1>3, <2>1 DEF UpsertRow, SaveJobs
  <2>3. new \in Unlinked /\ new.kind # "place"
    BY <2>2 DEF Unlinked, SaveJobs
  <2>4. [dev |-> job[j].dev, wwn |-> x.of, kind |-> x.kind] \in WwnRows
    BY <2>1 DEF SaveJobs, WwnRows, ParsedRows, Gear
  <2>5. TablesTyped'
    <3>1. CASE x.kind = "mac"
      BY <1>3, <2>1, <3>1, PanelTyped DEF UpsertRow, TablesTyped, SaveJobs, ParsedRows
    <3>2. CASE x.kind # "mac"
      BY <1>3, <2>4, <3>2, PanelTyped DEF UpsertRow, TablesTyped
    <3>. QED BY <3>1, <3>2
  <2>. QED BY <1>3, <2>2, <2>3, <2>5, PanelTyped, TablesMove DEF UpsertRow, screenVars
<1>. QED BY <1>1, <1>2, <1>3

\* A step of the page, which may save or be answered.
LEMMA PageMoves ==
  ASSUME TopologyInv, UNCHANGED <<tableVars, graphVars>>, panel' \in PanelForms,
         topoPage' \in PageForms, pageLoads' \in SUBSET MapData, PageLasts',
         \/ UNCHANGED job
         \/ \E j \in Jobs, new \in Unlinked :
              /\ new.kind = "place" => \A n \in new.rows : new.to[n] # Nil /\ Lasting(n)
              /\ job' = [job EXCEPT ![j] = new]
  PROVE  TopologyInv'
<1>1. JobsTyped' /\ JobsLast' /\ EdgeHeld'
  <2>1. CASE UNCHANGED job
    BY <2>1 DEF TopologyInv, TopologyTyped, JobsTyped, JobsLast, EdgeHeld, Lasting, graphVars
  <2>2. ASSUME NEW j \in Jobs, NEW new \in Unlinked, job' = [job EXCEPT ![j] = new],
               new.kind = "place" => \A n \in new.rows : new.to[n] # Nil /\ Lasting(n)
        PROVE  JobsTyped' /\ JobsLast' /\ EdgeHeld'
    <3>1. new.at # "write" /\ Equipped(new)
      BY UnlinkedStages DEF Stages
    <3>2. new.kind = "place" => \A n \in new.rows : new.to[n] # Nil /\ Lasting(n)'
      BY <2>2 DEF Lasting, graphVars
    <3>. QED BY <2>2, <3>1, <3>2, JobMoves DEF Lasting, graphVars
  <2>. QED BY <2>1, <2>2
<1>. QED BY <1>1 DEF TopologyInv, TopologyTyped, TablesTyped, GraphTyped, ScreensTyped,
                     graphVars, tableVars

LEMMA MapPageTyped ==
  ASSUME TopologyInv
  PROVE  /\ panel \in PanelForms /\ topoPage \in PageForms /\ pageLoads \in SUBSET MapData
         /\ topoPage.data \in MapData /\ topoPage.shown \in [NodeIds -> Places \cup {Nil}]
         /\ topoPage.data.pos \in [NodeIds -> Places \cup {Nil}]
         /\ nodes \in [NodeIds -> NodeRows \cup {Nil}]
         /\ edges \in [EdgeIds -> EdgeRows \cup {Nil}]
         /\ PageLasts
         /\ \A n \in NodeIds : topoPage.shown[n] # Nil => Lasting(n)
  BY DEF TopologyInv, TopologyTyped, GraphTyped, ScreensTyped, PageForms, MapData, PageLasts

LEMMA LoadMapTyped ==
  ASSUME TopologyInv, UNCHANGED graphVars, NEW page \in PageForms,
         page.data = topoPage.data, page.shown = topoPage.shown, LoadMap(page)
  PROVE  topoPage' \in PageForms /\ pageLoads' \in SUBSET MapData /\ PageLasts'
<1>. DEFINE rows == [n \in NodeIds |-> IF Visible(nodes'[n], 0) /\ nodes'[n].layer = page.layer
                                       THEN nodes'[n].pos ELSE Nil]
            linked == UNION {{edges'[e].from, edges'[e].to} : e \in
                        {f \in EdgeIds : Visible(edges'[f], 0) /\ edges'[f].layer = page.layer}}
            load == [pos |-> rows, linked |-> linked]
<1>1. pageLoads' = pageLoads \cup {load}
      /\ topoPage' = [page EXCEPT !.dirty = FALSE, !.loading = TRUE]
  BY DEF LoadMap
<1>2. rows \in [NodeIds -> Places \cup {Nil}]
  BY MapPageTyped DEF graphVars, Visible, NodeRows
<1>3. linked \subseteq NodeIds
  BY MapPageTyped DEF graphVars, Visible, EdgeRows
<1>4. load \in MapData
  BY <1>2, <1>3 DEF MapData
<1>5. \A n \in NodeIds : rows[n] # Nil => Lasting(n)'
  BY DEF Visible, Lasting
<1>6. topoPage' \in PageForms /\ topoPage'.data = topoPage.data /\ topoPage'.shown = topoPage.shown
  BY <1>1 DEF PageForms
<1>7. \A n \in NodeIds : Lasting(n) => Lasting(n)'
  BY DEF Lasting, graphVars
<1>8. PageLasts'
  <2>1. ASSUME NEW l \in pageLoads', NEW n \in NodeIds, l.pos[n] # Nil PROVE Lasting(n)'
    <3>1. CASE l = load
      BY <1>5, <2>1, <3>1
    <3>2. CASE l \in pageLoads
      BY <1>7, <2>1, <3>2, MapPageTyped DEF PageLasts
    <3>. QED BY <1>1, <2>1, <3>1, <3>2
  <2>. QED BY <1>6, <1>7, <2>1, MapPageTyped DEF PageLasts
<1>. QED BY <1>1, <1>4, <1>6, <1>8, MapPageTyped

LEMMA FilteredTyped ==
  ASSUME NEW data \in MapData, NEW all \in BOOLEAN
  PROVE  /\ Filtered(data, all) \in [NodeIds -> Places \cup {Nil}]
         /\ \A n \in NodeIds : Filtered(data, all)[n] # Nil => data.pos[n] # Nil
  BY TopologyAssumption DEF Filtered, MapData

LEMMA PageHolds ==
  ASSUME TopologyInv,
         \/ \E l \in Layers : OpenLayer(l)
         \/ \E data \in pageLoads : MapArrives(data)
         \/ ToggleAll \/ AutoLayout
         \/ \E n \in NodeIds, p \in Places : DragNode(n, p)
  PROVE  TopologyInv'
<1>1. ASSUME NEW l \in Layers, OpenLayer(l) PROVE TopologyInv'
  <2>. DEFINE page == [topoPage EXCEPT !.layer = l]
  <2>1. page \in PageForms /\ page.data = topoPage.data /\ page.shown = topoPage.shown
    BY MapPageTyped DEF PageForms
  <2>2. UNCHANGED <<tableVars, graphVars, panel, job>> /\ LoadMap(page)
    BY <1>1 DEF OpenLayer
  <2>. QED BY <2>1, <2>2, LoadMapTyped, PageMoves, MapPageTyped
<1>2. ASSUME NEW data \in pageLoads, MapArrives(data) PROVE TopologyInv'
  <2>1. data \in MapData /\ topoPage.all \in BOOLEAN
    BY MapPageTyped DEF PageForms
  <2>2. topoPage' = [topoPage EXCEPT !.data = data, !.loading = FALSE,
                                     !.shown = Filtered(data, topoPage.all)]
        /\ pageLoads' = pageLoads \ {data} /\ UNCHANGED <<tableVars, graphVars, panel, job>>
    BY <1>2 DEF MapArrives, OnPage
  <2>3. topoPage' \in PageForms /\ topoPage'.data = data /\ topoPage'.shown = Filtered(data, topoPage.all)
    BY <2>1, <2>2, MapPageTyped, FilteredTyped DEF PageForms
  <2>4. PageLasts'
    BY <2>1, <2>2, <2>3, MapPageTyped, FilteredTyped DEF PageLasts, Lasting, graphVars
  <2>. QED BY <2>2, <2>3, <2>4, PageMoves, MapPageTyped
<1>3. CASE ToggleAll
  <2>. DEFINE all == ~topoPage.all
  <2>1. topoPage.data \in MapData /\ all \in BOOLEAN
    BY MapPageTyped DEF PageForms
  <2>2. topoPage' = [topoPage EXCEPT !.all = ~topoPage.all, !.shown = Filtered(topoPage.data, all)]
        /\ UNCHANGED <<pageLoads, tableVars, graphVars, panel, job>>
    BY <1>3 DEF ToggleAll, OnPage
  <2>3. topoPage' \in PageForms /\ topoPage'.data = topoPage.data
        /\ topoPage'.shown = Filtered(topoPage.data, all)
    BY <2>1, <2>2, MapPageTyped, FilteredTyped DEF PageForms
  <2>4. PageLasts'
    <3>1. \A n \in NodeIds : topoPage.data.pos[n] # Nil => Lasting(n)'
      BY <2>2, MapPageTyped DEF PageLasts, Lasting, graphVars
    <3>2. \A n \in NodeIds : topoPage'.shown[n] # Nil => topoPage.data.pos[n] # Nil
      BY <2>1, <2>3, FilteredTyped
    <3>3. \A l \in pageLoads' : \A n \in NodeIds : l.pos[n] # Nil => Lasting(n)'
      BY <2>2, MapPageTyped DEF PageLasts, Lasting, graphVars
    <3>. QED BY <2>3, <3>1, <3>2, <3>3 DEF PageLasts
  <2>. QED BY <2>2, <2>3, <2>4, PageMoves, MapPageTyped
<1>4. CASE AutoLayout
  <2>. DEFINE shown == [n \in NodeIds |-> IF topoPage.data.pos[n] = Nil THEN Nil ELSE Laid]
  <2>1. shown \in [NodeIds -> Places \cup {Nil}]
        /\ \A n \in NodeIds : shown[n] # Nil => topoPage.data.pos[n] # Nil
    BY TopologyAssumption
  <2>2. topoPage' = [topoPage EXCEPT !.dirty = TRUE, !.shown = shown]
        /\ UNCHANGED <<pageLoads, tableVars, graphVars, panel, job>>
    BY <1>4 DEF AutoLayout, OnPage
  <2>3. topoPage' \in PageForms /\ topoPage'.data = topoPage.data /\ topoPage'.shown = shown
    BY <2>1, <2>2, MapPageTyped DEF PageForms
  <2>4. PageLasts'
    BY <2>1, <2>2, <2>3, MapPageTyped DEF PageLasts, Lasting, graphVars
  <2>. QED BY <2>2, <2>3, <2>4, PageMoves, MapPageTyped
<1>5. ASSUME NEW n \in NodeIds, NEW p \in Places, DragNode(n, p) PROVE TopologyInv'
  <2>. DEFINE shown == [topoPage.shown EXCEPT ![n] = p]
  <2>1. topoPage.shown[n] # Nil /\ topoPage' = [topoPage EXCEPT !.shown = shown, !.dirty = TRUE]
        /\ UNCHANGED <<pageLoads, tableVars, graphVars, panel, job>>
    BY <1>5 DEF DragNode, OnPage
  <2>2. shown \in [NodeIds -> Places \cup {Nil}]
        /\ \A m \in NodeIds : shown[m] # Nil => topoPage.shown[m] # Nil
    BY <2>1, MapPageTyped
  <2>3. topoPage' \in PageForms /\ topoPage'.data = topoPage.data /\ topoPage'.shown = shown
    BY <2>1, <2>2, MapPageTyped DEF PageForms
  <2>4. PageLasts'
    BY <2>1, <2>2, <2>3, MapPageTyped DEF PageLasts, Lasting, graphVars
  <2>. QED BY <2>1, <2>3, <2>4, PageMoves, MapPageTyped
<1>. QED BY <1>1, <1>2, <1>3, <1>4, <1>5

LEMMA MapSavesHold ==
  ASSUME TopologyInv, NEW j \in Jobs, SavePositions(j) \/ PlaceAnswer(j) \/ RunAnswer(j)
  PROVE  TopologyInv'
<1>0. NoJob \in Unlinked /\ NoJob.kind # "place"
  BY DEF Unlinked, NoJob
<1>1. CASE SavePositions(j)
  <2>. DEFINE new == [kind |-> "place", at |-> "rows", to |-> topoPage.shown,
                      rows |-> {n \in NodeIds : topoPage.shown[n] # Nil}]
  <2>1. job' = [job EXCEPT ![j] = new] /\ topoPage' = [topoPage EXCEPT !.saving = TRUE]
        /\ UNCHANGED <<pageLoads, tableVars, graphVars, panel>>
    BY <1>1 DEF SavePositions, OnPage
  <2>2. new \in PlaceJobs
    BY MapPageTyped DEF PlaceJobs
  <2>3. new \in Unlinked
    BY <2>2 DEF Unlinked
  <2>4. \A n \in new.rows : new.to[n] # Nil /\ Lasting(n)
    BY MapPageTyped
  <2>5. topoPage' \in PageForms /\ PageLasts'
    BY <2>1, MapPageTyped DEF PageForms, PageLasts, Lasting, graphVars
  <2>. QED BY <2>1, <2>3, <2>4, <2>5, PageMoves, MapPageTyped
<1>2. CASE PlaceAnswer(j)
  <2>1. job' = [job EXCEPT ![j] = NoJob]
        /\ topoPage' = [topoPage EXCEPT !.dirty = FALSE, !.saving = FALSE]
        /\ UNCHANGED <<pageLoads, tableVars, graphVars, panel>>
    BY <1>2 DEF PlaceAnswer, OnPage
  <2>2. topoPage' \in PageForms /\ PageLasts'
    BY <2>1, MapPageTyped DEF PageForms, PageLasts, Lasting, graphVars
  <2>. QED BY <1>0, <2>1, <2>2, PageMoves, MapPageTyped
<1>3. CASE RunAnswer(j)
  <2>1. job' = [job EXCEPT ![j] = NoJob] /\ panel' = [panel EXCEPT !.running = FALSE]
        /\ UNCHANGED <<tableVars, graphVars>>
        /\ (UNCHANGED <<topoPage, pageLoads>> \/ LoadMap(topoPage))
    BY <1>3 DEF RunAnswer
  <2>2. panel' \in PanelForms
    BY <2>1, MapPageTyped DEF PanelForms
  <2>3. topoPage' \in PageForms /\ pageLoads' \in SUBSET MapData /\ PageLasts'
    <3>1. CASE UNCHANGED <<topoPage, pageLoads>>
      BY <2>1, <3>1, MapPageTyped DEF PageLasts, Lasting, graphVars
    <3>2. CASE LoadMap(topoPage)
      BY <2>1, <3>2, LoadMapTyped, MapPageTyped
    <3>. QED BY <2>1, <3>1, <3>2
  <2>. QED BY <1>0, <2>1, <2>2, <2>3, PageMoves
<1>. QED BY <1>1, <1>2, <1>3

LEMMA PlaceNodeHolds ==
  ASSUME TopologyInv, NEW j \in Jobs, NEW n \in NodeIds, PlaceNode(j, n)
  PROVE  TopologyInv'
<1>1. job[j] \in PlaceJobs /\ n \in job[j].rows
  BY JobTyped DEF PlaceNode
<1>2. job[j].to[n] # Nil /\ Lasting(n) /\ nodes[n] \in NodeRows
  BY <1>1, MapPageTyped DEF TopologyInv, JobsLast, PlaceJobs, Lasting
<1>. DEFINE new == [job[j] EXCEPT !.rows = job[j].rows \ {n}]
            row == [nodes[n] EXCEPT !.pos = job[j].to[n]]
<1>3. job' = [job EXCEPT ![j] = new] /\ nodes' = [nodes EXCEPT ![n] = row]
      /\ UNCHANGED <<tableVars, edges, screenVars>>
  BY DEF PlaceNode
<1>4. new \in PlaceJobs /\ new.kind = "place" /\ new.rows \subseteq job[j].rows /\ new.to = job[j].to
      /\ new.at = "rows"
  BY <1>1 DEF PlaceJobs
<1>5. row \in NodeRows /\ row.by = 0
  BY <1>1, <1>2 DEF PlaceJobs, NodeRows, Lasting
<1>6. GraphTyped' /\ \A m \in NodeIds : Lasting(m) => Lasting(m)'
  BY <1>3, <1>5, MapPageTyped, TopologyAssumption DEF GraphTyped, Lasting
<1>7. new \in Unlinked /\ Equipped(new)
  BY <1>4, UnlinkedStages DEF Unlinked
<1>8. \A m \in new.rows : new.to[m] # Nil /\ Lasting(m)'
  BY <1>1, <1>4, <1>6 DEF TopologyInv, JobsLast, PlaceJobs
<1>9. JobsTyped' /\ JobsLast' /\ EdgeHeld'
  BY <1>3, <1>4, <1>6, <1>7, <1>8, JobMoves
<1>10. PageLasts'
  BY <1>3, <1>6, MapPageTyped DEF PageLasts, screenVars
<1>. QED BY <1>3, <1>6, <1>9, <1>10 DEF TopologyInv, TopologyTyped, TablesTyped, ScreensTyped,
                                        tableVars, screenVars

\* d is c at another stage, and with another edge or end where it says so.
Advanced(c, d) ==
  /\ d \in Linked /\ d.kind = c.kind /\ d.link = c.link /\ d.method = c.method /\ d.todo = c.todo

LEMMA StageNames ==
  /\ "from" \in Stages /\ "addFrom" \in Stages /\ "to" \in Stages /\ "addTo" \in Stages
  /\ "edge" \in Stages /\ "write" \in Stages
  BY DEF Stages

LEMMA LinkGoes ==
  ASSUME NEW c \in Linked, NEW at \in Stages, NEW d, d = [c EXCEPT !.at = at]
  PROVE  Advanced(c, d) /\ d.at = at /\ d.from = c.from /\ d.to = c.to /\ d.edge = c.edge
<1>1. CASE c \in RunLinks
  BY <1>1 DEF Advanced, Linked, RunLinks, Stages
<1>2. CASE c \in LldpLinks
  BY <1>2 DEF Advanced, Linked, LldpLinks, Stages
<1>. QED BY <1>1, <1>2 DEF Linked

LEMMA StartsLinks ==
  ASSUME NEW c \in ReadJobs \cup TargetJobs, NEW links \in SUBSET LinkRows, NEW method \in {"arp", "wwn"},
         NEW next \in {"readSwitch", "log"}
  PROVE  /\ WithLinks(c, links, method, next) \in Unlinked \cup Linked
         /\ Equipped(WithLinks(c, links, method, next))
         /\ WithLinks(c, links, method, next).kind = "run"
         /\ WithLinks(c, links, method, next).at # "write"
<1>. DEFINE idle == [kind |-> "run", at |-> next, dry |-> c.dry]
            new == [kind |-> "run", at |-> "pick", dry |-> c.dry, method |-> method, todo |-> links,
                    link |-> Nil, from |-> 0, to |-> 0, edge |-> 0]
<1>1. c.dry \in BOOLEAN
  BY DEF ReadJobs, TargetJobs
<1>2. idle \in ReadJobs /\ Equipped(idle) /\ idle.at # "write" /\ idle.kind = "run"
  BY <1>1 DEF ReadJobs, Equipped, Stages
<1>3. new \in RunLinks /\ Equipped(new) /\ new.at # "write" /\ new.kind = "run"
  BY <1>1 DEF RunLinks, Equipped, Stages, Found, FoundEdges
<1>. QED BY <1>2, <1>3 DEF WithLinks, Unlinked, Linked

LEMMA EthernetTyped == ASSUME TopologyInv PROVE EthernetLinks \in SUBSET LinkRows
  BY PanelTyped DEF EthernetLinks, LinkRows, Gear, Layers

LEMMA SanTyped ==
  ASSUME NEW hba \in SUBSET WwnRows, NEW port \in SUBSET WwnRows, NEW target \in SUBSET WwnRows
  PROVE  SanLinks(hba, port, target) \in SUBSET LinkRows
<1>1. \A w \in WwnRows : w.dev \in Gear
  BY DEF WwnRows
<1>2. ASSUME NEW A \in SUBSET WwnRows, NEW B \in SUBSET WwnRows, NEW x \in A \X B
      PROVE  <<x[1].dev, x[2].dev>> \in Gear \X Gear
  BY <1>1, <1>2
<1>3. \A x \in SanPairs(hba, port, target) : x \in Gear \X Gear
  BY <1>2 DEF SanPairs
<1>. QED BY <1>3 DEF SanLinks, LinkRows

LEMMA ReadsHold ==
  ASSUME TopologyInv, NEW j \in Jobs, ReadMacs(j) \/ ReadSwitchWwns(j) \/ ReadTargetWwns(j)
  PROVE  TopologyInv'
<1>1. CASE ReadMacs(j)
  <2>1. job[j] \in ReadJobs
    BY <1>1, JobTyped DEF ReadMacs
  <2>2. EthernetLinks \in SUBSET LinkRows
    BY EthernetTyped
  <2>. QED BY <1>1, <2>1, <2>2, StartsLinks, JobMovesOnly DEF ReadMacs, Graph
<1>2. CASE ReadSwitchWwns(j)
  <2>. DEFINE new == [kind |-> "run", at |-> "readTarget", dry |-> job[j].dry,
                      hba |-> {w \in wwnTable : w.kind = "hba"},
                      port |-> {w \in wwnTable : w.kind = "switch_port"}]
  <2>1. job[j] \in ReadJobs
    BY <1>2, JobTyped DEF ReadSwitchWwns
  <2>2. new \in TargetJobs
    BY <2>1, PanelTyped DEF TargetJobs, ReadJobs
  <2>3. new \in Unlinked /\ Equipped(new)
    BY <2>2, UnlinkedStages DEF Unlinked
  <2>. QED BY <1>2, <2>3, JobMovesOnly DEF ReadSwitchWwns, Graph
<1>3. CASE ReadTargetWwns(j)
  <2>. DEFINE target == {w \in wwnTable : w.kind = "target"}
              links == SanLinks(job[j].hba, job[j].port, target)
  <2>1. job[j] \in TargetJobs
    BY <1>3, JobTyped DEF ReadTargetWwns
  <2>2. job[j].hba \in SUBSET WwnRows /\ job[j].port \in SUBSET WwnRows /\ target \in SUBSET WwnRows
    BY <2>1, PanelTyped DEF TargetJobs
  <2>3. links \in SUBSET LinkRows
    BY <2>2, SanTyped
  <2>. QED BY <1>3, <2>1, <2>3, StartsLinks, JobMovesOnly DEF ReadTargetWwns, Graph
<1>. QED BY <1>1, <1>2, <1>3

LEMMA LinkStartsHold ==
  ASSUME TopologyInv, NEW j \in Jobs,
         \/ \E d \in Switches, g \in Gear \cup {Stranger} : LldpEvent(j, d, g)
         \/ job[j].at = "pick" /\ \E x \in job[j].todo : PickLink(j, x)
  PROVE  TopologyInv'
<1>1. ASSUME NEW d \in Switches, NEW g \in Gear \cup {Stranger}, LldpEvent(j, d, g) PROVE TopologyInv'
  <2>. DEFINE new == [kind |-> "lldp", at |-> "from", method |-> "lldp", todo |-> {},
                      link |-> [from |-> d, to |-> g, layer |-> "physical"], from |-> 0, to |-> 0,
                      edge |-> 0]
  <2>1. new.link \in LinkRows
    BY DEF LinkRows, Gear, Layers
  <2>2. new \in LldpLinks /\ Equipped(new)
    BY <2>1 DEF LldpLinks, Stages, Found, FoundEdges, Equipped
  <2>. QED BY <1>1, <2>2, JobMovesOnly DEF LldpEvent, Linked
<1>2. ASSUME job[j].at = "pick", NEW x \in job[j].todo, PickLink(j, x) PROVE TopologyInv'
  <2>. DEFINE new == [job[j] EXCEPT !.at = "from", !.link = x, !.todo = job[j].todo \ Twins(job[j], x)]
  <2>1. job[j] \in RunLinks
    BY <1>2, JobTyped
  <2>2. new \in RunLinks /\ x \in LinkRows
    BY <2>1 DEF RunLinks, Stages
  <2>3. Equipped(new) /\ new.kind = "run" /\ new.at = "from"
    BY <2>1, <2>2 DEF Equipped, RunLinks
  <2>. QED BY <1>2, <2>2, <2>3, JobMovesOnly DEF PickLink, Graph, Linked
<1>. QED BY <1>1, <1>2

LEMMA LooksHold ==
  ASSUME TopologyInv, NEW j \in Jobs, LookEdge(j) \/ \E end \in {"from", "to"} : LookNode(j, end)
  PROVE  TopologyInv'
<1>0. job[j].at \in {"from", "to", "edge"} => job[j] \in Linked /\ Equipped(job[j])
  BY JobTyped DEF Stages
<1>1. ASSUME NEW end \in {"from", "to"}, LookNode(j, end) PROVE TopologyInv'
  <2>. DEFINE c == job[j]
  <2>1. c \in Linked /\ Equipped(c) /\ c.at = end /\ UNCHANGED graphVars
    BY <1>0, <1>1 DEF LookNode
  <2>2. PICK new : /\ Graph(j, new)
                   /\ \/ new = [c EXCEPT !.at = IF end = "from" THEN "addFrom" ELSE "addTo"]
                      \/ \E n \in NodeIds : new = [c EXCEPT !.at = IF end = "from" THEN "to" ELSE "edge",
                                                           ![end] = n]
    BY <1>1 DEF LookNode
  <2>3. CASE end = "from"
    <3>1. CASE new = [c EXCEPT !.at = "addFrom"]
      <4>1. new \in Linked /\ new.at = "addFrom" /\ new.link = c.link
        BY <2>1, <3>1, StageNames, LinkGoes DEF Advanced
      <4>2. Equipped(new) /\ new.kind # "place"
        BY <2>1, <2>3, <4>1, LinkStages DEF Equipped, Stages
      <4>. QED BY <2>1, <2>2, <4>1, <4>2, JobMovesOnly DEF Graph
    <3>2. ASSUME NEW n \in NodeIds, new = [c EXCEPT !.at = "to", !.from = n] PROVE TopologyInv'
      <4>0. n \in Found
        BY DEF Found
      <4>1. new \in Linked /\ new.at = "to" /\ new.from = n /\ new.link = c.link
        <5>1. CASE c \in RunLinks
          BY <3>2, <4>0, <5>1 DEF Linked, RunLinks, Stages, Advanced
        <5>2. CASE c \in LldpLinks
          BY <3>2, <4>0, <5>2 DEF Linked, LldpLinks, Stages, Advanced
        <5>. QED BY <2>1, <5>1, <5>2 DEF Linked
      <4>2. Equipped(new) /\ new.kind # "place"
        BY <2>1, <2>3, <4>1, LinkStages DEF Equipped, Stages
      <4>. QED BY <2>1, <2>2, <4>1, <4>2, JobMovesOnly DEF Graph
    <3>. QED BY <2>2, <2>3, <3>1, <3>2
  <2>4. CASE end = "to"
    <3>1. CASE new = [c EXCEPT !.at = "addTo"]
      <4>1. new \in Linked /\ new.at = "addTo" /\ new.from = c.from /\ new.link = c.link
        BY <2>1, <3>1, StageNames, LinkGoes DEF Advanced, Found
      <4>2. Equipped(new) /\ new.kind # "place"
        BY <2>1, <2>4, <4>1, LinkStages DEF Equipped, Stages
      <4>. QED BY <2>1, <2>2, <4>1, <4>2, JobMovesOnly DEF Graph
    <3>2. ASSUME NEW n \in NodeIds, new = [c EXCEPT !.at = "edge", !.to = n] PROVE TopologyInv'
      <4>0. n \in Found
        BY DEF Found
      <4>1. new \in Linked /\ new.at = "edge" /\ new.to = n /\ new.link = c.link /\ new.from = c.from
        <5>1. CASE c \in RunLinks
          BY <3>2, <4>0, <5>1 DEF Linked, RunLinks, Stages, Advanced
        <5>2. CASE c \in LldpLinks
          BY <3>2, <4>0, <5>2 DEF Linked, LldpLinks, Stages, Advanced
        <5>. QED BY <2>1, <5>1, <5>2 DEF Linked
      <4>2. Equipped(new) /\ new.kind # "place"
        BY <2>1, <2>4, <4>1, LinkStages DEF Equipped, Stages
      <4>. QED BY <2>1, <2>2, <4>1, <4>2, JobMovesOnly DEF Graph
    <3>. QED BY <2>2, <2>4, <3>1, <3>2
  <2>. QED BY <2>3, <2>4
<1>2. CASE LookEdge(j)
  <2>. DEFINE c == job[j]
  <2>1. c \in Linked /\ Equipped(c) /\ c.at = "edge" /\ UNCHANGED graphVars
    BY <1>0, <1>2 DEF LookEdge
  <2>2. PICK new : /\ Graph(j, new)
                   /\ \/ new = [c EXCEPT !.at = "write", !.edge = 0]
                      \/ \E e \in Between(j) : new = [c EXCEPT !.at = "write", !.edge = e]
                      \/ \E e \in Between(j) : KeepsLldp(j, e) /\ new = [c EXCEPT !.at = "pick", !.edge = 0]
    BY <1>2 DEF LookEdge
  <2>3. CASE new = [c EXCEPT !.at = "write", !.edge = 0]
    <3>0. 0 \in FoundEdges
      BY DEF FoundEdges
    <3>1. new \in Linked /\ new.at = "write" /\ new.edge = 0 /\ new.link = c.link /\ new.from = c.from
          /\ new.to = c.to
      <4>1. CASE c \in RunLinks
        BY <2>3, <3>0, <4>1 DEF Linked, RunLinks, Stages, Advanced
      <4>2. CASE c \in LldpLinks
        BY <2>3, <3>0, <4>2 DEF Linked, LldpLinks, Stages, Advanced
      <4>. QED BY <2>1, <4>1, <4>2 DEF Linked
    <3>2. Equipped(new) /\ new.kind # "place"
    BY <2>1, <3>1, LinkStages DEF Equipped, Stages
    <3>. QED BY <2>1, <2>2, <3>1, <3>2, JobMovesOnly DEF Graph
  <2>4. ASSUME NEW e \in Between(j), new = [c EXCEPT !.at = "write", !.edge = e] PROVE TopologyInv'
    <3>1. e \in EdgeIds /\ edges[e] # Nil /\ edges[e].by \in {0, j}
      BY <2>4 DEF Between, Visible
    <3>0. e \in FoundEdges
      BY <3>1 DEF FoundEdges
    <3>2. new \in Linked /\ new.at = "write" /\ new.edge = e /\ new.link = c.link /\ new.from = c.from
          /\ new.to = c.to
      <4>1. CASE c \in RunLinks
        BY <2>4, <3>0, <4>1 DEF Linked, RunLinks, Stages, Advanced
      <4>2. CASE c \in LldpLinks
        BY <2>4, <3>0, <4>2 DEF Linked, LldpLinks, Stages, Advanced
      <4>. QED BY <2>1, <4>1, <4>2 DEF Linked
    <3>3. Equipped(new) /\ new.kind # "place"
    BY <2>1, <3>2, LinkStages DEF Equipped, Stages
    <3>. QED BY <2>1, <2>2, <3>1, <3>2, <3>3, JobMovesOnly DEF Graph
  <2>5. CASE c.method = "arp" /\ new = [c EXCEPT !.at = "pick", !.edge = 0]
    <3>1. c \in RunLinks
      BY <2>1, <2>5 DEF Linked, LldpLinks
    <3>2. new \in RunLinks /\ new.at = "pick" /\ new.kind = "run"
      BY <2>5, <3>1 DEF RunLinks, FoundEdges
    <3>3. Equipped(new)
      BY <3>2 DEF Equipped, Stages
    <3>. QED BY <2>1, <2>2, <3>2, <3>3, JobMovesOnly DEF Graph, Linked
  <2>. QED BY <2>2, <2>3, <2>4, <2>5 DEF KeepsLldp
<1>. QED BY <1>1, <1>2

\* A step of one job that writes the graph.
LEMMA GraphMoves ==
  ASSUME TopologyInv, NEW j \in Jobs, NEW new \in Unlinked \cup Linked, Equipped(new),
         job' = [job EXCEPT ![j] = new], UNCHANGED <<tableVars, screenVars>>,
         new.kind # "place", new.at # "write", GraphTyped',
         \A n \in NodeIds : Lasting(n) => Lasting(n)',
         \A e \in EdgeIds, o \in Jobs \ {j} :
           edges[e] # Nil /\ edges[e].by \in {0, o} => edges'[e] # Nil /\ edges'[e].by \in {0, o}
  PROVE  TopologyInv'
<1>1. JobsTyped' /\ JobsLast' /\ EdgeHeld'
  BY JobMoves
<1>2. PageLasts'
  BY DEF TopologyInv, PageLasts, screenVars
<1>. QED BY <1>1, <1>2 DEF TopologyInv, TopologyTyped, TablesTyped, ScreensTyped, tableVars,
                           screenVars

LEMMA OwnerTyped == ASSUME TopologyInv, NEW j \in Jobs PROVE Owner(j) \in {0} \cup Jobs
  BY DEF Owner

LEMMA AddsHold ==
  ASSUME TopologyInv, NEW j \in Jobs, NEW end \in {"from", "to"}, AddNode(j, end)
  PROVE  TopologyInv'
<1>. DEFINE c == job[j]
            at == IF end = "from" THEN "to" ELSE "edge"
<1>1. c \in Linked /\ Equipped(c) /\ c.link \in LinkRows
      /\ c.at = (IF end = "from" THEN "addFrom" ELSE "addTo")
  BY JobTyped DEF AddNode, Stages, Equipped
<1>2. PICK n \in NodeIds :
        /\ nodes[n] = Nil
        /\ nodes' = [nodes EXCEPT ![n] = [asset |-> c.link[end], layer |-> c.link.layer,
                                          pos |-> 0, by |-> Owner(j)]]
        /\ Graph(j, [c EXCEPT !.at = at, ![end] = n])
  BY DEF AddNode, Min1
<1>3. n \in Found
  BY DEF Found
<1>4. PICK new : new = [c EXCEPT !.at = at, ![end] = n]
  OBVIOUS
<1>5. new \in Linked /\ new.at = at /\ new.link = c.link /\ new[end] = n
      /\ (end = "to" => new.from = c.from)
  <2>1. CASE c \in RunLinks /\ end = "from"
    BY <1>3, <1>4, <2>1 DEF Linked, RunLinks, Stages
  <2>2. CASE c \in LldpLinks /\ end = "from"
    BY <1>3, <1>4, <2>2 DEF Linked, LldpLinks, Stages
  <2>3. CASE c \in RunLinks /\ end = "to"
    BY <1>3, <1>4, <2>3 DEF Linked, RunLinks, Stages
  <2>4. CASE c \in LldpLinks /\ end = "to"
    BY <1>3, <1>4, <2>4 DEF Linked, LldpLinks, Stages
  <2>. QED BY <1>1, <2>1, <2>2, <2>3, <2>4 DEF Linked
<1>6. Equipped(new) /\ new.kind # "place" /\ new.at # "write"
  BY <1>1, <1>5, LinkStages DEF Equipped, Stages
<1>7. [asset |-> c.link[end], layer |-> c.link.layer, pos |-> 0, by |-> Owner(j)] \in NodeRows
  BY <1>1, OwnerTyped, TopologyAssumption DEF NodeRows, LinkRows
<1>8. GraphTyped' /\ UNCHANGED edges
  BY <1>2, <1>7, MapPageTyped DEF AddNode, GraphTyped
<1>9. \A m \in NodeIds : Lasting(m) => Lasting(m)'
  BY <1>2, MapPageTyped DEF Lasting
<1>. QED BY <1>2, <1>4, <1>5, <1>6, <1>8, <1>9, GraphMoves DEF Graph

LEMMA AfterEdgeTyped ==
  ASSUME NEW c \in Linked
  PROVE  /\ AfterEdge(c) \in Unlinked \cup Linked /\ Equipped(AfterEdge(c))
         /\ AfterEdge(c).kind # "place" /\ AfterEdge(c).at # "write"
<1>1. CASE c.kind = "lldp"
  <2>1. NoJob \in Unlinked /\ NoJob.kind # "place" /\ NoJob.at # "write"
    BY DEF NoJob, Unlinked
  <2>. QED BY <1>1, <2>1, UnlinkedStages DEF AfterEdge
<1>2. CASE c.kind = "run"
  <2>1. PICK new : new = [c EXCEPT !.at = "pick", !.edge = 0]
    OBVIOUS
  <2>2. c \in RunLinks
    BY <1>2, LinkStages
  <2>3. new \in RunLinks /\ new.at = "pick" /\ new.kind = "run"
    BY <2>1, <2>2 DEF RunLinks, FoundEdges
  <2>4. AfterEdge(c) = new
    BY <1>2, <2>1 DEF AfterEdge
  <2>. QED BY <2>3, <2>4 DEF Linked, Equipped, Stages
<1>. QED BY <1>1, <1>2, LinkStages

LEMMA EdgesHold ==
  ASSUME TopologyInv, NEW j \in Jobs, InsertEdge(j) \/ UpdateEdge(j)
  PROVE  TopologyInv'
<1>. DEFINE c == job[j]
<1>1. c \in Linked /\ Equipped(c) /\ c.link \in LinkRows /\ c.from \in NodeIds /\ c.to \in NodeIds
      /\ c.at = "write" /\ c.method \in Methods /\ c.edge \in FoundEdges
  BY JobTyped DEF InsertEdge, UpdateEdge, Stages, Equipped, Linked, RunLinks, LldpLinks, Methods
<1>2. Graph(j, AfterEdge(c)) /\ UNCHANGED nodes
  BY DEF InsertEdge, UpdateEdge
<1>3. CASE InsertEdge(j)
  <2>. DEFINE row == [from |-> c.from, to |-> c.to, layer |-> c.link.layer, method |-> c.method,
                      by |-> Owner(j), pending |-> NoChange]
  <2>1. PICK e \in EdgeIds : edges[e] = Nil /\ edges' = [edges EXCEPT ![e] = row]
    BY <1>3 DEF InsertEdge, Min1
  <2>2. row \in EdgeRows
    BY <1>1, OwnerTyped DEF EdgeRows, LinkRows
  <2>3. GraphTyped'
    BY <1>2, <2>1, <2>2, MapPageTyped DEF GraphTyped
  <2>4. \A f \in EdgeIds, o \in Jobs \ {j} :
          edges[f] # Nil /\ edges[f].by \in {0, o} => edges'[f] # Nil /\ edges'[f].by \in {0, o}
    BY <2>1, MapPageTyped
  <2>. QED BY <1>1, <1>2, <2>3, <2>4, AfterEdgeTyped, GraphMoves DEF Graph, Lasting
<1>4. CASE UpdateEdge(j)
  <2>. DEFINE row == edges[c.edge]
  <2>1. c.edge \in EdgeIds /\ row \in EdgeRows /\ row # Nil
    BY <1>1, <1>4, MapPageTyped DEF UpdateEdge, TopologyInv, EdgeHeld, FoundEdges
  <2>2. PICK upd : upd = IF c.kind = "lldp" \/ row.by = j THEN [row EXCEPT !.method = c.method]
                         ELSE [row EXCEPT !.pending = [by |-> j, method |-> c.method]]
    OBVIOUS
  <2>3. edges' = [edges EXCEPT ![c.edge] = upd]
    BY <1>4, <2>2 DEF UpdateEdge
  <2>4. upd \in EdgeRows /\ upd.by = row.by
    BY <1>1, <2>1, <2>2 DEF EdgeRows
  <2>5. GraphTyped'
    BY <1>2, <2>3, <2>4, MapPageTyped DEF GraphTyped
  <2>6. \A f \in EdgeIds, o \in Jobs \ {j} :
          edges[f] # Nil /\ edges[f].by \in {0, o} => edges'[f] # Nil /\ edges'[f].by \in {0, o}
    BY <2>1, <2>3, <2>4, MapPageTyped, TopologyAssumption
  <2>. QED BY <1>1, <1>2, <2>5, <2>6, AfterEdgeTyped, GraphMoves DEF Graph, Lasting
<1>. QED BY <1>3, <1>4

\* What the end of a transaction does to a row: it stays as it was, is visible from now
\* on, or goes; only rows of this transaction go.
LEMMA CloseRows ==
  ASSUME TopologyInv, NEW j \in Jobs, NEW keep \in BOOLEAN, Close(j, keep)
  PROVE  /\ GraphTyped'
         /\ \A n \in NodeIds : Lasting(n) => Lasting(n)'
         /\ \A e \in EdgeIds, o \in Jobs \ {j} :
              edges[e] # Nil /\ edges[e].by \in {0, o} => edges'[e] # Nil /\ edges'[e].by \in {0, o}
         /\ \A n \in NodeIds : nodes'[n] # Nil =>
              /\ nodes[n] # Nil /\ nodes'[n].asset = nodes[n].asset /\ nodes'[n].layer = nodes[n].layer
         /\ \A e \in EdgeIds : edges'[e] # Nil =>
              /\ edges[e] # Nil /\ edges'[e].from = edges[e].from /\ edges'[e].to = edges[e].to
<1>0. 0 \notin Jobs
  BY TopologyAssumption
<1>1. /\ nodes \in [NodeIds -> NodeRows \cup {Nil}] /\ edges \in [EdgeIds -> EdgeRows \cup {Nil}]
      /\ Nil \notin NodeRows /\ Nil \notin EdgeRows
  BY MapPageTyped, TopologyAssumption
<1>2. ASSUME NEW n \in NodeIds
      PROVE  /\ nodes'[n] \in NodeRows \cup {Nil}
             /\ Lasting(n) => Lasting(n)'
             /\ nodes'[n] # Nil => /\ nodes[n] # Nil /\ nodes'[n].asset = nodes[n].asset
                                   /\ nodes'[n].layer = nodes[n].layer
  <2>1. nodes'[n] = IF ~Mine(nodes[n], j) THEN nodes[n]
                    ELSE IF keep THEN [nodes[n] EXCEPT !.by = 0] ELSE Nil
    BY DEF Close, CloseNodes
  <2>2. CASE Mine(nodes[n], j)
    <3>1. nodes[n] \in NodeRows /\ nodes[n].by = j /\ ~Lasting(n)
      BY <1>0, <1>1, <2>2 DEF Mine, Lasting
    <3>2. PICK row : row = [nodes[n] EXCEPT !.by = 0]
      OBVIOUS
    <3>3. row \in NodeRows /\ row.asset = nodes[n].asset /\ row.layer = nodes[n].layer
      BY <3>1, <3>2 DEF NodeRows
    <3>. QED BY <1>1, <2>1, <2>2, <3>1, <3>2, <3>3
  <2>3. CASE ~Mine(nodes[n], j)
    BY <1>1, <2>1, <2>3 DEF Lasting
  <2>. QED BY <2>2, <2>3
<1>3. ASSUME NEW e \in EdgeIds
      PROVE  /\ edges'[e] \in EdgeRows \cup {Nil}
             /\ edges[e] # Nil /\ edges[e].by # j => edges'[e] # Nil /\ edges'[e].by = edges[e].by
             /\ edges'[e] # Nil => /\ edges[e] # Nil /\ edges'[e].from = edges[e].from
                                   /\ edges'[e].to = edges[e].to
  <2>. DEFINE seen == [edges[e] EXCEPT !.by = 0]
              done == [edges[e] EXCEPT !.pending = NoChange,
                         !.method = IF keep THEN edges[e].pending.method ELSE edges[e].method]
  <2>1. edges'[e] = IF edges[e] = Nil THEN Nil
                    ELSE IF Mine(edges[e], j) THEN IF keep THEN seen ELSE Nil
                    ELSE IF edges[e].pending.by # j THEN edges[e] ELSE done
    BY DEF Close, CloseEdges
  <2>2. CASE edges[e] = Nil
    BY <2>1, <2>2
  <2>3. CASE edges[e] # Nil /\ Mine(edges[e], j)
    <3>1. edges[e] \in EdgeRows /\ edges[e].by = j
      BY <1>1, <2>3 DEF Mine
    <3>2. PICK row : row = seen
      OBVIOUS
    <3>3. row \in EdgeRows /\ row.from = edges[e].from /\ row.to = edges[e].to
      BY <3>1, <3>2 DEF EdgeRows
    <3>. QED BY <1>1, <2>1, <2>3, <3>1, <3>2, <3>3
  <2>4. CASE edges[e] # Nil /\ ~Mine(edges[e], j) /\ edges[e].pending.by # j
    BY <1>1, <2>1, <2>4
  <2>5. CASE edges[e] # Nil /\ ~Mine(edges[e], j) /\ edges[e].pending.by = j
    <3>1. edges[e] \in EdgeRows
      BY <1>1, <2>5
    <3>2. edges[e].pending.method \in Methods
      BY <1>0, <2>5, <3>1 DEF EdgeRows, NoChange
    <3>3. PICK row : row = done
      OBVIOUS
    <3>4. row \in EdgeRows /\ row.from = edges[e].from /\ row.to = edges[e].to /\ row.by = edges[e].by
      BY <3>1, <3>2, <3>3 DEF EdgeRows
    <3>. QED BY <1>1, <2>1, <2>5, <3>1, <3>3, <3>4
  <2>. QED BY <2>2, <2>3, <2>4, <2>5
<1>4. GraphTyped'
  BY <1>2, <1>3 DEF Close, CloseNodes, CloseEdges, GraphTyped
<1>. QED BY <1>0, <1>2, <1>3, <1>4

LEMMA ClosesHold ==
  ASSUME TopologyInv, NEW j \in Jobs, Commit(j) \/ JobFails(j)
  PROVE  TopologyInv'
<1>1. CASE Commit(j)
  <2>. DEFINE new == [kind |-> "run", at |-> IF job[j].method = "arp" THEN "readSwitch" ELSE "log",
                      dry |-> FALSE]
  <2>1. new \in ReadJobs
    BY DEF ReadJobs
  <2>2. new \in Unlinked
    BY <2>1 DEF Unlinked
  <2>3. Close(j, TRUE) /\ Graph(j, new)
    BY <1>1 DEF Commit
  <2>. QED BY <2>2, <2>3, UnlinkedStages, CloseRows, GraphMoves DEF Graph, Stages
<1>2. CASE JobFails(j)
  <2>1. Close(j, FALSE) /\ job' = [job EXCEPT ![j] = NoJob] /\ UNCHANGED <<tableVars, pageLoads>>
        /\ panel' = [panel EXCEPT !.running = panel.running /\ job[j].kind # "run",
                                  !.saving = panel.saving /\ job[j].kind # "save"]
        /\ topoPage' = [topoPage EXCEPT !.saving = topoPage.saving /\ job[j].kind # "place",
                                        !.dirty = topoPage.dirty /\ job[j].kind # "place"]
    BY <1>2 DEF JobFails
  <2>2. NoJob \in Unlinked /\ NoJob.kind # "place" /\ NoJob.at # "write"
    BY DEF Unlinked, NoJob
  <2>3. JobsTyped' /\ JobsLast' /\ EdgeHeld' /\ GraphTyped'
    BY <2>1, <2>2, UnlinkedStages, CloseRows, JobMoves
  <2>4. panel' \in PanelForms
    BY <2>1, MapPageTyped DEF PanelForms
  <2>5. topoPage' \in PageForms /\ topoPage'.data = topoPage.data /\ topoPage'.shown = topoPage.shown
    BY <2>1, MapPageTyped DEF PageForms
  <2>6. PageLasts'
    BY <2>1, <2>5, CloseRows, MapPageTyped DEF PageLasts
  <2>. QED BY <2>1, <2>3, <2>4, <2>5, <2>6, MapPageTyped
           DEF TopologyInv, TopologyTyped, TablesTyped, ScreensTyped, tableVars
<1>. QED BY <1>1, <1>2

LEMMA TopologyStepHolds == TopologyInv /\ [TopologyNext]_topologyVars => TopologyInv'
<1>. SUFFICES ASSUME TopologyInv, [TopologyNext]_topologyVars PROVE TopologyInv'
  OBVIOUS
<1>1. CASE PanelNext
  <2>1. ASSUME NEW t \in Texts, NEW v \in SwitchVendors PROVE Parsed(t, v) \subseteq ParsedRows
    BY ParsedTyped
  <2>2. UNION {Parsed(t, v) : t \in Texts, v \in SwitchVendors} \subseteq ParsedRows
    BY <2>1
  <2>. QED BY <1>1, <2>2, PanelHolds, TableRowsHold DEF PanelNext
<1>2. CASE MapNext
  BY <1>2, PageHolds, MapSavesHold, PlaceNodeHolds DEF MapNext
<1>3. ASSUME NEW j \in Jobs, GraphStep(j) PROVE TopologyInv'
  BY <1>3, ReadsHold, LooksHold, AddsHold, EdgesHold, ClosesHold, MapSavesHold DEF GraphStep
<1>4. CASE UNCHANGED topologyVars
  BY <1>4, MapPageTyped, TablesMove, PanelTyped DEF topologyVars, TablesTyped, tableVars, screenVars
<1>. QED BY <1>1, <1>2, <1>3, <1>4, LinkStartsHold, ClosesHold, PanelHolds DEF TopologyNext

LEMMA TopologyInitHolds == TopologyInit => TopologyInv
<1>. SUFFICES ASSUME TopologyInit PROVE TopologyInv
  OBVIOUS
<1>1. NoJob \in Unlinked /\ NoJob.kind # "place" /\ NoJob.at # "write"
  BY DEF Unlinked, NoJob
<1>2. job = [j \in Jobs |-> NoJob] /\ nodes = [n \in NodeIds |-> Nil] /\ edges = [e \in EdgeIds |-> Nil]
      /\ pageLoads = {} /\ wwnTable = {[dev |-> v, wwn |-> v, kind |-> "hba"] : v \in Servers}
  BY DEF TopologyInit
<1>3. JobsTyped /\ JobsLast /\ EdgeHeld /\ GraphTyped
  BY <1>1, <1>2, UnlinkedStages DEF JobsTyped, JobsLast, EdgeHeld, GraphTyped
<1>4. TablesTyped
  <2>1. known \in SUBSET Switches /\ macTable \in [Switches -> SUBSET Gear]
    BY TopologyAssumption DEF TopologyInit
  <2>2. wwnTable \in SUBSET WwnRows
    BY <1>2 DEF WwnRows, Gear
  <2>. QED BY <2>1, <2>2 DEF TablesTyped
<1>5. NoPanel \in PanelForms /\ NoData \in MapData
  BY DEF NoPanel, PanelForms, NoData, MapData
<1>6. panel \in PanelForms
  BY <1>5 DEF TopologyInit, PanelForms
<1>7. topoPage \in PageForms /\ topoPage.data = NoData /\ topoPage.shown = NoData.pos
  BY <1>5 DEF TopologyInit, PageForms, MapData, Layers
<1>8. PageLasts
  BY <1>2, <1>7 DEF PageLasts, NoData
<1>. QED BY <1>2, <1>3, <1>4, <1>6, <1>7, <1>8 DEF TopologyInv, TopologyTyped, ScreensTyped

LEMMA NoLink ==
  ASSUME NEW c, c.kind \in {"none", "save", "place"} \/ c.at \in {"readMac", "readSwitch", "readTarget", "log"}
  PROVE  c \notin RunLinks
  BY DEF RunLinks, Stages

\* The steps that concern no link, and what they leave of the graph.
ScreenStep ==
  PanelNext \/ MapNext \/ \E j \in Jobs : RunAnswer(j) \/ \E dry \in BOOLEAN : HandleRun(j, dry)
ScreenStages == {"idle", "delete", "rows", "readMac"}

LEMMA ScreenJobs ==
  ASSUME TopologyInv, NEW j \in Jobs,
         \/ HandleSave(j) \/ DeleteRows(j) \/ SaveAnswer(j) \/ (\E x : UpsertRow(j, x))
         \/ \E dry \in BOOLEAN : HandleRun(j, dry)
         \/ SavePositions(j) \/ PlaceAnswer(j) \/ RunAnswer(j) \/ \E n \in NodeIds : PlaceNode(j, n)
  PROVE  /\ job[j] \notin RunLinks
         /\ \E new : /\ new.at \in ScreenStages
                     /\ job' = [job EXCEPT ![j] = new]
<1>1. job[j] \notin RunLinks
  <2>1. CASE HandleSave(j) \/ SavePositions(j) \/ \E dry \in BOOLEAN : HandleRun(j, dry)
    <3>1. job[j] = NoJob
      BY <2>1 DEF HandleSave, HandleRun, SavePositions, FreeJob, Min1
    <3>. QED BY <3>1, NoLink DEF NoJob
  <2>2. CASE DeleteRows(j) \/ SaveAnswer(j) \/ \E x : UpsertRow(j, x)
    BY <2>2, NoLink DEF DeleteRows, SaveAnswer, UpsertRow
  <2>3. CASE PlaceAnswer(j) \/ \E n \in NodeIds : PlaceNode(j, n)
    BY <2>3, NoLink DEF PlaceAnswer, PlaceNode
  <2>4. CASE RunAnswer(j)
    BY <2>4, NoLink DEF RunAnswer
  <2>. QED BY <2>1, <2>2, <2>3, <2>4
<1>. DEFINE save == [kind |-> "save", at |-> "delete", dev |-> panel.asset, rows |-> panel.parsed]
            run(dry) == [kind |-> "run", at |-> "readMac", dry |-> dry]
            place == [kind |-> "place", at |-> "rows", to |-> topoPage.shown,
                      rows |-> {n \in NodeIds : topoPage.shown[n] # Nil}]
<1>2. PICK new : /\ job' = [job EXCEPT ![j] = new]
                 /\ \/ new = NoJob \/ new = save \/ new = place \/ \E dry : new = run(dry)
                    \/ job[j] \in SaveJobs /\ new = [job[j] EXCEPT !.at = "rows"]
                    \/ \E rows : /\ job[j] \in SaveJobs \cup PlaceJobs
                                 /\ new = [job[j] EXCEPT !.rows = rows]
  <2>1. CASE HandleSave(j) \/ SavePositions(j) \/ \E dry \in BOOLEAN : HandleRun(j, dry)
    BY <2>1 DEF HandleSave, SavePositions, HandleRun
  <2>2. CASE SaveAnswer(j) \/ PlaceAnswer(j) \/ RunAnswer(j)
    BY <2>2 DEF SaveAnswer, PlaceAnswer, RunAnswer
  <2>3. CASE DeleteRows(j) \/ \E x : UpsertRow(j, x)
    <3>1. job[j] \in SaveJobs
      BY <2>3, JobTyped DEF DeleteRows, UpsertRow
    <3>. QED BY <2>3, <3>1 DEF DeleteRows, UpsertRow
  <2>4. CASE \E n \in NodeIds : PlaceNode(j, n)
    <3>1. job[j] \in PlaceJobs
      BY <2>4, JobTyped DEF PlaceNode
    <3>. QED BY <2>4, <3>1 DEF PlaceNode
  <2>. QED BY <2>1, <2>2, <2>3, <2>4
<1>3. new.at \in ScreenStages
  <2>1. CASE new = NoJob \/ new = save \/ new = place \/ \E dry : new = run(dry)
    BY <2>1 DEF NoJob, ScreenStages
  <2>2. CASE job[j] \in SaveJobs /\ new = [job[j] EXCEPT !.at = "rows"]
    BY <2>2 DEF SaveJobs, ScreenStages
  <2>3. ASSUME NEW rows, job[j] \in SaveJobs \cup PlaceJobs, new = [job[j] EXCEPT !.rows = rows]
        PROVE  new.at \in ScreenStages
    <3>1. CASE job[j] \in SaveJobs
      BY <2>3, <3>1 DEF SaveJobs, ScreenStages
    <3>2. CASE job[j] \in PlaceJobs
      BY <2>3, <3>2 DEF PlaceJobs, ScreenStages
    <3>. QED BY <2>3, <3>1, <3>2
  <2>. QED BY <1>2, <2>1, <2>2, <2>3
<1>. QED BY <1>1, <1>2, <1>3

LEMMA ScreensMove ==
  ASSUME TopologyInv, ScreenStep
  PROVE  /\ UNCHANGED <<edges, overlapped, overtaken>>
         /\ \A n \in NodeIds :
              /\ nodes'[n] = Nil <=> nodes[n] = Nil
              /\ nodes'[n].asset = nodes[n].asset /\ nodes'[n].layer = nodes[n].layer
              /\ nodes'[n].by = nodes[n].by
         /\ \/ UNCHANGED job
            \/ \E j \in Jobs :
                 /\ job[j] \notin RunLinks
                 /\ \E new : /\ new.at \in ScreenStages
                             /\ job' = [job EXCEPT ![j] = new]
<1>1. ASSUME NEW j \in Jobs, NEW n \in NodeIds, PlaceNode(j, n)
      PROVE  /\ UNCHANGED <<edges, overlapped, overtaken>>
             /\ \A m \in NodeIds :
                  /\ nodes'[m] = Nil <=> nodes[m] = Nil
                  /\ nodes'[m].asset = nodes[m].asset /\ nodes'[m].layer = nodes[m].layer
                  /\ nodes'[m].by = nodes[m].by
  <2>1. job[j] \in PlaceJobs
    BY <1>1, JobTyped DEF PlaceNode
  <2>2. nodes[n] \in NodeRows /\ job[j].to[n] \in Places
    BY <1>1, <2>1, MapPageTyped DEF PlaceNode, PlaceJobs, TopologyInv, JobsLast, Lasting
  <2>3. PICK row : row = [nodes[n] EXCEPT !.pos = job[j].to[n]]
    OBVIOUS
  <2>4. row \in NodeRows /\ row.asset = nodes[n].asset /\ row.layer = nodes[n].layer
        /\ row.by = nodes[n].by
    BY <2>2, <2>3 DEF NodeRows
  <2>5. nodes' = [nodes EXCEPT ![n] = row] /\ UNCHANGED <<edges, overlapped, overtaken>>
    BY <1>1, <2>3 DEF PlaceNode, History
  <2>. QED BY <2>2, <2>4, <2>5, MapPageTyped, TopologyAssumption
<1>2. ASSUME NEW j \in Jobs,
             \/ HandleSave(j) \/ DeleteRows(j) \/ SaveAnswer(j) \/ (\E x : UpsertRow(j, x))
             \/ \E dry \in BOOLEAN : HandleRun(j, dry)
             \/ SavePositions(j) \/ PlaceAnswer(j) \/ RunAnswer(j)
      PROVE  UNCHANGED <<graphVars, overlapped, overtaken>>
  BY <1>2 DEF HandleSave, DeleteRows, SaveAnswer, UpsertRow, HandleRun, SavePositions, PlaceAnswer,
     RunAnswer, OnPage, Panel, History, graphVars
<1>3. ASSUME \/ TogglePanel
             \/ \E d \in Switches : PickDevice(d) \/ CreateDevice(d) \/ HandleDelete(d)
             \/ \E text \in Texts, v \in SwitchVendors : DoParse(text, v)
             \/ \E d \in Switches, g \in Gear : WwnSeen(d, g)
      PROVE  UNCHANGED <<graphVars, overlapped, overtaken, job>>
  BY <1>3 DEF TogglePanel, PickDevice, CreateDevice, HandleDelete, DoParse, WwnSeen, Panel, History,
     graphVars
<1>4. ASSUME \/ \E l \in Layers : OpenLayer(l)
             \/ \E data \in pageLoads : MapArrives(data)
             \/ ToggleAll \/ AutoLayout
             \/ \E n \in NodeIds, p \in Places : DragNode(n, p)
      PROVE  UNCHANGED <<graphVars, overlapped, overtaken, job>>
  <2>1. \A l \in Layers : OpenLayer(l) => UNCHANGED <<graphVars, overlapped, overtaken, job>>
    BY DEF OpenLayer, History
  <2>2. \A data : MapArrives(data) => UNCHANGED <<graphVars, overlapped, overtaken, job>>
    BY DEF MapArrives, OnPage, History
  <2>3. ToggleAll \/ AutoLayout => UNCHANGED <<graphVars, overlapped, overtaken, job>>
    BY DEF ToggleAll, AutoLayout, OnPage, History
  <2>4. \A n \in NodeIds, p \in Places :
          DragNode(n, p) => UNCHANGED <<graphVars, overlapped, overtaken, job>>
    BY DEF DragNode, OnPage, History
  <2>. QED BY <1>4, <2>1, <2>2, <2>3, <2>4
<1>. QED BY <1>1, <1>2, <1>3, <1>4, ScreenJobs DEF ScreenStep, PanelNext, MapNext, graphVars

\* The steps that read the tables, or start with a link.
StartStep(j) ==
  \/ ReadMacs(j) \/ ReadSwitchWwns(j) \/ ReadTargetWwns(j)
  \/ \E d \in Switches, g \in Gear \cup {Stranger} : LldpEvent(j, d, g)
  \/ job[j].at = "pick" /\ \E x \in job[j].todo : PickLink(j, x)

\* What such a step leaves at the job.
Began(j, new) ==
  /\ job' = [job EXCEPT ![j] = new]
  /\ new.at \in {"readSwitch", "readTarget", "log", "pick", "from"}
  /\ job[j] \in RunLinks => new \in RunLinks /\ new.method = job[j].method

LEMMA StartsMove ==
  ASSUME TopologyInv, NEW j \in Jobs, StartStep(j)
  PROVE  /\ UNCHANGED <<graphVars, overlapped, overtaken>>
         /\ \E new : Began(j, new)
<1>. DEFINE c == job[j]
<1>1. CASE ReadMacs(j) \/ ReadSwitchWwns(j) \/ ReadTargetWwns(j)
  <2>. DEFINE new == [kind |-> "run", at |-> "readTarget", dry |-> c.dry,
                      hba |-> {w \in wwnTable : w.kind = "hba"},
                      port |-> {w \in wwnTable : w.kind = "switch_port"}]
  <2>1. c \notin RunLinks
    BY <1>1, NoLink DEF ReadMacs, ReadSwitchWwns, ReadTargetWwns
  <2>2. \A links, method : \A next \in {"readSwitch", "log"} :
          WithLinks(c, links, method, next).at \in {next, "pick"}
    BY DEF WithLinks
  <2>3. \E d : Began(j, d)
    <3>1. CASE ReadMacs(j)
      BY <2>1, <2>2, <3>1 DEF ReadMacs, Graph, Began
    <3>2. CASE ReadTargetWwns(j)
      BY <2>1, <2>2, <3>2 DEF ReadTargetWwns, Graph, Began
    <3>3. CASE ReadSwitchWwns(j)
      <4>1. job' = [job EXCEPT ![j] = new]
        BY <3>3 DEF ReadSwitchWwns, Graph
      <4>2. Began(j, new)
        BY <2>1, <4>1 DEF Began
      <4>. QED BY <4>2
    <3>. QED BY <1>1, <3>1, <3>2, <3>3
  <2>4. UNCHANGED <<graphVars, overlapped, overtaken>>
    BY <1>1 DEF ReadMacs, ReadSwitchWwns, ReadTargetWwns, History
  <2>. QED BY <2>3, <2>4
<1>2. ASSUME NEW d \in Switches, NEW g \in Gear \cup {Stranger}, LldpEvent(j, d, g)
      PROVE  UNCHANGED <<graphVars, overlapped, overtaken>> /\ \E new : Began(j, new)
  <2>. DEFINE new == [kind |-> "lldp", at |-> "from", method |-> "lldp", todo |-> {},
                      link |-> [from |-> d, to |-> g, layer |-> "physical"], from |-> 0, to |-> 0,
                      edge |-> 0]
  <2>1. c = NoJob /\ job' = [job EXCEPT ![j] = new] /\ UNCHANGED <<graphVars, overlapped, overtaken>>
    BY <1>2 DEF LldpEvent, FreeJob, Min1, History
  <2>2. c \notin RunLinks
    BY <2>1, NoLink DEF NoJob
  <2>3. Began(j, new)
    BY <2>1, <2>2 DEF Began
  <2>. QED BY <2>1, <2>3
<1>3. ASSUME job[j].at = "pick", NEW x \in job[j].todo, PickLink(j, x)
      PROVE  UNCHANGED <<graphVars, overlapped, overtaken>> /\ \E new : Began(j, new)
  <2>1. PICK new : new = [c EXCEPT !.at = "from", !.link = x, !.todo = c.todo \ Twins(c, x)]
    OBVIOUS
  <2>2. c \in RunLinks /\ x \in LinkRows
    BY <1>3, JobTyped DEF RunLinks
  <2>3. new \in RunLinks /\ new.method = c.method /\ new.at = "from"
    BY <2>1, <2>2 DEF RunLinks, Stages
  <2>4. Graph(j, [c EXCEPT !.at = "from", !.link = x, !.todo = c.todo \ Twins(c, x)])
        /\ UNCHANGED <<graphVars, overlapped, overtaken>>
    BY <1>3 DEF PickLink, History
  <2>. QED BY <2>1, <2>3, <2>4 DEF Graph, Began
<1>. QED BY <1>1, <1>2, <1>3 DEF StartStep

-----------------------------------------------------------------------------
(* Nothing is added twice.                                                 *)

Named(n, w) == nodes[n] # Nil /\ <<nodes[n].asset, nodes[n].layer>> = w
NodesSingle ==
  /\ \A m, n \in NodeIds : m # n /\ nodes[m] # Nil /\ nodes[n] # Nil =>
       nodes[m].asset # nodes[n].asset \/ nodes[m].layer # nodes[n].layer
  /\ \A j \in Jobs : \A w \in Wanted(job[j]) : \A n \in NodeIds : ~Named(n, w)
  /\ \A j, o \in Jobs : j # o => Wanted(job[j]) \cap Wanted(job[o]) = {}

Enters(c) == c.at = "write" /\ c.edge = 0
EdgesSingle ==
  /\ \A e, f \in EdgeIds : e # f /\ edges[e] # Nil /\ edges[f] # Nil =>
       ~Joins(f, edges[e].from, edges[e].to)
  /\ \A j \in Jobs : Enters(job[j]) =>
       \A e \in EdgeIds : edges[e] # Nil => ~Joins(e, job[j].from, job[j].to)
  /\ \A j, o \in Jobs : j # o /\ Enters(job[j]) /\ Enters(job[o]) =>
       job[j].from # job[o].from \/ job[j].to # job[o].to

Singles == ~overlapped => NodesSingle /\ EdgesSingle

\* A job in such a stage adds no node and no edge next.
Rests(c) == Wanted(c) = {} /\ ~Enters(c)

LEMMA RestsAt ==
  ASSUME NEW c, c.at \notin {"addFrom", "addTo"}, c.at = "write" => c.edge # 0
  PROVE  Rests(c)
  BY DEF Rests, Wanted, Enters

\* The rows are those of before, or fewer.
Fewer ==
  /\ \A n \in NodeIds : nodes'[n] # Nil =>
       nodes[n] # Nil /\ nodes'[n].asset = nodes[n].asset /\ nodes'[n].layer = nodes[n].layer
  /\ \A e \in EdgeIds : edges'[e] # Nil =>
       edges[e] # Nil /\ edges'[e].from = edges[e].from /\ edges'[e].to = edges[e].to

LEMMA RestSingle ==
  ASSUME TopologyInv, Singles, UNCHANGED overlapped, Fewer,
         \A o \in Jobs : Rests(job'[o]) \/ job'[o] = job[o]
  PROVE  Singles'
<1>. SUFFICES ASSUME ~overlapped PROVE NodesSingle' /\ EdgesSingle'
  BY DEF Singles
<1>2. NodesSingle /\ EdgesSingle
  BY DEF Singles
<1>3. \A o \in Jobs : Wanted(job'[o]) = {} \/ job'[o] = job[o]
  BY DEF Rests
<1>4. \A o \in Jobs : ~Enters(job'[o]) \/ job'[o] = job[o]
  BY DEF Rests
<1>5. \A n \in NodeIds : \A w : Named(n, w)' => Named(n, w)
  BY DEF Named, Fewer
<1>6. NodesSingle'
  <2>1. \A m, n \in NodeIds : m # n /\ nodes'[m] # Nil /\ nodes'[n] # Nil =>
          nodes'[m].asset # nodes'[n].asset \/ nodes'[m].layer # nodes'[n].layer
    BY <1>2 DEF Fewer, NodesSingle
  <2>2. \A o \in Jobs : \A w \in Wanted(job'[o]) : \A n \in NodeIds : ~Named(n, w)'
    BY <1>2, <1>3, <1>5 DEF NodesSingle
  <2>3. \A o, p \in Jobs : o # p => Wanted(job'[o]) \cap Wanted(job'[p]) = {}
    BY <1>2, <1>3 DEF NodesSingle
  <2>. QED BY <2>1, <2>2, <2>3 DEF NodesSingle
<1>7. EdgesSingle'
  <2>1. \A e, f \in EdgeIds : e # f /\ edges'[e] # Nil /\ edges'[f] # Nil =>
          ~(edges'[f].from = edges'[e].from /\ edges'[f].to = edges'[e].to)
    BY <1>2 DEF Fewer, EdgesSingle, Joins
  <2>2. \A o \in Jobs : Enters(job'[o]) => \A e \in EdgeIds : edges'[e] # Nil =>
          ~(edges'[e].from = job'[o].from /\ edges'[e].to = job'[o].to)
    BY <1>2, <1>4 DEF Fewer, EdgesSingle, Joins
  <2>3. \A o, p \in Jobs : o # p /\ Enters(job'[o]) /\ Enters(job'[p]) =>
          job'[o].from # job'[p].from \/ job'[o].to # job'[p].to
    BY <1>2, <1>4 DEF EdgesSingle
  <2>. QED BY <2>1, <2>2, <2>3 DEF EdgesSingle, Joins
<1>. QED BY <1>6, <1>7

LEMMA OneMoves ==
  ASSUME TopologyInv, NEW j \in Jobs, NEW new, Rests(new), job' = [job EXCEPT ![j] = new]
  PROVE  \A o \in Jobs : Rests(job'[o]) \/ job'[o] = job[o]
  BY DEF TopologyInv, TopologyTyped, JobsTyped

\* A step that only moves a job on to something that adds nothing.
LEMMA RestSinglyMoves ==
  ASSUME TopologyInv, Singles, UNCHANGED <<graphVars, overlapped>>,
         \/ UNCHANGED job
         \/ \E j \in Jobs : \E new : Rests(new) /\ job' = [job EXCEPT ![j] = new]
  PROVE  Singles'
<1>1. Fewer
  BY DEF Fewer, graphVars
<1>. QED BY <1>1, OneMoves, RestSingle

LEMMA ScreensSingle == ASSUME TopologyInv, Singles, ScreenStep PROVE Singles'
<1>1. Fewer /\ UNCHANGED overlapped
  BY ScreensMove DEF Fewer
<1>2. \A o \in Jobs : Rests(job'[o]) \/ job'[o] = job[o]
  <2>1. \A new : new.at \in ScreenStages => Rests(new)
    BY RestsAt DEF ScreenStages
  <2>. QED BY <2>1, ScreensMove, OneMoves
<1>. QED BY <1>1, <1>2, RestSingle

LEMMA LinkStartsSingle == ASSUME TopologyInv, Singles, NEW j \in Jobs, StartStep(j) PROVE Singles'
<1>1. \A new : new.at \in {"readSwitch", "readTarget", "log", "pick", "from"} => Rests(new)
  BY RestsAt
<1>. QED BY <1>1, StartsMove, RestSinglyMoves DEF Began

LEMMA ClosesSingle ==
  ASSUME TopologyInv, Singles, NEW j \in Jobs, Commit(j) \/ JobFails(j)
  PROVE  Singles'
<1>1. Fewer /\ UNCHANGED overlapped
  BY CloseRows DEF Commit, JobFails, Fewer, History
<1>2. \E new : Rests(new) /\ job' = [job EXCEPT ![j] = new]
  <2>1. CASE JobFails(j)
    BY <2>1, RestsAt DEF JobFails, NoJob
  <2>2. CASE Commit(j)
    <3>. DEFINE new == [kind |-> "run", at |-> IF job[j].method = "arp" THEN "readSwitch" ELSE "log",
                        dry |-> FALSE]
    <3>1. Rests(new)
      BY RestsAt
    <3>. QED BY <2>2, <3>1 DEF Commit, Graph
  <2>. QED BY <2>1, <2>2
<1>. QED BY <1>1, <1>2, OneMoves, RestSingle

LEMMA AfterEdgeRests == ASSUME NEW c \in Linked PROVE Rests(AfterEdge(c))
<1>1. CASE c.kind = "lldp"
  BY <1>1, RestsAt DEF AfterEdge, NoJob
<1>2. CASE c \in RunLinks
  <2>1. PICK new : new = [c EXCEPT !.at = "pick", !.edge = 0]
    OBVIOUS
  <2>2. new.at = "pick" /\ AfterEdge(c) = new
    BY <1>2, <2>1 DEF RunLinks, AfterEdge
  <2>. QED BY <2>2, RestsAt
<1>. QED BY <1>1, <1>2, LinkStages

LEMMA UpdateSingle ==
  ASSUME TopologyInv, Singles, NEW j \in Jobs, UpdateEdge(j)
  PROVE  Singles'
<1>. DEFINE c == job[j]
            row == edges[c.edge]
<1>1. c \in Linked /\ c.edge \in EdgeIds /\ row \in EdgeRows /\ row # Nil
  BY JobTyped, MapPageTyped DEF UpdateEdge, TopologyInv, EdgeHeld, FoundEdges, Stages, Linked, RunLinks,
     LldpLinks
<1>2. PICK upd : upd = IF c.kind = "lldp" \/ row.by = j THEN [row EXCEPT !.method = c.method]
                       ELSE [row EXCEPT !.pending = [by |-> j, method |-> c.method]]
  OBVIOUS
<1>3. edges' = [edges EXCEPT ![c.edge] = upd] /\ UNCHANGED <<nodes, overlapped>>
      /\ job' = [job EXCEPT ![j] = AfterEdge(c)]
  BY <1>2 DEF UpdateEdge, Graph
<1>4. upd.from = row.from /\ upd.to = row.to
  BY <1>1, <1>2 DEF EdgeRows
<1>5. Fewer
  BY <1>1, <1>3, <1>4, MapPageTyped DEF Fewer
<1>6. Rests(AfterEdge(c))
  BY <1>1, AfterEdgeRests
<1>. QED BY <1>3, <1>5, <1>6, OneMoves, RestSingle

\* A job goes on to add a node or an edge that is not there and nobody else adds.
LEMMA WantSingle ==
  ASSUME TopologyInv, Singles, UNCHANGED graphVars, NEW j \in Jobs, NEW new,
         job' = [job EXCEPT ![j] = new],
         overlapped => overlapped',
         ~overlapped' => \A w \in Wanted(new) :
           /\ \A n \in NodeIds : ~Named(n, w)
           /\ \A o \in Jobs \ {j} : w \notin Wanted(job[o]),
         ~overlapped' /\ Enters(new) =>
           /\ \A e \in EdgeIds : edges[e] # Nil => ~Joins(e, new.from, new.to)
           /\ \A o \in Jobs \ {j} : Enters(job[o]) => new.from # job[o].from \/ new.to # job[o].to
  PROVE  Singles'
<1>. SUFFICES ASSUME ~overlapped' PROVE NodesSingle' /\ EdgesSingle'
  BY DEF Singles
<1>1. job'[j] = new /\ \A o \in Jobs \ {j} : job'[o] = job[o]
  BY DEF TopologyInv, TopologyTyped, JobsTyped
<1>2. NodesSingle /\ EdgesSingle
  BY DEF Singles
<1>3. nodes' = nodes /\ edges' = edges
  BY DEF graphVars
<1>4. NodesSingle'
  <2>1. \A o \in Jobs : \A w \in Wanted(job'[o]) : \A n \in NodeIds : ~Named(n, w)
    <3>. SUFFICES ASSUME NEW o \in Jobs, NEW w \in Wanted(job'[o]), NEW n \in NodeIds
                  PROVE  ~Named(n, w)
      OBVIOUS
    <3>1. CASE o = j
      BY <1>1, <3>1
    <3>2. CASE o # j
      BY <1>1, <1>2, <3>2 DEF NodesSingle
    <3>. QED BY <3>1, <3>2
  <2>2. \A o, p \in Jobs : o # p => Wanted(job'[o]) \cap Wanted(job'[p]) = {}
    BY <1>1, <1>2 DEF NodesSingle
  <2>. QED BY <1>2, <1>3, <2>1, <2>2 DEF NodesSingle, Named
<1>5. EdgesSingle'
  <2>1. \A o \in Jobs : Enters(job'[o]) => \A e \in EdgeIds : edges[e] # Nil =>
          ~Joins(e, job'[o].from, job'[o].to)
    BY <1>1, <1>2 DEF EdgesSingle
  <2>2. \A o, p \in Jobs : o # p /\ Enters(job'[o]) /\ Enters(job'[p]) =>
          job'[o].from # job'[p].from \/ job'[o].to # job'[p].to
    BY <1>1, <1>2 DEF EdgesSingle
  <2>. QED BY <1>2, <1>3, <2>1, <2>2 DEF EdgesSingle, Joins
<1>. QED BY <1>4, <1>5

LEMMA LookNodeSingle ==
  ASSUME TopologyInv, Singles, NEW j \in Jobs, NEW end \in {"from", "to"}, LookNode(j, end)
  PROVE  Singles'
<1>. DEFINE c == job[j]
            w == <<c.link[end], c.link.layer>>
            found == {n \in NodeIds : Visible(nodes[n], j) /\ nodes[n].asset = c.link[end]
                                        /\ nodes[n].layer = c.link.layer}
<1>1. c \in Linked /\ c.at = end /\ UNCHANGED graphVars
  BY JobTyped DEF LookNode, Stages
<1>2. CASE found = {}
  <2>1. PICK at \in {"addFrom", "addTo"} : at = IF end = "from" THEN "addFrom" ELSE "addTo"
    OBVIOUS
  <2>2. PICK new : new = [c EXCEPT !.at = at]
    OBVIOUS
  <2>3. job' = [job EXCEPT ![j] = new]
        /\ overlapped' = (overlapped \/ NodeUnderWay(j, c.link[end], c.link.layer))
    BY <1>2, <2>1, <2>2 DEF LookNode, Graph
  <2>4. new.at = at /\ new.link = c.link
    BY <1>1, <2>2, StageNames, LinkGoes DEF Advanced
  <2>5. Wanted(new) = {w} /\ ~Enters(new)
    BY <2>1, <2>4 DEF Wanted, Enters
  <2>6. ASSUME ~overlapped'
        PROVE  /\ \A n \in NodeIds : ~Named(n, w)
               /\ \A o \in Jobs \ {j} : w \notin Wanted(job[o])
    <3>1. ~NodeUnderWay(j, c.link[end], c.link.layer)
      BY <2>3, <2>6
    <3>2. \A o \in Jobs \ {j} : w \notin Wanted(job[o])
      BY <3>1 DEF NodeUnderWay
    <3>3. \A n \in NodeIds : ~Named(n, w)
      BY <1>2, <3>1 DEF NodeUnderWay, Named, Visible
    <3>. QED BY <3>2, <3>3
  <2>. QED BY <1>1, <2>3, <2>5, <2>6, WantSingle
<1>3. CASE found # {}
  <2>1. PICK n \in NodeIds : Graph(j, [c EXCEPT !.at = IF end = "from" THEN "to" ELSE "edge", ![end] = n])
    BY <1>3 DEF LookNode
  <2>2. PICK at \in {"to", "edge"} : at = IF end = "from" THEN "to" ELSE "edge"
    OBVIOUS
  <2>3. PICK new : new = [c EXCEPT !.at = at, ![end] = n]
    OBVIOUS
  <2>4. new.at = at
    BY <1>1, <2>3 DEF Linked, RunLinks, LldpLinks
  <2>5. job' = [job EXCEPT ![j] = new] /\ UNCHANGED overlapped
    BY <1>3, <2>1, <2>2, <2>3 DEF LookNode, Graph
  <2>. QED BY <1>1, <2>2, <2>4, <2>5, RestsAt, RestSinglyMoves
<1>. QED BY <1>2, <1>3

LEMMA LookEdgeSingle ==
  ASSUME TopologyInv, Singles, NEW j \in Jobs, LookEdge(j)
  PROVE  Singles'
<1>. DEFINE c == job[j]
<1>1. c \in Linked /\ c.at = "edge" /\ UNCHANGED graphVars
  BY JobTyped DEF LookEdge, Stages
<1>2. CASE Between(j) = {}
  <2>1. PICK new : new = [c EXCEPT !.at = "write", !.edge = 0]
    OBVIOUS
  <2>2. job' = [job EXCEPT ![j] = new] /\ overlapped' = (overlapped \/ EdgeUnderWay(j))
    BY <1>2, <2>1 DEF LookEdge, Graph
  <2>3. new.at = "write" /\ new.from = c.from /\ new.to = c.to
    BY <1>1, <2>1 DEF Linked, RunLinks, LldpLinks
  <2>4. Wanted(new) = {}
    BY <2>3 DEF Wanted
  <2>5. ASSUME ~overlapped'
        PROVE  /\ \A e \in EdgeIds : edges[e] # Nil => ~Joins(e, new.from, new.to)
               /\ \A o \in Jobs \ {j} : Enters(job[o]) => new.from # job[o].from \/ new.to # job[o].to
    BY <1>2, <2>2, <2>3, <2>5 DEF EdgeUnderWay, Enters, Between, Visible
  <2>. QED BY <1>1, <2>2, <2>4, <2>5, WantSingle
<1>3. CASE Between(j) # {}
  <2>1. PICK e \in Between(j) : /\ UNCHANGED overlapped
                               /\ Graph(j, [c EXCEPT !.at = IF KeepsLldp(j, e) THEN "pick" ELSE "write",
                                                     !.edge = IF KeepsLldp(j, e) THEN 0 ELSE e])
    BY <1>3 DEF LookEdge
  <2>2. e # 0
    BY TopologyAssumption DEF Between
  <2>3. PICK new : new = [c EXCEPT !.at = IF KeepsLldp(j, e) THEN "pick" ELSE "write",
                                   !.edge = IF KeepsLldp(j, e) THEN 0 ELSE e]
    OBVIOUS
  <2>4. new.at = "pick" \/ (new.at = "write" /\ new.edge = e)
    BY <1>1, <2>3 DEF Linked, RunLinks, LldpLinks
  <2>5. job' = [job EXCEPT ![j] = new]
    BY <2>1, <2>3 DEF Graph
  <2>. QED BY <1>1, <2>1, <2>2, <2>4, <2>5, RestsAt, RestSinglyMoves
<1>. QED BY <1>2, <1>3

LEMMA AddNodeSingle ==
  ASSUME TopologyInv, Singles, NEW j \in Jobs, NEW end \in {"from", "to"}, AddNode(j, end)
  PROVE  Singles'
<1>. SUFFICES ASSUME ~overlapped PROVE NodesSingle' /\ EdgesSingle'
  BY DEF Singles, AddNode, History
<1>. DEFINE c == job[j]
            w == <<c.link[end], c.link.layer>>
            row == [asset |-> c.link[end], layer |-> c.link.layer, pos |-> 0, by |-> Owner(j)]
<1>1. c \in Linked /\ c.at = (IF end = "from" THEN "addFrom" ELSE "addTo")
  BY JobTyped DEF AddNode, Stages
<1>2. NodesSingle /\ EdgesSingle
  BY DEF Singles
<1>3. Wanted(c) = {w}
  BY <1>1 DEF Wanted
<1>4. PICK n \in NodeIds : /\ nodes[n] = Nil
                          /\ nodes' = [nodes EXCEPT ![n] = row]
                          /\ Graph(j, [c EXCEPT !.at = IF end = "from" THEN "to" ELSE "edge",
                                                ![end] = n])
  BY DEF AddNode, Min1
<1>5. PICK new : new = [c EXCEPT !.at = IF end = "from" THEN "to" ELSE "edge", ![end] = n]
  OBVIOUS
<1>6. new.at \in {"to", "edge"}
  BY <1>1, <1>5 DEF Linked, RunLinks, LldpLinks
<1>7. job' = [job EXCEPT ![j] = new] /\ Rests(new)
  BY <1>4, <1>5, <1>6, RestsAt DEF Graph
<1>8. job'[j] = new /\ \A o \in Jobs \ {j} : job'[o] = job[o]
  BY <1>7 DEF TopologyInv, TopologyTyped, JobsTyped
<1>9. nodes'[n] = row /\ \A m \in NodeIds \ {n} : nodes'[m] = nodes[m]
  BY <1>4, MapPageTyped
<1>10. NodesSingle'
  <2>1. \A m \in NodeIds : nodes[m] # Nil => nodes[m].asset # row.asset \/ nodes[m].layer # row.layer
    BY <1>2, <1>3 DEF NodesSingle, Named
  <2>2. \A m, k \in NodeIds : m # k /\ nodes'[m] # Nil /\ nodes'[k] # Nil =>
          nodes'[m].asset # nodes'[k].asset \/ nodes'[m].layer # nodes'[k].layer
    BY <1>2, <1>9, <2>1 DEF NodesSingle
  <2>3. \A o \in Jobs \ {j} : w \notin Wanted(job[o])
    BY <1>2, <1>3 DEF NodesSingle
  <2>4. \A o \in Jobs : \A v \in Wanted(job'[o]) : \A m \in NodeIds :
          ~(nodes'[m] # Nil /\ <<nodes'[m].asset, nodes'[m].layer>> = v)
    <3>. SUFFICES ASSUME NEW o \in Jobs, NEW v \in Wanted(job'[o]), NEW m \in NodeIds, nodes'[m] # Nil
                  PROVE  <<nodes'[m].asset, nodes'[m].layer>> # v
      OBVIOUS
    <3>1. o # j /\ v \in Wanted(job[o]) /\ v # w
      BY <1>7, <1>8, <2>3 DEF Rests
    <3>2. CASE m = n
      BY <1>9, <3>1, <3>2
    <3>3. CASE m # n
      BY <1>2, <1>9, <3>1, <3>3 DEF NodesSingle, Named
    <3>. QED BY <3>2, <3>3
  <2>5. \A o, p \in Jobs : o # p => Wanted(job'[o]) \cap Wanted(job'[p]) = {}
    BY <1>2, <1>7, <1>8 DEF NodesSingle, Rests
  <2>. QED BY <2>2, <2>4, <2>5 DEF NodesSingle, Named
<1>11. EdgesSingle'
  <2>0. UNCHANGED edges
    BY DEF AddNode
  <2>1. \A o \in Jobs : Enters(job'[o]) => o # j /\ job'[o] = job[o]
    BY <1>7, <1>8 DEF Rests
  <2>. QED BY <1>2, <2>0, <2>1 DEF EdgesSingle, Joins
<1>. QED BY <1>10, <1>11

LEMMA InsertEdgeSingle ==
  ASSUME TopologyInv, Singles, NEW j \in Jobs, InsertEdge(j)
  PROVE  Singles'
<1>. SUFFICES ASSUME ~overlapped PROVE NodesSingle' /\ EdgesSingle'
  BY DEF Singles, InsertEdge, History
<1>. DEFINE c == job[j]
            row == [from |-> c.from, to |-> c.to, layer |-> c.link.layer, method |-> c.method,
                    by |-> Owner(j), pending |-> NoChange]
<1>1. c \in Linked /\ Enters(c)
  BY JobTyped DEF InsertEdge, Stages, Enters
<1>2. NodesSingle /\ EdgesSingle
  BY DEF Singles
<1>3. PICK e \in EdgeIds : edges[e] = Nil /\ edges' = [edges EXCEPT ![e] = row]
  BY DEF InsertEdge, Min1
<1>4. job' = [job EXCEPT ![j] = AfterEdge(c)] /\ Rests(AfterEdge(c)) /\ UNCHANGED nodes
  BY <1>1, AfterEdgeRests DEF InsertEdge, Graph
<1>5. \A o \in Jobs : Enters(job'[o]) => o # j /\ job'[o] = job[o]
  BY <1>4 DEF Rests, TopologyInv, TopologyTyped, JobsTyped
<1>6. \A o \in Jobs : Wanted(job'[o]) = {} \/ (o # j /\ job'[o] = job[o])
  BY <1>4 DEF Rests, TopologyInv, TopologyTyped, JobsTyped
<1>7. edges'[e] = row /\ \A f \in EdgeIds \ {e} : edges'[f] = edges[f]
  BY <1>3, MapPageTyped
<1>8. NodesSingle'
  BY <1>2, <1>4, <1>6 DEF NodesSingle, Named
<1>9. EdgesSingle'
  <2>1. \A f \in EdgeIds : edges[f] # Nil => ~(edges[f].from = row.from /\ edges[f].to = row.to)
    BY <1>1, <1>2 DEF EdgesSingle, Joins
  <2>2. \A f, g \in EdgeIds : f # g /\ edges'[f] # Nil /\ edges'[g] # Nil =>
          ~(edges'[g].from = edges'[f].from /\ edges'[g].to = edges'[f].to)
    <3>1. \A f, g \in EdgeIds : f # g /\ edges[f] # Nil /\ edges[g] # Nil =>
            ~(edges[g].from = edges[f].from /\ edges[g].to = edges[f].to)
      BY <1>2 DEF EdgesSingle, Joins
    <3>. QED BY <1>7, <2>1, <3>1
  <2>3. \A o \in Jobs : Enters(job'[o]) => \A f \in EdgeIds : edges'[f] # Nil =>
          ~(edges'[f].from = job'[o].from /\ edges'[f].to = job'[o].to)
    <3>. SUFFICES ASSUME NEW o \in Jobs, Enters(job'[o]), NEW f \in EdgeIds, edges'[f] # Nil
                  PROVE  ~(edges'[f].from = job'[o].from /\ edges'[f].to = job'[o].to)
      OBVIOUS
    <3>1. o # j /\ job'[o] = job[o] /\ Enters(job[o])
      BY <1>5
    <3>2. row.from # job[o].from \/ row.to # job[o].to
      BY <1>1, <1>2, <3>1 DEF EdgesSingle
    <3>3. edges[f] # Nil => ~(edges[f].from = job[o].from /\ edges[f].to = job[o].to)
      BY <1>2, <3>1 DEF EdgesSingle, Joins
    <3>. QED BY <1>7, <3>1, <3>2, <3>3
  <2>4. \A o, p \in Jobs : o # p /\ Enters(job'[o]) /\ Enters(job'[p]) =>
          job'[o].from # job'[p].from \/ job'[o].to # job'[p].to
    BY <1>2, <1>5 DEF EdgesSingle
  <2>. QED BY <2>2, <2>3, <2>4 DEF EdgesSingle, Joins
<1>. QED BY <1>8, <1>9

LEMMA SinglesInitHolds == TopologyInit => Singles
<1>. SUFFICES ASSUME TopologyInit PROVE Singles
  OBVIOUS
<1>1. \A j \in Jobs : Rests(job[j])
  BY RestsAt DEF TopologyInit, NoJob
<1>. QED BY <1>1 DEF TopologyInit, Singles, NodesSingle, EdgesSingle, Rests

LEMMA SinglesStepHolds == TopologyInv /\ Singles /\ [TopologyNext]_topologyVars => Singles'
<1>. SUFFICES ASSUME TopologyInv, Singles, [TopologyNext]_topologyVars PROVE Singles'
  OBVIOUS
<1>1. ASSUME NEW j \in Jobs, GraphStep(j) PROVE Singles'
  BY <1>1, LinkStartsSingle, LookNodeSingle, AddNodeSingle, LookEdgeSingle, InsertEdgeSingle,
     UpdateSingle, ClosesSingle, ScreensSingle DEF GraphStep, ScreenStep, StartStep
<1>2. CASE UNCHANGED topologyVars
  BY <1>2, RestSinglyMoves DEF topologyVars
<1>. QED BY <1>1, <1>2, ScreensSingle, LinkStartsSingle, ClosesSingle
         DEF TopologyNext, ScreenStep, StartStep

LEMMA SinglesGive == Singles => NoDoubles
  BY DEF Singles, NodesSingle, EdgesSingle, NoDoubles

\* For any devices, rows and writers at the same time: an asset has one node in a layer
\* and two nodes one edge in a direction, as long as no two writers have looked for the
\* same row before either could see the other's.
THEOREM TopologyHasNoDoubles == TopologySpec => []NoDoubles
<1>1. DeskInit /\ TopologyInit => TopologyInv /\ Singles
  BY TopologyInitHolds, SinglesInitHolds
<1>2. TopologyInv /\ Singles /\ [TopologyNext]_<<topologyVars, deskVars>> => (TopologyInv /\ Singles)'
  BY TopologyStepHolds, SinglesStepHolds
<1>. QED BY <1>1, <1>2, SinglesGive, PTL DEF TopologySpec

-----------------------------------------------------------------------------
(* What LLDP has found.                                                    *)

RunOwns(j) == j \in Jobs /\ job[j] \in RunLinks
Owned ==
  \A e \in EdgeIds : edges[e] # Nil =>
    /\ edges[e].by # 0 => RunOwns(edges[e].by) /\ edges[e].method # "lldp"
                          /\ edges[e].pending.by = 0
    /\ edges[e].pending.by # 0 =>
         RunOwns(edges[e].pending.by)
         /\ edges[e].pending.method = job[edges[e].pending.by].method

LldpFound ==
  /\ \A e \in EdgeIds :
       edges[e] # Nil /\ edges[e].method = "lldp" /\ edges[e].pending.by # 0
         /\ edges[e].pending.method = "arp" => e \in overtaken
  /\ \A j \in Jobs :
       job[j].at = "write" /\ job[j].edge # 0 /\ job[j].method = "arp"
         /\ edges[job[j].edge].method = "lldp" => job[j].edge \in overtaken

LldpInv == Owned /\ LldpFound

\* A step of one job that writes no edge.
LEMMA LldpMoves ==
  ASSUME TopologyInv, LldpInv, UNCHANGED <<edges, overtaken>>, NEW j \in Jobs, NEW new,
         job' = [job EXCEPT ![j] = new],
         job[j] \in RunLinks => new \in RunLinks /\ new.method = job[j].method,
         new.at = "write" /\ new.edge # 0 /\ new.method = "arp" /\ edges[new.edge].method = "lldp"
           => new.edge \in overtaken
  PROVE  LldpInv'
<1>1. job'[j] = new /\ \A o \in Jobs \ {j} : job'[o] = job[o]
  BY DEF TopologyInv, TopologyTyped, JobsTyped
<1>2. \A o : RunOwns(o) => job'[o] \in RunLinks /\ job'[o].method = job[o].method
  BY <1>1 DEF RunOwns
<1>3. Owned'
  BY <1>2 DEF LldpInv, Owned, RunOwns
<1>4. LldpFound'
  BY <1>1 DEF LldpInv, LldpFound
<1>. QED BY <1>3, <1>4 DEF LldpInv

\* A job that is not at a link, and goes on to something that is none either.
LEMMA LldpUntouched ==
  ASSUME TopologyInv, LldpInv, UNCHANGED <<edges, overtaken>>,
         \/ UNCHANGED job
         \/ \E j \in Jobs : \E new :
              job[j] \notin RunLinks /\ new.at # "write" /\ job' = [job EXCEPT ![j] = new]
  PROVE  LldpInv'
<1>1. CASE UNCHANGED job
  BY <1>1 DEF LldpInv, Owned, LldpFound, RunOwns
<1>. QED BY <1>1, LldpMoves

LEMMA ScreensLldp == ASSUME TopologyInv, LldpInv, ScreenStep PROVE LldpInv' /\ UNCHANGED edges
<1>1. \A new : new.at \in ScreenStages => new.at # "write"
  BY DEF ScreenStages
<1>. QED BY <1>1, ScreensMove, LldpUntouched

LEMMA StartsLldp ==
  ASSUME TopologyInv, LldpInv, NEW j \in Jobs, StartStep(j) PROVE LldpInv' /\ UNCHANGED edges
<1>1. UNCHANGED <<edges, overtaken>>
  BY StartsMove DEF graphVars
<1>2. PICK new : /\ job' = [job EXCEPT ![j] = new] /\ new.at # "write"
                 /\ job[j] \in RunLinks => new \in RunLinks /\ new.method = job[j].method
  BY StartsMove DEF Began
<1>. QED BY <1>1, <1>2, LldpMoves

LEMMA LooksLldp ==
  ASSUME TopologyInv, LldpInv, NEW j \in Jobs,
         LookEdge(j) \/ \E end \in {"from", "to"} : LookNode(j, end) \/ AddNode(j, end)
  PROVE  LldpInv' /\ UNCHANGED edges
<1>. DEFINE c == job[j]
<1>1. UNCHANGED <<edges, overtaken>>
  BY DEF LookEdge, LookNode, AddNode, History, graphVars
<1>2. ASSUME NEW end \in {"from", "to"}, LookNode(j, end) \/ AddNode(j, end) PROVE LldpInv'
  <2>1. c \in Linked
    BY <1>2, JobTyped DEF LookNode, AddNode, Stages
  <2>2. \E at \in {"to", "addFrom", "addTo", "edge"}, n \in Found :
          \/ job' = [job EXCEPT ![j] = [c EXCEPT !.at = at]]
          \/ job' = [job EXCEPT ![j] = [c EXCEPT !.at = at, ![end] = n]]
    BY <1>2 DEF LookNode, AddNode, Graph, Found
  <2>3. PICK at \in {"to", "addFrom", "addTo", "edge"}, n \in Found :
          \E new : /\ job' = [job EXCEPT ![j] = new]
                   /\ new = [c EXCEPT !.at = at] \/ new = [c EXCEPT !.at = at, ![end] = n]
    BY <2>2
  <2>. PICK new : /\ job' = [job EXCEPT ![j] = new]
                  /\ new = [c EXCEPT !.at = at] \/ new = [c EXCEPT !.at = at, ![end] = n]
    BY <2>3
  <2>4. new.at = at
    BY <2>1, <2>3 DEF Linked, RunLinks, LldpLinks
  <2>5. CASE c \in RunLinks
    <3>1. new \in RunLinks /\ new.method = c.method
      BY <2>5 DEF RunLinks, Stages
    <3>. QED BY <1>1, <2>4, <3>1, LldpMoves
  <2>6. CASE c \notin RunLinks
    BY <1>1, <2>4, <2>6, LldpMoves
  <2>. QED BY <2>5, <2>6
<1>3. CASE LookEdge(j)
  <2>1. c \in Linked
    BY <1>3, JobTyped DEF LookEdge, Stages
  <2>2. PICK at \in {"write", "pick"}, e \in FoundEdges :
          /\ job' = [job EXCEPT ![j] = [c EXCEPT !.at = at, !.edge = e]]
          /\ at = "write" /\ e # 0 => e \in Between(j) /\ ~KeepsLldp(j, e)
    BY <1>3 DEF LookEdge, Graph, FoundEdges, Between
  <2>3. PICK new : new = [c EXCEPT !.at = at, !.edge = e]
    OBVIOUS
  <2>4. new.at = at /\ new.edge = e /\ new.method = c.method
    BY <2>1, <2>3 DEF Linked, RunLinks, LldpLinks
  <2>5. c \in RunLinks => new \in RunLinks
    BY <2>3 DEF RunLinks, Stages
  <2>6. ASSUME at = "write", e # 0, c.method = "arp", edges[e].method = "lldp" PROVE e \in overtaken
    <3>1. e \in EdgeIds /\ edges[e] # Nil /\ MethodFor(e, j) # "lldp"
      BY <2>2, <2>6 DEF Between, Visible, KeepsLldp
    <3>2. edges[e].pending.by = j /\ edges[e].pending.by # 0
      BY <2>6, <3>1, TopologyAssumption DEF MethodFor
    <3>3. edges[e].pending.method = "arp"
      BY <2>6, <3>1, <3>2 DEF LldpInv, Owned
    <3>. QED BY <2>6, <3>1, <3>2, <3>3 DEF LldpInv, LldpFound
  <2>. QED BY <1>1, <2>2, <2>3, <2>4, <2>5, <2>6, LldpMoves
<1>. QED BY <1>1, <1>2, <1>3

LEMMA AfterEdgeLinks ==
  ASSUME NEW c \in Linked
  PROVE  /\ AfterEdge(c).at # "write"
         /\ c \in RunLinks => AfterEdge(c) \in RunLinks /\ AfterEdge(c).method = c.method
<1>1. CASE c \in RunLinks
  <2>1. PICK new : new = [c EXCEPT !.at = "pick", !.edge = 0]
    OBVIOUS
  <2>2. new \in RunLinks /\ new.method = c.method
    BY <1>1, <2>1 DEF RunLinks, FoundEdges
  <2>3. AfterEdge(c) = new
    BY <1>1, <2>1 DEF AfterEdge, RunLinks
  <2>. QED BY <2>2, <2>3, AfterEdgeTyped
<1>. QED BY <1>1, AfterEdgeTyped

\* LLDP writes an edge nobody owns, in the open.
LEMMA LldpJobs ==
  ASSUME TopologyInv, NEW j \in Jobs, job[j] \in Linked
  PROVE  /\ job[j].kind = "lldp" => /\ ~RunOwns(j) /\ Owner(j) = 0 /\ job[j].method = "lldp"
         /\ job[j].kind # "lldp" => /\ RunOwns(j) /\ Owner(j) = j /\ job[j] \in RunLinks
                                    /\ job[j].method \in {"arp", "wwn"}
  BY LinkStages DEF Linked, RunLinks, LldpLinks, RunOwns, Owner

LEMMA InsertLldp ==
  ASSUME TopologyInv, LldpInv, NEW j \in Jobs, InsertEdge(j)
  PROVE  LldpInv' /\ \A e \in EdgeIds : edges[e] # Nil => edges'[e] = edges[e]
<1>. DEFINE c == job[j]
            row == [from |-> c.from, to |-> c.to, layer |-> c.link.layer, method |-> c.method,
                    by |-> Owner(j), pending |-> NoChange]
<1>1. c \in Linked /\ j # 0
  BY JobTyped, TopologyAssumption DEF InsertEdge, Stages
<1>2. PICK e \in EdgeIds : edges[e] = Nil /\ edges' = [edges EXCEPT ![e] = row]
  BY DEF InsertEdge, Min1
<1>3. edges'[e] = row /\ \A f \in EdgeIds \ {e} : edges'[f] = edges[f]
  BY <1>2, MapPageTyped
<1>4. job' = [job EXCEPT ![j] = AfterEdge(c)] /\ UNCHANGED overtaken
  BY DEF InsertEdge, Graph, History
<1>5. job'[j] = AfterEdge(c) /\ \A o \in Jobs \ {j} : job'[o] = job[o]
  BY <1>4 DEF TopologyInv, TopologyTyped, JobsTyped
<1>6. \A o : RunOwns(o) => job'[o] \in RunLinks /\ job'[o].method = job[o].method
  BY <1>1, <1>5, AfterEdgeLinks DEF RunOwns
<1>7. Owned'
  <2>1. row.by # 0 => row.by = j /\ RunOwns(j) /\ row.method # "lldp"
    BY <1>1, LldpJobs
  <2>2. row.pending.by = 0
    BY DEF NoChange
  <2>3. ASSUME NEW f \in EdgeIds, edges'[f] # Nil
        PROVE  /\ edges'[f].by # 0 => /\ edges'[f].by \in Jobs /\ job'[edges'[f].by] \in RunLinks
                                      /\ edges'[f].method # "lldp" /\ edges'[f].pending.by = 0
               /\ edges'[f].pending.by # 0 =>
                    /\ edges'[f].pending.by \in Jobs /\ job'[edges'[f].pending.by] \in RunLinks
                    /\ edges'[f].pending.method = job'[edges'[f].pending.by].method
    <3>1. CASE f = e
      BY <1>3, <1>6, <2>1, <2>2, <3>1 DEF RunOwns
    <3>2. CASE f # e
      BY <1>3, <1>6, <2>3, <3>2 DEF LldpInv, Owned, RunOwns
    <3>. QED BY <3>1, <3>2
  <2>. QED BY <2>3 DEF Owned, RunOwns
<1>8. LldpFound'
  <2>1. \A f \in EdgeIds : edges'[f] # Nil /\ edges'[f].method = "lldp" /\ edges'[f].pending.by # 0
          /\ edges'[f].pending.method = "arp" => f \in overtaken'
    BY <1>3, <1>4 DEF LldpInv, LldpFound, NoChange
  <2>2. ASSUME NEW o \in Jobs, job'[o].at = "write", job'[o].edge # 0, job'[o].method = "arp",
               edges'[job'[o].edge].method = "lldp"
        PROVE  job'[o].edge \in overtaken'
    <3>1. o # j /\ job'[o] = job[o]
      BY <1>1, <1>5, <2>2, AfterEdgeLinks
    <3>2. job[o].edge \in EdgeIds \ {e}
      BY <1>2, <2>2, <3>1, JobTyped DEF TopologyInv, EdgeHeld, Stages, Linked, RunLinks, LldpLinks,
         FoundEdges
    <3>. QED BY <1>3, <1>4, <2>2, <3>1, <3>2 DEF LldpInv, LldpFound
  <2>. QED BY <2>1, <2>2 DEF LldpFound
<1>. QED BY <1>2, <1>3, <1>7, <1>8 DEF LldpInv

LEMMA UpdateLldp ==
  ASSUME TopologyInv, LldpInv, NEW j \in Jobs, UpdateEdge(j)
  PROVE  /\ LldpInv'
         /\ \A e \in EdgeIds : edges[e] # Nil /\ edges[e].method = "lldp" => edges'[e].method = "lldp"
<1>. DEFINE c == job[j]
            e == c.edge
            row == edges[e]
<1>1. c \in Linked /\ c.at = "write" /\ e # 0 /\ j # 0 /\ row.pending.by \in {0, j}
      /\ e \in EdgeIds /\ row \in EdgeRows /\ row # Nil /\ row.by \in {0, j}
  BY JobTyped, MapPageTyped, TopologyAssumption
     DEF UpdateEdge, TopologyInv, EdgeHeld, FoundEdges, Stages, Linked, RunLinks, LldpLinks
<1>2. PICK upd : upd = IF c.kind = "lldp" \/ row.by = j THEN [row EXCEPT !.method = c.method]
                       ELSE [row EXCEPT !.pending = [by |-> j, method |-> c.method]]
  OBVIOUS
<1>3. /\ edges' = [edges EXCEPT ![e] = upd] /\ job' = [job EXCEPT ![j] = AfterEdge(c)]
      /\ overtaken \subseteq overtaken'
      /\ c.kind = "lldp" => \A o \in Jobs \ {j} :
           job[o].at = "write" /\ job[o].edge = e /\ job[o].method = "arp" => e \in overtaken'
  BY <1>2 DEF UpdateEdge, Graph
<1>4. edges'[e] = upd /\ \A f \in EdgeIds \ {e} : edges'[f] = edges[f]
  BY <1>1, <1>3, MapPageTyped
<1>5. job'[j] = AfterEdge(c) /\ \A o \in Jobs \ {j} : job'[o] = job[o]
  BY <1>3 DEF TopologyInv, TopologyTyped, JobsTyped
<1>6. \A o : RunOwns(o) => job'[o] \in RunLinks /\ job'[o].method = job[o].method
  BY <1>1, <1>5, AfterEdgeLinks DEF RunOwns
<1>7. upd # Nil /\ upd.by = row.by
  <2>1. c.method \in Methods
    BY <1>1 DEF Linked, RunLinks, LldpLinks, Methods
  <2>2. upd \in EdgeRows /\ upd.by = row.by
    BY <1>1, <1>2, <2>1 DEF EdgeRows
  <2>. QED BY <2>2, TopologyAssumption
<1>8. row.by # 0 => RunOwns(j) /\ row.by = j /\ row.method # "lldp" /\ row.pending.by = 0
  BY <1>1 DEF LldpInv, Owned
<1>9. row.pending.by # 0 => RunOwns(j) /\ row.pending.by = j /\ row.pending.method = c.method
  BY <1>1 DEF LldpInv, Owned
\* The three ways to write the row: in the open, one's own, and as a pending change.
<1>10. \/ /\ c.kind = "lldp" /\ upd.method = "lldp" /\ upd.by = 0 /\ upd.pending.by = 0
       \/ /\ RunOwns(j) /\ upd.method # "lldp" /\ row.method # "lldp" /\ upd.pending.by = 0
       \/ /\ RunOwns(j) /\ upd.by = 0 /\ upd.method = row.method /\ upd.pending.by = j
          /\ upd.pending.method = c.method
  <2>1. CASE c.kind = "lldp"
    BY <1>1, <1>2, <1>7, <1>8, <1>9, <2>1, LldpJobs DEF EdgeRows
  <2>2. CASE c.kind # "lldp" /\ row.by = j
    BY <1>1, <1>2, <1>8, <2>2, LldpJobs DEF EdgeRows
  <2>3. CASE c.kind # "lldp" /\ row.by # j
    BY <1>1, <1>2, <1>7, <2>3, LldpJobs DEF EdgeRows
  <2>. QED BY <2>1, <2>2, <2>3
<1>11. Owned'
  <2>1. ASSUME NEW f \in EdgeIds, edges'[f] # Nil
        PROVE  /\ edges'[f].by # 0 => /\ edges'[f].by \in Jobs /\ job'[edges'[f].by] \in RunLinks
                                      /\ edges'[f].method # "lldp" /\ edges'[f].pending.by = 0
               /\ edges'[f].pending.by # 0 =>
                    /\ edges'[f].pending.by \in Jobs /\ job'[edges'[f].pending.by] \in RunLinks
                    /\ edges'[f].pending.method = job'[edges'[f].pending.by].method
    <3>1. CASE f = e
      BY <1>4, <1>6, <1>7, <1>8, <1>10, <3>1 DEF RunOwns
    <3>2. CASE f # e
      BY <1>4, <1>6, <2>1, <3>2 DEF LldpInv, Owned, RunOwns
    <3>. QED BY <3>1, <3>2
  <2>. QED BY <2>1 DEF Owned, RunOwns
<1>12. LldpFound'
  <2>1. ASSUME NEW f \in EdgeIds, edges'[f] # Nil, edges'[f].method = "lldp", edges'[f].pending.by # 0,
               edges'[f].pending.method = "arp"
        PROVE  f \in overtaken'
    <3>1. CASE f # e
      BY <1>3, <1>4, <2>1, <3>1 DEF LldpInv, LldpFound
    <3>2. CASE f = e
      <4>1. row.method = "lldp" /\ c.method = "arp"
        BY <1>4, <1>10, <2>1, <3>2
      <4>. QED BY <1>1, <1>3, <3>2, <4>1 DEF LldpInv, LldpFound
    <3>. QED BY <3>1, <3>2
  <2>2. ASSUME NEW o \in Jobs, job'[o].at = "write", job'[o].edge # 0, job'[o].method = "arp",
               edges'[job'[o].edge].method = "lldp"
        PROVE  job'[o].edge \in overtaken'
    <3>1. o # j /\ job'[o] = job[o]
      BY <1>1, <1>5, <2>2, AfterEdgeLinks
    <3>2. job[o].edge \in EdgeIds
      BY <2>2, <3>1, JobTyped DEF Stages, Linked, RunLinks, LldpLinks, FoundEdges
    <3>3. CASE job[o].edge # e
      BY <1>3, <1>4, <2>2, <3>1, <3>2, <3>3 DEF LldpInv, LldpFound
    <3>4. CASE job[o].edge = e
      <4>1. CASE c.kind = "lldp"
        BY <1>3, <2>2, <3>1, <3>4, <4>1
      <4>2. CASE row.method = "lldp"
        BY <1>3, <2>2, <3>1, <3>4, <4>2 DEF LldpInv, LldpFound
      <4>. QED BY <1>4, <1>10, <2>2, <3>1, <3>4, <4>1, <4>2
    <3>. QED BY <3>3, <3>4
  <2>. QED BY <2>1, <2>2 DEF LldpFound
<1>13. \A f \in EdgeIds : edges[f] # Nil /\ edges[f].method = "lldp" => edges'[f].method = "lldp"
  BY <1>4, <1>10
<1>. QED BY <1>11, <1>12, <1>13 DEF LldpInv

LEMMA ClosesLldp ==
  ASSUME TopologyInv, TopologyInv', LldpInv, NEW j \in Jobs, Commit(j) \/ JobFails(j)
  PROVE  /\ LldpInv'
         /\ \A e \in EdgeIds : edges[e] # Nil /\ edges[e].method = "lldp" =>
              edges'[e].method \in {"lldp", "wwn"} \/ e \in overtaken
<1>1. PICK keep \in BOOLEAN : CloseEdges(j, keep)
  BY DEF Commit, JobFails, Close
<1>2. UNCHANGED overtaken /\ j # 0
  BY TopologyAssumption DEF Commit, JobFails, History
<1>3. PICK new : job' = [job EXCEPT ![j] = new] /\ new.at # "write"
  <2>. DEFINE read == [kind |-> "run", at |-> IF job[j].method = "arp" THEN "readSwitch" ELSE "log",
                       dry |-> FALSE]
  <2>1. job' = [job EXCEPT ![j] = read] \/ job' = [job EXCEPT ![j] = NoJob]
    BY DEF Commit, Graph, JobFails
  <2>2. read.at # "write" /\ NoJob.at # "write"
    BY DEF NoJob
  <2>. QED BY <2>1, <2>2
<1>4. job'[j] = new /\ \A o \in Jobs \ {j} : job'[o] = job[o]
  BY <1>3 DEF TopologyInv, TopologyTyped, JobsTyped
<1>5. ASSUME NEW e \in EdgeIds, edges[e] # Nil
      PROVE  \/ edges'[e] = edges[e] /\ edges[e].by # j /\ edges[e].pending.by # j
             \/ /\ edges[e].by = j /\ edges[e].method # "lldp"
                /\ \/ edges'[e] = Nil
                   \/ /\ edges'[e].by = 0 /\ edges'[e].method # "lldp" /\ edges'[e].pending.by = 0
             \/ /\ edges[e].by = 0 /\ edges[e].pending.by = j
                /\ edges'[e].by = 0 /\ edges'[e].pending.by = 0
                /\ \/ edges'[e].method = edges[e].method
                   \/ edges'[e].method = edges[e].pending.method
                /\ edges[e].pending.method \in {"arp", "wwn"}
  <2>. DEFINE seen == [edges[e] EXCEPT !.by = 0]
              done == [edges[e] EXCEPT !.pending = NoChange,
                         !.method = IF keep THEN edges[e].pending.method ELSE edges[e].method]
  <2>1. edges'[e] = IF Mine(edges[e], j) THEN IF keep THEN seen ELSE Nil
                    ELSE IF edges[e].pending.by # j THEN edges[e] ELSE done
    BY <1>1, <1>5 DEF CloseEdges
  <2>2. edges[e] \in EdgeRows
    BY <1>5, MapPageTyped
  <2>3. CASE edges[e].by = j
    <3>1. edges[e].method # "lldp" /\ edges[e].pending.by = 0
      BY <1>2, <1>5, <2>3 DEF LldpInv, Owned
    <3>2. PICK r : r = seen
      OBVIOUS
    <3>3. r.by = 0 /\ r.method = edges[e].method /\ r.pending = edges[e].pending
      BY <2>2, <3>2 DEF EdgeRows
    <3>4. edges'[e] = Nil \/ edges'[e] = r
      BY <1>5, <2>1, <2>3, <3>2 DEF Mine
    <3>. QED BY <2>3, <3>1, <3>3, <3>4
  <2>4. CASE edges[e].by # j /\ edges[e].pending.by # j
    BY <2>1, <2>4 DEF Mine
  <2>5. CASE edges[e].by # j /\ edges[e].pending.by = j
    <3>1. RunOwns(j) /\ edges[e].pending.method = job[j].method /\ edges[e].by = 0
      BY <1>2, <1>5, <2>5 DEF LldpInv, Owned
    <3>2. PICK r : r = done
      OBVIOUS
    <3>3. r.by = edges[e].by /\ r.pending.by = 0
          /\ (r.method = edges[e].method \/ r.method = edges[e].pending.method)
      BY <2>2, <3>2 DEF EdgeRows, NoChange
    <3>4. edges'[e] = r
      BY <2>1, <2>5, <3>2 DEF Mine
    <3>. QED BY <2>5, <3>1, <3>3, <3>4 DEF RunOwns, RunLinks
  <2>. QED BY <2>3, <2>4, <2>5
<1>6. \A e \in EdgeIds : edges[e] = Nil => edges'[e] = Nil
  BY <1>1 DEF CloseEdges
<1>7. Owned'
  <2>1. ASSUME NEW f \in EdgeIds, edges'[f] # Nil
        PROVE  /\ edges'[f].by # 0 => /\ edges'[f].by \in Jobs /\ job'[edges'[f].by] \in RunLinks
                                      /\ edges'[f].method # "lldp" /\ edges'[f].pending.by = 0
               /\ edges'[f].pending.by # 0 =>
                    /\ edges'[f].pending.by \in Jobs /\ job'[edges'[f].pending.by] \in RunLinks
                    /\ edges'[f].pending.method = job'[edges'[f].pending.by].method
    <3>1. edges[f] # Nil
      BY <1>6, <2>1
    <3>2. CASE edges'[f] = edges[f] /\ edges[f].by # j /\ edges[f].pending.by # j
      BY <1>4, <3>1, <3>2 DEF LldpInv, Owned, RunOwns
    <3>3. CASE edges'[f].by = 0 /\ edges'[f].pending.by = 0
      BY <3>3
    <3>. QED BY <1>5, <2>1, <3>1, <3>2, <3>3
  <2>. QED BY <2>1 DEF Owned, RunOwns
<1>8. LldpFound'
  <2>1. \A f \in EdgeIds : edges'[f] # Nil /\ edges'[f].method = "lldp" /\ edges'[f].pending.by # 0
          /\ edges'[f].pending.method = "arp" => f \in overtaken'
    BY <1>2, <1>5, <1>6 DEF LldpInv, LldpFound
  <2>2. ASSUME NEW o \in Jobs, job'[o].at = "write", job'[o].edge # 0, job'[o].method = "arp",
               edges'[job'[o].edge].method = "lldp"
        PROVE  job'[o].edge \in overtaken'
    <3>1. o # j /\ job'[o] = job[o]
      BY <1>3, <1>4, <2>2
    <3>2. job[o].edge \in EdgeIds
      BY <2>2, <3>1, JobTyped DEF Stages, Linked, RunLinks, LldpLinks, FoundEdges
    <3>3. edges[job[o].edge] # Nil /\ edges'[job[o].edge] # Nil
      BY <2>2, <3>1 DEF TopologyInv, EdgeHeld
    <3>4. edges[job[o].edge].method = "lldp"
      BY <1>5, <2>2, <3>1, <3>2, <3>3
    <3>. QED BY <1>2, <2>2, <3>1, <3>4 DEF LldpInv, LldpFound
  <2>. QED BY <2>1, <2>2 DEF LldpFound
<1>9. ASSUME NEW e \in EdgeIds, edges[e] # Nil, edges[e].method = "lldp"
      PROVE  edges'[e].method \in {"lldp", "wwn"} \/ e \in overtaken
  <2>1. CASE edges'[e] = edges[e]
    BY <1>9, <2>1
  <2>2. CASE edges[e].pending.by = j /\ edges[e].pending.method = "arp"
    BY <1>2, <1>9, <2>2 DEF LldpInv, LldpFound
  <2>. QED BY <1>5, <1>9, <2>1, <2>2
<1>. QED BY <1>7, <1>8, <1>9 DEF LldpInv

\* What a step may do to the edges LLDP has found.
LldpStays ==
  \A e \in EdgeIds : edges[e] # Nil /\ edges[e].method = "lldp" =>
    edges'[e].method \in {"lldp", "wwn"} \/ e \in overtaken

LEMMA LldpStepHolds ==
  TopologyInv /\ LldpInv /\ [TopologyNext]_topologyVars => LldpInv' /\ LldpStays
<1>. SUFFICES ASSUME TopologyInv, LldpInv, [TopologyNext]_topologyVars PROVE LldpInv' /\ LldpStays
  OBVIOUS
<1>1. TopologyInv'
  BY TopologyStepHolds
<1>2. UNCHANGED edges => LldpStays
  BY DEF LldpStays
<1>3. ASSUME NEW j \in Jobs, InsertEdge(j) \/ UpdateEdge(j) \/ Commit(j) \/ JobFails(j)
      PROVE  LldpInv' /\ LldpStays
  BY <1>1, <1>3, InsertLldp, UpdateLldp, ClosesLldp DEF LldpStays
<1>4. ASSUME NEW j \in Jobs, GraphStep(j) PROVE LldpInv' /\ LldpStays
  BY <1>2, <1>3, <1>4, StartsLldp, LooksLldp, ScreensLldp DEF GraphStep, ScreenStep, StartStep
<1>5. CASE UNCHANGED topologyVars
  BY <1>2, <1>5, LldpUntouched DEF topologyVars, graphVars
<1>. QED BY <1>2, <1>3, <1>4, <1>5, ScreensLldp, StartsLldp DEF TopologyNext, ScreenStep, StartStep

LEMMA LldpInitHolds == TopologyInit => LldpInv
<1>. SUFFICES ASSUME TopologyInit PROVE LldpInv
  OBVIOUS
<1>1. \A j \in Jobs : job[j].at # "write"
  BY DEF TopologyInit, NoJob
<1>. QED BY <1>1 DEF TopologyInit, LldpInv, Owned, LldpFound

\* For any devices, rows and writers at the same time: what LLDP has found is not taken
\* back by a reading of MAC tables, and is at most confirmed as Fibre Channel, unless LLDP
\* reported it while a run, which had looked before, was about to write it.
THEOREM TopologyKeepsLldp == TopologySpec => LldpKept
<1>1. DeskInit /\ TopologyInit => TopologyInv /\ LldpInv
  BY TopologyInitHolds, LldpInitHolds
<1>2. TopologyInv /\ LldpInv /\ [TopologyNext]_<<topologyVars, deskVars>>
        => (TopologyInv /\ LldpInv)' /\ [LldpStays]_<<topologyVars, deskVars>>
  BY TopologyStepHolds, LldpStepHolds
<1>3. TopologySpec => [][LldpStays]_<<topologyVars, deskVars>>
  BY <1>1, <1>2, PTL DEF TopologySpec
<1>. QED BY <1>3 DEF LldpKept, LldpStays

-----------------------------------------------------------------------------
(* What the tables refer to: an edge has two nodes for as long as it is    *)
(* there, a WWN is known once to a device, the panel lists known devices.  *)

\* A node that is there for whoever works as by, 0 for everybody.
EndSeen(n, by) == n \in NodeIds /\ nodes[n] # Nil /\ nodes[n].by \in {0, by}
JobEnds(c, j) == /\ c.at \in {"to", "addTo", "edge", "write"} => EndSeen(c.from, Owner(j))
                 /\ c.at \in {"edge", "write"} => EndSeen(c.to, Owner(j))
NodesOwned == \A n \in NodeIds : nodes[n] # Nil /\ nodes[n].by # 0 => RunOwns(nodes[n].by)
EdgesEnded == \A e \in EdgeIds : edges[e] # Nil =>
                EndSeen(edges[e].from, edges[e].by) /\ EndSeen(edges[e].to, edges[e].by)
EndsInv == NodesOwned /\ EdgesEnded /\ \A j \in Jobs : JobEnds(job[j], j)

\* A step of one job that takes no row away.
LEMMA EndsMove ==
  ASSUME TopologyInv, EndsInv, NEW j \in Jobs, NEW new, job' = [job EXCEPT ![j] = new],
         job[j] \in RunLinks => new \in RunLinks,
         \A n \in NodeIds : nodes[n] # Nil => nodes'[n] # Nil /\ nodes'[n].by = nodes[n].by,
         \A n \in NodeIds : nodes[n] = Nil /\ nodes'[n] # Nil /\ nodes'[n].by # 0 =>
           nodes'[n].by = j /\ RunOwns(j),
         \A e \in EdgeIds : edges'[e] # Nil =>
           EndSeen(edges'[e].from, edges'[e].by) /\ EndSeen(edges'[e].to, edges'[e].by),
         JobEnds(new, j)'
  PROVE  EndsInv'
<1>1. job'[j] = new /\ \A o \in Jobs \ {j} : job'[o] = job[o]
  BY DEF TopologyInv, TopologyTyped, JobsTyped
<1>2. \A o : RunOwns(o) => RunOwns(o)'
  BY <1>1 DEF RunOwns
<1>3. \A n, by : EndSeen(n, by) => EndSeen(n, by)'
  BY DEF EndSeen
<1>4. NodesOwned'
  <2>. SUFFICES ASSUME NEW n \in NodeIds, nodes'[n] # Nil, nodes'[n].by # 0
                PROVE  RunOwns(nodes[n].by)'
    BY DEF NodesOwned
  <2>1. CASE nodes[n] # Nil
    BY <1>2, <2>1 DEF EndsInv, NodesOwned, RunOwns
  <2>2. CASE nodes[n] = Nil
    BY <1>2, <2>2 DEF RunOwns
  <2>. QED BY <2>1, <2>2
<1>5. EdgesEnded'
  <2>. SUFFICES ASSUME NEW e \in EdgeIds, edges'[e] # Nil
                PROVE  EndSeen(edges[e].from, edges[e].by)' /\ EndSeen(edges[e].to, edges[e].by)'
    BY DEF EdgesEnded
  <2>1. EndSeen(edges'[e].from, edges'[e].by) /\ EndSeen(edges'[e].to, edges'[e].by)
    OBVIOUS
  <2>. QED BY <2>1 DEF EndSeen
<1>6. \A o \in Jobs : JobEnds(job[o], o)'
  <2>. SUFFICES ASSUME NEW o \in Jobs PROVE JobEnds(job[o], o)'
    OBVIOUS
  <2>1. CASE o = j
    BY <1>1, <2>1 DEF JobEnds, Owner
  <2>2. CASE o # j
    <3>1. job'[o] = job[o] /\ Owner(o)' = Owner(o)
      BY <1>1, <2>2 DEF Owner
    <3>2. JobEnds(job[o], o)
      BY DEF EndsInv
    <3>. QED BY <1>3, <3>1, <3>2 DEF JobEnds
  <2>. QED BY <2>1, <2>2
<1>. QED BY <1>4, <1>5, <1>6 DEF EndsInv

LEMMA RestingEnds ==
  ASSUME NEW c, NEW j, c.at \notin {"to", "addTo", "edge", "write"}
  PROVE  JobEnds(c, j) /\ JobEnds(c, j)'
  BY DEF JobEnds

LEMMA ScreensEnds == ASSUME TopologyInv, EndsInv, ScreenStep \/ \E j \in Jobs : StartStep(j) PROVE EndsInv'
<1>1. /\ \A n \in NodeIds : /\ nodes'[n] = Nil <=> nodes[n] = Nil
                            /\ nodes'[n].by = nodes[n].by
      /\ UNCHANGED edges
  BY ScreensMove, StartsMove DEF graphVars
<1>2. CASE UNCHANGED job
  <2>1. \A n, by : EndSeen(n, by) => EndSeen(n, by)'
    BY <1>1 DEF EndSeen
  <2>2. \A c, j : JobEnds(c, j) => JobEnds(c, j)'
    BY <1>2, <2>1 DEF JobEnds, Owner
  <2>. QED BY <1>1, <1>2, <2>1, <2>2 DEF EndsInv, NodesOwned, EdgesEnded, RunOwns
<1>3. ASSUME NEW j \in Jobs, NEW new, job' = [job EXCEPT ![j] = new],
             job[j] \in RunLinks => new \in RunLinks, new.at \notin {"to", "addTo", "edge", "write"}
      PROVE  EndsInv'
  <2>1. JobEnds(new, j)'
    BY <1>3, RestingEnds
  <2>2. \A e \in EdgeIds : edges'[e] # Nil =>
          EndSeen(edges'[e].from, edges'[e].by) /\ EndSeen(edges'[e].to, edges'[e].by)
    BY <1>1 DEF EndsInv, EdgesEnded
  <2>. QED BY <1>1, <1>3, <2>1, <2>2, EndsMove
<1>4. CASE ScreenStep
  <2>1. \A new : new.at \in ScreenStages => new.at \notin {"to", "addTo", "edge", "write"}
    BY DEF ScreenStages
  <2>. QED BY <1>2, <1>3, <1>4, <2>1, ScreensMove
<1>5. ASSUME NEW j \in Jobs, StartStep(j) PROVE EndsInv'
  <2>1. PICK new : /\ job' = [job EXCEPT ![j] = new]
                   /\ new.at \in {"readSwitch", "readTarget", "log", "pick", "from"}
                   /\ job[j] \in RunLinks => new \in RunLinks
    BY <1>5, StartsMove DEF Began
  <2>. QED BY <1>3, <2>1
<1>. QED BY <1>4, <1>5

\* A link at another stage, with a node for one of its ends.
WithEnd(c, at, end, n) == [c EXCEPT !.at = at, ![end] = n]

LEMMA LinkGets ==
  ASSUME NEW c \in Linked, NEW at \in Stages, NEW n \in Found, NEW end \in {"from", "to"}, NEW d,
         d = WithEnd(c, at, end, n)
  PROVE  /\ d.at = at /\ d.kind = c.kind /\ (c \in RunLinks => d \in RunLinks)
         /\ end = "from" => d.from = n
         /\ end = "to" => d.to = n /\ d.from = c.from
<1>1. CASE c \in RunLinks /\ end = "from"
  BY <1>1 DEF WithEnd, RunLinks, Stages
<1>2. CASE c \in RunLinks /\ end = "to"
  BY <1>2 DEF WithEnd, RunLinks, Stages
<1>3. CASE c \in LldpLinks /\ end = "from"
  BY <1>3 DEF WithEnd, LldpLinks, RunLinks, Stages
<1>4. CASE c \in LldpLinks /\ end = "to"
  BY <1>4 DEF WithEnd, LldpLinks, RunLinks, Stages
<1>. QED BY <1>1, <1>2, <1>3, <1>4 DEF Linked

LEMMA OwnerKept ==
  ASSUME TopologyInv, NEW j \in Jobs, NEW new, job' = [job EXCEPT ![j] = new], new.kind = job[j].kind
  PROVE  Owner(j)' = Owner(j)
  BY DEF Owner, TopologyInv, TopologyTyped, JobsTyped

LEMMA LooksEnds ==
  ASSUME TopologyInv, EndsInv, NEW j \in Jobs,
         LookEdge(j) \/ \E end \in {"from", "to"} : LookNode(j, end) \/ AddNode(j, end)
  PROVE  EndsInv'
<1>. DEFINE c == job[j]
<1>0. c \in Linked /\ UNCHANGED edges
  BY JobTyped DEF LookEdge, LookNode, AddNode, Stages, graphVars
<1>1. JobEnds(c, j)
  BY DEF EndsInv
<1>2. \A e \in EdgeIds : edges'[e] # Nil =>
        EndSeen(edges'[e].from, edges'[e].by) /\ EndSeen(edges'[e].to, edges'[e].by)
  BY <1>0 DEF EndsInv, EdgesEnded
<1>3. ASSUME NEW n \in NodeIds, nodes[n] # Nil, nodes[n].by \in {0, j}
      PROVE  EndSeen(n, Owner(j))
  <2>1. nodes[n].by = 0 \/ RunOwns(j)
    BY <1>3 DEF EndsInv, NodesOwned
  <2>2. RunOwns(j) => Owner(j) = j
    BY DEF RunOwns, RunLinks, Owner
  <2>. QED BY <1>3, <2>1, <2>2 DEF EndSeen
<1>4. ASSUME NEW end \in {"from", "to"}, LookNode(j, end) PROVE EndsInv'
  <2>0. c.at = end /\ UNCHANGED graphVars
    BY <1>4 DEF LookNode
  <2>1. CASE Graph(j, [c EXCEPT !.at = IF end = "from" THEN "addFrom" ELSE "addTo"])
    <3>1. PICK at \in Stages : at = IF end = "from" THEN "addFrom" ELSE "addTo"
      BY StageNames
    <3>2. PICK new : new = [c EXCEPT !.at = at]
      OBVIOUS
    <3>3. job' = [job EXCEPT ![j] = new]
      BY <2>1, <3>1, <3>2 DEF Graph
    <3>4. new.at = at /\ new.from = c.from /\ new.kind = c.kind
      BY <1>0, <3>2, LinkGoes DEF Advanced
    <3>5. c \in RunLinks => new \in RunLinks
      BY <3>2 DEF RunLinks
    <3>6. JobEnds(new, j)'
      BY <1>1, <2>0, <3>1, <3>3, <3>4, OwnerKept DEF JobEnds, EndSeen, graphVars
    <3>. QED BY <1>2, <2>0, <3>3, <3>5, <3>6, EndsMove DEF graphVars
  <2>2. ASSUME NEW n \in NodeIds, Visible(nodes[n], j),
               Graph(j, [c EXCEPT !.at = IF end = "from" THEN "to" ELSE "edge", ![end] = n])
        PROVE  EndsInv'
    <3>1. PICK at \in Stages : at = IF end = "from" THEN "to" ELSE "edge"
      BY StageNames
    <3>2. PICK new : new = WithEnd(c, at, end, n)
      OBVIOUS
    <3>3. job' = [job EXCEPT ![j] = new]
      BY <2>2, <3>1, <3>2 DEF Graph, WithEnd
    <3>4. n \in Found
      BY DEF Found
    <3>5. /\ new.at = at /\ new.kind = c.kind /\ (c \in RunLinks => new \in RunLinks)
          /\ end = "from" => new.from = n
          /\ end = "to" => new.to = n /\ new.from = c.from
      BY <1>0, <3>2, <3>4, LinkGets
    <3>6. EndSeen(n, Owner(j))
      BY <1>3, <2>2 DEF Visible
    <3>7. JobEnds(new, j)
      BY <1>1, <2>0, <3>1, <3>5, <3>6 DEF JobEnds
    <3>8. JobEnds(new, j)'
      BY <2>0, <3>3, <3>5, <3>7, OwnerKept DEF JobEnds, EndSeen, graphVars
    <3>. QED BY <1>2, <2>0, <3>3, <3>5, <3>8, EndsMove DEF graphVars
  <2>. QED BY <1>4, <2>1, <2>2 DEF LookNode
<1>5. ASSUME NEW end \in {"from", "to"}, AddNode(j, end) PROVE EndsInv'
  <2>. DEFINE row == [asset |-> c.link[end], layer |-> c.link.layer, pos |-> 0, by |-> Owner(j)]
  <2>1. PICK n \in NodeIds :
          /\ nodes[n] = Nil /\ nodes' = [nodes EXCEPT ![n] = row]
          /\ Graph(j, [c EXCEPT !.at = IF end = "from" THEN "to" ELSE "edge", ![end] = n])
    BY <1>5 DEF AddNode, Min1
  <2>2. c.at = IF end = "from" THEN "addFrom" ELSE "addTo"
    BY <1>5 DEF AddNode
  <2>3. PICK at \in Stages : at = IF end = "from" THEN "to" ELSE "edge"
    BY StageNames
  <2>4. PICK new : new = WithEnd(c, at, end, n)
    OBVIOUS
  <2>5. job' = [job EXCEPT ![j] = new]
    BY <2>1, <2>3, <2>4 DEF Graph, WithEnd
  <2>6. n \in Found
    BY DEF Found
  <2>7. /\ new.at = at /\ new.kind = c.kind /\ (c \in RunLinks => new \in RunLinks)
        /\ end = "from" => new.from = n
        /\ end = "to" => new.to = n /\ new.from = c.from
    BY <1>0, <2>4, <2>6, LinkGets
  <2>8. nodes'[n] = row /\ row.by = Owner(j) /\ \A m \in NodeIds \ {n} : nodes'[m] = nodes[m]
    BY <2>1, MapPageTyped
  <2>9. nodes'[n] # Nil
    BY <1>0, <2>2, <2>8, OwnerTyped, JobTyped, TopologyAssumption
       DEF NodeRows, LinkRows, Equipped, Stages
  <2>10. Owner(j) # 0 => Owner(j) = j /\ RunOwns(j)
    BY <1>0, LldpJobs
  <2>11. Owner(j)' = Owner(j)
    BY <2>5, <2>7, OwnerKept
  <2>12. EndSeen(n, Owner(j))'
    BY <2>8, <2>9, <2>11 DEF EndSeen
  <2>13. \A m : EndSeen(m, Owner(j)) => EndSeen(m, Owner(j))'
    BY <2>1, <2>8, <2>11 DEF EndSeen
  <2>14. JobEnds(new, j)'
    BY <1>1, <2>2, <2>3, <2>7, <2>12, <2>13 DEF JobEnds
  <2>. QED BY <1>2, <2>1, <2>5, <2>7, <2>8, <2>10, <2>14, EndsMove
<1>6. CASE LookEdge(j)
  <2>1. PICK at \in {"write", "pick"}, e \in FoundEdges :
          /\ job' = [job EXCEPT ![j] = [c EXCEPT !.at = at, !.edge = e]]
          /\ c.at = "edge" /\ (at = "pick" => c.method = "arp") /\ UNCHANGED graphVars
    BY <1>6 DEF LookEdge, Graph, FoundEdges, Between, KeepsLldp
  <2>2. PICK new : new = [c EXCEPT !.at = at, !.edge = e]
    OBVIOUS
  <2>3. new.at = at /\ new.kind = c.kind /\ new.from = c.from /\ new.to = c.to
    BY <1>0, <2>2 DEF Linked, RunLinks, LldpLinks
  <2>4. c \in RunLinks => new \in RunLinks
    BY <2>2 DEF RunLinks, Stages
  <2>5. job' = [job EXCEPT ![j] = new]
    BY <2>1, <2>2
  <2>6. JobEnds(new, j)'
    BY <1>1, <2>1, <2>3, <2>5, OwnerKept DEF JobEnds, EndSeen, graphVars
  <2>. QED BY <1>2, <2>1, <2>4, <2>5, <2>6, EndsMove DEF graphVars
<1>. QED BY <1>4, <1>5, <1>6

LEMMA WritesEnds ==
  ASSUME TopologyInv, EndsInv, NEW j \in Jobs, InsertEdge(j) \/ UpdateEdge(j)
  PROVE  EndsInv'
<1>. DEFINE c == job[j]
<1>1. c \in Linked /\ c.at = "write" /\ c.edge \in FoundEdges /\ c.method \in Methods
  BY JobTyped DEF InsertEdge, UpdateEdge, Stages, Linked, RunLinks, LldpLinks, Methods
<1>2. EndSeen(c.from, Owner(j)) /\ EndSeen(c.to, Owner(j))
  BY <1>1 DEF EndsInv, JobEnds
<1>3. PICK new : /\ new = AfterEdge(c) /\ job' = [job EXCEPT ![j] = new]
                 /\ UNCHANGED nodes
  BY DEF InsertEdge, UpdateEdge, Graph
<1>4. new.at \in {"idle", "pick"} /\ (c \in RunLinks => new \in RunLinks)
  <2>1. c.kind = "lldp" => new.at = "idle"
    BY <1>3 DEF AfterEdge, NoJob
  <2>2. c \in RunLinks => new.at = "pick"
    BY <1>3 DEF AfterEdge, RunLinks
  <2>. QED BY <1>1, <1>3, <2>1, <2>2, LinkStages, AfterEdgeLinks
<1>5. JobEnds(new, j)'
  BY <1>4, RestingEnds
<1>6. CASE InsertEdge(j)
  <2>1. PICK e \in EdgeIds :
          edges' = [edges EXCEPT ![e] =
            [from |-> c.from, to |-> c.to, layer |-> c.link.layer, method |-> c.method,
             by |-> Owner(j), pending |-> NoChange]]
    BY <1>6 DEF InsertEdge
  <2>2. \A f \in EdgeIds : edges'[f] # Nil =>
          EndSeen(edges'[f].from, edges'[f].by) /\ EndSeen(edges'[f].to, edges'[f].by)
    BY <1>2, <2>1, MapPageTyped DEF EndsInv, EdgesEnded
  <2>. QED BY <1>3, <1>4, <1>5, <2>2, EndsMove
<1>7. CASE UpdateEdge(j)
  <2>. DEFINE row == edges[c.edge]
  <2>1. c.edge \in EdgeIds /\ row \in EdgeRows /\ row # Nil
    BY <1>1, <1>7, MapPageTyped DEF UpdateEdge, TopologyInv, EdgeHeld, FoundEdges
  <2>2. PICK upd : upd = IF c.kind = "lldp" \/ row.by = j THEN [row EXCEPT !.method = c.method]
                         ELSE [row EXCEPT !.pending = [by |-> j, method |-> c.method]]
    OBVIOUS
  <2>3. edges' = [edges EXCEPT ![c.edge] = upd]
    BY <1>7, <2>2 DEF UpdateEdge
  <2>4. upd.from = row.from /\ upd.to = row.to /\ upd.by = row.by
    BY <2>1, <2>2 DEF EdgeRows
  <2>5. \A f \in EdgeIds : edges'[f] # Nil =>
          EndSeen(edges'[f].from, edges'[f].by) /\ EndSeen(edges'[f].to, edges'[f].by)
    BY <2>1, <2>3, <2>4, MapPageTyped DEF EndsInv, EdgesEnded
  <2>. QED BY <1>3, <1>4, <1>5, <2>5, EndsMove
<1>. QED BY <1>6, <1>7
\* Whose rows the others are, when a job is over.
LEMMA CloseOwners ==
  ASSUME TopologyInv, NEW j \in Jobs, NEW keep \in BOOLEAN, Close(j, keep)
  PROVE  /\ \A n \in NodeIds : nodes[n] = Nil => nodes'[n] = Nil
         /\ \A n \in NodeIds : nodes[n] # Nil /\ nodes[n].by # j => nodes'[n] = nodes[n]
         /\ \A n \in NodeIds : nodes[n] # Nil /\ nodes[n].by = j =>
              IF keep THEN nodes'[n] # Nil /\ nodes'[n].by = 0 ELSE nodes'[n] = Nil
         /\ \A e \in EdgeIds : edges'[e] # Nil /\ edges[e].by = j => keep /\ edges'[e].by = 0
         /\ \A e \in EdgeIds : edges'[e] # Nil /\ edges[e].by # j => edges'[e].by = edges[e].by
<1>1. /\ nodes \in [NodeIds -> NodeRows \cup {Nil}] /\ edges \in [EdgeIds -> EdgeRows \cup {Nil}]
      /\ Nil \notin NodeRows /\ Nil \notin EdgeRows
  BY MapPageTyped, TopologyAssumption
<1>2. ASSUME NEW n \in NodeIds, nodes[n] = Nil \/ nodes[n].by # j PROVE nodes'[n] = nodes[n]
  BY <1>2 DEF Close, CloseNodes, Mine
<1>3. ASSUME NEW n \in NodeIds, nodes[n] # Nil, nodes[n].by = j
      PROVE  IF keep THEN nodes'[n] # Nil /\ nodes'[n].by = 0 ELSE nodes'[n] = Nil
  <2>1. PICK row : row = [nodes[n] EXCEPT !.by = 0]
    OBVIOUS
  <2>2. row \in NodeRows /\ row.by = 0
    BY <1>1, <1>3, <2>1 DEF NodeRows
  <2>3. nodes'[n] = IF keep THEN row ELSE Nil
    BY <1>3, <2>1 DEF Close, CloseNodes, Mine
  <2>. QED BY <1>1, <2>2, <2>3
<1>4. ASSUME NEW e \in EdgeIds, edges'[e] # Nil
      PROVE  /\ edges[e].by = j => keep /\ edges'[e].by = 0
             /\ edges[e].by # j => edges'[e].by = edges[e].by
  <2>1. PICK seen : seen = [edges[e] EXCEPT !.by = 0]
    OBVIOUS
  <2>2. PICK done : done = [edges[e] EXCEPT !.pending = NoChange,
                             !.method = IF keep THEN edges[e].pending.method ELSE edges[e].method]
    OBVIOUS
  <2>3. edges'[e] = IF edges[e] = Nil THEN Nil
                    ELSE IF Mine(edges[e], j) THEN IF keep THEN seen ELSE Nil
                    ELSE IF edges[e].pending.by # j THEN edges[e] ELSE done
    BY <2>1, <2>2 DEF Close, CloseEdges
  <2>4. edges[e] \in EdgeRows
    BY <1>1, <1>4, <2>3
  <2>5. seen.by = 0 /\ done.by = edges[e].by
    BY <2>1, <2>2, <2>4 DEF EdgeRows
  <2>6. CASE Mine(edges[e], j)
    BY <1>1, <1>4, <2>3, <2>4, <2>5, <2>6 DEF Mine
  <2>7. CASE ~Mine(edges[e], j)
    BY <1>1, <2>3, <2>4, <2>5, <2>7 DEF Mine
  <2>. QED BY <2>6, <2>7
<1>. QED BY <1>2, <1>3, <1>4

\* The rows of a run become everybody's together, or go together.
LEMMA ClosesEnds ==
  ASSUME TopologyInv, EndsInv, NEW j \in Jobs, Commit(j) \/ JobFails(j)
  PROVE  EndsInv'
<1>1. PICK keep \in BOOLEAN : \E new : /\ Close(j, keep) /\ job' = [job EXCEPT ![j] = new]
                                      /\ new.at \in {"readSwitch", "log", "idle"}
  <2>1. CASE Commit(j)
    <3>1. PICK at \in {"readSwitch", "log"} : at = IF job[j].method = "arp" THEN "readSwitch" ELSE "log"
      OBVIOUS
    <3>2. PICK new : new = [kind |-> "run", at |-> at, dry |-> FALSE]
      OBVIOUS
    <3>3. Close(j, TRUE) /\ job' = [job EXCEPT ![j] = new] /\ new.at = at
      BY <2>1, <3>1, <3>2 DEF Commit, Graph
    <3>. QED BY <3>3
  <2>2. CASE JobFails(j)
    <3>1. Close(j, FALSE) /\ job' = [job EXCEPT ![j] = NoJob] /\ NoJob.at = "idle"
      BY <2>2 DEF JobFails, NoJob
    <3>. QED BY <3>1
  <2>. QED BY <2>1, <2>2
<1>0. PICK new : /\ Close(j, keep) /\ job' = [job EXCEPT ![j] = new]
                 /\ new.at \in {"readSwitch", "log", "idle"}
  BY <1>1
<1>2. job'[j] = new /\ \A o \in Jobs \ {j} : job'[o] = job[o]
  BY <1>0 DEF TopologyInv, TopologyTyped, JobsTyped
<1>3. 0 \notin Jobs
  BY TopologyAssumption
<1>4. ASSUME NEW n, NEW by, by # j, EndSeen(n, by) PROVE EndSeen(n, by)'
  <2>1. CASE nodes[n].by # j
    BY <1>0, <1>4, <2>1, CloseOwners DEF EndSeen
  <2>2. CASE nodes[n].by = j
    BY <1>3, <1>4, <2>2 DEF EndSeen
  <2>. QED BY <2>1, <2>2
<1>5. ASSUME NEW n, EndSeen(n, j), keep PROVE EndSeen(n, 0)'
  <2>1. CASE nodes[n].by # j
    BY <1>0, <1>5, <2>1, CloseOwners DEF EndSeen
  <2>2. CASE nodes[n].by = j
    BY <1>0, <1>5, <2>2, CloseOwners DEF EndSeen
  <2>. QED BY <2>1, <2>2
<1>6. NodesOwned'
  <2>. SUFFICES ASSUME NEW n \in NodeIds, nodes'[n] # Nil, nodes'[n].by # 0
                PROVE  RunOwns(nodes[n].by)'
    BY DEF NodesOwned
  <2>1. nodes[n] # Nil /\ nodes[n].by # j /\ nodes'[n] = nodes[n]
    BY <1>0, CloseOwners
  <2>2. RunOwns(nodes[n].by)
    BY <2>1 DEF EndsInv, NodesOwned
  <2>. QED BY <1>2, <2>1, <2>2 DEF RunOwns
<1>7. EdgesEnded'
  <2>. SUFFICES ASSUME NEW e \in EdgeIds, edges'[e] # Nil
                PROVE  EndSeen(edges[e].from, edges[e].by)' /\ EndSeen(edges[e].to, edges[e].by)'
    BY DEF EdgesEnded
  <2>1. edges[e] # Nil /\ edges'[e].from = edges[e].from /\ edges'[e].to = edges[e].to
    BY <1>0, CloseRows
  <2>2. PICK from, to, by : from = edges[e].from /\ to = edges[e].to /\ by = edges[e].by
    OBVIOUS
  <2>3. EndSeen(from, by) /\ EndSeen(to, by)
    BY <2>1, <2>2 DEF EndsInv, EdgesEnded
  <2>4. CASE by = j
    <3>1. keep /\ edges'[e].by = 0
      BY <1>0, <2>2, <2>4, CloseOwners
    <3>2. EndSeen(from, 0)' /\ EndSeen(to, 0)'
      BY <1>5, <2>3, <2>4, <3>1
    <3>. QED BY <2>1, <2>2, <3>1, <3>2 DEF EndSeen
  <2>5. CASE by # j
    <3>1. EndSeen(from, by)' /\ EndSeen(to, by)' /\ edges'[e].by = by
      BY <1>0, <1>4, <2>2, <2>3, <2>5, CloseOwners
    <3>. QED BY <2>1, <2>2, <3>1 DEF EndSeen
  <2>. QED BY <2>4, <2>5
<1>8. ASSUME NEW o \in Jobs PROVE JobEnds(job[o], o)'
  <2>1. CASE o = j
    BY <1>0, <1>2, <2>1 DEF JobEnds
  <2>2. CASE o # j
    <3>1. job'[o] = job[o] /\ Owner(o)' = Owner(o) /\ Owner(o) # j
      BY <1>2, <1>3, <2>2 DEF Owner
    <3>2. JobEnds(job[o], o)
      BY DEF EndsInv
    <3>3. PICK from, to, by : from = job[o].from /\ to = job[o].to /\ by = Owner(o)
      OBVIOUS
    <3>4. /\ EndSeen(from, by) => EndSeen(from, by)'
          /\ EndSeen(to, by) => EndSeen(to, by)'
      BY <1>4, <3>1, <3>3
    <3>. QED BY <3>1, <3>2, <3>3, <3>4 DEF JobEnds, EndSeen
  <2>. QED BY <2>1, <2>2
<1>. QED BY <1>6, <1>7, <1>8 DEF EndsInv

LEMMA EndsStepHolds == TopologyInv /\ EndsInv /\ [TopologyNext]_topologyVars => EndsInv'
<1>. SUFFICES ASSUME TopologyInv, EndsInv, [TopologyNext]_topologyVars PROVE EndsInv'
  OBVIOUS
<1>0. CASE UNCHANGED topologyVars
  BY <1>0 DEF topologyVars, graphVars, EndsInv, NodesOwned, EdgesEnded, EndSeen, JobEnds, RunOwns, Owner
<1>2. ASSUME NEW j \in Jobs, GraphStep(j) PROVE EndsInv'
  BY <1>2, ScreensEnds, LooksEnds, WritesEnds, ClosesEnds DEF GraphStep, ScreenStep, StartStep
<1>. QED BY <1>0, <1>2, ScreensEnds, ClosesEnds DEF TopologyNext, ScreenStep, StartStep

LEMMA EndsInitHolds == TopologyInit => EndsInv
<1>. SUFFICES ASSUME TopologyInit PROVE EndsInv
  OBVIOUS
<1>0. \A j \in Jobs : job[j].at = "idle"
  BY DEF TopologyInit, NoJob
<1>. QED BY <1>0 DEF TopologyInit, EndsInv, NodesOwned, EdgesEnded, JobEnds

\* A WWN is known once to a device; the panel lists, and has chosen, what is known.
WwnSingle == \A w, x \in wwnTable : w.dev = x.dev /\ w.wwn = x.wwn => w = x
PanelKnown(p) == p.devices \subseteq known /\ p.asset \in known \cup {Nil}
ListsInv == WwnSingle /\ PanelKnown(panel)

\* What the panel shows after a step that takes no device away.
LEMMA StatusKnown ==
  ASSUME TopologyInv, ListsInv, known \subseteq known', known' \in SUBSET Switches
  PROVE  \A p \in PanelForms : p.asset \in known' \cup {Nil} =>
           /\ Status(p).devices \subseteq known' /\ Status(p).asset = p.asset
           /\ Status(p) \in PanelForms
  BY PanelTyped DEF PanelForms, Status

LEMMA TablesLists ==
  ASSUME TopologyInv, ListsInv, UNCHANGED tableVars,
         panel'.devices = panel.devices, panel'.asset \in known \cup {Nil}
  PROVE  ListsInv'
  BY DEF ListsInv, WwnSingle, PanelKnown, tableVars

LEMMA ListsStepHolds == TopologyInv /\ ListsInv /\ [TopologyNext]_topologyVars => ListsInv'
<1>. SUFFICES ASSUME TopologyInv, ListsInv, [TopologyNext]_topologyVars PROVE ListsInv'
  OBVIOUS
<1>0. /\ panel \in PanelForms /\ known \in SUBSET Switches /\ wwnTable \in SUBSET WwnRows
      /\ panel.devices \subseteq known /\ panel.asset \in known \cup {Nil} /\ WwnSingle
  BY PanelTyped DEF ListsInv, PanelKnown
<1>1. CASE UNCHANGED <<tableVars, panel>>
  BY <1>0, <1>1, TablesLists DEF tableVars
<1>2. ASSUME NEW flags \in PanelForms, panel' = flags, UNCHANGED tableVars,
             flags.devices = panel.devices, flags.asset \in known \cup {Nil}
      PROVE  ListsInv'
  BY <1>2, TablesLists
<1>3. ASSUME NEW p \in PanelForms, p.devices \subseteq known', p.asset \in known' \cup {Nil},
             panel' = p, wwnTable' = wwnTable
      PROVE  ListsInv'
  BY <1>0, <1>3 DEF ListsInv, WwnSingle, PanelKnown
<1>4. CASE TogglePanel
  <2>1. PICK shut, opened : /\ shut = [panel EXCEPT !.open = FALSE]
                            /\ opened = [panel EXCEPT !.open = TRUE]
    OBVIOUS
  <2>2. /\ shut \in PanelForms /\ shut.devices = panel.devices /\ shut.asset = panel.asset
        /\ opened \in PanelForms /\ opened.asset = panel.asset
    BY <1>0, <2>1 DEF PanelForms
  <2>3. UNCHANGED tableVars /\ panel' = IF panel.open THEN shut ELSE Status(opened)
    BY <1>4, <2>1 DEF TogglePanel, Panel
  <2>4. known' = known /\ wwnTable' = wwnTable
    BY <2>3 DEF tableVars
  <2>5. /\ Status(opened) \in PanelForms /\ Status(opened).devices \subseteq known'
        /\ Status(opened).asset = panel.asset
    BY <1>0, <2>2, <2>4, StatusKnown
  <2>. QED BY <1>0, <1>2, <1>3, <2>2, <2>3, <2>4, <2>5
<1>5. ASSUME NEW d \in Switches, PickDevice(d) PROVE ListsInv'
  <2>1. PICK p : p = [panel EXCEPT !.asset = d]
    OBVIOUS
  <2>2. p \in PanelForms /\ p.devices = panel.devices /\ p.asset = d
    BY <1>0, <2>1 DEF PanelForms
  <2>3. panel' = p /\ UNCHANGED tableVars /\ d \in known
    BY <1>0, <1>5, <2>1 DEF PickDevice, Panel
  <2>. QED BY <1>2, <2>2, <2>3
<1>6. ASSUME NEW d \in Switches, CreateDevice(d) PROVE ListsInv'
  <2>1. /\ known' = known \cup {d} /\ wwnTable' = wwnTable
        /\ panel' = [Status(panel) EXCEPT !.asset = d]
    BY <1>6 DEF CreateDevice, Panel
  <2>2. PICK s : s = Status(panel)
    OBVIOUS
  <2>3. s \in PanelForms /\ s.devices \subseteq known'
    BY <1>0, <2>1, <2>2, StatusKnown
  <2>4. PICK p : p = [s EXCEPT !.asset = d]
    OBVIOUS
  <2>5. p \in PanelForms /\ p.devices = s.devices /\ p.asset = d
    BY <2>3, <2>4 DEF PanelForms
  <2>6. panel' = p
    BY <2>1, <2>2, <2>4
  <2>7. p.devices \subseteq known' /\ p.asset \in known' \cup {Nil}
    BY <2>1, <2>3, <2>5
  <2>. QED BY <1>3, <2>1, <2>5, <2>6, <2>7
<1>7. ASSUME NEW d \in Switches, HandleDelete(d) PROVE ListsInv'
  <2>1. known' = known /\ wwnTable' = wwnTable /\ panel' = Status(panel)
    BY <1>7 DEF HandleDelete, Panel
  <2>2. PICK s : s = Status(panel)
    OBVIOUS
  <2>3. s \in PanelForms /\ s.devices \subseteq known' /\ s.asset = panel.asset
    BY <1>0, <2>1, <2>2, StatusKnown
  <2>. QED BY <1>0, <1>3, <2>1, <2>2, <2>3
<1>8. ASSUME NEW text \in Texts, NEW v \in SwitchVendors, DoParse(text, v) PROVE ListsInv'
  <2>1. PICK p : p = [panel EXCEPT !.parsed = Parsed(text, v)]
    OBVIOUS
  <2>2. p \in PanelForms /\ p.devices = panel.devices /\ p.asset = panel.asset
    BY <1>0, <2>1, ParsedTyped DEF PanelForms
  <2>3. panel' = p /\ UNCHANGED tableVars
    BY <1>8, <2>1 DEF DoParse, Panel
  <2>. QED BY <1>0, <1>2, <2>2, <2>3
<1>9. ASSUME NEW j \in Jobs, \/ HandleSave(j) \/ RunAnswer(j) \/ JobFails(j)
                             \/ \E dry \in BOOLEAN : HandleRun(j, dry)
      PROVE  ListsInv'
  <2>1. PICK saving, running :
          /\ panel' = [panel EXCEPT !.running = running, !.saving = saving]
          /\ UNCHANGED tableVars
    <3>1. CASE HandleSave(j)
      <4>1. [panel EXCEPT !.saving = TRUE]
              = [panel EXCEPT !.running = panel.running, !.saving = TRUE]
        BY <1>0 DEF PanelForms
      <4>. QED BY <3>1, <4>1 DEF HandleSave, Panel
    <3>2. CASE RunAnswer(j) \/ \E dry \in BOOLEAN : HandleRun(j, dry)
      <4>1. PICK flag : panel' = [panel EXCEPT !.running = flag] /\ UNCHANGED tableVars
        BY <3>2 DEF RunAnswer, HandleRun, Panel
      <4>2. [panel EXCEPT !.running = flag]
              = [panel EXCEPT !.running = flag, !.saving = panel.saving]
        BY <1>0 DEF PanelForms
      <4>. QED BY <4>1, <4>2
    <3>3. CASE JobFails(j)
      BY <3>3 DEF JobFails
    <3>. QED BY <1>9, <3>1, <3>2, <3>3
  <2>2. panel'.devices = panel.devices /\ panel'.asset = panel.asset
    BY <1>0, <2>1 DEF PanelForms
  <2>. QED BY <1>0, <2>1, <2>2, TablesLists
<1>10. ASSUME NEW j \in Jobs, SaveAnswer(j) PROVE ListsInv'
  <2>1. PICK s : s = Status(panel)
    OBVIOUS
  <2>2. UNCHANGED tableVars /\ panel' = [s EXCEPT !.parsed = {}, !.saving = FALSE]
    BY <1>10, <2>1 DEF SaveAnswer, Panel
  <2>3. known' = known /\ wwnTable' = wwnTable
    BY <2>2 DEF tableVars
  <2>4. s \in PanelForms /\ s.devices \subseteq known' /\ s.asset = panel.asset
    BY <1>0, <2>1, <2>3, StatusKnown
  <2>5. PICK p : p = [s EXCEPT !.parsed = {}, !.saving = FALSE]
    OBVIOUS
  <2>6. p \in PanelForms /\ p.devices = s.devices /\ p.asset = s.asset
    BY <2>4, <2>5 DEF PanelForms
  <2>. QED BY <1>0, <1>3, <2>2, <2>3, <2>4, <2>5, <2>6
<1>11. ASSUME NEW j \in Jobs, DeleteRows(j) \/ \E x : UpsertRow(j, x) PROVE ListsInv'
  <2>1. UNCHANGED <<known, panel>>
    BY <1>11 DEF DeleteRows, UpsertRow, screenVars
  <2>2. WwnSingle'
    <3>1. CASE DeleteRows(j)
      <4>1. wwnTable' \subseteq wwnTable
        BY <3>1 DEF DeleteRows
      <4>. QED BY <1>0, <4>1 DEF WwnSingle
    <3>2. ASSUME NEW x, UpsertRow(j, x) PROVE WwnSingle'
      <4>1. PICK dev, wwn, row : /\ dev = job[j].dev /\ wwn = x.of
                                 /\ row = [dev |-> dev, wwn |-> wwn, kind |-> x.kind]
        OBVIOUS
      <4>2. \/ wwnTable' = wwnTable
            \/ wwnTable' = {w \in wwnTable : w.dev # dev \/ w.wwn # wwn} \cup {row}
        BY <3>2, <4>1 DEF UpsertRow
      <4>3. row.dev = dev /\ row.wwn = wwn
        BY <4>1
      <4>. QED BY <1>0, <4>2, <4>3 DEF WwnSingle
    <3>. QED BY <1>11, <3>1, <3>2
  <2>. QED BY <1>0, <2>1, <2>2 DEF ListsInv, PanelKnown
<1>12. ASSUME NEW d \in Switches, NEW g \in Gear, WwnSeen(d, g) PROVE ListsInv'
  <2>1. UNCHANGED <<known, panel>>
    BY <1>12 DEF WwnSeen, screenVars
  <2>2. WwnSingle'
    <3>1. PICK row : row = [dev |-> d, wwn |-> g, kind |-> "switch_port"]
      OBVIOUS
    <3>2. row.dev = d /\ row.wwn = g
      BY <3>1
    <3>3. wwnTable' = wwnTable \cup (IF \E w \in wwnTable : w.dev = d /\ w.wwn = g THEN {}
                                     ELSE {row})
      BY <1>12, <3>1 DEF WwnSeen
    <3>. QED BY <1>0, <3>2, <3>3 DEF WwnSingle
  <2>. QED BY <1>0, <2>1, <2>2 DEF ListsInv, PanelKnown
<1>13. CASE PanelNext
  BY <1>4, <1>5, <1>6, <1>7, <1>8, <1>9, <1>10, <1>11, <1>12, <1>13 DEF PanelNext
<1>14. CASE MapNext
  <2>1. \A j \in Jobs, n \in NodeIds : PlaceNode(j, n) => UNCHANGED <<tableVars, panel>>
    BY DEF PlaceNode, screenVars
  <2>2. \A l \in Layers : OpenLayer(l) => UNCHANGED <<tableVars, panel>>
    BY DEF OpenLayer
  <2>3. ToggleAll \/ AutoLayout => UNCHANGED <<tableVars, panel>>
    BY DEF ToggleAll, AutoLayout, OnPage
  <2>4. \A data : MapArrives(data) => UNCHANGED <<tableVars, panel>>
    BY DEF MapArrives, OnPage
  <2>5. \A n \in NodeIds, p \in Places : DragNode(n, p) => UNCHANGED <<tableVars, panel>>
    BY DEF DragNode, OnPage
  <2>6. \A j \in Jobs : SavePositions(j) \/ PlaceAnswer(j) => UNCHANGED <<tableVars, panel>>
    BY DEF SavePositions, PlaceAnswer, OnPage
  <2>. QED BY <1>1, <1>14, <2>1, <2>2, <2>3, <2>4, <2>5, <2>6 DEF MapNext
<1>15. ASSUME NEW j \in Jobs, \/ GraphStep(j) /\ ~RunAnswer(j)
                              \/ \E x \in job[j].todo : PickLink(j, x)
                              \/ \E d \in Switches, g \in Gear \cup {Stranger} : LldpEvent(j, d, g)
       PROVE  ListsInv'
  <2>1. UNCHANGED <<tableVars, panel>>
    BY <1>15 DEF GraphStep, ReadMacs, ReadSwitchWwns, ReadTargetWwns, LookNode, AddNode, LookEdge,
       InsertEdge, UpdateEdge, Commit, PickLink, LldpEvent, Graph, screenVars
  <2>. QED BY <1>1, <2>1
<1>16. CASE UNCHANGED topologyVars
  BY <1>1, <1>16 DEF topologyVars, screenVars
<1>. QED BY <1>9, <1>13, <1>14, <1>15, <1>16 DEF TopologyNext, GraphStep

LEMMA ListsInitHolds == TopologyInit => ListsInv
<1>. SUFFICES ASSUME TopologyInit PROVE ListsInv
  OBVIOUS
<1>1. wwnTable = {[dev |-> v, wwn |-> v, kind |-> "hba"] : v \in Servers}
  BY DEF TopologyInit
<1>2. WwnSingle
  BY <1>1 DEF WwnSingle
<1>3. panel.devices = {} /\ panel.asset = Nil
  BY DEF TopologyInit, NoPanel
<1>. QED BY <1>2, <1>3 DEF ListsInv, PanelKnown
HistoryTyped == overlapped \in BOOLEAN /\ overtaken \subseteq EdgeIds

LEMMA HistoryStepHolds == TopologyInv /\ HistoryTyped /\ [TopologyNext]_topologyVars => HistoryTyped'
<1>. SUFFICES ASSUME TopologyInv, HistoryTyped, [TopologyNext]_topologyVars PROVE HistoryTyped'
  OBVIOUS
<1>1. CASE UNCHANGED <<overlapped, overtaken>>
  BY <1>1 DEF HistoryTyped
<1>2. ASSUME NEW j \in Jobs, LookEdge(j) \/ \E end \in {"from", "to"} : LookNode(j, end)
      PROVE  HistoryTyped'
  <2>1. ASSUME NEW end \in {"from", "to"}, LookNode(j, end) PROVE overlapped' \in BOOLEAN
    <3>1. \/ overlapped' = (overlapped \/ NodeUnderWay(j, job[j].link[end], job[j].link.layer))
          \/ overlapped' = overlapped
      BY <2>1 DEF LookNode
    <3>2. CASE NodeUnderWay(j, job[j].link[end], job[j].link.layer)
      BY <3>1, <3>2, Zenon DEF HistoryTyped
    <3>3. CASE ~NodeUnderWay(j, job[j].link[end], job[j].link.layer)
      BY <3>1, <3>3, Zenon DEF HistoryTyped
    <3>. QED BY <3>2, <3>3
  <2>2. CASE LookEdge(j)
    <3>1. overlapped' = (overlapped \/ EdgeUnderWay(j)) \/ overlapped' = overlapped
      BY <2>2 DEF LookEdge
    <3>2. ASSUME EdgeUnderWay(j) PROVE overlapped' \in BOOLEAN
      BY <3>1, <3>2, Zenon DEF HistoryTyped
    <3>3. ASSUME ~EdgeUnderWay(j) PROVE overlapped' \in BOOLEAN
      BY <3>1, <3>3, Zenon DEF HistoryTyped
    <3>4. overlapped' \in BOOLEAN
      BY <3>2, <3>3 DEF HistoryTyped
    <3>5. overtaken' = overtaken
      BY <2>2 DEF LookEdge
    <3>. QED BY <3>4, <3>5 DEF HistoryTyped
  <2>3. ASSUME NEW end \in {"from", "to"}, LookNode(j, end) PROVE HistoryTyped'
    <3>1. overtaken' = overtaken
      BY <2>3 DEF LookNode
    <3>. QED BY <2>1, <2>3, <3>1 DEF HistoryTyped
  <2>. QED BY <1>2, <2>2, <2>3
<1>3. ASSUME NEW j \in Jobs, UpdateEdge(j) PROVE HistoryTyped'
  <2>1. job[j] \in Linked
    BY <1>3, JobTyped DEF UpdateEdge, Stages
  <2>2. job[j].edge \in EdgeIds
    BY <1>3, <2>1 DEF UpdateEdge, Linked, RunLinks, LldpLinks, FoundEdges
  <2>. QED BY <1>3, <2>2 DEF UpdateEdge, HistoryTyped
<1>4. ASSUME NEW j \in Jobs, \/ \E end \in {"from", "to"} : AddNode(j, end)
                             \/ InsertEdge(j) \/ Commit(j) \/ JobFails(j)
      PROVE  HistoryTyped'
  BY <1>1, <1>4 DEF AddNode, InsertEdge, Commit, JobFails, History
<1>5. ASSUME ScreenStep \/ \E j \in Jobs : StartStep(j) PROVE HistoryTyped'
  BY <1>1, <1>5, ScreensMove, StartsMove
<1>6. CASE UNCHANGED topologyVars
  BY <1>1, <1>6 DEF topologyVars
<1>7. ASSUME NEW j \in Jobs, GraphStep(j) PROVE HistoryTyped'
  BY <1>2, <1>3, <1>4, <1>5, <1>7 DEF GraphStep, ScreenStep, StartStep
<1>. QED BY <1>4, <1>5, <1>6, <1>7 DEF TopologyNext, ScreenStep, StartStep

TopologyWhole == TopologyInv /\ EndsInv /\ ListsInv /\ HistoryTyped

LEMMA TopologyTypeHolds == TopologyWhole => TopologyTypeOK
<1>. SUFFICES ASSUME TopologyWhole PROVE TopologyTypeOK
  OBVIOUS
<1>1. \A e \in EdgeIds : edges[e] # Nil => nodes[edges[e].from] # Nil /\ nodes[edges[e].to] # Nil
  BY DEF TopologyWhole, EndsInv, EdgesEnded, EndSeen
<1>2. topoPage.shown \in [NodeIds -> Places \cup {Nil}] /\ topoPage.layer \in Layers
  BY MapPageTyped DEF TopologyWhole, PageForms
<1>. QED BY <1>1, <1>2 DEF TopologyWhole, TopologyInv, TopologyTyped, TablesTyped, GraphTyped, ListsInv,
            WwnSingle, PanelKnown, HistoryTyped, TopologyTypeOK

LEMMA TopologyWholeInit == TopologyInit => TopologyWhole
<1>1. TopologyInit => HistoryTyped
  BY DEF TopologyInit, HistoryTyped
<1>. QED BY <1>1, TopologyInitHolds, EndsInitHolds, ListsInitHolds DEF TopologyWhole

LEMMA TopologyWholeStep == TopologyWhole /\ [TopologyNext]_topologyVars => TopologyWhole'
  BY TopologyStepHolds, EndsStepHolds, ListsStepHolds, HistoryStepHolds DEF TopologyWhole

-----------------------------------------------------------------------------
(* The types.  What the invariants leave open: the rest of a page or of a  *)
(* request in work.                                                        *)

LEMMA StockTypeHolds == StockInv => StockTypeOK
<1>. SUFFICES ASSUME StockInv PROVE StockTypeOK
  OBVIOUS
<1>1. ASSUME NEW s \in StockSlots
      PROVE  stockCall[s].at \in {"idle", "asked", "audit", "answered"}
             /\ stockCall[s].with \subseteq StockSlots
  BY DEF StockInv, StockCalls, StockCallFits, StockIdle, StockRequests
<1>. QED BY <1>1 DEF StockInv, StockTyped, StockPages, StockLists, StockTypeOK

LEMMA ContractTypeHolds == ContractInv => ContractTypeOK
  BY DEF ContractInv, ContractTyped, DealPages, DealTables, Sheets, DealCalls, ContractIdle, ContractTypeOK

LEMMA IpamTypeHolds == IpamInv => IpamTypeOK
  BY DEF IpamInv, IpamTyped, IpTables, IpPages, IpForms, IpCalls, IpamTypeOK

LEMMA PredictTypeHolds == PredictInv => PredictTypeOK
  BY DEF PredictInv, PredictTyped, LlmRows, LlmSaves, LlmRuns, PredictTypeOK

-----------------------------------------------------------------------------
\* The files a page reads, and the row an upload is at.
ImportRest ==
  /\ reading \in [Dialogs -> SUBSET Files]
  /\ \A s \in ImportSlots : upload[s].row <= FileRows

LEMMA ImportRestInit == ImportInit => ImportRest
  BY ImportAssumption DEF ImportInit, ImportRest, NoUpload

LEMMA ImportRestStep == ImportInv /\ ImportRest /\ [ImportNext]_importVars => ImportRest'
<1>. SUFFICES ASSUME ImportInv, ImportRest, [ImportNext]_importVars PROVE ImportRest'
  OBVIOUS
<1>1. upload \in [ImportSlots -> Uploads] /\ FileRows \in Nat
  BY ImportAssumption DEF ImportInv, ImportTyped
<1>2. CASE UNCHANGED <<reading, upload>>
  BY <1>2 DEF ImportRest
<1>3. ASSUME NEW k \in Dialogs, NEW f \in Files, ChooseFile(k, f) \/ FileRead(k, f) PROVE ImportRest'
  BY <1>3 DEF ChooseFile, FileRead, ImportRest
<1>4. ASSUME NEW k \in Dialogs, OpenImport(k) \/ CloseImport(k) \/ ChooseAgain(k) PROVE ImportRest'
  BY <1>2, <1>4 DEF OpenImport, CloseImport, ChooseAgain
<1>5. ASSUME NEW s \in ImportSlots, NEW u, u.row <= FileRows, upload' = [upload EXCEPT ![s] = u],
             reading' = reading
      PROVE  ImportRest'
  <2>1. \A t \in ImportSlots : upload'[t] = IF t = s THEN u ELSE upload[t]
    BY <1>1, <1>5
  <2>. QED BY <1>5, <2>1 DEF ImportRest
<1>6. ASSUME NEW s \in ImportSlots, NEW k \in Dialogs, ExecuteImport(k, s) PROVE ImportRest'
  <2>. DEFINE u == [at |-> "asked", kind |-> k, file |-> dialog[k].rows, row |-> 0, waited |-> TRUE]
  <2>1. u.row = 0
    OBVIOUS
  <2>2. u.row <= FileRows
    BY <1>1, <2>1
  <2>3. upload' = [upload EXCEPT ![s] = u] /\ reading' = reading
    BY <1>6 DEF ExecuteImport
  <2>. HIDE DEF u
  <2>. QED BY <1>5, <2>2, <2>3
<1>7. ASSUME NEW s \in ImportSlots, ImportAnswer(s) PROVE ImportRest'
  <2>1. NoUpload.row <= FileRows
    BY <1>1 DEF NoUpload
  <2>2. upload' = [upload EXCEPT ![s] = NoUpload] /\ reading' = reading
    BY <1>7 DEF ImportAnswer
  <2>. QED BY <1>5, <2>1, <2>2
<1>8. ASSUME NEW s \in ImportSlots,
             LoseAnswer(s) \/ CheckImport(s) \/ CommitImport(s) \/ ImportFails(s)
      PROVE  ImportRest'
  <2>1. \/ \E v : upload' = [upload EXCEPT ![s].at = v]
        \/ upload' = [upload EXCEPT ![s].waited = FALSE]
    BY <1>8 DEF LoseAnswer, CheckImport, CommitImport, ImportFails
  <2>2. \A t \in ImportSlots : upload'[t].row = upload[t].row
    BY <1>1, <2>1 DEF Uploads
  <2>. QED BY <1>8, <2>2 DEF LoseAnswer, CheckImport, CommitImport, ImportFails, ImportRest
<1>9. ASSUME NEW s \in ImportSlots, InsertImportRow(s) PROVE ImportRest'
  <2>. DEFINE u == upload[s]
  <2>1. u \in Uploads /\ u.row < FileRows
    BY <1>1, <1>9 DEF InsertImportRow
  <2>2. [u EXCEPT !.at = "refused"].row <= FileRows /\ [u EXCEPT !.row = @ + 1].row <= FileRows
    BY <1>1, <2>1 DEF Uploads
  <2>3. \/ upload' = [upload EXCEPT ![s] = [u EXCEPT !.at = "refused"]]
        \/ upload' = [upload EXCEPT ![s] = [u EXCEPT !.row = @ + 1]]
    BY <1>9 DEF InsertImportRow
  <2>4. reading' = reading
    BY <1>9 DEF InsertImportRow
  <2>. HIDE DEF u
  <2>. QED BY <1>5, <2>2, <2>3, <2>4
<1>10. CASE UNCHANGED importVars
  BY <1>2, <1>10 DEF importVars
<1>. QED BY <1>3, <1>4, <1>6, <1>7, <1>8, <1>9, <1>10 DEF ImportNext

LEMMA ImportTypeHolds == ImportInv /\ ImportRest => ImportTypeOK
<1>. SUFFICES ASSUME ImportInv, ImportRest PROVE ImportTypeOK
  OBVIOUS
<1>1. FileRows \in Nat /\ upload \in [ImportSlots -> Uploads] /\ dialog \in [Dialogs -> Modal]
  BY ImportAssumption DEF ImportInv, ImportTyped
<1>2. \A s \in ImportSlots : upload[s] \in
        [at : {"idle", "asked", "insert", "stored", "refused", "broken"},
         kind : Dialogs \cup {Nil}, file : Files \cup {Nil}, row : 0..FileRows, waited : BOOLEAN]
  BY <1>1 DEF ImportRest, Uploads
<1>3. stored \in Histories /\ picked \in Histories /\ unheard \in Histories
  BY DEF ImportInv, ImportTyped
<1>. QED BY <1>1, <1>2, <1>3 DEF ImportRest, Modal, Histories, ImportTypeOK

-----------------------------------------------------------------------------
\* One registration makes an asset, and gives it the one contract row it has.
Giving(s) == regCall[s].at \in {"bind", "contract"}
AgentRest ==
  /\ contractsOf \in [AssetIds -> {0, 1}]
  /\ \A a \in AssetIds : machine[a] = Nil => contractsOf[a] = 0
  /\ \A s \in RegSlots : Giving(s) => /\ regCall[s].asset \in AssetIds
                                      /\ machine[regCall[s].asset] # Nil
                                      /\ contractsOf[regCall[s].asset] = 0
  /\ \A s, t \in RegSlots : s # t /\ Giving(s) /\ Giving(t) => regCall[s].asset # regCall[t].asset

LEMMA AgentRestInit == AgentInit => AgentRest
  BY DEF AgentInit, AgentRest, Giving, NoReg

LEMMA AgentRestStep == AgentInv /\ AgentRest /\ [AgentNext]_agentVars => AgentRest'
<1>. SUFFICES ASSUME AgentInv, AgentRest, [AgentNext]_agentVars PROVE AgentRest'
  OBVIOUS
<1>1. regCall \in [RegSlots -> Regs] /\ machine \in [AssetIds -> Tokens \cup {Nil, 0}]
      /\ \A s \in RegSlots : RegStands(regCall[s])
  BY DEF AgentInv, AgentTyped
<1>2. CASE UNCHANGED <<contractsOf, machine, regCall>>
  BY <1>2 DEF AgentRest, Giving
<1>3. ASSUME NEW s \in RegSlots, NEW c, regCall' = [regCall EXCEPT ![s] = c],
             c.at \in {"bind", "contract"} => Giving(s) /\ c.asset = regCall[s].asset,
             UNCHANGED <<contractsOf, machine>>
      PROVE  AgentRest'
  BY <1>1, <1>3 DEF AgentRest, Giving
<1>4. ASSUME \/ LoadAgents \/ ToggleTokenForm
             \/ \E k \in Tokens : \/ \E a \in AssetIds \cup {Nil} : IssueToken(k, a)
                                  \/ Revoke(k) \/ \E h \in Hosts : Install(h, k)
             \/ \E h \in Hosts : RestartAgent(h)
             \/ UNCHANGED agentVars
      PROVE  AgentRest'
  BY <1>2, <1>4 DEF LoadAgents, ToggleTokenForm, IssueToken, Revoke, Install, RestartAgent, agentVars
<1>5. NoReg.at = "idle"
  BY DEF NoReg
<1>6. ASSUME NEW s \in RegSlots, NEW h \in Hosts, Register(s, h) PROVE AgentRest'
  BY <1>3, <1>6 DEF Register
<1>7. ASSUME NEW s \in RegSlots, UpdateMachine(s) \/ RegisterFails(s) PROVE AgentRest'
  BY <1>3, <1>5, <1>7 DEF UpdateMachine, RegisterFails
<1>8. ASSUME NEW s \in RegSlots, ReadToken(s) PROVE AgentRest'
  <2>1. \/ regCall' = [regCall EXCEPT ![s] = NoReg]
        \/ \E a : \E at \in {"insert", "update"} :
             regCall' = [regCall EXCEPT ![s].asset = a, ![s].at = at]
    BY <1>8 DEF ReadToken
  <2>2. \A t \in RegSlots : /\ regCall'[t] = regCall[t] \/ regCall'[t].at \notin {"bind", "contract"}
                            /\ Giving(t)' => regCall'[t] = regCall[t]
    BY <1>1, <1>5, <2>1 DEF Giving, Regs
  <2>3. \A t \in RegSlots : Giving(t)' => Giving(t) /\ regCall'[t].asset = regCall[t].asset
    BY <2>2 DEF Giving
  <2>. QED BY <1>8, <2>3 DEF ReadToken, AgentRest
<1>9. ASSUME NEW s \in RegSlots, InsertMachine(s) PROVE AgentRest'
  <2>1. PICK a \in AssetIds :
          /\ machine[a] = Nil /\ machine' = [machine EXCEPT ![a] = regCall[s].key]
          /\ regCall' = [regCall EXCEPT ![s].at = "bind", ![s].asset = a]
    BY <1>9 DEF InsertMachine, First
  <2>2. regCall[s].key \in Tokens /\ regCall[s].key # Nil
    BY <1>1, <1>9, AgentDeskAssumption DEF InsertMachine, Reg, RegStands
  <2>3. regCall'[s].asset = a /\ \A t \in RegSlots : t # s => regCall'[t] = regCall[t]
    BY <1>1, <2>1 DEF Regs
  <2>4. contractsOf[a] = 0 /\ contractsOf' = contractsOf
    BY <1>9, <2>1 DEF AgentRest, InsertMachine
  <2>5. \A t \in RegSlots : t # s /\ Giving(t) => regCall[t].asset # a
    BY <2>1 DEF AgentRest
  <2>6. \A b \in AssetIds : machine'[b] = Nil => machine[b] = Nil
    BY <1>1, <2>1, <2>2
  <2>7. \A b \in AssetIds : machine[b] # Nil \/ b = a => machine'[b] # Nil
    BY <1>1, <2>1, <2>2
  <2>. QED BY <2>3, <2>4, <2>5, <2>6, <2>7 DEF AgentRest, Giving
<1>10. ASSUME NEW s \in RegSlots, BindToken(s) PROVE AgentRest'
  <2>1. \A t \in RegSlots : Giving(t)' => Giving(t) /\ regCall'[t].asset = regCall[t].asset
    BY <1>1, <1>10 DEF BindToken, Then, Reg, Giving, Regs
  <2>. QED BY <1>10, <2>1 DEF BindToken, AgentRest
<1>11. ASSUME NEW s \in RegSlots, AddContract(s) PROVE AgentRest'
  <2>. DEFINE a == regCall[s].asset
  <2>1. a \in AssetIds /\ machine[a] # Nil /\ contractsOf[a] = 0
    BY <1>11 DEF AddContract, Reg, Giving, AgentRest
  <2>2. contractsOf' = [contractsOf EXCEPT ![a] = 1] /\ machine' = machine
    BY <1>11, <2>1 DEF AddContract
  <2>3. \A t \in RegSlots : Giving(t)' => t # s /\ Giving(t) /\ regCall'[t].asset = regCall[t].asset
    BY <1>1, <1>5, <1>11 DEF AddContract, Giving
  <2>4. \A t \in RegSlots : t # s /\ Giving(t) => regCall[t].asset # a
    BY <1>11 DEF AddContract, Reg, Giving, AgentRest
  <2>. HIDE DEF a
  <2>. QED BY <2>1, <2>2, <2>3, <2>4 DEF AgentRest
<1>. QED BY <1>4, <1>6, <1>7, <1>8, <1>9, <1>10, <1>11 DEF AgentNext

LEMMA AgentTypeHolds == AgentInv /\ AgentRest => AgentDeskTypeOK
  BY DEF AgentInv, AgentTyped, RegStands, AgentRest, AgentDeskTypeOK

-----------------------------------------------------------------------------
\* The heights there are, and the units and flags of the pages.
ShownUnits == [UnitIds -> UnitRows \cup {Nil}]
UnitPageTyped(p) == p.shown.units \in ShownUnits /\ p.edit \in BOOLEAN /\ p.saving \in BOOLEAN
RackRest ==
  /\ height \in [RackIds -> Heights \cup {0, Dismantled}]
  /\ \A t \in RackTabs : UnitPageTyped(rackPage[t])
  /\ \A t \in RackTabs : \A rows \in rackLoads[t] : rows.units \in ShownUnits
  /\ DOMAIN rackLoads = RackTabs

LEMMA RowsTyped == RackInv => Rows.units \in ShownUnits
<1>. SUFFICES ASSUME RackInv PROVE [u \in UnitIds |-> IF Exists(u) THEN units[u] ELSE Nil] \in ShownUnits
  BY DEF Rows
<1>. QED BY DEF RackInv, RackTyped, Exists, ShownUnits

LEMMA RackRestInit == RackInit => RackRest
<1>. SUFFICES ASSUME RackInit PROVE RackRest
  OBVIOUS
<1>1. Rows.units \in ShownUnits
  BY RackInitHolds, RowsTyped
<1>2. height \in [RackIds -> Heights \cup {0, Dismantled}]
  BY DEF RackInit
<1>3. \A t \in RackTabs : UnitPageTyped(rackPage[t])
  BY <1>1 DEF RackInit, UnitPageTyped
<1>. QED BY <1>2, <1>3 DEF RackInit, RackRest

LEMMA RackPageRest ==
  ASSUME RackInv, RackRest, height' = height, NEW t \in RackTabs, NEW new, Page(t, new), UnitPageTyped(new),
         \/ rackLoads' = rackLoads \/ Load(t) \/ \E rows : rackLoads' = [rackLoads EXCEPT ![t] = @ \ {rows}]
  PROVE  RackRest'
<1>1. \A o \in RackTabs : UnitPageTyped(rackPage'[o])
  BY DEF Page, RackInv, PagesFit, RackRest
<1>2. \A o \in RackTabs : \A rows \in rackLoads'[o] : rows \in rackLoads[o] \/ rows = Rows
  BY DEF Load, RackRest
<1>3. DOMAIN rackLoads' = RackTabs
  BY DEF Load, RackRest
<1>4. \A o \in RackTabs : \A rows \in rackLoads'[o] : rows.units \in ShownUnits
  BY <1>2, RowsTyped DEF RackRest
<1>. QED BY <1>1, <1>3, <1>4 DEF RackRest, UnitPageTyped

LEMMA RackRestStep == RackInv /\ RackRest /\ [RackNext]_rackVars => RackRest'
<1>. SUFFICES ASSUME RackInv, RackRest, [RackNext]_rackVars PROVE RackRest'
  OBVIOUS
<1>1. \A t \in RackTabs : rackPage[t] \in [shown : {rackPage[t].shown}, edit : {rackPage[t].edit},
                            modal : {rackPage[t].modal}, saving : {rackPage[t].saving}]
                          /\ UnitPageTyped(rackPage[t])
  BY DEF RackInv, PagesFit, ModalFits, RackRest
<1>2. CASE UNCHANGED <<height, rackPage, rackLoads>>
  BY <1>2 DEF RackRest
<1>3. ASSUME NEW t \in RackTabs, RackRefresh(t) PROVE RackRest'
  <2>1. rackPage = [o \in RackTabs |-> rackPage[o]]
    BY DEF RackInv, PagesFit
  <2>2. Page(t, rackPage[t])
    BY <1>3, <2>1 DEF RackRefresh, Page
  <2>. QED BY <1>1, <1>3, <2>2, RackPageRest DEF RackRefresh
<1>4. ASSUME NEW t \in RackTabs, NEW rows \in rackLoads[t], RackArrive(t, rows) PROVE RackRest'
  <2>1. UnitPageTyped([rackPage[t] EXCEPT !.shown = rows])
    BY <1>1 DEF UnitPageTyped, RackRest
  <2>. QED BY <1>4, <2>1, RackPageRest DEF RackArrive
<1>5. ASSUME NEW t \in RackTabs, ToggleEdit(t) PROVE RackRest'
  <2>1. PICK b \in BOOLEAN : Page(t, [rackPage[t] EXCEPT !.edit = b])
    <3>1. CASE rackPage[t].edit
      BY <1>5, <3>1 DEF ToggleEdit
    <3>2. CASE ~rackPage[t].edit
      BY <1>5, <3>2 DEF ToggleEdit
    <3>. QED BY <3>1, <3>2
  <2>2. UnitPageTyped([rackPage[t] EXCEPT !.edit = b])
    BY <1>1 DEF UnitPageTyped
  <2>. QED BY <1>5, <2>1, <2>2, RackPageRest DEF ToggleEdit
<1>6. \A t \in RackTabs : \A m : UnitPageTyped([rackPage[t] EXCEPT !.modal = m])
  BY <1>1 DEF UnitPageTyped
<1>7. \A t \in RackTabs : \A b \in BOOLEAN : UnitPageTyped([rackPage[t] EXCEPT !.saving = b])
  BY <1>1 DEF UnitPageTyped
<1>8. ASSUME NEW t \in RackTabs, CloseModal(t) \/ \E m \in Modals(t) : OpenModal(t, m) PROVE RackRest'
  BY <1>6, <1>8, RackPageRest DEF CloseModal, OpenModal
<1>9. ASSUME NEW t \in RackTabs, NEW s \in RackSlots,
             \/ \E h \in Heights : SaveRack(t, s, h)
             \/ \E a \in Devices \cup {Nil}, st \in Starts, sz \in Sizes : SaveUnit(t, s, st, sz, a)
      PROVE  RackRest'
  <2>1. Page(t, [rackPage[t] EXCEPT !.saving = TRUE]) /\ UNCHANGED <<height, rackLoads>>
    BY <1>9 DEF SaveRack, SaveUnit
  <2>. QED BY <1>7, <2>1, RackPageRest
<1>10. ASSUME NEW t \in RackTabs, NEW s \in RackSlots,
              ConfirmDelete(t, s) \/ \E u \in UnitIds, st \in Starts : MoveUnit(t, s, u, st)
       PROVE  RackRest'
  BY <1>2, <1>10 DEF ConfirmDelete, MoveUnit
<1>11. ASSUME NEW s \in RackSlots, RackAnswer(s) PROVE RackRest'
  <2>. DEFINE c == rackCall[s]
  <2>1. c.tab \in RackTabs
    BY <1>11 DEF RackAnswer, RackInv, CallsStand, CallStands, Others, Shelves, Idle
  <2>2. PICK m : \E b \in BOOLEAN : Page(c.tab, [rackPage[c.tab] EXCEPT !.modal = m, !.saving = b])
    <3>1. CASE c.op \in {"rack", "unit"}
      BY <1>11, <3>1 DEF RackAnswer
    <3>2. CASE c.op \notin {"rack", "unit"}
      BY <1>1, <1>11, <2>1, <3>2 DEF RackAnswer, UnitPageTyped
    <3>. QED BY <3>1, <3>2
  <2>3. PICK b \in BOOLEAN : Page(c.tab, [rackPage[c.tab] EXCEPT !.modal = m, !.saving = b])
    BY <2>2
  <2>4. UnitPageTyped([rackPage[c.tab] EXCEPT !.modal = m, !.saving = b])
    BY <1>1, <2>1 DEF UnitPageTyped
  <2>5. height' = height /\ (rackLoads' = rackLoads \/ Load(c.tab))
    BY <1>11 DEF RackAnswer
  <2>. HIDE DEF c
  <2>. QED BY <2>1, <2>3, <2>4, <2>5, RackPageRest
<1>12. ASSUME NEW s \in RackSlots, ReadCurrent(s) \/ ReadRack(s) \/ CheckOverlap(s) \/ WriteUnit(s)
       PROVE  RackRest'
  BY <1>2, <1>12 DEF ReadCurrent, ReadRack, CheckOverlap, WriteUnit, Reads
<1>13. ASSUME height' \in [RackIds -> Heights \cup {0, Dismantled}], UNCHANGED <<rackPage, rackLoads>>
       PROVE  RackRest'
  BY <1>13 DEF RackRest
<1>14. ASSUME NEW s \in RackSlots, WriteRack(s) PROVE RackRest'
  <2>1. rackCall[s].height \in Heights
    BY <1>14 DEF WriteRack, RackInv, CallsStand, CallStands, Others, Shelves, Idle
  <2>2. height \in [RackIds -> Heights \cup {0, Dismantled}]
    BY DEF RackRest
  <2>3. height' \in [RackIds -> Heights \cup {0, Dismantled}]
    BY <1>14, <2>1, <2>2 DEF WriteRack
  <2>. QED BY <1>13, <1>14, <2>3 DEF WriteRack
<1>15. ASSUME NEW s \in RackSlots, DeleteRow(s) PROVE RackRest'
  <2>1. height' \in [RackIds -> Heights \cup {0, Dismantled}]
    BY <1>15 DEF DeleteRow, RackRest
  <2>. QED BY <1>13, <1>15, <2>1 DEF DeleteRow
<1>16. CASE UNCHANGED rackVars
  BY <1>2, <1>16 DEF rackVars
<1>. QED BY <1>3, <1>4, <1>5, <1>8, <1>9, <1>10, <1>11, <1>12, <1>14, <1>15, <1>16 DEF RackNext, RackWork

LEMMA RackTypeHolds == RackInv /\ RackRest => RackTypeOK
<1>. SUFFICES ASSUME RackInv, RackRest PROVE RackTypeOK
  OBVIOUS
<1>1. \A s \in RackSlots : rackCall[s].at \in
        {"idle", "current", "rack", "overlap", "write", "done", "refused"}
  BY DEF RackInv, CallsStand, CallStands, Others, Shelves, Idle
<1>. QED BY <1>1 DEF RackInv, RackTyped, RackRest, UnitPageTyped, ShownUnits, RackTypeOK

-----------------------------------------------------------------------------
(* Every step is an input within the budget of its area, or none.          *)

LEMMA ActKeepsDesk == DeskTypeOK /\ (Act \/ UNCHANGED deskVars) => DeskTypeOK'
  BY DeskAssumption DEF DeskTypeOK, Act, deskVars

LEMMA StockBudget == StockNext => Act \/ UNCHANGED deskVars
  BY
  DEF ChooseBulk, ClearSelection, Click, CloseAssetForm, DeactivateAsset, DeleteAsset,
      ExecuteBulk, ExpandAsset, FilterStock, InsertAsset, InsertMisfit, LogAudit,
      LogAuditFails, LoseStockAnswer, OpenAssetForm, SaveAsset, StockAnswer, StockArrive,
      StockFails, StockNext, StockRefresh, StockWork, ToggleAllAssets, ToggleAsset,
      UpdateAsset, deskVars

LEMMA ImportBudget == ImportNext => Act \/ UNCHANGED deskVars
  BY
  DEF CheckImport, ChooseAgain, ChooseFile, CloseImport, CommitImport, ExecuteImport,
      FileRead, ImportAnswer, ImportFails, ImportNext, InsertImportRow, LoseAnswer,
      OpenImport, deskVars

LEMMA ContractBudget == ContractNext => Act \/ UNCHANGED deskVars
  BY
  DEF AgentContract, CloseContractForm, ContractAnswer, ContractArrive, ContractFails,
      ContractNext, ContractRefresh, DeactivateDeals, DeleteContract, DeleteSoftware,
      InsertContract, OpenContractForm, OpenSoftwareForm, SaveContract, SaveSoftware,
      UpdateContract, deskVars

LEMMA OrgBudget == OrgNext => Act \/ UNCHANGED deskVars
  BY
  DEF AdmitOrg, CheckDepth, CloseOrgForm, Deactivate, DeleteOrg, FreeAssets, FreeChildren,
      InsertOrg, OpenOrgForm, OrgAnswer, OrgArrive, OrgFails, OrgNext, OrgRefresh, OrgWork,
      RoleArrives, SaveOrg, ToggleExpand, UpdateOrg, deskVars

LEMMA RackBudget == RackNext => Act \/ UNCHANGED deskVars
<1>1. \A t \in RackTabs :
        RackRefresh(t) \/ ToggleEdit(t) \/ CloseModal(t) \/ (\E m \in Modals(t) : OpenModal(t, m))
        => Act
  BY DEF RackRefresh, ToggleEdit, CloseModal, OpenModal
<1>2. \A t \in RackTabs : (\E rows \in rackLoads[t] : RackArrive(t, rows)) => UNCHANGED deskVars
  BY DEF RackArrive
<1>3. \A t \in RackTabs, s \in RackSlots :
        \/ \E h \in Heights : SaveRack(t, s, h)
        \/ \E a \in Devices \cup {Nil}, st \in Starts, sz \in Sizes : SaveUnit(t, s, st, sz, a)
        \/ \E u \in UnitIds, st \in Starts : MoveUnit(t, s, u, st)
        \/ ConfirmDelete(t, s)
        => Act
  BY DEF SaveRack, SaveUnit, MoveUnit, ConfirmDelete
<1>4. \A s \in RackSlots : RackWork(s) => UNCHANGED deskVars
  BY DEF RackWork, ReadCurrent, ReadRack, CheckOverlap, WriteUnit, WriteRack, DeleteRow, RackAnswer, Reads
<1>. QED BY <1>1, <1>2, <1>3, <1>4 DEF RackNext

LEMMA AgentBudget == AgentNext => Act \/ UNCHANGED deskVars
  BY
  DEF AddContract, AgentNext, BindToken, InsertMachine, Install, IssueToken, LoadAgents,
      ReadToken, Register, RegisterFails, RestartAgent, Revoke, ToggleTokenForm,
      UpdateMachine, deskVars

LEMMA TopologyBudget == TopologyNext => Act \/ UNCHANGED deskVars
<1>1. PanelNext => Act \/ UNCHANGED deskVars
  <2>1. TogglePanel => Act
    BY DEF TogglePanel
  <2>2. \A d \in Switches : PickDevice(d) \/ CreateDevice(d) \/ HandleDelete(d) => Act
    BY DEF PickDevice, CreateDevice, HandleDelete
  <2>3. \A text \in Texts, v \in SwitchVendors : DoParse(text, v) => Act
    BY DEF DoParse
  <2>4. \A j \in Jobs : HandleSave(j) => Act
    BY DEF HandleSave
  <2>5. \A j \in Jobs : DeleteRows(j) \/ SaveAnswer(j) => UNCHANGED deskVars
    BY DEF DeleteRows, SaveAnswer
  <2>6. \A j \in Jobs, x \in UNION {Parsed(t, v) : t \in Texts, v \in SwitchVendors} :
          UpsertRow(j, x) => UNCHANGED deskVars
    BY DEF UpsertRow
  <2>7. \A d \in Switches, g \in Gear : WwnSeen(d, g) => Act
    BY DEF WwnSeen
  <2>. QED BY <2>1, <2>2, <2>3, <2>4, <2>5, <2>6, <2>7 DEF PanelNext
<1>2. MapNext => Act \/ UNCHANGED deskVars
  BY DEF MapNext, AutoLayout, DragNode, MapArrives, OpenLayer, PlaceAnswer, PlaceNode, SavePositions,
     ToggleAll
<1>3. \A j \in Jobs : GraphStep(j) => UNCHANGED deskVars
  BY DEF GraphStep, ReadMacs, ReadSwitchWwns, ReadTargetWwns, LookNode, AddNode, LookEdge, InsertEdge,
     UpdateEdge, Commit, RunAnswer, Graph
<1>4. \A j \in Jobs : (\E x \in job[j].todo : PickLink(j, x)) => UNCHANGED deskVars
  BY DEF PickLink, Graph
<1>5. \A j \in Jobs : JobFails(j) \/ (\E d \in Switches, g \in Gear \cup {Stranger} : LldpEvent(j, d, g))
        => Act
  BY DEF JobFails, LldpEvent
<1>6. \A j \in Jobs, dry \in BOOLEAN : HandleRun(j, dry) => Act
  BY DEF HandleRun
<1>. QED BY <1>1, <1>2, <1>3, <1>4, <1>5, <1>6 DEF TopologyNext

LEMMA IpamBudget == IpamNext => Act \/ UNCHANGED deskVars
  BY
  DEF AddAlloc, AddSubnet, CloseAllocModal, DeleteAlloc, EditAlloc, IpAnswer, IpArrive,
      IpCallStep, IpFails, IpLost, IpRefresh, IpamNext, OpenAllocModal, ReadRows,
      RemoveAlloc, SaveAlloc, SaveSubnet, ToggleSubnetForm, Unfold, deskVars

LEMMA PredictBudget == PredictNext => Act \/ UNCHANGED deskVars
  BY
  DEF AnalyzeTrend, ChooseProvider, CollectTrends, Edit, LlmArrives, LlmLoadLost,
      LlmRefresh, LoadConfig, OnSettings, PredictNext, RunAnalysis, RunAnswered, RunBreaks,
      RunEnds, RunStep, SaveAnswered, SaveBreaks, SavePrediction, SaveSettings,
      SendPredictionAlert, StartRun, ToggleLlm, TypeKey, WriteSetting, deskVars

-----------------------------------------------------------------------------
(* The areas together.                                                     *)

InventoryInv ==
  /\ StockInv /\ ImportInv /\ ContractInv /\ RackInv /\ AgentInv /\ IpamInv /\ PredictInv
  /\ OrgInv /\ TopologyWhole /\ Singles /\ LldpInv

LEMMA InventoryInitHolds == InventoryInit => InventoryInv
  BY StockInitHolds, ImportInitHolds, ContractInitHolds, RackInitHolds, AgentInitHolds,
     IpamInitHolds, PredictInitHolds, OrgInitHolds, TopologyWholeInit, SinglesInitHolds,
     LldpInitHolds DEF InventoryInit, InventoryInv

\* Every step of the whole is, for each area, a step of that area or none.
LEMMA InventoryStepsAreAreas ==
  ASSUME [InventoryNext]_inventoryVars
  PROVE  /\ [StockNext]_stockVars /\ [ImportNext]_importVars /\ [ContractNext]_contractVars
         /\ [OrgNext]_orgVars /\ [RackNext]_rackVars /\ [AgentNext]_agentVars
         /\ [TopologyNext]_topologyVars /\ [IpamNext]_ipamVars /\ [PredictNext]_predictVars
  BY DEF InventoryNext, inventoryVars

LEMMA InventoryStepHolds == InventoryInv /\ [InventoryNext]_inventoryVars => InventoryInv'
<1>. SUFFICES ASSUME InventoryInv, [InventoryNext]_inventoryVars PROVE InventoryInv'
  OBVIOUS
<1>. QED BY InventoryStepsAreAreas, StockStepHolds, ImportStepHolds, ContractStepHolds,
            RackStepHolds, AgentStepHolds, IpamStepHolds, PredictStepHolds, OrgStepHolds,
            TopologyWholeStep, SinglesStepHolds, LldpStepHolds DEF InventoryInv, TopologyWhole

\* The promises of the record keeping hold of the dashboard with all of its areas.
THEOREM InventoryKeepsItsPromises ==
  InventorySpec => [](AuditTrail /\ ImportedOnce /\ OneContract /\ SlotsDisjoint
                      /\ RegistersOnce /\ EditHitsItsRow /\ CallsAsSaved /\ NoDoubles /\ ShallowTree)
<1>1. InventoryInv => AuditTrail /\ ImportedOnce /\ OneContract /\ SlotsDisjoint
                      /\ RegistersOnce /\ EditHitsItsRow /\ CallsAsSaved /\ NoDoubles /\ ShallowTree
  BY TracedIsAudited, ImportedOnceHolds, DealsAreSingle, RackDisjoint, AgentRegistersOnce,
     IpamEditsHit, CallsAreAsSaved, SinglesGive, OrgShallow DEF InventoryInv
<1>. QED BY <1>1, InventoryInitHolds, InventoryStepHolds, PTL DEF InventorySpec

\* The same holds of its steps: an edge that LLDP found stays one, whatever the other
\* areas do.
THEOREM InventoryKeepsLldp == InventorySpec => LldpKept
<1>1. InventoryInv /\ [InventoryNext]_inventoryVars => [LldpStays]_<<topologyVars, deskVars>>
  <2>. SUFFICES ASSUME InventoryInv, [InventoryNext]_inventoryVars PROVE LldpStays
    OBVIOUS
  <2>. QED BY InventoryStepsAreAreas, LldpStepHolds DEF InventoryInv, TopologyWhole
<1>2. InventorySpec => [][LldpStays]_<<topologyVars, deskVars>>
  BY <1>1, InventoryInitHolds, InventoryStepHolds, PTL DEF InventorySpec
<1>. QED BY <1>2 DEF LldpKept, LldpStays

InventoryTyped == InventoryInv /\ DeskTypeOK /\ ImportRest /\ AgentRest /\ RackRest

\* Whatever the areas do, in any order, every variable stays within its type, and the
\* pages, the requests and the jobs refer to rows that are there.
THEOREM InventoryTypeCorrect == InventorySpec => []InventoryTypeOK
<1>1. InventoryInit => InventoryTyped
  <2>1. DeskInit => DeskTypeOK
    BY DeskAssumption DEF DeskInit, DeskTypeOK
  <2>. QED BY <2>1, InventoryInitHolds, ImportRestInit, AgentRestInit, RackRestInit
           DEF InventoryInit, InventoryTyped
<1>2. InventoryTyped /\ [InventoryNext]_inventoryVars => InventoryTyped'
  <2>. SUFFICES ASSUME InventoryTyped, [InventoryNext]_inventoryVars PROVE InventoryTyped'
    OBVIOUS
  <2>1. Act \/ UNCHANGED deskVars
    BY StockBudget, ImportBudget, ContractBudget, OrgBudget, RackBudget, AgentBudget,
       TopologyBudget, IpamBudget, PredictBudget DEF InventoryNext, inventoryVars
  <2>. QED BY <2>1, InventoryStepsAreAreas, InventoryStepHolds, ActKeepsDesk, ImportRestStep,
              AgentRestStep, RackRestStep DEF InventoryTyped, InventoryInv
<1>3. InventoryTyped => InventoryTypeOK
  BY StockTypeHolds, ImportTypeHolds, ContractTypeHolds, OrgTypeHolds, RackTypeHolds,
     AgentTypeHolds, TopologyTypeHolds, IpamTypeHolds, PredictTypeHolds
  DEF InventoryTyped, InventoryInv, InventoryTypeOK
<1>. QED BY <1>1, <1>2, <1>3, PTL DEF InventorySpec

=============================================================================
