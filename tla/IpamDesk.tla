------------------------------ MODULE IpamDesk ------------------------------
(***************************************************************************)
(* Address management: app/api/assets/ipam/route.ts and the IPAM page.  An *)
(* address has one row (UNIQUE), and the PUT that adds one writes over the *)
(* row the address already has.  The page treats every answer as a success.*)
(***************************************************************************)
EXTENDS Desk

CONSTANTS
  NetIds, AllocIds,  \* ids the two tables may hand out, numbers
  Addresses,         \* addresses an operator may enter, of whatever subnet
  IpTabs,            \* pages open at the same time
  IpSlots            \* bound: requests in work at the same time, numbers

Uses == {"used", "reserved", "available"}
Gone == [net |-> Nil, addr |-> Nil, use |-> "gone"]
AllocRows == [net : NetIds, addr : Addresses, use : Uses]
IpOps == {"add", "edit", "delete", "subnet"}

ASSUME IpamAssumption ==
  /\ UNION {NetIds, AllocIds, IpSlots} \subseteq Nat
  /\ Nil \notin NetIds /\ Nil \notin AllocIds /\ Nil \notin IpOps
  /\ Nil \notin AllocRows \cup {Gone}

VARIABLES
  nets,    \* ip_subnets: ids of the rows
  alloc,   \* ip_allocations: the row, Nil before it is there, Gone after
  ipPage,  \* the page of a tab: rows shown, the subnet unfolded, the open form
  ipLoads, \* answers of GET on their way to a tab
  ipCall   \* the request in work in a slot

ipamVars == <<nets, alloc, ipPage, ipLoads, ipCall>>

Held(i) == alloc[i] \notin {Nil, Gone}
NextFree(i) == alloc[i] = Nil /\ \A j \in AllocIds : alloc[j] = Nil => i <= j
IpIdle == [at |-> "idle", op |-> Nil, tab |-> Nil, id |-> Nil, row |-> Gone]
Reading(rows) == [nets |-> nets, rows |-> rows]

\* Some subnets are there, one of them with an address; the page has just loaded and
\* shows a subnet unfolded.
IpamInit ==
  /\ nets = {n \in NetIds : \E m \in NetIds : n < m}
  /\ \E n \in nets, a \in Addresses :
       alloc = [i \in AllocIds |-> IF \A j \in AllocIds : i <= j
                                     THEN [net |-> n, addr |-> a, use |-> "used"] ELSE Nil]
  /\ \E n \in nets :
       ipPage = [t \in IpTabs |-> [shown |-> Reading(alloc), unfolded |-> n, loading |-> FALSE,
                                   form |-> Nil, saving |-> FALSE, netForm |-> FALSE, netSaving |-> FALSE]]
  /\ ipLoads = [t \in IpTabs |-> {}]
  /\ ipCall = [s \in IpSlots |-> IpIdle]

-----------------------------------------------------------------------------
(* The page.                                                               *)

IpPage(t, new) == ipPage' = [ipPage EXCEPT ![t] = new]
Table == <<nets, alloc>>
Ask(s, call) ==
  /\ ipCall[s] = IpIdle /\ \A o \in IpSlots : ipCall[o] = IpIdle => s <= o
  /\ ipCall' = [ipCall EXCEPT ![s] = call]

\* load(): the list gives way to a spinner until an answer is there.  GET reads the
\* subnets and then the rows, in two statements.
StartLoad(t) == ipLoads' = [ipLoads EXCEPT ![t] = @ \cup {Reading(Nil)}]

IpRefresh(t) ==
  /\ Act
  /\ ipPage[t].form = Nil /\ ~ipPage[t].netForm
  /\ StartLoad(t)
  /\ IpPage(t, [ipPage[t] EXCEPT !.loading = TRUE])
  /\ UNCHANGED <<Table, ipCall>>

ReadRows(t, l) ==
  /\ l \in ipLoads[t] /\ l.rows = Nil
  /\ ipLoads' = [ipLoads EXCEPT ![t] = (@ \ {l}) \cup {[l EXCEPT !.rows = alloc]}]
  /\ UNCHANGED <<Table, ipPage, ipCall, deskVars>>

IpArrive(t, l) ==
  /\ l \in ipLoads[t] /\ l.rows # Nil
  /\ ipLoads' = [ipLoads EXCEPT ![t] = @ \ {l}]
  /\ IpPage(t, [ipPage[t] EXCEPT !.shown = l, !.loading = FALSE])
  /\ UNCHANGED <<Table, ipCall, deskVars>>

\* A load that fails leaves the page as it is and takes the spinner away.
IpLost(t, l) ==
  /\ Act
  /\ l \in ipLoads[t]
  /\ ipLoads' = [ipLoads EXCEPT ![t] = @ \ {l}]
  /\ IpPage(t, [ipPage[t] EXCEPT !.loading = FALSE])
  /\ UNCHANGED <<Table, ipCall>>

\* The list can be used when no form is over it and it is not loading.
Listing(t) == ipPage[t].form = Nil /\ ~ipPage[t].netForm /\ ~ipPage[t].loading

Unfold(t, n) ==
  /\ Act
  /\ Listing(t) /\ n \in ipPage[t].shown.nets
  /\ IpPage(t, [ipPage[t] EXCEPT !.unfolded = IF @ = n THEN Nil ELSE n])
  /\ UNCHANGED <<Table, ipLoads, ipCall>>

\* The rows below the subnet that is unfolded.
RowsBelow(t) == {i \in AllocIds : LET row == ipPage[t].shown.rows[i] IN
                /\ Listing(t) /\ row \notin {Nil, Gone}
                /\ row.net = ipPage[t].unfolded}

\* The form of a row, or of a new one in the subnet: the address of a row stays.
OpenAllocModal(t, i) ==
  LET n == ipPage[t].unfolded IN
  /\ Act
  /\ Listing(t) /\ n \in ipPage[t].shown.nets
  /\ i = Nil \/ i \in RowsBelow(t)
  /\ IpPage(t, [ipPage[t] EXCEPT !.form =
       [id |-> i, row |-> IF i = Nil THEN [net |-> n, addr |-> Nil, use |-> "used"]
                          ELSE ipPage[t].shown.rows[i]]])
  /\ UNCHANGED <<Table, ipLoads, ipCall>>

CloseAllocModal(t) ==
  /\ Act
  /\ ipPage[t].form # Nil
  /\ IpPage(t, [ipPage[t] EXCEPT !.form = Nil])
  /\ UNCHANGED <<Table, ipLoads, ipCall>>

\* The button is disabled while an earlier save of the page is in work, that of a form
\* closed meanwhile too.
SaveAlloc(t, s, a, u) ==
  LET f == ipPage[t].form IN
  /\ Act
  /\ f # Nil /\ ~ipPage[t].saving
  /\ f.id # Nil => a = f.row.addr
  /\ Ask(s, [at |-> "asked", op |-> IF f.id = Nil THEN "add" ELSE "edit", tab |-> t, id |-> f.id,
             row |-> [f.row EXCEPT !.addr = a, !.use = u]])
  /\ IpPage(t, [ipPage[t] EXCEPT !.saving = TRUE])
  /\ UNCHANGED <<Table, ipLoads>>

DeleteAlloc(t, s, i) ==
  /\ Act
  /\ i \in RowsBelow(t)
  /\ Ask(s, [IpIdle EXCEPT !.at = "asked", !.op = "delete", !.tab = t, !.id = i])
  /\ UNCHANGED <<Table, ipPage, ipLoads>>

ToggleSubnetForm(t) ==
  /\ Act
  /\ ipPage[t].form = Nil
  /\ IpPage(t, [ipPage[t] EXCEPT !.netForm = ~@])
  /\ UNCHANGED <<Table, ipLoads, ipCall>>

SaveSubnet(t, s) ==
  /\ Act
  /\ ipPage[t].netForm /\ ~ipPage[t].netSaving
  /\ Ask(s, [IpIdle EXCEPT !.at = "asked", !.op = "subnet", !.tab = t])
  /\ IpPage(t, [ipPage[t] EXCEPT !.netSaving = TRUE])
  /\ UNCHANGED <<Table, ipLoads>>

\* Whatever the answer says, the page closes the form that is open by now and loads.
\* Without an answer it only enables the button again.
IpAnswer(s, heard) ==
  LET c == ipCall[s]
      p == ipPage[c.tab]
      free == [p EXCEPT !.saving = @ /\ c.op \notin {"add", "edit"},
                        !.netSaving = @ /\ c.op # "subnet"]
      form == IF c.op \in {"add", "edit"} THEN Nil ELSE p.form IN
  /\ c.at = "done"
  /\ ipCall' = [ipCall EXCEPT ![s] = IpIdle]
  /\ \/ /\ heard
        /\ IpPage(c.tab, [free EXCEPT !.form = form, !.netForm = @ /\ c.op # "subnet",
                                      !.loading = TRUE])
        /\ StartLoad(c.tab)
        /\ UNCHANGED deskVars
     \/ /\ ~heard
        /\ Act
        /\ IpPage(c.tab, free)
        /\ UNCHANGED ipLoads
  /\ UNCHANGED Table

-----------------------------------------------------------------------------
(* The API: one statement each.                                            *)

IpDone(s) == ipCall' = [ipCall EXCEPT ![s].at = "done"]

\* Faulty variant, for testing the properties: the row moves to the subnet of the form.
OverwrittenMoved(old, new) == new

\* ON CONFLICT (ip_address) DO UPDATE: the row keeps its id and its subnet.
Overwritten(old, new) == [old EXCEPT !.use = new.use]

AddAlloc(s) ==
  LET new == ipCall[s].row
      same == {i \in AllocIds : Held(i) /\ alloc[i].addr = new.addr} IN
  /\ ipCall[s].at = "asked" /\ ipCall[s].op = "add"
  /\ IF same = {}
       THEN \E i \in AllocIds : NextFree(i) /\ alloc' = [alloc EXCEPT ![i] = new]
       ELSE alloc' = [i \in AllocIds |-> IF i \in same THEN Overwritten(alloc[i], new) ELSE alloc[i]]
  /\ IpDone(s)
  /\ UNCHANGED <<nets, ipPage, ipLoads, deskVars>>

\* By the id of the form; a row that is gone stays so.
EditAlloc(s) ==
  LET c == ipCall[s] IN
  /\ c.at = "asked" /\ c.op = "edit"
  /\ alloc' = [alloc EXCEPT ![c.id] = IF Held(c.id) THEN [@ EXCEPT !.use = c.row.use] ELSE @]
  /\ IpDone(s)
  /\ UNCHANGED <<nets, ipPage, ipLoads, deskVars>>

RemoveAlloc(s) ==
  /\ ipCall[s].at = "asked" /\ ipCall[s].op = "delete"
  /\ alloc' = [alloc EXCEPT ![ipCall[s].id] = Gone]
  /\ IpDone(s)
  /\ UNCHANGED <<nets, ipPage, ipLoads, deskVars>>

AddSubnet(s) ==
  /\ ipCall[s].at = "asked" /\ ipCall[s].op = "subnet"
  /\ \E n \in NetIds \ nets : (\A m \in NetIds \ nets : n <= m) /\ nets' = nets \cup {n}
  /\ IpDone(s)
  /\ UNCHANGED <<alloc, ipPage, ipLoads, deskVars>>

\* The statement fails: text that is no address or no subnet, or the database.
IpFails(s) ==
  /\ Act
  /\ ipCall[s].at = "asked"
  /\ IpDone(s)
  /\ UNCHANGED <<Table, ipPage, ipLoads>>

-----------------------------------------------------------------------------
IpCallStep(s) ==
  \/ AddAlloc(s) \/ EditAlloc(s) \/ RemoveAlloc(s) \/ AddSubnet(s) \/ IpFails(s)
  \/ \E heard \in BOOLEAN : IpAnswer(s, heard)

IpamNext ==
  \/ \E t \in IpTabs :
       \/ IpRefresh(t) \/ CloseAllocModal(t) \/ ToggleSubnetForm(t)
       \/ \E n \in NetIds : Unfold(t, n)
       \/ \E i \in AllocIds \cup {Nil} : OpenAllocModal(t, i)
       \/ \E l \in ipLoads[t] : ReadRows(t, l) \/ IpArrive(t, l) \/ IpLost(t, l)
       \/ \E s \in IpSlots :
            \/ SaveSubnet(t, s)
            \/ \E a \in Addresses, u \in Uses : SaveAlloc(t, s, a, u)
            \/ \E i \in AllocIds : DeleteAlloc(t, s, i)
  \/ \E s \in IpSlots : IpCallStep(s)

IpamSpec == DeskInit /\ IpamInit /\ [][IpamNext]_<<ipamVars, deskVars>>

IpamTypeOK ==
  /\ nets \subseteq NetIds
  /\ alloc \in [AllocIds -> AllocRows \cup {Nil, Gone}]
  /\ \A t \in IpTabs : /\ ipPage[t].unfolded \in NetIds \cup {Nil}
                       /\ ipPage[t].form # Nil => ipPage[t].form.id \in AllocIds \cup {Nil}
  /\ \A s \in IpSlots : ipCall[s].op \in IpOps \cup {Nil}

\* An edit writes the row its form shows, or nothing: as long as the row of an open or
\* sent form is there it has the address and the subnet of the form, however old the
\* form is and whatever was deleted, added or added again meanwhile (route.ts:68 goes
\* by the id alone).
SameRow(i, row) == Held(i) => alloc[i].addr = row.addr /\ alloc[i].net = row.net
EditHitsItsRow ==
  /\ \A s \in IpSlots : ipCall[s].op = "edit" => SameRow(ipCall[s].id, ipCall[s].row)
  /\ \A t \in IpTabs : LET f == ipPage[t].form IN
       IF f = Nil THEN TRUE ELSE f.id # Nil => SameRow(f.id, f.row)
=============================================================================
