------------------------------ MODULE AssetDesk ------------------------------
(***************************************************************************)
(* The asset page and its API (app/api/assets/route.ts): the list with its *)
(* filters, the selection and the bulk actions, the form.  A bulk action   *)
(* is one request for each selected asset, all under way at the same time; *)
(* a request changes the row and records the change in the audit log, two  *)
(* statements.  The import modal of the page is in ImportDesk, the         *)
(* contracts are in ContractDesk.                                          *)
(***************************************************************************)
EXTENDS Desk

CONSTANTS
  StockIds,   \* ids assets may hand out, numbers
  StockTypes, \* types an operator gives
  Filters,    \* what the filters are set to: [type, life, only], Nil where not set,
              \* only the assets that search and status let through
  StockSlots  \* bound: requests in work at the same time, numbers

Lives == {"active", "decommissioned"}
StockRows == [type : StockTypes, life : Lives, active : BOOLEAN]

ASSUME StockAssumption ==
  /\ Nil \notin StockIds /\ Nil \notin StockTypes \cup Lives \cup {"delete"}
  /\ Nil \notin StockRows /\ Nil \notin [id : StockIds \cup {Nil}]
  /\ StockIds \cup StockSlots \subseteq Nat /\ IsFiniteSet(StockIds)
  /\ Filters \subseteq [type : StockTypes \cup {Nil}, life : Lives \cup {Nil},
                        only : SUBSET StockIds]

VARIABLES
  stock,      \* assets: [type, life, active], or Nil
  trail,      \* audit_logs: the kinds of entries about an asset
  stockPage,  \* rows shown, filter, selection, bulk action, form, details
  stockLoads, \* answers of GET /api/assets on their way
  stockCall,  \* the request in work in a slot
  untraced    \* history: an audit entry could not be written

stockVars == <<stock, trail, stockPage, stockLoads, stockCall, untraced>>

StockIdle == [at |-> "idle", with |-> {}]
FreeCalls == {s \in StockSlots : stockCall[s] = StockIdle}
NoFilter == [type |-> Nil, life |-> Nil, only |-> StockIds]

\* GET: the active rows that match; the page asks for the first 200 of them.
Matches(a, f) == /\ stock[a].active /\ a \in f.only
                 /\ f.type \in {Nil, stock[a].type} /\ f.life \in {Nil, stock[a].life}
Matching(f) == [a \in StockIds |->
                  IF stock[a] # Nil THEN IF Matches(a, f) THEN stock[a] ELSE Nil ELSE Nil]
OnList == {a \in StockIds : stockPage.shown[a] # Nil}

\* Some assets are there, registered one by one.
StockInit ==
  /\ stock \in [StockIds -> [type : StockTypes, life : {"active"}, active : {TRUE}] \cup {Nil}]
  /\ trail = [a \in StockIds |-> IF stock[a] = Nil THEN {} ELSE {"create"}]
  /\ stockPage = [shown |-> Matching(NoFilter), filter |-> NoFilter, selected |-> {},
                  bulk |-> Nil, form |-> Nil, expanded |-> Nil, details |-> {}]
  /\ stockLoads = {}
  /\ stockCall = [s \in StockSlots |-> StockIdle]
  /\ untraced = FALSE

-----------------------------------------------------------------------------
(* The page.                                                               *)

StockLoad(f) == stockLoads' = stockLoads \cup {Matching(f)}
StockPage(new) == stockPage' = new /\ UNCHANGED <<stock, trail, untraced>>

\* The form covers the page.
Click == Act /\ stockPage.form = Nil

StockRefresh ==
  /\ Click
  /\ StockLoad(stockPage.filter)
  /\ UNCHANGED <<stock, trail, stockPage, stockCall, untraced>>

\* A new filter loads; an answer for the old one may come after it.  The selection
\* stays, shown or not.
FilterStock(f) ==
  /\ Click
  /\ f # stockPage.filter
  /\ StockLoad(f)
  /\ StockPage([stockPage EXCEPT !.filter = f])
  /\ UNCHANGED stockCall

StockArrive(rows) ==
  /\ rows \in stockLoads
  /\ stockLoads' = stockLoads \ {rows}
  /\ StockPage([stockPage EXCEPT !.shown = rows])
  /\ UNCHANGED <<stockCall, deskVars>>

ToggleAsset(a) ==
  /\ Click
  /\ a \in OnList
  /\ StockPage([stockPage EXCEPT !.selected = IF a \in @ THEN @ \ {a} ELSE @ \cup {a}])
  /\ UNCHANGED <<stockLoads, stockCall>>

\* "All" compares numbers: as many selected as shown empties the selection.
ToggleAllAssets ==
  /\ Click
  /\ StockPage([stockPage EXCEPT !.selected =
                  IF Cardinality(@) = Cardinality(OnList) THEN {} ELSE OnList])
  /\ UNCHANGED <<stockLoads, stockCall>>

\* The bar above the list, while something is selected.
ChooseBulk(b) ==
  /\ Click
  /\ stockPage.selected # {} /\ b # stockPage.bulk
  /\ StockPage([stockPage EXCEPT !.bulk = b])
  /\ UNCHANGED <<stockLoads, stockCall>>

ClearSelection ==
  /\ Click
  /\ stockPage.selected # {}
  /\ StockPage([stockPage EXCEPT !.selected = {}])
  /\ UNCHANGED <<stockLoads, stockCall>>

Request(slots, bulk, op, id, type, life) ==
  [at |-> "asked", with |-> slots, filter |-> stockPage.filter, bulk |-> bulk,
   op |-> op, id |-> id, type |-> type, life |-> life]

\* One request for each selected asset; Promise.all waits for all of them.
BulkCall(a, slots) ==
  IF stockPage.bulk = "delete" THEN Request(slots, TRUE, "delete", a, Nil, Nil)
  ELSE Request(slots, TRUE, "update", a, Nil, stockPage.bulk)

ExecuteBulk ==
  /\ Click
  /\ stockPage.selected # {} /\ stockPage.bulk # Nil
  /\ \E slot \in [stockPage.selected -> FreeCalls] :
       LET slots == {slot[a] : a \in stockPage.selected} IN
       /\ \A a, b \in stockPage.selected : a < b => slot[a] < slot[b]
       /\ stockCall' = [s \in StockSlots |->
            IF s \in slots
              THEN BulkCall(CHOOSE a \in stockPage.selected : slot[a] = s, slots)
              ELSE stockCall[s]]
  /\ UNCHANGED <<stock, trail, stockPage, stockLoads, untraced>>

\* The row unfolds; its place in a rack, its agent and its software are asked for
\* once and kept.
ExpandAsset(a) ==
  /\ Click
  /\ a \in OnList
  /\ StockPage([stockPage EXCEPT !.expanded = IF @ = a THEN Nil ELSE a,
                                 !.details = @ \cup {a}])
  /\ UNCHANGED <<stockLoads, stockCall>>

OpenAssetForm(a) ==
  /\ Click
  /\ a \in OnList \cup {Nil}
  /\ StockPage([stockPage EXCEPT !.form = [id |-> a]])
  /\ UNCHANGED <<stockLoads, stockCall>>

CloseAssetForm ==
  /\ Act
  /\ stockPage.form # Nil
  /\ StockPage([stockPage EXCEPT !.form = Nil])
  /\ UNCHANGED <<stockLoads, stockCall>>

StockSend(op, id, type, life) ==
  \E s \in FreeCalls :
    /\ \A o \in FreeCalls : s <= o
    /\ stockCall' = [stockCall EXCEPT ![s] = Request({s}, FALSE, op, id, type, life)]

\* The form sends every field; nothing keeps it from being sent twice.
SaveAsset(type, life, bmc) ==
  LET id == stockPage.form.id IN
  /\ Act
  /\ stockPage.form # Nil
  /\ StockSend(IF id # Nil THEN "update" ELSE IF bmc THEN "create" ELSE "misfit",
               id, type, life)
  /\ UNCHANGED <<stock, trail, stockPage, stockLoads, untraced>>

DeleteAsset(a) ==
  /\ Click
  /\ a \in OnList
  /\ StockSend("delete", a, Nil, Nil)
  /\ UNCHANGED <<stock, trail, stockPage, stockLoads, untraced>>

\* All of slots are answered, well or not.  The page forgets the selection or closes
\* the form, and loads with the filter that was set when the button was pressed.
StockAnswer(slots) ==
  LET c == stockCall[CHOOSE s \in slots : TRUE] IN
  /\ slots # {} /\ \A s \in slots : stockCall[s].at = "answered"
  /\ stockCall' = [s \in StockSlots |-> IF s \in slots THEN StockIdle ELSE stockCall[s]]
  /\ StockLoad(c.filter)
  /\ StockPage(IF c.bulk THEN [stockPage EXCEPT !.selected = {}, !.bulk = Nil]
               ELSE IF c.op = "delete" THEN stockPage ELSE [stockPage EXCEPT !.form = Nil])
  /\ UNCHANGED deskVars

\* A connection breaks: the page stops waiting for all that go with it.
LoseStockAnswer(s) ==
  LET slots == stockCall[s].with IN
  /\ Act
  /\ s \in slots /\ stockCall[s].at # "answered"
  /\ stockCall' = [x \in StockSlots |->
       IF x \notin slots THEN stockCall[x]
       ELSE IF stockCall[x].at = "answered" THEN StockIdle
       ELSE [stockCall[x] EXCEPT !.with = {}]]
  /\ UNCHANGED <<stock, trail, stockPage, stockLoads, untraced>>

-----------------------------------------------------------------------------
(* The API.                                                                *)

Reply(s) == stockCall' = [stockCall EXCEPT ![s] =
              IF @.with = {} THEN StockIdle ELSE [@ EXCEPT !.at = "answered"]]
Traces(s, id) == stockCall' = [stockCall EXCEPT ![s].at = "audit", ![s].id = id]

\* POST: a new asset is active, whatever the form says.
InsertAsset(s) ==
  LET c == stockCall[s] IN
  /\ c.at = "asked" /\ c.op = "create"
  /\ \E a \in StockIds :
       /\ stock[a] = Nil /\ \A x \in StockIds : stock[x] = Nil => a <= x
       /\ stock' = [stock EXCEPT ![a] = [type |-> c.type, life |-> "active", active |-> TRUE]]
       /\ Traces(s, a)
  /\ UNCHANGED <<trail, stockPage, stockLoads, untraced, deskVars>>

\* A form without the address of the BMC sends an empty text, which POST hands to a
\* column of addresses; the database refuses it.
InsertMisfit(s) ==
  /\ stockCall[s].at = "asked" /\ stockCall[s].op = "misfit"
  /\ Reply(s)
  /\ UNCHANGED <<stock, trail, stockPage, stockLoads, untraced, deskVars>>

\* PUT: the fields of the request, of a deleted asset too.
UpdateAsset(s) ==
  LET c == stockCall[s] IN
  /\ c.at = "asked" /\ c.op = "update"
  /\ stock' = [stock EXCEPT ![c.id] =
                  [@ EXCEPT !.type = IF c.type = Nil THEN stock[c.id].type ELSE c.type,
                            !.life = c.life]]
  /\ Traces(s, c.id)
  /\ UNCHANGED <<trail, stockPage, stockLoads, untraced, deskVars>>

\* Faulty variant, for testing the properties: the deletion is not recorded.
DeactivateAssetSilently(s) ==
  LET c == stockCall[s] IN
  /\ c.at = "asked" /\ c.op = "delete"
  /\ stock' = [stock EXCEPT ![c.id].active = FALSE]
  /\ Reply(s)
  /\ UNCHANGED <<trail, stockPage, stockLoads, untraced, deskVars>>

DeactivateAsset(s) ==
  LET c == stockCall[s] IN
  /\ c.at = "asked" /\ c.op = "delete"
  /\ stock' = [stock EXCEPT ![c.id].active = FALSE]
  /\ Traces(s, c.id)
  /\ UNCHANGED <<trail, stockPage, stockLoads, untraced, deskVars>>

StockFails(s) ==
  /\ Act
  /\ stockCall[s].at = "asked"
  /\ Reply(s)
  /\ UNCHANGED <<stock, trail, stockPage, stockLoads, untraced>>

\* logAudit: an error is logged and forgotten.
LogAudit(s) ==
  LET c == stockCall[s] IN
  /\ c.at = "audit"
  /\ trail' = [trail EXCEPT ![c.id] = @ \cup {c.op}]
  /\ Reply(s)
  /\ UNCHANGED <<stock, stockPage, stockLoads, untraced, deskVars>>

LogAuditFails(s) ==
  /\ Act
  /\ stockCall[s].at = "audit"
  /\ untraced' = TRUE
  /\ Reply(s)
  /\ UNCHANGED <<stock, trail, stockPage, stockLoads>>

-----------------------------------------------------------------------------
StockWork(s) == \/ InsertAsset(s) \/ InsertMisfit(s) \/ UpdateAsset(s) \/ DeactivateAsset(s)
                \/ StockFails(s) \/ LogAudit(s) \/ LogAuditFails(s) \/ LoseStockAnswer(s)

StockNext ==
  \/ StockRefresh \/ ToggleAllAssets \/ ClearSelection \/ ExecuteBulk \/ CloseAssetForm
  \/ \E f \in Filters : FilterStock(f)
  \/ \E rows \in stockLoads : StockArrive(rows)
  \/ \E a \in StockIds : ToggleAsset(a) \/ ExpandAsset(a) \/ DeleteAsset(a)
  \/ \E a \in StockIds \cup {Nil} : OpenAssetForm(a)
  \/ \E b \in Lives \cup {"delete"} : ChooseBulk(b)
  \/ \E type \in StockTypes, life \in Lives, bmc \in BOOLEAN : SaveAsset(type, life, bmc)
  \/ \E slots \in {stockCall[s].with : s \in StockSlots} : StockAnswer(slots)
  \/ \E s \in StockSlots : StockWork(s)

StockSpec == DeskInit /\ StockInit /\ [][StockNext]_<<stockVars, deskVars>>

StockTypeOK ==
  /\ stock \in [StockIds -> StockRows \cup {Nil}]
  /\ trail \in [StockIds -> SUBSET {"create", "update", "delete"}]
  /\ stockPage.selected \subseteq StockIds /\ stockPage.details \subseteq StockIds
  /\ stockPage.bulk \in Lives \cup {"delete", Nil}
  /\ \A s \in StockSlots : /\ stockCall[s].at \in {"idle", "asked", "audit", "answered"}
                           /\ stockCall[s].with \subseteq StockSlots
  /\ untraced \in BOOLEAN

\* What happened to an asset, and is not in the audit log.
Happened(a) == IF stock[a] = Nil THEN {}
               ELSE {"create"} \cup (IF stock[a].active THEN {} ELSE {"delete"})
                               \cup (IF stock[a].life = "active" THEN {} ELSE {"update"})
Tracing(a) == {stockCall[s].op : s \in {x \in StockSlots : /\ stockCall[x].at = "audit"
                                                          /\ stockCall[x].id = a}}

\* What the page did to an asset is in the audit log or about to be, whatever other
\* requests of a bulk action fail and whether or not the page waits for the answer,
\* unless the log itself could not be written (audit.ts:27 lets that pass).
AuditTrail == ~untraced => \A a \in StockIds : Happened(a) \subseteq trail[a] \cup Tracing(a)
=============================================================================
