--------------------------- MODULE Records_proofs ---------------------------
(***************************************************************************)
(* Proofs about the areas that keep records of assets: the asset page, the *)
(* imports, the contracts, the agents that register and the organisations. *)
(* For each one the inductive invariant, that every step of the area keeps *)
(* it, and the theorem about its specification.                            *)
(***************************************************************************)
EXTENDS AssetDesk, ImportDesk, ContractDesk, OrgDesk, AgentDesk, FiniteSetTheorems,
        WellFoundedInduction, TLAPS

-----------------------------------------------------------------------------
(* The asset page and its audit log, for any assets, filters and requests  *)
(* at the same time.                                                       *)

Settings == Filters \cup {NoFilter}
StockLists == [StockIds -> StockRows \cup {Nil}]
StockPages ==
  [shown : StockLists, filter : Settings, selected : SUBSET StockIds,
   bulk : Lives \cup {"delete", Nil}, form : [id : StockIds \cup {Nil}] \cup {Nil},
   expanded : StockIds \cup {Nil}, details : SUBSET StockIds]
StockRequests ==
  [at : {"asked", "audit", "answered"}, with : SUBSET StockSlots, filter : Settings,
   bulk : BOOLEAN, op : {"create", "misfit", "update", "delete"},
   id : StockIds \cup {Nil}, type : StockTypes \cup {Nil}, life : Lives \cup {Nil}]

\* An id that was handed out stays: a row is deactivated, never deleted.
InStock(a) == a \in StockIds /\ stock[a] # Nil

\* What a request brings to the statement it is at.
StockCallFits(c) ==
  \/ c = StockIdle
  \/ /\ c \in StockRequests
     /\ c.at = "asked" =>
          /\ c.op = "create" => c.type \in StockTypes
          /\ c.op = "update" => InStock(c.id) /\ c.life \in Lives
          /\ c.op = "delete" => InStock(c.id)
     /\ c.at = "audit" => c.op # "misfit" /\ c.id \in StockIds

StockTyped ==
  /\ stock \in StockLists
  /\ trail \in [StockIds -> SUBSET {"create", "update", "delete"}]
  /\ stockPage \in StockPages
  /\ stockLoads \subseteq StockLists
  /\ DOMAIN stockCall = StockSlots
  /\ untraced \in BOOLEAN

\* Rows on the page, selected, in the form or on their way are of assets there are.
Real(rows) == \A a \in StockIds : rows[a] # Nil => InStock(a)
Shows(page, loads) ==
  /\ Real(page.shown) /\ \A rows \in loads : Real(rows)
  /\ \A a \in page.selected : InStock(a)
  /\ page.form # Nil => page.form.id = Nil \/ InStock(page.form.id)
StockSeen == Shows(stockPage, stockLoads)
StockCalls == \A s \in StockSlots : StockCallFits(stockCall[s])

\* AuditTrail, one kind of entry at a time.
Traced(a, kind) ==
  \/ kind \in trail[a]
  \/ \E s \in StockSlots : /\ stockCall[s].at = "audit" /\ stockCall[s].id = a
                           /\ stockCall[s].op = kind
Recorded(a) ==
  stock[a] # Nil => /\ Traced(a, "create")
                    /\ ~stock[a].active => Traced(a, "delete")
                    /\ stock[a].life # "active" => Traced(a, "update")
StockTraced == untraced \/ \A a \in StockIds : Recorded(a)

StockInv == StockTyped /\ StockSeen /\ StockCalls /\ StockTraced

-----------------------------------------------------------------------------
LEMMA MatchingIsReal ==
  ASSUME StockTyped, NEW f
  PROVE  Matching(f) \in StockLists /\ Real(Matching(f))
BY DEF StockTyped, Matching, StockLists, Real, InStock

LEMMA StockInitHolds == StockInit => StockInv
<1>. SUFFICES ASSUME StockInit PROVE StockInv
  OBVIOUS
<1>1. stock \in StockLists /\ \A a \in StockIds : stock[a] # Nil => /\ stock[a].active
                                                                  /\ stock[a].life = "active"
  BY DEF StockInit, StockLists, StockRows, Lives
<1>2. /\ trail \in [StockIds -> SUBSET {"create", "update", "delete"}]
      /\ \A a \in StockIds : stock[a] # Nil => "create" \in trail[a]
  BY DEF StockInit
<1>3. Matching(NoFilter) \in StockLists /\ Real(Matching(NoFilter))
  BY <1>1 DEF Matching, StockLists, Real, InStock
<1>4. stockPage \in StockPages /\ Real(stockPage.shown)
  BY <1>3 DEF StockInit, StockPages, Settings
<1>5. StockTyped
  BY <1>1, <1>2, <1>4 DEF StockInit, StockTyped
<1>6. StockSeen
  BY <1>4 DEF StockInit, StockSeen, Shows
<1>7. StockCalls
  BY DEF StockInit, StockCalls, StockCallFits
<1>8. StockTraced
  BY <1>1, <1>2 DEF StockTraced, Recorded, Traced
<1>. QED BY <1>5, <1>6, <1>7, <1>8 DEF StockInv

\* AuditTrail is what StockTraced says.
LEMMA TracedIsAudited == StockInv => AuditTrail
<1>. SUFFICES ASSUME StockInv, ~untraced, NEW a \in StockIds, NEW k \in Happened(a)
              PROVE  k \in trail[a] \cup Tracing(a)
  BY DEF AuditTrail
<1>1. Recorded(a)
  BY DEF StockInv, StockTraced
<1>2. Traced(a, k)
  <2>1. CASE k = "create"
    BY <1>1, <2>1 DEF Recorded, Happened
  <2>2. CASE k = "delete"
    BY <1>1, <2>2 DEF Recorded, Happened
  <2>3. CASE k = "update"
    BY <1>1, <2>3 DEF Recorded, Happened
  <2>. QED BY <2>1, <2>2, <2>3 DEF Happened
<1>. QED BY <1>2 DEF Traced, Tracing

-----------------------------------------------------------------------------
\* A step that neither deletes rows nor forgets a request that is at the audit log.
Keeps ==
  /\ \A a \in StockIds : InStock(a) => InStock(a)'
  /\ \A a \in StockIds : trail[a] \subseteq trail'[a]
Carries ==
  \A s \in StockSlots : stockCall[s].at = "audit" =>
    /\ stockCall'[s].at = "audit"
    /\ stockCall'[s].id = stockCall[s].id /\ stockCall'[s].op = stockCall[s].op

LEMMA TracedStays ==
  ASSUME Keeps, Carries, NEW a \in StockIds, NEW kind, Traced(a, kind)
  PROVE  Traced(a, kind)'
BY DEF Keeps, Carries, Traced

\* A step that leaves rows and audit log alone.
LEMMA StockTracedStays ==
  ASSUME StockTraced, Carries, UNCHANGED <<stock, trail, untraced>>
  PROVE  StockTraced'
<1>1. Keeps
  BY DEF Keeps, InStock
<1>2. \A a \in StockIds : Recorded(a) => Recorded(a)'
  BY <1>1, TracedStays DEF Recorded
<1>. QED BY <1>2 DEF StockTraced

\* What a step has to establish, with the rows there were before it.
LEMMA StockStands ==
  ASSUME Keeps, StockTyped', StockTraced', Shows(stockPage', stockLoads'),
         \A s \in StockSlots : StockCallFits(stockCall'[s])
  PROVE  StockInv'
<1>1. StockSeen'
  BY DEF StockSeen, Shows, Real, Keeps, InStock
<1>2. ASSUME NEW s \in StockSlots PROVE StockCallFits(stockCall[s])'
  <2>1. StockCallFits(stockCall'[s])
    OBVIOUS
  <2>. QED BY <2>1 DEF Keeps, StockCallFits, InStock
<1>. QED BY <1>1, <1>2 DEF StockInv, StockCalls

\* Steps of the page.
LEMMA StockPageStands ==
  ASSUME StockInv, UNCHANGED <<stock, trail, untraced, stockCall>>,
         stockPage' \in StockPages, stockLoads' \subseteq StockLists,
         Shows(stockPage', stockLoads')
  PROVE  StockInv'
<1>1. Keeps /\ Carries
  BY DEF Keeps, Carries, InStock
<1>2. StockTyped'
  BY DEF StockInv, StockTyped
<1>3. StockTraced'
  BY <1>1, StockTracedStays DEF StockInv
<1>. QED BY <1>1, <1>2, <1>3, StockStands DEF StockInv, StockCalls

\* Steps of a request before or after the two statements.
LEMMA StockCallStands ==
  ASSUME StockInv, UNCHANGED <<stock, trail, untraced>>, Carries,
         stockPage' \in StockPages, stockLoads' \subseteq StockLists,
         Shows(stockPage', stockLoads'), DOMAIN stockCall' = StockSlots,
         \A s \in StockSlots : StockCallFits(stockCall'[s])
  PROVE  StockInv'
<1>1. Keeps
  BY DEF Keeps, InStock
<1>2. StockTyped'
  BY DEF StockInv, StockTyped
<1>3. StockTraced'
  BY <1>1, StockTracedStays DEF StockInv
<1>. QED BY <1>1, <1>2, <1>3, StockStands DEF StockInv, StockCalls

-----------------------------------------------------------------------------
LEMMA StockPageSteps ==
  ASSUME StockInv,
         \/ StockRefresh \/ ToggleAllAssets \/ ClearSelection \/ CloseAssetForm
         \/ \E f \in Filters : FilterStock(f)
         \/ \E rows \in stockLoads : StockArrive(rows)
         \/ \E a \in StockIds : ToggleAsset(a) \/ ExpandAsset(a)
         \/ \E a \in StockIds \cup {Nil} : OpenAssetForm(a)
         \/ \E b \in Lives \cup {"delete"} : ChooseBulk(b)
  PROVE  StockInv'
<1>. /\ StockTyped /\ Shows(stockPage, stockLoads)
     /\ stockPage \in StockPages /\ stockLoads \subseteq StockLists
  BY DEF StockInv, StockTyped, StockSeen
<1>0. OnList \subseteq StockIds /\ \A a \in OnList : InStock(a)
  BY DEF OnList, Shows, Real, InStock
<1>1. CASE StockRefresh
  <2>1. Matching(stockPage.filter) \in StockLists /\ Real(Matching(stockPage.filter))
    BY MatchingIsReal
  <2>2. Shows(stockPage', stockLoads') /\ stockLoads' \subseteq StockLists
    BY <1>1, <2>1 DEF StockRefresh, StockLoad, Shows
  <2>. QED BY <1>1, <2>2, StockPageStands DEF StockRefresh
<1>2. ASSUME NEW f \in Filters, FilterStock(f) PROVE StockInv'
  <2>1. Matching(f) \in StockLists /\ Real(Matching(f))
    BY MatchingIsReal
  <2>2. stockPage' = [stockPage EXCEPT !.filter = f] /\ stockLoads' = stockLoads \cup {Matching(f)}
    BY <1>2 DEF FilterStock, StockLoad, StockPage
  <2>3. stockPage' \in StockPages
    BY <2>2 DEF StockPages, Settings
  <2>4. Shows(stockPage', stockLoads') /\ stockLoads' \subseteq StockLists
    BY <2>1, <2>2 DEF Shows, StockPages
  <2>. QED BY <1>2, <2>3, <2>4, StockPageStands DEF FilterStock, StockPage
<1>3. ASSUME NEW rows \in stockLoads, StockArrive(rows) PROVE StockInv'
  <2>1. stockPage' = [stockPage EXCEPT !.shown = rows] /\ stockLoads' = stockLoads \ {rows}
    BY <1>3 DEF StockArrive, StockPage
  <2>2. stockPage' \in StockPages
    BY <2>1 DEF StockPages
  <2>3. Shows(stockPage', stockLoads') /\ stockLoads' \subseteq StockLists
    BY <2>1 DEF Shows, StockPages
  <2>. QED BY <1>3, <2>2, <2>3, StockPageStands DEF StockArrive, StockPage
<1>4. ASSUME NEW sel \in SUBSET StockIds, \A a \in sel : InStock(a),
             StockPage([stockPage EXCEPT !.selected = sel]), UNCHANGED <<stockLoads, stockCall>>
      PROVE  StockInv'
  <2>1. stockPage' \in StockPages
    BY <1>4 DEF StockPages, StockPage
  <2>2. Shows(stockPage', stockLoads')
    BY <1>4 DEF Shows, StockPages, StockPage
  <2>. QED BY <1>4, <2>1, <2>2, StockPageStands DEF StockPage
<1>5. CASE ToggleAllAssets
  <2>1. PICK sel \in SUBSET StockIds : /\ \A a \in sel : InStock(a)
                                       /\ StockPage([stockPage EXCEPT !.selected = sel])
    BY <1>0, <1>5 DEF ToggleAllAssets
  <2>. QED BY <1>4, <1>5, <2>1 DEF ToggleAllAssets
<1>6. CASE ClearSelection
  <2>1. /\ {} \in SUBSET StockIds /\ StockPage([stockPage EXCEPT !.selected = {}])
        /\ UNCHANGED <<stockLoads, stockCall>>
    BY <1>6 DEF ClearSelection
  <2>. QED BY <1>4, <2>1
<1>7. ASSUME NEW a \in StockIds, ToggleAsset(a) PROVE StockInv'
  <2>. DEFINE sel == IF a \in stockPage.selected THEN stockPage.selected \ {a}
                     ELSE stockPage.selected \cup {a}
  <2>1. sel \in SUBSET StockIds /\ \A x \in sel : InStock(x)
    BY <1>0, <1>7 DEF ToggleAsset, Shows, StockPages
  <2>2. StockPage([stockPage EXCEPT !.selected = sel]) /\ UNCHANGED <<stockLoads, stockCall>>
    BY <1>7 DEF ToggleAsset
  <2>. HIDE DEF sel
  <2>. QED BY <1>4, <2>1, <2>2
<1>8. ASSUME NEW a \in StockIds, ExpandAsset(a) PROVE StockInv'
  <2>1. stockPage' \in StockPages
    BY <1>8 DEF StockPages, StockPage, ExpandAsset
  <2>2. Shows(stockPage', stockLoads')
    BY <1>8 DEF Shows, StockPages, StockPage, ExpandAsset
  <2>. QED BY <1>8, <2>1, <2>2, StockPageStands DEF StockPage, ExpandAsset
<1>9. ASSUME NEW a \in StockIds \cup {Nil}, OpenAssetForm(a) PROVE StockInv'
  <2>1. stockPage' \in StockPages
    BY <1>9 DEF StockPages, StockPage, OpenAssetForm
  <2>2. Shows(stockPage', stockLoads')
    BY <1>0, <1>9 DEF Shows, StockPages, StockPage, OpenAssetForm
  <2>. QED BY <1>9, <2>1, <2>2, StockPageStands DEF StockPage, OpenAssetForm
<1>10. CASE CloseAssetForm
  <2>1. stockPage' \in StockPages
    BY <1>10 DEF StockPages, StockPage, CloseAssetForm
  <2>2. Shows(stockPage', stockLoads')
    BY <1>10 DEF Shows, StockPages, StockPage, CloseAssetForm
  <2>. QED BY <1>10, <2>1, <2>2, StockPageStands DEF StockPage, CloseAssetForm
<1>11. ASSUME NEW b \in Lives \cup {"delete"}, ChooseBulk(b) PROVE StockInv'
  <2>1. stockPage' \in StockPages
    BY <1>11 DEF StockPages, StockPage, ChooseBulk
  <2>2. Shows(stockPage', stockLoads')
    BY <1>11 DEF Shows, StockPages, StockPage, ChooseBulk
  <2>. QED BY <1>11, <2>1, <2>2, StockPageStands DEF StockPage, ChooseBulk
<1>. QED BY <1>1, <1>2, <1>3, <1>5, <1>6, <1>7, <1>8, <1>9, <1>10, <1>11

-----------------------------------------------------------------------------
\* A request of the page.
LEMMA RequestFits ==
  ASSUME StockTyped, NEW slots \in SUBSET StockSlots,
         NEW op \in {"create", "misfit", "update", "delete"}, NEW id \in StockIds \cup {Nil},
         NEW type \in StockTypes \cup {Nil}, NEW life \in Lives \cup {Nil}, NEW bulk \in BOOLEAN,
         op = "create" => type \in StockTypes,
         op = "update" => InStock(id) /\ life \in Lives,
         op = "delete" => InStock(id)
  PROVE  LET c == Request(slots, bulk, op, id, type, life)
         IN  StockCallFits(c) /\ c.at = "asked" /\ c # StockIdle
<1>. DEFINE c == Request(slots, bulk, op, id, type, life)
<1>1. stockPage.filter \in Settings
  BY DEF StockTyped, StockPages
<1>2. c \in StockRequests /\ c.at = "asked" /\ c.op = op /\ c.id = id /\ c.type = type
      /\ c.life = life
  BY <1>1 DEF StockRequests, Request
<1>3. c # StockIdle
  BY <1>2 DEF StockIdle
<1>. HIDE DEF c
<1>4. StockCallFits(c)
  BY <1>2 DEF StockCallFits
<1>. QED BY <1>2, <1>3, <1>4 DEF c

\* It goes to a free slot.
LEMMA StockSendStands ==
  ASSUME StockInv, NEW op, NEW id, NEW type, NEW life, StockSend(op, id, type, life),
         op \in {"create", "misfit", "update", "delete"}, id \in StockIds \cup {Nil},
         type \in StockTypes \cup {Nil}, life \in Lives \cup {Nil},
         op = "create" => type \in StockTypes,
         op = "update" => InStock(id) /\ life \in Lives,
         op = "delete" => InStock(id),
         UNCHANGED <<stock, trail, stockPage, stockLoads, untraced>>
  PROVE  StockInv'
<1>. /\ StockTyped /\ Shows(stockPage, stockLoads) /\ StockCalls
     /\ stockPage \in StockPages /\ stockLoads \subseteq StockLists
  BY DEF StockInv, StockTyped, StockSeen
<1>. DEFINE c(s) == Request({s}, FALSE, op, id, type, life)
<1>1. PICK s \in FreeCalls : stockCall' = [stockCall EXCEPT ![s] = c(s)]
  BY DEF StockSend
<1>2. s \in StockSlots /\ stockCall[s] = StockIdle
  BY <1>1 DEF FreeCalls
<1>3. StockCallFits(c(s))
  BY <1>2, RequestFits
<1>. HIDE DEF c
<1>4. DOMAIN stockCall' = StockSlots /\ \A x \in StockSlots : StockCallFits(stockCall'[x])
  BY <1>1, <1>2, <1>3 DEF StockTyped, StockCalls
<1>5. Carries
  BY <1>1, <1>2 DEF Carries, StockIdle, StockTyped
<1>6. Shows(stockPage', stockLoads')
  BY DEF Shows
<1>. QED BY <1>4, <1>5, <1>6, StockCallStands

LEMMA StockSendSteps ==
  ASSUME StockInv,
         \/ ExecuteBulk
         \/ \E a \in StockIds : DeleteAsset(a)
         \/ \E type \in StockTypes, life \in Lives, bmc \in BOOLEAN : SaveAsset(type, life, bmc)
  PROVE  StockInv'
<1>. /\ StockTyped /\ Shows(stockPage, stockLoads) /\ StockCalls
     /\ stockPage \in StockPages /\ stockLoads \subseteq StockLists
  BY DEF StockInv, StockTyped, StockSeen
<1>1. ASSUME NEW a \in StockIds, DeleteAsset(a) PROVE StockInv'
  <2>1. InStock(a)
    BY <1>1 DEF DeleteAsset, OnList, Shows, Real
  <2>2. /\ StockSend("delete", a, Nil, Nil)
        /\ UNCHANGED <<stock, trail, stockPage, stockLoads, untraced>>
    BY <1>1 DEF DeleteAsset
  <2>. QED BY <2>1, <2>2, StockSendStands
<1>2. ASSUME NEW type \in StockTypes, NEW life \in Lives, NEW bmc \in BOOLEAN,
             SaveAsset(type, life, bmc)
      PROVE  StockInv'
  <2>. DEFINE id == stockPage.form.id
              op == IF id # Nil THEN "update" ELSE IF bmc THEN "create" ELSE "misfit"
  <2>1. stockPage.form # Nil /\ stockPage.form \in [id : StockIds \cup {Nil}]
    BY <1>2 DEF SaveAsset, StockPages
  <2>2. id \in StockIds \cup {Nil} /\ (op = "update" => InStock(id))
        /\ op \in {"create", "misfit", "update"}
    BY <2>1 DEF Shows
  <2>3. StockSend(op, id, type, life)
        /\ UNCHANGED <<stock, trail, stockPage, stockLoads, untraced>>
    BY <1>2 DEF SaveAsset
  <2>. HIDE DEF id, op
  <2>. QED BY <2>2, <2>3, StockSendStands
<1>3. CASE ExecuteBulk
  <2>1. PICK slot \in [stockPage.selected -> FreeCalls] :
          /\ \A a, b \in stockPage.selected : a < b => slot[a] < slot[b]
          /\ stockCall' = [s \in StockSlots |->
               IF s \in {slot[a] : a \in stockPage.selected}
                 THEN BulkCall(CHOOSE a \in stockPage.selected : slot[a] = s,
                               {slot[a] : a \in stockPage.selected})
                 ELSE stockCall[s]]
    BY <1>3 DEF ExecuteBulk
  <2>. DEFINE slots == {slot[a] : a \in stockPage.selected}
              who(s) == CHOOSE a \in stockPage.selected : slot[a] = s
  <2>2. slots \subseteq FreeCalls
    OBVIOUS
  <2>3. slots \in SUBSET StockSlots /\ \A s \in slots : stockCall[s] = StockIdle
    BY <2>2 DEF FreeCalls
  <2>4. \A s \in slots : who(s) \in stockPage.selected
    OBVIOUS
  <2>5. stockCall' = [s \in StockSlots |-> IF s \in slots THEN BulkCall(who(s), slots)
                                          ELSE stockCall[s]]
    BY <2>1
  <2>6. stockPage.bulk \in Lives \cup {"delete"} /\ stockPage.selected \subseteq StockIds
    BY <1>3 DEF ExecuteBulk, StockPages
  <2>. HIDE DEF slots, who
  <2>7. ASSUME NEW s \in slots PROVE StockCallFits(BulkCall(who(s), slots))
    <3>1. PICK a \in StockIds : a = who(s) /\ InStock(a)
      BY <2>4, <2>6, <2>7 DEF Shows
    <3>2. CASE stockPage.bulk = "delete"
      <4>1. BulkCall(a, slots) = Request(slots, TRUE, "delete", a, Nil, Nil)
        BY <3>2 DEF BulkCall
      <4>2. StockCallFits(Request(slots, TRUE, "delete", a, Nil, Nil))
        BY <2>3, <3>1, RequestFits
      <4>. QED BY <3>1, <4>1, <4>2
    <3>3. CASE stockPage.bulk # "delete"
      <4>1. BulkCall(a, slots) = Request(slots, TRUE, "update", a, Nil, stockPage.bulk)
        BY <3>3 DEF BulkCall
      <4>2. stockPage.bulk \in Lives
        BY <2>6, <3>3
      <4>3. StockCallFits(Request(slots, TRUE, "update", a, Nil, stockPage.bulk))
        BY <2>3, <3>1, <4>2, RequestFits
      <4>. QED BY <3>1, <4>1, <4>3
    <3>. QED BY <3>2, <3>3
  <2>8. DOMAIN stockCall' = StockSlots /\ \A x \in StockSlots : StockCallFits(stockCall'[x])
    BY <2>5, <2>7 DEF StockCalls
  <2>9. Carries
    BY <2>3, <2>5 DEF Carries, StockIdle
  <2>10. Shows(stockPage', stockLoads')
    BY <1>3 DEF Shows, ExecuteBulk
  <2>. QED BY <1>3, <2>8, <2>9, <2>10, StockCallStands DEF ExecuteBulk
<1>. QED BY <1>1, <1>2, <1>3

-----------------------------------------------------------------------------
\* What changes of a request whose statements are not under way.
LEMMA StockAnswerSteps ==
  ASSUME StockInv,
         \/ \E slots \in {stockCall[s].with : s \in StockSlots} : StockAnswer(slots)
         \/ \E s \in StockSlots : LoseStockAnswer(s) \/ InsertMisfit(s) \/ StockFails(s)
  PROVE  StockInv'
<1>. /\ StockTyped /\ Shows(stockPage, stockLoads) /\ StockCalls
     /\ stockPage \in StockPages /\ stockLoads \subseteq StockLists
  BY DEF StockInv, StockTyped, StockSeen
<1>1. ASSUME NEW s0 \in StockSlots, NEW slots, slots = stockCall[s0].with, StockAnswer(slots)
      PROVE  StockInv'
  <2>. DEFINE c == stockCall[CHOOSE s \in slots : TRUE]
              some == CHOOSE s \in slots : TRUE
  <2>1. slots \subseteq StockSlots /\ slots # {}
    BY <1>1 DEF StockAnswer, StockCalls, StockCallFits, StockIdle, StockRequests
  <2>2. some \in slots
    BY <2>1
  <2>3. c = stockCall[some] /\ c.at = "answered"
    BY <1>1, <2>2 DEF StockAnswer
  <2>4. some \in StockSlots
    BY <2>1, <2>2
  <2>. HIDE DEF some
  <2>5. c \in StockRequests
    BY <2>3, <2>4 DEF StockCalls, StockCallFits, StockIdle
  <2>6. /\ stockLoads' = stockLoads \cup {Matching(c.filter)}
        /\ stockCall' = [s \in StockSlots |-> IF s \in slots THEN StockIdle ELSE stockCall[s]]
        /\ UNCHANGED <<stock, trail, untraced>>
        /\ \/ stockPage' = [stockPage EXCEPT !.selected = {}, !.bulk = Nil]
           \/ stockPage' = stockPage
           \/ stockPage' = [stockPage EXCEPT !.form = Nil]
    BY <1>1 DEF StockAnswer, StockLoad, StockPage
  <2>. HIDE DEF c
  <2>7. Matching(c.filter) \in StockLists /\ Real(Matching(c.filter))
    BY MatchingIsReal
  <2>8. stockPage' \in StockPages
    <3>1. CASE stockPage' = [stockPage EXCEPT !.selected = {}, !.bulk = Nil]
      BY <3>1 DEF StockPages
    <3>2. CASE stockPage' = [stockPage EXCEPT !.form = Nil]
      BY <3>2 DEF StockPages
    <3>. QED BY <2>6, <3>1, <3>2
  <2>9. Shows(stockPage', stockLoads') /\ stockLoads' \subseteq StockLists
    <3>1. CASE stockPage' = [stockPage EXCEPT !.selected = {}, !.bulk = Nil]
      BY <2>6, <2>7, <3>1 DEF StockPages, Shows
    <3>2. CASE stockPage' = [stockPage EXCEPT !.form = Nil]
      BY <2>6, <2>7, <3>2 DEF StockPages, Shows
    <3>3. CASE stockPage' = stockPage
      BY <2>6, <2>7, <3>3 DEF Shows
    <3>. QED BY <2>6, <3>1, <3>2, <3>3
  <2>10. \A s \in slots : stockCall[s].at = "answered"
    BY <1>1 DEF StockAnswer
  <2>11. Carries
    BY <2>6, <2>10 DEF Carries
  <2>12. DOMAIN stockCall' = StockSlots /\ \A s \in StockSlots : StockCallFits(stockCall'[s])
    BY <2>6 DEF StockCalls, StockCallFits
  <2>. QED BY <2>6, <2>8, <2>9, <2>11, <2>12, StockCallStands
<1>2. ASSUME NEW s \in StockSlots, LoseStockAnswer(s) PROVE StockInv'
  <2>1. /\ stockCall' = [x \in StockSlots |->
             IF x \notin stockCall[s].with THEN stockCall[x]
             ELSE IF stockCall[x].at = "answered" THEN StockIdle
             ELSE [stockCall[x] EXCEPT !.with = {}]]
        /\ UNCHANGED <<stock, trail, stockPage, stockLoads, untraced>>
    BY <1>2 DEF LoseStockAnswer
  <2>2. ASSUME NEW x \in StockSlots PROVE StockCallFits([stockCall[x] EXCEPT !.with = {}])
    <3>1. StockCallFits(stockCall[x])
      BY DEF StockCalls
    <3>2. CASE stockCall[x] = StockIdle
      BY <3>2 DEF StockIdle, StockCallFits
    <3>3. CASE stockCall[x] # StockIdle
      BY <3>1, <3>3 DEF StockCallFits, StockRequests
    <3>. QED BY <3>2, <3>3
  <2>3. \A x \in StockSlots : StockCallFits(stockCall'[x])
    BY <2>1, <2>2 DEF StockCalls, StockCallFits
  <2>4. ASSUME NEW x \in StockSlots, stockCall[x].at = "audit"
        PROVE  LET d == [stockCall[x] EXCEPT !.with = {}]
               IN  d.at = "audit" /\ d.id = stockCall[x].id /\ d.op = stockCall[x].op
    BY <2>4 DEF StockCalls, StockCallFits, StockIdle, StockRequests
  <2>5. Carries
    BY <2>1, <2>4 DEF Carries
  <2>6. Shows(stockPage', stockLoads')
    BY <2>1 DEF Shows
  <2>. QED BY <2>1, <2>3, <2>5, <2>6, StockCallStands
<1>3. ASSUME NEW s \in StockSlots, stockCall[s].at = "asked", Reply(s),
             UNCHANGED <<stock, trail, stockPage, stockLoads, untraced>>
      PROVE  StockInv'
  <2>. DEFINE d == IF stockCall[s].with = {} THEN StockIdle
                   ELSE [stockCall[s] EXCEPT !.at = "answered"]
  <2>1. stockCall' = [stockCall EXCEPT ![s] = d]
    BY <1>3 DEF Reply
  <2>2. StockCallFits(d)
    BY <1>3 DEF StockCalls, StockCallFits, StockIdle, StockRequests
  <2>. HIDE DEF d
  <2>3. DOMAIN stockCall' = StockSlots /\ \A x \in StockSlots : StockCallFits(stockCall'[x])
    BY <2>1, <2>2 DEF StockTyped, StockCalls
  <2>4. Carries
    BY <1>3, <2>1 DEF Carries, StockTyped
  <2>5. Shows(stockPage', stockLoads')
    BY <1>3 DEF Shows
  <2>. QED BY <1>3, <2>3, <2>4, <2>5, StockCallStands
<1>4. ASSUME NEW s \in StockSlots, InsertMisfit(s) PROVE StockInv'
  BY <1>3, <1>4 DEF InsertMisfit
<1>5. ASSUME NEW s \in StockSlots, StockFails(s) PROVE StockInv'
  BY <1>3, <1>5 DEF StockFails
<1>. QED BY <1>1, <1>2, <1>4, <1>5

-----------------------------------------------------------------------------
\* The request goes from the asset's statement to the log's.
LEMMA TracesFits ==
  ASSUME StockInv, NEW s \in StockSlots, NEW a \in StockIds, stockCall[s].at = "asked",
         stockCall[s].op # "misfit", Traces(s, a)
  PROVE  /\ DOMAIN stockCall' = StockSlots /\ Carries
         /\ \A x \in StockSlots : StockCallFits(stockCall'[x])
         /\ stockCall'[s].at = "audit" /\ stockCall'[s].id = a
         /\ stockCall'[s].op = stockCall[s].op
<1>. DEFINE d == [stockCall[s] EXCEPT !.at = "audit", !.id = a]
<1>1. stockCall' = [stockCall EXCEPT ![s].at = "audit", ![s].id = a] /\ DOMAIN stockCall = StockSlots
  BY DEF Traces, StockInv, StockTyped
<1>2. DOMAIN stockCall' = StockSlots /\ stockCall'[s] = d
      /\ \A x \in StockSlots : x # s => stockCall'[x] = stockCall[x]
  BY <1>1
<1>3. stockCall[s] \in StockRequests
  BY DEF StockInv, StockCalls, StockCallFits, StockIdle
<1>4. /\ d \in StockRequests /\ d.at = "audit" /\ d.id = a /\ d.op = stockCall[s].op
  BY <1>3 DEF StockRequests
<1>. HIDE DEF d
<1>5. StockCallFits(d)
  BY <1>4 DEF StockCallFits
<1>6. \A x \in StockSlots : StockCallFits(stockCall'[x])
  BY <1>2, <1>5 DEF StockInv, StockCalls
<1>7. Carries
  BY <1>2 DEF Carries
<1>. QED BY <1>2, <1>4, <1>6, <1>7

\* One row changes and stays a row; what is new about it is about to be logged.
LEMMA RowStepStands ==
  ASSUME StockInv, NEW s \in StockSlots, NEW a \in StockIds, NEW row \in StockRows,
         stockCall[s].at = "asked", stockCall[s].op # "misfit", Traces(s, a),
         stock' = [stock EXCEPT ![a] = row],
         UNCHANGED <<trail, stockPage, stockLoads, untraced>>,
         \/ stock[a] = Nil /\ stockCall[s].op = "create" /\ row.active /\ row.life = "active"
         \/ /\ stock[a] # Nil
            /\ row.active = stock[a].active \/ stockCall[s].op = "delete"
            /\ row.life = stock[a].life \/ stockCall[s].op = "update"
  PROVE  StockInv'
<1>. StockTyped /\ StockCalls /\ StockTraced /\ Shows(stockPage, stockLoads)
  BY DEF StockInv, StockSeen
<1>0. row # Nil /\ stock \in StockLists
  BY StockAssumption DEF StockTyped
<1>1. /\ DOMAIN stockCall' = StockSlots /\ Carries
      /\ \A x \in StockSlots : StockCallFits(stockCall'[x])
      /\ stockCall'[s].at = "audit" /\ stockCall'[s].id = a
      /\ stockCall'[s].op = stockCall[s].op
  BY TracesFits
<1>2. stock' \in StockLists /\ stock'[a] = row
      /\ \A x \in StockIds : x # a => stock'[x] = stock[x]
  BY <1>0 DEF StockLists
<1>3. Keeps
  BY <1>0, <1>2 DEF Keeps, InStock
<1>4. StockTyped'
  BY <1>1, <1>2 DEF StockTyped
<1>5. Shows(stockPage', stockLoads')
  BY DEF Shows
<1>6. ASSUME NEW kind, kind = stockCall[s].op PROVE Traced(a, kind)'
  BY <1>1, <1>6 DEF Traced
<1>7. ASSUME NEW x \in StockIds, NEW kind, Traced(x, kind) PROVE Traced(x, kind)'
  <2>. QED BY <1>1, <1>3, <1>7, TracedStays
<1>8. ASSUME ~untraced PROVE Recorded(a)'
  <2>1. Recorded(a)
    BY <1>8 DEF StockTraced
  <2>2. CASE stock[a] = Nil
    <3>1. row.active /\ row.life = "active" /\ Traced(a, "create")'
      BY <1>6, <2>2
    <3>. QED BY <1>2, <3>1 DEF Recorded
  <2>3. CASE stock[a] # Nil
    <3>1. Traced(a, "create")'
      BY <1>7, <2>1, <2>3 DEF Recorded
    <3>2. ASSUME ~row.active PROVE Traced(a, "delete")'
      <4>1. CASE stockCall[s].op = "delete"
        BY <1>6, <4>1
      <4>2. CASE row.active = stock[a].active
        BY <1>7, <2>1, <2>3, <3>2, <4>2 DEF Recorded
      <4>. QED BY <2>3, <4>1, <4>2
    <3>3. ASSUME row.life # "active" PROVE Traced(a, "update")'
      <4>1. CASE stockCall[s].op = "update"
        BY <1>6, <4>1
      <4>2. CASE row.life = stock[a].life
        BY <1>7, <2>1, <2>3, <3>3, <4>2 DEF Recorded
      <4>. QED BY <2>3, <4>1, <4>2
    <3>. QED BY <1>2, <3>1, <3>2, <3>3 DEF Recorded
  <2>. QED BY <2>2, <2>3
<1>9. ASSUME ~untraced, NEW x \in StockIds, x # a PROVE Recorded(x)'
  <2>1. Recorded(x)
    BY <1>9 DEF StockTraced
  <2>. QED BY <1>2, <1>7, <1>9, <2>1 DEF Recorded
<1>10. StockTraced'
  BY <1>8, <1>9 DEF StockTraced
<1>. QED BY <1>1, <1>3, <1>4, <1>5, <1>10, StockStands

LEMMA StockStatementSteps ==
  ASSUME StockInv, NEW s \in StockSlots, InsertAsset(s) \/ UpdateAsset(s) \/ DeactivateAsset(s)
  PROVE  StockInv'
<1>. DEFINE c == stockCall[s]
<1>0. StockTyped /\ StockCallFits(c) /\ stock \in StockLists
  BY DEF StockInv, StockTyped, StockCalls
<1>1. CASE InsertAsset(s)
  <2>1. PICK a \in StockIds :
          /\ stock[a] = Nil /\ Traces(s, a)
          /\ stock' = [stock EXCEPT ![a] = [type |-> c.type, life |-> "active", active |-> TRUE]]
    BY <1>1 DEF InsertAsset
  <2>2. c.at = "asked" /\ c.op = "create" /\ UNCHANGED <<trail, stockPage, stockLoads, untraced>>
    BY <1>1 DEF InsertAsset
  <2>3. c.type \in StockTypes
    BY <1>0, <2>2 DEF StockCallFits, StockIdle
  <2>4. PICK row \in StockRows : row = [type |-> c.type, life |-> "active", active |-> TRUE]
    BY <2>3 DEF StockRows, Lives
  <2>5. row.active /\ row.life = "active"
    BY <2>4
  <2>. QED BY <2>1, <2>2, <2>4, <2>5, RowStepStands
<1>2. CASE UpdateAsset(s)
  <2>1. c.at = "asked" /\ c.op = "update" /\ UNCHANGED <<trail, stockPage, stockLoads, untraced>>
        /\ Traces(s, c.id)
        /\ stock' = [stock EXCEPT ![c.id] =
                [stock[c.id] EXCEPT !.type = IF c.type = Nil THEN stock[c.id].type ELSE c.type,
                                    !.life = c.life]]
    BY <1>2 DEF UpdateAsset
  <2>2. /\ InStock(c.id) /\ c.life \in Lives /\ c.type \in StockTypes \cup {Nil}
    BY <1>0, <2>1 DEF StockCallFits, StockIdle, StockRequests
  <2>3. stock[c.id] \in StockRows
    BY <1>0, <2>2 DEF InStock, StockLists
  <2>4. PICK row :
          row = [stock[c.id] EXCEPT !.type = IF c.type = Nil THEN stock[c.id].type ELSE c.type,
                                    !.life = c.life]
    OBVIOUS
  <2>5. row \in StockRows /\ row.active = stock[c.id].active
    BY <2>2, <2>3, <2>4 DEF StockRows
  <2>6. stock' = [stock EXCEPT ![c.id] = row]
    BY <2>1, <2>4
  <2>. QED BY <2>1, <2>2, <2>5, <2>6, RowStepStands DEF InStock
<1>3. CASE DeactivateAsset(s)
  <2>1. c.at = "asked" /\ c.op = "delete" /\ UNCHANGED <<trail, stockPage, stockLoads, untraced>>
        /\ Traces(s, c.id) /\ stock' = [stock EXCEPT ![c.id].active = FALSE]
    BY <1>3 DEF DeactivateAsset
  <2>2. InStock(c.id)
    BY <1>0, <2>1 DEF StockCallFits, StockIdle
  <2>3. stock[c.id] \in StockRows
    BY <1>0, <2>2 DEF InStock, StockLists
  <2>4. PICK row : row = [stock[c.id] EXCEPT !.active = FALSE]
    OBVIOUS
  <2>5. row \in StockRows /\ row.life = stock[c.id].life
    BY <2>3, <2>4 DEF StockRows
  <2>6. stock' = [stock EXCEPT ![c.id] = row]
    BY <2>1, <2>4
  <2>. QED BY <2>1, <2>2, <2>5, <2>6, RowStepStands DEF InStock
<1>. QED BY <1>1, <1>2, <1>3

LEMMA StockLogSteps ==
  ASSUME StockInv, NEW s \in StockSlots, LogAudit(s) \/ LogAuditFails(s)
  PROVE  StockInv'
<1>. StockTyped /\ StockCalls /\ StockTraced /\ Shows(stockPage, stockLoads)
  BY DEF StockInv, StockSeen
<1>. DEFINE c == stockCall[s]
            d == IF c.with = {} THEN StockIdle ELSE [c EXCEPT !.at = "answered"]
<1>1. c.at = "audit" /\ Reply(s) /\ UNCHANGED <<stock, stockPage, stockLoads>>
  BY DEF LogAudit, LogAuditFails
<1>2. c \in StockRequests /\ c.op \in {"create", "update", "delete"} /\ c.id \in StockIds
  BY <1>1 DEF StockCalls, StockCallFits, StockIdle, StockRequests
<1>3. stockCall' = [stockCall EXCEPT ![s] = d]
  BY <1>1 DEF Reply
<1>4. StockCallFits(d)
  BY <1>1, <1>2 DEF StockCallFits, StockIdle, StockRequests
<1>. HIDE DEF d
<1>5. DOMAIN stockCall' = StockSlots /\ \A x \in StockSlots : StockCallFits(stockCall'[x])
  BY <1>3, <1>4 DEF StockTyped, StockCalls
<1>6. Shows(stockPage', stockLoads')
  BY <1>1 DEF Shows
<1>7. CASE LogAudit(s)
  <2>1. trail' = [trail EXCEPT ![c.id] = @ \cup {c.op}] /\ UNCHANGED untraced
    BY <1>7 DEF LogAudit
  <2>2. /\ trail' \in [StockIds -> SUBSET {"create", "update", "delete"}]
        /\ \A a \in StockIds : trail[a] \subseteq trail'[a]
        /\ c.op \in trail'[c.id]
    BY <1>2, <2>1 DEF StockTyped
  <2>3. Keeps
    BY <1>1, <2>2 DEF Keeps, InStock
  <2>4. StockTyped'
    BY <1>1, <1>5, <2>1, <2>2 DEF StockTyped
  <2>5. ASSUME NEW a \in StockIds, NEW kind, Traced(a, kind) PROVE Traced(a, kind)'
    <3>1. CASE kind \in trail[a]
      BY <2>2, <3>1 DEF Traced
    <3>2. CASE kind \notin trail[a]
      <4>1. PICK x \in StockSlots : /\ stockCall[x].at = "audit" /\ stockCall[x].id = a
                                    /\ stockCall[x].op = kind
        BY <2>5, <3>2 DEF Traced
      <4>2. CASE x = s
        BY <2>2, <4>1, <4>2 DEF Traced
      <4>3. CASE x # s
        BY <1>3, <4>1, <4>3 DEF Traced, StockTyped
      <4>. QED BY <4>2, <4>3
    <3>. QED BY <3>1, <3>2
  <2>6. StockTraced'
    BY <1>1, <2>1, <2>5 DEF StockTraced, Recorded
  <2>. QED BY <1>5, <1>6, <2>3, <2>4, <2>6, StockStands
<1>8. CASE LogAuditFails(s)
  <2>1. untraced' = TRUE /\ UNCHANGED trail
    BY <1>8 DEF LogAuditFails
  <2>2. Keeps
    BY <1>1, <2>1 DEF Keeps, InStock
  <2>3. StockTyped' /\ StockTraced'
    BY <1>1, <1>5, <2>1 DEF StockTyped, StockTraced
  <2>. QED BY <1>5, <1>6, <2>2, <2>3, StockStands
<1>. QED BY <1>7, <1>8

-----------------------------------------------------------------------------
LEMMA StockStepHolds == StockInv /\ [StockNext]_stockVars => StockInv'
<1>. SUFFICES ASSUME StockInv, [StockNext]_stockVars PROVE StockInv'
  OBVIOUS
<1>1. CASE StockNext
  BY <1>1, StockPageSteps, StockSendSteps, StockAnswerSteps, StockStatementSteps, StockLogSteps
  DEF StockNext, StockWork
<1>2. CASE UNCHANGED stockVars
  <2>1. Shows(stockPage', stockLoads')
    BY <1>2 DEF stockVars, StockInv, StockSeen, Shows
  <2>. QED BY <1>2, <2>1, StockPageStands DEF stockVars, StockInv, StockTyped
<1>. QED BY <1>1, <1>2

\* What the asset page did to an asset, in bulk or not, is in the audit log or about to
\* be, whichever requests fail and whether or not the page waits, unless the log itself
\* could not be written: for any number of assets and requests.
THEOREM StockIsAudited == StockSpec => []AuditTrail
<1>1. StockInit => StockInv
  BY StockInitHolds
<1>2. StockInv /\ [StockNext]_<<stockVars, deskVars>> => StockInv'
  BY StockStepHolds DEF stockVars
<1>3. StockInv => AuditTrail
  BY TracedIsAudited
<1>. QED BY <1>1, <1>2, <1>3, PTL DEF StockSpec

-----------------------------------------------------------------------------
(* The import modals, for any files and uploads at the same time.          *)

Modal == [open : BOOLEAN, rows : Files \cup {Nil}, errors : BOOLEAN,
          result : {Nil, "stored", "refused"}, importing : BOOLEAN]
Uploads == [at : {"idle", "asked", "insert", "stored", "refused", "broken"},
            kind : Dialogs \cup {Nil}, file : Files \cup {Nil}, row : Nat, waited : BOOLEAN]
Histories == [Dialogs -> [Files -> Nat]]
UploadStands(u) ==
  /\ u \in Uploads
  /\ u.at = "idle" => ~u.waited
  /\ u.at # "idle" => u.kind \in Dialogs /\ u.file \in Files

ImportTyped ==
  /\ dialog \in [Dialogs -> Modal]
  /\ upload \in [ImportSlots -> Uploads] /\ \A s \in ImportSlots : UploadStands(upload[s])
  /\ stored \in Histories /\ picked \in Histories /\ unheard \in Histories

\* The uploads whose answer a modal waits for: the flag that disables the button keeps
\* them to one, for the modal may be closed and opened again but not forget the flag.
Waiting(k) == {s \in ImportSlots : upload[s].waited /\ upload[s].kind = k}
OneWaits ==
  \A k \in Dialogs : /\ Waiting(k) # {} => dialog[k].importing
                     /\ \A s \in Waiting(k) : \A t \in Waiting(k) : s = t

\* The uploads that may still be stored, and whether the modal may send one more.
Pending(k, f) == {s \in ImportSlots : /\ upload[s].kind = k /\ upload[s].file = f
                                      /\ upload[s].at \in {"asked", "insert"}}
Offer(k, f) ==
  IF /\ dialog[k].rows = f /\ dialog[k].result = Nil
     /\ \A s \in Waiting(k) : upload[s].file # f
    THEN 1 ELSE 0

\* ImportedOnce is not inductive: what may still be stored counts already.
ImportsCounted ==
  \A k \in Dialogs : \A f \in Files :
    /\ IsFiniteSet(Pending(k, f))
    /\ stored[k][f] + Offer(k, f) + Cardinality(Pending(k, f)) <= picked[k][f] + unheard[k][f]

ImportInv == ImportTyped /\ OneWaits /\ ImportsCounted

-----------------------------------------------------------------------------
LEMMA ImportInitHolds == ImportInit => ImportInv
<1>. SUFFICES ASSUME ImportInit PROVE ImportInv
  OBVIOUS
<1>1. Fresh \in Modal /\ UploadStands(NoUpload) /\ NoUpload.at = "idle" /\ ~NoUpload.waited
      /\ Fresh.rows = Nil
  BY DEF Fresh, Modal, NoUpload, UploadStands, Uploads
<1>2. Never \in Histories
  BY DEF Never, Histories
<1>3. ImportTyped
  BY <1>1, <1>2 DEF ImportInit, ImportTyped, UploadStands
<1>4. OneWaits
  BY <1>1 DEF ImportInit, OneWaits, Waiting
<1>5. ASSUME NEW k \in Dialogs, NEW f \in Files
      PROVE  Pending(k, f) = {} /\ Offer(k, f) = 0 /\ stored[k][f] = 0
             /\ picked[k][f] = 0 /\ unheard[k][f] = 0
  BY <1>1, ImportAssumption DEF ImportInit, Pending, Offer, Never
<1>6. ImportsCounted
  BY <1>5, FS_EmptySet DEF ImportsCounted
<1>. QED BY <1>3, <1>4, <1>6 DEF ImportInv

LEMMA ImportedOnceHolds == ImportInv => ImportedOnce
<1>. SUFFICES ASSUME ImportInv, NEW k \in Dialogs, NEW f \in Files
              PROVE  stored[k][f] <= picked[k][f] + unheard[k][f]
  BY DEF ImportedOnce
<1>1. /\ stored[k][f] \in Nat /\ picked[k][f] \in Nat /\ unheard[k][f] \in Nat
      /\ Offer(k, f) \in {0, 1}
  BY DEF ImportInv, ImportTyped, Histories, Offer
<1>2. Cardinality(Pending(k, f)) \in Nat
  BY FS_CardinalityType DEF ImportInv, ImportsCounted
<1>. QED BY <1>1, <1>2 DEF ImportInv, ImportsCounted

-----------------------------------------------------------------------------
LEMMA CountGrows ==
  ASSUME NEW h \in Histories, NEW k \in Dialogs, NEW f \in Files
  PROVE  /\ Count(h, k, f) \in Histories
         /\ \A l \in Dialogs : \A g \in Files :
              Count(h, k, f)[l][g] = IF l = k /\ g = f THEN h[l][g] + 1 ELSE h[l][g]
  BY DEF Count, Histories

\* How a step may change what has been stored or may be sent, what is on its way, and
\* what the two may come to.
Balances(x, coming, y, x2, next, y2) ==
  \/ next = coming /\ x2 - x <= y2 - y
  \/ \E s : next = coming \cup {s} /\ x2 + 1 - x <= y2 - y
  \/ \E s \in coming : next = coming \ {s} /\ x2 - x - 1 <= y2 - y

LEMMA StaysBalanced ==
  ASSUME NEW x \in Nat, NEW coming, NEW y \in Nat, NEW x2 \in Nat, NEW next, NEW y2 \in Nat,
         IsFiniteSet(coming), x + Cardinality(coming) <= y,
         Balances(x, coming, y, x2, next, y2)
  PROVE  IsFiniteSet(next) /\ x2 + Cardinality(next) <= y2
<1>1. Cardinality(coming) \in Nat
  BY FS_CardinalityType
<1>2. CASE next = coming /\ x2 - x <= y2 - y
  BY <1>1, <1>2
<1>3. ASSUME NEW s, next = coming \cup {s}, x2 + 1 - x <= y2 - y
      PROVE  IsFiniteSet(next) /\ x2 + Cardinality(next) <= y2
  <2>1. /\ IsFiniteSet(next)
        /\ Cardinality(next) \in {Cardinality(coming), Cardinality(coming) + 1}
    BY <1>3, FS_AddElement
  <2>. QED BY <1>1, <1>3, <2>1
<1>4. ASSUME NEW s \in coming, next = coming \ {s}, x2 - x - 1 <= y2 - y
      PROVE  IsFiniteSet(next) /\ x2 + Cardinality(next) <= y2
  <2>1. IsFiniteSet(next) /\ Cardinality(next) = Cardinality(coming) - 1
    BY <1>4, FS_RemoveElement
  <2>. QED BY <1>1, <1>4, <2>1
<1>. QED BY <1>2, <1>3, <1>4 DEF Balances

Spent(k, f) == stored[k][f] + Offer(k, f)
Owed(k, f) == picked[k][f] + unheard[k][f]

LEMMA ImportsBalance ==
  ASSUME ImportInv, ImportTyped', OneWaits',
         \A k \in Dialogs : \A f \in Files :
           Balances(Spent(k, f), Pending(k, f), Owed(k, f),
                    Spent(k, f)', Pending(k, f)', Owed(k, f)')
  PROVE  ImportInv'
<1>. SUFFICES ASSUME NEW k \in Dialogs, NEW f \in Files
     PROVE  /\ IsFiniteSet(Pending(k, f))'
            /\ (stored[k][f] + Offer(k, f) + Cardinality(Pending(k, f))
                 <= picked[k][f] + unheard[k][f])'
  BY DEF ImportInv, ImportsCounted
<1>1. Spent(k, f) \in Nat /\ Owed(k, f) \in Nat /\ Spent(k, f)' \in Nat /\ Owed(k, f)' \in Nat
  BY DEF ImportInv, ImportTyped, Histories, Spent, Owed, Offer
<1>2. IsFiniteSet(Pending(k, f)) /\ Spent(k, f) + Cardinality(Pending(k, f)) <= Owed(k, f)
  BY DEF ImportInv, ImportsCounted, Spent, Owed
<1>3. /\ IsFiniteSet(Pending(k, f)')
      /\ Spent(k, f)' + Cardinality(Pending(k, f)') <= Owed(k, f)'
  BY <1>1, <1>2, StaysBalanced
<1>. QED BY <1>3 DEF Spent, Owed

\* A step of the modal: no upload changes, and it may send more only as files come up.
ModalMoves(k, d) ==
  /\ d \in Modal /\ d.importing = dialog[k].importing
  /\ picked' \in Histories
  /\ \A f \in Files : picked'[k][f] >= picked[k][f]
  /\ \A l \in Dialogs \ {k} : picked'[l] = picked[l]
  /\ \A f \in Files : d.rows = f /\ d.result = Nil =>
       (dialog[k].rows = f /\ dialog[k].result = Nil) \/ picked'[k][f] > picked[k][f]

LEMMA ModalStepHolds ==
  ASSUME ImportInv, NEW k \in Dialogs, NEW d, ModalMoves(k, d), Dialog(k, d),
         UNCHANGED <<upload, stored, unheard>>
  PROVE  ImportInv'
<1>1. /\ dialog \in [Dialogs -> Modal] /\ stored \in Histories /\ picked \in Histories
      /\ unheard \in Histories
  BY DEF ImportInv, ImportTyped
<1>2. /\ dialog' \in [Dialogs -> Modal] /\ dialog'[k] = d
      /\ \A l \in Dialogs \ {k} : dialog'[l] = dialog[l]
  BY <1>1 DEF Dialog, ModalMoves
<1>3. ImportTyped'
  BY <1>1, <1>2 DEF ImportInv, ImportTyped, UploadStands, ModalMoves
<1>4. \A l \in Dialogs : Waiting(l)' = Waiting(l)
  BY DEF Waiting
<1>5. OneWaits'
  BY <1>2, <1>4 DEF ImportInv, OneWaits, ModalMoves
<1>6. ASSUME NEW l \in Dialogs, NEW f \in Files
      PROVE  Balances(Spent(l, f), Pending(l, f), Owed(l, f),
                      Spent(l, f)', Pending(l, f)', Owed(l, f)')
  <2>1. Pending(l, f)' = Pending(l, f)
    BY DEF Pending
  <2>2. /\ stored[l][f] \in Nat /\ picked[l][f] \in Nat /\ unheard[l][f] \in Nat
        /\ picked'[l][f] \in Nat /\ stored'[l][f] = stored[l][f] /\ unheard'[l][f] = unheard[l][f]
    BY <1>1 DEF Histories, ModalMoves
  <2>3. Offer(l, f)' <= Offer(l, f) + (picked'[l][f] - picked[l][f])
    <3>1. CASE l = k
      BY <1>2, <1>4, <2>2, <3>1 DEF Offer, ModalMoves
    <3>2. CASE l # k
      BY <1>2, <1>4, <2>2, <3>2 DEF Offer, ModalMoves
    <3>. QED BY <3>1, <3>2
  <2>. QED BY <2>1, <2>2, <2>3 DEF Balances, Spent, Owed, Offer
<1>. QED BY <1>3, <1>5, <1>6, ImportsBalance

\* What a page makes of a file: its rows, none, or what it had.
Makes(d, f, new) ==
  \/ new = [d EXCEPT !.errors = TRUE]
  \/ new = [d EXCEPT !.rows = Nil, !.errors = FALSE]
  \/ \E e \in BOOLEAN : new = [d EXCEPT !.rows = f, !.errors = e]
  \/ new = d
  \/ \E e \in BOOLEAN : new = [d EXCEPT !.rows = f, !.errors = e, !.result = Nil]

LEMMA FileMade ==
  ASSUME NEW d \in Modal, NEW f \in Files, NEW new, Makes(d, f, new)
  PROVE  /\ new \in Modal /\ new.importing = d.importing
         /\ \/ new.rows \in {f, Nil}
            \/ new.rows = d.rows /\ new.result = d.result
<1>1. \A e \in BOOLEAN :
        LET v == [d EXCEPT !.rows = f, !.errors = e] IN
        v \in Modal /\ v.importing = d.importing /\ v.rows = f
  BY DEF Modal
<1>2. \A e \in BOOLEAN :
        LET v == [d EXCEPT !.rows = f, !.errors = e, !.result = Nil] IN
        v \in Modal /\ v.importing = d.importing /\ v.rows = f
  BY DEF Modal
<1>3. CASE \E e \in BOOLEAN : new = [d EXCEPT !.rows = f, !.errors = e]
  BY <1>1, <1>3, Zenon
<1>4. CASE \E e \in BOOLEAN : new = [d EXCEPT !.rows = f, !.errors = e, !.result = Nil]
  BY <1>2, <1>4, Zenon
<1>5. CASE \/ new = [d EXCEPT !.errors = TRUE]
           \/ new = [d EXCEPT !.rows = Nil, !.errors = FALSE]
           \/ new = d
  BY <1>5 DEF Modal
<1>. QED BY <1>3, <1>4, <1>5 DEF Makes

LEMMA FileReadHolds ==
  ASSUME ImportInv, NEW k \in Dialogs, NEW f \in Files, FileRead(k, f)
  PROVE  ImportInv'
<1>. DEFINE d == dialog[k]
<1>1. d \in Modal /\ picked \in Histories
  BY DEF ImportInv, ImportTyped
<1>2. PICK new : /\ new = IF k = "assets" THEN AssetFile(f) ELSE SoftwareFile(f)
                 /\ Dialog(k, new) /\ UNCHANGED <<upload, stored, unheard>>
                 /\ picked' = IF new.rows = f THEN Count(picked, k, f) ELSE picked
  BY DEF FileRead
<1>3. /\ (Sort(f) = "bad") \in BOOLEAN /\ (Sort(f) \in {"bad", "blank"}) \in BOOLEAN
      /\ Sort(f) = "empty" => Sort(f) # "blank"
  OBVIOUS
<1>4. Makes(d, f, new)
  <2>1. CASE k = "assets"
    <3>1. CASE Sort(f) = "empty"
      BY <1>2, <2>1, <3>1 DEF AssetFile, Makes
    <3>2. CASE Sort(f) = "blank"
      BY <1>2, <2>1, <3>2 DEF AssetFile, Makes
    <3>3. CASE Sort(f) \notin {"empty", "blank"}
      <4>1. new = [d EXCEPT !.rows = f, !.errors = (Sort(f) = "bad")]
        BY <1>2, <2>1, <3>3 DEF AssetFile
      <4>. QED BY <1>3, <4>1, Zenon DEF Makes
    <3>. QED BY <3>1, <3>2, <3>3
  <2>2. CASE k # "assets"
    <3>1. CASE Sort(f) = "empty"
      BY <1>2, <2>2, <3>1 DEF SoftwareFile, Dialogs, Makes
    <3>2. CASE Sort(f) # "empty"
      <4>1. d = dialog["software"]
        BY <2>2 DEF Dialogs
      <4>2. new = [d EXCEPT !.rows = f, !.errors = (Sort(f) \in {"bad", "blank"}), !.result = Nil]
        BY <1>2, <2>2, <3>2, <4>1, Zenon DEF SoftwareFile
      <4>. QED BY <1>3, <4>2, Zenon DEF Makes
    <3>. QED BY <2>2, <3>1, <3>2
  <2>. QED BY <2>1, <2>2
<1>5. /\ new \in Modal /\ new.importing = d.importing
      /\ \/ new.rows \in {f, Nil}
         \/ new.rows = d.rows /\ new.result = d.result
  BY <1>1, <1>4, FileMade
<1>6. /\ picked' \in Histories
      /\ \A l \in Dialogs : \A g \in Files :
           picked'[l][g] = IF l = k /\ g = f /\ new.rows = f THEN picked[l][g] + 1
                                                            ELSE picked[l][g]
      /\ \A l \in Dialogs \ {k} : picked'[l] = picked[l]
  <2>1. CASE new.rows = f
    BY <1>1, <1>2, <2>1, CountGrows DEF Count, Histories
  <2>2. CASE new.rows # f
    BY <1>1, <1>2, <2>2
  <2>. QED BY <2>1, <2>2
<1>7. \A g \in Files : picked[k][g] \in Nat /\ Nil # g
  BY <1>1, ImportAssumption DEF Histories
<1>8. ModalMoves(k, new)
  BY <1>5, <1>6, <1>7 DEF ModalMoves
<1>. QED BY <1>2, <1>8, ModalStepHolds

LEMMA ImportModalHolds ==
  ASSUME ImportInv, NEW k \in Dialogs,
         \/ OpenImport(k) \/ CloseImport(k) \/ ChooseAgain(k)
         \/ \E f \in Files : ChooseFile(k, f) \/ FileRead(k, f)
  PROVE  ImportInv'
<1>. DEFINE d == dialog[k]
<1>1. d \in Modal /\ picked \in Histories /\ d.importing \in BOOLEAN
  BY DEF ImportInv, ImportTyped, Modal
<1>2. \A f \in Files : picked[k][f] \in Nat /\ Nil # f
  BY <1>1, ImportAssumption DEF Histories
<1>3. CASE OpenImport(k)
  <2>1. [d EXCEPT !.open = TRUE] \in Modal
    BY <1>1 DEF Modal
  <2>2. PICK new : new = [d EXCEPT !.open = TRUE]
    OBVIOUS
  <2>3. new \in Modal /\ new.importing = d.importing /\ new.rows = d.rows /\ new.result = d.result
    BY <1>1, <2>1, <2>2 DEF Modal
  <2>4. ModalMoves(k, new)
    BY <1>1, <1>2, <1>3, <2>2, <2>3 DEF ModalMoves, OpenImport
  <2>. QED BY <1>3, <2>2, <2>4, ModalStepHolds DEF OpenImport
<1>4. CASE CloseImport(k)
  <2>1. PICK new : new = [Fresh EXCEPT !.importing = d.importing]
    OBVIOUS
  <2>2. new \in Modal /\ new.importing = d.importing /\ new.rows = Nil
    BY <1>1, <2>1, Zenon DEF Modal, Fresh
  <2>3. ModalMoves(k, new)
    BY <1>1, <1>2, <1>4, <2>1, <2>2 DEF ModalMoves, CloseImport
  <2>. QED BY <1>4, <2>1, <2>3, ModalStepHolds DEF CloseImport
<1>5. CASE ChooseAgain(k)
  <2>1. PICK new : new = [d EXCEPT !.rows = Nil, !.errors = FALSE]
    OBVIOUS
  <2>2. new \in Modal /\ new.importing = d.importing /\ new.rows = Nil
    BY <1>1, <2>1 DEF Modal
  <2>3. ModalMoves(k, new)
    BY <1>1, <1>2, <1>5, <2>1, <2>2 DEF ModalMoves, ChooseAgain
  <2>. QED BY <1>5, <2>1, <2>3, ModalStepHolds DEF ChooseAgain
<1>6. ASSUME NEW f \in Files, ChooseFile(k, f) PROVE ImportInv'
  <2>1. Dialog(k, d)
    BY <1>6 DEF ChooseFile, Dialog, ImportInv, ImportTyped
  <2>2. ModalMoves(k, d)
    BY <1>1, <1>2, <1>6 DEF ModalMoves, ChooseFile
  <2>. QED BY <1>6, <2>1, <2>2, ModalStepHolds DEF ChooseFile
<1>. QED BY <1>3, <1>4, <1>5, <1>6, FileReadHolds

-----------------------------------------------------------------------------
\* A step of one upload; what it does to the sets.
Uploading(s, u) == upload' = [upload EXCEPT ![s] = u] /\ UploadStands(u)

LEMMA UploadSets ==
  ASSUME ImportTyped, NEW s \in ImportSlots, NEW u, Uploading(s, u)
  PROVE  /\ upload' \in [ImportSlots -> Uploads]
         /\ \A t \in ImportSlots : UploadStands(upload'[t])
         /\ \A t \in ImportSlots : upload'[t] = IF t = s THEN u ELSE upload[t]
         /\ \A k : Waiting(k)' = IF u.waited /\ u.kind = k THEN Waiting(k) \cup {s}
                                                          ELSE Waiting(k) \ {s}
         /\ \A k, f : IF u.kind = k /\ u.file = f /\ u.at \in {"asked", "insert"}
                        THEN Pending(k, f)' = Pending(k, f) \cup {s}
                        ELSE Pending(k, f)' = Pending(k, f) \ {s}
<1>1. /\ upload \in [ImportSlots -> Uploads] /\ u \in Uploads
      /\ \A t \in ImportSlots : UploadStands(upload[t])
  BY DEF ImportTyped, Uploading, UploadStands
<1>2. /\ upload' \in [ImportSlots -> Uploads]
      /\ \A t \in ImportSlots : upload'[t] = IF t = s THEN u ELSE upload[t]
  BY <1>1 DEF Uploading
<1>3. \A t \in ImportSlots : UploadStands(upload'[t])
  BY <1>1, <1>2 DEF Uploading
<1>4. ASSUME NEW k
      PROVE  Waiting(k)' = IF u.waited /\ u.kind = k THEN Waiting(k) \cup {s}
                                                     ELSE Waiting(k) \ {s}
  <2>1. CASE u.waited /\ u.kind = k
    BY <1>2, <2>1 DEF Waiting
  <2>2. CASE ~(u.waited /\ u.kind = k)
    BY <1>2, <2>2 DEF Waiting
  <2>. QED BY <2>1, <2>2
<1>5. ASSUME NEW k, NEW f
      PROVE  IF u.kind = k /\ u.file = f /\ u.at \in {"asked", "insert"}
               THEN Pending(k, f)' = Pending(k, f) \cup {s}
               ELSE Pending(k, f)' = Pending(k, f) \ {s}
  <2>1. CASE u.kind = k /\ u.file = f /\ u.at \in {"asked", "insert"}
    BY <1>2, <2>1 DEF Pending
  <2>2. CASE ~(u.kind = k /\ u.file = f /\ u.at \in {"asked", "insert"})
    BY <1>2, <2>2 DEF Pending
  <2>. QED BY <2>1, <2>2
<1>. QED BY <1>2, <1>3, <1>4, <1>5

\* A step of the server: it works on an upload that is pending, and stores it at most
\* as it ends being pending.
Serves(s, u) ==
  /\ Uploading(s, u)
  /\ upload[s].at \in {"asked", "insert"} /\ u.at # "idle"
  /\ u.kind = upload[s].kind /\ u.file = upload[s].file /\ u.waited = upload[s].waited
  /\ UNCHANGED <<dialog, picked, unheard>>
  /\ \/ stored' = stored
     \/ u.at = "stored" /\ stored' = Count(stored, u.kind, u.file)

LEMMA ServedHolds ==
  ASSUME ImportInv, NEW s \in ImportSlots, NEW u, Serves(s, u)
  PROVE  ImportInv'
<1>. DEFINE c == upload[s]
<1>1. /\ ImportTyped /\ OneWaits /\ Uploading(s, u) /\ UploadStands(c)
      /\ c.kind \in Dialogs /\ c.file \in Files /\ c.waited \in BOOLEAN
  BY DEF ImportInv, ImportTyped, Serves, UploadStands, Uploads
<1>2. /\ stored \in Histories /\ picked \in Histories /\ unheard \in Histories
      /\ upload \in [ImportSlots -> Uploads]
  BY <1>1 DEF ImportTyped
<1>3. /\ stored' \in Histories
      /\ \A k \in Dialogs : \A f \in Files :
           stored'[k][f] \in {stored[k][f]}
             \cup (IF k = c.kind /\ f = c.file /\ u.at = "stored" THEN {stored[k][f] + 1} ELSE {})
  BY <1>1, <1>2, CountGrows DEF Serves
<1>4. /\ \A t \in ImportSlots : UploadStands(upload'[t])
      /\ upload' \in [ImportSlots -> Uploads]
      /\ \A t \in ImportSlots : upload'[t].file = upload[t].file
  BY <1>1, UploadSets DEF Serves
<1>5. \A k : Waiting(k)' = Waiting(k)
  <2>. SUFFICES ASSUME NEW k PROVE Waiting(k)' = Waiting(k)
    OBVIOUS
  <2>1. CASE c.waited /\ c.kind = k
    <3>1. s \in Waiting(k) /\ u.waited /\ u.kind = k
      BY <2>1 DEF Waiting, Serves
    <3>2. Waiting(k)' = Waiting(k) \cup {s}
      BY <1>1, <3>1, UploadSets, Zenon
    <3>. QED BY <3>1, <3>2
  <2>2. CASE ~(c.waited /\ c.kind = k)
    <3>1. s \notin Waiting(k) /\ ~(u.waited /\ u.kind = k)
      BY <2>2 DEF Waiting, Serves
    <3>2. Waiting(k)' = Waiting(k) \ {s}
      BY <1>1, <3>1, UploadSets, Zenon
    <3>. QED BY <3>1, <3>2
  <2>. QED BY <2>1, <2>2
<1>6. ImportTyped' /\ OneWaits'
  BY <1>1, <1>3, <1>4, <1>5 DEF ImportTyped, OneWaits, Serves, UploadStands
<1>7. ASSUME NEW k \in Dialogs, NEW f \in Files
      PROVE  Balances(Spent(k, f), Pending(k, f), Owed(k, f),
                      Spent(k, f)', Pending(k, f)', Owed(k, f)')
  <2>1. Offer(k, f)' = Offer(k, f) /\ Owed(k, f)' = Owed(k, f)
    <3>1. \A t \in Waiting(k) : t \in ImportSlots
      BY DEF Waiting
    <3>. QED BY <1>4, <1>5, <3>1 DEF Offer, Owed, Serves
  <2>2. /\ stored[k][f] \in Nat /\ stored'[k][f] \in Nat /\ Offer(k, f) \in Nat
        /\ Owed(k, f) \in Nat
    BY <1>2, <1>3 DEF Histories, Offer, Owed
  <2>3. CASE k = c.kind /\ f = c.file
    <3>1. s \in Pending(k, f)
      BY <2>3 DEF Pending, Serves
    <3>2. CASE u.at \in {"asked", "insert"}
      <4>1. u.kind = k /\ u.file = f /\ u.at \in {"asked", "insert"}
        BY <2>3, <3>2 DEF Serves
      <4>2. Pending(k, f)' = Pending(k, f) \cup {s}
        BY <1>1, <4>1, UploadSets
      <4>3. stored'[k][f] = stored[k][f]
        BY <1>3, <3>2
      <4>. QED BY <2>1, <2>2, <3>1, <4>2, <4>3 DEF Balances, Spent
    <3>3. CASE u.at \notin {"asked", "insert"}
      <4>1. Pending(k, f)' = Pending(k, f) \ {s}
        BY <1>1, <3>3, UploadSets, Zenon
      <4>. QED BY <1>3, <2>1, <2>2, <3>1, <4>1 DEF Balances, Spent
    <3>. QED BY <3>2, <3>3
  <2>4. CASE ~(k = c.kind /\ f = c.file)
    <3>1. /\ s \notin Pending(k, f)
          /\ ~(u.kind = k /\ u.file = f /\ u.at \in {"asked", "insert"})
      BY <2>4 DEF Pending, Serves
    <3>2. Pending(k, f)' = Pending(k, f) \ {s}
      BY <1>1, <3>1, UploadSets, Zenon
    <3>3. stored'[k][f] = stored[k][f]
      BY <1>3, <2>4
    <3>. QED BY <2>1, <2>2, <3>1, <3>2, <3>3 DEF Balances, Spent
  <2>. QED BY <2>3, <2>4
<1>. QED BY <1>6, <1>7, ImportsBalance

LEMMA ImportServerHolds ==
  ASSUME ImportInv, NEW s \in ImportSlots,
         CheckImport(s) \/ InsertImportRow(s) \/ CommitImport(s) \/ ImportFails(s)
  PROVE  ImportInv'
<1>. DEFINE c == upload[s]
<1>1. /\ c \in Uploads /\ UploadStands(c) /\ c.at \in {"asked", "insert"}
      /\ c.kind \in Dialogs /\ c.file \in Files
  BY DEF ImportInv, ImportTyped, UploadStands, CheckImport, InsertImportRow, CommitImport,
         ImportFails
<1>2. \A at \in {"insert", "stored", "refused", "broken"} :
        LET u == [c EXCEPT !.at = at] IN
        /\ UploadStands(u) /\ u.at = at /\ u.kind = c.kind /\ u.file = c.file
        /\ u.waited = c.waited
  BY <1>1 DEF UploadStands, Uploads
<1>3. ASSUME NEW at \in {"insert", "stored", "refused", "broken"},
             upload' = [upload EXCEPT ![s].at = at],
             UNCHANGED <<dialog, picked, unheard>>,
             \/ stored' = stored
             \/ at = "stored" /\ stored' = Count(stored, c.kind, c.file)
      PROVE  ImportInv'
  <2>1. PICK u : u = [c EXCEPT !.at = at]
    OBVIOUS
  <2>2. /\ UploadStands(u) /\ u.at = at /\ u.kind = c.kind /\ u.file = c.file
        /\ u.waited = c.waited
    BY <1>2, <2>1
  <2>3. Uploading(s, u)
    BY <1>3, <2>1, <2>2 DEF Uploading
  <2>4. Serves(s, u)
    BY <1>1, <1>3, <2>2, <2>3 DEF Serves
  <2>. QED BY <2>4, ServedHolds
<1>4. CASE CheckImport(s)
  <2>1. PICK at : at = IF c.kind = "assets" THEN AssetsPass(c.file) ELSE SoftwarePass(c.file)
    OBVIOUS
  <2>2. at \in {"insert", "stored", "refused", "broken"}
    BY <2>1 DEF AssetsPass, SoftwarePass
  <2>. QED BY <1>3, <1>4, <2>1, <2>2 DEF CheckImport
<1>5. CASE InsertImportRow(s)
  <2>1. CASE upload' = [upload EXCEPT ![s] = [c EXCEPT !.at = "refused"]]
    BY <1>3, <1>5, <2>1 DEF InsertImportRow
  <2>2. CASE upload' = [upload EXCEPT ![s] = [c EXCEPT !.row = c.row + 1]]
    <3>1. PICK u : u = [c EXCEPT !.row = c.row + 1]
      OBVIOUS
    <3>2. /\ UploadStands(u) /\ u.at = c.at /\ u.kind = c.kind /\ u.file = c.file
          /\ u.waited = c.waited
      BY <1>1, <3>1 DEF UploadStands, Uploads
    <3>3. Uploading(s, u)
      BY <2>2, <3>1, <3>2 DEF Uploading
    <3>4. Serves(s, u)
      BY <1>1, <1>5, <3>2, <3>3 DEF Serves, InsertImportRow
    <3>. QED BY <3>4, ServedHolds
  <2>. QED BY <1>5, <2>1, <2>2 DEF InsertImportRow
<1>6. CASE CommitImport(s)
  BY <1>3, <1>6 DEF CommitImport
<1>7. CASE ImportFails(s)
  BY <1>3, <1>7 DEF ImportFails
<1>. QED BY <1>4, <1>5, <1>6, <1>7

\* Sending the rows: the modal's offer becomes an upload.
LEMMA ExecuteHolds ==
  ASSUME ImportInv, NEW k \in Dialogs, NEW s \in ImportSlots, ExecuteImport(k, s)
  PROVE  ImportInv'
<1>. DEFINE d == dialog[k]
<1>1. /\ ImportTyped /\ OneWaits /\ d \in Modal /\ dialog \in [Dialogs -> Modal]
      /\ stored \in Histories /\ picked \in Histories /\ unheard \in Histories
  BY DEF ImportInv, ImportTyped
<1>2. d.rows \in Files /\ d.result = Nil /\ ~d.importing /\ upload[s] = NoUpload
  BY <1>1 DEF ExecuteImport, MayImport, Previewed, Modal
<1>3. PICK u : u = [at |-> "asked", kind |-> k, file |-> d.rows, row |-> 0, waited |-> TRUE]
  OBVIOUS
<1>4. /\ UploadStands(u) /\ u.at = "asked" /\ u.kind = k /\ u.file = d.rows /\ u.waited
  BY <1>2, <1>3 DEF UploadStands, Uploads
<1>5. Uploading(s, u) /\ UNCHANGED <<stored, picked, unheard>>
  BY <1>3, <1>4 DEF ExecuteImport, Uploading
<1>6. /\ dialog' \in [Dialogs -> Modal]
      /\ dialog'[k].importing /\ dialog'[k].rows = d.rows
      /\ \A l \in Dialogs \ {k} : dialog'[l] = dialog[l]
  <2>1. PICK new : new = [d EXCEPT !.importing = TRUE]
    OBVIOUS
  <2>2. new \in Modal /\ new.importing /\ new.rows = d.rows
    BY <1>1, <2>1 DEF Modal
  <2>3. dialog' = [dialog EXCEPT ![k] = new]
    BY <2>1 DEF ExecuteImport, Dialog
  <2>. QED BY <1>1, <2>2, <2>3
<1>7. /\ upload' \in [ImportSlots -> Uploads]
      /\ \A t \in ImportSlots : UploadStands(upload'[t])
      /\ \A t \in ImportSlots : upload'[t] = IF t = s THEN u ELSE upload[t]
  BY <1>1, <1>5, UploadSets
<1>8. ImportTyped'
  BY <1>1, <1>5, <1>6, <1>7 DEF ImportTyped, UploadStands
<1>9. /\ Waiting(k) = {} /\ Waiting(k)' = {s}
      /\ \A l \in Dialogs \ {k} : Waiting(l)' = Waiting(l)
  <2>1. Waiting(k) = {}
    BY <1>1, <1>2 DEF OneWaits
  <2>2. ~upload[s].waited
    BY <1>2 DEF NoUpload
  <2>. QED BY <1>4, <1>7, <2>1, <2>2 DEF Waiting
<1>10. OneWaits'
  BY <1>1, <1>6, <1>9 DEF OneWaits
<1>11. ASSUME NEW l \in Dialogs, NEW f \in Files
       PROVE  Balances(Spent(l, f), Pending(l, f), Owed(l, f),
                       Spent(l, f)', Pending(l, f)', Owed(l, f)')
  <2>1. /\ stored[l][f] \in Nat /\ Owed(l, f) \in Nat /\ Owed(l, f)' = Owed(l, f)
        /\ stored'[l][f] = stored[l][f]
    BY <1>1, <1>5 DEF Histories, Owed
  <2>2. s \notin Pending(l, f)
    BY <1>2, ImportAssumption DEF Pending, NoUpload
  <2>3. CASE l = k /\ f = d.rows
    <3>1. Pending(l, f)' = Pending(l, f) \cup {s}
      BY <1>1, <1>4, <1>5, <2>3, UploadSets
    <3>2. Offer(l, f) = 1
      BY <1>2, <1>9, <2>3 DEF Offer
    <3>3. Offer(l, f)' = 0
      <4>1. s \in Waiting(k)' /\ upload'[s].file = f
        BY <1>4, <1>7, <1>9, <2>3
      <4>. QED BY <2>3, <4>1 DEF Offer
    <3>4. Spent(l, f)' + 1 - Spent(l, f) <= Owed(l, f)' - Owed(l, f)
      BY <2>1, <3>2, <3>3 DEF Spent
    <3>. QED BY <3>1, <3>4 DEF Balances
  <2>4. CASE ~(l = k /\ f = d.rows)
    <3>1. Pending(l, f)' = Pending(l, f)
      BY <1>4, <1>7, <2>2, <2>4 DEF Pending
    <3>2. Offer(l, f)' <= Offer(l, f)
      <4>1. CASE l = k
        BY <1>6, <2>4, <4>1 DEF Offer
      <4>2. CASE l # k
        <5>1. \A t \in Waiting(l) : t \in ImportSlots /\ t # s
          BY <1>2 DEF Waiting, NoUpload
        <5>. QED BY <1>6, <1>7, <1>9, <4>2, <5>1 DEF Offer
      <4>. QED BY <4>1, <4>2
    <3>3. Offer(l, f) \in {0, 1} /\ Offer(l, f)' \in {0, 1}
      BY DEF Offer
    <3>4. Spent(l, f)' - Spent(l, f) <= Owed(l, f)' - Owed(l, f)
      BY <2>1, <3>2, <3>3 DEF Spent
    <3>. QED BY <3>1, <3>4 DEF Balances
  <2>. QED BY <2>3, <2>4
<1>. QED BY <1>8, <1>10, <1>11, ImportsBalance

\* The end of an upload, heard or not, and the loss of the way to hear it.
LEMMA ImportAnswerHolds ==
  ASSUME ImportInv, NEW s \in ImportSlots, ImportAnswer(s)
  PROVE  ImportInv'
<1>. DEFINE c == upload[s]
<1>1. /\ ImportTyped /\ OneWaits /\ dialog \in [Dialogs -> Modal] /\ c \in Uploads
      /\ stored \in Histories /\ picked \in Histories /\ unheard \in Histories
      /\ c.at \in {"stored", "refused", "broken"} /\ c.kind \in Dialogs /\ c.file \in Files
      /\ dialog[c.kind] \in Modal /\ c.waited \in BOOLEAN
  BY DEF ImportInv, ImportTyped, ImportAnswer, UploadStands, Uploads
<1>2. UploadStands(NoUpload) /\ NoUpload.at = "idle" /\ ~NoUpload.waited
  BY DEF UploadStands, Uploads, NoUpload
<1>3. Uploading(s, NoUpload) /\ UNCHANGED <<stored, picked, unheard>>
  BY <1>2 DEF ImportAnswer, Uploading
<1>4. /\ upload' \in [ImportSlots -> Uploads]
      /\ \A t \in ImportSlots : UploadStands(upload'[t])
      /\ \A t \in ImportSlots : upload'[t] = IF t = s THEN NoUpload ELSE upload[t]
  BY <1>1, <1>3, UploadSets
<1>5. \A l : Waiting(l)' = Waiting(l) \ {s}
  BY <1>2, <1>4 DEF Waiting
<1>6. \A l, f : Pending(l, f)' = Pending(l, f)
  BY <1>1, <1>2, <1>4 DEF Pending
\* The modal is not touched, or shows a result, or starts afresh.
<1>7. /\ dialog' \in [Dialogs -> Modal]
      /\ \A l \in Dialogs : l # c.kind \/ ~c.waited => dialog'[l] = dialog[l]
      /\ c.waited => dialog'[c.kind].rows = Nil \/ dialog'[c.kind].result # Nil
  <2>1. CASE ~c.waited
    BY <1>1, <2>1 DEF ImportAnswer
  <2>2. CASE c.waited /\ c.at = "broken"
    <3>1. dialog' = [dialog EXCEPT ![c.kind] = Fresh]
      BY <2>2 DEF ImportAnswer, Dialog
    <3>2. Fresh \in Modal /\ Fresh.rows = Nil
      BY DEF Fresh, Modal
    <3>3. /\ dialog'[c.kind] = Fresh /\ dialog' \in [Dialogs -> Modal]
          /\ \A l \in Dialogs : l # c.kind => dialog'[l] = dialog[l]
      BY <1>1, <3>1, <3>2
    <3>. QED BY <2>2, <3>2, <3>3
  <2>3. CASE c.waited /\ c.at # "broken"
    <3>1. PICK new : new = [dialog[c.kind] EXCEPT !.importing = FALSE, !.result = c.at]
      OBVIOUS
    <3>2. dialog' = [dialog EXCEPT ![c.kind] = new]
      BY <2>3, <3>1 DEF ImportAnswer, Dialog
    <3>3. new \in Modal /\ new.result = c.at
      BY <1>1, <2>3, <3>1 DEF Modal
    <3>4. c.at # Nil
      BY <1>1, <2>3, ImportAssumption
    <3>5. /\ dialog'[c.kind] = new /\ dialog' \in [Dialogs -> Modal]
          /\ \A l \in Dialogs : l # c.kind => dialog'[l] = dialog[l]
      BY <1>1, <3>2, <3>3
    <3>. QED BY <2>3, <3>3, <3>4, <3>5
  <2>. QED BY <1>1, <2>1, <2>2, <2>3
<1>8. ImportTyped'
  BY <1>1, <1>3, <1>4, <1>7 DEF ImportTyped, UploadStands
<1>9. OneWaits'
  <2>1. \A l \in Dialogs : l = c.kind /\ c.waited => Waiting(l)' = {}
    <3>1. \A l : l = c.kind /\ c.waited => s \in Waiting(l)
      BY DEF Waiting
    <3>. QED BY <1>1, <1>5, <3>1 DEF OneWaits
  <2>2. \A l \in Dialogs : Waiting(l)' \subseteq Waiting(l)
    BY <1>5
  <2>3. ASSUME NEW l \in Dialogs
        PROVE  /\ Waiting(l)' # {} => dialog'[l].importing
               /\ \A x \in Waiting(l)' : \A y \in Waiting(l)' : x = y
    <3>1. CASE l = c.kind /\ c.waited
      BY <2>1, <3>1
    <3>2. CASE ~(l = c.kind /\ c.waited)
      BY <1>1, <1>7, <2>2, <3>2 DEF OneWaits
    <3>. QED BY <3>1, <3>2
  <2>. QED BY <2>3 DEF OneWaits
<1>10. ASSUME NEW l \in Dialogs, NEW f \in Files
       PROVE  Balances(Spent(l, f), Pending(l, f), Owed(l, f),
                       Spent(l, f)', Pending(l, f)', Owed(l, f)')
  <2>1. /\ stored[l][f] \in Nat /\ Owed(l, f) \in Nat /\ Owed(l, f)' = Owed(l, f)
        /\ stored'[l][f] = stored[l][f]
    BY <1>1, <1>3 DEF Histories, Owed
  <2>2. Offer(l, f)' <= Offer(l, f)
    <3>1. CASE c.waited /\ l = c.kind
      BY <1>7, <3>1, ImportAssumption DEF Offer
    <3>2. CASE ~(c.waited /\ l = c.kind)
      <4>1. s \notin Waiting(l) /\ dialog'[l] = dialog[l]
        BY <1>7, <3>2 DEF Waiting
      <4>2. \A t \in Waiting(l) : t \in ImportSlots /\ t # s
        BY <4>1 DEF Waiting
      <4>. QED BY <1>4, <1>5, <4>1, <4>2 DEF Offer
    <3>. QED BY <3>1, <3>2
  <2>3. Offer(l, f) \in {0, 1} /\ Offer(l, f)' \in {0, 1}
    BY DEF Offer
  <2>4. Spent(l, f)' - Spent(l, f) <= Owed(l, f)' - Owed(l, f)
    BY <2>1, <2>2, <2>3 DEF Spent
  <2>. QED BY <1>6, <2>4 DEF Balances
<1>. QED BY <1>8, <1>9, <1>10, ImportsBalance

LEMMA LoseAnswerHolds ==
  ASSUME ImportInv, NEW s \in ImportSlots, LoseAnswer(s)
  PROVE  ImportInv'
<1>. DEFINE c == upload[s]
<1>1. /\ ImportTyped /\ OneWaits /\ dialog \in [Dialogs -> Modal] /\ c \in Uploads
      /\ stored \in Histories /\ picked \in Histories /\ unheard \in Histories
      /\ c.waited /\ c.at # "idle" /\ c.kind \in Dialogs /\ c.file \in Files
      /\ dialog[c.kind] \in Modal
  BY DEF ImportInv, ImportTyped, LoseAnswer, UploadStands, Uploads
<1>2. PICK u : u = [c EXCEPT !.waited = FALSE]
  OBVIOUS
<1>3. UploadStands(u) /\ ~u.waited /\ u.kind = c.kind /\ u.file = c.file /\ u.at = c.at
  BY <1>1, <1>2 DEF UploadStands, Uploads
<1>4. Uploading(s, u) /\ UNCHANGED <<stored, picked>>
      /\ unheard' = Count(unheard, c.kind, c.file)
  BY <1>2, <1>3 DEF LoseAnswer, Uploading
<1>5. /\ upload' \in [ImportSlots -> Uploads]
      /\ \A t \in ImportSlots : UploadStands(upload'[t])
      /\ \A t \in ImportSlots : upload'[t] = IF t = s THEN u ELSE upload[t]
  BY <1>1, <1>4, UploadSets
<1>6. /\ unheard' \in Histories
      /\ \A l \in Dialogs : \A f \in Files :
           unheard'[l][f] = IF l = c.kind /\ f = c.file THEN unheard[l][f] + 1 ELSE unheard[l][f]
  BY <1>1, <1>4, CountGrows
<1>7. /\ \A l : Waiting(l)' = Waiting(l) \ {s}
      /\ \A l, f : Pending(l, f)' = Pending(l, f)
  BY <1>3, <1>5 DEF Waiting, Pending
<1>8. /\ dialog' \in [Dialogs -> Modal]
      /\ \A l \in Dialogs : /\ dialog'[l].rows = dialog[l].rows
                            /\ dialog'[l].result = dialog[l].result
                            /\ l # c.kind => dialog'[l] = dialog[l]
  <2>1. PICK new : new = [dialog[c.kind] EXCEPT !.importing = FALSE]
    OBVIOUS
  <2>2. dialog' = [dialog EXCEPT ![c.kind] = new]
    BY <2>1 DEF LoseAnswer, Dialog
  <2>3. new \in Modal /\ new.rows = dialog[c.kind].rows /\ new.result = dialog[c.kind].result
    BY <1>1, <2>1 DEF Modal
  <2>. QED BY <1>1, <2>2, <2>3
<1>9. ImportTyped'
  BY <1>1, <1>4, <1>5, <1>6, <1>8 DEF ImportTyped, UploadStands
<1>10. OneWaits'
  <2>1. \A l \in Dialogs : l = c.kind => Waiting(l)' = {}
    <3>1. \A l : l = c.kind => s \in Waiting(l)
      BY <1>1 DEF Waiting
    <3>. QED BY <1>1, <1>7, <3>1 DEF OneWaits
  <2>2. \A l \in Dialogs : Waiting(l)' \subseteq Waiting(l)
    BY <1>7
  <2>3. ASSUME NEW l \in Dialogs
        PROVE  /\ Waiting(l)' # {} => dialog'[l].importing
               /\ \A x \in Waiting(l)' : \A y \in Waiting(l)' : x = y
    <3>1. CASE l = c.kind
      BY <2>1, <3>1
    <3>2. CASE l # c.kind
      BY <1>1, <1>8, <2>2, <3>2 DEF OneWaits
    <3>. QED BY <3>1, <3>2
  <2>. QED BY <2>3 DEF OneWaits
<1>11. ASSUME NEW l \in Dialogs, NEW f \in Files
       PROVE  Balances(Spent(l, f), Pending(l, f), Owed(l, f),
                       Spent(l, f)', Pending(l, f)', Owed(l, f)')
  <2>1. /\ stored[l][f] \in Nat /\ picked[l][f] \in Nat /\ unheard[l][f] \in Nat
        /\ stored'[l][f] = stored[l][f] /\ picked'[l][f] = picked[l][f]
    BY <1>1, <1>4 DEF Histories
  <2>2. Offer(l, f) \in {0, 1} /\ Offer(l, f)' \in {0, 1}
    BY DEF Offer
  <2>3. Spent(l, f)' - Spent(l, f) <= Owed(l, f)' - Owed(l, f)
    <3>1. CASE l = c.kind /\ f = c.file
      BY <1>6, <2>1, <2>2, <3>1 DEF Spent, Owed
    <3>2. CASE ~(l = c.kind /\ f = c.file)
      <4>1. Offer(l, f)' <= Offer(l, f)
        <5>1. \A t \in Waiting(l) : t \in ImportSlots /\ (t = s => c.kind = l)
          BY DEF Waiting
        <5>2. \A t \in Waiting(l) \ {s} : t \in ImportSlots /\ upload'[t].file = upload[t].file
          BY <1>5, <5>1
        <5>3. \A t \in Waiting(l) : upload[t].file = f => t \in Waiting(l) \ {s}
          BY <3>2, <5>1
        <5>4. (\A t \in Waiting(l)' : upload'[t].file # f) =>
                \A t \in Waiting(l) : upload[t].file # f
          BY <1>7, <5>2, <5>3
        <5>. QED BY <1>8, <5>4 DEF Offer
      <4>2. unheard'[l][f] = unheard[l][f]
        BY <1>6, <3>2
      <4>. QED BY <2>1, <2>2, <4>1, <4>2 DEF Spent, Owed
    <3>. QED BY <3>1, <3>2
  <2>. QED BY <1>7, <2>3 DEF Balances
<1>. QED BY <1>9, <1>10, <1>11, ImportsBalance

LEMMA ImportStepHolds == ImportInv /\ [ImportNext]_importVars => ImportInv'
<1>. SUFFICES ASSUME ImportInv, [ImportNext]_importVars PROVE ImportInv'
  OBVIOUS
<1>1. CASE ImportNext
  BY <1>1, ImportModalHolds, ExecuteHolds, ImportAnswerHolds, LoseAnswerHolds,
     ImportServerHolds DEF ImportNext
<1>2. CASE UNCHANGED importVars
  <2>1. ImportTyped' /\ \A l, f : Pending(l, f)' = Pending(l, f) /\ Offer(l, f)' = Offer(l, f)
    BY <1>2 DEF importVars, ImportInv, ImportTyped, UploadStands, Pending, Offer, Waiting
  <2>2. OneWaits'
    BY <1>2 DEF importVars, ImportInv, OneWaits, Waiting
  <2>3. ImportsCounted'
    BY <1>2, <2>1 DEF importVars, ImportInv, ImportsCounted
  <2>. QED BY <2>1, <2>2, <2>3 DEF ImportInv
<1>. QED BY <1>1, <1>2

\* A file that came up in a modal is stored at most once for it, plus once for each
\* answer that did not reach the page, whatever files and uploads there are.
THEOREM ImportStoredOnce == ImportSpec => []ImportedOnce
<1>1. ImportInit => ImportInv
  BY ImportInitHolds
<1>2. ImportInv /\ [ImportNext]_<<importVars, deskVars>> => ImportInv'
  BY ImportStepHolds DEF importVars
<1>3. ImportInv => ImportedOnce
  BY ImportedOnceHolds
<1>. QED BY <1>1, <1>2, <1>3, PTL DEF ImportSpec

-----------------------------------------------------------------------------
(* The contracts, for any contracts, assets, vendors and requests: unless  *)
(* two were stored at the same time, an asset has one active contract with *)
(* a vendor.                                                               *)

DealTables == [ContractIds -> ContractRows \cup {Nil}]
Sheets == UNION {[D -> ContractRows] : D \in SUBSET ContractIds}
DealForms == [id : ContractIds \cup {Nil}, asset : Leased \cup {Nil}, vendor : Vendors \cup {Nil}]
DealPages == [shown : Sheets, form : DealForms \cup {Nil}]
DealCalls == [from : Counters, id : ContractIds \cup {Nil}, row : ContractRows,
          at : {"deactivate", "insert", "update", "delete", "done", "deleted", "failed"}]

ContractTyped ==
  /\ contracts \in DealTables
  /\ contractPage \in [Counters -> DealPages]
  /\ contractLoads \in [Counters -> SUBSET Sheets]
  /\ contractCall \in [ContractSlots -> DealCalls \cup {ContractIdle}]
  /\ crossed \in BOOLEAN

\* Software belongs to no asset, so that an update, which only the software page
\* sends, cannot give an asset a second contract with a vendor.
Unowned(table, c) == c \in ContractIds /\ table[c] # Nil /\ table[c].asset = Nil
SoftUnowned(table) == \A c \in ContractIds : table[c] # Nil /\ table[c].soft => Unowned(table, c)

SheetOK(table, rows) == \A c \in DOMAIN rows : Unowned(table, c)
FormOK(table, f) == f # Nil /\ f.id # Nil => Unowned(table, f.id)
ViewsOK(table, page, loads) ==
  /\ SheetOK(table, page["software"].shown) /\ FormOK(table, page["software"].form)
  /\ \A rows \in loads["software"] : SheetOK(table, rows)

CallOK(table, k) ==
  /\ k.at \in {"deactivate", "insert"} =>
       /\ k.row.soft => k.row.asset = Nil
       /\ k.row.asset # Nil => k.row.vendor # Nil
  /\ k.at \in {"update", "delete"} => Unowned(table, k.id)

\* OneContract is not inductive: what a request is about to insert counts too.
InsertingDeal(k) == k.at = "insert" /\ k.row.asset # Nil
ActiveDeal(table, c) == table[c] # Nil /\ table[c].active /\ table[c].asset # Nil
Cleared(table, k) ==
  InsertingDeal(k) => \A c \in ContractIds : ActiveDeal(table, c) => ~SameDeal(table[c], k.row)
Single(table) ==
  \A c, d \in ContractIds : c # d /\ ActiveDeal(table, c) /\ ActiveDeal(table, d) =>
    ~SameDeal(table[c], table[d])

Sound ==
  /\ SoftUnowned(contracts)
  /\ ViewsOK(contracts, contractPage, contractLoads)
  /\ \A s \in ContractSlots : CallOK(contracts, contractCall[s])
Deals == ~crossed => /\ \A s \in ContractSlots : Cleared(contracts, contractCall[s])
                     /\ Single(contracts)

ContractInv == ContractTyped /\ Sound /\ Deals

-----------------------------------------------------------------------------
(* What a step keeps.                                                      *)

\* Rows never go, and never get an asset.
Kept(t, u) == \A c : Unowned(t, c) => Unowned(u, c)

LEMMA ViewsStay ==
  ASSUME NEW t, NEW u, NEW page, NEW loads, Kept(t, u), ViewsOK(t, page, loads)
  PROVE  ViewsOK(u, page, loads)
  BY DEF Kept, ViewsOK, SheetOK, FormOK

LEMMA CallStays ==
  ASSUME NEW t, NEW u, NEW k, Kept(t, u), CallOK(t, k)
  PROVE  CallOK(u, k)
  BY DEF Kept, CallOK

\* A request that goes on to a step that writes nothing more.
Ended == {"done", "deleted", "failed"}

LEMMA CallEnds ==
  ASSUME ContractInv, NEW s \in ContractSlots, NEW at \in Ended, contractCall[s].at # "idle",
         ContractTo(s, at)
  PROVE  /\ contractCall' \in [ContractSlots -> DealCalls \cup {ContractIdle}]
         /\ contractCall'[s].at = at
         /\ \A o \in ContractSlots \ {s} : contractCall'[o] = contractCall[o]
<1>1. contractCall[s] \in DealCalls
  BY DEF ContractInv, ContractTyped, ContractIdle
<1>2. [contractCall[s] EXCEPT !.at = at] \in DealCalls /\ [contractCall[s] EXCEPT !.at = at].at = at
  BY <1>1 DEF DealCalls, Ended
<1>3. contractCall' = [contractCall EXCEPT ![s] = [contractCall[s] EXCEPT !.at = at]]
  BY DEF ContractTo, ContractInv, ContractTyped
<1>. QED BY <1>2, <1>3 DEF ContractInv, ContractTyped

\* Steps that bring no request to its insert and no row to an asset.
LEMMA NoNewDeal ==
  ASSUME ContractInv, crossed' = crossed,
         \A s \in ContractSlots : InsertingDeal(contractCall'[s]) => contractCall'[s] = contractCall[s],
         \A c \in ContractIds : ActiveDeal(contracts', c) =>
           ActiveDeal(contracts, c) /\ SameDeal(contracts'[c], contracts[c])
  PROVE  Deals'
  BY DEF ContractInv, Deals, Cleared, Single, SameDeal, InsertingDeal

\* Steps of the pages that send nothing.
LEMMA PageStep ==
  ASSUME ContractInv, UNCHANGED <<contracts, contractCall, crossed>>,
         contractPage' \in [Counters -> DealPages], contractLoads' \in [Counters -> SUBSET Sheets],
         ViewsOK(contracts, contractPage', contractLoads')
  PROVE  ContractInv'
<1>1. Deals'
  BY DEF ContractInv, Deals
<1>2. ContractTyped' /\ Sound'
  BY DEF ContractInv, ContractTyped, Sound
<1>. QED BY <1>1, <1>2 DEF ContractInv

\* Steps of the pages that send a request.
LEMMA SendStep ==
  ASSUME ContractInv, NEW call \in DealCalls, CallOK(contracts, call), ~InsertingDeal(call),
         ContractSend(call), UNCHANGED <<contracts, contractLoads, crossed>>,
         contractPage' \in [Counters -> DealPages],
         ViewsOK(contracts, contractPage', contractLoads)
  PROVE  ContractInv'
<1>1. PICK s \in ContractSlots : contractCall' = [contractCall EXCEPT ![s] = call]
  BY DEF ContractSend
<1>2. contractCall' \in [ContractSlots -> DealCalls \cup {ContractIdle}]
  BY <1>1 DEF ContractInv, ContractTyped
<1>3. \A o \in ContractSlots : contractCall'[o] \in {call, contractCall[o]}
  BY <1>1 DEF ContractInv, ContractTyped
<1>4. \A o \in ContractSlots : CallOK(contracts, contractCall'[o])
  BY <1>3 DEF ContractInv, Sound
<1>5. Deals'
  <2>1. \A o \in ContractSlots : InsertingDeal(contractCall'[o]) => contractCall'[o] = contractCall[o]
    BY <1>3
  <2>. QED BY <2>1, NoNewDeal DEF SameDeal
<1>. QED BY <1>2, <1>4, <1>5 DEF ContractInv, ContractTyped, Sound

\* Statements: the pages stay as they are.
LEMMA ApiStep ==
  ASSUME ContractInv, UNCHANGED <<contractPage, contractLoads>>,
         contracts' \in DealTables, crossed' \in BOOLEAN, SoftUnowned(contracts'),
         Kept(contracts, contracts'), Deals',
         contractCall' \in [ContractSlots -> DealCalls \cup {ContractIdle}],
         \A s \in ContractSlots : CallOK(contracts, contractCall'[s])
  PROVE  ContractInv'
<1>1. ViewsOK(contracts', contractPage', contractLoads')
  BY ViewsStay DEF ContractInv, Sound
<1>2. \A s \in ContractSlots : CallOK(contracts', contractCall'[s])
  BY CallStays
<1>. QED BY <1>1, <1>2 DEF ContractInv, ContractTyped, Sound

-----------------------------------------------------------------------------
(* The pages.                                                              *)

LEMMA SheetFacts ==
  ASSUME ContractInv, NEW k \in Counters
  PROVE  Sheet(k) \in Sheets /\ (k = "software" => SheetOK(contracts, Sheet(k)))
<1>1. Fetched(k) \in SUBSET ContractIds
  BY DEF Fetched
<1>2. Sheet(k) \in [Fetched(k) -> ContractRows]
  BY DEF Sheet, Fetched, ContractInv, ContractTyped, DealTables
<1>3. ASSUME k = "software", NEW c \in Fetched(k)
      PROVE  Unowned(contracts, c)
  BY <1>3 DEF Fetched, ContractInv, Sound, SoftUnowned
<1>. QED BY <1>1, <1>2, <1>3 DEF Sheets, SheetOK

LEMMA ContractInitHolds ==
  ASSUME ContractInit
  PROVE  ContractInv
<1>1. \A k \in Counters : Fetched(k) = {}
  BY DEF ContractInit, Fetched
<1>2. \A k \in Counters : Sheet(k) \in [{} -> ContractRows] /\ DOMAIN Sheet(k) = {}
  BY <1>1 DEF Sheet
<1>3. \A k \in Counters : Sheet(k) \in Sheets
  BY <1>2 DEF Sheets
<1>4. ContractTyped
  BY <1>3 DEF ContractInit, ContractTyped, DealTables, DealPages
<1>5. Sound
  BY <1>2 DEF ContractInit, Sound, SoftUnowned, ViewsOK, SheetOK, FormOK, CallOK, ContractIdle,
              Counters
<1>6. Deals
  BY DEF ContractInit, Deals, Cleared, Single, InsertingDeal, ActiveDeal, ContractIdle
<1>. QED BY <1>4, <1>5, <1>6 DEF ContractInv

LEMMA LoadFacts ==
  ASSUME ContractInv, NEW k \in Counters, ContractLoad(k), NEW page, ViewsOK(contracts, page, contractLoads)
  PROVE  contractLoads' \in [Counters -> SUBSET Sheets] /\ ViewsOK(contracts, page, contractLoads')
<1>1. contractLoads' = [contractLoads EXCEPT ![k] = contractLoads[k] \cup {Sheet(k)}]
  BY DEF ContractLoad, ContractInv, ContractTyped
<1>2. contractLoads' \in [Counters -> SUBSET Sheets]
  BY <1>1, SheetFacts DEF ContractInv, ContractTyped
<1>3. \A rows \in contractLoads'["software"] : SheetOK(contracts, rows)
  BY <1>1, SheetFacts DEF ContractInv, ContractTyped, ViewsOK, Counters
<1>. QED BY <1>2, <1>3 DEF ViewsOK

LEMMA RefreshHolds ==
  ASSUME ContractInv, NEW k \in Counters, ContractRefresh(k)
  PROVE  ContractInv'
<1>1. ViewsOK(contracts, contractPage, contractLoads)
  BY DEF ContractInv, Sound
<1>2. /\ contractLoads' \in [Counters -> SUBSET Sheets]
      /\ ViewsOK(contracts, contractPage, contractLoads')
  BY <1>1, LoadFacts DEF ContractRefresh
<1>. QED BY <1>2, PageStep DEF ContractRefresh, ContractInv, ContractTyped

LEMMA ArriveHolds ==
  ASSUME ContractInv, NEW k \in Counters, NEW rows \in contractLoads[k], ContractArrive(k, rows)
  PROVE  ContractInv'
<1>1. contractPage[k] \in DealPages /\ rows \in Sheets
  BY DEF ContractInv, ContractTyped
<1>. DEFINE new == [contractPage[k] EXCEPT !.shown = rows]
<1>2. new \in DealPages /\ new.shown = rows /\ new.form = contractPage[k].form
  BY <1>1 DEF DealPages
<1>3. contractPage' = [contractPage EXCEPT ![k] = new]
  BY DEF ContractArrive, ContractInv, ContractTyped
<1>. HIDE DEF new
<1>4. contractPage' \in [Counters -> DealPages]
  BY <1>2, <1>3 DEF ContractInv, ContractTyped
<1>5. contractLoads' \in [Counters -> SUBSET Sheets]
  BY DEF ContractArrive, ContractInv, ContractTyped
<1>6. SheetOK(contracts, contractPage'["software"].shown)
  BY <1>2, <1>3 DEF ContractInv, ContractTyped, Sound, ViewsOK, Counters
<1>7. FormOK(contracts, contractPage'["software"].form)
  BY <1>2, <1>3 DEF ContractInv, ContractTyped, Sound, ViewsOK, Counters
<1>8. \A r \in contractLoads'["software"] : SheetOK(contracts, r)
  BY DEF ContractArrive, ContractInv, ContractTyped, Sound, ViewsOK, Counters
<1>. QED BY <1>4, <1>5, <1>6, <1>7, <1>8, PageStep DEF ContractArrive, ViewsOK

\* A form is opened, changed or closed.
LEMMA FormFacts ==
  ASSUME ContractInv, NEW k \in Counters, NEW f \in DealForms \cup {Nil}, k = "software" => FormOK(contracts, f),
         contractPage' = [contractPage EXCEPT ![k].form = f]
  PROVE  /\ contractPage' \in [Counters -> DealPages]
         /\ ViewsOK(contracts, contractPage', contractLoads)
<1>1. contractPage[k] \in DealPages
  BY DEF ContractInv, ContractTyped
<1>. DEFINE new == [contractPage[k] EXCEPT !.form = f]
<1>2. new \in DealPages /\ new.form = f /\ new.shown = contractPage[k].shown
  BY <1>1 DEF DealPages
<1>3. contractPage' = [contractPage EXCEPT ![k] = new]
  BY DEF ContractInv, ContractTyped
<1>. HIDE DEF new
<1>4. contractPage' \in [Counters -> DealPages]
  BY <1>2, <1>3 DEF ContractInv, ContractTyped
<1>5. SheetOK(contracts, contractPage'["software"].shown)
  BY <1>2, <1>3 DEF ContractInv, ContractTyped, Sound, ViewsOK, Counters
<1>6. FormOK(contracts, contractPage'["software"].form)
  BY <1>2, <1>3 DEF ContractInv, ContractTyped, Sound, ViewsOK, Counters
<1>7. \A r \in contractLoads["software"] : SheetOK(contracts, r)
  BY DEF ContractInv, Sound, ViewsOK
<1>. QED BY <1>4, <1>5, <1>6, <1>7 DEF ViewsOK

LEMMA FormStep ==
  ASSUME ContractInv, NEW k \in Counters, NEW f \in DealForms \cup {Nil}, k = "software" => FormOK(contracts, f),
         contractPage' = [contractPage EXCEPT ![k].form = f],
         UNCHANGED <<contracts, contractLoads, contractCall, crossed>>
  PROVE  ContractInv'
<1>1. contractLoads' \in [Counters -> SUBSET Sheets]
  BY DEF ContractInv, ContractTyped
<1>. QED BY <1>1, FormFacts, PageStep

LEMMA FormsHold ==
  ASSUME ContractInv,
         \/ \E a \in Leased : OpenContractForm(a)
         \/ \E c \in ContractIds \cup {Nil} : OpenSoftwareForm(c)
         \/ \E k \in Counters : CloseContractForm(k)
  PROVE  ContractInv'
<1>1. ASSUME NEW a \in Leased, OpenContractForm(a)
      PROVE  ContractInv'
  <2>1. PICK x \in IF OfAsset(a) = {} THEN {[vendor |-> Nil]} ELSE ShownFor(a) :
          contractPage' = [contractPage EXCEPT !["asset"].form =
                             [id |-> Nil, asset |-> a, vendor |-> x.vendor]]
    BY <1>1 DEF OpenContractForm
  <2>2. OfAsset(a) \subseteq ContractRows
    <3>1. contractPage["asset"].shown \in Sheets
      BY DEF ContractInv, ContractTyped, DealPages, Counters
    <3>. QED BY <3>1 DEF OfAsset, Sheets
  <2>3. x.vendor \in Vendors \cup {Nil}
    BY <2>1, <2>2 DEF ShownFor, ContractRows
  <2>4. [id |-> Nil, asset |-> a, vendor |-> x.vendor] \in DealForms
    BY <2>3 DEF DealForms
  <2>. QED BY <1>1, <2>1, <2>4, FormStep DEF OpenContractForm, Counters
<1>2. ASSUME NEW c \in ContractIds \cup {Nil}, OpenSoftwareForm(c)
      PROVE  ContractInv'
  <2>. DEFINE rows == contractPage["software"].shown
              f == [id |-> c, asset |-> Nil, vendor |-> IF c = Nil THEN Nil ELSE rows[c].vendor]
  <2>1. rows \in Sheets /\ SheetOK(contracts, rows)
    BY DEF ContractInv, ContractTyped, Sound, ViewsOK, DealPages, Counters
  <2>2. c \in DOMAIN rows \cup {Nil}
    BY <1>2 DEF OpenSoftwareForm
  <2>3. c # Nil => rows[c] \in ContractRows /\ Unowned(contracts, c)
    BY <2>1, <2>2 DEF Sheets, SheetOK
  <2>4. contractPage' = [contractPage EXCEPT !["software"].form = f]
    BY <1>2 DEF OpenSoftwareForm
  <2>. HIDE DEF rows
  <2>5. f \in DealForms /\ f.id = c
    BY <2>3 DEF DealForms, ContractRows
  <2>. HIDE DEF f
  <2>6. FormOK(contracts, f)
    BY <2>3, <2>5 DEF FormOK
  <2>. QED BY <1>2, <2>4, <2>5, <2>6, FormStep DEF OpenSoftwareForm, Counters
<1>3. ASSUME NEW k \in Counters, CloseContractForm(k)
      PROVE  ContractInv'
  <2>1. FormOK(contracts, Nil)
    BY DEF FormOK
  <2>. QED BY <1>3, <2>1, FormStep DEF CloseContractForm
<1>. QED BY <1>1, <1>2, <1>3

\* A save remembers the vendor in its form.
LEMMA VendorFacts ==
  ASSUME ContractInv, NEW k \in Counters, NEW v \in Vendors, contractPage[k].form # Nil,
         contractPage' = [contractPage EXCEPT ![k].form.vendor = v]
  PROVE  /\ contractPage' \in [Counters -> DealPages]
         /\ ViewsOK(contracts, contractPage', contractLoads)
<1>. DEFINE old == contractPage[k].form
            f == [old EXCEPT !.vendor = v]
<1>1. old \in DealForms
  BY DEF ContractInv, ContractTyped, DealPages
<1>2. f \in DealForms /\ f.id = old.id
  BY <1>1 DEF DealForms
<1>3. contractPage' = [contractPage EXCEPT ![k].form = f]
  BY DEF ContractInv, ContractTyped
<1>4. k = "software" => FormOK(contracts, old)
  BY DEF ContractInv, Sound, ViewsOK
<1>. HIDE DEF old, f
<1>5. k = "software" => FormOK(contracts, f)
  <2>1. old # Nil
    BY DEF old
  <2>. QED BY <1>2, <1>4, <2>1 DEF FormOK
<1>. QED BY <1>2, <1>3, <1>5, FormFacts

LEMMA SavesHold ==
  ASSUME ContractInv, NEW v \in Vendors, NEW e \in Ends \cup {Nil},
         SaveContract(v, e) \/ SaveSoftware(v, e)
  PROVE  ContractInv'
<1>1. CASE SaveContract(v, e)
  <2>. DEFINE f == contractPage["asset"].form
              row == [asset |-> f.asset, vendor |-> v, soft |-> FALSE, ends |-> e, active |-> TRUE]
              call == [from |-> "asset", at |-> "deactivate", id |-> Nil, row |-> row]
  <2>1. f \in DealForms /\ f # Nil
    BY <1>1 DEF SaveContract, ContractInv, ContractTyped, DealPages, Counters
  <2>2. row \in ContractRows
    BY <2>1 DEF ContractRows, DealForms
  <2>3. call \in DealCalls /\ ~InsertingDeal(call)
    BY <2>2 DEF DealCalls, Counters, InsertingDeal
  <2>4. CallOK(contracts, call)
    BY ContractAssumption DEF CallOK
  <2>5. ContractSend(call)
    BY <1>1 DEF SaveContract
  <2>6. /\ contractPage' \in [Counters -> DealPages]
        /\ ViewsOK(contracts, contractPage', contractLoads)
    BY <1>1, <2>1, VendorFacts DEF SaveContract, Counters
  <2>. HIDE DEF call
  <2>. QED BY <1>1, <2>3, <2>4, <2>5, <2>6, SendStep DEF SaveContract
<1>2. CASE SaveSoftware(v, e)
  <2>. DEFINE f == contractPage["software"].form
              row == [asset |-> Nil, vendor |-> v, soft |-> TRUE, ends |-> e, active |-> TRUE]
              at == IF e = Nil THEN "failed" ELSE IF f.id = Nil THEN "insert" ELSE "update"
              call == [from |-> "software", id |-> f.id, at |-> at, row |-> row]
  <2>1. f \in DealForms /\ f # Nil /\ FormOK(contracts, f)
    BY <1>2 DEF SaveSoftware, ContractInv, ContractTyped, Sound, ViewsOK, DealPages, Counters
  <2>2. row \in ContractRows /\ row.asset = Nil
    BY DEF ContractRows
  <2>3. at \in {"failed", "insert", "update"} /\ (at = "update" => f.id # Nil)
    OBVIOUS
  <2>4. f.id \in ContractIds \cup {Nil}
    BY <2>1 DEF DealForms
  <2>5. f.id # Nil => Unowned(contracts, f.id)
    BY <2>1 DEF FormOK
  <2>6. ContractSend(call)
    BY <1>2 DEF SaveSoftware
  <2>7. /\ contractPage' \in [Counters -> DealPages]
        /\ ViewsOK(contracts, contractPage', contractLoads)
    BY <1>2, <2>1, VendorFacts DEF SaveSoftware, Counters
  <2>. HIDE DEF f, row, at
  <2>8. call \in DealCalls /\ ~InsertingDeal(call)
    BY <2>2, <2>3, <2>4 DEF DealCalls, Counters, InsertingDeal
  <2>9. CallOK(contracts, call)
    BY <2>2, <2>3, <2>5 DEF CallOK
  <2>. HIDE DEF call
  <2>. QED BY <1>2, <2>6, <2>7, <2>8, <2>9, SendStep DEF SaveSoftware
<1>. QED BY <1>1, <1>2

LEMMA DeleteSent ==
  ASSUME ContractInv, NEW c \in ContractIds, DeleteSoftware(c)
  PROVE  ContractInv'
<1>. DEFINE rows == contractPage["software"].shown
            call == [from |-> "software", id |-> c, at |-> "delete", row |-> rows[c]]
<1>1. rows \in Sheets /\ SheetOK(contracts, rows) /\ c \in DOMAIN rows
  BY DEF DeleteSoftware, ContractInv, ContractTyped, Sound, ViewsOK, DealPages, Counters
<1>2. rows[c] \in ContractRows /\ Unowned(contracts, c)
  BY <1>1 DEF Sheets, SheetOK
<1>3. ContractSend(call)
  BY DEF DeleteSoftware
<1>. HIDE DEF rows
<1>4. call \in DealCalls /\ ~InsertingDeal(call)
  BY <1>2 DEF DealCalls, Counters, InsertingDeal
<1>5. CallOK(contracts, call)
  BY <1>2 DEF CallOK
<1>6. contractPage' \in [Counters -> DealPages] /\ ViewsOK(contracts, contractPage', contractLoads)
  BY DEF DeleteSoftware, ContractInv, ContractTyped, Sound
<1>. HIDE DEF call
<1>. QED BY <1>3, <1>4, <1>5, <1>6, SendStep DEF DeleteSoftware

LEMMA AnswerHolds ==
  ASSUME ContractInv, NEW s \in ContractSlots, ContractAnswer(s)
  PROVE  ContractInv'
<1>. DEFINE c == contractCall[s]
            k == c.from
            f == IF c.at = "deleted" THEN contractPage[k].form ELSE Nil
<1>1. c \in DealCalls
  BY DEF ContractAnswer, ContractInv, ContractTyped, ContractIdle
<1>2. k \in Counters
  BY <1>1 DEF DealCalls
<1>3. contractCall' = [contractCall EXCEPT ![s] = ContractIdle]
  BY DEF ContractAnswer
<1>4. contractPage' = [contractPage EXCEPT ![k].form = f]
  BY DEF ContractAnswer
<1>5. ContractLoad(k) /\ UNCHANGED <<contracts, crossed>>
  BY DEF ContractAnswer
<1>. HIDE DEF c
<1>6. f \in DealForms \cup {Nil} /\ (k = "software" => FormOK(contracts, f))
  <2>1. contractPage[k].form \in DealForms \cup {Nil}
    BY <1>2 DEF ContractInv, ContractTyped, DealPages
  <2>2. k = "software" => FormOK(contracts, contractPage[k].form)
    BY DEF ContractInv, Sound, ViewsOK
  <2>3. FormOK(contracts, Nil)
    BY DEF FormOK
  <2>. QED BY <2>1, <2>2, <2>3
<1>. HIDE DEF f, k
<1>7. contractPage' \in [Counters -> DealPages] /\ ViewsOK(contracts, contractPage', contractLoads)
  BY <1>2, <1>4, <1>6, FormFacts
<1>8. contractLoads' \in [Counters -> SUBSET Sheets] /\ ViewsOK(contracts, contractPage', contractLoads')
  BY <1>2, <1>5, <1>7, LoadFacts
<1>9. \A o \in ContractSlots : contractCall'[o] \in {ContractIdle, contractCall[o]}
  BY <1>3 DEF ContractInv, ContractTyped
<1>10. ~InsertingDeal(ContractIdle) /\ CallOK(contracts, ContractIdle)
  BY DEF InsertingDeal, CallOK, ContractIdle
<1>11. Deals'
  <2>1. \A o \in ContractSlots : InsertingDeal(contractCall'[o]) => contractCall'[o] = contractCall[o]
    BY <1>9, <1>10
  <2>. QED BY <1>5, <2>1, NoNewDeal DEF SameDeal
<1>12. contractCall' \in [ContractSlots -> DealCalls \cup {ContractIdle}]
  BY <1>3 DEF ContractInv, ContractTyped
<1>. QED BY <1>5, <1>7, <1>8, <1>9, <1>10, <1>11, <1>12 DEF ContractInv, ContractTyped, Sound

-----------------------------------------------------------------------------
(* The statements.                                                         *)

\* A request of which no statement changes a row.
LEMMA FailsHold ==
  ASSUME ContractInv, NEW s \in ContractSlots, ContractFails(s)
  PROVE  ContractInv'
<1>. DEFINE at == IF contractCall[s].at = "delete" THEN "deleted" ELSE "failed"
<1>1. at \in Ended /\ contractCall[s].at # "idle" /\ ContractTo(s, at)
  BY DEF ContractFails, Ended
<1>. HIDE DEF at
<1>2. /\ contractCall' \in [ContractSlots -> DealCalls \cup {ContractIdle}]
      /\ contractCall'[s].at = at
      /\ \A o \in ContractSlots \ {s} : contractCall'[o] = contractCall[o]
  BY <1>1, CallEnds
<1>3. \A o \in ContractSlots : CallOK(contracts, contractCall'[o])
  BY <1>1, <1>2 DEF CallOK, Ended, ContractInv, Sound
<1>4. \A o \in ContractSlots : InsertingDeal(contractCall'[o]) => contractCall'[o] = contractCall[o]
  BY <1>1, <1>2 DEF InsertingDeal, Ended
<1>5. UNCHANGED <<contracts, contractPage, contractLoads, crossed>>
  BY DEF ContractFails
<1>6. Deals'
  BY <1>4, <1>5, NoNewDeal DEF SameDeal
<1>. QED BY <1>2, <1>3, <1>5, <1>6, ApiStep DEF ContractInv, ContractTyped, Sound, Kept

\* The deactivation makes room for the row of its own request.
LEMMA DeactivateHolds ==
  ASSUME ContractInv, NEW s \in ContractSlots, DeactivateDeals(s)
  PROVE  ContractInv'
<1>. DEFINE k == contractCall[s]
            row == k.row
            new == [k EXCEPT !.at = "insert"]
            act(c) == contracts[c].active /\ ~SameDeal(contracts[c], row)
            off(c) == [contracts[c] EXCEPT !.active = act(c)]
<1>1. k \in DealCalls /\ CallOK(contracts, k) /\ k.at = "deactivate"
  BY DEF DeactivateDeals, ContractInv, ContractTyped, Sound, ContractIdle
<1>2. new \in DealCalls /\ new.at = "insert" /\ new.row = row
  BY <1>1 DEF DealCalls
<1>3. contractCall' = [contractCall EXCEPT ![s] = new]
  BY DEF DeactivateDeals, ContractTo, ContractInv, ContractTyped
<1>4. CallOK(contracts, new)
  BY <1>1, <1>2 DEF CallOK
<1>5. contracts' = [c \in ContractIds |-> IF contracts[c] = Nil THEN Nil ELSE off(c)]
  BY DEF DeactivateDeals
<1>6. ASSUME NEW c \in ContractIds, contracts[c] # Nil
      PROVE  /\ off(c) \in ContractRows /\ off(c).asset = contracts[c].asset
             /\ off(c).vendor = contracts[c].vendor /\ off(c).soft = contracts[c].soft
             /\ off(c).active = act(c)
  <2>. DEFINE b == act(c)
              r == contracts[c]
  <2>1. r \in ContractRows
    BY <1>6 DEF ContractInv, ContractTyped, DealTables
  <2>2. b \in BOOLEAN
    BY <2>1 DEF SameDeal, ContractRows
  <2>3. off(c) = [r EXCEPT !.active = b]
    OBVIOUS
  <2>. HIDE DEF b, r
  <2>4. [r EXCEPT !.active = b] \in ContractRows
    BY <2>1, <2>2 DEF ContractRows
  <2>5. /\ [r EXCEPT !.active = b].asset = r.asset /\ [r EXCEPT !.active = b].vendor = r.vendor
        /\ [r EXCEPT !.active = b].soft = r.soft
    BY <2>1 DEF ContractRows
  <2>6. [r EXCEPT !.active = b].active = b
    BY <2>1 DEF ContractRows
  <2>. USE DEF b, r
  <2>. QED BY <2>3, <2>4, <2>5, <2>6
<1>. HIDE DEF off, new, row, k
<1>7. contracts' \in DealTables
  BY <1>5, <1>6 DEF DealTables
<1>8. \A c \in ContractIds : contracts'[c] # Nil => contracts[c] # Nil /\ contracts'[c] = off(c)
  BY <1>5
<1>9. Kept(contracts, contracts')
  <2>. SUFFICES ASSUME NEW c \in ContractIds, contracts[c] # Nil, contracts[c].asset = Nil
                PROVE  contracts'[c] # Nil /\ contracts'[c].asset = Nil
    BY DEF Kept, Unowned
  <2>1. contracts'[c] = off(c)
    BY <1>5
  <2>. QED BY <1>6, <2>1, ContractAssumption
<1>10. SoftUnowned(contracts')
  <2>. SUFFICES ASSUME NEW c \in ContractIds, contracts'[c] # Nil, contracts'[c].soft
                PROVE  contracts'[c].asset = Nil
    BY DEF SoftUnowned, Unowned
  <2>1. contracts[c] # Nil /\ contracts'[c].asset = contracts[c].asset /\ contracts[c].soft
    BY <1>6, <1>8
  <2>. QED BY <2>1 DEF ContractInv, Sound, SoftUnowned, Unowned
<1>11. ASSUME NEW c \in ContractIds, ActiveDeal(contracts', c)
       PROVE  /\ ActiveDeal(contracts, c) /\ SameDeal(contracts'[c], contracts[c])
              /\ ~SameDeal(contracts'[c], row)
  <2>1. contracts[c] # Nil /\ contracts'[c] = off(c) /\ off(c).active /\ off(c).asset # Nil
    BY <1>8, <1>11 DEF ActiveDeal
  <2>2. act(c)
    BY <1>6, <2>1
  <2>3. contracts[c].active /\ ~SameDeal(contracts[c], row)
    BY <2>2
  <2>. QED BY <1>6, <2>1, <2>3 DEF ActiveDeal, SameDeal
<1>12. \A o \in ContractSlots : contractCall'[o] = IF o = s THEN new ELSE contractCall[o]
  BY <1>3 DEF ContractInv, ContractTyped
<1>13. Deals'
  <2>1. crossed' = crossed
    BY DEF DeactivateDeals
  <2>2. ASSUME ~crossed, NEW o \in ContractSlots
        PROVE  Cleared(contracts', contractCall'[o])
    <3>1. CASE o = s
      BY <1>2, <1>11, <1>12, <3>1 DEF Cleared
    <3>2. CASE o # s
      <4>1. Cleared(contracts, contractCall[o])
        BY <2>2 DEF ContractInv, Deals
      <4>. QED BY <1>11, <1>12, <3>2, <4>1 DEF Cleared, SameDeal
    <3>. QED BY <3>1, <3>2
  <2>3. ASSUME ~crossed
        PROVE  Single(contracts')
    <3>1. Single(contracts)
      BY <2>3 DEF ContractInv, Deals
    <3>. QED BY <1>11, <3>1 DEF Single, SameDeal
  <2>. QED BY <2>1, <2>2, <2>3 DEF Deals
<1>14. \A o \in ContractSlots : CallOK(contracts, contractCall'[o])
  BY <1>4, <1>12 DEF ContractInv, Sound
<1>15. contractCall' \in [ContractSlots -> DealCalls \cup {ContractIdle}]
  BY <1>2, <1>3 DEF ContractInv, ContractTyped
<1>16. UNCHANGED <<contractPage, contractLoads, crossed>>
  BY DEF DeactivateDeals
<1>17. crossed' \in BOOLEAN
  BY <1>16 DEF ContractInv, ContractTyped
<1>. QED BY <1>7, <1>9, <1>10, <1>13, <1>14, <1>15, <1>16, <1>17, ApiStep

\* A new row in a free place, whoever stores it.
LEMMA NewRowFacts ==
  ASSUME ContractInv, NEW c \in ContractIds, LowestFree(c), NEW row \in ContractRows,
         row.soft => row.asset = Nil, contracts' = [contracts EXCEPT ![c] = row]
  PROVE  /\ contracts' \in DealTables /\ SoftUnowned(contracts') /\ Kept(contracts, contracts')
         /\ contracts'[c] = row /\ ~ActiveDeal(contracts, c)
         /\ \A d \in ContractIds \ {c} : contracts'[d] = contracts[d]
<1>1. contracts[c] = Nil /\ contracts \in DealTables
  BY DEF LowestFree, ContractInv, ContractTyped
<1>2. contracts' \in DealTables /\ contracts'[c] = row
  BY <1>1 DEF DealTables
<1>3. \A d \in ContractIds \ {c} : contracts'[d] = contracts[d]
  BY <1>1 DEF DealTables
<1>4. Kept(contracts, contracts')
  BY <1>1, <1>3 DEF Kept, Unowned
<1>5. SoftUnowned(contracts')
  BY <1>2, <1>3 DEF SoftUnowned, Unowned, ContractInv, Sound
<1>. QED BY <1>1, <1>2, <1>3, <1>4, <1>5 DEF ActiveDeal

LEMMA InsertHolds ==
  ASSUME ContractInv, NEW s \in ContractSlots, InsertContract(s)
  PROVE  ContractInv'
<1>. DEFINE k == contractCall[s]
            row == k.row
<1>1. k \in DealCalls /\ CallOK(contracts, k) /\ k.at = "insert"
  BY DEF InsertContract, ContractInv, ContractTyped, Sound, ContractIdle
<1>2. row \in ContractRows /\ (row.soft => row.asset = Nil)
  BY <1>1 DEF DealCalls, CallOK
<1>3. PICK c \in ContractIds : LowestFree(c) /\ contracts' = [contracts EXCEPT ![c] = row]
  BY DEF InsertContract
<1>4. crossed' = (crossed \/ \E o \in ContractSlots \ {s} : Storing(o, row))
  BY DEF InsertContract
<1>5. ContractTo(s, "done")
  BY DEF InsertContract
<1>6. InsertingDeal(k) = (row.asset # Nil)
  BY <1>1 DEF InsertingDeal
<1>7. ~crossed => Cleared(contracts, k) /\ Single(contracts)
  BY DEF ContractInv, Deals
<1>. HIDE DEF row, k
<1>8. /\ contracts' \in DealTables /\ SoftUnowned(contracts') /\ Kept(contracts, contracts')
      /\ contracts'[c] = row /\ ~ActiveDeal(contracts, c)
      /\ \A d \in ContractIds \ {c} : contracts'[d] = contracts[d]
  BY <1>2, <1>3, NewRowFacts
<1>9. /\ contractCall' \in [ContractSlots -> DealCalls \cup {ContractIdle}]
      /\ contractCall'[s].at = "done"
      /\ \A o \in ContractSlots \ {s} : contractCall'[o] = contractCall[o]
  <2>1. contractCall[s].at # "idle"
    BY <1>1 DEF k
  <2>2. "done" \in Ended
    BY DEF Ended
  <2>. QED BY <1>5, <2>1, <2>2, CallEnds
<1>10. crossed' \in BOOLEAN
  BY <1>4
<1>11. \A o \in ContractSlots : CallOK(contracts, contractCall'[o])
  BY <1>9 DEF CallOK, ContractInv, Sound
<1>12. Deals'
  <2>. SUFFICES ASSUME ~crossed'
                PROVE  /\ \A o \in ContractSlots : Cleared(contracts', contractCall'[o])
                       /\ Single(contracts')
    BY DEF Deals
  <2>1. ~crossed /\ \A o \in ContractSlots \ {s} : ~Storing(o, row)
    BY <1>4
  <2>2. ASSUME NEW o \in ContractSlots
        PROVE  Cleared(contracts', contractCall'[o])
    <3>1. CASE o = s
      BY <1>9, <3>1 DEF Cleared, InsertingDeal
    <3>2. CASE o # s
      <4>1. contractCall'[o] = contractCall[o] /\ Cleared(contracts, contractCall[o])
        BY <1>9, <2>1, <3>2 DEF ContractInv, Deals
      <4>2. ~Storing(o, row)
        BY <2>1, <3>2
      <4>3. InsertingDeal(contractCall[o]) => ~SameDeal(row, contractCall[o].row)
        BY <4>2 DEF Storing, InsertingDeal, SameDeal
      <4>4. ASSUME InsertingDeal(contractCall[o]), NEW d \in ContractIds, ActiveDeal(contracts', d)
            PROVE  ~SameDeal(contracts'[d], contractCall[o].row)
        <5>1. CASE d = c
          BY <1>8, <4>3, <4>4, <5>1
        <5>2. CASE d # c
          BY <1>8, <4>1, <4>4, <5>2 DEF ActiveDeal, Cleared
        <5>. QED BY <5>1, <5>2
      <4>. QED BY <4>1, <4>4 DEF Cleared
    <3>. QED BY <3>1, <3>2
  <2>3. ASSUME NEW d \in ContractIds, d # c, ActiveDeal(contracts', d), ActiveDeal(contracts', c)
        PROVE  ~SameDeal(contracts'[d], contracts'[c])
    <3>1. row.asset # Nil
      BY <1>8, <2>3 DEF ActiveDeal
    <3>2. ActiveDeal(contracts, d) /\ contracts'[d] = contracts[d]
      BY <1>8, <2>3 DEF ActiveDeal
    <3>. QED BY <1>6, <1>7, <1>8, <2>1, <3>1, <3>2 DEF Cleared, k, row
  <2>4. ASSUME NEW d \in ContractIds, NEW e \in ContractIds, d # e,
               ActiveDeal(contracts', d), ActiveDeal(contracts', e)
        PROVE  ~SameDeal(contracts'[d], contracts'[e])
    <3>1. CASE d = c
      BY <2>3, <2>4, <3>1 DEF SameDeal
    <3>2. CASE e = c
      BY <2>3, <2>4, <3>2
    <3>3. CASE d # c /\ e # c
      BY <1>7, <1>8, <2>1, <2>4, <3>3 DEF Single, ActiveDeal
    <3>. QED BY <3>1, <3>2, <3>3
  <2>. QED BY <2>2, <2>4 DEF Single
<1>13. UNCHANGED <<contractPage, contractLoads>>
  BY DEF InsertContract
<1>. QED BY <1>8, <1>9, <1>10, <1>11, <1>12, <1>13, ApiStep

\* The registration of an agent: a contract without a vendor, for an asset that has none.
LEMMA AgentHolds ==
  ASSUME ContractInv, NEW a \in Leased, AgentContract(a)
  PROVE  ContractInv'
<1>. DEFINE row == [asset |-> a, vendor |-> Nil, soft |-> FALSE, ends |-> Nil, active |-> TRUE]
<1>1. PICK c \in ContractIds : LowestFree(c) /\ contracts' = [contracts EXCEPT ![c] = row]
  BY DEF AgentContract
<1>2. row \in ContractRows /\ row.asset = a /\ row.vendor = Nil /\ (row.soft => row.asset = Nil)
  BY DEF ContractRows
<1>3. \A d \in ContractIds : contracts[d] # Nil => contracts[d].asset # a
  BY DEF AgentContract
<1>4. UNCHANGED <<contractPage, contractLoads, contractCall, crossed>>
  BY DEF AgentContract
<1>. HIDE DEF row
<1>5. /\ contracts' \in DealTables /\ SoftUnowned(contracts') /\ Kept(contracts, contracts')
      /\ contracts'[c] = row /\ ~ActiveDeal(contracts, c)
      /\ \A d \in ContractIds \ {c} : contracts'[d] = contracts[d]
  BY <1>1, <1>2, NewRowFacts
<1>6. ASSUME ~crossed, NEW o \in ContractSlots
      PROVE  Cleared(contracts', contractCall[o])
  <2>1. Cleared(contracts, contractCall[o]) /\ CallOK(contracts, contractCall[o])
    BY <1>6 DEF ContractInv, Deals, Sound
  <2>2. ASSUME InsertingDeal(contractCall[o]), NEW d \in ContractIds, ActiveDeal(contracts', d)
        PROVE  ~SameDeal(contracts'[d], contractCall[o].row)
    <3>1. CASE d = c
      BY <1>2, <1>5, <2>1, <2>2, <3>1 DEF CallOK, InsertingDeal, SameDeal
    <3>2. CASE d # c
      BY <1>5, <2>1, <2>2, <3>2 DEF ActiveDeal, Cleared
    <3>. QED BY <3>1, <3>2
  <2>. QED BY <2>2 DEF Cleared
<1>7. ASSUME ~crossed, NEW d \in ContractIds, NEW e \in ContractIds, d # e,
             ActiveDeal(contracts', d), ActiveDeal(contracts', e)
      PROVE  ~SameDeal(contracts'[d], contracts'[e])
  <2>1. CASE d # c /\ e # c
    BY <1>5, <1>7, <2>1 DEF ContractInv, Deals, Single, ActiveDeal
  <2>2. CASE d = c
    BY <1>2, <1>3, <1>5, <1>7, <2>2 DEF ActiveDeal, SameDeal
  <2>3. CASE e = c
    BY <1>2, <1>3, <1>5, <1>7, <2>3 DEF ActiveDeal, SameDeal
  <2>. QED BY <2>1, <2>2, <2>3
<1>8. Deals'
  BY <1>4, <1>6, <1>7 DEF Deals, Single
<1>9. /\ crossed' \in BOOLEAN
      /\ contractCall' \in [ContractSlots -> DealCalls \cup {ContractIdle}]
      /\ \A o \in ContractSlots : CallOK(contracts, contractCall'[o])
  BY <1>4 DEF ContractInv, ContractTyped, Sound
<1>. QED BY <1>4, <1>5, <1>8, <1>9, ApiStep

\* An update, which reaches software only, and a deletion.
LEMMA RowStep ==
  ASSUME ContractInv, NEW s \in ContractSlots, NEW i, Unowned(contracts, i), NEW row \in ContractRows,
         NEW at \in Ended, row.asset = Nil, contracts' = [contracts EXCEPT ![i] = row],
         contractCall[s].at # "idle", ContractTo(s, at),
         UNCHANGED <<contractPage, contractLoads, crossed>>
  PROVE  ContractInv'
<1>1. i \in ContractIds /\ contracts \in DealTables
  BY DEF Unowned, ContractInv, ContractTyped
<1>2. contracts' \in DealTables /\ contracts'[i] = row
  BY <1>1 DEF DealTables
<1>3. \A d \in ContractIds \ {i} : contracts'[d] = contracts[d]
  BY <1>1 DEF DealTables
<1>4. Kept(contracts, contracts') /\ Unowned(contracts', i)
  BY <1>1, <1>2, <1>3, ContractAssumption DEF Kept, Unowned
<1>5. SoftUnowned(contracts')
  BY <1>3, <1>4 DEF SoftUnowned, Unowned, ContractInv, Sound
<1>6. /\ contractCall' \in [ContractSlots -> DealCalls \cup {ContractIdle}]
      /\ contractCall'[s].at = at
      /\ \A o \in ContractSlots \ {s} : contractCall'[o] = contractCall[o]
  BY CallEnds
<1>7. \A o \in ContractSlots : CallOK(contracts, contractCall'[o])
  BY <1>6 DEF CallOK, Ended, ContractInv, Sound
<1>8. \A o \in ContractSlots : InsertingDeal(contractCall'[o]) => contractCall'[o] = contractCall[o]
  BY <1>6 DEF InsertingDeal, Ended
<1>9. Deals'
  BY <1>2, <1>3, <1>8, NoNewDeal DEF ActiveDeal, SameDeal
<1>10. crossed' \in BOOLEAN
  BY DEF ContractInv, ContractTyped
<1>. QED BY <1>2, <1>4, <1>5, <1>6, <1>7, <1>9, <1>10, ApiStep

LEMMA UpdateHolds ==
  ASSUME ContractInv, NEW s \in ContractSlots, UpdateContract(s) \/ DeleteContract(s)
  PROVE  ContractInv'
<1>. DEFINE k == contractCall[s]
            i == k.id
            old == contracts[i]
<1>1. k \in DealCalls /\ CallOK(contracts, k) /\ k.at \in {"update", "delete"}
  BY DEF UpdateContract, DeleteContract, ContractInv, ContractTyped, Sound, ContractIdle
<1>2. Unowned(contracts, i)
  BY <1>1 DEF CallOK
<1>3. old \in ContractRows /\ old.asset = Nil
  BY <1>2 DEF Unowned, ContractInv, ContractTyped, DealTables
<1>4. k.at # "idle" /\ {"done", "deleted"} \subseteq Ended
  BY <1>1 DEF Ended
<1>5. CASE UpdateContract(s)
  <2>. DEFINE row == [old EXCEPT !.vendor = k.row.vendor, !.ends = k.row.ends]
  <2>1. k.row.vendor \in Vendors \cup {Nil} /\ k.row.ends \in Ends \cup {Nil}
    BY <1>1 DEF DealCalls, ContractRows
  <2>2. row \in ContractRows /\ row.asset = Nil
    BY <1>3, <2>1 DEF ContractRows
  <2>3. contracts' = [contracts EXCEPT ![i] = row]
    BY <1>2, <1>5 DEF UpdateContract, ContractInv, ContractTyped, DealTables, Unowned
  <2>4. ContractTo(s, "done") /\ UNCHANGED <<contractPage, contractLoads, crossed>>
    BY <1>5 DEF UpdateContract
  <2>. HIDE DEF row, i
  <2>. QED BY <1>2, <1>4, <2>2, <2>3, <2>4, RowStep
<1>6. CASE DeleteContract(s)
  <2>. DEFINE row == [old EXCEPT !.active = FALSE]
  <2>1. row \in ContractRows /\ row.asset = Nil
    BY <1>3 DEF ContractRows
  <2>2. contracts' = [contracts EXCEPT ![i] = row]
    BY <1>2, <1>6 DEF DeleteContract, ContractInv, ContractTyped, DealTables, Unowned
  <2>3. ContractTo(s, "deleted") /\ UNCHANGED <<contractPage, contractLoads, crossed>>
    BY <1>6 DEF DeleteContract
  <2>. HIDE DEF row, i
  <2>. QED BY <1>2, <1>4, <2>1, <2>2, <2>3, RowStep
<1>. QED BY <1>5, <1>6

-----------------------------------------------------------------------------
LEMMA ContractStepHolds ==
  ASSUME ContractInv, [ContractNext]_contractVars
  PROVE  ContractInv'
<1>1. ASSUME NEW k \in Counters,
             \/ ContractRefresh(k) \/ CloseContractForm(k)
             \/ \E rows \in contractLoads[k] : ContractArrive(k, rows)
      PROVE  ContractInv'
  BY <1>1, RefreshHolds, FormsHold, ArriveHolds
<1>2. ASSUME NEW a \in Leased, OpenContractForm(a) \/ AgentContract(a)
      PROVE  ContractInv'
  BY <1>2, FormsHold, AgentHolds
<1>3. ASSUME NEW c \in ContractIds \cup {Nil}, OpenSoftwareForm(c)
      PROVE  ContractInv'
  BY <1>3, FormsHold
<1>4. ASSUME NEW c \in ContractIds, DeleteSoftware(c)
      PROVE  ContractInv'
  BY <1>4, DeleteSent
<1>5. ASSUME NEW v \in Vendors, \/ \E e \in Ends : SaveContract(v, e)
                                \/ \E e \in Ends \cup {Nil} : SaveSoftware(v, e)
      PROVE  ContractInv'
  BY <1>5, SavesHold
<1>6. ASSUME NEW s \in ContractSlots,
             \/ DeactivateDeals(s) \/ InsertContract(s) \/ UpdateContract(s)
             \/ DeleteContract(s) \/ ContractFails(s) \/ ContractAnswer(s)
      PROVE  ContractInv'
  BY <1>6, DeactivateHolds, InsertHolds, UpdateHolds, FailsHold, AnswerHolds
<1>7. CASE UNCHANGED contractVars
  <2>1. UNCHANGED <<contracts, contractPage, contractLoads, contractCall, crossed>>
    BY <1>7 DEF contractVars
  <2>. QED BY <2>1, PageStep DEF ContractInv, ContractTyped, Sound
<1>. QED BY <1>1, <1>2, <1>3, <1>4, <1>5, <1>6, <1>7 DEF ContractNext

LEMMA DealsAreSingle == ContractInv => OneContract
  BY DEF ContractInv, Deals, Single, ActiveDeal, OneContract, SameDeal

\* While no two contracts have been stored at the same time, an asset has at most one
\* active contract with a vendor, whatever the two pages, lost or failed requests and
\* registrations do (route.ts:87 and what writes around it).
THEOREM ContractsAreSingle == ContractSpec => []OneContract
<1>1. DeskInit /\ ContractInit => ContractInv
  BY ContractInitHolds
<1>2. ContractInv /\ [ContractNext]_<<contractVars, deskVars>> => ContractInv'
  BY ContractStepHolds DEF contractVars
<1>3. ContractInv => OneContract
  BY DealsAreSingle
<1>. QED BY <1>1, <1>2, <1>3, PTL DEF ContractSpec

-----------------------------------------------------------------------------
(* The agent tokens, for any tokens, assets, hosts and registrations at    *)
(* the same time.                                                          *)

Regs == [at : {"idle", "read", "update", "insert", "bind", "contract"},
         host : Hosts \cup {Nil}, key : Tokens \cup {Nil}, asset : AssetIds \cup {Nil}]

\* A registration in work is of a token that has been issued.
RegStands(c) ==
  /\ c \in Regs
  /\ c.at = "idle" => c = NoReg
  /\ c.at # "idle" => c.key \in Tokens /\ c.host \in Hosts /\ token[c.key] # Nil
  /\ c.at = "bind" => c.asset \in AssetIds

\* The tokens agents have, and the page offers, have been issued.
Issued(k) == k \in Tokens /\ token[k] # Nil
PageOffers(p) ==
  /\ p \in [tokens : {p.tokens}, servers : SUBSET AssetIds, form : BOOLEAN, copy : {p.copy}]
  /\ p.tokens \in [Tokens -> TokenRows \cup {Nil}]
  /\ \A k \in Tokens : p.tokens[k] # Nil \/ p.copy = k => Issued(k)

AgentTyped ==
  /\ token \in [Tokens -> TokenRows \cup {Nil}]
  /\ machine \in [AssetIds -> Tokens \cup {Nil, 0}]
  /\ agent \in [Hosts -> [key : Tokens \cup {Nil}, asset : AssetIds \cup {Nil}]]
  /\ \A h \in Hosts : agent[h].key # Nil => Issued(agent[h].key)
  /\ PageOffers(agentsPage)
  /\ regCall \in [RegSlots -> Regs] /\ \A s \in RegSlots : RegStands(regCall[s])
  /\ late \in [Tokens -> Nat] /\ unbound \in [Tokens -> Nat]

\* The registrations of a token that will make an asset, those that have not bound it
\* yet, and whether the next one to look finds it unbound and nobody at it.
Inserting(k) == {s \in RegSlots : regCall[s].key = k /\ regCall[s].at = "insert"}
BetweenIds(k) == {s \in RegSlots : regCall[s].key = k /\ regCall[s].at \in {"insert", "bind"}}
Untried(k) == (token[k] = Nil \/ token[k].asset = Nil) /\ BetweenIds(k) = {}

\* RegistersOnce is not inductive: an insert adds an asset and nothing else.  A
\* registration on its way to one counts already, and the first one that a token has
\* for free is only there once a registration has looked at it.
AssetsCounted ==
  \A k \in Tokens :
    /\ IsFiniteSet(MadeBy(k)) /\ IsFiniteSet(Inserting(k))
    /\ Cardinality(MadeBy(k)) + Cardinality(Inserting(k))
         <= late[k] + unbound[k] + (IF Untried(k) THEN 0 ELSE 1)

AgentInv == AgentTyped /\ AssetsCounted

-----------------------------------------------------------------------------
LEMMA AgentInitHolds == AgentInit => AgentInv
<1>. SUFFICES ASSUME AgentInit PROVE AgentInv
  OBVIOUS
<1>1. NoReg \in Regs /\ RegStands(NoReg)
  BY DEF NoReg, Regs, RegStands
<1>2. PageOffers(agentsPage)
  BY AgentDeskAssumption DEF AgentInit, NoPage, PageOffers
<1>3. AgentTyped
  BY <1>1, <1>2 DEF AgentInit, AgentTyped
<1>4. ASSUME NEW k \in Tokens PROVE MadeBy(k) = {} /\ Inserting(k) = {}
  BY AgentDeskAssumption DEF AgentInit, MadeBy, Inserting, NoReg
<1>5. AssetsCounted
  BY <1>4, FS_EmptySet DEF AgentInit, AssetsCounted
<1>. QED BY <1>3, <1>5 DEF AgentInv

LEMMA AgentRegistersOnce == AgentInv => RegistersOnce
<1>. SUFFICES ASSUME AgentInv, NEW k \in Tokens
              PROVE  Cardinality(MadeBy(k)) <= 1 + late[k] + unbound[k]
  BY DEF RegistersOnce
<1>1. /\ Cardinality(MadeBy(k)) \in Nat /\ Cardinality(Inserting(k)) \in Nat
      /\ late[k] \in Nat /\ unbound[k] \in Nat
  BY FS_CardinalityType DEF AgentInv, AgentTyped, AssetsCounted
<1>2. Cardinality(MadeBy(k)) + Cardinality(Inserting(k))
        <= late[k] + unbound[k] + (IF Untried(k) THEN 0 ELSE 1)
  BY DEF AgentInv, AssetsCounted
<1>. QED BY <1>1, <1>2

\* A step that makes no asset and leaves the registrations that will make one.
LEMMA AssetsStillCounted ==
  ASSUME AssetsCounted, UNCHANGED <<machine, late, unbound>>,
         \A k \in Tokens : Inserting(k)' = Inserting(k) /\ (Untried(k)' => Untried(k)),
         late \in [Tokens -> Nat], unbound \in [Tokens -> Nat]
  PROVE  AssetsCounted'
<1>. SUFFICES ASSUME NEW k \in Tokens
     PROVE /\ IsFiniteSet(MadeBy(k))' /\ IsFiniteSet(Inserting(k))'
           /\ (Cardinality(MadeBy(k)) + Cardinality(Inserting(k))
                <= late[k] + unbound[k] + (IF Untried(k) THEN 0 ELSE 1))'
  BY DEF AssetsCounted
<1>1. MadeBy(k)' = MadeBy(k) /\ IsFiniteSet(MadeBy(k)) /\ IsFiniteSet(Inserting(k))
  BY DEF MadeBy, AssetsCounted
<1>2. Cardinality(MadeBy(k)) \in Nat /\ Cardinality(Inserting(k)) \in Nat
  BY <1>1, FS_CardinalityType
<1>3. Cardinality(MadeBy(k)) + Cardinality(Inserting(k))
        <= late[k] + unbound[k] + (IF Untried(k) THEN 0 ELSE 1)
  BY DEF AssetsCounted
<1>. QED BY <1>1, <1>2, <1>3

\* A token once issued stays so.
LEMMA StaysIssued ==
  ASSUME \A k \in Tokens : token[k] # Nil => token'[k] # Nil
  PROVE  /\ \A k : Issued(k) => Issued(k)'
         /\ \A c : RegStands(c) => RegStands(c)'
         /\ \A p : PageOffers(p) => PageOffers(p)'
<1>1. \A k : Issued(k) => Issued(k)'
  BY DEF Issued
<1>2. \A c : RegStands(c) => RegStands(c)'
  BY DEF RegStands, Regs, NoReg
<1>3. \A p : PageOffers(p) => PageOffers(p)'
  BY <1>1 DEF PageOffers, TokenRows
<1>. QED BY <1>1, <1>2, <1>3

\* A step that makes no request is typed when its tokens, agents and page are.
LEMMA DeskStaysTyped ==
  ASSUME AgentTyped, UNCHANGED <<machine, regCall, late, unbound>>,
         token' \in [Tokens -> TokenRows \cup {Nil}],
         \A k \in Tokens : token[k] # Nil => token'[k] # Nil,
         agent' \in [Hosts -> [key : Tokens \cup {Nil}, asset : AssetIds \cup {Nil}]],
         \A h \in Hosts : agent'[h].key # Nil => Issued(agent[h].key)',
         PageOffers(agentsPage)'
  PROVE  AgentTyped'
<1>1. \A s \in RegSlots : RegStands(regCall[s])'
  <2>. SUFFICES ASSUME NEW s \in RegSlots PROVE RegStands(regCall[s])'
    OBVIOUS
  <2>1. PICK c : c = regCall[s]
    OBVIOUS
  <2>2. RegStands(c)'
    BY <2>1, StaysIssued DEF AgentTyped
  <2>. QED BY <2>1, <2>2 DEF RegStands
<1>. QED BY <1>1 DEF AgentTyped

LEMMA AgentPageHolds ==
  ASSUME AgentInv,
         \/ LoadAgents \/ ToggleTokenForm
         \/ \E k \in Tokens : \/ \E a \in AssetIds \cup {Nil} : IssueToken(k, a)
                              \/ Revoke(k)
                              \/ \E h \in Hosts : Install(h, k)
         \/ \E h \in Hosts : RestartAgent(h)
         \/ UNCHANGED agentVars
  PROVE  AgentInv'
<1>1. AgentTyped /\ AssetsCounted /\ PageOffers(agentsPage)
      /\ late \in [Tokens -> Nat] /\ unbound \in [Tokens -> Nat]
      /\ token \in [Tokens -> TokenRows \cup {Nil}]
      /\ agent \in [Hosts -> [key : Tokens \cup {Nil}, asset : AssetIds \cup {Nil}]]
      /\ \A h \in Hosts : agent[h].key # Nil => Issued(agent[h].key)
  BY DEF AgentInv, AgentTyped
\* What is left to show: the tokens stay issued and bound, the agents' are issued.
<1>2. ASSUME UNCHANGED <<machine, regCall, late, unbound>>,
             token' \in [Tokens -> TokenRows \cup {Nil}],
             \A k \in Tokens : token[k] # Nil => token'[k] # Nil,
             \A k \in Tokens : token'[k].asset = Nil /\ token[k] # Nil => token[k].asset = Nil,
             agent' \in [Hosts -> [key : Tokens \cup {Nil}, asset : AssetIds \cup {Nil}]],
             \A h \in Hosts : agent'[h].key \in {agent[h].key, Nil} \/ Issued(agent[h].key)',
             PageOffers(agentsPage)'
      PROVE  AgentInv'
  <2>1. \A h \in Hosts : agent'[h].key # Nil => Issued(agent[h].key)'
    BY <1>1, <1>2 DEF Issued
  <2>2. AgentTyped'
    BY <1>1, <1>2, <2>1, DeskStaysTyped
  <2>3. \A k \in Tokens : Inserting(k)' = Inserting(k) /\ (Untried(k)' => Untried(k))
    BY <1>2 DEF Inserting, Untried, BetweenIds
  <2>. QED BY <1>1, <1>2, <2>2, <2>3, AssetsStillCounted DEF AgentInv
<1>3. ASSUME UNCHANGED <<machine, regCall, late, unbound, token, agent>>, PageOffers(agentsPage')
      PROVE  AgentInv'
  <2>1. PageOffers(agentsPage)'
    BY <1>3 DEF PageOffers, Issued
  <2>. QED BY <1>1, <1>2, <1>3, <2>1
<1>4. CASE LoadAgents
  <2>1. PageOffers(agentsPage')
    BY <1>1, <1>4 DEF LoadAgents, Listed, PageOffers, MachineRows, Issued
  <2>. QED BY <1>3, <1>4, <2>1 DEF LoadAgents
<1>5. CASE ToggleTokenForm
  <2>1. agentsPage.form \in BOOLEAN
    BY <1>1 DEF PageOffers
  <2>2. \A b \in BOOLEAN : PageOffers([agentsPage EXCEPT !.form = b])
    BY <1>1 DEF PageOffers
  <2>3. PageOffers(agentsPage')
    BY <1>5, <2>1, <2>2, Zenon DEF ToggleTokenForm
  <2>. QED BY <1>3, <1>5, <2>3 DEF ToggleTokenForm
<1>6. ASSUME NEW k \in Tokens, NEW a \in AssetIds \cup {Nil}, IssueToken(k, a) PROVE AgentInv'
  <2>. DEFINE row == [asset |-> a, revoked |-> FALSE]
  <2>1. row \in TokenRows /\ row # Nil
    <3>1. row \in TokenRows
      BY DEF TokenRows
    <3>. QED BY <3>1, AgentDeskAssumption
  <2>2. token[k] = Nil /\ token' = [token EXCEPT ![k] = row]
    BY <1>6 DEF IssueToken, First
  <2>. HIDE DEF row
  <2>3. /\ token' \in [Tokens -> TokenRows \cup {Nil}] /\ token'[k] # Nil
        /\ \A x \in Tokens : token[x] # Nil => token'[x] = token[x]
    BY <1>1, <2>1, <2>2
  <2>4. PageOffers(agentsPage)'
    <3>1. agentsPage' = [Listed(agentsPage) EXCEPT !.form = FALSE, !.copy = k]
      BY <1>6 DEF IssueToken
    <3>2. MachineRows \subseteq AssetIds
      BY DEF MachineRows
    <3>. QED BY <1>1, <2>3, <3>1, <3>2 DEF PageOffers, Listed, Issued, TokenRows
  <2>5. UNCHANGED <<machine, regCall, late, unbound, agent>>
    BY <1>6 DEF IssueToken
  <2>. QED BY <1>1, <1>2, <2>3, <2>4, <2>5
<1>7. ASSUME NEW k \in Tokens, Revoke(k) PROVE AgentInv'
  <2>1. agentsPage.tokens[k] \in TokenRows /\ token[k] \in TokenRows
    BY <1>1, <1>7 DEF Revoke, Active, PageOffers, Issued
  <2>2. [token[k] EXCEPT !.revoked = TRUE] \in TokenRows
        /\ [token[k] EXCEPT !.revoked = TRUE].asset = token[k].asset
        /\ [agentsPage.tokens[k] EXCEPT !.revoked = TRUE] \in TokenRows
    BY <2>1 DEF TokenRows
  <2>3. PICK row : row = [token[k] EXCEPT !.revoked = TRUE]
    OBVIOUS
  <2>4. PICK shown : shown = [agentsPage.tokens[k] EXCEPT !.revoked = TRUE]
    OBVIOUS
  <2>5. token' = [token EXCEPT ![k] = row]
        /\ agentsPage' = [agentsPage EXCEPT !.tokens = [agentsPage.tokens EXCEPT ![k] = shown]]
    BY <1>7, <2>3, <2>4 DEF Revoke
  <2>6. row \in TokenRows /\ row # Nil /\ row.asset = token[k].asset /\ shown \in TokenRows
    BY <2>2, <2>3, <2>4, AgentDeskAssumption
  <2>7. /\ token' \in [Tokens -> TokenRows \cup {Nil}] /\ token'[k] = row
        /\ \A x \in Tokens \ {k} : token'[x] = token[x]
    BY <1>1, <2>5, <2>6
  <2>8. token[k] # Nil
    BY <2>1, AgentDeskAssumption
  <2>9. PageOffers(agentsPage)'
    BY <1>1, <2>5, <2>6, <2>7, <2>8 DEF PageOffers, Issued, TokenRows
  <2>10. UNCHANGED <<machine, regCall, late, unbound, agent>>
    BY <1>7 DEF Revoke
  <2>. QED BY <1>1, <1>2, <2>6, <2>7, <2>9, <2>10
<1>8. ASSUME NEW k \in Tokens, NEW h \in Hosts, Install(h, k) PROVE AgentInv'
  <2>1. Issued(k)
    BY <1>1, <1>8 DEF Install, Active, PageOffers
  <2>2. agent' = [agent EXCEPT ![h] = [key |-> k, asset |-> Nil]]
        /\ UNCHANGED <<token, machine, regCall, late, unbound, agentsPage>>
    BY <1>8 DEF Install
  <2>3. PageOffers(agentsPage)' /\ Issued(k)'
    BY <1>1, <2>1, <2>2 DEF PageOffers, Issued
  <2>4. \A o \in Hosts : agent'[o].key \in {agent[o].key, Nil} \/ Issued(agent[o].key)'
    BY <1>1, <2>2, <2>3 DEF Issued
  <2>. QED BY <1>1, <1>2, <2>2, <2>3, <2>4
<1>9. ASSUME NEW h \in Hosts, RestartAgent(h) PROVE AgentInv'
  <2>1. agent' = [agent EXCEPT ![h].asset = Nil]
        /\ UNCHANGED <<token, machine, regCall, late, unbound, agentsPage>>
    BY <1>9 DEF RestartAgent
  <2>2. PageOffers(agentsPage)'
    BY <1>1, <2>1 DEF PageOffers, Issued
  <2>. QED BY <1>1, <1>2, <2>1, <2>2
<1>10. CASE UNCHANGED agentVars
  <2>1. PageOffers(agentsPage')
    BY <1>1, <1>10 DEF agentVars
  <2>. QED BY <1>3, <1>10, <2>1 DEF agentVars
<1>. QED BY <1>4, <1>5, <1>6, <1>7, <1>8, <1>9, <1>10

-----------------------------------------------------------------------------
\* What a step of one registration does to the two sets.
LEMMA RegSets ==
  ASSUME regCall \in [RegSlots -> Regs], NEW s \in RegSlots, NEW d \in Regs,
         regCall' = [regCall EXCEPT ![s] = d], NEW k
  PROVE  /\ Inserting(k)' = IF d.key = k /\ d.at = "insert" THEN Inserting(k) \cup {s}
                                                            ELSE Inserting(k) \ {s}
         /\ BetweenIds(k)' = IF d.key = k /\ d.at \in {"insert", "bind"} THEN BetweenIds(k) \cup {s}
                                                                     ELSE BetweenIds(k) \ {s}
<1>1. \A o \in RegSlots : regCall'[o] = IF o = s THEN d ELSE regCall[o]
  OBVIOUS
<1>2. CASE d.key = k /\ d.at = "insert"
  BY <1>1, <1>2 DEF Inserting, BetweenIds
<1>3. CASE d.key = k /\ d.at = "bind"
  BY <1>1, <1>3 DEF Inserting, BetweenIds
<1>4. CASE d.key # k \/ d.at \notin {"insert", "bind"}
  BY <1>1, <1>4 DEF Inserting, BetweenIds
<1>. QED BY <1>2, <1>3, <1>4

\* A step of a registration, and of nothing else but tokens and the agents.
LEMMA RegStaysTyped ==
  ASSUME AgentTyped, NEW s \in RegSlots, NEW d, RegStands(d),
         regCall' = [regCall EXCEPT ![s] = d],
         UNCHANGED agentsPage,
         token' \in [Tokens -> TokenRows \cup {Nil}],
         \A k \in Tokens : token[k] # Nil => token'[k] # Nil,
         machine' \in [AssetIds -> Tokens \cup {Nil, 0}],
         agent' \in [Hosts -> [key : Tokens \cup {Nil}, asset : AssetIds \cup {Nil}]],
         \A h \in Hosts : agent'[h].key \in {agent[h].key, Nil},
         late' \in [Tokens -> Nat], unbound' \in [Tokens -> Nat]
  PROVE  AgentTyped'
<1>1. \A h \in Hosts : agent'[h].key # Nil => Issued(agent[h].key)'
  BY StaysIssued DEF AgentTyped, Issued
<1>2. PageOffers(agentsPage)'
  <2>1. PICK p : p = agentsPage
    OBVIOUS
  <2>2. PageOffers(p)'
    BY <2>1, StaysIssued DEF AgentTyped
  <2>. QED BY <2>1, <2>2 DEF PageOffers, Issued
<1>3. \A o \in RegSlots : regCall'[o] = IF o = s THEN d ELSE regCall[o]
  BY DEF AgentTyped
<1>4. \A o \in RegSlots : RegStands(regCall[o])'
  <2>. SUFFICES ASSUME NEW o \in RegSlots PROVE RegStands(regCall[o])'
    OBVIOUS
  <2>1. PICK c : c = regCall'[o]
    OBVIOUS
  <2>2. RegStands(c)
    BY <1>3, <2>1 DEF AgentTyped
  <2>3. RegStands(c)'
    BY <2>2, StaysIssued
  <2>. QED BY <2>1, <2>3 DEF RegStands
<1>5. d \in Regs /\ regCall' \in [RegSlots -> Regs]
  BY DEF AgentTyped, RegStands
<1>. QED BY <1>1, <1>2, <1>4, <1>5 DEF AgentTyped

\* What an agent is told is an asset, and it keeps its token.
LEMMA ToldAgents ==
  ASSUME AgentTyped, NEW s \in RegSlots, NEW a \in AssetIds \cup {Nil}, Told(s, a),
         regCall[s].at # "idle"
  PROVE  /\ agent' \in [Hosts -> [key : Tokens \cup {Nil}, asset : AssetIds \cup {Nil}]]
         /\ \A h \in Hosts : agent'[h].key \in {agent[h].key, Nil}
<1>. DEFINE h == regCall[s].host
            new == IF agent[h].key = regCall[s].key THEN [agent[h] EXCEPT !.asset = a]
                                                    ELSE agent[h]
<1>1. agent \in [Hosts -> [key : Tokens \cup {Nil}, asset : AssetIds \cup {Nil}]]
      /\ h \in Hosts
  BY DEF AgentTyped, RegStands
<1>2. /\ new \in [key : Tokens \cup {Nil}, asset : AssetIds \cup {Nil}]
      /\ new.key = agent[h].key
  BY <1>1
<1>3. agent' = [agent EXCEPT ![h] = new]
  BY DEF Told
<1>. HIDE DEF h, new
<1>. QED BY <1>1, <1>2, <1>3

\* The steps that end outside the two sets, from outside of them.
LEMMA AgentQuietHolds ==
  ASSUME AgentInv, NEW s \in RegSlots,
         \/ \E h \in Hosts : Register(s, h)
         \/ UpdateMachine(s) \/ AddContract(s)
         \/ ReadToken(s) /\ (token[regCall[s].key].revoked \/ token[regCall[s].key].asset # Nil)
  PROVE  AgentInv'
<1>. DEFINE c == regCall[s]
<1>1. AgentTyped /\ AssetsCounted /\ RegStands(c)
  BY DEF AgentInv, AgentTyped
<1>2. regCall \in [RegSlots -> Regs] /\ late \in [Tokens -> Nat] /\ unbound \in [Tokens -> Nat]
      /\ token \in [Tokens -> TokenRows \cup {Nil}]
      /\ machine \in [AssetIds -> Tokens \cup {Nil, 0}]
      /\ agent \in [Hosts -> [key : Tokens \cup {Nil}, asset : AssetIds \cup {Nil}]]
      /\ \A h \in Hosts : agent[h].key # Nil => Issued(agent[h].key)
  BY <1>1 DEF AgentTyped
<1>3. RegStands(NoReg) /\ NoReg.at = "idle"
  BY DEF NoReg, RegStands, Regs
<1>4. ASSUME NEW d, RegStands(d), d.at \notin {"insert", "bind"},
             c.at \notin {"insert", "bind"}, regCall' = [regCall EXCEPT ![s] = d],
             UNCHANGED <<token, machine, agentsPage, late, unbound>>,
             agent' \in [Hosts -> [key : Tokens \cup {Nil}, asset : AssetIds \cup {Nil}]],
             \A h \in Hosts : agent'[h].key \in {agent[h].key, Nil}
      PROVE  AgentInv'
  <2>1. AgentTyped'
    BY <1>1, <1>2, <1>4, RegStaysTyped
  <2>2. ASSUME NEW k \in Tokens
        PROVE  Inserting(k)' = Inserting(k) /\ BetweenIds(k)' = BetweenIds(k)
    <3>1. s \notin Inserting(k) /\ s \notin BetweenIds(k) /\ d \in Regs
      BY <1>4 DEF Inserting, BetweenIds, RegStands
    <3>2. Inserting(k)' = Inserting(k) \ {s} /\ BetweenIds(k)' = BetweenIds(k) \ {s}
      <4>1. ~(d.key = k /\ d.at = "insert") /\ ~(d.key = k /\ d.at \in {"insert", "bind"})
        BY <1>4
      <4>. QED BY <1>2, <1>4, <3>1, <4>1, RegSets, Zenon
    <3>. QED BY <3>1, <3>2
  <2>3. \A k \in Tokens : Inserting(k)' = Inserting(k) /\ (Untried(k)' => Untried(k))
    BY <1>4, <2>2 DEF Untried
  <2>. QED BY <1>1, <1>2, <1>4, <2>1, <2>3, AssetsStillCounted DEF AgentInv
<1>5. ASSUME NEW h \in Hosts, Register(s, h) PROVE AgentInv'
  <2>. DEFINE d == [at |-> "read", host |-> h, key |-> agent[h].key, asset |-> Nil]
  <2>1. agent[h].key \in Tokens /\ token[agent[h].key] # Nil
    BY <1>2, <1>5 DEF Register, Issued
  <2>2. RegStands(d) /\ d.at = "read"
    BY <2>1 DEF RegStands, Regs, NoReg
  <2>3. regCall' = [regCall EXCEPT ![s] = d] /\ c.at = "idle"
    BY <1>5 DEF Register, NoReg
  <2>. HIDE DEF d
  <2>. QED BY <1>2, <1>4, <1>5, <2>2, <2>3 DEF Register
<1>6. CASE UpdateMachine(s) \/ AddContract(s)
  <2>1. c.at \in {"update", "contract"} /\ Told(s, c.asset)
        /\ regCall' = [regCall EXCEPT ![s] = NoReg]
        /\ UNCHANGED <<token, machine, agentsPage, late, unbound>>
    BY <1>6 DEF UpdateMachine, AddContract, Reg
  <2>2. c.asset \in AssetIds \cup {Nil}
    BY <1>1 DEF RegStands, Regs
  <2>3. /\ agent' \in [Hosts -> [key : Tokens \cup {Nil}, asset : AssetIds \cup {Nil}]]
        /\ \A h \in Hosts : agent'[h].key \in {agent[h].key, Nil}
    BY <1>1, <2>1, <2>2, ToldAgents
  <2>. QED BY <1>3, <1>4, <2>1, <2>3
<1>7. CASE ReadToken(s) /\ (token[c.key].revoked \/ token[c.key].asset # Nil)
  <2>1. /\ c.at = "read" /\ c.key \in Tokens /\ c.host \in Hosts /\ token[c.key] # Nil
        /\ token[c.key] \in TokenRows
    BY <1>1, <1>2, <1>7 DEF ReadToken, Reg, RegStands
  <2>2. UNCHANGED <<token, machine, agentsPage, unbound>> /\ late' = late
    BY <1>2, <1>7, <2>1 DEF ReadToken
  <2>3. CASE token[c.key].revoked
    <3>1. regCall' = [regCall EXCEPT ![s] = NoReg]
      BY <1>7, <2>3 DEF ReadToken
    <3>2. agent' = [agent EXCEPT ![c.host] =
                      IF agent[c.host].key = c.key THEN [agent[c.host] EXCEPT !.key = Nil]
                                                   ELSE agent[c.host]]
      BY <1>7, <2>3 DEF ReadToken
    <3>. DEFINE new == IF agent[c.host].key = c.key THEN [agent[c.host] EXCEPT !.key = Nil]
                                                    ELSE agent[c.host]
    <3>3. /\ new \in [key : Tokens \cup {Nil}, asset : AssetIds \cup {Nil}]
          /\ new.key \in {agent[c.host].key, Nil}
      BY <1>2, <2>1
    <3>. HIDE DEF new
    <3>4. agent' = [agent EXCEPT ![c.host] = new]
      BY <3>2 DEF new
    <3>5. /\ agent' \in [Hosts -> [key : Tokens \cup {Nil}, asset : AssetIds \cup {Nil}]]
          /\ \A h \in Hosts : agent'[h].key \in {agent[h].key, Nil}
      BY <1>2, <2>1, <3>3, <3>4
    <3>. QED BY <1>3, <1>4, <2>1, <2>2, <3>1, <3>5
  <2>4. CASE ~token[c.key].revoked
    <3>. DEFINE d == [c EXCEPT !.asset = token[c.key].asset, !.at = "update"]
    <3>1. regCall' = [regCall EXCEPT ![s] = d] /\ UNCHANGED agent
      BY <1>7, <2>4 DEF ReadToken
    <3>2. RegStands(d) /\ d.at = "update"
      BY <1>1, <2>1 DEF RegStands, Regs, TokenRows
    <3>. HIDE DEF d
    <3>. QED BY <1>2, <1>4, <2>1, <2>2, <3>1, <3>2
  <2>. QED BY <2>3, <2>4
<1>. QED BY <1>5, <1>6, <1>7

\* How a step may change the assets made with a token, the registrations that will
\* make one, and what the two may come to.
Shifts(made, coming, a, more, next, b) ==
  \/ more = made /\ next = coming /\ a <= b
  \/ \E x : more = made /\ next = coming \cup {x} /\ a + 1 <= b
  \/ \E x \in coming : more = made /\ next = coming \ {x} /\ a <= b + 1
  \/ \E x \in coming : \E y : more = made \cup {y} /\ next = coming \ {x} /\ a <= b

LEMMA StaysWithin ==
  ASSUME NEW made, NEW coming, NEW a \in Nat, NEW more, NEW next, NEW b \in Nat,
         IsFiniteSet(made), IsFiniteSet(coming),
         Cardinality(made) + Cardinality(coming) <= a,
         Shifts(made, coming, a, more, next, b)
  PROVE  /\ IsFiniteSet(more) /\ IsFiniteSet(next)
         /\ Cardinality(more) + Cardinality(next) <= b
<1>1. Cardinality(made) \in Nat /\ Cardinality(coming) \in Nat
  BY FS_CardinalityType
<1>2. CASE more = made /\ next = coming /\ a <= b
  BY <1>1, <1>2
<1>3. ASSUME NEW x, more = made, next = coming \cup {x}, a + 1 <= b
      PROVE  /\ IsFiniteSet(more) /\ IsFiniteSet(next)
             /\ Cardinality(more) + Cardinality(next) <= b
  <2>1. /\ IsFiniteSet(next)
        /\ Cardinality(next) \in {Cardinality(coming), Cardinality(coming) + 1}
    BY <1>3, FS_AddElement
  <2>. QED BY <1>1, <1>3, <2>1
<1>4. ASSUME NEW x \in coming, more = made, next = coming \ {x}, a <= b + 1
      PROVE  /\ IsFiniteSet(more) /\ IsFiniteSet(next)
             /\ Cardinality(more) + Cardinality(next) <= b
  <2>1. IsFiniteSet(next) /\ Cardinality(next) = Cardinality(coming) - 1
    BY <1>4, FS_RemoveElement
  <2>. QED BY <1>1, <1>4, <2>1
<1>5. ASSUME NEW x \in coming, NEW y, more = made \cup {y}, next = coming \ {x}, a <= b
      PROVE  /\ IsFiniteSet(more) /\ IsFiniteSet(next)
             /\ Cardinality(more) + Cardinality(next) <= b
  <2>1. IsFiniteSet(next) /\ Cardinality(next) = Cardinality(coming) - 1
    BY <1>5, FS_RemoveElement
  <2>2. /\ IsFiniteSet(more)
        /\ Cardinality(more) \in {Cardinality(made), Cardinality(made) + 1}
    BY <1>5, FS_AddElement
  <2>. QED BY <1>1, <1>5, <2>1, <2>2
<1>. QED BY <1>2, <1>3, <1>4, <1>5 DEF Shifts

\* The step of a registration shifts the count of its token; others keep theirs.
Limit(k) == late[k] + unbound[k] + (IF Untried(k) THEN 0 ELSE 1)

LEMMA CountsHold ==
  ASSUME AssetsCounted, AgentTyped, late' \in [Tokens -> Nat], unbound' \in [Tokens -> Nat],
         \A k \in Tokens :
           Shifts(MadeBy(k), Inserting(k), Limit(k), MadeBy(k)', Inserting(k)', Limit(k)')
  PROVE  AssetsCounted'
<1>. SUFFICES ASSUME NEW k \in Tokens
     PROVE /\ IsFiniteSet(MadeBy(k))' /\ IsFiniteSet(Inserting(k))'
           /\ (Cardinality(MadeBy(k)) + Cardinality(Inserting(k)) <= Limit(k))'
  BY DEF AssetsCounted, Limit
<1>1. Limit(k) \in Nat /\ Limit(k)' \in Nat
  BY DEF AgentTyped, Limit
<1>2. /\ IsFiniteSet(MadeBy(k)) /\ IsFiniteSet(Inserting(k))
      /\ Cardinality(MadeBy(k)) + Cardinality(Inserting(k)) <= Limit(k)
  BY DEF AssetsCounted, Limit
<1>3. /\ IsFiniteSet(MadeBy(k)') /\ IsFiniteSet(Inserting(k)')
      /\ Cardinality(MadeBy(k)') + Cardinality(Inserting(k)') <= Limit(k)'
  BY <1>1, <1>2, StaysWithin
<1>. QED BY <1>3

\* The step that will add an asset: a registration finds its token unbound.
LEMMA AgentLookHolds ==
  ASSUME AgentInv, NEW s \in RegSlots, ReadToken(s),
         ~token[regCall[s].key].revoked, token[regCall[s].key].asset = Nil
  PROVE  AgentInv'
<1>. DEFINE c == regCall[s]
            d == [c EXCEPT !.asset = token[c.key].asset, !.at = "insert"]
<1>1. /\ AgentTyped /\ AssetsCounted /\ RegStands(c) /\ c.at = "read" /\ c.key \in Tokens
      /\ regCall \in [RegSlots -> Regs] /\ late \in [Tokens -> Nat] /\ unbound \in [Tokens -> Nat]
  BY DEF AgentInv, AgentTyped, ReadToken, Reg, RegStands
<1>2. /\ regCall' = [regCall EXCEPT ![s] = d]
      /\ UNCHANGED <<token, machine, agent, agentsPage, unbound>>
      /\ late' = [late EXCEPT ![c.key] = IF Rival(s) THEN late[c.key] + 1 ELSE late[c.key]]
  BY DEF ReadToken
<1>3. RegStands(d) /\ d \in Regs /\ d.key = c.key /\ d.at = "insert"
  BY <1>1 DEF RegStands, Regs
<1>. HIDE DEF d
<1>4. late' \in [Tokens -> Nat] /\ unbound' \in [Tokens -> Nat]
      /\ \A k \in Tokens : late'[k] = IF k = c.key /\ Rival(s) THEN late[k] + 1 ELSE late[k]
  BY <1>1, <1>2
<1>5. AgentTyped'
  BY <1>1, <1>2, <1>3, <1>4, RegStaysTyped DEF AgentTyped
<1>6. \A k \in Tokens :
        /\ MadeBy(k)' = MadeBy(k)
        /\ k = c.key => /\ Inserting(k)' = Inserting(k) \cup {s}
                        /\ BetweenIds(k)' = BetweenIds(k) \cup {s}
        /\ k # c.key => Inserting(k)' = Inserting(k) /\ BetweenIds(k)' = BetweenIds(k)
  <2>. SUFFICES ASSUME NEW k \in Tokens
       PROVE  /\ MadeBy(k)' = MadeBy(k)
              /\ k = c.key => /\ Inserting(k)' = Inserting(k) \cup {s}
                              /\ BetweenIds(k)' = BetweenIds(k) \cup {s}
              /\ k # c.key => Inserting(k)' = Inserting(k) /\ BetweenIds(k)' = BetweenIds(k)
    OBVIOUS
  <2>1. MadeBy(k)' = MadeBy(k) /\ s \notin Inserting(k) /\ s \notin BetweenIds(k)
    BY <1>1, <1>2 DEF MadeBy, Inserting, BetweenIds
  <2>2. CASE k = c.key
    BY <1>1, <1>2, <1>3, <2>1, <2>2, RegSets, Zenon
  <2>3. CASE k # c.key
    <3>1. Inserting(k)' = Inserting(k) \ {s} /\ BetweenIds(k)' = BetweenIds(k) \ {s}
      <4>1. ~(d.key = k /\ d.at = "insert") /\ ~(d.key = k /\ d.at \in {"insert", "bind"})
        BY <1>3, <2>3
      <4>. QED BY <1>1, <1>2, <1>3, <4>1, RegSets, Zenon
    <3>. QED BY <2>1, <2>3, <3>1
  <2>. QED BY <2>1, <2>2, <2>3
<1>7. Rival(s) <=> BetweenIds(c.key) # {}
  BY <1>1 DEF Rival, BetweenIds
<1>8. ASSUME NEW k \in Tokens
      PROVE  Shifts(MadeBy(k), Inserting(k), Limit(k), MadeBy(k)', Inserting(k)', Limit(k)')
  <2>1. late[k] \in Nat /\ unbound[k] \in Nat /\ unbound'[k] = unbound[k]
    BY <1>1, <1>2
  <2>2. CASE k = c.key
    <3>1. ~Untried(k)' /\ (Untried(k) <=> ~Rival(s))
      BY <1>6, <1>7, <2>2 DEF Untried
    <3>2. Limit(k) + 1 <= Limit(k)'
      BY <1>4, <2>1, <2>2, <3>1 DEF Limit
    <3>. QED BY <1>6, <2>2, <3>2 DEF Shifts
  <2>3. CASE k # c.key
    <3>1. Untried(k)' <=> Untried(k)
      BY <1>2, <1>6, <2>3 DEF Untried
    <3>2. Limit(k) <= Limit(k)'
      BY <1>4, <2>1, <2>3, <3>1 DEF Limit
    <3>. QED BY <1>6, <2>3, <3>2 DEF Shifts
  <2>. QED BY <2>2, <2>3
<1>. QED BY <1>1, <1>4, <1>5, <1>8, CountsHold DEF AgentInv

\* A registration does nothing to those of other tokens.
LEMMA OtherTokens ==
  ASSUME regCall \in [RegSlots -> Regs], NEW s \in RegSlots, NEW d \in Regs,
         regCall' = [regCall EXCEPT ![s] = d], NEW k \in Tokens, k # regCall[s].key,
         d.key \in {regCall[s].key, Nil}
  PROVE  Inserting(k)' = Inserting(k) /\ BetweenIds(k)' = BetweenIds(k)
<1>1. ~(d.key = k /\ d.at = "insert") /\ ~(d.key = k /\ d.at \in {"insert", "bind"})
  BY AgentDeskAssumption
<1>2. Inserting(k)' = Inserting(k) \ {s} /\ BetweenIds(k)' = BetweenIds(k) \ {s}
  BY <1>1, RegSets, Zenon
<1>3. s \notin Inserting(k) /\ s \notin BetweenIds(k)
  BY DEF Inserting, BetweenIds
<1>. QED BY <1>2, <1>3

LEMMA AgentInsertHolds ==
  ASSUME AgentInv, NEW s \in RegSlots, InsertMachine(s)
  PROVE  AgentInv'
<1>. DEFINE c == regCall[s]
<1>1. /\ AgentTyped /\ AssetsCounted /\ RegStands(c) /\ c.at = "insert" /\ c.key \in Tokens
      /\ regCall \in [RegSlots -> Regs] /\ late \in [Tokens -> Nat] /\ unbound \in [Tokens -> Nat]
      /\ machine \in [AssetIds -> Tokens \cup {Nil, 0}]
  BY DEF AgentInv, AgentTyped, InsertMachine, Reg, RegStands
<1>2. PICK a \in AssetIds :
        /\ machine[a] = Nil
        /\ machine' = [machine EXCEPT ![a] = c.key]
        /\ regCall' = [regCall EXCEPT ![s].at = "bind", ![s].asset = a]
  BY DEF InsertMachine, First
<1>3. UNCHANGED <<token, agent, agentsPage, late, unbound>>
  BY DEF InsertMachine
<1>. DEFINE d == [c EXCEPT !.at = "bind", !.asset = a]
<1>4. regCall' = [regCall EXCEPT ![s] = d]
  BY <1>2
<1>5. RegStands(d) /\ d \in Regs /\ d.key = c.key /\ d.at = "bind"
  BY <1>1 DEF RegStands, Regs
<1>. HIDE DEF d
<1>6. AgentTyped'
  <2>1. machine' \in [AssetIds -> Tokens \cup {Nil, 0}]
    BY <1>1, <1>2
  <2>. QED BY <1>1, <1>3, <1>4, <1>5, <2>1, RegStaysTyped DEF AgentTyped
<1>7. ASSUME NEW k \in Tokens
      PROVE  Shifts(MadeBy(k), Inserting(k), Limit(k), MadeBy(k)', Inserting(k)', Limit(k)')
  <2>1. late[k] \in Nat /\ unbound[k] \in Nat /\ Nil \notin Tokens
    BY <1>1, AgentDeskAssumption
  <2>2. CASE k = c.key
    <3>1. MadeBy(k)' = MadeBy(k) \cup {a}
      BY <1>1, <1>2, <2>2 DEF MadeBy
    <3>2. Inserting(k)' = Inserting(k) \ {s} /\ BetweenIds(k)' = BetweenIds(k) \cup {s}
      <4>1. d.key = k /\ d.at # "insert" /\ d.at \in {"insert", "bind"}
        BY <1>5, <2>2
      <4>. QED BY <1>1, <1>4, <1>5, <4>1, RegSets, Zenon
    <3>3. s \in Inserting(k) /\ s \in BetweenIds(k)
      BY <1>1, <2>2 DEF Inserting, BetweenIds
    <3>4. Limit(k) <= Limit(k)'
      BY <1>3, <2>1, <3>2, <3>3 DEF Limit, Untried
    <3>. QED BY <3>1, <3>2, <3>3, <3>4 DEF Shifts
  <2>3. CASE k # c.key
    <3>1. MadeBy(k)' = MadeBy(k)
      BY <1>1, <1>2, <2>1, <2>3 DEF MadeBy
    <3>2. Inserting(k)' = Inserting(k) /\ BetweenIds(k)' = BetweenIds(k)
      BY <1>1, <1>4, <1>5, <2>3, OtherTokens
    <3>3. Limit(k) <= Limit(k)'
      BY <1>3, <2>1, <3>2 DEF Limit, Untried
    <3>. QED BY <3>1, <3>2, <3>3 DEF Shifts
  <2>. QED BY <2>2, <2>3
<1>8. late' \in [Tokens -> Nat] /\ unbound' \in [Tokens -> Nat]
  BY <1>1, <1>3
<1>. QED BY <1>1, <1>6, <1>7, <1>8, CountsHold DEF AgentInv

LEMMA AgentBindHolds ==
  ASSUME AgentInv, NEW s \in RegSlots, BindToken(s)
  PROVE  AgentInv'
<1>. DEFINE c == regCall[s]
            d == [c EXCEPT !.at = "contract"]
<1>1. /\ AgentTyped /\ AssetsCounted /\ RegStands(c) /\ c.at = "bind"
      /\ c.key \in Tokens /\ c.asset \in AssetIds /\ token[c.key] \in TokenRows
      /\ regCall \in [RegSlots -> Regs] /\ late \in [Tokens -> Nat] /\ unbound \in [Tokens -> Nat]
      /\ token \in [Tokens -> TokenRows \cup {Nil}]
  BY DEF AgentInv, AgentTyped, BindToken, Reg, RegStands
<1>2. PICK row : row = [token[c.key] EXCEPT !.asset = c.asset]
  OBVIOUS
<1>3. /\ token' = [token EXCEPT ![c.key] = row] /\ regCall' = [regCall EXCEPT ![s] = d]
      /\ UNCHANGED <<machine, agent, agentsPage, late, unbound>>
  BY <1>2 DEF BindToken, Then
<1>4. row \in TokenRows /\ row # Nil /\ row.asset # Nil
  <2>1. row \in TokenRows /\ row.asset = c.asset
    BY <1>1, <1>2 DEF TokenRows
  <2>. QED BY <1>1, <2>1, AgentDeskAssumption
<1>5. RegStands(d) /\ d \in Regs /\ d.key = c.key /\ d.at = "contract"
  BY <1>1 DEF RegStands, Regs
<1>. HIDE DEF d
<1>6. /\ token' \in [Tokens -> TokenRows \cup {Nil}] /\ token'[c.key] = row
      /\ \A k \in Tokens \ {c.key} : token'[k] = token[k]
  BY <1>1, <1>3, <1>4
<1>7. AgentTyped'
  <2>1. \A k \in Tokens : token[k] # Nil => token'[k] # Nil
    BY <1>4, <1>6
  <2>. QED BY <1>1, <1>3, <1>5, <1>6, <2>1, RegStaysTyped DEF AgentTyped
<1>8. ASSUME NEW k \in Tokens
      PROVE  Shifts(MadeBy(k), Inserting(k), Limit(k), MadeBy(k)', Inserting(k)', Limit(k)')
  <2>1. /\ late[k] \in Nat /\ unbound[k] \in Nat /\ late'[k] = late[k] /\ unbound'[k] = unbound[k]
        /\ MadeBy(k)' = MadeBy(k)
    BY <1>1, <1>3 DEF MadeBy
  <2>2. CASE k = c.key
    <3>1. Inserting(k)' = Inserting(k) \ {s}
      <4>1. ~(d.key = k /\ d.at = "insert")
        BY <1>5
      <4>. QED BY <1>1, <1>3, <1>5, <4>1, RegSets, Zenon
    <3>2. s \notin Inserting(k)
      BY <1>1 DEF Inserting
    <3>3. ~Untried(k)'
      BY <1>4, <1>6, <2>2 DEF Untried
    <3>4. Limit(k) <= Limit(k)'
      BY <2>1, <3>3 DEF Limit
    <3>. QED BY <2>1, <3>1, <3>2, <3>4 DEF Shifts
  <2>3. CASE k # c.key
    <3>1. Inserting(k)' = Inserting(k) /\ BetweenIds(k)' = BetweenIds(k)
      BY <1>1, <1>3, <1>5, <2>3, OtherTokens
    <3>2. Limit(k) <= Limit(k)'
      BY <1>6, <2>1, <2>3, <3>1 DEF Limit, Untried
    <3>. QED BY <2>1, <3>1, <3>2 DEF Shifts
  <2>. QED BY <2>2, <2>3
<1>9. late' \in [Tokens -> Nat] /\ unbound' \in [Tokens -> Nat]
  BY <1>1, <1>3
<1>. QED BY <1>1, <1>7, <1>8, <1>9, CountsHold DEF AgentInv

LEMMA AgentFailHolds ==
  ASSUME AgentInv, NEW s \in RegSlots, RegisterFails(s)
  PROVE  AgentInv'
<1>. DEFINE c == regCall[s]
<1>1. /\ AgentTyped /\ AssetsCounted /\ RegStands(c) /\ c.at # "idle" /\ c.key \in Tokens
      /\ regCall \in [RegSlots -> Regs] /\ late \in [Tokens -> Nat] /\ unbound \in [Tokens -> Nat]
  BY DEF AgentInv, AgentTyped, RegisterFails, RegStands
<1>2. /\ regCall' = [regCall EXCEPT ![s] = NoReg]
      /\ UNCHANGED <<token, machine, agent, agentsPage, late>>
      /\ unbound' = [unbound EXCEPT ![c.key] = IF c.at = "bind" THEN unbound[c.key] + 1
                                                               ELSE unbound[c.key]]
  BY DEF RegisterFails, Reg
<1>3. RegStands(NoReg) /\ NoReg \in Regs /\ NoReg.key = Nil /\ NoReg.at = "idle"
  BY DEF RegStands, Regs, NoReg
<1>4. /\ late' \in [Tokens -> Nat] /\ unbound' \in [Tokens -> Nat]
      /\ \A k \in Tokens : unbound'[k] = IF k = c.key /\ c.at = "bind" THEN unbound[k] + 1
                                                                     ELSE unbound[k]
  BY <1>1, <1>2
<1>5. AgentTyped'
  BY <1>1, <1>2, <1>3, <1>4, RegStaysTyped DEF AgentTyped
<1>6. ASSUME NEW k \in Tokens
      PROVE  Shifts(MadeBy(k), Inserting(k), Limit(k), MadeBy(k)', Inserting(k)', Limit(k)')
  <2>1. /\ late[k] \in Nat /\ unbound[k] \in Nat /\ late'[k] = late[k]
        /\ MadeBy(k)' = MadeBy(k)
    BY <1>1, <1>2 DEF MadeBy
  <2>2. CASE k = c.key
    <3>1. Inserting(k)' = Inserting(k) \ {s} /\ BetweenIds(k)' = BetweenIds(k) \ {s}
      <4>1. ~(NoReg.key = k /\ NoReg.at = "insert")
            /\ ~(NoReg.key = k /\ NoReg.at \in {"insert", "bind"})
        BY <1>3
      <4>. QED BY <1>1, <1>2, <1>3, <4>1, RegSets, Zenon
    <3>2. CASE c.at = "insert"
      <4>1. s \in Inserting(k) /\ Limit(k) <= Limit(k)' + 1
        BY <1>1, <1>4, <2>1, <2>2, <3>2 DEF Inserting, Limit
      <4>. QED BY <2>1, <3>1, <4>1 DEF Shifts
    <3>3. CASE c.at = "bind"
      <4>1. s \notin Inserting(k) /\ Limit(k) <= Limit(k)'
        BY <1>1, <1>4, <2>1, <2>2, <3>3 DEF Inserting, Limit
      <4>. QED BY <2>1, <3>1, <4>1 DEF Shifts
    <3>4. CASE c.at \notin {"insert", "bind"}
      <4>1. s \notin Inserting(k) /\ s \notin BetweenIds(k)
        BY <3>4 DEF Inserting, BetweenIds
      <4>2. Limit(k) <= Limit(k)'
        BY <1>2, <1>4, <2>1, <3>1, <3>4, <4>1 DEF Limit, Untried
      <4>. QED BY <2>1, <3>1, <4>1, <4>2 DEF Shifts
    <3>. QED BY <3>2, <3>3, <3>4
  <2>3. CASE k # c.key
    <3>1. Inserting(k)' = Inserting(k) /\ BetweenIds(k)' = BetweenIds(k)
      BY <1>1, <1>2, <1>3, <2>3, OtherTokens
    <3>2. Limit(k) <= Limit(k)'
      BY <1>2, <1>4, <2>1, <2>3, <3>1 DEF Limit, Untried
    <3>. QED BY <2>1, <3>1, <3>2 DEF Shifts
  <2>. QED BY <2>2, <2>3
<1>. QED BY <1>1, <1>4, <1>5, <1>6, CountsHold DEF AgentInv

LEMMA AgentStepHolds == AgentInv /\ [AgentNext]_agentVars => AgentInv'
<1>. SUFFICES ASSUME AgentInv, [AgentNext]_agentVars PROVE AgentInv'
  OBVIOUS
<1>1. \A s \in RegSlots : ReadToken(s) => AgentInv'
  BY AgentQuietHolds, AgentLookHolds
<1>. QED BY <1>1, AgentPageHolds, AgentQuietHolds, AgentInsertHolds, AgentBindHolds,
            AgentFailHolds DEF AgentNext

\* However many agents register with a token, it makes one asset and one more for
\* each registration that found it unbound together with another one, or broke off
\* before the bind.
THEOREM AgentTokenRegistersOnce == AgentSpec => []RegistersOnce
<1>1. AgentInit => AgentInv
  BY AgentInitHolds
<1>2. AgentInv /\ [AgentNext]_<<agentVars, deskVars>> => AgentInv'
  BY AgentStepHolds DEF agentVars
<1>3. AgentInv => RegistersOnce
  BY AgentRegistersOnce
<1>. QED BY <1>1, <1>2, <1>3, PTL DEF AgentSpec

-----------------------------------------------------------------------------
(* The climb from an organisation to the top of its tree.                 *)

LEMMA LeastOf == ASSUME NEW T, T \subseteq Nat, T # {} PROVE \E x \in T : \A y \in T : x <= y
<1>1. PICK R : R = OpToRel(<, Nat)
  OBVIOUS
<1>2. \A x, y \in Nat : x < y <=> <<x, y>> \in R
  BY <1>1 DEF OpToRel
<1>3. IsWellFoundedOn(R, Nat)
  BY <1>1, NatLessThanWellFounded
<1>4. PICK x \in T : \A y \in T : <<y, x>> \notin R
  BY <1>3, WFMin
<1>5. ASSUME NEW y \in T PROVE x <= y
  <2>1. x \in Nat /\ y \in Nat /\ <<y, x>> \notin R
    BY <1>4
  <2>2. ~(y < x)
    BY <1>2, <2>1
  <2>. QED BY <2>1, <2>2
<1>. QED BY <1>5

ClimbIs(rows, o, n, g) ==
  g = [k \in 0..n |-> IF k = 0 THEN o ELSE Over(rows, g[k - 1])]

LEMMA ClimbGoesOn ==
  ASSUME NEW rows, NEW o, NEW n \in Nat, NEW g, ClimbIs(rows, o, n, g)
  PROVE  \E h : ClimbIs(rows, o, n + 1, h)
<1>1. PICK h : h = [k \in 0..(n + 1) |-> IF k = n + 1 THEN Over(rows, g[n]) ELSE g[k]]
  OBVIOUS
<1>2. ASSUME NEW k \in 0..(n + 1) PROVE h[k] = IF k = 0 THEN o ELSE Over(rows, h[k - 1])
  <2>1. CASE k = n + 1
    BY <1>1, <2>1
  <2>2. CASE k # n + 1
    <3>1. k \in 0..n /\ h[k] = g[k] /\ (k # 0 => h[k - 1] = g[k - 1])
      BY <1>1, <2>2
    <3>2. g[k] = IF k = 0 THEN o ELSE Over(rows, g[k - 1])
      BY <3>1 DEF ClimbIs
    <3>. QED BY <3>1, <3>2
  <2>. QED BY <2>1, <2>2
<1>3. h = [k \in 0..(n + 1) |-> IF k = 0 THEN o ELSE Over(rows, h[k - 1])]
  BY <1>1, <1>2
<1>. QED BY <1>3 DEF ClimbIs

LEMMA ClimbsAll == ASSUME NEW rows, NEW o PROVE \A n \in Nat : \E g : ClimbIs(rows, o, n, g)
<1>. SUFFICES ASSUME ~\A n \in Nat : \E g : ClimbIs(rows, o, n, g) PROVE FALSE
  OBVIOUS
<1>. DEFINE T == {n \in Nat : ~\E g : ClimbIs(rows, o, n, g)}
<1>1. PICK n \in T : \A m \in T : n <= m
  <2>1. T \subseteq Nat /\ T # {}
    OBVIOUS
  <2>. HIDE DEF T
  <2>. QED BY <2>1, LeastOf
<1>2. n # 0
  <2>1. PICK g : g = [k \in 0..0 |-> o]
    OBVIOUS
  <2>2. g = [k \in 0..0 |-> IF k = 0 THEN o ELSE Over(rows, g[k - 1])]
    BY <2>1
  <2>. QED BY <1>1, <2>2 DEF ClimbIs
<1>3. n - 1 \in Nat /\ n - 1 \notin T
  BY <1>1, <1>2
<1>4. PICK g : ClimbIs(rows, o, n - 1, g)
  BY <1>3
<1>5. n = (n - 1) + 1
  BY <1>1
<1>. QED BY <1>1, <1>3, <1>4, <1>5, ClimbGoesOn

LEMMA ClimbIsClimb ==
  ASSUME NEW rows, NEW o, Cardinality(OrgIds) \in Nat
  PROVE  ClimbIs(rows, o, Cardinality(OrgIds), Climb(rows, o))
<1>1. PICK g : ClimbIs(rows, o, Cardinality(OrgIds), g)
  BY ClimbsAll
<1>2. Climb(rows, o) = CHOOSE h : ClimbIs(rows, o, Cardinality(OrgIds), h)
  BY DEF Climb, ClimbIs
<1>. QED BY <1>1, <1>2

LEMMA ClimbSteps ==
  ASSUME NEW rows, NEW o, NEW up, up = Climb(rows, o), Cardinality(OrgIds) \in Nat
  PROVE  /\ DOMAIN up = 0..Cardinality(OrgIds) /\ up[0] = o
         /\ \A k \in 1..Cardinality(OrgIds) : up[k] = Over(rows, up[k - 1])
  BY ClimbIsClimb DEF ClimbIs

\* Above the top there is nothing.
LEMMA ClimbEnds ==
  ASSUME NEW rows, NEW o, NEW up, up = Climb(rows, o), NEW n, n = Cardinality(OrgIds), n \in Nat,
         NEW k \in 0..n, up[k] = Nil
  PROVE  \A m \in k..n : up[m] = Nil
<1>. SUFFICES ASSUME ~\A m \in k..n : up[m] = Nil PROVE FALSE
  OBVIOUS
<1>. DEFINE T == {m \in k..n : up[m] # Nil}
<1>1. PICK m \in T : \A x \in T : m <= x
  <2>1. T \subseteq Nat /\ T # {}
    OBVIOUS
  <2>. HIDE DEF T
  <2>. QED BY <2>1, LeastOf
<1>2. m # k /\ m - 1 \in k..n /\ m - 1 \notin T /\ m \in 1..n
  BY <1>1
<1>3. up[m - 1] = Nil
  BY <1>2
<1>4. up[m] = Nil
  BY <1>2, <1>3, ClimbSteps DEF Over
<1>. QED BY <1>1, <1>4

LEMMA LevelOf ==
  ASSUME NEW rows, NEW o, NEW up, up = Climb(rows, o), NEW n, n = Cardinality(OrgIds), n \in Nat
  PROVE  /\ Level(rows, o) \in Nat /\ Level(rows, o) <= n + 1
         /\ \A k \in 0..n : up[k] = Nil <=> Level(rows, o) <= k
<1>. DEFINE S == {k \in 0..n : up[k] # Nil}
<1>1. Level(rows, o) = Cardinality(S)
  BY ClimbSteps DEF Level
<1>2. IsFiniteSet(0..n) /\ Cardinality(0..n) = n + 1
  BY FS_Interval
<1>3. S \subseteq 0..n /\ IsFiniteSet(S) /\ Cardinality(S) \in Nat /\ Cardinality(S) <= n + 1
  BY <1>2, FS_Subset, FS_CardinalityType
<1>4. ASSUME NEW k \in 0..n, up[k] = Nil PROVE Cardinality(S) <= k
  <2>1. S \subseteq 0..(k - 1)
    BY <1>4, ClimbEnds
  <2>2. IsFiniteSet(0..(k - 1)) /\ Cardinality(0..(k - 1)) = k
    <3>1. PICK b \in Int : b = k - 1 /\ b >= -1
      OBVIOUS
    <3>2. 0 \in Int
      OBVIOUS
    <3>3. IsFiniteSet(0..b) /\ Cardinality(0..b) = IF 0 > b THEN 0 ELSE b - 0 + 1
      BY <3>2, FS_Interval, Zenon
    <3>. QED BY <3>1, <3>3
  <2>. HIDE DEF S
  <2>. QED BY <2>1, <2>2, FS_Subset
<1>5. ASSUME NEW k \in 0..n, up[k] # Nil PROVE Cardinality(S) >= k + 1
  <2>1. \A m \in 0..k : up[m] # Nil
    BY <1>5, ClimbEnds
  <2>2. 0..k \subseteq S
    BY <2>1
  <2>3. IsFiniteSet(0..k) /\ Cardinality(0..k) = k + 1
    BY FS_Interval
  <2>. HIDE DEF S
  <2>. QED BY <1>3, <2>2, <2>3, FS_Subset
<1>. QED BY <1>1, <1>3, <1>4, <1>5

SecondUp(rows, o) == Over(rows, Over(rows, o))
ThirdUp(rows, o) == Over(rows, SecondUp(rows, o))

\* The level, for a table that has room for a fourth one.
LEMMA LevelIsShort ==
  ASSUME NEW rows, NEW o, Cardinality(OrgIds) \in Nat
  PROVE  /\ Cardinality(OrgIds) <= 2 => Level(rows, o) <= 3
         /\ Cardinality(OrgIds) >= 3 => /\ Level(rows, o) <= 3 <=> ThirdUp(rows, o) = Nil
                                        /\ Level(rows, o) < 3 <=> SecondUp(rows, o) = Nil
<1>1. PICK up, n : up = Climb(rows, o) /\ n = Cardinality(OrgIds)
  OBVIOUS
<1>2. n <= 2 => Level(rows, o) <= 3
  BY <1>1, LevelOf
<1>3. ASSUME n >= 3 PROVE up[2] = SecondUp(rows, o) /\ up[3] = ThirdUp(rows, o)
  <2>1. 1 \in 1..n /\ 2 \in 1..n /\ 3 \in 1..n
    BY <1>1, <1>3
  <2>2. up[1] = Over(rows, up[1 - 1]) /\ up[2] = Over(rows, up[2 - 1]) /\ up[3] = Over(rows, up[3 - 1])
        /\ up[0] = o
    BY <1>1, <2>1, ClimbSteps
  <2>. QED BY <2>2 DEF SecondUp, ThirdUp
<1>4. ASSUME n >= 3 PROVE /\ Level(rows, o) <= 3 <=> up[3] = Nil
                          /\ Level(rows, o) < 3 <=> up[2] = Nil
  <2>1. 2 \in 0..n /\ 3 \in 0..n /\ n \in Nat
    BY <1>1, <1>4
  <2>2. /\ Level(rows, o) \in Nat
        /\ up[2] = Nil <=> Level(rows, o) <= 2
        /\ up[3] = Nil <=> Level(rows, o) <= 3
    BY <1>1, <2>1, LevelOf
  <2>. QED BY <2>2
<1>. QED BY <1>1, <1>2, <1>3, <1>4

-----------------------------------------------------------------------------
(* The organisations, for any organisations, assets and requests at the    *)
(* same time.                                                              *)

Tables == [OrgIds -> OrgRows \cup {Nil}]
OrgFormRows == [id : OrgIds \cup {Nil}, parent : OrgIds \cup {Nil}]
OrgPages == [shown : Tables, open : SUBSET OrgIds, form : {Nil} \cup OrgFormRows,
             role : {"readonly", "admin"}, admin : BOOLEAN]
OrgCalls == [op : {"create", "update", "delete"},
             at : {"asked", "depth", "write", "children", "assets", "deactivate", "done", "refused"},
             id : OrgIds \cup {Nil}, parent : OrgIds \cup {Nil}, named : BOOLEAN]
OrgTyped ==
  /\ orgs \in Tables /\ orgOf \in [Holdings -> OrgIds \cup {Nil}]
  /\ orgPage \in OrgPages /\ orgLoads \in SUBSET Tables
  /\ orgCall \in [OrgSlots -> {OrgIdle} \cup OrgCalls] /\ moved \in BOOLEAN

\* Rows stay, so whatever was read of them is there.
Here(o) == o = Nil \/ (o \in OrgIds /\ orgs[o] # Nil)
RowsHere(rows) == \A o \in OrgIds : rows[o] # Nil => Here(o) /\ Here(rows[o].parent)
PageHere ==
  /\ RowsHere(orgPage.shown) /\ \A rows \in orgLoads : RowsHere(rows)
  /\ orgPage.form # Nil => Here(orgPage.form.id) /\ Here(orgPage.form.parent)

\* What a request works on is there; a parent found high enough stays it, unless an
\* update moves it.
Roomy == Cardinality(OrgIds) >= 3 /\ ~moved
CallHere(c) ==
  /\ c = OrgIdle \/ c \in OrgCalls
  /\ c # OrgIdle =>
       /\ Here(c.id) /\ Here(c.parent)
       /\ c.op # "create" => c.id # Nil
       /\ c.at = "depth" => c.op = "create" /\ c.parent # Nil
       /\ c.at \in {"children", "assets", "deactivate"} => c.op = "delete"
       /\ Roomy /\ c.at = "write" /\ c.op = "create" => SecondUp(orgs, c.parent) = Nil
Shallow == Roomy => \A o \in OrgIds : orgs[o] # Nil => ThirdUp(orgs, o) = Nil

OrgInv == OrgTyped /\ RowsHere(orgs) /\ PageHere /\ (\A s \in OrgSlots : CallHere(orgCall[s]))
          /\ Shallow

LEMMA OverHere == ASSUME OrgInv, NEW o, Here(o) PROVE Here(Over(orgs, o)) /\ Over(orgs, Nil) = Nil
  BY DEF OrgInv, RowsHere, Over, Here

LEMMA OrgFacts ==
  ASSUME OrgInv
  PROVE  /\ orgs \in Tables /\ orgOf \in [Holdings -> OrgIds \cup {Nil}]
         /\ orgPage \in OrgPages /\ orgLoads \in SUBSET Tables
         /\ orgCall \in [OrgSlots -> {OrgIdle} \cup OrgCalls] /\ moved \in BOOLEAN
  BY DEF OrgInv, OrgTyped

\* The tree of the organisations is shallow.
LEMMA OrgShallow == OrgInv => ShallowTree
<1>. SUFFICES ASSUME OrgInv, ~moved, NEW o \in OrgsIn(orgs) PROVE Level(orgs, o) <= 3
  BY DEF ShallowTree, MaxLevel
<1>1. Cardinality(OrgIds) \in Nat
  BY OrgAssumption, FS_CardinalityType
<1>2. o \in OrgIds /\ orgs[o] # Nil
  BY DEF OrgsIn
<1>3. CASE Cardinality(OrgIds) <= 2
  BY <1>1, <1>3, LevelIsShort
<1>4. CASE Cardinality(OrgIds) >= 3
  BY <1>1, <1>2, <1>4, LevelIsShort DEF OrgInv, Shallow, Roomy
<1>. QED BY <1>1, <1>3, <1>4

\* A step that leaves the table of organisations alone.
LEMMA OrgRests ==
  ASSUME OrgInv, UNCHANGED <<orgs, moved>>, orgOf' \in [Holdings -> OrgIds \cup {Nil}],
         orgPage' \in OrgPages, orgLoads' \in SUBSET Tables,
         RowsHere(orgPage'.shown), \A rows \in orgLoads' : RowsHere(rows),
         orgPage'.form # Nil => Here(orgPage'.form.id) /\ Here(orgPage'.form.parent),
         \/ UNCHANGED orgCall
         \/ \E s \in OrgSlots : \E new : CallHere(new) /\ orgCall' = [orgCall EXCEPT ![s] = new]
  PROVE  OrgInv'
<1>1. \A o : Here(o)' <=> Here(o)
  BY DEF Here
<1>2. \A rows : RowsHere(rows) => RowsHere(rows)'
  BY <1>1 DEF RowsHere
<1>3. RowsHere(orgs)' /\ PageHere' /\ Shallow'
  BY <1>1, <1>2 DEF OrgInv, RowsHere, PageHere, Shallow, Roomy
<1>4. orgCall' \in [OrgSlots -> {OrgIdle} \cup OrgCalls] /\ \A s \in OrgSlots : CallHere(orgCall'[s])
  BY OrgFacts DEF OrgInv, CallHere
<1>5. \A c : CallHere(c) => CallHere(c)'
  BY <1>1 DEF CallHere, Roomy
<1>6. \A s \in OrgSlots : CallHere(orgCall[s])'
  <2>. SUFFICES ASSUME NEW s \in OrgSlots PROVE CallHere(orgCall[s])'
    OBVIOUS
  <2>1. PICK c : c = orgCall'[s]
    OBVIOUS
  <2>2. CallHere(c)'
    BY <1>4, <1>5, <2>1
  <2>. QED BY <2>1, <2>2 DEF CallHere
<1>7. OrgTyped'
  BY <1>4, OrgFacts DEF OrgTyped
<1>. QED BY <1>3, <1>6, <1>7 DEF OrgInv

\* A step of one request that changes only how far it is.
LEMMA OrgGoes ==
  ASSUME OrgInv, NEW s \in OrgSlots, orgCall[s] \in OrgCalls, NEW at, OrgTo(s, at),
         at \in {"depth", "write", "children", "assets", "deactivate", "done", "refused"}
  PROVE  \E new : /\ new = [orgCall[s] EXCEPT !.at = at] /\ new \in OrgCalls /\ new # OrgIdle
                  /\ orgCall' = [orgCall EXCEPT ![s] = new]
                  /\ new.at = at /\ new.op = orgCall[s].op /\ new.id = orgCall[s].id
                  /\ new.parent = orgCall[s].parent /\ new.named = orgCall[s].named
<1>1. PICK new : new = [orgCall[s] EXCEPT !.at = at]
  OBVIOUS
<1>2. new \in OrgCalls /\ new.at = at /\ new.op = orgCall[s].op /\ new.id = orgCall[s].id
      /\ new.parent = orgCall[s].parent /\ new.named = orgCall[s].named
  BY <1>1 DEF OrgCalls
<1>3. new # OrgIdle
  BY <1>2 DEF OrgCalls, OrgIdle
<1>4. orgCall' = [orgCall EXCEPT ![s] = new]
  BY <1>1 DEF OrgTo
<1>. QED BY <1>1, <1>2, <1>3, <1>4

LEMMA OrgCallTyped ==
  ASSUME OrgInv, NEW s \in OrgSlots, orgCall[s].at # "idle"
  PROVE  orgCall[s] \in OrgCalls /\ orgCall[s] # OrgIdle /\ CallHere(orgCall[s])
  BY OrgFacts DEF OrgInv, OrgIdle

LEMMA OrgPageHolds ==
  ASSUME OrgInv,
         \/ OrgRefresh \/ RoleArrives \/ OpenOrgForm \/ CloseOrgForm
         \/ \E rows \in orgLoads : OrgArrive(rows)
         \/ \E o \in OrgIds : ToggleExpand(o)
  PROVE  OrgInv'
<1>0. /\ orgPage \in OrgPages /\ orgLoads \in SUBSET Tables /\ PageHere /\ RowsHere(orgs)
      /\ orgs \in Tables /\ orgOf \in [Holdings -> OrgIds \cup {Nil}]
  BY OrgFacts DEF OrgInv
<1>1. ActiveOrgs \in Tables /\ RowsHere(ActiveOrgs)
  BY <1>0 DEF ActiveOrgs, Tables, RowsHere, Here
<1>2. CASE OrgRefresh
  BY <1>0, <1>1, <1>2, OrgRests DEF OrgRefresh, OrgLoad, PageHere
<1>3. CASE RoleArrives
  <2>1. PICK page : page = [orgPage EXCEPT !.role = "admin"]
    OBVIOUS
  <2>2. page \in OrgPages /\ page.shown = orgPage.shown /\ page.form = orgPage.form
    BY <1>0, <2>1 DEF OrgPages
  <2>3. orgPage' = page /\ UNCHANGED <<orgs, orgOf, orgLoads, orgCall, moved>>
    BY <1>3, <2>1 DEF RoleArrives
  <2>. QED BY <1>0, <2>2, <2>3, OrgRests DEF PageHere
<1>4. CASE OpenOrgForm
  <2>1. PICK f \in OrgForms : orgPage' = [orgPage EXCEPT !.form = f]
    BY <1>4 DEF OpenOrgForm
  <2>2. f \in OrgFormRows /\ Here(f.id) /\ Here(f.parent)
    <3>1. ASSUME NEW o \in OrgIds, OnTree(o)
          PROVE  orgPage.shown[o] \in OrgRows /\ Here(o) /\ Here(orgPage.shown[o].parent)
      BY <1>0, <3>1 DEF OnTree, OrgsIn, PageHere, RowsHere, OrgPages, Tables
    <3>2. \/ f = [id |-> Nil, parent |-> Nil]
          \/ \E o \in OrgIds : OnTree(o) /\ f = [id |-> Nil, parent |-> o]
          \/ \E o \in OrgIds : OnTree(o) /\ f = [id |-> o, parent |-> orgPage.shown[o].parent]
      BY <2>1 DEF OrgForms
    <3>3. Here(Nil)
      BY DEF Here
    <3>. QED BY <3>1, <3>2, <3>3 DEF OrgFormRows, OrgRows
  <2>3. PICK page : page = [orgPage EXCEPT !.form = f]
    OBVIOUS
  <2>4. page \in OrgPages /\ page.shown = orgPage.shown /\ page.form = f
    BY <1>0, <2>2, <2>3 DEF OrgPages
  <2>5. orgPage' = page /\ UNCHANGED <<orgs, orgOf, orgLoads, orgCall, moved>>
    BY <1>4, <2>1, <2>3 DEF OpenOrgForm
  <2>. QED BY <1>0, <2>2, <2>4, <2>5, OrgRests DEF PageHere
<1>5. CASE CloseOrgForm
  <2>1. PICK page : page = [orgPage EXCEPT !.form = Nil]
    OBVIOUS
  <2>2. page \in OrgPages /\ page.shown = orgPage.shown /\ page.form = Nil
    BY <1>0, <2>1 DEF OrgPages
  <2>3. orgPage' = page /\ UNCHANGED <<orgs, orgOf, orgLoads, orgCall, moved>>
    BY <1>5, <2>1 DEF CloseOrgForm
  <2>. QED BY <1>0, <2>2, <2>3, OrgRests DEF PageHere
<1>6. ASSUME NEW rows \in orgLoads, OrgArrive(rows) PROVE OrgInv'
  <2>1. PICK page : page = [orgPage EXCEPT !.shown = rows, !.open = OrgsIn(rows)]
    OBVIOUS
  <2>2. OrgsIn(rows) \subseteq OrgIds /\ rows \in Tables
    BY <1>0, <1>6 DEF OrgsIn
  <2>3. page \in OrgPages /\ page.shown = rows /\ page.form = orgPage.form
    BY <1>0, <2>1, <2>2 DEF OrgPages
  <2>4. orgPage' = page /\ orgLoads' = orgLoads \ {rows} /\ UNCHANGED <<orgs, orgOf, orgCall, moved>>
    BY <1>6, <2>1 DEF OrgArrive
  <2>. QED BY <1>0, <2>3, <2>4, OrgRests DEF PageHere
<1>7. ASSUME NEW o \in OrgIds, ToggleExpand(o) PROVE OrgInv'
  <2>1. PICK open : open = IF o \in orgPage.open THEN orgPage.open \ {o} ELSE orgPage.open \cup {o}
    OBVIOUS
  <2>2. PICK page : page = [orgPage EXCEPT !.open = open]
    OBVIOUS
  <2>3. open \in SUBSET OrgIds
    BY <1>0, <2>1 DEF OrgPages
  <2>4. page \in OrgPages /\ page.shown = orgPage.shown /\ page.form = orgPage.form
    BY <1>0, <2>2, <2>3 DEF OrgPages
  <2>5. orgPage' = page /\ UNCHANGED <<orgs, orgOf, orgLoads, orgCall, moved>>
    BY <1>7, <2>1, <2>2 DEF ToggleExpand
  <2>. QED BY <1>0, <2>4, <2>5, OrgRests DEF PageHere
<1>. QED BY <1>2, <1>3, <1>4, <1>5, <1>6, <1>7

LEMMA OrgRequestsHold ==
  ASSUME OrgInv, NEW s \in OrgSlots,
         \/ \E p \in OrgIds \cup {Nil}, named \in BOOLEAN : SaveOrg(s, p, named)
         \/ \E o \in OrgIds : DeleteOrg(s, o)
         \/ OrgAnswer(s)
  PROVE  OrgInv'
<1>0. /\ orgPage \in OrgPages /\ orgLoads \in SUBSET Tables /\ PageHere /\ RowsHere(orgs)
      /\ orgs \in Tables /\ orgOf \in [Holdings -> OrgIds \cup {Nil}] /\ Here(Nil)
  BY OrgFacts DEF OrgInv, Here
<1>1. ASSUME NEW p \in OrgIds \cup {Nil}, NEW named \in BOOLEAN, SaveOrg(s, p, named) PROVE OrgInv'
  <2>. DEFINE form == orgPage.form
  <2>1. form \in OrgFormRows /\ Here(form.id) /\ Here(form.parent)
    BY <1>0, <1>1 DEF SaveOrg, OrgPages, PageHere
  <2>2. Here(p)
    <3>1. p \in {Nil, form.parent} \/ p \in OrgsIn(orgPage.shown)
      BY <1>1 DEF SaveOrg, ParentChoices
    <3>2. \A o \in OrgsIn(orgPage.shown) : Here(o)
      BY <1>0 DEF OrgsIn, PageHere, RowsHere
    <3>. QED BY <1>0, <2>1, <3>1, <3>2
  <2>3. PICK op \in {"create", "update"} : op = IF form.id = Nil THEN "create" ELSE "update"
    OBVIOUS
  <2>4. PICK new : new = [op |-> op, at |-> "asked", id |-> form.id, parent |-> p, named |-> named]
    OBVIOUS
  <2>5. new \in OrgCalls /\ new.at = "asked" /\ new.op = op /\ new.id = form.id /\ new.parent = p
    BY <2>1, <2>4 DEF OrgCalls, OrgFormRows
  <2>6. CallHere(new)
    BY <2>1, <2>2, <2>3, <2>5 DEF CallHere
  <2>7. PICK f : f = [form EXCEPT !.parent = p]
    OBVIOUS
  <2>8. f \in OrgFormRows /\ f.id = form.id /\ f.parent = p
    BY <2>1, <2>7 DEF OrgFormRows
  <2>9. PICK page : page = [orgPage EXCEPT !.form = f]
    OBVIOUS
  <2>10. page \in OrgPages /\ page.shown = orgPage.shown /\ page.form = f
    BY <1>0, <2>8, <2>9 DEF OrgPages
  <2>11. /\ orgPage' = page /\ orgCall' = [orgCall EXCEPT ![s] = new]
         /\ UNCHANGED <<orgs, orgOf, orgLoads, moved>>
    BY <1>1, <2>3, <2>4, <2>7, <2>9 DEF SaveOrg, OrgSend
  <2>. QED BY <1>0, <2>1, <2>2, <2>6, <2>8, <2>10, <2>11, OrgRests DEF PageHere
<1>2. ASSUME NEW o \in OrgIds, DeleteOrg(s, o) PROVE OrgInv'
  <2>1. PICK new : new = [op |-> "delete", at |-> "asked", id |-> o, parent |-> Nil, named |-> TRUE]
    OBVIOUS
  <2>2. new \in OrgCalls /\ new.at = "asked" /\ new.op = "delete" /\ new.id = o /\ new.parent = Nil
    BY <2>1 DEF OrgCalls
  <2>3. o # Nil
    BY OrgAssumption
  <2>4. Here(o)
    BY <1>0, <1>2 DEF DeleteOrg, OnTree, OrgsIn, PageHere, RowsHere
  <2>5. CallHere(new)
    BY <1>0, <2>2, <2>3, <2>4 DEF CallHere
  <2>6. orgCall' = [orgCall EXCEPT ![s] = new] /\ UNCHANGED <<orgs, orgOf, orgPage, orgLoads, moved>>
    BY <1>2, <2>1 DEF DeleteOrg, OrgSend
  <2>. QED BY <1>0, <2>5, <2>6, OrgRests DEF PageHere
<1>3. CASE OrgAnswer(s)
  <2>1. ActiveOrgs \in Tables /\ RowsHere(ActiveOrgs)
    BY <1>0 DEF ActiveOrgs, Tables, RowsHere, Here
  <2>2. CallHere(OrgIdle)
    BY DEF CallHere
  <2>3. orgCall' = [orgCall EXCEPT ![s] = OrgIdle] /\ UNCHANGED <<orgs, orgOf, moved>>
    BY <1>3 DEF OrgAnswer
  <2>4. CASE orgCall[s].at = "done"
    <3>1. PICK form : /\ form = IF orgCall[s].op = "delete" THEN orgPage.form ELSE Nil
                      /\ form = orgPage.form \/ form = Nil
      OBVIOUS
    <3>2. PICK page : page = [orgPage EXCEPT !.form = form]
      OBVIOUS
    <3>3. page \in OrgPages /\ page.shown = orgPage.shown /\ page.form = form
      BY <1>0, <3>1, <3>2 DEF OrgPages
    <3>4. orgPage' = page /\ orgLoads' = orgLoads \cup {ActiveOrgs}
      BY <1>3, <2>4, <3>1, <3>2 DEF OrgAnswer, OrgLoad
    <3>. QED BY <1>0, <2>1, <2>2, <2>3, <3>1, <3>3, <3>4, OrgRests DEF PageHere
  <2>5. CASE orgCall[s].at # "done"
    <3>1. UNCHANGED <<orgLoads, orgPage>>
      BY <1>3, <2>5 DEF OrgAnswer
    <3>. QED BY <1>0, <2>2, <2>3, <3>1, OrgRests DEF PageHere
  <2>. QED BY <2>4, <2>5
<1>. QED BY <1>1, <1>2, <1>3

\* What the API does before it writes, and when it fails.
LEMMA OrgChecksHold ==
  ASSUME OrgInv, NEW s \in OrgSlots, AdmitOrg(s) \/ CheckDepth(s) \/ FreeAssets(s) \/ OrgFails(s)
  PROVE  OrgInv'
<1>. DEFINE c == orgCall[s]
<1>0. /\ orgPage \in OrgPages /\ orgLoads \in SUBSET Tables /\ PageHere /\ RowsHere(orgs)
      /\ orgs \in Tables /\ orgOf \in [Holdings -> OrgIds \cup {Nil}]
  BY OrgFacts DEF OrgInv
<1>1. c \in OrgCalls /\ CallHere(c) /\ c # OrgIdle
  BY OrgCallTyped DEF AdmitOrg, CheckDepth, FreeAssets, OrgFails
<1>2. ASSUME NEW at \in {"depth", "write", "children", "deactivate", "refused"}, OrgTo(s, at),
             UNCHANGED <<orgs, orgPage, orgLoads, moved>>,
             orgOf' \in [Holdings -> OrgIds \cup {Nil}],
             at = "depth" => c.op = "create" /\ c.parent # Nil,
             at \in {"children", "deactivate"} => c.op = "delete",
             at = "write" /\ c.op = "create" /\ Roomy => SecondUp(orgs, c.parent) = Nil
      PROVE  OrgInv'
  <2>1. PICK new : /\ new \in OrgCalls /\ new # OrgIdle /\ orgCall' = [orgCall EXCEPT ![s] = new]
                   /\ new.at = at /\ new.op = c.op /\ new.id = c.id /\ new.parent = c.parent
    BY <1>1, <1>2, OrgGoes
  <2>2. CallHere(new)
    BY <1>1, <1>2, <2>1 DEF CallHere
  <2>. QED BY <1>0, <1>2, <2>1, <2>2, OrgRests DEF PageHere
<1>3. SecondUp(orgs, Nil) = Nil
  BY DEF SecondUp, Over
<1>4. CASE AdmitOrg(s)
  <2>1. PICK at : /\ OrgTo(s, at)
                  /\ at = IF \/ ~orgPage.admin
                             \/ ~c.named
                             \/ c.op = "update" /\ c.parent = c.id THEN "refused"
                          ELSE IF c.op = "create" /\ c.parent # Nil THEN "depth"
                          ELSE IF c.op = "delete" THEN "children" ELSE "write"
    BY <1>4 DEF AdmitOrg
  <2>2. /\ at \in {"depth", "write", "children", "deactivate", "refused"}
        /\ at = "depth" => c.op = "create" /\ c.parent # Nil
        /\ at \in {"children", "deactivate"} => c.op = "delete"
        /\ at = "write" /\ c.op = "create" => c.parent = Nil
    BY <2>1
  <2>. QED BY <1>0, <1>2, <1>3, <1>4, <2>1, <2>2 DEF AdmitOrg
<1>5. CASE CheckDepth(s)
  <2>1. c.op = "create" /\ c.parent # Nil /\ UNCHANGED <<orgs, orgOf, orgPage, orgLoads, moved>>
    BY <1>1, <1>5 DEF CheckDepth, CallHere
  <2>2. PICK at : OrgTo(s, at) /\ at = IF TooDeep(c.parent) THEN "refused" ELSE "write"
    BY <1>5 DEF CheckDepth
  <2>3. ASSUME at = "write", Roomy PROVE SecondUp(orgs, c.parent) = Nil
    <3>1. ~(Level(orgs, c.parent) >= 3)
      BY <2>2, <2>3 DEF TooDeep, MaxLevel
    <3>2. PICK n : n = Cardinality(OrgIds) /\ n \in Nat /\ n >= 3
      BY <2>3, OrgAssumption, FS_CardinalityType DEF Roomy
    <3>3. Level(orgs, c.parent) \in Nat
      BY <3>2, LevelOf
    <3>. QED BY <3>1, <3>2, <3>3, LevelIsShort
  <2>4. at \in {"write", "refused"}
    BY <2>2
  <2>. QED BY <1>0, <1>2, <2>1, <2>2, <2>3, <2>4
<1>6. CASE FreeAssets(s)
  <2>1. c.op = "delete" /\ c.id \in OrgIds \cup {Nil}
    BY <1>1, <1>6 DEF FreeAssets, CallHere, OrgCalls
  <2>2. orgOf' \in [Holdings -> OrgIds \cup {Nil}]
    BY <1>0, <1>6 DEF FreeAssets
  <2>. QED BY <1>2, <1>6, <2>1, <2>2 DEF FreeAssets
<1>7. CASE OrgFails(s)
  BY <1>0, <1>2, <1>7 DEF OrgFails
<1>. QED BY <1>4, <1>5, <1>6, <1>7

\* A write that lifts organisations at most.
LEMMA OrgLifts ==
  ASSUME OrgInv, NEW rows, \A o : Here(o) => Over(rows, o) \in {Over(orgs, o), Nil}
  PROVE  \A o : Here(o) => /\ SecondUp(orgs, o) = Nil => SecondUp(rows, o) = Nil
                           /\ ThirdUp(orgs, o) = Nil => ThirdUp(rows, o) = Nil
<1>. SUFFICES ASSUME NEW o, Here(o)
              PROVE  /\ SecondUp(orgs, o) = Nil => SecondUp(rows, o) = Nil
                     /\ ThirdUp(orgs, o) = Nil => ThirdUp(rows, o) = Nil
  OBVIOUS
<1>1. Over(rows, Nil) = Nil
  BY DEF Over
<1>2. Here(Over(orgs, o)) /\ Here(SecondUp(orgs, o))
  BY OverHere DEF SecondUp
<1>3. SecondUp(rows, o) \in {SecondUp(orgs, o), Nil}
  BY <1>1, <1>2 DEF SecondUp
<1>4. ThirdUp(rows, o) \in {ThirdUp(orgs, o), Nil}
  BY <1>1, <1>2, <1>3 DEF ThirdUp
<1>. QED BY <1>3, <1>4

LEMMA OrgWrites ==
  ASSUME OrgInv, NEW s \in OrgSlots, orgCall[s] \in OrgCalls, CallHere(orgCall[s]),
         NEW at \in {"assets", "done"}, OrgTo(s, at), at = "assets" => orgCall[s].op = "delete",
         UNCHANGED <<orgOf, orgPage, orgLoads>>, orgs' \in Tables, moved' \in BOOLEAN,
         moved => moved',
         \A o \in OrgIds : orgs[o] # Nil => orgs'[o] # Nil,
         \A o \in OrgIds : orgs'[o] # Nil =>
           orgs'[o].parent = Nil \/ (orgs'[o].parent \in OrgIds /\ orgs'[orgs'[o].parent] # Nil),
         Roomy' => \A o : Here(o) /\ SecondUp(orgs, o) = Nil => SecondUp(orgs', o) = Nil,
         Roomy' => \A o \in OrgIds : orgs'[o] # Nil => ThirdUp(orgs', o) = Nil
  PROVE  OrgInv'
<1>0. PageHere /\ orgCall \in [OrgSlots -> {OrgIdle} \cup OrgCalls]
  BY OrgFacts DEF OrgInv
<1>1. \A o : Here(o) => Here(o)'
  BY DEF Here
<1>2. RowsHere(orgs)'
  BY DEF RowsHere, Here
<1>3. PageHere'
  <2>1. \A rows : RowsHere(rows) => RowsHere(rows)'
    BY <1>1 DEF RowsHere
  <2>. QED BY <1>0, <1>1, <2>1 DEF PageHere
<1>4. Shallow'
  BY DEF Shallow
<1>5. PICK new : /\ new \in OrgCalls /\ new # OrgIdle /\ orgCall' = [orgCall EXCEPT ![s] = new]
                 /\ new.at = at /\ new.op = orgCall[s].op /\ new.id = orgCall[s].id
                 /\ new.parent = orgCall[s].parent
  BY OrgGoes
<1>6. orgCall' \in [OrgSlots -> {OrgIdle} \cup OrgCalls]
  BY <1>0, <1>5
<1>7. ASSUME NEW o \in OrgSlots PROVE CallHere(orgCall[o])'
  <2>1. CASE o = s
    <3>1. /\ orgCall[s].op # "create" => orgCall[s].id # Nil
          /\ Here(orgCall[s].id) /\ Here(orgCall[s].parent) /\ orgCall[s] # OrgIdle
      BY OrgCallTyped DEF CallHere, OrgCalls, OrgIdle
    <3>2. Here(new.id)' /\ Here(new.parent)'
      BY <1>1, <1>5, <3>1
    <3>3. orgCall'[o] = new
      BY <1>0, <1>5, <2>1
    <3>4. CallHere(new)'
      BY <1>5, <3>1, <3>2 DEF CallHere
    <3>. QED BY <3>3, <3>4 DEF CallHere
  <2>2. CASE o # s
    <3>1. PICK c : c = orgCall[o]
      OBVIOUS
    <3>2. CallHere(c) /\ orgCall'[o] = c
      BY <1>0, <1>5, <2>2, <3>1 DEF OrgInv
    <3>3. Here(c.id) => Here(c.id)'
      BY <1>1
    <3>4. Here(c.parent) => Here(c.parent)'
      BY <1>1
    <3>5. Roomy' => Roomy
      BY DEF Roomy, OrgInv, OrgTyped
    <3>6. CallHere(c)'
      BY <3>2, <3>3, <3>4, <3>5 DEF CallHere
    <3>. QED BY <3>2, <3>6 DEF CallHere
  <2>. QED BY <2>1, <2>2
<1>8. OrgTyped'
  BY <1>6, OrgFacts DEF OrgTyped
<1>. QED BY <1>2, <1>3, <1>4, <1>7, <1>8 DEF OrgInv

LEMMA InsertOrgHolds == ASSUME OrgInv, NEW s \in OrgSlots, InsertOrg(s) PROVE OrgInv'
<1>. DEFINE c == orgCall[s]
<1>0. c \in OrgCalls /\ CallHere(c) /\ c # OrgIdle /\ orgs \in Tables /\ RowsHere(orgs)
  BY OrgCallTyped, OrgFacts DEF InsertOrg, OrgInv
<1>1. Here(c.parent) /\ c.parent \in OrgIds \cup {Nil}
      /\ (Roomy => SecondUp(orgs, c.parent) = Nil)
  BY <1>0 DEF InsertOrg, CallHere, OrgCalls
<1>2. PICK row : row = [parent |-> c.parent, active |-> TRUE]
  OBVIOUS
<1>3. row \in OrgRows /\ row.parent = c.parent /\ row # Nil
  <2>1. row \in OrgRows /\ row.parent = c.parent
    BY <1>1, <1>2 DEF OrgRows
  <2>. QED BY <2>1, OrgAssumption
<1>4. PICK n \in OrgIds : orgs[n] = Nil /\ orgs' = [orgs EXCEPT ![n] = row]
  BY <1>2 DEF InsertOrg
<1>5. PICK rows : rows = orgs'
  OBVIOUS
<1>6. /\ rows \in Tables /\ rows[n] = row
      /\ \A o \in OrgIds \ {n} : rows[o] = orgs[o]
  BY <1>0, <1>3, <1>4, <1>5 DEF Tables
<1>7. \A o : Here(o) => Over(rows, o) = Over(orgs, o)
  <2>. SUFFICES ASSUME NEW o, Here(o), o # Nil PROVE Over(rows, o) = Over(orgs, o)
    BY DEF Over
  <2>1. o \in OrgIds /\ o # n /\ orgs[o] # Nil /\ rows[o] = orgs[o] /\ Here(orgs[o].parent)
    BY <1>0, <1>4, <1>6 DEF Here, RowsHere
  <2>2. orgs[o].parent = Nil \/ (orgs[o].parent \in OrgIds \ {n} /\ orgs[orgs[o].parent] # Nil)
    BY <1>4, <2>1 DEF Here
  <2>3. orgs[o].parent \in OrgsIn(rows) <=> orgs[o].parent \in OrgsIn(orgs)
    BY <1>6, <2>2, OrgAssumption DEF OrgsIn
  <2>. QED BY <2>1, <2>3 DEF Over
<1>8. \A o : Here(o) => /\ SecondUp(orgs, o) = Nil => SecondUp(rows, o) = Nil
                        /\ ThirdUp(orgs, o) = Nil => ThirdUp(rows, o) = Nil
  BY <1>7, OrgLifts
<1>9. Over(rows, n) = c.parent
  BY <1>1, <1>3, <1>4, <1>6, OrgAssumption DEF Over, OrgsIn, Here
<1>10. ASSUME Roomy, NEW o \in OrgIds, rows[o] # Nil PROVE ThirdUp(rows, o) = Nil
  <2>1. CASE o = n
    BY <1>1, <1>8, <1>9, <1>10, <2>1 DEF ThirdUp, SecondUp
  <2>2. CASE o # n
    BY <1>6, <1>8, <1>10, <2>2 DEF OrgInv, Shallow, Here
  <2>. QED BY <2>1, <2>2
<1>11. \A o \in OrgIds : rows[o] # Nil =>
         rows[o].parent = Nil \/ (rows[o].parent \in OrgIds /\ rows[rows[o].parent] # Nil)
  BY <1>0, <1>1, <1>3, <1>4, <1>6 DEF RowsHere, Here
<1>12. UNCHANGED <<orgOf, orgPage, orgLoads, moved>> /\ OrgTo(s, "done") /\ moved \in BOOLEAN
  BY OrgFacts DEF InsertOrg
<1>13. Roomy' => Roomy
  BY <1>12 DEF Roomy
<1>. QED BY <1>0, <1>3, <1>4, <1>5, <1>6, <1>8, <1>10, <1>11, <1>12, <1>13, OrgWrites

LEMMA UpdateOrgHolds == ASSUME OrgInv, NEW s \in OrgSlots, UpdateOrg(s) PROVE OrgInv'
<1>. DEFINE c == orgCall[s]
<1>0. c \in OrgCalls /\ CallHere(c) /\ c # OrgIdle /\ orgs \in Tables /\ RowsHere(orgs)
  BY OrgCallTyped, OrgFacts DEF UpdateOrg, OrgInv
<1>1. /\ Here(c.id) /\ Here(c.parent) /\ c.id \in OrgIds /\ orgs[c.id] # Nil
      /\ c.parent \in OrgIds \cup {Nil}
  BY <1>0 DEF UpdateOrg, CallHere, OrgCalls, Here
<1>2. PICK row : row = [orgs[c.id] EXCEPT !.parent = c.parent]
  OBVIOUS
<1>3. row \in OrgRows /\ row.parent = c.parent /\ row # Nil
  <2>1. orgs[c.id] \in OrgRows
    BY <1>0, <1>1 DEF Tables
  <2>2. row \in OrgRows /\ row.parent = c.parent
    BY <1>1, <1>2, <2>1 DEF OrgRows
  <2>. QED BY <2>2, OrgAssumption
<1>4. orgs' = [orgs EXCEPT ![c.id] = row]
  BY <1>2 DEF UpdateOrg
<1>5. /\ orgs' \in Tables /\ orgs'[c.id] = row
      /\ \A o \in OrgIds \ {c.id} : orgs'[o] = orgs[o]
  BY <1>0, <1>1, <1>3, <1>4 DEF Tables
<1>6. moved' \in BOOLEAN /\ (moved => moved') /\ (orgs[c.id].parent # c.parent => moved')
  BY OrgFacts, Zenon DEF UpdateOrg
<1>7. ASSUME ~moved' PROVE orgs' = orgs
  <2>1. orgs[c.id] \in OrgRows /\ orgs[c.id].parent = c.parent
    BY <1>0, <1>1, <1>6, <1>7 DEF Tables
  <2>2. row = orgs[c.id]
    BY <1>2, <2>1 DEF OrgRows
  <2>. QED BY <1>0, <1>1, <1>4, <2>2 DEF Tables
<1>8. Roomy' => Roomy /\ orgs' = orgs
  BY <1>6, <1>7 DEF Roomy
<1>9. \A o \in OrgIds : orgs'[o] # Nil =>
         orgs'[o].parent = Nil \/ (orgs'[o].parent \in OrgIds /\ orgs'[orgs'[o].parent] # Nil)
  BY <1>0, <1>1, <1>3, <1>5 DEF RowsHere, Here
<1>10. UNCHANGED <<orgOf, orgPage, orgLoads>> /\ OrgTo(s, "done")
  BY DEF UpdateOrg
<1>11. \A o \in OrgIds : orgs[o] # Nil => orgs'[o] # Nil
  BY <1>3, <1>5
<1>12. Roomy' => \A o : Here(o) /\ SecondUp(orgs, o) = Nil => SecondUp(orgs', o) = Nil
  BY <1>8
<1>13. Roomy' => \A o \in OrgIds : orgs'[o] # Nil => ThirdUp(orgs', o) = Nil
  BY <1>8 DEF OrgInv, Shallow
<1>. QED BY <1>0, <1>5, <1>6, <1>9, <1>10, <1>11, <1>12, <1>13, OrgWrites

LEMMA OrgDeletesHold ==
  ASSUME OrgInv, NEW s \in OrgSlots, FreeChildren(s) \/ Deactivate(s)
  PROVE  OrgInv'
<1>. DEFINE c == orgCall[s]
<1>0. c \in OrgCalls /\ CallHere(c) /\ c # OrgIdle /\ orgs \in Tables /\ RowsHere(orgs)
  BY OrgCallTyped, OrgFacts DEF FreeChildren, Deactivate, OrgInv
<1>1. c.op = "delete" /\ Here(c.id) /\ c.id \in OrgIds /\ orgs[c.id] # Nil
  BY <1>0 DEF FreeChildren, Deactivate, CallHere, OrgCalls, Here
<1>2. PICK rows : rows = orgs'
  OBVIOUS
<1>3. ASSUME NEW o \in OrgIds
      PROVE  /\ orgs[o] = Nil => rows[o] = Nil
             /\ orgs[o] # Nil => rows[o] \in OrgRows /\ rows[o].parent \in {orgs[o].parent, Nil}
  <2>1. orgs[o] # Nil => orgs[o] \in OrgRows
    BY <1>0 DEF Tables
  <2>2. PICK freed, closed : /\ freed = [orgs[o] EXCEPT !.parent = Nil]
                             /\ closed = [orgs[o] EXCEPT !.active = FALSE]
    OBVIOUS
  <2>3. orgs[o] # Nil => /\ freed \in OrgRows /\ freed.parent = Nil
                         /\ closed \in OrgRows /\ closed.parent = orgs[o].parent
    BY <2>1, <2>2 DEF OrgRows
  <2>4. CASE FreeChildren(s)
    BY <1>2, <2>1, <2>2, <2>3, <2>4 DEF FreeChildren
  <2>5. CASE Deactivate(s)
    <3>1. rows[o] = IF o = c.id THEN closed ELSE orgs[o]
      BY <1>0, <1>1, <1>2, <2>2, <2>5 DEF Deactivate, Tables
    <3>. QED BY <1>1, <2>1, <2>3, <3>1
  <2>. QED BY <2>4, <2>5
<1>4. rows \in Tables /\ \A o \in OrgIds : orgs[o] # Nil <=> rows[o] # Nil
  <2>1. \A o \in OrgIds : rows[o] \in OrgRows \cup {Nil} /\ (orgs[o] # Nil <=> rows[o] # Nil)
    BY <1>3, OrgAssumption
  <2>2. rows = [o \in OrgIds |-> rows[o]]
    BY <1>0, <1>2 DEF FreeChildren, Deactivate, Tables
  <2>. QED BY <2>1, <2>2 DEF Tables
<1>5. OrgsIn(rows) = OrgsIn(orgs)
  BY <1>4 DEF OrgsIn
<1>6. \A o : Here(o) => Over(rows, o) \in {Over(orgs, o), Nil}
  BY <1>3, <1>5, OrgAssumption DEF Over, OrgsIn, Here
<1>7. \A o : Here(o) => /\ SecondUp(orgs, o) = Nil => SecondUp(rows, o) = Nil
                        /\ ThirdUp(orgs, o) = Nil => ThirdUp(rows, o) = Nil
  BY <1>6, OrgLifts
<1>8. \A o \in OrgIds : rows[o] # Nil =>
         rows[o].parent = Nil \/ (rows[o].parent \in OrgIds /\ rows[rows[o].parent] # Nil)
  BY <1>0, <1>3, <1>4 DEF RowsHere, Here
<1>9. ASSUME Roomy, NEW o \in OrgIds, rows[o] # Nil PROVE ThirdUp(rows, o) = Nil
  BY <1>4, <1>7, <1>9 DEF OrgInv, Shallow, Here
<1>10. /\ UNCHANGED <<orgOf, orgPage, orgLoads, moved>> /\ moved \in BOOLEAN
       /\ OrgTo(s, "assets") \/ OrgTo(s, "done")
  BY OrgFacts DEF FreeChildren, Deactivate
<1>11. Roomy' => Roomy
  BY <1>10 DEF Roomy
<1>. QED BY <1>0, <1>1, <1>2, <1>4, <1>7, <1>8, <1>9, <1>10, <1>11, OrgWrites

LEMMA OrgStepHolds == OrgInv /\ [OrgNext]_orgVars => OrgInv'
<1>. SUFFICES ASSUME OrgInv, [OrgNext]_orgVars PROVE OrgInv'
  OBVIOUS
<1>1. CASE UNCHANGED orgVars
  <2>1. UNCHANGED <<orgs, orgOf, orgPage, orgLoads, orgCall, moved>>
    BY <1>1 DEF orgVars
  <2>. QED BY <2>1, OrgFacts, OrgRests DEF OrgInv, PageHere
<1>2. ASSUME NEW s \in OrgSlots, OrgWork(s) PROVE OrgInv'
  BY <1>2, OrgChecksHold, InsertOrgHolds, UpdateOrgHolds, OrgDeletesHold, OrgRequestsHold DEF OrgWork
<1>. QED BY <1>1, <1>2, OrgPageHolds, OrgRequestsHold DEF OrgNext

LEMMA OrgInitHolds == OrgInit => OrgInv
<1>. SUFFICES ASSUME OrgInit PROVE OrgInv
  OBVIOUS
<1>0. PICK n \in 0..(Cardinality(OrgIds) - 1) : \E p \in [1..n -> OrgIds \cup {Nil}] :
        /\ \A o \in 1..n : p[o] \in {Nil} \cup 1..(o - 1)
        /\ orgs = [o \in OrgIds |-> IF o <= n THEN [parent |-> p[o], active |-> TRUE] ELSE Nil]
        /\ \A o \in 1..n : Level(orgs, o) <= MaxLevel
        /\ orgOf = [h \in Holdings |-> IF n = 0 THEN Nil ELSE n]
  BY DEF OrgInit
<1>1. PICK p \in [1..n -> OrgIds \cup {Nil}] :
        /\ \A o \in 1..n : p[o] \in {Nil} \cup 1..(o - 1)
        /\ orgs = [o \in OrgIds |-> IF o <= n THEN [parent |-> p[o], active |-> TRUE] ELSE Nil]
        /\ \A o \in 1..n : Level(orgs, o) <= MaxLevel
        /\ orgOf = [h \in Holdings |-> IF n = 0 THEN Nil ELSE n]
  BY <1>0
<1>2. /\ Cardinality(OrgIds) \in Nat /\ OrgIds = 1..Cardinality(OrgIds) /\ 1..n \subseteq OrgIds
      /\ Nil \notin OrgIds /\ Nil \notin OrgRows
  BY OrgAssumption, FS_CardinalityType
<1>3. \A o \in OrgIds : /\ o \in 1..n => /\ orgs[o] \in OrgRows /\ orgs[o].parent = p[o]
                                         /\ p[o] \in {Nil} \cup 1..n
                        /\ o \notin 1..n => orgs[o] = Nil
  BY <1>1, <1>2 DEF OrgRows
<1>4. orgs \in Tables
  BY <1>1, <1>3 DEF Tables
<1>5. \A o \in OrgIds : orgs[o] # Nil => o \in 1..n /\ Here(o) /\ Here(orgs[o].parent)
  BY <1>2, <1>3 DEF Here
<1>6. RowsHere(orgs)
  BY <1>5 DEF RowsHere
<1>7. ActiveOrgs \in Tables /\ RowsHere(ActiveOrgs)
  BY <1>4, <1>6 DEF ActiveOrgs, Tables, RowsHere, Here
<1>8. orgPage \in OrgPages /\ orgPage.shown = ActiveOrgs /\ orgPage.form = Nil
  <2>1. OrgsIn(ActiveOrgs) \subseteq OrgIds
    BY DEF OrgsIn
  <2>2. PICK admin \in BOOLEAN : orgPage = [shown |-> ActiveOrgs, open |-> OrgsIn(ActiveOrgs),
                                            form |-> Nil, role |-> "readonly", admin |-> admin]
    BY DEF OrgInit
  <2>. QED BY <1>7, <2>1, <2>2 DEF OrgPages
<1>9. orgLoads = {} /\ orgCall = [s \in OrgSlots |-> OrgIdle] /\ moved = FALSE
  BY DEF OrgInit
<1>10. orgOf \in [Holdings -> OrgIds \cup {Nil}]
  BY <1>1, <1>2
<1>11. Shallow
  BY <1>1, <1>2, <1>5, LevelIsShort DEF Shallow, Roomy, MaxLevel
<1>12. PageHere
  BY <1>7, <1>8, <1>9 DEF PageHere
<1>13. \A s \in OrgSlots : CallHere(orgCall[s])
  BY <1>9 DEF CallHere
<1>. QED BY <1>4, <1>6, <1>8, <1>9, <1>10, <1>11, <1>12, <1>13 DEF OrgInv, OrgTyped

LEMMA OrgTypeHolds == OrgInv => OrgTypeOK
  BY DEF OrgInv, OrgTyped, OrgTypeOK, Tables, OrgPages, OrgCalls, OrgIdle

\* For any organisations, assets and requests at the same time: no organisation gets deeper
\* than the third level, unless an update moved one.
THEOREM OrgTreeIsShallow == OrgSpec => []ShallowTree
<1>1. OrgInv /\ [OrgNext]_<<orgVars, deskVars>> => OrgInv'
  BY OrgStepHolds
<1>. QED BY <1>1, OrgInitHolds, OrgShallow, PTL DEF OrgSpec

=============================================================================
