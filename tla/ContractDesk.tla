---------------------------- MODULE ContractDesk -----------------------------
(***************************************************************************)
(* Maintenance contracts and software licences: one table, one API         *)
(* (app/api/assets/contracts/route.ts), written from the contract modal of *)
(* the asset page, from the software page and by the registration of an    *)
(* agent.  A contract is stored by one statement that deactivates those of *)
(* the same asset and vendor and one that inserts the new one.             *)
(***************************************************************************)
EXTENDS Desk

CONSTANTS
  ContractIds,   \* ids maintenance_contracts may hand out, numbers
  Leased,        \* assets
  Vendors,
  Ends,          \* contract_end, numbers
  ContractSlots  \* bound: requests in work at the same time, numbers

ContractRows == [asset : Leased \cup {Nil}, vendor : Vendors \cup {Nil}, soft : BOOLEAN,
                 ends : Ends \cup {Nil}, active : BOOLEAN]

ASSUME ContractAssumption ==
  /\ ContractIds \cup Ends \cup ContractSlots \subseteq Nat
  /\ Nil \notin ContractIds \cup Leased \cup Vendors /\ Nil \notin ContractRows

VARIABLES
  contracts,     \* rows: [asset, vendor, soft, ends, active], or Nil
  contractPage,  \* of both pages: the rows shown and the form
  contractLoads, \* answers of GET on their way
  contractCall,  \* the request in work in a slot
  crossed        \* history: two contracts were being stored at the same time

contractVars == <<contracts, contractPage, contractLoads, contractCall, crossed>>

Counters == {"asset", "software"}
ContractIdle == [at |-> "idle"]

\* GET: all active rows for the asset page, the active software for the other.
Fetched(k) == {c \in ContractIds :
                 IF contracts[c] = Nil THEN FALSE
                 ELSE contracts[c].active /\ (k = "software" => contracts[c].soft)}
Sheet(k) == [c \in Fetched(k) |-> contracts[c]]

ContractInit ==
  /\ contracts = [c \in ContractIds |-> Nil]
  /\ contractPage = [k \in Counters |-> [shown |-> Sheet(k), form |-> Nil]]
  /\ contractLoads = [k \in Counters |-> {}]
  /\ contractCall = [s \in ContractSlots |-> ContractIdle]
  /\ crossed = FALSE

-----------------------------------------------------------------------------
(* The pages.                                                              *)

ContractLoad(k) == contractLoads' = [contractLoads EXCEPT ![k] = @ \cup {Sheet(k)}]

ContractRefresh(k) ==
  /\ Act
  /\ ContractLoad(k)
  /\ UNCHANGED <<contracts, contractPage, contractCall, crossed>>

ContractArrive(k, rows) ==
  /\ rows \in contractLoads[k]
  /\ contractPage' = [contractPage EXCEPT ![k].shown = rows]
  /\ contractLoads' = [contractLoads EXCEPT ![k] = @ \ {rows}]
  /\ UNCHANGED <<contracts, contractCall, crossed, deskVars>>

\* The contract the asset page shows for an asset: the rows come ordered by their
\* end, no end last, and a later row takes the place of an earlier one.
Later(x, y) == y.ends # Nil /\ (IF x.ends = Nil THEN TRUE ELSE x.ends > y.ends)
OfAsset(a) == LET rows == contractPage["asset"].shown IN
              {rows[c] : c \in {d \in DOMAIN rows : rows[d].asset = a}}
ShownFor(a) == {x \in OfAsset(a) : \A y \in OfAsset(a) : ~Later(y, x)}

\* The modal starts from the contract shown, or empty; it has no use for the id.
OpenContractForm(a) ==
  /\ Act
  /\ contractPage["asset"].form = Nil
  /\ \E x \in IF OfAsset(a) = {} THEN {[vendor |-> Nil]} ELSE ShownFor(a) :
       contractPage' = [contractPage EXCEPT !["asset"].form =
                          [id |-> Nil, asset |-> a, vendor |-> x.vendor]]
  /\ UNCHANGED <<contracts, contractLoads, contractCall, crossed>>

\* The form of the software page: a new row, or one that is shown.
OpenSoftwareForm(c) ==
  LET rows == contractPage["software"].shown IN
  /\ Act
  /\ contractPage["software"].form = Nil
  /\ c \in DOMAIN rows \cup {Nil}
  /\ contractPage' = [contractPage EXCEPT !["software"].form =
       [id |-> c, asset |-> Nil, vendor |-> IF c = Nil THEN Nil ELSE rows[c].vendor]]
  /\ UNCHANGED <<contracts, contractLoads, contractCall, crossed>>

CloseContractForm(k) ==
  /\ Act
  /\ contractPage[k].form # Nil
  /\ contractPage' = [contractPage EXCEPT ![k].form = Nil]
  /\ UNCHANGED <<contracts, contractLoads, contractCall, crossed>>

ContractSend(call) ==
  \E s \in ContractSlots :
    /\ contractCall[s] = ContractIdle
    /\ \A o \in ContractSlots : contractCall[o] = ContractIdle => s <= o
    /\ contractCall' = [contractCall EXCEPT ![s] = call]

\* saveContract: vendor and both dates are there, and it is always a POST.
SaveContract(vendor, ends) ==
  LET f == contractPage["asset"].form IN
  /\ Act
  /\ f # Nil
  /\ ContractSend([from |-> "asset", at |-> "deactivate", id |-> Nil,
       row |-> [asset |-> f.asset, vendor |-> vendor, soft |-> FALSE,
                ends |-> ends, active |-> TRUE]])
  /\ contractPage' = [contractPage EXCEPT !["asset"].form.vendor = vendor]
  /\ UNCHANGED <<contracts, contractLoads, crossed>>

\* save: POST or PUT; a date that is left empty is sent as an empty text, which
\* the column does not take.
SaveSoftware(vendor, ends) ==
  LET f == contractPage["software"].form IN
  /\ Act
  /\ f # Nil
  /\ ContractSend([from |-> "software", id |-> f.id,
       at |-> IF ends = Nil THEN "failed" ELSE IF f.id = Nil THEN "insert" ELSE "update",
       row |-> [asset |-> Nil, vendor |-> vendor, soft |-> TRUE,
                ends |-> ends, active |-> TRUE]])
  /\ contractPage' = [contractPage EXCEPT !["software"].form.vendor = vendor]
  /\ UNCHANGED <<contracts, contractLoads, crossed>>

DeleteSoftware(c) ==
  /\ Act
  /\ contractPage["software"].form = Nil
  /\ c \in DOMAIN contractPage["software"].shown
  /\ ContractSend([from |-> "software", id |-> c, at |-> "delete",
                   row |-> contractPage["software"].shown[c]])
  /\ UNCHANGED <<contracts, contractPage, contractLoads, crossed>>

\* Neither page looks at how the request ended: a refused row is gone with its form.
ContractAnswer(s) ==
  LET c == contractCall[s] IN
  /\ c.at \in {"done", "deleted", "failed"}
  /\ contractCall' = [contractCall EXCEPT ![s] = ContractIdle]
  /\ contractPage' = [contractPage EXCEPT ![c.from].form = IF c.at = "deleted" THEN @ ELSE Nil]
  /\ ContractLoad(c.from)
  /\ UNCHANGED <<contracts, crossed, deskVars>>

-----------------------------------------------------------------------------
(* The API and the registration of agents.                                 *)

ContractTo(s, at) == contractCall' = [contractCall EXCEPT ![s].at = at]
LowestFree(c) == contracts[c] = Nil /\ \A d \in ContractIds : contracts[d] = Nil => c <= d
SameDeal(x, y) == x.asset = y.asset /\ x.vendor = y.vendor
\* Past its deactivation, and still to be inserted.
Storing(s, row) == contractCall[s].at = "insert" /\ SameDeal(contractCall[s].row, row)

\* Faulty variant, for testing the properties: the earlier contracts stay.
DeactivateNone(s) ==
  /\ contractCall[s].at = "deactivate"
  /\ ContractTo(s, "insert")
  /\ UNCHANGED <<contracts, contractPage, contractLoads, crossed, deskVars>>

DeactivateDeals(s) ==
  LET row == contractCall[s].row IN
  /\ contractCall[s].at = "deactivate"
  /\ contracts' = [c \in ContractIds |->
       IF contracts[c] = Nil THEN Nil
       ELSE [contracts[c] EXCEPT !.active = @ /\ ~SameDeal(contracts[c], row)]]
  /\ ContractTo(s, "insert")
  /\ UNCHANGED <<contractPage, contractLoads, crossed, deskVars>>

InsertContract(s) ==
  /\ contractCall[s].at = "insert"
  /\ \E c \in ContractIds :
       LowestFree(c) /\ contracts' = [contracts EXCEPT ![c] = contractCall[s].row]
  /\ crossed' = (crossed \/ \E o \in ContractSlots \ {s} : Storing(o, contractCall[s].row))
  /\ ContractTo(s, "done")
  /\ UNCHANGED <<contractPage, contractLoads, deskVars>>

\* PUT by id: the asset stays, and so does a row that was deleted meanwhile.
UpdateContract(s) ==
  LET c == contractCall[s] IN
  /\ c.at = "update"
  /\ contracts' = [contracts EXCEPT ![c.id].vendor = c.row.vendor, ![c.id].ends = c.row.ends]
  /\ ContractTo(s, "done")
  /\ UNCHANGED <<contractPage, contractLoads, crossed, deskVars>>

DeleteContract(s) ==
  /\ contractCall[s].at = "delete"
  /\ contracts' = [contracts EXCEPT ![contractCall[s].id].active = FALSE]
  /\ ContractTo(s, "deleted")
  /\ UNCHANGED <<contractPage, contractLoads, crossed, deskVars>>

\* A statement fails; a deactivation before it stays.
ContractFails(s) ==
  /\ Act
  /\ contractCall[s].at \in {"deactivate", "insert", "update", "delete"}
  /\ ContractTo(s, IF contractCall[s].at = "delete" THEN "deleted" ELSE "failed")
  /\ UNCHANGED <<contracts, contractPage, contractLoads, crossed>>

\* An agent that registers a new asset leaves an empty contract with it.
AgentContract(a) ==
  /\ Act
  /\ \A c \in ContractIds : contracts[c] # Nil => contracts[c].asset # a
  /\ \E c \in ContractIds :
       /\ LowestFree(c)
       /\ contracts' = [contracts EXCEPT ![c] = [asset |-> a, vendor |-> Nil, soft |-> FALSE,
                                                 ends |-> Nil, active |-> TRUE]]
  /\ UNCHANGED <<contractPage, contractLoads, contractCall, crossed>>

-----------------------------------------------------------------------------
ContractNext ==
  \/ \E k \in Counters :
       \/ ContractRefresh(k) \/ CloseContractForm(k)
       \/ \E rows \in contractLoads[k] : ContractArrive(k, rows)
  \/ \E a \in Leased : OpenContractForm(a) \/ AgentContract(a)
  \/ \E c \in ContractIds \cup {Nil} : OpenSoftwareForm(c)
  \/ \E c \in ContractIds : DeleteSoftware(c)
  \/ \E v \in Vendors :
       \/ \E e \in Ends : SaveContract(v, e)
       \/ \E e \in Ends \cup {Nil} : SaveSoftware(v, e)
  \/ \E s \in ContractSlots :
       \/ DeactivateDeals(s) \/ InsertContract(s) \/ UpdateContract(s)
       \/ DeleteContract(s) \/ ContractFails(s) \/ ContractAnswer(s)

ContractSpec == DeskInit /\ ContractInit /\ [][ContractNext]_<<contractVars, deskVars>>

ContractTypeOK ==
  /\ contracts \in [ContractIds -> ContractRows \cup {Nil}]
  /\ \A k \in Counters : DOMAIN contractPage[k].shown \subseteq ContractIds
  /\ \A s \in ContractSlots : contractCall[s].at \in
       {"idle", "deactivate", "insert", "update", "delete", "done", "deleted", "failed"}
  /\ crossed \in BOOLEAN

\* An asset has at most one active contract with a vendor, unless two were stored
\* at the same time (route.ts:87 deactivates and inserts in two statements and no
\* constraint ties them together).
OneContract ==
  ~crossed => \A c, d \in ContractIds :
    c # d /\ contracts[c] # Nil /\ contracts[d] # Nil =>
      ~(/\ contracts[c].active /\ contracts[d].active
        /\ contracts[c].asset # Nil /\ SameDeal(contracts[c], contracts[d]))
=============================================================================
