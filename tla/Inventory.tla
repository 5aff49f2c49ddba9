----------------------------- MODULE Inventory ------------------------------
(***************************************************************************)
(* The areas of the dashboard where people keep records: assets and their  *)
(* import, contracts, organisations, racks, agent tokens, the topology,    *)
(* the address plan, and the settings that the predictions are made with.  *)
(* No step of one area writes what another one models, so each behaviour   *)
(* stays at one of them.                                                   *)
(***************************************************************************)
EXTENDS AssetDesk, ImportDesk, ContractDesk, OrgDesk, RackDesk, AgentDesk, TopologyDesk,
        IpamDesk, PredictDesk

\* The areas a behaviour does not visit start empty.
Resting ==
  /\ desk # "assets" => \A a \in StockIds : stock[a] = Nil
  /\ desk # "orgs" => ~orgPage.admin /\ \A o \in OrgIds : orgs[o] = Nil
  /\ desk # "racks" => \A r \in RackIds : height[r] = 0
  /\ desk # "addresses" =>
       \A t \in IpTabs : \E row \in {alloc[i] : i \in AllocIds} \ {Nil} :
         /\ row = [net |-> CHOOSE n \in nets : TRUE, addr |-> CHOOSE a \in Addresses : TRUE,
                   use |-> "used"]
         /\ row.net = ipPage[t].unfolded
  /\ desk # "predictions" => /\ setting.key = Nil
                             /\ setting.provider = CHOOSE p \in Providers : TRUE

InventoryInit ==
  /\ DeskInit
  /\ StockInit /\ ImportInit /\ ContractInit /\ OrgInit /\ RackInit /\ AgentInit
  /\ TopologyInit /\ IpamInit /\ PredictInit
  /\ Resting

InventoryNext ==
  \/ /\ desk = "assets" /\ StockNext
     /\ UNCHANGED <<importVars, contractVars, orgVars, rackVars, agentVars, topologyVars,
                    ipamVars, predictVars>>
  \/ /\ desk = "imports" /\ ImportNext
     /\ UNCHANGED <<stockVars, contractVars, orgVars, rackVars, agentVars, topologyVars,
                    ipamVars, predictVars>>
  \/ /\ desk = "contracts" /\ ContractNext
     /\ UNCHANGED <<stockVars, importVars, orgVars, rackVars, agentVars, topologyVars, ipamVars,
                    predictVars>>
  \/ /\ desk = "orgs" /\ OrgNext
     /\ UNCHANGED <<stockVars, importVars, contractVars, rackVars, agentVars, topologyVars,
                    ipamVars, predictVars>>
  \/ /\ desk = "racks" /\ RackNext
     /\ UNCHANGED <<stockVars, importVars, contractVars, orgVars, agentVars, topologyVars,
                    ipamVars, predictVars>>
  \/ /\ desk = "agents" /\ AgentNext
     /\ UNCHANGED <<stockVars, importVars, contractVars, orgVars, rackVars, topologyVars,
                    ipamVars, predictVars>>
  \/ /\ desk \in {"panel", "graph", "map"} /\ TopologyNext
     /\ UNCHANGED <<stockVars, importVars, contractVars, orgVars, rackVars, agentVars, ipamVars,
                    predictVars>>
  \/ /\ desk = "addresses" /\ IpamNext
     /\ UNCHANGED <<stockVars, importVars, contractVars, orgVars, rackVars, agentVars,
                    topologyVars, predictVars>>
  \/ /\ desk = "predictions" /\ PredictNext
     /\ UNCHANGED <<stockVars, importVars, contractVars, orgVars, rackVars, agentVars,
                    topologyVars, ipamVars>>

inventoryVars == <<stockVars, importVars, contractVars, orgVars, rackVars, agentVars,
                   topologyVars, ipamVars, predictVars, deskVars>>

InventorySpec == InventoryInit /\ [][InventoryNext]_inventoryVars

InventoryTypeOK ==
  /\ DeskTypeOK
  /\ StockTypeOK /\ ImportTypeOK /\ ContractTypeOK /\ OrgTypeOK /\ RackTypeOK
  /\ AgentDeskTypeOK /\ TopologyTypeOK /\ IpamTypeOK /\ PredictTypeOK
=============================================================================
