---------------------------- MODULE MCInventory -----------------------------
EXTENDS Inventory

CONSTANTS srv, sw1, sw2

MCBudget ==
  [d \in {"assets", "imports", "contracts", "orgs", "racks", "agents", "panel", "graph", "map",
          "addresses", "predictions"} |->
     CASE d \in {"orgs", "graph", "predictions"} -> 3
       [] d \in {"assets", "panel"} -> 4
       [] d \in {"imports", "contracts", "map", "addresses"} -> 5
       [] d = "racks" -> 6
       [] OTHER -> 7]

MCFilters == {[type |-> Nil, life |-> "active", only |-> StockIds],
              [type |-> "server", life |-> Nil, only |-> {1}]}

\* A file is of the sort it is named for.
MCSort(f) == f

\* A MAC table with a server, a switch and a broadcast address, one whose vendor is
\* not detected and that two parsers fit, and the ports and targets of a SAN switch.
Line(form, of, kind) == [form |-> form, of |-> of, kind |-> kind]
MCTexts ==
  {[head |-> "cisco", pattern |-> "mac", csv |-> FALSE,
    lines |-> {Line("ciscoMac", x, "mac") : x \in {srv, sw2, Nil}}],
   [head |-> "auto", pattern |-> "mac", csv |-> FALSE,
    lines |-> {Line("juniperMac", sw1, "mac"), Line("fortigateMac", srv, "mac")}],
   [head |-> "brocade", pattern |-> "wwn", csv |-> FALSE,
    lines |-> {Line("switchshow", srv, "switch_port"), Line("nsshow", sw2, "target")}]}

\* The two switches see each other.
MCSeen == {[d \in Switches |-> Switches \ {d}]}
=============================================================================
