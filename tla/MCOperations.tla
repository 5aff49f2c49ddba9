---------------------------- MODULE MCOperations ----------------------------
EXTENDS Operations

CONSTANTS api, api2, g1

MCBudget ==
  [d \in {"accounts", "incidents", "services", "rules", "alerts", "hardware"} |->
     IF d = "accounts" THEN 5 ELSE 3]

\* The name of one check is part of the other's.
MCWithin(m, n) == m = n \/ (m = api /\ n = api2)

MCKindOf(g) == IF g = g1 THEN "server" ELSE "switch"
\* The name of the second component contains the name of the first.
MCMentions(b, p, q) == p = q \/ (p = 2 /\ q = 1)

MCChannelSets == {{}, {"slack"}}
=============================================================================
