--------------------------- MODULE MCServiceDesk ----------------------------
EXTENDS ServiceDesk

CONSTANT api

MCBudget == [d \in {"services"} |-> 2]

\* One name only.
MCWithin(m, n) == m = n
=============================================================================
