--------------------------- MODULE MCServiceCheck ---------------------------
(* Small instances of ServiceCheck for TLC.                                *)
EXTENDS ServiceCheck

CONSTANTS c1, c2

\* Names of which none is part of another.
Distinct == {<<c, c>> : c \in Checks}

\* Two checks of one asset, the name of c1 being part of the name of c2.
Nested == Distinct \cup {<<c1, c2>>}

TwoVerdicts   == {"ok", "critical"}
ThreeVerdicts == TwoVerdicts \cup {"warning"}
=============================================================================
