--------------------------- MODULE ExitMonitorMC ---------------------------
(* Two positions, one of them of up to two lots. *)
EXTENDS ExitMonitor

CONSTANTS t1, t2

MCTokens == {t1, t2}
MCCap    == [t \in MCTokens |-> IF t = t1 THEN 2 ELSE 1]

=============================================================================
