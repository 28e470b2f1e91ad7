--------------------------- MODULE FillDetectionMC ---------------------------
(* Two fills of one resting buy: filled in part, then again. *)
EXTENDS FillDetection

CONSTANTS f1, f2, o1

MCFills   == {f1, f2}
MCOrders  == {o1}
MCOrderOf == [f \in MCFills |-> o1]

=============================================================================
