------------------------------ MODULE ZPromise ------------------------------
(***************************************************************************)
(* What the rest of the firmware may rely on about the Z axis: the states  *)
(* of ZAxisControlStatus that its users tell apart, and the steps between  *)
(* them. ZAxis implements it; MotionCoordinator uses it as its Z axis.     *)
(***************************************************************************)

VARIABLE z

ZPhases == {"REST",        \* Z_STATE_UNREFERENCED, Z_STATE_IDLE
            "MOVING",      \* Z_STATE_STARTING, Z_STATE_MOVING
            "STOPPING", "RECOVERING", "FAULT"}

ZInit == z = "REST"

\* A move is only accepted at rest: never in FAULT, never on top of a move.
ZStart == z = "REST" /\ z' = "MOVING"

\* A stop is accepted in every state.
ZHalt == z' = "STOPPING"

\* The controller has reported the end of the move, or of the stop. The end of a
\* move also ends a FAULT: that of a deadline that was overtaken by a stop.
ZEnd == z \in {"MOVING", "STOPPING", "FAULT"} /\ z' = "REST"

ZFail == z' = "FAULT"

\* CLEAR_FAULT, from FAULT or from a link fault the position layer has not seen.
ZRecover == z # "RECOVERING" /\ z' = "RECOVERING"

ZRecovered == z = "RECOVERING" /\ z' = "REST"

ZNext == ZStart \/ ZHalt \/ ZEnd \/ ZFail \/ ZRecover \/ ZRecovered

ZSpec == ZInit /\ [][ZNext]_z
=============================================================================
