--------------------------- MODULE MCRemoteControl ---------------------------
(* TLC instances of RemoteControl: what the centre may send.               *)
EXTENDS RemoteControl, TLC

Send(id, kind, axis) == [id |-> id, kind |-> kind, axis |-> axis]

\* A move, its stop, an emergency stop and a mission.
MixedCommands ==
  {Send(1, "axis_move", "X"), Send(2, "axis_stop", "X"), Send(3, "emergency_stop", "X"),
   Send(4, "mission_start", "X")}

\* One command of every kind.
AllKinds ==
  {Send(1, "axis_move", "X"), Send(2, "axis_stop", "X"), Send(3, "emergency_stop", "X"),
   Send(4, "mission_start", "X"), Send(5, "mission_cancel", "X"), Send(6, "query", "X"),
   Send(7, "payload_set", "X"), Send(8, "z_set_zero", "Z"), Send(9, "z_clear_fault", "Z")}
=============================================================================
