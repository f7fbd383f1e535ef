------------------------------ MODULE MCMission ------------------------------
(* TLC instance of the mission and of the CAN transport that takes its commands *)
(* to the X and Y drivers. They share no variable, so each is explored by       *)
(* itself; part chooses which.                                                  *)
EXTENDS Mission, CanBus

VARIABLE part

partvars == <<vars, canvars, part>>

PartsInit ==
  /\ part \in {"mission", "can"}
  /\ Init /\ CanInit
  /\ part = "can" => job.payload = "EMPTY" /\ grip = "open"

PartsNext ==
  /\ UNCHANGED part
  /\ \/ part = "mission" /\ Next /\ UNCHANGED canvars
     \/ part = "can" /\ CanNext /\ UNCHANGED vars

MissionAndCan == PartsInit /\ [][PartsNext]_partvars
=============================================================================
