------------------------------ MODULE MCDevices ------------------------------
(* TLC instance of the three devices behind UARTs and I2C: the Z axis, the     *)
(* C552 and the EEPROM. They share no variable, so each is explored by itself; *)
(* part chooses which.                                                        *)
EXTENDS ZAxis, C552, Storage

VARIABLE part

devicevars == <<vars, linkvars, storevars, part>>

DevicesInit ==
  /\ part \in {"zaxis", "c552", "eeprom"}
  /\ Init /\ LinkInit /\ StoreInit
  /\ part # "eeprom" => confirmed = Defaults /\ ~rom.magic /\ rom.body[1].version = 2

DevicesNext ==
  /\ UNCHANGED part
  /\ \/ part = "zaxis" /\ Next /\ UNCHANGED <<linkvars, storevars>>
     \/ part = "c552" /\ LinkNext /\ UNCHANGED <<vars, storevars>>
     \/ part = "eeprom" /\ StoreNext /\ UNCHANGED <<vars, linkvars>>

Devices == DevicesInit /\ [][DevicesNext]_devicevars
=============================================================================
