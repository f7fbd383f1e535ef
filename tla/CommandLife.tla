----------------------------- MODULE CommandLife -----------------------------
(***************************************************************************)
(* What the network may rely on about a command it has submitted under an  *)
(* id: it is taken up once, goes on to one final state, keeps it, and is   *)
(* only forgotten after that. RemoteControl implements it.                 *)
(***************************************************************************)

CONSTANT Commands

VARIABLE life

Active == {"queued", "running"}
Final == {"completed", "failed"}
LifeStates == Active \cup Final \cup {"unknown", "rejected"}

\* A command may run and even finish in the step that takes it off the queue.
LifeSteps ==
  ({"unknown"} \X (Active \cup {"rejected"}))
  \cup ({"queued"} \X ({"running"} \cup Final))
  \cup ({"running"} \X Final)
  \cup ((Final \cup {"rejected"}) \X {"unknown"})

LifeInit == life = [c \in Commands |-> "unknown"]

\* Any number of commands go on at once; a new one may push out an old one.
LifeNext ==
  /\ life' \in [Commands -> LifeStates]
  /\ \A c \in Commands : life'[c] # life[c] => <<life[c], life'[c]>> \in LifeSteps

LifeSpec == LifeInit /\ [][LifeNext]_life
=============================================================================
