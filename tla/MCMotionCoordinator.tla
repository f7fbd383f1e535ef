------------------------ MODULE MCMotionCoordinator ------------------------
(* TLC instances of MotionCoordinator.                                     *)
EXTENDS MotionCoordinator
=============================================================================
