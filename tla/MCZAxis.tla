------------------------------- MODULE MCZAxis -------------------------------
(* TLC instance of ZAxis.                                                    *)
EXTENDS ZAxis
=============================================================================
