--------------------------- MODULE MCWakuExample ----------------------------
(* The model of WakuExample that TLC checks.                               *)
EXTENDS WakuExample
=============================================================================
