-------------------------- MODULE MCLibwakuThread ---------------------------
(* The model of LibwakuThread that TLC checks.                             *)
EXTENDS LibwakuThread

CONSTANTS c1, c2
=============================================================================
