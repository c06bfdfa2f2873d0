---------------------------- MODULE MCNodeAddon -----------------------------
(* The model of NodeAddon that TLC checks.                                 *)
EXTENDS NodeAddon

Long(n) == [i \in 1..n |-> 1 + (i % 251)]

(* Empty; bytes with high bits and both paddings; a zero byte; the longest *)
(* message whose JSON text fits with the topic name below, and the next;   *)
(* more than the buffer msg takes.                                         *)
MCMessages == {<<>>, <<255>>, <<255, 128>>, <<77, 0, 110>>, Long(714), Long(715), Long(2100)}
=============================================================================
