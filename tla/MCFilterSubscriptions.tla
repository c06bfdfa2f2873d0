----------------------- MODULE MCFilterSubscriptions -----------------------
(***************************************************************************)
(* FilterSubscriptions on small instances: one pubsub topic, two content   *)
(* topics, and requests that are empty, single, double (repeats included)  *)
(* and longer than MaxContentTopicsPerRequest.                             *)
(***************************************************************************)
EXTENDS FilterSubscriptions

CONSTANTS a, b

MCContentTopicLists == {<<>>, <<a>>, <<a, b>>, <<a, a>>, <<a, b, a>>}
=============================================================================
