---------------------------- MODULE MCRateLimits ----------------------------
(***************************************************************************)
(* What limits the rate of messages and requests, NonceManager, RlnRelay,  *)
(* RootWindow and TokenBucket, on small clocks and chains.  They share no  *)
(* state, so a behaviour follows one of them, named by part, while the     *)
(* others stay as they start.                                              *)
(***************************************************************************)
EXTENDS NonceManager, RlnRelay, RootWindow, TokenBucket, TLC

VARIABLE part

limitVars == <<part, nonceVars, vars, windowVars, bucketVars>>

NullifierSymmetry == Permutations(Nullifiers)

LimitsInit ==
  /\ part \in {"nonce", "validator", "window", "bucket"}
  /\ NonceInit /\ (part # "nonce" => now = EpochSize)
  /\ Init
  /\ WindowInit
  /\ BucketInit

LimitsNext ==
  \/ part = "nonce" /\ NonceNext /\ UNCHANGED <<part, vars, windowVars, bucketVars>>
  \/ part = "validator" /\ Next /\ UNCHANGED <<part, nonceVars, windowVars, bucketVars>>
  \/ part = "window" /\ WindowNext /\ UNCHANGED <<part, nonceVars, vars, bucketVars>>
  \/ part = "bucket" /\ BucketNext /\ UNCHANGED <<part, nonceVars, vars, windowVars>>

LimitsSpec == LimitsInit /\ [][LimitsNext]_limitVars
=============================================================================
