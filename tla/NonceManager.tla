---------------------------- MODULE NonceManager ----------------------------
(***************************************************************************)
(* The message ids a publisher puts into its RLN proofs: getNonce of       *)
(* waku_rln_relay/nonce_manager.nim as appendRLNProof of rln_relay.nim     *)
(* calls it.  A proof is for an epoch of wall-clock time and a nonce; two  *)
(* proofs of one member for the same epoch and nonce are what the network  *)
(* takes for spam.  The epoch comes from the time the caller read, the     *)
(* nonce from the time getNonce reads, and epochs start at the multiples   *)
(* of EpochSize while the nonce manager measures from its last call.       *)
(***************************************************************************)
EXTENDS Integers, FiniteSets

CONSTANTS
  EpochSize,    \* rlnEpochSizeSec and NonceManager.epoch, in clock ticks
  NonceLimit,   \* nonceLimit
  MaxTime,      \* bound on the clock
  MaxNonce      \* bound on nextNonce, above NonceLimit

ASSUME SizesAssumption ==
  /\ EpochSize \in Nat \ {0} /\ NonceLimit \in Nat
  /\ MaxTime \in Nat /\ MaxNonce \in Nat

VARIABLES
  now,            \* getTime()
  nextNonce,
  lastNonceTime,
  last,           \* how the last request ended, and the epoch it asked in
  fetched,        \* history: the <<epoch, nonce>> pairs handed out
  repeated,       \* history: the pairs handed out more than once
  disturbed       \* history: epochs a restart, a clock set back or a request
                  \* that outlived its epoch has touched

nonceVars == <<now, nextNonce, lastNonceTime, last, fetched, repeated, disturbed>>

Outcomes == {"none", "ok", "proofFailed", "limitReached"}

CalcEpoch(t) == t \div EpochSize

NonceEpochs == 0..CalcEpoch(MaxTime)

NonceInit ==
  /\ now \in EpochSize..MaxTime    \* Unix time: far from 0
  /\ nextNonce = 0
  /\ lastNonceTime = 0
  /\ last = [outcome |-> "none", epoch |-> 0]
  /\ fetched = {}
  /\ repeated = {}
  /\ disturbed = {}

RetNonce(t) == IF t - lastNonceTime >= EpochSize THEN 0 ELSE nextNonce

\* Faulty: the time of the last call is not kept.
GetNonceForgettingTime(t) ==
  /\ nextNonce' = RetNonce(t) + 1
  /\ UNCHANGED lastNonceTime

\* Faulty: off by one.
ExceedsLimit(nonce) == nonce > NonceLimit

LimitReached(nonce) == nonce >= NonceLimit

\* The state advances whether or not the limit is reached.
GetNonce(t) ==
  /\ nextNonce' = RetNonce(t) + 1
  /\ lastNonceTime' = t

(* The caller read its time, now, before the call; getNonce reads the      *)
(* clock again, at t.  Proof generation, the Rust library's, may fail; the *)
(* nonce is spent all the same.                                            *)
AppendRLNProof(t) ==
  LET epoch == CalcEpoch(now)
      pair == <<epoch, RetNonce(t)>>
  IN  /\ RetNonce(t) < MaxNonce
      /\ GetNonce(t)
      /\ now' = t
      /\ disturbed' = IF CalcEpoch(t) = epoch THEN disturbed
                      ELSE disturbed \cup {epoch}
      /\ \/ /\ LimitReached(RetNonce(t))
            /\ last' = [outcome |-> "limitReached", epoch |-> CalcEpoch(t)]
            /\ UNCHANGED <<fetched, repeated>>
         \/ /\ ~LimitReached(RetNonce(t))
            /\ \E result \in {"ok", "proofFailed"} :
                 last' = [outcome |-> result, epoch |-> CalcEpoch(t)]
            /\ fetched' = fetched \cup {pair}
            /\ repeated' = IF pair \in fetched THEN repeated \cup {pair}
                           ELSE repeated

\* mount builds a new NonceManager; nothing of the old one is kept.
Restart ==
  /\ nextNonce' = 0
  /\ lastNonceTime' = 0
  /\ disturbed' = disturbed \cup {CalcEpoch(now)}
  /\ UNCHANGED <<now, last, fetched, repeated>>

\* External: getTime() is wall-clock time, which the system may set back.
ClockSetBack(t) ==
  /\ now' = t
  /\ disturbed' = disturbed \cup (CalcEpoch(t)..CalcEpoch(now))
  /\ UNCHANGED <<nextNonce, lastNonceTime, last, fetched, repeated>>

Tick ==
  /\ now < MaxTime
  /\ now' = now + 1
  /\ UNCHANGED <<nextNonce, lastNonceTime, last, fetched, repeated, disturbed>>

NonceNext ==
  \/ \E t \in now..MaxTime : AppendRLNProof(t)
  \/ Restart
  \/ \E t \in EpochSize..(now - 1) : ClockSetBack(t)
  \/ Tick

NonceSpec == NonceInit /\ [][NonceNext]_nonceVars

-----------------------------------------------------------------------------
(* Properties.                                                             *)

\* The shape of the state; every nonce handed out is below the limit.
NonceTypeOK ==
  /\ now \in EpochSize..MaxTime
  /\ nextNonce \in Nat
  /\ lastNonceTime \in 0..MaxTime
  /\ last \in [outcome : Outcomes, epoch : NonceEpochs]
  /\ fetched \subseteq NonceEpochs \X (0..(NonceLimit - 1))
  /\ repeated \subseteq fetched
  /\ disturbed \subseteq NonceEpochs

\* getNonce never hands out a nonce twice in an epoch, although it measures
\* the epoch from its last call and not from the epoch's start.  The
\* exceptions are all there are: an epoch in which the node restarted, one the
\* clock was set back into, and one that ended between the caller's reading of
\* the clock and getNonce's.
RepeatsOnlyWhenDisturbed == \A pair \in repeated : pair[1] \in disturbed
=============================================================================
