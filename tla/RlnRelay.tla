------------------------------ MODULE RlnRelay ------------------------------
(***************************************************************************)
(* The validator a relay node puts on a topic to enforce the RLN rate      *)
(* limit (waku_rln_relay/rln_relay.nim): it judges a message by its epoch, *)
(* its proof and the nullifiers it remembers.  A nullifier identifies a    *)
(* member's one message slot of an epoch, so two messages with the same    *)
(* epoch and nullifier are double messaging.                               *)
(*                                                                         *)
(* The validator awaits nothing: a call is one action.  The membership     *)
(* roots and the proof system are external; what they say of a message is  *)
(* its "quality".                                                          *)
(***************************************************************************)
EXTENDS Integers, Sequences, FiniteSets

CONSTANTS
  Nullifiers,
  MaxEpochGap,    \* rlnMaxEpochGap
  MaxEpoch        \* bound on the clock, and on the epochs messages carry

ASSUME GapAssumption == MaxEpochGap \in Nat \ {0} /\ MaxEpoch \in Nat

Epochs == 0..MaxEpoch

(* How far through validateMessage a message would get if its epoch were   *)
(* near and its nullifier new.                                             *)
Qualities == {"undecodable", "unknownRoot", "invalidProof", "noMetadata", "genuine"}

Messages == [epoch : Epochs, nullifier : Nullifiers, quality : Qualities]

VARIABLES
  nullifierLog,   \* sequence of [epoch, nullifiers], in order of insertion
  currentEpoch,   \* getCurrentEpoch()
  seen,           \* history: the keys of all messages the log was told of
  recent          \* history: the keys accepted since the log was last cleared

vars == <<nullifierLog, currentEpoch, seen, recent>>

Key(msg) == <<msg.epoch, msg.nullifier>>

-----------------------------------------------------------------------------
\* Faulty: looks at the epoch only.
HasEpoch(log, key) == \E i \in DOMAIN log : log[i].epoch = key[1]

HasDuplicate(log, key) ==
  \E i \in DOMAIN log : log[i].epoch = key[1] /\ key[2] \in log[i].nullifiers

\* Faulty: adds nothing to an epoch it has.
UpdateLogNewEpochs(log, key) ==
  IF \E i \in DOMAIN log : log[i].epoch = key[1]
  THEN log
  ELSE Append(log, [epoch |-> key[1], nullifiers |-> {key[2]}])

\* A new epoch goes to the end of the table, whatever its number.
UpdateLog(log, key) ==
  IF \E i \in DOMAIN log : log[i].epoch = key[1]
  THEN [i \in DOMAIN log |->
          IF log[i].epoch = key[1]
          THEN [log[i] EXCEPT !.nullifiers = @ \cup {key[2]}]
          ELSE log[i]]
  ELSE Append(log, [epoch |-> key[1], nullifiers |-> {key[2]}])

AbsDiff(e, f) == IF e > f THEN e - f ELSE f - e

\* Decoding, the epoch, the root, the proof and its metadata are checked in
\* this order and all answer Invalid; only then is the log consulted.
ValidateMessage(log, msg) ==
  CASE \/ msg.quality # "genuine"
       \/ AbsDiff(currentEpoch, msg.epoch) > MaxEpochGap -> "Invalid"
    [] OTHER -> IF HasDuplicate(log, Key(msg)) THEN "Spam" ELSE "Valid"

ClearsLog(log) == Len(log) >= MaxEpochGap

\* Faulty: removes only the epochs too far from the current one.
ClearFarEpochs(log) ==
  IF ClearsLog(log)
  THEN SelectSeq(log, LAMBDA entry : AbsDiff(currentEpoch, entry.epoch) <= MaxEpochGap)
  ELSE log

\* The first MaxEpochGap epochs of the table go, whatever their numbers.
ClearNullifierLog(log) ==
  IF ClearsLog(log) THEN SubSeq(log, MaxEpochGap + 1, Len(log)) ELSE log

Verdict(msg) == ValidateMessage(ClearNullifierLog(nullifierLog), msg)

\* Whether the message's key enters the log, whatever the verdict.
Recorded(msg) == msg.quality \notin {"undecodable", "noMetadata"}

Validator(msg) ==
  LET log == ClearNullifierLog(nullifierLog)
      kept == IF ClearsLog(nullifierLog) THEN {} ELSE recent
      valid == Verdict(msg) = "Valid"
  IN  /\ nullifierLog' = IF Recorded(msg) THEN UpdateLog(log, Key(msg)) ELSE log
      /\ seen' = IF Recorded(msg) THEN seen \cup {Key(msg)} ELSE seen
      /\ recent' = IF valid THEN kept \cup {Key(msg)} ELSE kept
      /\ UNCHANGED currentEpoch

EpochPasses ==
  /\ currentEpoch < MaxEpoch
  /\ currentEpoch' = currentEpoch + 1
  /\ UNCHANGED <<nullifierLog, seen, recent>>

Init ==
  /\ nullifierLog = <<>>
  /\ currentEpoch = 0
  /\ seen = {} /\ recent = {}

Next == EpochPasses \/ \E msg \in Messages : Validator(msg)

Spec == Init /\ [][Next]_vars

-----------------------------------------------------------------------------
(* Properties.                                                             *)

LogEntries == [epoch : Epochs, nullifiers : SUBSET Nullifiers]

Keys == Epochs \X Nullifiers

\* The shape of the state.
TypeOK ==
  /\ nullifierLog \in Seq(LogEntries)
  /\ currentEpoch \in Epochs
  /\ seen \subseteq Keys
  /\ recent \subseteq seen

\* The log stays bounded, and holds no epoch twice, in whatever order the
\* epochs of the messages come and however far from the clock they are: a
\* clearing leaves at most one epoch of a log one longer than MaxEpochGap.
LogBounded ==
  /\ Len(nullifierLog) <= MaxEpochGap + 1
  /\ \A i, j \in DOMAIN nullifierLog :
       nullifierLog[i].epoch = nullifierLog[j].epoch => i = j

\* The log is sound after every message, valid or not.
LogSound == TypeOK /\ LogBounded

\* Double messaging is caught between two clearings of the log: a second
\* message with the key of an accepted one is never Valid, unless the log is
\* cleared in between, by the second message's own call at the latest.
DuplicatesCaughtUntilCleared ==
  ~ClearsLog(nullifierLog) =>
    \A msg \in Messages : Verdict(msg) = "Valid" => Key(msg) \notin recent

\* A message is called Spam only when its key came before: the first message
\* in its slot never is.
SpamOnlyIfSeen ==
  \A msg \in Messages : Verdict(msg) = "Spam" => Key(msg) \in seen

\* What clearNullifierLog's comment says, "if more than MaxEpochGap epochs are
\* in the log": up to that length the log still knows every nullifier it
\* accepted a message for when the next message is checked.
RemembersUpToGap ==
  Len(nullifierLog) <= MaxEpochGap =>
    \A key \in recent : HasDuplicate(ClearNullifierLog(nullifierLog), key)
=============================================================================
