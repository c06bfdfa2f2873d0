--------------------------- MODULE RateLimitProofs ---------------------------
(***************************************************************************)
(* The three ways a node limits the rate of messages.                      *)
(*                                                                         *)
(* NonceManager, its own messages: for every epoch size, nonce limit and   *)
(* length of time, a nonce is handed out twice in an epoch only when the   *)
(* epoch was disturbed.  RlnRelay, those of others: for every set of       *)
(* nullifiers, every gap and every sequence of messages, the log stays     *)
(* bounded and catches duplicates between two clearings.  TokenBucket,     *)
(* requests: for every capacity and period, no stretch of a period's       *)
(* length sees as much as two full buckets granted, and nothing is refused *)
(* that the last period's grants leave room for.                           *)
(***************************************************************************)
EXTENDS NonceManager, RlnRelay, TokenBucket, InductionLemmas, SequenceTheorems

-----------------------------------------------------------------------------
(* The nonce manager.                                                      *)

(* Epochs.                                                                 *)

\* calcEpoch as the quotient of a Euclidean division.
LEMMA EpochBounds ==
  ASSUME NEW t \in Nat
  PROVE  /\ CalcEpoch(t) \in Nat
         /\ EpochSize * CalcEpoch(t) <= t
         /\ t < EpochSize * CalcEpoch(t) + EpochSize
BY SizesAssumption, Z3 DEF CalcEpoch

\* A later time is never in an earlier epoch.
LEMMA EpochMonotone ==
  ASSUME NEW s \in Nat, NEW t \in Nat, s <= t
  PROVE  CalcEpoch(s) <= CalcEpoch(t)
<1> DEFINE a == CalcEpoch(s)
           b == CalcEpoch(t)
<1>1. /\ a \in Nat /\ b \in Nat
      /\ EpochSize * a <= s /\ t < EpochSize * b + EpochSize
  BY EpochBounds
<1>2. SUFFICES ASSUME a > b PROVE FALSE
  BY <1>1
<1> HIDE DEF a, b
<1>3. a >= b + 1
  BY <1>1, <1>2
<1>4. EpochSize * a >= EpochSize * (b + 1)
  BY <1>1, <1>3, SizesAssumption, Z3
<1>5. EpochSize * (b + 1) = EpochSize * b + EpochSize
  BY <1>1, SizesAssumption, Z3
<1> QED
  BY <1>1, <1>4, <1>5, SizesAssumption

\* What getNonce's reset relies on: a time a whole EpochSize later is in a
\* later epoch.
LEMMA NextEpoch ==
  ASSUME NEW s \in Nat, NEW t \in Nat, t - s >= EpochSize
  PROVE  CalcEpoch(s) < CalcEpoch(t)
<1> DEFINE a == CalcEpoch(s)
           b == CalcEpoch(t)
<1>1. /\ a \in Nat /\ b \in Nat
      /\ EpochSize * a <= s /\ t < EpochSize * b + EpochSize
  BY EpochBounds
<1>2. SUFFICES ASSUME a >= b PROVE FALSE
  BY <1>1
<1> HIDE DEF a, b
<1>3. EpochSize * a >= EpochSize * b
  BY <1>1, <1>2, SizesAssumption, Z3
<1>4. EpochSize * a \in Nat /\ EpochSize * b \in Nat
  BY <1>1, SizesAssumption, Z3
<1> QED
  BY <1>1, <1>3, <1>4, SizesAssumption

-----------------------------------------------------------------------------
(* The inductive invariant.  It speaks of the pairs of undisturbed epochs. *)

\* The pairs of epochs that nothing disturbed.
Undisturbed == {pair \in fetched : pair[1] \notin disturbed}

\* No nonce was handed out for an epoch still to come.
NotAhead == \A pair \in Undisturbed : pair[1] <= CalcEpoch(now)

\* Once a reset is due, lastNonceTime's epoch is over, and no pair is of a
\* later one except of past epochs.
ResetIsSafe ==
  \A pair \in Undisturbed :
    pair[1] <= CalcEpoch(lastNonceTime) \/ pair[1] < CalcEpoch(now)

\* Until then, nextNonce is above every nonce of that epoch.
NextIsFresh ==
  lastNonceTime # 0 =>
    \A pair \in Undisturbed :
      pair[1] >= CalcEpoch(lastNonceTime) => pair[2] < nextNonce

\* After the clock was set back, the current epoch and the ones to come that
\* have pairs are all disturbed.
SetBackIsDisturbed ==
  lastNonceTime > now =>
    \A pair \in Undisturbed : pair[1] < CalcEpoch(now)

\* The inductive invariant of the nonce manager.
NonceInv ==
  /\ NonceTypeOK
  /\ RepeatsOnlyWhenDisturbed
  /\ NotAhead
  /\ ResetIsSafe
  /\ NextIsFresh
  /\ SetBackIsDisturbed

\* The bounds of the clock put every epoch in NonceEpochs.
LEMMA EpochInRange ==
  ASSUME NEW t \in 0..MaxTime
  PROVE  CalcEpoch(t) \in NonceEpochs /\ t \in Nat /\ CalcEpoch(t) \in Nat
<1>1. t \in Nat /\ MaxTime \in Nat /\ t <= MaxTime
  BY SizesAssumption
<1>2. CalcEpoch(t) <= CalcEpoch(MaxTime) /\ CalcEpoch(t) \in Nat /\ CalcEpoch(MaxTime) \in Nat
  BY <1>1, EpochMonotone, EpochBounds
<1> QED
  BY <1>1, <1>2 DEF NonceEpochs

\* The invariant holds when the node starts.
LEMMA NonceInitInv == NonceInit => NonceInv
<1> SUFFICES ASSUME NonceInit PROVE NonceInv
  OBVIOUS
<1>1. NonceTypeOK
  <2>1. 0 \in NonceEpochs
    <3>1. CalcEpoch(MaxTime) \in Nat
      BY EpochBounds, SizesAssumption
    <3> QED
      BY <3>1 DEF NonceEpochs
  <2>2. last \in [outcome : Outcomes, epoch : NonceEpochs]
    BY <2>1 DEF NonceInit, Outcomes
  <2> QED
    BY <2>2, SizesAssumption DEF NonceInit, NonceTypeOK
<1>2. Undisturbed = {} /\ repeated = {}
  BY DEF NonceInit, Undisturbed
<1> QED
  BY <1>1, <1>2 DEF NonceInv, RepeatsOnlyWhenDisturbed, NotAhead, ResetIsSafe,
                    NextIsFresh, SetBackIsDisturbed

\* A request keeps the invariant: the pair it adds, if its epoch is not
\* disturbed, is of the epoch of lastNonceTime' and is a new one.
LEMMA RequestKeepsNonceInv ==
  ASSUME NonceInv, NEW t \in now..MaxTime, AppendRLNProof(t)
  PROVE  NonceInv'
<1> DEFINE epoch == CalcEpoch(now)
           pair == <<epoch, RetNonce(t)>>
<1>1. /\ now \in Nat /\ t \in Nat /\ now <= t /\ t <= MaxTime
      /\ lastNonceTime \in Nat /\ nextNonce \in Nat /\ MaxTime \in Nat
      /\ EpochSize \in Nat \ {0} /\ NonceLimit \in Nat /\ EpochSize <= now
  BY SizesAssumption DEF NonceInv, NonceTypeOK
<1>2. /\ epoch \in NonceEpochs /\ CalcEpoch(t) \in NonceEpochs /\ epoch \in Nat
      /\ CalcEpoch(t) \in Nat /\ CalcEpoch(lastNonceTime) \in Nat
      /\ epoch <= CalcEpoch(t)
  <2>1. now \in 0..MaxTime /\ t \in 0..MaxTime
    BY <1>1
  <2> QED
    BY <1>1, <2>1, EpochInRange, EpochBounds, EpochMonotone
<1>3. RetNonce(t) \in Nat
  BY <1>1 DEF RetNonce
<1>4. /\ now' = t /\ lastNonceTime' = t /\ nextNonce' = RetNonce(t) + 1
  BY DEF AppendRLNProof, GetNonce
<1>5. /\ disturbed \subseteq disturbed'
      /\ disturbed' \subseteq NonceEpochs
      /\ CalcEpoch(t) # epoch => epoch \in disturbed'
  BY <1>2 DEF AppendRLNProof, NonceInv, NonceTypeOK
<1>6. Undisturbed \in SUBSET (Nat \X Nat)
  BY <1>1, EpochBounds DEF NonceInv, NonceTypeOK, Undisturbed, NonceEpochs
<1>7. \A q \in Undisturbed' : q \in Undisturbed \/ (q = pair /\ epoch = CalcEpoch(t))
  BY <1>5 DEF Undisturbed, AppendRLNProof
\* The heart of the matter: no undisturbed pair reaches the returned nonce in
\* the epoch of t.
<1>8. \A q \in Undisturbed : q[1] >= CalcEpoch(t) => q[2] < RetNonce(t)
  <2> SUFFICES ASSUME NEW q \in Undisturbed, q[1] >= CalcEpoch(t)
               PROVE  q[2] < RetNonce(t)
    OBVIOUS
  <2>1. q[1] \in Nat /\ q[2] \in Nat
    BY <1>6
  <2>2. q[1] >= epoch
    BY <2>1, <1>2
  <2>3. CASE t - lastNonceTime >= EpochSize
    <3>1. CalcEpoch(lastNonceTime) < CalcEpoch(t)
      BY <2>3, <1>1, NextEpoch
    <3>2. q[1] <= CalcEpoch(lastNonceTime) \/ q[1] < epoch
      BY DEF NonceInv, ResetIsSafe
    <3> QED
      BY <3>1, <3>2, <2>1, <2>2, <1>2
  <2>4. CASE ~(t - lastNonceTime >= EpochSize)
    <3>1. lastNonceTime # 0
      BY <2>4, <1>1
    <3>2. lastNonceTime <= now
      <4>1. lastNonceTime > now => q[1] < epoch
        BY DEF NonceInv, SetBackIsDisturbed
      <4> QED
        BY <4>1, <2>1, <2>2, <1>1, <1>2
    <3>3. CalcEpoch(lastNonceTime) <= CalcEpoch(t)
      <4>1. lastNonceTime <= t
        BY <3>2, <1>1
      <4> QED
        BY <4>1, <1>1, EpochMonotone
    <3>4. q[1] >= CalcEpoch(lastNonceTime)
      BY <3>3, <2>1, <1>2
    <3>5. q[2] < nextNonce
      BY <3>1, <3>4 DEF NonceInv, NextIsFresh
    <3> QED
      BY <3>5, <2>4 DEF RetNonce
  <2> QED
    BY <2>3, <2>4
<1>9. NonceTypeOK'
  <2>1. now' \in EpochSize..MaxTime /\ lastNonceTime' \in 0..MaxTime /\ nextNonce' \in Nat
    BY <1>1, <1>3, <1>4
  <2>2. last' \in [outcome : Outcomes, epoch : NonceEpochs]
    BY <1>2 DEF AppendRLNProof, Outcomes
  <2>3. fetched' \subseteq NonceEpochs \X (0..(NonceLimit - 1)) /\ repeated' \subseteq fetched'
    <3>1. CASE RetNonce(t) >= NonceLimit
      BY <3>1, <1>1, <1>3 DEF AppendRLNProof, LimitReached, NonceInv, NonceTypeOK
    <3>2. CASE RetNonce(t) < NonceLimit
      <4>1. pair \in NonceEpochs \X (0..(NonceLimit - 1))
        BY <3>2, <1>1, <1>2, <1>3
      <4>2. /\ fetched' = fetched \cup {pair}
            /\ repeated' \subseteq repeated \cup {pair}
        BY <3>2, <1>1, <1>3 DEF AppendRLNProof, LimitReached
      <4> QED
        BY <4>1, <4>2 DEF NonceInv, NonceTypeOK
    <3> QED
      BY <3>1, <3>2, <1>1, <1>3
  <2> QED
    BY <2>1, <2>2, <2>3, <1>5 DEF NonceTypeOK
<1>10. RepeatsOnlyWhenDisturbed'
  <2> SUFFICES ASSUME NEW q \in repeated', q[1] \notin disturbed' PROVE FALSE
    BY DEF RepeatsOnlyWhenDisturbed
  <2>1. q \in repeated \/ (q = pair /\ pair \in fetched)
    BY DEF AppendRLNProof
  <2>2. CASE q \in repeated
    BY <2>2, <1>5 DEF NonceInv, RepeatsOnlyWhenDisturbed
  <2>3. CASE q = pair /\ pair \in fetched
    <3>1. pair \in Undisturbed /\ epoch = CalcEpoch(t)
      BY <2>3, <1>5 DEF Undisturbed
    <3> QED
      BY <3>1, <1>8, <1>2, <1>3
  <2> QED
    BY <2>1, <2>2, <2>3
<1>11. NotAhead' /\ ResetIsSafe'
  <2> SUFFICES ASSUME NEW q \in Undisturbed'
               PROVE  q[1] <= CalcEpoch(t)
    BY <1>4 DEF NotAhead, ResetIsSafe, CalcEpoch
  <2>1. CASE q \in Undisturbed
    <3>1. q[1] <= epoch /\ q[1] \in Nat
      BY <2>1, <1>6 DEF NonceInv, NotAhead
    <3> QED
      BY <3>1, <1>2
  <2> QED
    BY <2>1, <1>7, <1>2
<1>12. NextIsFresh'
  <2> SUFFICES ASSUME NEW q \in Undisturbed', q[1] >= CalcEpoch(t)
               PROVE  q[2] < RetNonce(t) + 1
    BY <1>4 DEF NextIsFresh, CalcEpoch
  <2>1. CASE q \in Undisturbed
    BY <2>1, <1>8, <1>6, <1>3
  <2>2. CASE q = pair
    BY <2>2, <1>3
  <2> QED
    BY <2>1, <2>2, <1>7
<1>13. SetBackIsDisturbed'
  BY <1>4, <1>1 DEF SetBackIsDisturbed
<1> QED
  BY <1>9, <1>10, <1>11, <1>12, <1>13 DEF NonceInv

\* A restart keeps the invariant: its epoch is disturbed, so the pairs left
\* are of past epochs and the fresh manager may start again at 0.
LEMMA RestartKeepsNonceInv ==
  ASSUME NonceInv, Restart
  PROVE  NonceInv'
<1>1. now \in 0..MaxTime /\ now \in Nat /\ lastNonceTime' = 0 /\ now' = now
      /\ repeated' = repeated /\ fetched' = fetched
  BY SizesAssumption DEF NonceInv, NonceTypeOK, Restart
<1>2. CalcEpoch(now) \in NonceEpochs /\ CalcEpoch(now) \in Nat
  BY <1>1, EpochInRange
<1>3. NonceTypeOK'
  BY <1>2, <1>1, SizesAssumption DEF Restart, NonceInv, NonceTypeOK
<1>4. disturbed' = disturbed \cup {CalcEpoch(now)}
  BY DEF Restart
<1>5. \A q \in Undisturbed' : q \in Undisturbed /\ q[1] # CalcEpoch(now)
  BY <1>1, <1>4 DEF Undisturbed
<1>6. \A q \in Undisturbed' : q[1] <= CalcEpoch(now) /\ q[1] < CalcEpoch(now)
  <2> TAKE q \in Undisturbed'
  <2>1. q[1] \in Nat
    BY <1>5, EpochBounds, SizesAssumption DEF NonceInv, NonceTypeOK, Undisturbed, NonceEpochs
  <2>2. q[1] <= CalcEpoch(now)
    BY <1>5 DEF NonceInv, NotAhead
  <2> QED
    BY <2>1, <2>2, <1>5, <1>2
<1>7. RepeatsOnlyWhenDisturbed'
  BY <1>1, <1>4 DEF NonceInv, RepeatsOnlyWhenDisturbed
<1>8. NotAhead' /\ ResetIsSafe' /\ NextIsFresh' /\ SetBackIsDisturbed'
  BY <1>1, <1>6 DEF NotAhead, ResetIsSafe, NextIsFresh, SetBackIsDisturbed, CalcEpoch
<1> QED
  BY <1>3, <1>7, <1>8 DEF NonceInv

\* Setting the clock back keeps the invariant: the epochs between the new and
\* the old time are disturbed, so the pairs left are before the new time.
LEMMA SetBackKeepsNonceInv ==
  ASSUME NonceInv, NEW t \in EpochSize..(now - 1), ClockSetBack(t)
  PROVE  NonceInv'
<1>1. /\ now \in 0..MaxTime /\ now \in Nat /\ t \in 0..MaxTime /\ t \in Nat /\ t <= now
      /\ now' = t /\ lastNonceTime' = lastNonceTime /\ nextNonce' = nextNonce
      /\ repeated' = repeated /\ fetched' = fetched
  BY SizesAssumption DEF NonceInv, NonceTypeOK, ClockSetBack
<1>2. /\ CalcEpoch(now) \in NonceEpochs /\ CalcEpoch(t) \in NonceEpochs
      /\ CalcEpoch(now) \in Nat /\ CalcEpoch(t) \in Nat
  BY <1>1, EpochInRange
<1>3. disturbed' = disturbed \cup (CalcEpoch(t)..CalcEpoch(now))
  BY DEF ClockSetBack
<1>4. NonceTypeOK'
  <2>1. CalcEpoch(t)..CalcEpoch(now) \subseteq NonceEpochs
    BY <1>2, EpochBounds, SizesAssumption DEF NonceEpochs
  <2> QED
    BY <2>1, <1>1, <1>3, SizesAssumption DEF ClockSetBack, NonceInv, NonceTypeOK
<1>5. \A q \in Undisturbed' : q \in Undisturbed /\ q[1] \notin CalcEpoch(t)..CalcEpoch(now)
  BY <1>1, <1>3 DEF Undisturbed
<1>6. \A q \in Undisturbed' : q[1] <= CalcEpoch(t) /\ q[1] < CalcEpoch(t)
  <2> TAKE q \in Undisturbed'
  <2>1. q[1] \in Nat
    BY <1>5, EpochBounds, SizesAssumption DEF NonceInv, NonceTypeOK, Undisturbed, NonceEpochs
  <2>2. q[1] <= CalcEpoch(now)
    BY <1>5 DEF NonceInv, NotAhead
  <2> QED
    BY <2>1, <2>2, <1>5, <1>2
<1>7. RepeatsOnlyWhenDisturbed'
  BY <1>1, <1>3 DEF NonceInv, RepeatsOnlyWhenDisturbed
<1>8. NotAhead' /\ ResetIsSafe' /\ SetBackIsDisturbed'
  BY <1>1, <1>6 DEF NotAhead, ResetIsSafe, SetBackIsDisturbed, CalcEpoch
<1>9. NextIsFresh'
  BY <1>1, <1>5 DEF NonceInv, NextIsFresh, CalcEpoch
<1> QED
  BY <1>4, <1>7, <1>8, <1>9 DEF NonceInv

\* So does the passage of time.
LEMMA TickKeepsNonceInv ==
  ASSUME NonceInv, Tick
  PROVE  NonceInv'
<1>1. /\ now \in Nat /\ now' \in Nat /\ now <= now' /\ now' \in EpochSize..MaxTime
      /\ now' > now
      /\ lastNonceTime' = lastNonceTime /\ nextNonce' = nextNonce /\ last' = last
      /\ repeated' = repeated /\ fetched' = fetched /\ disturbed' = disturbed
  BY SizesAssumption DEF NonceInv, NonceTypeOK, Tick
<1>2. CalcEpoch(now) <= CalcEpoch(now') /\ CalcEpoch(now) \in Nat /\ CalcEpoch(now') \in Nat
  BY <1>1, EpochMonotone, EpochBounds
<1>3. Undisturbed' = Undisturbed
  BY <1>1 DEF Undisturbed
<1>4. \A q \in Undisturbed : q[1] \in Nat
  BY EpochBounds, SizesAssumption DEF NonceInv, NonceTypeOK, Undisturbed, NonceEpochs
<1>5. NonceTypeOK'
  BY <1>1 DEF NonceInv, NonceTypeOK
<1>6. RepeatsOnlyWhenDisturbed' /\ NextIsFresh'
  BY <1>1, <1>3 DEF NonceInv, RepeatsOnlyWhenDisturbed, NextIsFresh, CalcEpoch
<1>7. CalcEpoch(now)' = CalcEpoch(now') /\ CalcEpoch(lastNonceTime)' = CalcEpoch(lastNonceTime)
  BY <1>1 DEF CalcEpoch
<1>8. NotAhead'
  BY <1>2, <1>3, <1>4, <1>7 DEF NonceInv, NotAhead
<1>9. ResetIsSafe'
  BY <1>2, <1>3, <1>4, <1>7 DEF NonceInv, ResetIsSafe
<1>10. SetBackIsDisturbed'
  <2>1. lastNonceTime \in Nat
    BY SizesAssumption DEF NonceInv, NonceTypeOK
  <2> QED
    BY <2>1, <1>1, <1>2, <1>3, <1>4, <1>7 DEF NonceInv, SetBackIsDisturbed
<1> QED
  BY <1>5, <1>6, <1>8, <1>9, <1>10 DEF NonceInv

\* Every step of the specification keeps the invariant.
LEMMA NonceInvariance == NonceSpec => []NonceInv
<1>1. NonceInit => NonceInv
  BY NonceInitInv
<1>2. NonceInv /\ [NonceNext]_nonceVars => NonceInv'
  <2> SUFFICES ASSUME NonceInv, [NonceNext]_nonceVars PROVE NonceInv'
    OBVIOUS
  <2>1. ASSUME NEW t \in now..MaxTime, AppendRLNProof(t) PROVE NonceInv'
    BY <2>1, RequestKeepsNonceInv
  <2>2. CASE Restart
    BY <2>2, RestartKeepsNonceInv
  <2>3. ASSUME NEW t \in EpochSize..(now - 1), ClockSetBack(t) PROVE NonceInv'
    BY <2>3, SetBackKeepsNonceInv
  <2>4. CASE Tick
    BY <2>4, TickKeepsNonceInv
  <2>5. CASE UNCHANGED nonceVars
    BY <2>5 DEF nonceVars, NonceInv, NonceTypeOK, RepeatsOnlyWhenDisturbed, NotAhead, ResetIsSafe,
                NextIsFresh, SetBackIsDisturbed, Undisturbed, CalcEpoch
  <2> QED
    BY <2>1, <2>2, <2>3, <2>4, <2>5 DEF NonceNext
<1> QED
  BY <1>1, <1>2, PTL DEF NonceSpec

\* The state keeps its shape, and every nonce handed out is below the limit.
THEOREM NonceTypeCorrect == NonceSpec => []NonceTypeOK
<1>1. NonceInv => NonceTypeOK
  BY DEF NonceInv
<1> QED
  BY <1>1, NonceInvariance, PTL

\* getNonce hands out no nonce twice in an epoch that was not disturbed, for
\* every epoch size, limit and sequence of requests, restarts and clock steps.
THEOREM NonceUnique == NonceSpec => []RepeatsOnlyWhenDisturbed
<1>1. NonceInv => RepeatsOnlyWhenDisturbed
  BY DEF NonceInv
<1> QED
  BY <1>1, NonceInvariance, PTL

-----------------------------------------------------------------------------
(* The validator and its nullifier log.                                    *)

\* The log remembers every key accepted since it was cleared.
RecentLogged == \A key \in recent : HasDuplicate(nullifierLog, key)

\* The log holds no key that no message brought.
LoggedSeen ==
  \A key \in Keys : HasDuplicate(nullifierLog, key) => key \in seen

\* As the code clears it the log never exceeds MaxEpochGap, so a clearing
\* removes all of it.
LogWithinGap ==
  /\ Len(nullifierLog) <= MaxEpochGap
  /\ \A i, j \in DOMAIN nullifierLog :
       nullifierLog[i].epoch = nullifierLog[j].epoch => i = j

\* The inductive invariant of the log.
LogInv == TypeOK /\ LogWithinGap /\ RecentLogged /\ LoggedSeen

\* The key of a message is a key.
LEMMA KeyType ==
  ASSUME NEW msg \in Messages
  PROVE  /\ Key(msg) \in Keys /\ Key(msg)[1] \in Epochs /\ Key(msg)[2] \in Nullifiers
BY DEF Messages, Key, Keys

\* clearNullifierLog on a log within the bound: nothing is left of it when it
\* is cleared at all, and there is room for one more epoch.
LEMMA ClearedLog ==
  ASSUME TypeOK, LogWithinGap
  PROVE  LET log == ClearNullifierLog(nullifierLog)
         IN  /\ log \in Seq(LogEntries)
             /\ Len(log) < MaxEpochGap
             /\ ClearsLog(nullifierLog) => log = <<>>
             /\ ~ClearsLog(nullifierLog) => log = nullifierLog
<1>1. nullifierLog \in Seq(LogEntries) /\ Len(nullifierLog) \in Nat
  BY DEF TypeOK
<1>2. CASE ClearsLog(nullifierLog)
  <2>1. Len(nullifierLog) = MaxEpochGap
    BY <1>1, <1>2, GapAssumption DEF LogWithinGap, ClearsLog
  <2>2. SubSeq(nullifierLog, MaxEpochGap + 1, MaxEpochGap) = <<>>
    BY <1>1, GapAssumption
  <2>3. ClearNullifierLog(nullifierLog) = <<>>
    BY <2>1, <2>2, <1>2 DEF ClearNullifierLog
  <2>4. <<>> \in Seq(LogEntries) /\ Len(<<>>) = 0
    OBVIOUS
  <2> QED
    BY <2>3, <2>4, <1>2, GapAssumption
<1>3. CASE ~ClearsLog(nullifierLog)
  BY <1>1, <1>3, GapAssumption DEF ClearNullifierLog, ClearsLog
<1> QED
  BY <1>2, <1>3

\* What updateLog adds: exactly the key, and an epoch only when it is new.
LEMMA UpdatedLog ==
  ASSUME NEW log \in Seq(LogEntries), NEW key \in Keys,
         \A i, j \in DOMAIN log : log[i].epoch = log[j].epoch => i = j
  PROVE  LET new == UpdateLog(log, key)
         IN  /\ new \in Seq(LogEntries)
             /\ Len(new) <= Len(log) + 1
             /\ \A i, j \in DOMAIN new : new[i].epoch = new[j].epoch => i = j
             /\ \A k \in Keys : HasDuplicate(new, k) <=> (HasDuplicate(log, k) \/ k = key)
<1> DEFINE new == UpdateLog(log, key)
<1>1. key[1] \in Epochs /\ key[2] \in Nullifiers /\ key = <<key[1], key[2]>>
  BY DEF Keys
<1>2. Len(log) \in Nat /\ DOMAIN log = 1..Len(log)
  OBVIOUS
<1>3. \A i \in DOMAIN log : log[i] \in LogEntries
  OBVIOUS
<1>4. CASE \E i \in DOMAIN log : log[i].epoch = key[1]
  <2>1. new = [i \in DOMAIN log |->
                 IF log[i].epoch = key[1]
                 THEN [log[i] EXCEPT !.nullifiers = @ \cup {key[2]}]
                 ELSE log[i]]
    BY <1>4 DEF UpdateLog
  <2>2. DOMAIN new = DOMAIN log
    BY <2>1
  <2>3. \A i \in DOMAIN log :
          /\ new[i] \in LogEntries
          /\ new[i].epoch = log[i].epoch
          /\ new[i].nullifiers = IF log[i].epoch = key[1]
                                 THEN log[i].nullifiers \cup {key[2]}
                                 ELSE log[i].nullifiers
    BY <2>1, <1>1, <1>3 DEF LogEntries
  <2> HIDE DEF new
  <2>4. new \in Seq(LogEntries) /\ Len(new) = Len(log)
    <3>1. new \in [1..Len(log) -> LogEntries]
      <4>1. new = [i \in 1..Len(log) |-> new[i]]
        BY <2>1, <1>2 DEF new
      <4> QED
        BY <4>1, <2>3, <1>2
    <3>2. new \in Seq(LogEntries)
      BY <3>1, <1>2, SeqDef
    <3>3. Len(new) \in Nat /\ DOMAIN new = 1..Len(new)
      BY <3>2, LenProperties
    <3>4. 1..Len(new) = 1..Len(log)
      BY <3>3, <2>2, <1>2
    <3>5. \A m, n \in Nat : 1..m = 1..n => m = n
      <4> SUFFICES ASSUME NEW m \in Nat, NEW n \in Nat, 1..m = 1..n, m < n PROVE FALSE
        BY SMT
      <4>1. n \in 1..n /\ n \notin 1..m
        BY SMT
      <4> QED
        BY <4>1
    <3> QED
      BY <3>2, <3>3, <3>4, <3>5, <1>2
  <2>5. \A i, j \in DOMAIN new : new[i].epoch = new[j].epoch => i = j
    BY <2>2, <2>3
  <2>6. ASSUME NEW k \in Keys
        PROVE  HasDuplicate(new, k) <=> (HasDuplicate(log, k) \/ k = key)
    <3>1. k = <<k[1], k[2]>>
      BY DEF Keys
    <3>2. (k = key) <=> (k[1] = key[1] /\ k[2] = key[2])
      BY <3>1, <1>1
    <3>3. PICK i \in DOMAIN log : log[i].epoch = key[1]
      BY <1>4
    <3>4. HasDuplicate(new, k) => HasDuplicate(log, k) \/ k = key
      <4> SUFFICES ASSUME HasDuplicate(new, k), k # key PROVE HasDuplicate(log, k)
        OBVIOUS
      <4>1. PICK j \in DOMAIN log : new[j].epoch = k[1] /\ k[2] \in new[j].nullifiers
        BY <2>2 DEF HasDuplicate
      <4>2. log[j].epoch = k[1]
        BY <4>1, <2>3
      <4>3. k[2] \in log[j].nullifiers
        <5>1. CASE log[j].epoch = key[1]
          <6>1. k[2] \in log[j].nullifiers \cup {key[2]}
            BY <5>1, <4>1, <2>3
          <6> QED
            BY <6>1, <5>1, <4>2, <3>2
        <5>2. CASE log[j].epoch # key[1]
          BY <5>2, <4>1, <2>3
        <5> QED
          BY <5>1, <5>2
      <4> QED
        BY <4>2, <4>3 DEF HasDuplicate
    <3>5. HasDuplicate(log, k) => HasDuplicate(new, k)
      BY <2>2, <2>3 DEF HasDuplicate
    <3>6. k = key => HasDuplicate(new, k)
      <4>1. new[i].epoch = key[1] /\ key[2] \in new[i].nullifiers /\ i \in DOMAIN new
        BY <2>2, <2>3, <3>3
      <4> QED
        BY <4>1 DEF HasDuplicate
    <3> QED
      BY <3>4, <3>5, <3>6
  <2> QED
    BY <2>4, <2>5, <2>6, <1>2 DEF new
<1>5. CASE \A i \in DOMAIN log : log[i].epoch # key[1]
  <2> DEFINE entry == [epoch |-> key[1], nullifiers |-> {key[2]}]
  <2>1. new = Append(log, entry) /\ entry \in LogEntries
    BY <1>1, <1>5 DEF UpdateLog, LogEntries
  <2>2. entry.epoch = key[1] /\ entry.nullifiers = {key[2]}
    OBVIOUS
  <2> HIDE DEF new, entry
  <2>3. /\ new \in Seq(LogEntries) /\ Len(new) = Len(log) + 1
        /\ DOMAIN new = 1..(Len(log) + 1)
        /\ \A i \in DOMAIN log : new[i] = log[i]
        /\ new[Len(log) + 1] = entry
    BY <2>1, <1>2
  <2>4. \A i \in DOMAIN new : i \in DOMAIN log \/ i = Len(log) + 1
    BY <2>3, <1>2
  <2>5. DOMAIN log \subseteq DOMAIN new /\ Len(log) + 1 \in DOMAIN new
    BY <2>3, <1>2
  <2>6. \A i, j \in DOMAIN new : new[i].epoch = new[j].epoch => i = j
    BY <2>2, <2>3, <2>4, <1>5
  <2>7. ASSUME NEW k \in Keys
        PROVE  HasDuplicate(new, k) <=> (HasDuplicate(log, k) \/ k = key)
    <3>1. k = <<k[1], k[2]>>
      BY DEF Keys
    <3>2. (k = key) <=> (k[1] = key[1] /\ k[2] = key[2])
      BY <3>1, <1>1
    <3>3. HasDuplicate(new, k) => HasDuplicate(log, k) \/ k = key
      BY <2>2, <2>3, <2>4, <3>2 DEF HasDuplicate
    <3>4. HasDuplicate(log, k) => HasDuplicate(new, k)
      BY <2>3, <2>5 DEF HasDuplicate
    <3>5. k = key => HasDuplicate(new, k)
      BY <2>2, <2>3, <2>5 DEF HasDuplicate
    <3> QED
      BY <3>3, <3>4, <3>5
  <2> QED
    BY <2>3, <2>6, <2>7, <1>2 DEF new
<1> QED
  BY <1>4, <1>5

\* An empty log has no key.
LEMMA EmptyLog ==
  ASSUME NEW key
  PROVE  ~HasDuplicate(<<>>, key)
BY DEF HasDuplicate

\* The invariant holds when the node starts.
LEMMA LogInitInv == Init => LogInv
<1> SUFFICES ASSUME Init PROVE LogInv
  OBVIOUS
<1>1. nullifierLog = <<>> /\ currentEpoch = 0 /\ seen = {} /\ recent = {}
  BY DEF Init
<1>2. TypeOK
  BY <1>1, GapAssumption DEF TypeOK, Epochs
<1>3. LogWithinGap
  BY <1>1, GapAssumption DEF LogWithinGap
<1>4. RecentLogged /\ LoggedSeen
  BY <1>1, EmptyLog DEF RecentLogged, LoggedSeen
<1> QED
  BY <1>2, <1>3, <1>4 DEF LogInv

\* A call of the validator keeps the invariant.
LEMMA ValidatorKeepsLogInv ==
  ASSUME LogInv, NEW msg \in Messages, Validator(msg)
  PROVE  LogInv'
<1> DEFINE log == ClearNullifierLog(nullifierLog)
           kept == IF ClearsLog(nullifierLog) THEN {} ELSE recent
<1>1. Key(msg) \in Keys
  BY KeyType
<1>2. /\ log \in Seq(LogEntries) /\ Len(log) < MaxEpochGap
      /\ ClearsLog(nullifierLog) => log = <<>>
      /\ ~ClearsLog(nullifierLog) => log = nullifierLog
  BY ClearedLog DEF LogInv
<1>3. \A i, j \in DOMAIN log : log[i].epoch = log[j].epoch => i = j
  BY <1>2 DEF LogInv, LogWithinGap
<1>4. \A key \in kept : HasDuplicate(log, key)
  BY <1>2 DEF LogInv, RecentLogged
<1>5. \A key \in Keys : HasDuplicate(log, key) => key \in seen
  BY <1>2, EmptyLog DEF LogInv, LoggedSeen
<1>6. kept \subseteq recent /\ recent \subseteq seen
      /\ seen \subseteq Keys /\ currentEpoch \in Epochs
  BY DEF LogInv, TypeOK
<1>7. /\ nullifierLog' = IF Recorded(msg) THEN UpdateLog(log, Key(msg)) ELSE log
      /\ seen' = IF Recorded(msg) THEN seen \cup {Key(msg)} ELSE seen
      /\ recent' = IF Verdict(msg) = "Valid" THEN kept \cup {Key(msg)} ELSE kept
      /\ currentEpoch' = currentEpoch
  BY DEF Validator
<1>8. Verdict(msg) = "Valid" => Recorded(msg)
  BY DEF Verdict, ValidateMessage, Recorded
<1> HIDE DEF log, kept
<1>9. CASE Recorded(msg)
  <2>1. /\ nullifierLog' \in Seq(LogEntries)
        /\ Len(nullifierLog') <= Len(log) + 1
        /\ \A i, j \in DOMAIN nullifierLog' :
             nullifierLog'[i].epoch = nullifierLog'[j].epoch => i = j
        /\ \A k \in Keys :
             HasDuplicate(nullifierLog', k) <=> (HasDuplicate(log, k) \/ k = Key(msg))
    BY <1>1, <1>2, <1>3, <1>7, <1>9, UpdatedLog
  <2>2. TypeOK'
    BY <2>1, <1>1, <1>6, <1>7, <1>9 DEF TypeOK
  <2>3. LogWithinGap'
    <3>1. Len(nullifierLog') \in Nat /\ Len(log) \in Nat
      BY <2>1, <1>2
    <3>2. Len(nullifierLog') <= MaxEpochGap
      BY <3>1, <2>1, <1>2, GapAssumption
    <3> QED
      BY <3>2, <2>1 DEF LogWithinGap
  <2>4. RecentLogged'
    <3>1. \A key \in recent' : key \in kept \/ key = Key(msg)
      BY <1>7
    <3>2. \A key \in recent' : key \in Keys /\ HasDuplicate(nullifierLog', key)
      BY <3>1, <2>1, <1>1, <1>4, <1>6
    <3> QED
      BY <3>2 DEF RecentLogged, HasDuplicate
  <2>5. LoggedSeen'
    <3>1. \A key \in Keys : HasDuplicate(nullifierLog', key) => key \in seen'
      BY <2>1, <1>5, <1>7, <1>9
    <3> QED
      BY <3>1 DEF LoggedSeen, HasDuplicate
  <2> QED
    BY <2>2, <2>3, <2>4, <2>5 DEF LogInv
<1>10. CASE ~Recorded(msg)
  <2>1. nullifierLog' = log /\ seen' = seen /\ recent' = kept
    BY <1>7, <1>8, <1>10
  <2>2. TypeOK'
    BY <2>1, <1>2, <1>6, <1>7 DEF TypeOK
  <2>3. LogWithinGap'
    <3>1. Len(log) \in Nat
      BY <1>2
    <3> QED
      BY <3>1, <2>1, <1>2, <1>3, GapAssumption DEF LogWithinGap
  <2>4. RecentLogged' /\ LoggedSeen'
    BY <2>1, <1>4, <1>5 DEF RecentLogged, LoggedSeen, HasDuplicate
  <2> QED
    BY <2>2, <2>3, <2>4 DEF LogInv
<1> QED
  BY <1>9, <1>10

\* Every step of the specification keeps the invariant.
LEMMA LogInvariance == Spec => []LogInv
<1>1. Init => LogInv
  BY LogInitInv
<1>2. LogInv /\ [Next]_vars => LogInv'
  <2> SUFFICES ASSUME LogInv, [Next]_vars PROVE LogInv'
    OBVIOUS
  <2>1. CASE EpochPasses
    BY <2>1, GapAssumption
       DEF EpochPasses, LogInv, TypeOK, Epochs, LogWithinGap, RecentLogged, LoggedSeen, HasDuplicate
  <2>2. ASSUME NEW msg \in Messages, Validator(msg) PROVE LogInv'
    BY <2>2, ValidatorKeepsLogInv
  <2>3. CASE UNCHANGED vars
    BY <2>3 DEF vars, LogInv, TypeOK, LogWithinGap, RecentLogged, LoggedSeen, HasDuplicate
  <2> QED
    BY <2>1, <2>2, <2>3 DEF Next
<1> QED
  BY <1>1, <1>2, PTL DEF Spec

\* The nullifier log stays bounded and holds an epoch at most once, for every
\* gap and every sequence of messages: the memory clearNullifierLog is there
\* to bound.
THEOREM LogStaysBounded == Spec => []LogSound
<1>1. LogInv => LogSound
  BY GapAssumption DEF LogInv, LogSound, LogWithinGap, LogBounded, TypeOK
<1> QED
  BY <1>1, LogInvariance, PTL

\* Until the log is cleared no second message with an accepted key is Valid.
THEOREM DuplicatesCaught == Spec => []DuplicatesCaughtUntilCleared
<1>1. LogInv => DuplicatesCaughtUntilCleared
  <2> SUFFICES ASSUME LogInv, ~ClearsLog(nullifierLog), NEW msg \in Messages,
                      Verdict(msg) = "Valid", Key(msg) \in recent
               PROVE  FALSE
    BY DEF DuplicatesCaughtUntilCleared
  <2>1. ClearNullifierLog(nullifierLog) = nullifierLog
    BY DEF ClearNullifierLog
  <2>2. HasDuplicate(nullifierLog, Key(msg))
    BY DEF LogInv, RecentLogged
  <2> QED
    BY <2>1, <2>2 DEF Verdict, ValidateMessage
<1> QED
  BY <1>1, LogInvariance, PTL

\* The first message in a slot is never called Spam.
THEOREM FirstIsNotSpam == Spec => []SpamOnlyIfSeen
<1>1. LogInv => SpamOnlyIfSeen
  <2> SUFFICES ASSUME LogInv, NEW msg \in Messages, Verdict(msg) = "Spam"
               PROVE  Key(msg) \in seen
    BY DEF SpamOnlyIfSeen
  <2>1. HasDuplicate(ClearNullifierLog(nullifierLog), Key(msg))
    BY DEF Verdict, ValidateMessage
  <2>2. ClearNullifierLog(nullifierLog) = nullifierLog
    BY <2>1, ClearedLog, EmptyLog DEF LogInv
  <2> QED
    BY <2>1, <2>2, KeyType DEF LogInv, LoggedSeen
<1> QED
  BY <1>1, LogInvariance, PTL

-----------------------------------------------------------------------------
(* The token bucket.                                                       *)

\* The times from u on.
From(u) == {v \in Times : u <= v}

\* What the period that began last has taken out of a full bucket.
Spent == BudgetCap - budget

\* Nothing was granted in the future.
NothingAhead == \A v \in Times : v > moment => granted[v] = 0

\* A period begins no sooner than FillDuration after the one before it, and
\* with a grant unless the bucket is full: what was granted since less than a
\* period before it began is less than a full bucket beside what it spent,
\* and what was granted after it began is less than what it spent.
PeriodsApart ==
  replenished = 0 =>
    \A u \in Int :
      /\ u > lastTimeFull - FillDuration => Granted(From(u)) < Spent + BudgetCap
      /\ u > lastTimeFull => Granted(From(u)) < Spent \/ Granted(From(u)) = 0

\* What the last period spent was granted since it began.
SpentIsGranted == Granted(From(lastTimeFull)) >= Spent

\* The shape of the state, with how far above the capacity replenish takes
\* the budget.
BucketShape ==
  /\ budget \in 0..(BudgetCap + replenished)
  /\ lastTimeFull \in 0..moment
  /\ moment \in Times
  /\ replenished \in 0..MaxReplenished
  /\ granted \in [Times -> Nat]

\* The inductive invariant of the bucket.
BucketInv == BucketShape /\ NothingAhead /\ PeriodsApart /\ SpentIsGranted /\ BurstBounded

\* f where it counts, 0 elsewhere.
Within(f, S) == [t \in Times |-> IF t \in S THEN f[t] ELSE 0]

\* The times are finitely many, and the constants numbers.
LEMMA BucketNumbers ==
  /\ IsFiniteSet(Times) /\ MaxMoment \in Nat
  /\ BudgetCap \in Nat \ {0} /\ FillDuration \in Nat \ {0}
  /\ MaxTokens \in Nat \ {0} /\ MaxReplenished \in Nat
<1>1. IsFiniteSet(0..MaxMoment)
  BY BucketAssumption, FS_Interval
<1> QED  BY <1>1, BucketAssumption DEF Times

\* f with k more at m.
Plus(f, m, k) == [f EXCEPT ![m] = @ + k]

\* A grant at time m counts in every set with m in it, and in no other.
LEMMA OneGrant ==
  ASSUME NEW f \in [Times -> Nat], NEW m \in Times, NEW k \in Nat, NEW S
  PROVE  /\ SumFunction(Within(f, S)) \in Nat
         /\ SumFunction(Within(Plus(f, m, k), S)) \in Nat
         /\ m \in S => SumFunction(Within(Plus(f, m, k), S))
                         = SumFunction(Within(f, S)) + k
         /\ m \notin S => SumFunction(Within(Plus(f, m, k), S))
                            = SumFunction(Within(f, S))
<1> DEFINE a == Within(f, S)
           b == Within(Plus(f, m, k), S)
<1>1. /\ a \in [Times -> Nat] /\ b \in [Times -> Nat] /\ \A x \in Times : x # m => b[x] = a[x]
      /\ m \in S => b[m] = a[m] + k
      /\ m \notin S => b[m] = a[m]
      /\ a[m] \in Nat /\ b[m] \in Nat
  BY DEF Within, Plus
<1> HIDE DEF a, b
<1>2. DiffersOnlyAt(b, a, m, Times)
  BY <1>1 DEF DiffersOnlyAt
<1>3. /\ SumFunction(a) \in Nat /\ SumFunction(b) \in Nat
      /\ SumFunction(b) + a[m] = SumFunction(a) + b[m]
  BY <1>1, <1>2, BucketNumbers, SumChanges
<1>4. (m \in S => SumFunction(b) = SumFunction(a) + k) /\ (m \notin S => SumFunction(b) = SumFunction(a))
  BY <1>1, <1>3
<1> QED  BY <1>3, <1>4 DEF a, b

\* Of two sets of times, the one with all that was granted in the other has
\* no less.
LEMMA MoreTimes ==
  ASSUME NEW f \in [Times -> Nat], NEW S, NEW R,
         \A v \in Times : v \in S => v \in R \/ f[v] = 0
  PROVE  /\ SumFunction(Within(f, S)) \in Nat /\ SumFunction(Within(f, R)) \in Nat
         /\ SumFunction(Within(f, S)) <= SumFunction(Within(f, R))
<1> DEFINE a == Within(f, S)
           b == Within(f, R)
<1>1. a \in [Times -> Nat] /\ b \in [Times -> Nat] /\ \A x \in Times : a[x] <= b[x]
  BY DEF Within
<1> HIDE DEF a, b
<1> QED  BY <1>1, BucketNumbers, SumMonotone DEF a, b

\* Where nothing was granted the tokens granted are none.
LEMMA NoGrants ==
  ASSUME NEW f \in [Times -> Nat], NEW S, \A v \in Times : v \in S => f[v] = 0
  PROVE  SumFunction(Within(f, S)) = 0
<1> DEFINE a == Within(f, S)
<1>1. a \in [Times -> Nat] /\ \A x \in Times : a[x] = 0
  BY DEF Within
<1> HIDE DEF a
<1> QED  BY <1>1, BucketNumbers, SumOfZeros DEF a

\* Granted in the terms of these lemmas.
LEMMA GrantedSum ==
  \A S : Granted(S) = SumFunction(Within(granted, S))
BY DEF Granted, Within

\* The numbers of the state.
LEMMA BucketFacts ==
  ASSUME BucketShape
  PROVE  /\ budget \in Nat /\ lastTimeFull \in Nat /\ moment \in Nat /\ replenished \in Nat
         /\ lastTimeFull <= moment /\ moment \in Times /\ granted \in [Times -> Nat]
         /\ budget <= BudgetCap + replenished
         /\ replenished = 0 => Spent \in 0..BudgetCap
         /\ Spent \in Int
BY BucketNumbers DEF BucketShape, Times, Spent

\* What tryConsume looks at is a bucket that is full since now, after a
\* period, or the bucket as it was.
LEMMA OfferedFacts ==
  ASSUME BucketShape, NEW tokens \in Nat
  PROVE  LET b == Offered(Bucket, tokens, moment)
         IN  \/ /\ b = [budget |-> BudgetCap, full |-> moment]
                /\ budget = BudgetCap \/ moment - lastTimeFull >= FillDuration
             \/ /\ b = [budget |-> budget, full |-> lastTimeFull]
                /\ budget # BudgetCap
                /\ budget < tokens => moment - lastTimeFull < FillDuration
<1>0. /\ budget \in Nat /\ lastTimeFull \in Nat /\ moment \in Nat /\ BudgetCap \in Nat
      /\ FillDuration \in Nat \ {0}
  BY BucketFacts, BucketNumbers
<1> DEFINE x == [budget |-> budget, full |-> lastTimeFull]
           y == [budget |-> BudgetCap, full |-> moment]
<1>1. x.budget = budget /\ x.full = lastTimeFull /\ y.budget = BudgetCap /\ y.full = moment
      /\ (budget = BudgetCap => [x EXCEPT !.full = moment] = y)
  OBVIOUS
<1> HIDE DEF x, y
<1>2. Bucket = x
  BY DEF Bucket, x
<1>3. Touched(Bucket, moment) = IF budget = BudgetCap THEN y ELSE x
  BY <1>1, <1>2 DEF Touched
<1>4. /\ Update(y, moment) = y
      /\ Update(x, moment) = IF moment - lastTimeFull < FillDuration THEN x ELSE y
  BY <1>0, <1>1 DEF Update, y
<1>5. Offered(Bucket, tokens, moment) =
        IF Touched(Bucket, moment).budget >= tokens THEN Touched(Bucket, moment)
        ELSE Update(Touched(Bucket, moment), moment)
  BY DEF Offered
<1>6. CASE budget = BudgetCap
  <2>1. Touched(Bucket, moment) = y
    BY <1>3, <1>6
  <2>2. Offered(Bucket, tokens, moment) = y
    BY <1>4, <1>5, <2>1
  <2> QED  BY <1>6, <2>2 DEF y
<1>7. CASE budget # BudgetCap
  <2>1. Touched(Bucket, moment) = x
    BY <1>3, <1>7
  <2>2. Offered(Bucket, tokens, moment)
          = IF budget >= tokens \/ moment - lastTimeFull < FillDuration THEN x ELSE y
    BY <1>0, <1>1, <1>4, <1>5, <2>1
  <2>3. CASE budget >= tokens \/ moment - lastTimeFull < FillDuration
    <3>1. Offered(Bucket, tokens, moment) = x
      BY <2>2, <2>3
    <3> QED  BY <1>0, <1>7, <2>3, <3>1 DEF x
  <2>4. CASE ~(budget >= tokens \/ moment - lastTimeFull < FillDuration)
    <3>1. Offered(Bucket, tokens, moment) = y
      BY <2>2, <2>4
    <3>2. moment - lastTimeFull >= FillDuration
      BY <1>0, <2>4
    <3> QED  BY <3>1, <3>2 DEF y
  <2> QED  BY <2>3, <2>4
<1> QED  BY <1>6, <1>7

\* A bucket that is full since now leaves room: in less than a period before
\* now, less than its capacity was granted.
LEMMA FreshRoom ==
  ASSUME BucketInv, replenished = 0,
         budget = BudgetCap \/ moment - lastTimeFull >= FillDuration,
         NEW u \in Int, u > moment - FillDuration
  PROVE  Granted(From(u)) < BudgetCap
<1>1. /\ lastTimeFull \in Nat /\ moment \in Nat /\ lastTimeFull <= moment
      /\ Spent \in 0..BudgetCap /\ BudgetCap \in Nat \ {0} /\ FillDuration \in Nat \ {0}
  BY BucketFacts, BucketNumbers DEF BucketInv
<1>2. Granted(From(u)) \in Nat
  <2>1. granted \in [Times -> Nat]
    BY BucketFacts DEF BucketInv
  <2>2. SumFunction(Within(granted, From(u))) \in Nat
    BY <2>1, MoreTimes
  <2> QED  BY <2>2, GrantedSum
<1>3. /\ u > lastTimeFull - FillDuration => Granted(From(u)) < Spent + BudgetCap
      /\ u > lastTimeFull => Granted(From(u)) < Spent \/ Granted(From(u)) = 0
  BY DEF BucketInv, PeriodsApart
<1>4. CASE budget = BudgetCap
  <2>1. Spent = 0
    BY <1>1, <1>4 DEF Spent
  <2>2. u > lastTimeFull - FillDuration
    BY <1>1
  <2> QED  BY <1>1, <1>2, <1>3, <2>1, <2>2
<1>5. CASE moment - lastTimeFull >= FillDuration
  <2>1. u > lastTimeFull
    BY <1>1, <1>5
  <2> QED  BY <1>1, <1>2, <1>3, <2>1
<1> QED  BY <1>4, <1>5

\* Stretches of time that are over.
EarlierBounded ==
  replenished = 0 => \A t \in Times : t < moment => Granted(LastPeriod(t)) < 2 * BudgetCap

\* From the distance of periods, no stretch as long as one is too rich: one
\* that ends before now is as it was, one that ends later began less than a
\* period before the last one did.
LEMMA BurstFromPeriods ==
  ASSUME BucketShape', PeriodsApart', EarlierBounded'
  PROVE  BurstBounded'
<1> SUFFICES ASSUME replenished' = 0, NEW t \in Times, t >= moment'
             PROVE  Granted(LastPeriod(t))' < 2 * BudgetCap
  BY BucketNumbers DEF EarlierBounded, BurstBounded, BucketShape, Times
<1>1. /\ lastTimeFull' \in Nat /\ moment' \in Nat /\ lastTimeFull' <= moment'
      /\ budget' \in Nat /\ BudgetCap \in Nat \ {0} /\ FillDuration \in Nat \ {0}
      /\ t \in Nat
  BY BucketNumbers DEF BucketShape, Times
<1>0. granted' \in [Times -> Nat]
  BY DEF BucketShape
<1> DEFINE u == t - FillDuration + 1
<1>2. u \in Int /\ u > lastTimeFull' - FillDuration
  <2>1. PICK l \in Nat, m \in Nat : l = lastTimeFull' /\ m = moment'
    BY <1>1
  <2>2. l <= m /\ m <= t
    BY <1>1, <2>1
  <2>3. u > l - FillDuration
    BY <1>1, <2>2
  <2>4. u \in Int
    BY <1>1
  <2> HIDE DEF u
  <2> QED  BY <2>1, <2>3, <2>4, Zenon
<1>3. Granted(From(u))' < BudgetCap - budget' + BudgetCap
  <2> HIDE DEF u
  <2> QED  BY <1>2 DEF PeriodsApart, Spent
<1>4. \A v \in Times : v \in LastPeriod(t) => v \in From(u)
  BY <1>1 DEF LastPeriod, From, Times
<1> HIDE DEF u
<1>5. /\ SumFunction(Within(granted', LastPeriod(t))) \in Nat
      /\ SumFunction(Within(granted', From(u))) \in Nat
      /\ SumFunction(Within(granted', LastPeriod(t))) <= SumFunction(Within(granted', From(u)))
  BY <1>0, <1>4, MoreTimes
<1>6. /\ Granted(LastPeriod(t))' = SumFunction(Within(granted', LastPeriod(t)))
      /\ Granted(From(u))' = SumFunction(Within(granted', From(u)))
  BY DEF Granted, Within, LastPeriod, From
<1> QED  BY <1>1, <1>3, <1>5, <1>6

\* tryConsume.
LEMMA TryConsumeKeeps ==
  ASSUME BucketInv, NEW tokens \in 1..MaxTokens, TryConsume(tokens)
  PROVE  BucketInv'
<1>0. /\ tokens \in Nat \ {0} /\ BudgetCap \in Nat \ {0} /\ FillDuration \in Nat \ {0}
  BY BucketNumbers
<1>1. /\ BucketShape /\ budget \in Nat /\ lastTimeFull \in Nat /\ moment \in Nat
      /\ replenished \in Nat
      /\ lastTimeFull <= moment /\ moment \in Times /\ granted \in [Times -> Nat]
      /\ budget <= BudgetCap + replenished
  BY BucketFacts DEF BucketInv
<1> DEFINE b == Offered(Bucket, tokens, moment)
           fresh == b.budget = BudgetCap /\ b.full = moment
                      /\ (budget = BudgetCap \/ moment - lastTimeFull >= FillDuration)
           same == b.budget = budget /\ b.full = lastTimeFull /\ budget # BudgetCap
<1>2. fresh \/ same
  <2>1. \/ /\ b = [budget |-> BudgetCap, full |-> moment]
           /\ budget = BudgetCap \/ moment - lastTimeFull >= FillDuration
        \/ /\ b = [budget |-> budget, full |-> lastTimeFull]
           /\ budget # BudgetCap
    BY <1>0, <1>1, OfferedFacts
  <2> HIDE DEF b
  <2> QED  BY <2>1
<1>3. /\ budget' = IF b.budget >= tokens THEN b.budget - tokens ELSE b.budget
      /\ lastTimeFull' = b.full
      /\ granted' = IF b.budget >= tokens THEN [granted EXCEPT ![moment] = @ + tokens] ELSE granted
      /\ moment' = moment /\ replenished' = replenished
  BY DEF TryConsume
<1> HIDE DEF b
<1>4. b.budget \in Nat /\ b.full \in Nat /\ b.full <= moment /\ b.budget <= BudgetCap + replenished
  BY <1>0, <1>1, <1>2
<1> DEFINE k == IF b.budget >= tokens THEN tokens ELSE 0
<1>5. /\ k \in Nat /\ k <= b.budget /\ (k = 0 \/ k = tokens)
      /\ budget' = b.budget - k
      /\ granted' = Plus(granted, moment, k)
  <2>1. CASE b.budget >= tokens
    BY <1>0, <1>3, <1>4, <2>1 DEF Plus
  <2>2. CASE ~(b.budget >= tokens)
    <3>1. granted = Plus(granted, moment, 0)
      BY <1>1 DEF Plus
    <3> QED  BY <1>0, <1>3, <1>4, <2>2, <3>1
  <2> QED  BY <2>1, <2>2
<1>6. k \in Nat /\ k <= b.budget
  BY <1>0, <1>4
<1> HIDE DEF k
<1>7. granted' \in [Times -> Nat] /\ \A v \in Times : v # moment => granted'[v] = granted[v]
  BY <1>1, <1>5, <1>6 DEF Plus
<1>8. BucketShape'
  <2>1. budget' \in 0..(BudgetCap + replenished')
    BY <1>0, <1>1, <1>3, <1>4, <1>5, <1>6
  <2>2. lastTimeFull' \in 0..moment'
    BY <1>1, <1>3, <1>4
  <2> QED  BY <1>1, <1>3, <1>7, <2>1, <2>2 DEF BucketShape
<1>9. NothingAhead'
  BY <1>1, <1>3, <1>7 DEF BucketInv, NothingAhead, Times
<1>10. ASSUME NEW S
       PROVE  /\ Granted(S) \in Nat
              /\ Granted(S)' = SumFunction(Within(granted', S))
              /\ SumFunction(Within(granted', S)) = Granted(S) + (IF moment \in S THEN k ELSE 0)
  <2>1. /\ SumFunction(Within(granted, S)) \in Nat
        /\ moment \in S => SumFunction(Within(Plus(granted, moment, k), S))
                             = SumFunction(Within(granted, S)) + k
        /\ moment \notin S => SumFunction(Within(Plus(granted, moment, k), S))
                                = SumFunction(Within(granted, S))
    <3>1. granted \in [Times -> Nat] /\ moment \in Times /\ k \in Nat
      BY <1>1, <1>6
    <3> QED  BY <3>1, OneGrant
  <2>2. Granted(S)' = SumFunction(Within(granted', S))
    BY DEF Granted, Within
  <2>3. Granted(S) = SumFunction(Within(granted, S))
    BY GrantedSum
  <2>4. granted' = Plus(granted, moment, k)
    BY <1>5
  <2>5. CASE moment \in S
    <3>1. SumFunction(Within(granted', S)) = Granted(S) + k
      BY <2>1, <2>3, <2>4, <2>5
    <3> QED  BY <2>1, <2>2, <2>3, <2>5, <3>1
  <2>6. CASE moment \notin S
    <3>1. SumFunction(Within(granted', S)) = Granted(S)
      BY <2>1, <2>3, <2>4, <2>6
    <3> QED  BY <2>1, <2>2, <2>3, <2>6, <3>1
  <2> QED  BY <2>5, <2>6
<1>11. ASSUME NEW u \in Int
       PROVE  /\ Granted(From(u)) \in Nat
              /\ Granted(From(u))' = Granted(From(u)) + (IF u <= moment THEN k ELSE 0)
              /\ u > moment => Granted(From(u))' = 0
  <2> DEFINE S == From(u)
  <2>1. moment \in S <=> u <= moment
    BY <1>1 DEF From
  <2>2. Granted(S)' = SumFunction(Within(granted', From(u)))
    BY DEF Granted, Within, From
  <2> HIDE DEF S
  <2>3. Granted(S) \in Nat /\ SumFunction(Within(granted', S)) = Granted(S) + (IF u <= moment THEN k ELSE 0)
    BY <1>10, <2>1
  <2>4. ASSUME u > moment  PROVE SumFunction(Within(granted', S)) = 0
    <3>1. \A v \in Times : v \in S => granted'[v] = 0
      BY <1>1, <1>3, <1>9, <2>4 DEF NothingAhead, From, S, Times
    <3> QED  BY <1>7, <3>1, NoGrants
  <2> QED  BY <2>2, <2>3, <2>4 DEF S
<1>12. SpentIsGranted'
  <2>0. PICK u \in Nat : u = b.full
    BY <1>4
  <2>1. Granted(From(u))' = Granted(From(u)) + k /\ Granted(From(u)) \in Nat
    BY <1>1, <1>4, <1>6, <1>11, <2>0
  <2>2. Granted(From(u))' >= BudgetCap - budget'
    <3>1. CASE fresh
      <4> HIDE DEF b
      <4> QED  BY <1>0, <1>3, <1>4, <1>5, <1>6, <2>1, <3>1
    <3>2. CASE same
      <4>1. Granted(From(u)) >= BudgetCap - budget
        BY <2>0, <3>2 DEF BucketInv, SpentIsGranted, Spent
      <4> QED  BY <1>0, <1>1, <1>3, <1>4, <1>5, <1>6, <2>1, <3>2, <4>1
    <3> QED  BY <1>2, <3>1, <3>2
  <2>3. Granted(From(lastTimeFull))' = Granted(From(u))'
    BY <1>3, <2>0 DEF Granted, From
  <2> QED  BY <2>2, <2>3 DEF SpentIsGranted, Spent
<1>13. PeriodsApart'
  <2> SUFFICES ASSUME replenished' = 0, NEW u \in Int
               PROVE  /\ u > lastTimeFull' - FillDuration =>
                           Granted(From(u))' < BudgetCap - budget' + BudgetCap
                      /\ u > lastTimeFull' => \/ Granted(From(u))' < BudgetCap - budget'
                                              \/ Granted(From(u))' = 0
    BY DEF PeriodsApart, Spent
  <2>1. replenished = 0 /\ budget <= BudgetCap
    BY <1>0, <1>1, <1>3
  <2> DEFINE g == Granted(From(u))
             h == Granted(From(u))'
  <2>2. g \in Nat /\ (u <= moment => h = g + k) /\ (u > moment => h = g /\ h = 0)
    <3>1. g \in Nat /\ h = g + (IF u <= moment THEN k ELSE 0) /\ (u > moment => h = 0)
      BY <1>11
    <3> HIDE DEF g, h
    <3> QED  BY <1>1, <1>6, <3>1
  <2>3. /\ u > lastTimeFull - FillDuration => g < BudgetCap - budget + BudgetCap
        /\ u > lastTimeFull => g < BudgetCap - budget \/ g = 0
    BY <2>1 DEF BucketInv, PeriodsApart, Spent
  <2>4. fresh /\ u > moment - FillDuration => g < BudgetCap
    BY <2>1, FreshRoom
  <2> HIDE DEF g, h
  <2>5. CASE fresh
    BY <1>0, <1>1, <1>3, <1>5, <1>6, <2>2, <2>4, <2>5 DEF g, h
  <2>6. CASE same
    <3>1. lastTimeFull' = lastTimeFull /\ budget' = budget - k /\ budget < BudgetCap
      BY <1>0, <1>1, <1>3, <1>5, <2>1, <2>6
    <3>2. /\ u > lastTimeFull - FillDuration => h < BudgetCap - budget' + BudgetCap
          /\ u > lastTimeFull => h < BudgetCap - budget' \/ h = 0
      BY <1>0, <1>1, <1>6, <2>2, <2>3, <3>1
    <3> QED  BY <3>1, <3>2 DEF h
  <2> QED  BY <1>2, <2>5, <2>6
<1>14. BurstBounded'
  <2>1. ASSUME NEW t \in Times, t < moment', replenished' = 0
        PROVE  Granted(LastPeriod(t))' < 2 * BudgetCap
    <3> DEFINE S == LastPeriod(t)
    <3>1. moment \notin S
      BY <1>1, <1>3, <2>1 DEF LastPeriod, Times
    <3>2. Granted(S)' = SumFunction(Within(granted', S))
      BY DEF Granted, Within, LastPeriod
    <3>3. Granted(S) < 2 * BudgetCap
      BY <1>3, <2>1 DEF BucketInv, BurstBounded
    <3> HIDE DEF S
    <3>4. SumFunction(Within(granted', S)) = Granted(S)
      BY <1>10, <3>1
    <3> QED  BY <3>2, <3>3, <3>4 DEF S
  <2>2. EarlierBounded'
    BY <2>1 DEF EarlierBounded
  <2> QED  BY <1>8, <1>13, <2>2, BurstFromPeriods
<1> QED  BY <1>8, <1>9, <1>12, <1>13, <1>14 DEF BucketInv

\* replenish adds tokens or fills the bucket.
LEMMA ReplenishKeeps ==
  ASSUME BucketInv, NEW tokens \in 1..MaxTokens, Replenish(tokens)
  PROVE  BucketInv'
<1>0. /\ tokens \in Nat \ {0} /\ BudgetCap \in Nat \ {0} /\ FillDuration \in Nat \ {0}
  BY BucketNumbers
<1>1. /\ BucketShape /\ budget \in Nat /\ lastTimeFull \in Nat /\ moment \in Nat
      /\ replenished \in Nat /\ lastTimeFull <= moment /\ budget <= BudgetCap + replenished
  BY BucketFacts DEF BucketInv
<1> DEFINE a == [budget |-> budget + tokens, full |-> lastTimeFull]
           b == Update(a, moment)
<1>2. /\ replenished + tokens <= MaxReplenished /\ replenished' = replenished + tokens
      /\ budget' = b.budget /\ lastTimeFull' = b.full /\ UNCHANGED <<moment, granted>>
  BY DEF Replenish, Bucket
<1>3. \/ b.budget = budget + tokens /\ b.full = lastTimeFull
      \/ b.budget = BudgetCap /\ b.full = moment
  BY DEF Update
<1> HIDE DEF b
<1>4. BucketShape'
  <2>1. budget' \in 0..(BudgetCap + replenished') /\ replenished' \in 0..MaxReplenished
    BY <1>0, <1>1, <1>2, <1>3, BucketNumbers
  <2>2. lastTimeFull' \in 0..moment'
    BY <1>1, <1>2, <1>3
  <2> QED  BY <1>1, <1>2, <2>1, <2>2 DEF BucketShape
<1>5. replenished' # 0
  BY <1>0, <1>1, <1>2
<1>6. NothingAhead' /\ PeriodsApart' /\ BurstBounded'
  BY <1>2, <1>5 DEF BucketInv, NothingAhead, PeriodsApart, BurstBounded
<1>7. SpentIsGranted'
  <2>1. PICK u \in Nat : u = b.full
    BY <1>1, <1>3
  <2>2. Granted(From(lastTimeFull))' = Granted(From(u))
    BY <1>2, <2>1 DEF Granted, From
  <2>3. Granted(From(u)) \in Nat
    <3>1. granted \in [Times -> Nat]
      BY BucketFacts DEF BucketInv
    <3>2. SumFunction(Within(granted, From(u))) \in Nat
      BY <3>1, MoreTimes
    <3> QED  BY <3>2, GrantedSum
  <2>4. Granted(From(u)) >= BudgetCap - budget'
    <3>1. CASE b.budget = BudgetCap
      BY <1>0, <1>2, <2>3, <3>1
    <3>2. CASE b.budget = budget + tokens /\ b.full = lastTimeFull
      <4>1. Granted(From(u)) >= BudgetCap - budget
        BY <2>1, <3>2 DEF BucketInv, SpentIsGranted, Spent
      <4> QED  BY <1>0, <1>1, <1>2, <2>3, <3>2, <4>1
    <3> QED  BY <1>3, <3>1, <3>2
  <2> QED  BY <2>2, <2>4 DEF SpentIsGranted, Spent
<1> QED  BY <1>4, <1>6, <1>7 DEF BucketInv

\* Time alone changes nothing: the invariant speaks of what was granted.
LEMMA MomentPassesKeeps ==
  ASSUME BucketInv, MomentPasses
  PROVE  BucketInv'
<1>1. /\ moment < MaxMoment /\ moment' = moment + 1
      /\ UNCHANGED <<budget, lastTimeFull, replenished, granted>>
  BY DEF MomentPasses
<1>2. moment \in Nat /\ moment \in Times /\ MaxMoment \in Nat /\ lastTimeFull \in 0..moment
  BY BucketFacts, BucketNumbers DEF BucketInv, BucketShape
<1>3. moment' \in Times /\ lastTimeFull' \in 0..moment'
  BY <1>1, <1>2 DEF Times
<1>4. BucketShape'
  BY <1>1, <1>3 DEF BucketInv, BucketShape
<1>5. NothingAhead'
  BY <1>1, <1>2 DEF BucketInv, NothingAhead, Times
<1>6. PeriodsApart' /\ SpentIsGranted' /\ BurstBounded'
  BY <1>1 DEF BucketInv, PeriodsApart, SpentIsGranted, BurstBounded, Spent, Granted, From,
              LastPeriod
<1> QED  BY <1>4, <1>5, <1>6 DEF BucketInv

\* The bucket starts full.
LEMMA BucketInitInv == BucketInit => BucketInv
<1> SUFFICES ASSUME BucketInit  PROVE BucketInv
  OBVIOUS
<1>1. granted \in [Times -> Nat] /\ \A v \in Times : granted[v] = 0
  BY DEF BucketInit
<1>2. BucketShape
  BY <1>1, BucketNumbers DEF BucketInit, BucketShape, Times
<1>3. \A S : Granted(S) = 0
  BY <1>1, NoGrants, GrantedSum
<1>4. NothingAhead
  BY <1>1 DEF NothingAhead
<1>5. budget = BudgetCap /\ Spent = 0 /\ BudgetCap \in Nat \ {0}
  BY BucketNumbers DEF BucketInit, Spent
<1>6. PeriodsApart /\ SpentIsGranted /\ BurstBounded
  BY <1>3, <1>5 DEF PeriodsApart, SpentIsGranted, BurstBounded
<1> QED  BY <1>2, <1>4, <1>6 DEF BucketInv

\* The bucket's invariant is inductive.
LEMMA BucketInvariance == BucketSpec => []BucketInv
<1>1. BucketInv /\ [BucketNext]_bucketVars => BucketInv'
  <2> SUFFICES ASSUME BucketInv, [BucketNext]_bucketVars  PROVE BucketInv'
    OBVIOUS
  <2>1. CASE \E tokens \in 1..MaxTokens : TryConsume(tokens) \/ Replenish(tokens)
    BY <2>1, TryConsumeKeeps, ReplenishKeeps
  <2>2. CASE MomentPasses
    BY <2>2, MomentPassesKeeps
  <2>3. CASE UNCHANGED bucketVars
    BY <2>3 DEF bucketVars, BucketInv, BucketShape, NothingAhead, PeriodsApart,
                SpentIsGranted, BurstBounded, Spent, Granted, From, LastPeriod
  <2> QED  BY <2>1, <2>2, <2>3 DEF BucketNext
<1> QED  BY <1>1, BucketInitInv, PTL DEF BucketSpec

\* The budget is never overdrawn, and while nobody calls replenish no stretch
\* of time as long as a period sees two full buckets granted, for every
\* capacity, period and size of requests (tryConsume and update).
THEOREM BurstsBounded == BucketSpec => []BudgetSound
<1>1. BucketInv => BudgetSound
  BY BucketNumbers DEF BucketInv, BudgetSound, BucketShape, BucketTypeOK
<1> QED  BY <1>1, BucketInvariance, PTL

\* What tryConsume refuses would exceed the capacity together with what the
\* last period saw granted.
THEOREM OnlySpentRefuses == BucketSpec => []RefusedOnlyWhenSpent
<1>1. ASSUME BucketInv  PROVE RefusedOnlyWhenSpent
  <2> SUFFICES ASSUME NEW tokens \in 1..MaxTokens, Refuses(tokens)
               PROVE  Granted(LastPeriod(moment)) + tokens > BudgetCap
    BY DEF RefusedOnlyWhenSpent
  <2>1. /\ BucketShape /\ budget \in Nat /\ lastTimeFull \in Nat /\ moment \in Nat
        /\ lastTimeFull <= moment /\ BudgetCap \in Nat /\ FillDuration \in Nat
        /\ tokens \in Nat
    BY <1>1, BucketFacts, BucketNumbers DEF BucketInv
  <2>2. granted \in [Times -> Nat]
    BY <1>1, BucketFacts DEF BucketInv
  <2> DEFINE b == Offered(Bucket, tokens, moment)
  <2>3. b.budget < tokens
    BY DEF Refuses
  <2>4. \/ b = [budget |-> BudgetCap, full |-> moment]
        \/ /\ b = [budget |-> budget, full |-> lastTimeFull]
           /\ budget < tokens => moment - lastTimeFull < FillDuration
    BY <2>1, OfferedFacts
  <2> HIDE DEF b
  <2>5. Granted(LastPeriod(moment)) \in Nat
    <3>1. SumFunction(Within(granted, LastPeriod(moment))) \in Nat
      BY <2>2, MoreTimes
    <3> QED  BY <3>1, GrantedSum
  <2>6. CASE b = [budget |-> BudgetCap, full |-> moment]
    <3>1. b.budget = BudgetCap
      BY <2>6
    <3> QED  BY <2>1, <2>3, <2>5, <3>1
  <2>7. CASE b # [budget |-> BudgetCap, full |-> moment]
    <3>1. budget < tokens
      BY <2>3, <2>4, <2>7
    <3>2. moment - lastTimeFull < FillDuration
      BY <2>4, <2>7, <3>1
    <3>3. \A v \in Times : v \in From(lastTimeFull) => v \in LastPeriod(moment) \/ granted[v] = 0
      <4> SUFFICES ASSUME NEW v \in Times, v >= lastTimeFull, granted[v] # 0
                   PROVE  v \in LastPeriod(moment)
        BY <2>1, BucketNumbers DEF From, Times
      <4>1. v \in Int /\ ~(v > moment)
        BY <1>1, BucketNumbers DEF BucketInv, NothingAhead, Times
      <4> QED  BY <2>1, <3>2, <4>1 DEF LastPeriod
    <3>4. /\ SumFunction(Within(granted, From(lastTimeFull))) \in Nat
          /\ SumFunction(Within(granted, From(lastTimeFull)))
               <= SumFunction(Within(granted, LastPeriod(moment)))
      BY <2>2, <3>3, MoreTimes
    <3>5. /\ Granted(From(lastTimeFull)) \in Nat
          /\ Granted(From(lastTimeFull)) <= Granted(LastPeriod(moment))
      BY <3>4, GrantedSum
    <3>6. Granted(From(lastTimeFull)) >= BudgetCap - budget
      BY <1>1 DEF BucketInv, SpentIsGranted, Spent
    <3> QED  BY <2>1, <2>5, <3>1, <3>5, <3>6
  <2> QED  BY <2>6, <2>7
<1> QED  BY <1>1, BucketInvariance, PTL
=============================================================================
