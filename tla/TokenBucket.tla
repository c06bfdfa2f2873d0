---------------------------- MODULE TokenBucket ----------------------------
(***************************************************************************)
(* The token bucket that limits the rate of store and light push requests  *)
(* (common/tokenbucket.nim, and checkUsage of common/ratelimit.nim).  Time *)
(* is the monotonic clock in ticks, whole milliseconds in the code; a      *)
(* request brings the number of tokens it needs (1 for all protocols).     *)
(***************************************************************************)
EXTENDS Integers, Functions

CONSTANTS
  BudgetCap,
  FillDuration,
  MaxTokens,      \* bound on the tokens of one call
  MaxReplenished, \* bound on the tokens replenish adds in all; 0 as the
                  \* protocols use the bucket
  MaxMoment       \* bound on the clock

\* newTokenBucket makes no bucket from a volume or a period that is not
\* positive.
ASSUME BucketAssumption ==
  /\ BudgetCap \in Nat \ {0} /\ FillDuration \in Nat \ {0}
  /\ MaxTokens \in Nat \ {0}
  /\ MaxReplenished \in Nat /\ MaxMoment \in Nat

Times == 0..MaxMoment

VARIABLES
  budget, lastTimeFull,
  moment,       \* Moment.now()
  replenished,  \* history: tokens added by replenish
  granted       \* history: the tokens granted at each time

bucketVars == <<budget, lastTimeFull, moment, replenished, granted>>

\* The tokens granted at some of the times.
Granted(times) == SumFunction([t \in Times |-> IF t \in times THEN granted[t] ELSE 0])

LastPeriod(t) == {u \in Times : t - FillDuration < u /\ u <= t}

\* A bucket as a record.
Bucket == [budget |-> budget, full |-> lastTimeFull]

\* Faulty: leaves the period running from where it was.
UpdateKeepingTime(b, t) ==
  IF t - b.full < FillDuration THEN b ELSE [b EXCEPT !.budget = BudgetCap]

\* update: once the period is over the bucket is full and a period begins.
Update(b, t) ==
  IF t - b.full < FillDuration THEN b ELSE [budget |-> BudgetCap, full |-> t]

\* Faulty: starts a period whenever tokens are asked for.
TouchedAlways(b, t) == [b EXCEPT !.full = t]

\* A full bucket starts its period with the first request.
Touched(b, t) == IF b.budget = BudgetCap THEN [b EXCEPT !.full = t] ELSE b

\* The bucket tryConsume looks at last: as it is when that is enough,
\* refilled if due otherwise.
Offered(b, tokens, t) ==
  LET touched == Touched(b, t)
  IN  IF touched.budget >= tokens THEN touched ELSE Update(touched, t)

TryConsume(tokens) ==
  LET b == Offered(Bucket, tokens, moment)
      ok == b.budget >= tokens
  IN  /\ budget' = IF ok THEN b.budget - tokens ELSE b.budget
      /\ lastTimeFull' = b.full
      /\ granted' = IF ok THEN [granted EXCEPT ![moment] = @ + tokens] ELSE granted
      /\ UNCHANGED <<moment, replenished>>

Replenish(tokens) ==
  LET b == Update([Bucket EXCEPT !.budget = @ + tokens], moment)
  IN  /\ replenished + tokens <= MaxReplenished
      /\ replenished' = replenished + tokens
      /\ budget' = b.budget
      /\ lastTimeFull' = b.full
      /\ UNCHANGED <<moment, granted>>

MomentPasses ==
  /\ moment < MaxMoment
  /\ moment' = moment + 1
  /\ UNCHANGED <<budget, lastTimeFull, replenished, granted>>

BucketInit ==
  /\ budget = BudgetCap
  /\ lastTimeFull = 0
  /\ moment = 0
  /\ replenished = 0
  /\ granted = [t \in Times |-> 0]

BucketNext ==
  \/ \E tokens \in 1..MaxTokens : TryConsume(tokens) \/ Replenish(tokens)
  \/ MomentPasses

BucketSpec == BucketInit /\ [][BucketNext]_bucketVars

-----------------------------------------------------------------------------
(* Properties.                                                             *)

\* The shape of the state; the budget is never overdrawn.
BucketTypeOK ==
  /\ budget \in Nat
  /\ lastTimeFull \in 0..moment
  /\ moment \in Times
  /\ replenished \in 0..MaxReplenished
  /\ granted \in [Times -> Nat]

\* In no stretch of time as long as a period does tryConsume grant as much
\* as twice the capacity: the end of one period and the start of the next
\* never add up to two full buckets.  (The protocols never call replenish.)
BurstBounded ==
  replenished = 0 => \A t \in Times : Granted(LastPeriod(t)) < 2 * BudgetCap

\* What replenish's comment says, "capped to the bucket capacity".
BudgetCapped == budget <= BudgetCap

\* The budget is sound and so is what was granted from it.
BudgetSound == BucketTypeOK /\ BurstBounded

Refuses(tokens) == Offered(Bucket, tokens, moment).budget < tokens

\* tryConsume refuses only what would bring the tokens granted in the last
\* period above the capacity: nobody waits longer than one period.
RefusedOnlyWhenSpent ==
  \A tokens \in 1..MaxTokens :
    Refuses(tokens) => Granted(LastPeriod(moment)) + tokens > BudgetCap
=============================================================================
