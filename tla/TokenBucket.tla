----------------------------- MODULE TokenBucket -----------------------------
(***************************************************************************)
(* The rate limiter (src/common/rate_limiter.h).  tokens_ is a double; it  *)
(* is counted here in units of 1/Unit of a token, and a rate is the number *)
(* of these units a clock tick brings, so that a tick may bring a fraction *)
(* of a token.  Rounding of the double is not modelled.                    *)
(*                                                                         *)
(* A bucket is a record [tokens, last, rate, burst], and the methods are   *)
(* operators on it: other modules keep several buckets.  The specification *)
(* at the end is one bucket, used by anybody in any order.                 *)
(***************************************************************************)
EXTENDS Integers

CONSTANTS Unit,      \* units per token
          Settings,  \* the <<rate, burst>> pairs SetRate may be given
          MaxTime    \* bound: last instant of the clock

ASSUME UnitAssumption == Unit \in Nat \ {0}
ASSUME SettingsAssumption == Settings \subseteq Nat \X Nat
ASSUME MaxTimeAssumption == MaxTime \in Nat

(* The constructor: a new bucket is full.                                  *)
NewBucket(rate, burst, t) ==
  [tokens |-> burst * Unit, last |-> t, rate |-> rate, burst |-> burst]

Earned(b, t) == b.tokens + (t - b.last) * b.rate

(* Mutants: the burst is not a limit; a fraction of a token is cut off.    *)
AvailableUncapped(b, t) == Earned(b, t)
AvailableWhole(b, t) ==
  LET e == IF Earned(b, t) > b.burst * Unit THEN b.burst * Unit ELSE Earned(b, t)
  IN  (e \div Unit) * Unit

(* tokens_ after Refill at time t; every use of a bucket begins with it.   *)
Available(b, t) ==
  IF Earned(b, t) > b.burst * Unit THEN b.burst * Unit ELSE Earned(b, t)

Grants(b, t, n) == Available(b, t) >= n * Unit

(* The bucket after Acquire(n) at time t, granted or not.                  *)
Acquired(b, t, n) ==
  [tokens |-> IF Grants(b, t, n) THEN Available(b, t) - n * Unit
                                 ELSE Available(b, t),
   last |-> t, rate |-> b.rate, burst |-> b.burst]

(* The bucket after SetRate(rate, burst) at time t.                        *)
Reset(b, t, rate, burst) ==
  [tokens |-> IF Available(b, t) > burst * Unit THEN burst * Unit
                                                ELSE Available(b, t),
   last |-> t, rate |-> rate, burst |-> burst]
-----------------------------------------------------------------------------
VARIABLES
  now,      \* steady_clock
  bucket,
  since,    \* history: the instant an observer began to count, any instant
  granted   \* history: the tokens granted since then

bucketVars == <<now, bucket, since, granted>>

BucketInit ==
  /\ now = 0
  /\ \E s \in Settings : bucket = NewBucket(s[1], s[2], now)
  /\ since = 0 /\ granted = 0

ClockTick ==
  /\ now < MaxTime
  /\ now' = now + 1
  /\ UNCHANGED <<bucket, since, granted>>

Acquire(n) ==
  /\ bucket' = Acquired(bucket, now, n)
  /\ granted' = IF Grants(bucket, now, n) THEN granted + n ELSE granted
  /\ UNCHANGED <<now, since>>

(* The observer counts under one setting, so it starts over.               *)
SetRate(s) ==
  /\ bucket' = Reset(bucket, now, s[1], s[2])
  /\ since' = now /\ granted' = 0
  /\ UNCHANGED now

StartCounting ==
  /\ since' = now /\ granted' = 0
  /\ UNCHANGED <<now, bucket>>

BucketNext ==
  \/ ClockTick
  \/ \E n \in 0..bucket.burst + 1 : Acquire(n)
  \/ \E s \in Settings : SetRate(s)
  \/ StartCounting

BucketSpec == BucketInit /\ [][BucketNext]_bucketVars
-----------------------------------------------------------------------------
BucketTypeOK ==
  /\ now \in 0..MaxTime /\ since \in 0..now
  /\ bucket \in [tokens : Nat, last : 0..now, rate : Nat, burst : Nat]
  /\ granted \in Nat

(* The limiter limits: in every interval, whenever it begins, the tokens   *)
(* granted are at most one burst plus what the rate brings in that time.   *)
RateBound ==
  granted * Unit <= bucket.burst * Unit + (now - since) * bucket.rate

(* The limiter does not starve a caller: after a time in which nothing was *)
(* granted, a request for at most one burst is granted as soon as the rate *)
(* has brought enough, however often it was refused, and so however often  *)
(* a fraction of a token was added, in between.                            *)
WaitingPays ==
  granted = 0 =>
    \A n \in 0..bucket.burst :
      (now - since) * bucket.rate >= n * Unit => Grants(bucket, now, n)

(* The inductive forms.  The bound also holds for what the bucket could    *)
(* grant at once, and while nothing is granted the bucket fills up.        *)
BoundInv ==
  granted * Unit + Available(bucket, now)
    <= bucket.burst * Unit + (now - since) * bucket.rate

FillInv ==
  granted = 0 => \/ Available(bucket, now) >= bucket.burst * Unit
                 \/ Available(bucket, now) >= (now - since) * bucket.rate

RateInv ==
  /\ BucketTypeOK
  /\ bucket.tokens <= bucket.burst * Unit
  /\ BoundInv
  /\ FillInv
=============================================================================
