-------------------------------- MODULE Backoff --------------------------------
(***************************************************************************)
(* internal/restexec/retry.go: how long Client.Do waits before it tries    *)
(* again.  A duration is an int64 of nanoseconds; here it is an integer    *)
(* between -MaxInt - 1 and MaxInt, and arithmetic wraps as Go's does.      *)
(***************************************************************************)
EXTENDS Integers

CONSTANTS
    MaxInt,         \* the largest duration
    Second,         \* time.Second
    DefaultInitial, \* DefaultRetryPolicy's InitialBackoff
    DefaultMax      \* and its MaxBackoff

ASSUME BackoffAssumption ==
    /\ MaxInt \in Nat
    /\ Second \in 1..MaxInt
    /\ DefaultInitial \in 1..MaxInt
    /\ DefaultMax \in 1..MaxInt

Durations == (-MaxInt - 1)..MaxInt

Wrap(x) == ((x + MaxInt + 1) % (2 * (MaxInt + 1))) - MaxInt - 1

RetryPolicies ==
    [InitialBackoff : Durations, MaxBackoff : Durations, Jitter : BOOLEAN,
     RespectRetryAfter : BOOLEAN, RateLimitReset : BOOLEAN]

\* A header has no usable value, a number of seconds, or a date, of which
\* only the distance from now counts.
Signals == [form : {"none", "seconds", "date"}, value : Int]

initial(p) == IF p.InitialBackoff <= 0 THEN DefaultInitial ELSE p.InitialBackoff

maxB(p) == IF p.MaxBackoff <= 0 THEN DefaultMax ELSE p.MaxBackoff

\* The loop of exponential, which stops for good at the maximum.
doubled(p) ==
    LET d[n \in Nat] ==
            IF n = 0 THEN initial(p)
            ELSE IF n > 1 /\ d[n - 1] = maxB(p) THEN maxB(p)
            ELSE IF Wrap(2 * d[n - 1]) >= maxB(p) THEN maxB(p)
            ELSE Wrap(2 * d[n - 1])
    IN  d

clampDuration(d, max) ==
    IF max > 0 /\ d > max THEN max ELSE IF d < 0 THEN 0 ELSE d

\* Uniform between a half and one and a half times the schedule.
jittered(d) ==
    {LET x == Wrap(d + r - (d \div 2)) IN IF x < 0 THEN 0 ELSE x : r \in 0..(d - 1)}

\* Bug: jitter is added to what was clamped.
ExponentialUnclamped(p, attempt) ==
    LET d == clampDuration(doubled(p)[attempt], maxB(p))
    IN  IF p.Jitter THEN jittered(d) ELSE {d}

\* The waits that exponential may choose.
exponential(p, attempt) ==
    LET d == doubled(p)[attempt]
    IN  {clampDuration(x, maxB(p)) : x \in IF p.Jitter THEN jittered(d) ELSE {d}}

\* A wait, or -1 where the functions below answer that there is none.
NoSignal == -1

parseRetryAfter(s) ==
    CASE s.form = "seconds" /\ s.value >= 0 -> Wrap(s.value * Second)
      [] s.form = "date"                    -> IF s.value < 0 THEN 0 ELSE s.value
      [] OTHER                              -> NoSignal

parseRateLimitReset(s) ==
    IF s.form = "date" /\ s.value >= 0 THEN s.value ELSE NoSignal

UsesRetryAfter(p, retryAfter) ==
    /\ p.RespectRetryAfter
    /\ retryAfter.form = "date" \/ (retryAfter.form = "seconds" /\ retryAfter.value >= 0)

UsesReset(p, status, reset) ==
    status = 429 /\ p.RateLimitReset /\ parseRateLimitReset(reset) # NoSignal

\* The waits before the next attempt, after the attempt numbered so was
\* answered with this status and these headers.
backoff(p, attempt, status, retryAfter, reset) ==
    IF UsesRetryAfter(p, retryAfter) THEN {parseRetryAfter(retryAfter)}
    ELSE IF UsesReset(p, status, reset) THEN {parseRateLimitReset(reset)}
    ELSE exponential(p, attempt)
-----------------------------------------------------------------------------
(* Correctness.                                                             *)

\* Twice the maximum is still a duration, as for any configured in this
\* century.
InRange(p) == 2 * maxB(p) <= MaxInt /\ 2 * initial(p) <= MaxInt

AtMost(a, b) == IF a < b THEN a ELSE b

\* A wait that is guessed is at most the configured maximum and never hot: at
\* least half of the first wait, or of the maximum where that is smaller.  It
\* does not fall from one attempt to the next by more than jitter allows.
GuessIsBounded(p, attempt) ==
    InRange(p) =>
        \A w \in exponential(p, attempt) :
            /\ w <= maxB(p)
            /\ 2 * w >= AtMost(initial(p), maxB(p))
            /\ \A later \in exponential(p, attempt + 1) : 3 * later >= w

\* A wait that the API asks for is the one that is kept, even beyond the
\* maximum, as long as it is a duration; Retry-After comes before the reset
\* of a rate limit, and that counts for a 429 only.
SignalIsKept(p, attempt, status, retryAfter, reset) ==
    LET waits == backoff(p, attempt, status, retryAfter, reset) IN
    /\ UsesRetryAfter(p, retryAfter) /\ retryAfter.value * Second <= MaxInt =>
         waits = {IF retryAfter.value < 0 THEN 0
                  ELSE IF retryAfter.form = "seconds" THEN retryAfter.value * Second
                  ELSE retryAfter.value}
    /\ ~UsesRetryAfter(p, retryAfter) =>
         waits = IF UsesReset(p, status, reset) THEN {reset.value} ELSE exponential(p, attempt)
=============================================================================
