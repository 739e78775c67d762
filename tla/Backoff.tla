------------------------------- MODULE Backoff -------------------------------
(***************************************************************************)
(* The redelivery delay of a nacked message (src/backoff.go).  A duration  *)
(* is an int64 of nanoseconds; the multiplier, a float in the code, is in  *)
(* thousandths.  Jitter is a choice from an interval.  A product past the  *)
(* int64 range is converted from float64 as the platform does it: amd64    *)
(* yields the least int64, arm64 the greatest.                             *)
(***************************************************************************)
EXTENDS Integers

VARIABLES
    policy,     \* cfg.backoffPolicy
    attempt, override,  \* the arguments of computeRetryDelay
    d, i,       \* the loop's delay and its passes
    returned    \* the loop is over

vars == <<policy, attempt, override, d, i, returned>>

MaxInt64 == 9223372036854775807
MinInt64 == -9223372036854775807 - 1
Second == 1000000000

defaultBackoffBase == Second
defaultBackoffMax == 300 * Second
defaultBackoffMultiplier == 3000
maxBackoffSteps == 64
maxRetryDelay == 86400 * Second

Policies == [base : Int, max : Int, mult : Int]

NormalBase(p) == IF p.base <= 0 THEN defaultBackoffBase ELSE p.base

\* The two MaxDelay replacements of normalized, in their order.
NormalMax(p) ==
    LET base == NormalBase(p)
        max == IF p.max < base THEN defaultBackoffMax ELSE p.max
    IN  IF max < base THEN base ELSE max

NormalMult(p) == IF p.mult < 1000 THEN defaultBackoffMultiplier ELSE p.mult

normalized(p) == [base |-> NormalBase(p), max |-> NormalMax(p), mult |-> NormalMult(p)]

\* What time.Duration makes of a float between low and high.
Converted(low, high) ==
    {x \in Int : low <= x /\ x <= high /\ x <= MaxInt64}
        \cup (IF high > MaxInt64 THEN {MinInt64, MaxInt64} ELSE {})

Clamp(pn, x) == IF x > pn.max THEN pn.max ELSE IF x < pn.base THEN pn.base ELSE x

\* The upper end of the jitter: prev, raised to BaseDelay, times Multiplier.
High(pn, prev) ==
    LET from == IF prev < pn.base THEN pn.base ELSE prev
        scaled == (from * pn.mult) \div 1000
    IN  IF scaled < pn.base THEN pn.base ELSE scaled

\* The results Delay(prev) can have under the normalized policy pn.
Draws(pn, prev) == {Clamp(pn, x) : x \in Converted(pn.base, High(pn, prev))}

Delay(p, prev) == Draws(normalized(p), prev)

\* A call of computeRetryDelay; retry counts are read from the database.
Init ==
    /\ policy \in Policies /\ attempt \in Int /\ override \in Int
    /\ i = 0
    /\ \/ /\ override > 0
          /\ d = (IF override > maxRetryDelay THEN maxRetryDelay ELSE override)
          /\ returned = TRUE
       \/ override <= 0 /\ d = 0 /\ returned = FALSE

\* steps = min(attempt, maxBackoffSteps)
Again == i < attempt /\ i < maxBackoffSteps

Advance ==
    /\ ~returned /\ Again
    /\ d' \in Delay(policy, d)
    /\ i' = i + 1
    /\ UNCHANGED <<policy, attempt, override, returned>>

Return ==
    /\ ~returned /\ ~Again
    /\ returned' = TRUE
    /\ UNCHANGED <<policy, attempt, override, d, i>>

Next == Advance \/ Return

Spec == Init /\ [][Next]_vars

-----------------------------------------------------------------------------
\* A delay the policy allows.
InRange(p, x) == x \in normalized(p).base .. normalized(p).max

\* What computeRetryDelay returns: an override up to a day; else nothing before a first
\* failure, and from then on a delay within the policy's bounds, after at most 64 passes
\* however large the stored retry count is.
RetryDelayBounded ==
    /\ i <= maxBackoffSteps
    /\ returned =>
         /\ override > 0 => d \in 1..maxRetryDelay
         /\ override <= 0 /\ attempt <= 0 => d = 0
         /\ override <= 0 /\ attempt >= 1 => InRange(policy, d)

\* The loop's invariant: from its first pass on the delay is in range.
LoopInv ==
    /\ policy \in Policies /\ attempt \in Int /\ override \in Int /\ d \in Int
    /\ i \in 0..maxBackoffSteps /\ (i > 0 => i <= attempt)
    /\ override > 0 => returned /\ d \in 1..maxRetryDelay
    /\ override <= 0 => /\ i = 0 => d = 0
                        /\ i > 0 => InRange(policy, d)
                        /\ returned => ~Again

=============================================================================
