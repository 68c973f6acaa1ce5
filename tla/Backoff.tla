------------------------------ MODULE Backoff ------------------------------
(***************************************************************************)
(* `ReconnectPolicy::backoff` (src/src/reconnect.rs): the jittered delay   *)
(* before each connect retry of one scan, in the machine's saturating      *)
(* arithmetic. Durations count clock ticks, several to the millisecond.    *)
(***************************************************************************)
EXTENDS Integers

CONSTANTS
    FactorMax,     \* largest factor: u32::MAX
    DurationMax,   \* longest duration
    MillisMax,     \* largest count of milliseconds: u64::MAX
    Ticks,         \* of the clock, in a millisecond
    MaxRetry,      \* bound on the retries: connect_attempts_per_scan
    Durations      \* the durations a policy may be given

ASSUME WidthsAssumption ==
    /\ FactorMax \in Nat \ {0}
    /\ MillisMax \in Nat \ {0}
    /\ Ticks \in Nat \ {0}
    /\ DurationMax \in Nat
ASSUME DurationsAssumption == Durations \subseteq 0..DurationMax
ASSUME RetriesAssumption == MaxRetry \in Nat

VARIABLES
    initial,   \* the policy's initial_backoff
    limit,     \* its max_backoff
    retry,     \* the retry the delay is for, 0 before the first
    delay      \* in milliseconds

vars == <<initial, limit, retry, delay>>

Least(a, b) == IF a <= b THEN a ELSE b

(* The powers of two.                                                       *)
Power[n \in Nat] == IF n = 0 THEN 1 ELSE 2 * Power[n - 1]

\* Mutant: the power wraps around.
FactorWraps(n) == Power[n - 1] % (FactorMax + 1)

Factor(n) == Least(Power[n - 1], FactorMax)

Cap(n) == Least(Least(initial * Factor(n), DurationMax), limit)

\* Mutant: a fraction of a millisecond counts as a whole one.
CapMillisUp(n) == Least((Cap(n) + Ticks - 1) \div Ticks, MillisMax)

CapMillis(n) == Least(Cap(n) \div Ticks, MillisMax)

(* The roll is any 64-bit number, taken modulo the cap plus one.            *)
Rolls(n) == 0..(Least(CapMillis(n) + 1, MillisMax) - 1)

Init ==
    /\ initial \in Durations
    /\ limit \in Durations
    /\ retry = 0
    /\ delay = 0

Retry ==
    /\ retry < MaxRetry
    /\ retry' = retry + 1
    /\ delay' \in Rolls(retry')
    /\ UNCHANGED <<initial, limit>>

Next == Retry

Spec == Init /\ [][Next]_vars

---------------------------------------------------------------------------
(* No delay is longer than the policy's max_backoff, nor longer than its    *)
(* initial_backoff doubled for each retry, though both are rounded to       *)
(* milliseconds and the factor and the product saturate.                    *)
DelayBounded ==
    retry > 0 => delay * Ticks <= Least(initial * Power[retry - 1], limit)

(* The longest delay grows with the retries and does not collapse when the  *)
(* factor runs out of its width: a late retry never hammers the device.     *)
NeverHammers == [][retry > 0 => Cap(retry') >= Cap(retry)]_vars
=============================================================================
