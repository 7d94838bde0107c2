------------------------------ MODULE Timestamp ------------------------------
(***************************************************************************)
(* Timestamps of the hybrid logical clock (backend/hlc/hlc.go): integers   *)
(* of Unix microseconds, compared as durations of 64-bit signed            *)
(* nanoseconds.  The conversion wraps: Unit and DurationLimit keep the     *)
(* width.                                                                  *)
(***************************************************************************)
EXTENDS Integers

CONSTANTS
    Skew,           \* skewThreshold, in timestamp units
    Unit,           \* nanoseconds per timestamp unit (time.Microsecond)
    DurationLimit,  \* 2^63 of the code: durations are -Limit .. Limit-1
    MaxWall         \* bound: the wall clocks read 1 .. MaxWall

ASSUME TimestampConstants ==
    /\ Skew \in Nat \ {0} /\ Unit \in Nat \ {0} /\ DurationLimit \in Nat \ {0}
    /\ MaxWall \in Nat \ {0}

\* What a clock can hold: the wall clock's range and the threshold on top.
Stamps == 0..(MaxWall + Skew)

\* int64 arithmetic on a duration of d nanoseconds.
Wrap(d) ==
    IF d \in -DurationLimit..(DurationLimit - 1)
      THEN d
      ELSE ((d + DurationLimit) % (2 * DurationLimit)) - DurationLimit

\* validateSkew: how far base is ahead of t, as a time.Duration.
Duration(base, t) == Wrap((base - t) * Unit)

\* The distances between the timestamps of T are below 2^63 nanoseconds
\* (292 years).
NoOverflow(T) ==
    \A a, b \in T : (a - b) * Unit \in -DurationLimit..(DurationLimit - 1)

\* Mistake: the check is left out.
WayAheadUnchecked(base, t) == FALSE

\* validateSkew: the error case.
WayAhead(base, t) == Duration(base, t) >= Skew * Unit

\* Clock.track.
Later(t, u) == IF t > u THEN t ELSE u

\* Mistake: the counter part of the clock is not advanced.
NextTimeNoIncrement(max, now) ==
    IF Duration(max, now) >= 0 THEN max ELSE now

\* Clock.Now: the timestamp it returns when the skew is acceptable.
\* diff.Microseconds() truncates, and diff is a multiple of the unit.
NextTime(max, now) ==
    LET diff == Duration(max, now)
    IN  IF diff >= 0 THEN now + (diff \div Unit) + 1 ELSE now
==============================================================================
