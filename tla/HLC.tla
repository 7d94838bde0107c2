-------------------------------- MODULE HLC --------------------------------
(***************************************************************************)
(* The hybrid logical clock of backend/hlc/hlc.go.  Every device owns a    *)
(* Clock: an operating-system wall clock, which may jump either way, and   *)
(* the greatest timestamp the clock has created or tracked.  Timestamps    *)
(* travel between devices inside blobs.                                    *)
(***************************************************************************)
EXTENDS Timestamp

CONSTANTS
    Clocks,         \* the devices, one Clock each
    Foreign         \* timestamps found in blobs that no modelled clock made

ASSUME ClockConstants == Foreign \subseteq Nat

VARIABLES
    wall,     \* wall[c]: what time.Now() reads on device c
    maxTime,  \* Clock.maxTime
    known,    \* history: the timestamps the clock has created or tracked
    highest,  \* history: the highest value the wall clock of c has read
    result    \* what the last call on the clock returned

clockVars == <<wall, maxTime, known, highest, result>>

\* The outcome of a call that returns an error, or of no call at all.
Error == -1
None == -2

-----------------------------------------------------------------------------
\* Timestamps that can reach a device: made by some clock, or foreign.
InBlobs == Foreign \cup (UNION {known[c] : c \in Clocks})

-----------------------------------------------------------------------------
\* NewClock.
ClockInit ==
    /\ wall \in [Clocks -> {1}]
    /\ maxTime = [c \in Clocks |-> 0]
    /\ known = [c \in Clocks |-> {}]
    /\ highest = wall
    /\ result = [c \in Clocks |-> None]

\* External: the operating system's clock runs, or is stepped by NTP.
SetWall(c, t) ==
    /\ t # wall[c]
    /\ wall' = [wall EXCEPT ![c] = t]
    /\ highest' = [highest EXCEPT ![c] = Later(t, @)]
    /\ result' = [result EXCEPT ![c] = None]
    /\ UNCHANGED <<maxTime, known>>

\* What Now and Track do with a timestamp they accept.
Record(c, t) ==
    /\ maxTime' = [maxTime EXCEPT ![c] = Later(t, @)]
    /\ known' = [known EXCEPT ![c] = @ \cup {t}]
    /\ UNCHANGED <<wall, highest>>

\* Clock.Now, accepted.
Now(c) ==
    /\ ~ WayAhead(maxTime[c], wall[c])
    /\ Record(c, NextTime(maxTime[c], wall[c]))
    /\ result' = [result EXCEPT ![c] = NextTime(maxTime[c], wall[c])]

\* Clock.Now, refused: the wall clock is too far behind (MustNow panics).
NowRefused(c) ==
    /\ WayAhead(maxTime[c], wall[c])
    /\ result' = [result EXCEPT ![c] = Error]
    /\ UNCHANGED <<wall, maxTime, known, highest>>

\* Clock.Track, accepted.
Track(c, t) ==
    /\ ~ WayAhead(t, wall[c])
    /\ Record(c, t)
    /\ result' = [result EXCEPT ![c] = None]

\* Clock.Track, refused.
TrackRefused(c, t) ==
    /\ WayAhead(t, wall[c])
    /\ result' = [result EXCEPT ![c] = Error]
    /\ UNCHANGED <<wall, maxTime, known, highest>>

ClockNext ==
    \E c \in Clocks :
        \/ \E t \in 1..MaxWall : SetWall(c, t)
        \/ Now(c)
        \/ NowRefused(c)
        \/ \E t \in InBlobs : Track(c, t)
        \/ \E t \in InBlobs : TrackRefused(c, t)

ClockSpec == ClockInit /\ [][ClockNext]_clockVars

-----------------------------------------------------------------------------
\* The types of the variables; timestamps stay within the bounds of Stamps,
\* which no clock may leave by tracking what others say.
ClockTypeOK ==
    /\ wall \in [Clocks -> 1..MaxWall]
    /\ maxTime \in [Clocks -> Stamps]
    /\ known \in [Clocks -> SUBSET Stamps]
    /\ highest \in [Clocks -> 1..MaxWall]
    /\ result \in [Clocks -> Stamps \cup {Error, None}]

\* "Now creates a new timestamp which is greater than any previously known
\* timestamp" (hlc.go, doc of Now): whatever the wall clock did since, and
\* whichever remote timestamps were tracked in between.
NowIsGreatest ==
    [][\A c \in Clocks :
          Now(c) => \A t \in known[c] : result'[c] > t]_clockVars

\* A clock never runs ahead of its device by more than the threshold,
\* measured against the highest time the device has shown: remote clocks
\* cannot drag it into the future, however often timestamps bounce between
\* devices.
BoundedDrift ==
    \A c \in Clocks : maxTime[c] <= highest[c] + Skew

\* maxTime is no more than a cache of the history: it bounds every known
\* timestamp, and it is one of them (zero, as in NewClock, before the first).
MaxIsLatest ==
    \A c \in Clocks :
        /\ \A t \in known[c] : t <= maxTime[c]
        /\ IF known[c] = {} THEN maxTime[c] = 0 ELSE maxTime[c] \in known[c]

=============================================================================
