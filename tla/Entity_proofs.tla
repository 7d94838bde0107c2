---------------------------- MODULE Entity_proofs ----------------------------
(***************************************************************************)
(* Proofs about the hybrid logical clock and about the entities stamped    *)
(* with it, for any number of clocks, devices and changes and any          *)
(* behaviour of the wall clocks.  Of the clock (HLC): Now returns a new    *)
(* greatest timestamp, and no clock drifts beyond the threshold.  Of an    *)
(* entity (Entity): what is applied is causally closed, the heads are its  *)
(* maximal changes, the version names the content, and a load can only     *)
(* fail because of clock skew.                                             *)
(***************************************************************************)
EXTENDS Entity, HLC, WellFoundedInduction, TLAPS

\* Multiplication by the unit preserves order: validateSkew may compare
\* nanoseconds instead of timestamp units.
LEMMA UnitMonotone ==
    ASSUME NEW u \in Nat \ {0}, NEW d \in Int, NEW e \in Int
    PROVE  (d * u >= e * u) <=> (d >= e)
  OBVIOUS

\* Dividing by the unit undoes the conversion to nanoseconds.
LEMMA UnitDivides ==
    ASSUME NEW u \in Nat \ {0}, NEW d \in Nat
    PROVE  (d * u) \div u = d
  OBVIOUS

\* Without overflow the skew check compares timestamps.
LEMMA WayAheadMeans ==
    ASSUME NEW T, T \subseteq Nat, NoOverflow(T), NEW b \in T, NEW t \in T
    PROVE  WayAhead(b, t) <=> b - t >= Skew
  <1>1. b \in Int /\ t \in Int
    OBVIOUS
  <1>2. Duration(b, t) = (b - t) * Unit
    BY DEF Duration, Wrap, NoOverflow
  <1> QED
    BY <1>1, <1>2, UnitMonotone, TimestampConstants DEF WayAhead

\* Without overflow Now returns the wall clock's reading, or the successor
\* of the greatest known timestamp if that is not behind.
LEMMA NextTimeMeans ==
    ASSUME NEW T, T \subseteq Nat, NoOverflow(T), NEW m \in T, NEW w \in T
    PROVE  NextTime(m, w) = IF m >= w THEN m + 1 ELSE w
  <1>1. m \in Int /\ w \in Int /\ Unit \in Nat \ {0}
    BY TimestampConstants
  <1>2. Duration(m, w) = (m - w) * Unit
    BY DEF Duration, Wrap, NoOverflow
  <1>3. (m - w) * Unit >= 0 <=> m >= w
    BY <1>1, UnitMonotone
  <1>4. m >= w => ((m - w) * Unit) \div Unit = m - w
    BY <1>1, UnitDivides
  <1> QED
    BY <1>1, <1>2, <1>3, <1>4 DEF NextTime

-------------------------------------------------------------------------------
\* The invariant that is inductive: a clock cannot be bounded by its wall
\* clock without knowing that the wall clock was once that high.
HighestBounds == \A c \in Clocks : wall[c] <= highest[c]

HLCInv == ClockTypeOK /\ HighestBounds /\ BoundedDrift /\ MaxIsLatest

\* What a clock can hold or be asked to track is a timestamp.
LEMMA StampsAreNat == Stamps \cup Foreign \subseteq Nat
  BY ClockConstants, TimestampConstants DEF Stamps

\* The comparisons of timestamps, on the timestamps of this module.
LEMMA AheadHere ==
    ASSUME NoOverflow(Stamps \cup Foreign), NEW b \in Stamps \cup Foreign, NEW t \in Stamps
    PROVE  WayAhead(b, t) <=> b - t >= Skew
  <1> DEFINE T == Stamps \cup Foreign
  <1>1. T \subseteq Nat /\ b \in T /\ t \in T
    BY StampsAreNat
  <1> HIDE DEF T
  <1> QED
    BY <1>1, WayAheadMeans DEF T

\* What Now computes, on the timestamps of this module.
LEMMA NowHere ==
    ASSUME NoOverflow(Stamps \cup Foreign), NEW m \in Stamps, NEW w \in Stamps
    PROVE  NextTime(m, w) = IF m >= w THEN m + 1 ELSE w
  BY StampsAreNat, NextTimeMeans

\* A clock starts at zero and knows nothing.
LEMMA FirstHLCInv == ClockInit => HLCInv
  BY ClockConstants, TimestampConstants DEF ClockInit, HLCInv, ClockTypeOK, HighestBounds, BoundedDrift,
     MaxIsLatest, Stamps, None, Error

\* Recording an acceptable timestamp keeps the invariant.
LEMMA RecordKeepsInv ==
    ASSUME HLCInv, NEW c \in Clocks, NEW t \in Stamps,
           t <= wall[c] + Skew, Record(c, t),
           result' \in [Clocks -> Stamps \cup {Error, None}]
    PROVE  HLCInv'
  <1>1. \A d \in Clocks : /\ wall'[d] = wall[d] /\ highest'[d] = highest[d]
                          /\ wall[d] \in Int /\ highest[d] \in Int
                          /\ maxTime[d] \in Int /\ Skew \in Int /\ t \in Int
    BY ClockConstants, TimestampConstants DEF Record, HLCInv, ClockTypeOK, Stamps
  <1>2. Later(t, maxTime[c]) \in Stamps
    BY DEF Later, HLCInv, ClockTypeOK
  <1>3. ClockTypeOK'
    BY <1>2 DEF HLCInv, ClockTypeOK, Record
  <1>4. HighestBounds'
    BY DEF HLCInv, HighestBounds, Record
  <1>5. BoundedDrift'
    <2> SUFFICES ASSUME NEW d \in Clocks
                 PROVE  maxTime'[d] <= highest'[d] + Skew
      BY DEF BoundedDrift
    <2>1. CASE d # c
      BY <1>1, <2>1 DEF HLCInv, ClockTypeOK, BoundedDrift, Record
    <2>2. CASE d = c
      <3>1. maxTime'[c] = Later(t, maxTime[c])
        BY DEF HLCInv, ClockTypeOK, Record
      <3>2. maxTime[c] <= highest[c] + Skew /\ wall[c] <= highest[c]
        BY DEF HLCInv, BoundedDrift, HighestBounds
      <3> QED
        BY <1>1, <2>2, <3>1, <3>2 DEF Later
    <2> QED
      BY <2>1, <2>2
  <1>6. MaxIsLatest'
    <2> SUFFICES ASSUME NEW d \in Clocks
                 PROVE  /\ \A u \in known'[d] : u <= maxTime'[d]
                        /\ IF known'[d] = {} THEN maxTime'[d] = 0 ELSE maxTime'[d] \in known'[d]
      BY DEF MaxIsLatest
    <2>1. CASE d # c
      BY <2>1 DEF HLCInv, ClockTypeOK, MaxIsLatest, Record
    <2>2. CASE d = c
      <3>1. maxTime'[c] = Later(t, maxTime[c]) /\ known'[c] = known[c] \cup {t}
        BY DEF HLCInv, ClockTypeOK, Record
      <3>2. /\ \A u \in known[c] : u \in Int /\ u <= maxTime[c]
            /\ IF known[c] = {} THEN maxTime[c] = 0 ELSE maxTime[c] \in known[c]
        BY ClockConstants, TimestampConstants DEF HLCInv, MaxIsLatest, ClockTypeOK, Stamps
      <3>3. t >= 0
        BY DEF Stamps
      <3> QED
        BY <1>1, <2>2, <3>1, <3>2, <3>3 DEF Later
    <2> QED
      BY <2>1, <2>2
  <1> QED
    BY <1>3, <1>4, <1>5, <1>6 DEF HLCInv

\* Every step of every clock keeps the invariant.
LEMMA ClockKeepsInv ==
    ASSUME NoOverflow(Stamps \cup Foreign), HLCInv, [ClockNext]_clockVars
    PROVE  HLCInv'
  <1> USE DEF HLCInv
  <1>1. ASSUME NEW c \in Clocks, NEW t \in 1..MaxWall, SetWall(c, t)
        PROVE  HLCInv'
    <2>1. ClockTypeOK'
      BY <1>1 DEF ClockTypeOK, SetWall, Later
    <2>2. HighestBounds'
      BY <1>1, ClockConstants, TimestampConstants DEF ClockTypeOK, HighestBounds, SetWall, Later
    <2>3. \A d \in Clocks : highest'[d] >= highest[d] /\ highest[d] \in Int
                            /\ highest'[d] \in Int /\ maxTime[d] \in Int
      BY <1>1, ClockConstants, TimestampConstants DEF ClockTypeOK, SetWall, Later, Stamps
    <2>4. BoundedDrift'
      BY <1>1, <2>3, ClockConstants, TimestampConstants DEF BoundedDrift, SetWall
    <2>5. MaxIsLatest'
      BY <1>1 DEF MaxIsLatest, SetWall
    <2> QED
      BY <2>1, <2>2, <2>4, <2>5
  <1>2. ASSUME NEW c \in Clocks, Now(c)
        PROVE  HLCInv'
    <2> DEFINE t == NextTime(maxTime[c], wall[c])
    <2>1. maxTime[c] \in Stamps /\ wall[c] \in Stamps /\ wall[c] \in 1..MaxWall
      BY ClockConstants, TimestampConstants DEF ClockTypeOK, Stamps
    <2>2. maxTime[c] - wall[c] < Skew
      BY <1>2, <2>1, AheadHere, ClockConstants, TimestampConstants DEF Now, Stamps
    <2>3. t = IF maxTime[c] >= wall[c] THEN maxTime[c] + 1 ELSE wall[c]
      BY <2>1, NowHere
    <2>4. t \in Stamps /\ t <= wall[c] + Skew
      BY <2>1, <2>2, <2>3, ClockConstants, TimestampConstants DEF Stamps
    <2>5. result' \in [Clocks -> Stamps \cup {Error, None}]
      BY <1>2, <2>4 DEF Now, ClockTypeOK
    <2>6. Record(c, t)
      BY <1>2 DEF Now
    <2> QED
      BY <2>4, <2>5, <2>6, RecordKeepsInv
  <1>3. ASSUME NEW c \in Clocks, NEW t \in InBlobs, Track(c, t)
        PROVE  HLCInv'
    <2>1. t \in Stamps \cup Foreign
      BY DEF InBlobs, ClockTypeOK
    <2>2. wall[c] \in Stamps /\ wall[c] \in 1..MaxWall /\ t \in Nat
      BY <2>1, ClockConstants, TimestampConstants DEF ClockTypeOK, Stamps
    <2>3. t - wall[c] < Skew
      BY <1>3, <2>1, <2>2, AheadHere, ClockConstants, TimestampConstants DEF Track
    <2>4. t \in Stamps /\ t <= wall[c] + Skew
      BY <2>2, <2>3, ClockConstants, TimestampConstants DEF Stamps
    <2>5. result' \in [Clocks -> Stamps \cup {Error, None}] /\ Record(c, t)
      BY <1>3 DEF Track, ClockTypeOK
    <2> QED
      BY <2>4, <2>5, RecordKeepsInv
  <1>4. ASSUME NEW c \in Clocks, NEW t \in InBlobs,
               NowRefused(c) \/ TrackRefused(c, t)
        PROVE  HLCInv'
    BY <1>4 DEF NowRefused, TrackRefused, ClockTypeOK, HighestBounds, BoundedDrift,
       MaxIsLatest
  <1>5. ASSUME NEW c \in Clocks, NowRefused(c)
        PROVE  HLCInv'
    BY <1>5 DEF NowRefused, ClockTypeOK, HighestBounds, BoundedDrift, MaxIsLatest
  <1>6. CASE UNCHANGED clockVars
    BY <1>6 DEF clockVars, ClockTypeOK, HighestBounds, BoundedDrift, MaxIsLatest
  <1> QED
    BY <1>1, <1>2, <1>3, <1>4, <1>5, <1>6 DEF ClockNext

\* Type correctness, the bound on the drift and the meaning of maxTime hold
\* in every reachable state, whatever the wall clocks do.
THEOREM ClockSafety ==
    ASSUME NoOverflow(Stamps \cup Foreign)
    PROVE  ClockSpec => [](ClockTypeOK /\ BoundedDrift /\ MaxIsLatest)
  <1>1. HLCInv /\ [ClockNext]_clockVars => HLCInv'
    BY ClockKeepsInv
  <1>2. HLCInv => ClockTypeOK /\ BoundedDrift /\ MaxIsLatest
    BY DEF HLCInv
  <1> QED
    BY FirstHLCInv, <1>1, <1>2, PTL DEF ClockSpec

\* Now always returns a timestamp above everything the clock has created or
\* tracked before (the promise in the documentation of Clock.Now).
THEOREM NowIsGreatestHolds ==
    ASSUME NoOverflow(Stamps \cup Foreign)
    PROVE  ClockSpec => NowIsGreatest
  <1> DEFINE A == \A c \in Clocks :
                    Now(c) => \A t \in known[c] : result'[c] > t
  <1>1. ASSUME HLCInv PROVE A
    <2> SUFFICES ASSUME NEW c \in Clocks, Now(c), NEW t \in known[c]
                 PROVE  result'[c] > t
      OBVIOUS
    <2>1. maxTime[c] \in Stamps /\ wall[c] \in Stamps /\ t \in Stamps
      BY <1>1, ClockConstants, TimestampConstants DEF HLCInv, ClockTypeOK, Stamps
    <2>2. result'[c] = IF maxTime[c] >= wall[c] THEN maxTime[c] + 1 ELSE wall[c]
      BY <1>1, <2>1, NowHere DEF Now, HLCInv, ClockTypeOK
    <2>3. t <= maxTime[c]
      BY <1>1 DEF HLCInv, MaxIsLatest
    <2> QED
      BY <2>1, <2>2, <2>3, ClockConstants, TimestampConstants DEF Stamps
  <1>2. HLCInv /\ [ClockNext]_clockVars => HLCInv'
    BY ClockKeepsInv
  <1>3. HLCInv => [A]_clockVars
    BY <1>1
  <1> QED
    BY FirstHLCInv, <1>2, <1>3, PTL DEF ClockSpec, NowIsGreatest

-------------------------------------------------------------------------------
\* The values of an Entity object.
EntityType ==
    [applied : SUBSET Cids, heads : SUBSET Cids,
     state : SUBSET [path : Paths, time : Times, origin : Cids],
     maxClock : Times, vectorClock : [Devices -> Times]]

\* A graph of changes: ancestors are present, are closed, are reached
\* through the dependencies, and are strictly older.
GraphOK(log) ==
    \A c \in 1..Len(log) :
        /\ log[c].deps \subseteq log[c].ancestors
        /\ log[c].ancestors \subseteq 1..Len(log)
        /\ \A a \in log[c].ancestors :
              /\ log[a].ancestors \subseteq log[c].ancestors
              /\ log[a].ts < log[c].ts
              /\ a \in log[c].deps \/ \E x \in log[c].deps : a \in log[x].ancestors

\* The applied changes are closed under ancestors.
ClosedOK(log, e) ==
    /\ e.applied \subseteq 1..Len(log)
    /\ \A c \in e.applied : log[c].ancestors \subseteq e.applied

\* The heads are the maximal applied changes, and everything applied is a
\* head or below one.
HeadsOK(log, e) ==
    /\ e.heads = {c \in e.applied : \A k \in e.applied : c \notin log[k].deps}
    /\ \A c \in e.applied : c \in e.heads \/ \E h \in e.heads : c \in log[h].ancestors

\* The map holds the writes of the applied changes and nothing else.
StateOK(log, e) ==
    \A n \in [path : Paths, time : Times, origin : Cids] :
        n \in e.state <=>
            /\ n.origin \in e.applied
            /\ n.path \in log[n.origin].patch
            /\ n.time = log[n.origin].ts

\* The clock is not behind any applied change.
ClockOK(log, e) == \A c \in e.applied : log[c].ts <= e.maxClock

EntityOK(log, e) ==
    ClosedOK(log, e) /\ HeadsOK(log, e) /\ StateOK(log, e) /\ ClockOK(log, e)

\* What is left of a load can be applied in timestamp order.
LoadOK(log, e, rest) ==
    /\ rest \subseteq 1..Len(log)
    /\ \A c \in rest :
          /\ c \notin e.applied
          /\ log[c].ancestors \subseteq e.applied \cup rest
          /\ e.maxClock <= log[c].ts
          /\ \A a \in Devices : e.vectorClock[a] <= log[c].ts

EntityInv ==
    /\ TypeOK
    /\ GraphOK(all)
    /\ \A d \in Devices :
          EntityOK(all, entity[d]) /\ LoadOK(all, entity[d], loading[d])

-------------------------------------------------------------------------------
\* The nodes that change c of a graph puts into the map.
NodesIn(log, c) ==
    {[path |-> p, time |-> log[c].ts, origin |-> c] : p \in log[c].patch}

\* The facts of record typing that every change and node has.
LEMMA ChangeFacts ==
    ASSUME NEW log \in Seq(Change), NEW c \in 1..Len(log)
    PROVE  /\ log[c] \in Change
           /\ log[c].ts \in Times /\ log[c].ts \in Nat
           /\ log[c].actor \in Devices
           /\ log[c].patch \subseteq Paths
           /\ log[c].deps \subseteq Cids
           /\ log[c].ancestors \subseteq Cids
  <1>1. log[c] \in Change
    OBVIOUS
  <1>2. log[c].patch \in Patches
    BY <1>1 DEF Change
  <1> QED
    BY <1>1, <1>2, EntityConstants, TimestampConstants DEF Change, Paths, Times

\* An empty entity is in order.
LEMMA NewEntityOK ==
    ASSUME NEW log \in Seq(Change)
    PROVE  NewEntity \in EntityType /\ EntityOK(log, NewEntity)
  BY EntityConstants, TimestampConstants
     DEF NewEntity, EntityType, EntityOK, ClosedOK, HeadsOK, StateOK, ClockOK, Times

\* A successful ApplyChange yields an Entity object.
LEMMA ApplyType ==
    ASSUME NEW log \in Seq(Change), Len(log) <= MaxChanges,
           NEW e \in EntityType, NEW c \in 1..Len(log)
    PROVE  AfterApply(e, c, log[c], NodesIn(log, c)) \in EntityType
  <1>1. c \in Cids
    BY EntityConstants, TimestampConstants DEF Cids
  <1>2. NodesIn(log, c) \subseteq [path : Paths, time : Times, origin : Cids]
    BY <1>1, ChangeFacts DEF NodesIn
  <1>3. Later(log[c].ts, e.maxClock) \in Times
    BY ChangeFacts DEF Later, EntityType
  <1> QED
    BY <1>1, <1>2, <1>3, ChangeFacts DEF AfterApply, EntityType, NextHeads

\* A successful ApplyChange keeps an entity in order.
LEMMA ApplyKeepsOK ==
    ASSUME NEW log \in Seq(Change), Len(log) <= MaxChanges, GraphOK(log),
           NEW e \in EntityType, EntityOK(log, e),
           NEW c \in 1..Len(log), c \notin e.applied,
           log[c].deps \subseteq e.applied, e.maxClock <= log[c].ts
    PROVE  EntityOK(log, AfterApply(e, c, log[c], NodesIn(log, c)))
  <1> DEFINE f == AfterApply(e, c, log[c], NodesIn(log, c))
  <1>1. /\ f.applied = e.applied \cup {c}
        /\ f.heads = (e.heads \cup {c}) \ log[c].deps
        /\ f.state = e.state \cup NodesIn(log, c)
        /\ f.maxClock = Later(log[c].ts, e.maxClock)
    BY DEF AfterApply, NextHeads
  <1>2. log[c].ancestors \subseteq e.applied
    BY DEF GraphOK, EntityOK, ClosedOK
  <1>3. ClosedOK(log, f)
    BY <1>1, <1>2 DEF EntityOK, ClosedOK
  <1>4. \A k \in e.applied : c \notin log[k].deps
    BY DEF GraphOK, EntityOK, ClosedOK
  <1>5. c \notin log[c].deps
    OBVIOUS
  <1>6. HeadsOK(log, f)
    <2>1. f.heads = {x \in f.applied : \A k \in f.applied : x \notin log[k].deps}
      BY <1>1, <1>4, <1>5 DEF EntityOK, HeadsOK
    <2>2. ASSUME NEW x \in e.applied
          PROVE  x \in f.heads \/ \E h \in f.heads : x \in log[h].ancestors
      <3>1. c \in f.heads
        BY <1>1, <1>5
      <3>2. CASE x \in e.heads
        BY <1>1, <3>1, <3>2 DEF GraphOK
      <3>3. CASE \E h \in e.heads : x \in log[h].ancestors
        <4>1. PICK h \in e.heads : x \in log[h].ancestors
          BY <3>3
        <4>2. CASE h \in log[c].deps
          BY <3>1, <4>1, <4>2 DEF GraphOK
        <4>3. CASE h \notin log[c].deps
          BY <1>1, <4>1, <4>3
        <4> QED
          BY <4>2, <4>3
      <3> QED
        BY <3>2, <3>3 DEF EntityOK, HeadsOK
    <2> QED
      BY <1>1, <1>5, <2>1, <2>2 DEF HeadsOK
  <1>7. StateOK(log, f)
    <2> SUFFICES ASSUME NEW n \in [path : Paths, time : Times, origin : Cids]
                 PROVE  n \in f.state <=>
                           /\ n.origin \in f.applied
                           /\ n.path \in log[n.origin].patch
                           /\ n.time = log[n.origin].ts
      BY DEF StateOK
    <2>1. n \in NodesIn(log, c) <=> n.origin = c /\ n.path \in log[c].patch
                                    /\ n.time = log[c].ts
      BY DEF NodesIn
    <2>2. n \in e.state <=> /\ n.origin \in e.applied
                            /\ n.path \in log[n.origin].patch
                            /\ n.time = log[n.origin].ts
      BY DEF EntityOK, StateOK
    <2> QED
      BY <1>1, <2>1, <2>2
  <1>8. ClockOK(log, f)
    <2>1. log[c].ts \in Nat /\ e.maxClock \in Nat
      BY ChangeFacts, EntityConstants, TimestampConstants DEF EntityType, Times
    <2>2. f.maxClock = log[c].ts
      BY <1>1, <2>1 DEF Later
    <2>3. \A k \in e.applied : log[k].ts \in Nat /\ log[k].ts <= e.maxClock
      BY ChangeFacts DEF EntityOK, ClockOK, ClosedOK
    <2> QED
      BY <1>1, <2>1, <2>2, <2>3 DEF ClockOK
  <1> QED
    BY <1>3, <1>6, <1>7, <1>8 DEF EntityOK

\* An entity that is in order stays so when changes are made elsewhere.
LEMMA ExtendKeepsOK ==
    ASSUME NEW log \in Seq(Change), NEW ch \in Change,
           NEW e \in EntityType, EntityOK(log, e)
    PROVE  EntityOK(Append(log, ch), e)
  <1>1. \A c \in e.applied : c \in 1..Len(log) /\ Append(log, ch)[c] = log[c]
    BY DEF EntityOK, ClosedOK
  <1>2. e.applied \subseteq 1..Len(Append(log, ch))
    BY <1>1
  <1>3. e.heads \subseteq e.applied
    BY DEF EntityOK, HeadsOK
  <1> HIDE DEF Change
  <1>4. ClosedOK(Append(log, ch), e)
    BY <1>1, <1>2 DEF EntityOK, ClosedOK
  <1>5. HeadsOK(Append(log, ch), e)
    BY <1>1, <1>3 DEF EntityOK, HeadsOK
  <1>6. StateOK(Append(log, ch), e)
    BY <1>1 DEF EntityOK, StateOK
  <1>7. ClockOK(Append(log, ch), e)
    BY <1>1 DEF EntityOK, ClockOK
  <1> QED
    BY <1>4, <1>5, <1>6, <1>7 DEF EntityOK

\* A load in progress is not disturbed either.
LEMMA ExtendKeepsLoad ==
    ASSUME NEW log \in Seq(Change), NEW ch \in Change,
           NEW e, NEW rest, LoadOK(log, e, rest)
    PROVE  LoadOK(Append(log, ch), e, rest)
  <1>1. \A c \in rest : c \in 1..Len(log) /\ Append(log, ch)[c] = log[c]
    BY DEF LoadOK
  <1>2. rest \subseteq 1..Len(Append(log, ch))
    BY <1>1
  <1> QED
    BY <1>1, <1>2 DEF LoadOK

\* The graph stays in order when a change is made on top of deps that an
\* entity has applied, with a timestamp above everything applied.
LEMMA ExtendGraph ==
    ASSUME NEW log \in Seq(Change), GraphOK(log), NEW ch \in Change,
           ch.deps \subseteq ch.ancestors, ch.ancestors \subseteq 1..Len(log),
           \A a \in ch.ancestors :
              /\ log[a].ancestors \subseteq ch.ancestors
              /\ log[a].ts < ch.ts
              /\ a \in ch.deps \/ \E x \in ch.deps : a \in log[x].ancestors
    PROVE  GraphOK(Append(log, ch))
  <1> DEFINE new == Append(log, ch)
  <1>1. /\ Len(new) = Len(log) + 1 /\ Len(log) \in Nat
        /\ new[Len(log) + 1] = ch
        /\ \A c \in 1..Len(log) : new[c] = log[c]
    OBVIOUS
  <1> HIDE DEF new
  <1> SUFFICES ASSUME NEW c \in 1..Len(new)
               PROVE  /\ new[c].deps \subseteq new[c].ancestors
                      /\ new[c].ancestors \subseteq 1..Len(new)
                      /\ \A a \in new[c].ancestors :
                            /\ new[a].ancestors \subseteq new[c].ancestors
                            /\ new[a].ts < new[c].ts
                            /\ \/ a \in new[c].deps
                               \/ \E x \in new[c].deps : a \in new[x].ancestors
    BY DEF GraphOK, new
  <1>2. CASE c \in 1..Len(log)
    BY <1>1, <1>2 DEF GraphOK
  <1>3. CASE c = Len(log) + 1
    BY <1>1, <1>3
  <1> QED
    BY <1>1, <1>2, <1>3

\* A new change on top of everything applied becomes the only head.
LEMMA MakeKeepsOK ==
    ASSUME NEW log \in Seq(Change), Len(log) < MaxChanges, GraphOK(log),
           NEW e \in EntityType,
           ClosedOK(log, e), StateOK(log, e),
           NEW ch \in Change, ch.deps \subseteq e.applied, e.heads \subseteq ch.deps,
           ch.ancestors = e.applied,
           \A a \in e.applied : a \in ch.deps \/ \E x \in ch.deps : a \in log[x].ancestors,
           \A a \in e.applied : a \in ch.deps \/ \E k \in e.applied : a \in log[k].deps,
           \A a \in e.applied : log[a].ts < ch.ts,
           e.maxClock = ch.ts
    PROVE  LET c == Len(log) + 1
               new == Append(log, ch)
               f == AfterApply(e, c, ch, NodesIn(new, c))
           IN  GraphOK(new) /\ f \in EntityType /\ EntityOK(new, f)
  <1> DEFINE c == Len(log) + 1
             new == Append(log, ch)
             f == AfterApply(e, c, ch, NodesIn(new, c))
  <1>1. /\ Len(new) = Len(log) + 1 /\ Len(log) \in Nat
        /\ new[c] = ch
        /\ \A k \in 1..Len(log) : new[k] = log[k]
        /\ new \in Seq(Change) /\ Len(new) <= MaxChanges /\ c \in 1..Len(new)
    BY EntityConstants, TimestampConstants
  <1>2. GraphOK(new)
    BY ExtendGraph DEF ClosedOK
  <1>3. f \in EntityType
    BY <1>1, ApplyType
  <1> HIDE DEF new, c
  <1>4. /\ f.applied = e.applied \cup {c}
        /\ f.heads = (e.heads \cup {c}) \ ch.deps
        /\ f.state = e.state \cup NodesIn(new, c)
        /\ f.maxClock = Later(ch.ts, e.maxClock)
    BY DEF AfterApply, NextHeads
  <1>5. c \notin e.applied
    BY DEF c, ClosedOK
  <1>6. f.heads = {c}
    BY <1>4, <1>5
  <1>7. \A k \in e.applied : k \in 1..Len(log) /\ new[k] = log[k]
    BY <1>1 DEF ClosedOK
  <1>8. ClosedOK(new, f)
    BY <1>1, <1>4, <1>7 DEF ClosedOK, c
  <1>9. HeadsOK(new, f)
    <2>1. \A k \in e.applied : new[k].deps \subseteq e.applied
      BY <1>7 DEF GraphOK, ClosedOK
    <2>2. \A x \in e.applied : \E k \in f.applied : x \in new[k].deps
      BY <1>1, <1>4, <1>7
    <2>3. \A k \in f.applied : c \notin new[k].deps
      BY <1>1, <1>4, <1>5, <2>1
    <2>4. \A x \in e.applied : x \in new[c].ancestors
      BY <1>1
    <2> QED
      BY <1>4, <1>6, <2>2, <2>3, <2>4 DEF HeadsOK
  <1>10. StateOK(new, f)
    <2> SUFFICES ASSUME NEW n \in [path : Paths, time : Times, origin : Cids]
                 PROVE  n \in f.state <=>
                           /\ n.origin \in f.applied
                           /\ n.path \in new[n.origin].patch
                           /\ n.time = new[n.origin].ts
      BY DEF StateOK
    <2>1. n \in NodesIn(new, c) <=> n.origin = c /\ n.path \in new[c].patch
                                    /\ n.time = new[c].ts
      BY DEF NodesIn
    <2>2. n \in e.state <=> /\ n.origin \in e.applied
                            /\ n.path \in log[n.origin].patch
                            /\ n.time = log[n.origin].ts
      BY DEF StateOK
    <2> QED
      BY <1>4, <1>5, <1>7, <2>1, <2>2
  <1>11. ClockOK(new, f)
    <2>1. ch.ts \in Nat
      BY EntityConstants, TimestampConstants DEF Change, Times
    <2>2. f.maxClock = ch.ts
      BY <1>4, <2>1 DEF Later
    <2>3. \A k \in e.applied : log[k].ts \in Nat
      BY ChangeFacts DEF ClosedOK
    <2> QED
      BY <1>1, <1>4, <1>7, <2>1, <2>2, <2>3 DEF ClockOK
  <1>12. EntityOK(new, f)
    BY <1>8, <1>9, <1>10, <1>11 DEF EntityOK
  <1> QED
    BY <1>2, <1>3, <1>12 DEF new, c

-------------------------------------------------------------------------------
\* The type invariant in terms of EntityType.
LEMMA TypeMeans ==
    TypeOK <=> /\ all \in Seq(Change) /\ Len(all) <= MaxChanges
               /\ entity \in [Devices -> EntityType]
               /\ loading \in [Devices -> SUBSET Cids]
  BY DEF TypeOK, EntityType

\* A step that replaces the entity of one device and leaves the changes
\* alone keeps the invariant if the new entity is in order.
LEMMA OneEntity ==
    ASSUME EntityInv, NEW d \in Devices, NEW f \in EntityType, NEW rest \in SUBSET Cids,
           EntityOK(all, f), LoadOK(all, f, rest),
           entity' = [entity EXCEPT ![d] = f],
           loading' = [loading EXCEPT ![d] = rest],
           all' = all
    PROVE  EntityInv'
  <1>1. TypeOK'
    <2>1. entity' \in [Devices -> EntityType] /\ loading' \in [Devices -> SUBSET Cids]
      BY TypeMeans DEF EntityInv
    <2> QED
      BY <2>1 DEF EntityInv, TypeOK, EntityType, Change, Paths, Cids, Times
  <1>2. GraphOK(all')
    BY DEF EntityInv
  <1>3. ASSUME NEW k \in Devices
        PROVE  EntityOK(all', entity'[k]) /\ LoadOK(all', entity'[k], loading'[k])
    <2>1. CASE k = d
      BY <2>1 DEF EntityInv, TypeOK
    <2>2. CASE k # d
      BY <2>2 DEF EntityInv, TypeOK
    <2> QED
      BY <2>1, <2>2
  <1> QED
    BY <1>1, <1>2, <1>3 DEF EntityInv

\* The invariant holds before any change is made.
LEMMA InitEntityInv == Init => EntityInv
  <1> SUFFICES ASSUME Init PROVE EntityInv
    OBVIOUS
  <1>1. all \in Seq(Change) /\ Len(all) = 0
    BY DEF Init
  <1>2. NewEntity \in EntityType /\ EntityOK(all, NewEntity)
    BY <1>1, NewEntityOK
  <1>3. TypeOK
    BY <1>1, <1>2, TypeMeans, EntityConstants, TimestampConstants DEF Init
  <1>4. GraphOK(all)
    BY <1>1 DEF GraphOK
  <1> QED
    BY <1>2, <1>3, <1>4 DEF Init, EntityInv, LoadOK

\* ApplyChange keeps the invariant.
LEMMA ApplyStep ==
    ASSUME EntityInv, NEW d \in Devices, NEW c \in Made, NEW w \in Walls,
           ApplyChange(d, c, w)
    PROVE  EntityInv'
  <1> DEFINE f == AfterApply(entity[d], c, all[c], Nodes(c))
  <1>1. /\ all \in Seq(Change) /\ Len(all) <= MaxChanges /\ GraphOK(all)
        /\ entity[d] \in EntityType /\ EntityOK(all, entity[d])
        /\ c \in 1..Len(all) /\ Nodes(c) = NodesIn(all, c)
    BY TypeMeans DEF EntityInv, Made, Nodes, NodesIn
  <1>2. /\ c \notin entity[d].applied
        /\ all[c].deps \subseteq entity[d].applied
        /\ entity[d].maxClock <= all[c].ts
    <2>1. all[c].ts \in Nat /\ entity[d].maxClock \in Nat
      BY <1>1, ChangeFacts, EntityConstants, TimestampConstants DEF EntityType, Times
    <2> QED
      BY <2>1 DEF ApplyChange, Refused, RefusedEarly
  <1>3. f \in EntityType /\ EntityOK(all, f)
    BY <1>1, <1>2, ApplyType, ApplyKeepsOK
  <1>4. LoadOK(all, f, {}) /\ {} \in SUBSET Cids
    BY DEF LoadOK
  <1>5. loading' = [loading EXCEPT ![d] = {}] /\ all' = all
        /\ entity' = [entity EXCEPT ![d] = f]
    BY TypeMeans DEF ApplyChange, Idle, EntityInv
  <1> QED
    BY <1>3, <1>4, <1>5, OneEntity

\* A refused change moves a vector clock and nothing the invariant is about.
LEMMA ApplyRefusedStep ==
    ASSUME EntityInv, NEW d \in Devices, NEW c \in Made, NEW w \in Walls,
           ApplyChangeRefused(d, c, w)
    PROVE  EntityInv'
  <1> DEFINE f == AfterRefusal(entity[d], c, all[c])
  <1>1. /\ all \in Seq(Change) /\ entity[d] \in EntityType
        /\ EntityOK(all, entity[d]) /\ c \in 1..Len(all)
    BY TypeMeans DEF EntityInv, Made
  <1>2. /\ f.applied = entity[d].applied /\ f.heads = entity[d].heads
        /\ f.state = entity[d].state /\ f.maxClock = entity[d].maxClock
        /\ f \in EntityType
    BY <1>1, ChangeFacts DEF AfterRefusal, EntityType
  <1>3. EntityOK(all, f)
    BY <1>1, <1>2 DEF EntityOK, ClosedOK, HeadsOK, StateOK, ClockOK
  <1>4. LoadOK(all, f, {}) /\ {} \in SUBSET Cids
    BY DEF LoadOK
  <1>5. loading' = [loading EXCEPT ![d] = {}] /\ all' = all
        /\ entity' = [entity EXCEPT ![d] = f]
    BY TypeMeans DEF ApplyChangeRefused, Idle, EntityInv
  <1> QED
    BY <1>2, <1>3, <1>4, <1>5, OneEntity

\* Starting a load keeps the invariant: the closure of the heads is closed.
LEMMA LoadStartStep ==
    ASSUME EntityInv, NEW d \in Devices, NEW heads \in SUBSET Made, Load(d, heads)
    PROVE  EntityInv'
  <1> DEFINE rest == Closure(heads)
  <1>1. all \in Seq(Change) /\ Len(all) <= MaxChanges /\ GraphOK(all)
    BY TypeMeans DEF EntityInv
  <1>2. heads \subseteq 1..Len(all)
    BY DEF Made
  <1>3. rest \subseteq 1..Len(all)
    BY <1>1, <1>2 DEF Closure, GraphOK
  <1>4. \A c \in rest : all[c].ancestors \subseteq rest
    BY <1>1, <1>2 DEF Closure, GraphOK
  <1>5. \A c \in rest : all[c].ts \in Nat
    BY <1>1, <1>3, ChangeFacts
  <1>6. rest \in SUBSET Cids
    BY <1>1, <1>3, EntityConstants, TimestampConstants DEF Cids
  <1>7. NewEntity \in EntityType /\ EntityOK(all, NewEntity)
    BY <1>1, NewEntityOK
  <1> HIDE DEF rest
  <1>8. LoadOK(all, NewEntity, rest)
    BY <1>3, <1>4, <1>5 DEF LoadOK, NewEntity
  <1> QED
    BY <1>6, <1>7, <1>8, OneEntity DEF Load, rest

\* The next row of a load passes every check of ApplyChange but the one on
\* the wall clock.
LEMMA NextRowFits ==
    ASSUME EntityInv, NEW d \in Devices, NEW c, NextRow(loading[d], c)
    PROVE  /\ c \in 1..Len(all) /\ c \notin entity[d].applied
           /\ all[c].deps \subseteq entity[d].applied
           /\ entity[d].maxClock <= all[c].ts
           /\ \A a \in Devices : entity[d].vectorClock[a] <= all[c].ts
           /\ \A k \in loading[d] : all[c].ts <= all[k].ts
  <1>1. /\ all \in Seq(Change) /\ GraphOK(all)
        /\ LoadOK(all, entity[d], loading[d]) /\ c \in loading[d]
    BY TypeMeans DEF EntityInv, NextRow
  <1>2. c \in 1..Len(all)
    BY <1>1 DEF LoadOK
  <1>3. ASSUME NEW a \in all[c].deps
        PROVE  a \in entity[d].applied
    <2>1. a \in all[c].ancestors /\ all[a].ts < all[c].ts
      BY <1>1, <1>2 DEF GraphOK
    <2>2. a \in 1..Len(all)
      BY <1>1, <1>2, <2>1 DEF GraphOK
    <2>3. a \notin loading[d]
      BY <1>1, <1>2, <2>1, <2>2, ChangeFacts DEF NextRow
    <2> QED
      BY <1>1, <2>1, <2>3 DEF LoadOK
  <1> QED
    BY <1>1, <1>2, <1>3 DEF LoadOK, NextRow

\* A row of a load keeps the invariant.
LEMMA LoadRowStep ==
    ASSUME EntityInv, NEW d \in Devices, NEW c \in loading[d], NEW w \in Walls,
           LoadStep(d, c, w)
    PROVE  EntityInv'
  <1> DEFINE f == AfterApply(entity[d], c, all[c], Nodes(c))
             rest == loading[d] \ {c}
  <1>1. /\ all \in Seq(Change) /\ Len(all) <= MaxChanges /\ GraphOK(all)
        /\ entity[d] \in EntityType /\ EntityOK(all, entity[d])
        /\ LoadOK(all, entity[d], loading[d]) /\ Nodes(c) = NodesIn(all, c)
    BY TypeMeans DEF EntityInv, Nodes, NodesIn
  <1>2. /\ c \in 1..Len(all) /\ c \notin entity[d].applied
        /\ all[c].deps \subseteq entity[d].applied
        /\ entity[d].maxClock <= all[c].ts
        /\ \A k \in loading[d] : all[c].ts <= all[k].ts
    BY NextRowFits DEF LoadStep
  <1>3. f \in EntityType /\ EntityOK(all, f)
    BY <1>1, <1>2, ApplyType, ApplyKeepsOK
  <1>4. rest \in SUBSET Cids
    BY TypeMeans DEF EntityInv
  <1>5. LoadOK(all, f, rest)
    <2>1. /\ f.applied = entity[d].applied \cup {c}
          /\ f.maxClock = Later(all[c].ts, entity[d].maxClock)
          /\ f.vectorClock = [entity[d].vectorClock EXCEPT ![all[c].actor] = all[c].ts]
      BY DEF AfterApply
    <2>2. all[c].ts \in Nat /\ entity[d].maxClock \in Nat
      BY <1>1, <1>2, ChangeFacts, EntityConstants, TimestampConstants DEF EntityType, Times
    <2>3. f.maxClock = all[c].ts
      BY <1>2, <2>1, <2>2 DEF Later
    <2>4. entity[d].vectorClock \in [Devices -> Times]
      BY <1>1 DEF EntityType
    <2>5. \A k \in rest : \A a \in Devices : f.vectorClock[a] <= all[k].ts
      BY <1>1, <1>2, <2>1, <2>4 DEF LoadOK
    <2>6. \A k \in rest : /\ k \notin f.applied
                          /\ all[k].ancestors \subseteq f.applied \cup rest
                          /\ f.maxClock <= all[k].ts
      BY <1>1, <1>2, <2>1, <2>3 DEF LoadOK
    <2> QED
      BY <1>1, <2>5, <2>6 DEF LoadOK
  <1> QED
    BY <1>3, <1>4, <1>5, OneEntity DEF LoadStep

\* A load that fails leaves no entity behind.
LEMMA LoadRefusedStep ==
    ASSUME EntityInv, NEW d \in Devices, NEW c, NEW w, LoadRefused(d, c, w)
    PROVE  EntityInv'
  <1>1. all \in Seq(Change)
    BY TypeMeans DEF EntityInv
  <1>2. NewEntity \in EntityType /\ EntityOK(all, NewEntity)
        /\ LoadOK(all, NewEntity, {}) /\ {} \in SUBSET Cids
    BY <1>1, NewEntityOK DEF LoadOK
  <1> QED
    BY <1>2, OneEntity DEF LoadRefused

\* What the clock gives a new change, without overflow.
LEMMA NextHere ==
    ASSUME NoOverflow(Stamps), NEW m \in Times, NEW w \in Walls, ~ WayAhead(m, w)
    PROVE  NextTimestamp(m, w) \in Stamps /\ NextTimestamp(m, w) > m
  <1>1. Stamps \subseteq Nat
    BY EntityConstants, TimestampConstants DEF Stamps
  <1>2. w \in Stamps /\ m \in Stamps
    BY EntityConstants, TimestampConstants DEF Times, Stamps, Walls
  <1>3. WayAhead(m, w) <=> m - w >= Skew
    BY <1>1, <1>2, WayAheadMeans
  <1>4. NextTime(m, w) = IF m >= w THEN m + 1 ELSE w
    BY <1>1, <1>2, NextTimeMeans
  <1>5. w \in 1..MaxWall /\ m \in Nat
    BY <1>1, <1>2 DEF Walls
  <1> QED
    BY <1>3, <1>4, <1>5, EntityConstants, TimestampConstants DEF NextTimestamp, Stamps

\* A timestamp that Clock.Track accepts is past the wall clocks' range by less
\* than the threshold.
LEMMA AcceptedHere ==
    ASSUME NoOverflow(Stamps), NEW t \in Stamps, NEW v \in Walls, ~ WayAhead(t, v)
    PROVE  t \in Times
  <1>1. Stamps \subseteq Nat /\ v \in Stamps /\ v \in 1..MaxWall /\ t \in Nat
    BY EntityConstants, TimestampConstants DEF Stamps, Walls
  <1>2. ~ (t - v >= Skew)
    BY <1>1, WayAheadMeans
  <1> QED
    BY <1>1, <1>2, EntityConstants, TimestampConstants DEF Times

\* Making a change keeps the invariant, given an entity that is in order up
\* to its heads and deps that cover all that is applied.
LEMMA MakeStep ==
    ASSUME NoOverflow(Stamps), EntityInv, NEW d \in Devices, Idle(d),
           NEW e \in EntityType, ClosedOK(all, e), StateOK(all, e), ClockOK(all, e),
           NEW deps \in SUBSET e.applied, e.heads \subseteq deps,
           e.applied = Closure(deps),
           \A a \in e.applied : a \in deps \/ \E k \in e.applied : a \in all[k].deps,
           NEW patch \in Patches, NEW w \in Walls, NEW v \in Walls,
           Make(d, e, deps, patch, w, v)
    PROVE  EntityInv'
  <1> DEFINE ts == NextTimestamp(e.maxClock, w)
             ch == NewChange(d, deps, ts, patch)
             c  == Len(all) + 1
             e1 == [e EXCEPT !.maxClock = ts]
             ns == {[path |-> p, time |-> ts, origin |-> c] : p \in patch}
             new == Append(all, ch)
             f == AfterApply(e1, c, ch, ns)
  <1>1. /\ all \in Seq(Change) /\ Len(all) <= MaxChanges /\ Len(all) < MaxChanges
        /\ Len(all) \in Nat /\ GraphOK(all)
        /\ entity \in [Devices -> EntityType] /\ loading \in [Devices -> SUBSET Cids]
    BY TypeMeans DEF EntityInv, Make
  <1>2. ts \in Stamps /\ ts > e.maxClock /\ e.maxClock \in Times
    BY NextHere DEF Make, EntityType
  <1>3. ch.ts = ts /\ ch.deps = deps /\ ch.patch = patch /\ ch.ancestors = e.applied
    BY DEF NewChange
  <1>5. CASE NothingToUpdate(deps, patch) \/ Refused(e1, c, ch, v)
    <2>1. NewEntity \in EntityType /\ EntityOK(all, NewEntity)
          /\ LoadOK(all, NewEntity, {}) /\ {} \in SUBSET Cids
      BY <1>1, NewEntityOK DEF LoadOK
    <2>2. /\ entity' = [entity EXCEPT ![d] = NewEntity] /\ all' = all
          /\ loading' = [loading EXCEPT ![d] = {}]
      BY <1>1, <1>5 DEF Make, Idle
    <2> QED
      BY <2>1, <2>2, OneEntity
  <1>6. CASE ~ (NothingToUpdate(deps, patch) \/ Refused(e1, c, ch, v))
    <2>1. entity' = [entity EXCEPT ![d] = f] /\ all' = new /\ loading' = loading
      BY <1>6 DEF Make
    <2>2. ts \in Times
      <3>1. ~ WayAhead(ts, v)
        BY <1>3, <1>6 DEF Refused
      <3> QED
        BY <1>2, <3>1, AcceptedHere
    <2>3. ch \in Change
      BY <2>2 DEF NewChange, Change, EntityType
    <2>4. /\ e1 \in EntityType /\ e1.applied = e.applied /\ e1.heads = e.heads
           /\ e1.state = e.state /\ e1.maxClock = ts
      BY <2>2 DEF EntityType
    <2>5. ns = NodesIn(new, c)
      <3>1. new[c] = ch
        BY <1>1
      <3> QED
        BY <1>3, <3>1 DEF NodesIn
    <2> HIDE DEF ns
    <2>6. ClosedOK(all, e1) /\ StateOK(all, e1)
      BY <2>4 DEF ClosedOK, StateOK
    <2>7. \A a \in e1.applied : all[a].ts < ch.ts
      <3>1. \A a \in e.applied : all[a].ts <= e.maxClock /\ all[a].ts \in Nat
        BY <1>1, ChangeFacts DEF ClockOK, ClosedOK
      <3>2. ts \in Nat /\ e.maxClock \in Nat
        BY <1>2, EntityConstants, TimestampConstants DEF Times, Stamps
      <3> QED
        BY <1>2, <1>3, <2>4, <3>1, <3>2
    <2>8. \A a \in e1.applied : a \in ch.deps \/ \E x \in ch.deps : a \in all[x].ancestors
      BY <1>3, <2>4 DEF Closure
    <2>9. \A a \in e1.applied : a \in ch.deps \/ \E k \in e1.applied : a \in all[k].deps
      BY <1>3, <2>4
    <2>10. ch.deps \subseteq e1.applied /\ e1.heads \subseteq ch.deps
          /\ ch.ancestors = e1.applied /\ e1.maxClock = ch.ts
      BY <1>3, <2>4
    <2> HIDE DEF ch, e1
    <2>11. GraphOK(new) /\ f \in EntityType /\ EntityOK(new, f)
      BY <1>1, <1>3, <2>3, <2>4, <2>5, <2>6, <2>7, <2>8, <2>9, <2>10, MakeKeepsOK
    <2>12. TypeOK'
      <3>1. new \in Seq(Change) /\ Len(new) <= MaxChanges
        BY <1>1, <2>3, EntityConstants, TimestampConstants
      <3>2. entity' \in [Devices -> EntityType]
        BY <1>1, <2>1, <2>11
      <3> QED
        BY <1>1, <2>1, <3>1, <3>2
           DEF TypeOK, EntityType, Change, Paths, Cids, Times
    <2>13. ASSUME NEW k \in Devices
           PROVE  EntityOK(new, entity'[k]) /\ LoadOK(new, entity'[k], loading[k])
      <3>1. CASE k = d
        BY <1>1, <2>1, <2>11, <3>1 DEF Idle, LoadOK
      <3>2. CASE k # d
        <4>1. entity'[k] = entity[k] /\ entity[k] \in EntityType
              /\ EntityOK(all, entity[k]) /\ LoadOK(all, entity[k], loading[k])
          BY <1>1, <2>1, <3>2 DEF EntityInv
        <4> QED
          BY <1>1, <1>3, <2>3, <4>1, ExtendKeepsOK, ExtendKeepsLoad
      <3> QED
        BY <3>1, <3>2
    <2> QED
      BY <2>1, <2>11, <2>12, <2>13 DEF EntityInv
  <1> QED
    BY <1>5, <1>6

\* CreateChange builds on all the heads, hence on everything applied.
LEMMA CreateStep ==
    ASSUME NoOverflow(Stamps), EntityInv, NEW d \in Devices, NEW patch \in Patches,
           NEW w \in Walls, NEW v \in Walls, CreateChange(d, patch, w, v)
    PROVE  EntityInv'
  <1> DEFINE e == entity[d]
  <1>1. /\ all \in Seq(Change) /\ GraphOK(all) /\ e \in EntityType /\ EntityOK(all, e)
    BY TypeMeans DEF EntityInv
  <1>2. ClosedOK(all, e) /\ StateOK(all, e) /\ ClockOK(all, e) /\ HeadsOK(all, e)
    BY <1>1 DEF EntityOK
  <1> HIDE DEF e
  <1>3. e.heads \in SUBSET e.applied
    BY <1>2 DEF HeadsOK
  <1>4. e.applied = Closure(e.heads)
    BY <1>2, <1>3 DEF Closure, HeadsOK, ClosedOK
  <1>5. \A a \in e.applied : a \in e.heads \/ \E k \in e.applied : a \in all[k].deps
    BY <1>2 DEF HeadsOK
  <1>6. Idle(d) /\ Make(d, e, e.heads, patch, w, v)
    BY DEF CreateChange, e
  <1> QED
    BY <1>1, <1>2, <1>3, <1>4, <1>5, <1>6, MakeStep

\* ReplaceChange builds on what the replaced head was built on.
LEMMA ReplaceStep ==
    ASSUME NoOverflow(Stamps), EntityInv, NEW d \in Devices, NEW old \in Made,
           NEW patch \in Patches, NEW w \in Walls, NEW v \in Walls,
           ReplaceChange(d, old, patch, w, v)
    PROVE  EntityInv'
  <1> DEFINE g == entity[d]
             e == [g EXCEPT !.applied = @ \ {old},
                            !.heads = {},
                            !.state = ForgetState(@, old)]
             deps == all[old].deps
  <1>1. /\ all \in Seq(Change) /\ GraphOK(all) /\ g \in EntityType /\ EntityOK(all, g)
        /\ old \in 1..Len(all) /\ g.heads = {old}
    BY TypeMeans DEF EntityInv, Made, ReplaceChange
  <1>2. ClosedOK(all, g) /\ StateOK(all, g) /\ ClockOK(all, g) /\ HeadsOK(all, g)
    BY <1>1 DEF EntityOK
  <1>3. Idle(d) /\ Make(d, e, deps, patch, w, v)
    BY DEF ReplaceChange
  <1>4. /\ e.applied = g.applied \ {old} /\ e.heads = {}
        /\ e.state = ForgetState(g.state, old) /\ e.maxClock = g.maxClock
        /\ e \in EntityType
    BY <1>1 DEF EntityType, ForgetState
  <1> HIDE DEF e, g
  <1>5. old \in g.applied /\ all[old].ancestors \subseteq g.applied
        /\ deps \subseteq all[old].ancestors
    BY <1>1, <1>2 DEF HeadsOK, ClosedOK, GraphOK
  <1>6. \A c \in 1..Len(all) : all[c].ts \in Nat
    BY <1>1, ChangeFacts
  <1>7. old \notin all[old].ancestors
    BY <1>1, <1>6 DEF GraphOK
  <1>8. e.applied = all[old].ancestors
    BY <1>1, <1>2, <1>4, <1>5, <1>7 DEF HeadsOK
  <1>9. deps \in SUBSET e.applied
    BY <1>5, <1>8
  <1>10. ClosedOK(all, e)
    BY <1>1, <1>8 DEF ClosedOK, GraphOK
  <1>11. StateOK(all, e)
    <2> SUFFICES ASSUME NEW n \in [path : Paths, time : Times, origin : Cids]
                 PROVE  n \in e.state <=>
                           /\ n.origin \in e.applied
                           /\ n.path \in all[n.origin].patch
                           /\ n.time = all[n.origin].ts
      BY DEF StateOK
    <2>1. n \in g.state <=> /\ n.origin \in g.applied
                            /\ n.path \in all[n.origin].patch
                            /\ n.time = all[n.origin].ts
      BY <1>2 DEF StateOK
    <2>2. n \in e.state <=> n \in g.state /\ ~ (n.time = all[old].ts /\ n.origin = old)
      BY <1>4 DEF ForgetState
    <2> QED
      BY <1>4, <2>1, <2>2
  <1>12. ClockOK(all, e)
    BY <1>2, <1>4 DEF ClockOK
  <1>13. e.applied = Closure(deps)
    BY <1>1, <1>5, <1>8 DEF Closure, GraphOK
  <1>14. \A a \in e.applied : a \in deps \/ \E k \in e.applied : a \in all[k].deps
    BY <1>1, <1>2, <1>4 DEF HeadsOK
  <1>15. e.heads \subseteq deps
    BY <1>4
  <1> HIDE DEF deps
  <1> QED
    BY <1>3, <1>4, <1>9, <1>10, <1>11, <1>12, <1>13, <1>14, <1>15, MakeStep

\* Every step keeps the invariant.
LEMMA NextKeepsInv ==
    ASSUME NoOverflow(Stamps), EntityInv, [Next]_vars
    PROVE  EntityInv'
  <1>1. CASE UNCHANGED vars
    <2>1. all' = all /\ entity' = entity /\ loading' = loading
      BY <1>1 DEF vars
    <2> QED
      BY <2>1 DEF EntityInv, TypeOK, Change, Paths, Cids, Times
  <1>2. CASE Next
    BY <1>2, ApplyStep, ApplyRefusedStep, CreateStep, ReplaceStep, LoadStartStep,
       LoadRowStep, LoadRefusedStep DEF Next
  <1> QED
    BY <1>1, <1>2

\* The invariant holds in every reachable state.
LEMMA EntityInvariant ==
    ASSUME NoOverflow(Stamps)
    PROVE  Spec => []EntityInv
  <1>1. EntityInv /\ [Next]_vars => EntityInv'
    BY NextKeepsInv
  <1> QED
    BY InitEntityInv, <1>1, PTL DEF Spec

-------------------------------------------------------------------------------
\* What an entity has applied is determined by its heads.
LEMMA AppliedBelowHeads ==
    ASSUME NEW log, NEW e, NEW f, ClosedOK(log, e), HeadsOK(log, e),
           ClosedOK(log, f), HeadsOK(log, f), e.heads = f.heads
    PROVE  e.applied = f.applied
  <1>1. e.heads \subseteq e.applied /\ f.heads \subseteq f.applied
    BY DEF HeadsOK
  <1>2. e.applied \subseteq f.applied
    BY <1>1 DEF HeadsOK, ClosedOK
  <1>3. f.applied \subseteq e.applied
    BY <1>1 DEF HeadsOK, ClosedOK
  <1> QED
    BY <1>2, <1>3

\* Type correctness of entities: in particular every timestamp a device
\* accepts or creates stays within the threshold of the wall clocks.
THEOREM EntityTypes ==
    ASSUME NoOverflow(Stamps)
    PROVE  Spec => []TypeOK
  <1>1. EntityInv => TypeOK
    BY DEF EntityInv
  <1> QED
    BY EntityInvariant, <1>1, PTL

\* The version of an entity names its content (Entity.Version, Entity.Heads):
\* equal heads mean equal applied changes and equal maps.
THEOREM VersionNamesContent ==
    ASSUME NoOverflow(Stamps)
    PROVE  Spec => []SameVersionSameState
  <1>1. ASSUME EntityInv
        PROVE  SameVersionSameState
    <2> SUFFICES ASSUME NEW d \in Devices, NEW k \in Devices,
                        entity[d].heads = entity[k].heads
                 PROVE  /\ entity[d].applied = entity[k].applied
                        /\ entity[d].state = entity[k].state
      BY DEF SameVersionSameState
    <2>1. \A x \in Devices : /\ ClosedOK(all, entity[x]) /\ HeadsOK(all, entity[x])
                             /\ StateOK(all, entity[x]) /\ entity[x] \in EntityType
      BY <1>1, TypeMeans DEF EntityInv, EntityOK
    <2>2. entity[d].applied = entity[k].applied
      BY <2>1, AppliedBelowHeads
    <2>3. entity[d].state \subseteq [path : Paths, time : Times, origin : Cids]
          /\ entity[k].state \subseteq [path : Paths, time : Times, origin : Cids]
      BY <2>1 DEF EntityType
    <2>4. \A n \in [path : Paths, time : Times, origin : Cids] :
             n \in entity[d].state <=> n \in entity[k].state
      BY <2>1, <2>2 DEF StateOK
    <2> QED
      BY <2>2, <2>3, <2>4
  <1> QED
    BY EntityInvariant, <1>1, PTL

\* The heads that ApplyChange maintains step by step are the maximal
\* applied changes, and what is applied is causally closed.
THEOREM HeadsAreTheMaximalChanges ==
    ASSUME NoOverflow(Stamps)
    PROVE  Spec => []HeadsAreMaximal
  <1>1. ASSUME EntityInv
        PROVE  HeadsAreMaximal
    BY <1>1 DEF EntityInv, EntityOK, ClosedOK, HeadsOK, HeadsAreMaximal, GraphOK
  <1> QED
    BY EntityInvariant, <1>1, PTL

\* The last-writer-wins map respects causality: a write is never hidden by
\* one its author had seen (Map.Get).
THEOREM CausalityWins ==
    ASSUME NoOverflow(Stamps)
    PROVE  Spec => []LaterEditWins
  <1>1. ASSUME EntityInv
        PROVE  LaterEditWins
    <2> SUFFICES ASSUME NEW d \in Devices, NEW p \in Paths,
                        NEW win \in Get(entity[d], p), NEW c \in entity[d].applied,
                        p \in all[c].patch, win \in all[c].ancestors
                 PROVE  FALSE
      BY DEF LaterEditWins
    <2>1. /\ all \in Seq(Change) /\ entity[d] \in EntityType /\ GraphOK(all)
          /\ ClosedOK(all, entity[d]) /\ StateOK(all, entity[d])
      BY <1>1, TypeMeans DEF EntityInv, EntityOK
    <2>2. c \in 1..Len(all) /\ c \in Cids /\ win \in 1..Len(all) /\ all[win].ts < all[c].ts
      BY <2>1 DEF ClosedOK, GraphOK, EntityType
    <2>3. all[c].ts \in Times /\ all[win].ts \in Nat /\ all[c].ts \in Nat
      BY <2>1, <2>2, ChangeFacts
    <2>4. PICK m \in entity[d].state :
             /\ m.origin = win /\ m.path = p
             /\ \A k \in entity[d].state : k.path = p => k = m \/ Less(k, m)
      BY DEF Get
    <2>5. m.time = all[win].ts
      BY <2>1, <2>4 DEF StateOK, EntityType
    <2> DEFINE n == [path |-> p, time |-> all[c].ts, origin |-> c]
    <2>6. n \in [path : Paths, time : Times, origin : Cids]
          /\ n.path = p /\ n.time = all[c].ts /\ n.origin = c
      BY <2>2, <2>3
    <2> HIDE DEF n
    <2>7. n \in entity[d].state
      BY <2>1, <2>6 DEF StateOK
    <2> QED
      BY <2>2, <2>3, <2>4, <2>5, <2>6, <2>7 DEF Less
  <1> QED
    BY EntityInvariant, <1>1, PTL

\* A load fails only because a timestamp is ahead of the wall clock.
THEOREM LoadsFailOnlyForSkew ==
    ASSUME NoOverflow(Stamps)
    PROVE  Spec => LoadFailsOnlyForSkew
  <1> DEFINE A == \A d \in Devices, c \in Made, w \in Walls :
                     LoadRefused(d, c, w) => WayAhead(all[c].ts, w)
  <1>1. ASSUME EntityInv
        PROVE  A
    <2> SUFFICES ASSUME NEW d \in Devices, NEW c \in Made, NEW w \in Walls,
                        LoadRefused(d, c, w)
                 PROVE  WayAhead(all[c].ts, w)
      OBVIOUS
    <2>1. /\ c \in 1..Len(all) /\ c \notin entity[d].applied
          /\ all[c].deps \subseteq entity[d].applied
          /\ entity[d].maxClock <= all[c].ts
          /\ \A a \in Devices : entity[d].vectorClock[a] <= all[c].ts
      BY <1>1, NextRowFits DEF LoadRefused
    <2>2. /\ all \in Seq(Change) /\ entity[d] \in EntityType
      BY <1>1, TypeMeans DEF EntityInv
    <2>3. all[c].ts \in Nat /\ all[c].actor \in Devices
      BY <2>1, <2>2, ChangeFacts
    <2>4. entity[d].maxClock \in Nat /\ entity[d].vectorClock[all[c].actor] \in Nat
      BY <2>2, <2>3, EntityConstants, TimestampConstants DEF EntityType, Times
    <2> QED
      BY <2>1, <2>3, <2>4 DEF LoadRefused, Refused, RefusedEarly
  <1>2. EntityInv => [A]_vars
    BY <1>1
  <1> QED
    BY EntityInvariant, <1>2, PTL DEF LoadFailsOnlyForSkew

-------------------------------------------------------------------------------
\* Of some changes one is not younger than any other.
LEMMA OldestOf ==
    ASSUME NEW log \in Seq(Change), NEW S \in SUBSET (1..Len(log)), S # {}
    PROVE  \E c \in S : \A k \in S : ~ (log[k].ts < log[c].ts)
  <1> DEFINE T == {log[c].ts : c \in S}
  <1>1. \A c \in S : log[c].ts \in Nat
    BY ChangeFacts
  <1>2. T \subseteq Nat /\ T # {}
    BY <1>1
  <1>3. PICK t \in T : \A u \in T : ~ (<<u, t>> \in OpToRel(<, Nat))
    BY <1>2, WFMin, NatLessThanWellFounded
  <1>4. \A u \in T : u < t => <<u, t>> \in OpToRel(<, Nat)
    BY <1>2 DEF OpToRel
  <1> QED
    BY <1>3, <1>4

\* Of some changes one is not older than any other: timestamps are bounded.
LEMMA NewestOf ==
    ASSUME NEW log \in Seq(Change), NEW S \in SUBSET (1..Len(log)), S # {}
    PROVE  \E c \in S : \A k \in S : ~ (log[c].ts < log[k].ts)
  <1>1. MaxWall + Skew \in Nat /\ \A c \in S : log[c].ts <= MaxWall + Skew
    BY ChangeFacts, EntityConstants, TimestampConstants DEF Times
  <1>2. PICK m \in Nat : \A c \in S : log[c].ts <= m
    BY <1>1
  <1>3. \A c \in S : log[c].ts \in Nat /\ m - log[c].ts \in Nat
    BY <1>2, ChangeFacts
  <1> DEFINE T == {m - log[c].ts : c \in S}
  <1>4. T \subseteq Nat /\ T # {}
    BY <1>3
  <1>5. PICK t \in T : \A u \in T : ~ (<<u, t>> \in OpToRel(<, Nat))
    BY <1>4, WFMin, NatLessThanWellFounded
  <1>6. \A u \in T : u < t => <<u, t>> \in OpToRel(<, Nat)
    BY <1>4 DEF OpToRel
  <1>7. PICK c \in S : t = m - log[c].ts
    BY <1>5
  <1>8. ASSUME NEW k \in S
        PROVE  ~ (log[c].ts < log[k].ts)
    <2>1. ~ (m - log[k].ts < m - log[c].ts)
      BY <1>5, <1>6, <1>7
    <2> QED
      BY <1>3, <2>1
  <1> QED
    BY <1>8

\* A head is not an ancestor of anything applied: the oldest applied change
\* above it would directly build on it.
LEMMA HeadsAreOnTop ==
    ASSUME NEW log \in Seq(Change), GraphOK(log), NEW e,
           ClosedOK(log, e), HeadsOK(log, e),
           NEW h \in e.heads, NEW c \in e.applied
    PROVE  h \notin log[c].ancestors
  <1> SUFFICES ASSUME h \in log[c].ancestors
               PROVE  FALSE
    OBVIOUS
  <1> DEFINE S == {k \in e.applied : h \in log[k].ancestors}
  <1>1. S \in SUBSET (1..Len(log)) /\ S # {}
    BY DEF ClosedOK
  <1>2. PICK k \in S : \A j \in S : ~ (log[j].ts < log[k].ts)
    BY <1>1, OldestOf
  <1>3. h \notin log[k].deps
    BY <1>2 DEF HeadsOK
  <1>4. PICK x \in log[k].deps : h \in log[x].ancestors
    BY <1>1, <1>2, <1>3 DEF GraphOK
  <1>5. x \in S /\ log[x].ts < log[k].ts
    BY <1>1, <1>2, <1>4 DEF GraphOK, ClosedOK
  <1> QED
    BY <1>2, <1>5

\* The reduction of Entity.Deps keeps whatever the changes of F reach: it
\* drops a change only for a younger one that builds on it.
LEMMA ReductionReaches ==
    ASSUME NEW log \in Seq(Change), GraphOK(log), NEW F \in SUBSET (1..Len(log)),
           NEW n \in F, NEW a, a = n \/ a \in log[n].ancestors
    PROVE  \E r \in F : /\ ~ \E k \in F : r \in log[k].deps
                        /\ a = r \/ a \in log[r].ancestors
  <1> DEFINE S == {r \in F : a = r \/ a \in log[r].ancestors}
  <1>1. S \in SUBSET (1..Len(log)) /\ S # {}
    OBVIOUS
  <1>2. PICK r \in S : \A k \in S : ~ (log[r].ts < log[k].ts)
    BY <1>1, NewestOf
  <1>3. ASSUME NEW k \in F, r \in log[k].deps
        PROVE  FALSE
    <2>1. k \in S /\ log[r].ts < log[k].ts
      BY <1>2, <1>3 DEF GraphOK
    <2> QED
      BY <1>2, <2>1
  <1> QED
    BY <1>2, <1>3

\* What the heads are built on reaches everything applied but the heads.
LEMMA RestIsBelowHeads ==
    ASSUME all \in Seq(Change), GraphOK(all), NEW e, ClosedOK(all, e), HeadsOK(all, e),
           NEW F, F = UNION {all[h].deps : h \in e.heads}
    PROVE  /\ F \in SUBSET (1..Len(all))
           /\ Closure(F) = e.applied \ e.heads
  <1>1. e.heads \subseteq e.applied /\ e.applied \subseteq 1..Len(all)
    BY DEF HeadsOK, ClosedOK
  <1>2. \A n \in F : n \in e.applied /\ n \notin e.heads
    BY <1>1 DEF GraphOK, ClosedOK, HeadsOK
  <1>3. \A n \in F : \A a \in all[n].ancestors : a \in e.applied /\ a \notin e.heads
    BY <1>2, HeadsAreOnTop DEF ClosedOK
  <1>4. ASSUME NEW a \in e.applied, a \notin e.heads
        PROVE  a \in Closure(F)
    <2>1. PICK h \in e.heads : a \in all[h].ancestors
      BY <1>4 DEF HeadsOK
    <2>2. a \in all[h].deps \/ \E x \in all[h].deps : a \in all[x].ancestors
      BY <1>1, <2>1 DEF GraphOK
    <2> QED
      BY <2>2 DEF Closure
  <1>5. \A a \in Closure(F) : a \in e.applied /\ a \notin e.heads
    BY <1>2, <1>3 DEF Closure
  <1> QED
    BY <1>1, <1>2, <1>4, <1>5

\* Entity.Deps of an entity in order reaches everything but the heads,
\* whether there is one head or the dependencies are reduced.
LEMMA DepsReach ==
    ASSUME all \in Seq(Change), GraphOK(all), NEW e, ClosedOK(all, e), HeadsOK(all, e)
    PROVE  Closure(Deps(e)) = e.applied \ e.heads
  <1> DEFINE F == UNION {all[h].deps : h \in e.heads}
  <1>1. F \in SUBSET (1..Len(all)) /\ Closure(F) = e.applied \ e.heads
    BY RestIsBelowHeads
  <1>2. CASE Cardinality(e.heads) = 1
    BY <1>1, <1>2 DEF Deps
  <1>3. CASE Cardinality(e.heads) # 1
    <2>1. Deps(e) = {n \in F : ~ \E r \in F : n \in all[r].deps}
      BY <1>3 DEF Deps, DepsOf
    <2> HIDE DEF F
    <2>2. Closure(Deps(e)) \subseteq Closure(F)
      BY <2>1 DEF Closure
    <2>3. ASSUME NEW a \in Closure(F)
          PROVE  a \in Closure(Deps(e))
      <3>1. PICK n \in F : a = n \/ a \in all[n].ancestors
        BY DEF Closure
      <3>2. PICK r \in F : /\ ~ \E k \in F : r \in all[k].deps
                           /\ a = r \/ a \in all[r].ancestors
        BY <1>1, <3>1, ReductionReaches
      <3> QED
        BY <2>1, <3>2 DEF Closure
    <2> QED
      BY <1>1, <2>2, <2>3
  <1> QED
    BY <1>2, <1>3

\* The previous version of an entity loses nothing (Entity.Deps): with its
\* ancestors it is all that is applied but the heads, even though the
\* reduction for several heads only looks at direct dependencies.
THEOREM PreviousVersionIsComplete ==
    ASSUME NoOverflow(Stamps)
    PROVE  Spec => []DepsReachTheRest
  <1>1. ASSUME EntityInv
        PROVE  DepsReachTheRest
    <2> SUFFICES ASSUME NEW d \in Devices
                 PROVE  Closure(Deps(entity[d])) = entity[d].applied \ entity[d].heads
      BY DEF DepsReachTheRest
    <2>1. all \in Seq(Change) /\ GraphOK(all)
          /\ ClosedOK(all, entity[d]) /\ HeadsOK(all, entity[d])
      BY <1>1, TypeMeans DEF EntityInv, EntityOK
    <2> QED
      BY <2>1, DepsReach
  <1> QED
    BY EntityInvariant, <1>1, PTL
==============================================================================
