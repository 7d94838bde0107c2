------------------------- MODULE SyncWorkers_proofs -------------------------
(***************************************************************************)
(* The map of workers and the semaphore, for any number of peers, slots    *)
(* and goroutines that run at a time.                                      *)
(***************************************************************************)
EXTENDS SyncWorkers, FiniteSetTheorems, TLAPS

\* A worker number that is not in use has no trace of its last goroutine.
UnusedOK == \A w \in Worker : state[w].pc = "unused" => state[w] = Unused

\* The workers that hold a slot of the semaphore.
Holders == {w \in Worker : state[w].holds}

WorkersInv ==
    /\ TypeOK
    /\ UnusedOK
    /\ MapMatchesGoroutines
    /\ SlotsAreHeld

-----------------------------------------------------------------------------
\* There are finitely many workers, so that Cardinality counts them.
LEMMA WorkersFinite == IsFiniteSet(Worker)
<1>1. IsFiniteSet(1..MaxWorkers)
    BY FS_Interval, SyncWorkersConstants
<1>. QED  BY <1>1, FS_Product, SyncWorkersConstants DEF Worker

\* Unused is a state that a goroutine can have.
LEMMA UnusedType == Unused \in Goroutine
BY DEF Unused, Goroutine

\* Slots are counted right as long as no worker takes or gives back one.
LEMMA SameHolders ==
    ASSUME SlotsAreHeld, Holders' = Holders, semaphore' = semaphore,
           \A w \in Worker : state'[w].holds => state'[w].pc = "dialing"
    PROVE  SlotsAreHeld'
<1>1. semaphore = Cardinality(Holders)
    BY DEF SlotsAreHeld, Holders
<1>2. semaphore' = Cardinality(Holders')
    BY <1>1
<1>. QED  BY <1>2 DEF SlotsAreHeld, Holders, Worker

\* What a step of worker w must keep for the map to match the goroutines:
\* it goes on and is cancelled neither more nor less than before, or it ends
\* after it was cancelled.
LEMMA StepKeepsMap ==
    ASSUME WorkersInv, NEW w \in Worker, NEW s \in Goroutine,
           state' = [state EXCEPT ![w] = s],
           UNCHANGED <<service, workers>>,
           \/ /\ state[w].pc # "unused" /\ s.pc # "unused"
              /\ s.cancelled = state[w].cancelled
           \/ s = Unused /\ (service = "on" => state[w].cancelled)
    PROVE  /\ state' \in [Worker -> Goroutine]
           /\ UnusedOK'
           /\ MapMatchesGoroutines'
<1>1. state \in [Worker -> Goroutine]
    BY DEF WorkersInv, TypeOK
<1>2. state' \in [Worker -> Goroutine]
    BY <1>1
<1>3. \A v \in Worker : state'[v] = IF v = w THEN s ELSE state[v]
    BY <1>1
<1>4. UnusedOK'
    <2>1. \A v \in Worker : state[v].pc = "unused" => state[v] = Unused
        BY DEF WorkersInv, UnusedOK
    <2>2. \A v \in Worker : state'[v].pc = "unused" => state'[v] = Unused
        BY <1>3, <2>1
    <2>. QED  BY <2>2 DEF UnusedOK, Worker, Unused
<1>5. ASSUME service = "on"
      PROVE  {v \in Worker : Running(v) /\ ~ state[v].cancelled}' =
             {v \in Worker : Running(v) /\ ~ state[v].cancelled}
    <2>1. \A v \in Worker : (Running(v) /\ ~ state[v].cancelled)' <=>
                            (Running(v) /\ ~ state[v].cancelled)
        <3>. SUFFICES ASSUME NEW v \in Worker
                      PROVE  (Running(v) /\ ~ state[v].cancelled)' <=>
                             (Running(v) /\ ~ state[v].cancelled)
            OBVIOUS
        <3>1. CASE v # w
            BY <3>1, <1>3 DEF Running
        <3>2. CASE v = w /\ s = Unused
            BY <3>2, <1>3, <1>5 DEF Running, Unused
        <3>3. CASE v = w /\ s # Unused
            <4>1. state'[v] = s /\ s.pc # "unused" /\ state[v].pc # "unused"
                  /\ s.cancelled = state[v].cancelled
                BY <3>3, <1>3
            <4>2. Running(v) /\ Running(v)'
                BY <4>1 DEF Running, Unused
            <4>. QED  BY <4>1, <4>2
        <3>. QED  BY <3>1, <3>2, <3>3
    <2>. QED  BY <2>1 DEF Worker
<1>. QED  BY <1>2, <1>4, <1>5 DEF WorkersInv, MapMatchesGoroutines

\* A step that leaves holds alone, and does so in "dialing" only if it is set,
\* keeps the count of the slots.
LEMMA StepKeepsSlots ==
    ASSUME WorkersInv, NEW w \in Worker, NEW s \in Goroutine,
           state' = [state EXCEPT ![w] = s],
           semaphore' = semaphore,
           s.holds = state[w].holds,
           s.holds => s.pc = "dialing"
    PROVE  SlotsAreHeld'
<1>1. \A v \in Worker : state'[v] = IF v = w THEN s ELSE state[v]
    BY DEF WorkersInv, TypeOK
<1>2. Holders' = Holders
    BY <1>1 DEF Holders, Worker
<1>3. \A v \in Worker : state'[v].holds => state'[v].pc = "dialing"
    BY <1>1 DEF WorkersInv, SlotsAreHeld
<1>. QED  BY <1>2, <1>3, SameHolders DEF WorkersInv

\* A worker that leaves "dialing" gives back the slot it has, if it has one.
LEMMA ReleaseKeepsSlots ==
    ASSUME WorkersInv, NEW w \in Worker, NEW s \in Goroutine,
           state' = [state EXCEPT ![w] = s],
           semaphore' = Release(w),
           s.holds = FALSE
    PROVE  SlotsAreHeld' /\ semaphore' \in 0..Slots
<1>1. \A v \in Worker : state'[v] = IF v = w THEN s ELSE state[v]
    BY DEF WorkersInv, TypeOK
<1>2. Holders' = Holders \ {w}
    BY <1>1 DEF Holders, Worker
<1>3. IsFiniteSet(Holders)
    BY WorkersFinite, FS_Subset DEF Holders
<1>4. semaphore = Cardinality(Holders) /\ semaphore \in 0..Slots /\ Slots \in Nat
    BY SyncWorkersConstants DEF WorkersInv, SlotsAreHeld, Holders, TypeOK
<1>5. Cardinality(Holders') =
         IF state[w].holds THEN Cardinality(Holders) - 1 ELSE Cardinality(Holders)
    BY <1>2, <1>3, FS_RemoveElement DEF Holders
<1>6. semaphore' = Cardinality(Holders')
    BY <1>4, <1>5 DEF Release
<1>7. Cardinality(Holders') \in Nat
    BY <1>2, <1>3, FS_RemoveElement, FS_CardinalityType
<1>8. \A v \in Worker : state'[v].holds => state'[v].pc = "dialing"
    BY <1>1 DEF WorkersInv, SlotsAreHeld
<1>9. semaphore' \in 0..Slots
    BY <1>4, <1>6, <1>7 DEF Release
<1>. QED  BY <1>6, <1>8, <1>9 DEF SlotsAreHeld, Holders, Worker

\* Spawn gives each of the peers one worker, with a number that is free.
LEMMA SpawnIsUnused ==
    ASSUME NEW peers \in SUBSET Peers, Injection(peers, Free) # {}
    PROVE  /\ Spawn(peers) \subseteq Worker
           /\ \A w \in Spawn(peers) : w[1] \in peers /\ ~ Running(w)
           /\ \A v, w \in Spawn(peers) : v[1] = w[1] => v = w
<1>. DEFINE number == CHOOSE f \in Injection(peers, Free) : TRUE
<1>1. number \in Injection(peers, Free)
    OBVIOUS
<1>2. number \in [peers -> Free]
    BY <1>1 DEF Injection
<1>3. Spawn(peers) = {<<p, number[p]>> : p \in peers}
    BY DEF Spawn
<1>. HIDE DEF number
<1>4. \A p \in peers : number[p] \in 1..MaxWorkers /\ ~ Running(<<p, number[p]>>)
    BY <1>2 DEF Free
<1>. QED  BY <1>3, <1>4 DEF Worker

-----------------------------------------------------------------------------
\* refreshWorkers keeps the map and the goroutines together.
LEMMA RefreshKeeps == WorkersInv /\ Refresh => WorkersInv'
<1>. SUFFICES ASSUME WorkersInv, Refresh  PROVE WorkersInv'
    OBVIOUS
<1>. DEFINE added == {p \in trusted : \A w \in workers : w[1] # p}
            new == Spawn(added)
            stopped == {w \in workers : w[1] \notin trusted}
<1>1. state \in [Worker -> Goroutine] /\ trusted \subseteq Peers /\ workers \subseteq Worker
    BY DEF WorkersInv, TypeOK
<1>2. CASE service' = "panic" /\ UNCHANGED <<workers, state>>
    <2>1. UNCHANGED <<trusted, net, semaphore>>
        BY DEF Refresh
    <2>. QED  BY <1>2, <2>1 DEF WorkersInv, TypeOK, UnusedOK, MapMatchesGoroutines, SlotsAreHeld
<1>3. CASE /\ workers' = Forget(stopped) \cup new
           /\ state' = [w \in Worker |->
                 IF w \in new THEN [state[w] EXCEPT !.pc = "spawned"]
                 ELSE IF w \in stopped THEN [state[w] EXCEPT !.cancelled = TRUE]
                 ELSE state[w]]
           /\ UNCHANGED service
    <2>1. service = "on" /\ UNCHANGED <<trusted, net, semaphore>>
        BY DEF Refresh
    <2>2. /\ new \subseteq Worker
          /\ \A w \in new : w[1] \in added /\ ~ Running(w)
          /\ \A v, w \in new : v[1] = w[1] => v = w
        <3>1. Injection(added, Free) # {} /\ added \in SUBSET Peers
            BY <1>1 DEF Refresh
        <3>. HIDE DEF added
        <3>. QED  BY <3>1, SpawnIsUnused
    <2>3. \A w \in new : state[w] = Unused
        BY <2>2 DEF Running
    <2>4. workers = {w \in Worker : Running(w) /\ ~ state[w].cancelled}
        BY <2>1 DEF WorkersInv, MapMatchesGoroutines
    <2>5. \A w \in new : state'[w] = [Unused EXCEPT !.pc = "spawned"]
        <3>. HIDE DEF new, stopped
        <3>. QED  BY <1>3, <2>2, <2>3
    <2>6. \A w \in stopped : w \notin new /\ state'[w] = [state[w] EXCEPT !.cancelled = TRUE]
        <3>1. \A w \in stopped : w \notin new
            <4>. HIDE DEF new
            <4>. QED  BY <2>2
        <3>. QED  BY <3>1, <1>1, <1>3
    <2>7. \A w \in Worker \ (new \cup stopped) : state'[w] = state[w]
        BY <1>3
    <2>8. \A w \in Worker : state[w].pc = "unused" => state[w] = Unused
        BY DEF WorkersInv, UnusedOK
    <2>9. \A w \in stopped : state[w].pc # "unused" /\ state[w] \in Goroutine
        BY <1>1, <2>4, <2>8 DEF Running
    <2>10. \A w \in new : /\ state'[w] \in Goroutine
                          /\ state'[w].pc = "spawned"
                          /\ ~ state'[w].cancelled
                          /\ ~ state'[w].holds /\ ~ state[w].holds
        <3>1. LET s == [Unused EXCEPT !.pc = "spawned"]
              IN  s \in Goroutine /\ s.pc = "spawned" /\ ~ s.cancelled /\ ~ s.holds
            BY DEF Goroutine, Unused
        <3>2. ~ Unused.holds
            BY DEF Unused
        <3>. HIDE DEF new
        <3>. QED  BY <2>2, <2>3, <2>5, <3>1, <3>2
    <2>11. \A w \in stopped : /\ state'[w] \in Goroutine
                              /\ state'[w].pc = state[w].pc
                              /\ state'[w].cancelled
                              /\ state'[w].holds = state[w].holds
        <3>1. \A g \in Goroutine :
                 LET s == [g EXCEPT !.cancelled = TRUE]
                 IN  s \in Goroutine /\ s.pc = g.pc /\ s.cancelled /\ s.holds = g.holds
            BY DEF Goroutine
        <3>. HIDE DEF stopped
        <3>. QED  BY <2>6, <2>9, <3>1
    <2>. stopped \subseteq workers
        OBVIOUS
    <2>. HIDE DEF stopped, new, added
    <2>12. TypeOK'
        <3>1. \A w \in Worker : state'[w] \in Goroutine
            BY <1>1, <2>7, <2>10, <2>11
        <3>2. state' \in [Worker -> Goroutine]
            BY <1>3, <3>1
        <3>. QED  BY <1>1, <1>3, <2>1, <2>2, <3>2 DEF WorkersInv, TypeOK, Forget
    <2>13. UnusedOK'
        <3>1. \A w \in Worker : state'[w].pc = "unused" => state'[w] = Unused
            BY <2>7, <2>8, <2>9, <2>10, <2>11
        <3>. QED  BY <3>1 DEF UnusedOK, Unused, Worker
    <2>14. \A w \in Worker : (Running(w) /\ ~ state[w].cancelled)' <=> w \in workers'
        <3>1. \A w \in new : (Running(w) /\ ~ state[w].cancelled)' /\ w \in workers'
            BY <2>10, <1>3 DEF Running, Unused
        <3>2. \A w \in stopped : ~ (Running(w) /\ ~ state[w].cancelled)' /\ w \notin workers'
            BY <2>6, <2>11, <1>3 DEF Forget
        <3>3. \A w \in Worker \ (new \cup stopped) :
                 /\ (Running(w) /\ ~ state[w].cancelled)' <=> w \in workers
                 /\ w \in workers' <=> w \in workers
            BY <2>4, <2>7, <1>3 DEF Running, Forget
        <3>. QED  BY <3>1, <3>2, <3>3
    <2>15. workers' = {w \in Worker : Running(w) /\ ~ state[w].cancelled}'
        <3>1. workers' \subseteq Worker
            BY <2>12 DEF TypeOK, Worker
        <3>. QED  BY <2>14, <3>1 DEF Worker
    <2>16. \A v, w \in workers' : v[1] = w[1] => v = w
        <3>1. \A v, w \in workers : v[1] = w[1] => v = w
            BY <2>1 DEF WorkersInv, MapMatchesGoroutines
        <3>2. workers' \subseteq workers \cup new
            BY <1>3 DEF Forget
        <3>3. \A v \in new, w \in workers : v[1] # w[1]
            BY <2>2 DEF added
        <3>. QED  BY <3>1, <3>2, <3>3, <2>2
    <2>17. SlotsAreHeld'
        <3>1. \A w \in Worker : /\ state'[w].holds = state[w].holds
                                /\ state'[w].pc = state[w].pc \/ ~ state[w].holds
            BY <1>1, <2>7, <2>10, <2>11 DEF Goroutine
        <3>2. Holders' = Holders
            BY <3>1 DEF Holders, Worker
        <3>3. \A w \in Worker : state'[w].holds => state'[w].pc = "dialing"
            BY <3>1 DEF WorkersInv, SlotsAreHeld
        <3>. QED  BY <2>1, <3>2, <3>3, SameHolders DEF WorkersInv
    <2>. QED  BY <2>12, <2>13, <2>15, <2>16, <2>17 DEF WorkersInv, MapMatchesGoroutines
<1>. QED  BY <1>2, <1>3 DEF Refresh

\* Every step of a worker keeps the invariant.
LEMMA StepKeeps ==
    ASSUME WorkersInv, NEW w \in Worker, Step(w)
    PROVE  WorkersInv'
<1>1. /\ state \in [Worker -> Goroutine]
      /\ state[w] \in Goroutine
      /\ w[1] \in Peers /\ net[w[1]] \in {"noaddr", "online", "offline"}
      /\ semaphore \in 0..Slots /\ Slots \in Nat
    BY SyncWorkersConstants DEF WorkersInv, TypeOK, Worker
<1>2. state[w].holds => state[w].pc = "dialing"
    BY DEF WorkersInv, SlotsAreHeld
<1>3. UNCHANGED <<service, trusted, workers>>
    BY DEF Step, Begin, Exit, Tick, Connect, Acquire, Abandon, DialOk, DialFails, SyncDone, Deadline
<1>4. net' \in [Peers -> {"noaddr", "online", "offline"}]
    BY <1>1 DEF Step, Begin, Exit, Tick, Connect, Acquire, Abandon, DialOk, DialFails,
                SyncDone, Deadline, WorkersInv, TypeOK
\* The worker goes on and keeps its slot, or has none.
<1>5. ASSUME NEW s \in Goroutine, state' = [state EXCEPT ![w] = s], semaphore' = semaphore,
             state[w].pc # "unused", s.pc # "unused", s.cancelled = state[w].cancelled,
             s.holds = state[w].holds, s.holds => s.pc = "dialing"
      PROVE  WorkersInv'
    <2>1. /\ state' \in [Worker -> Goroutine]
          /\ UnusedOK'
          /\ MapMatchesGoroutines'
        BY <1>3, <1>5, StepKeepsMap
    <2>2. SlotsAreHeld'
        BY <1>5, StepKeepsSlots
    <2>3. TypeOK'
        BY <1>3, <1>4, <1>5, <2>1 DEF WorkersInv, TypeOK, Worker, Goroutine
    <2>. QED  BY <2>1, <2>2, <2>3 DEF WorkersInv
\* The worker leaves "dialing".
<1>6. ASSUME NEW s \in Goroutine, state' = [state EXCEPT ![w] = s], semaphore' = Release(w),
             state[w].pc # "unused", s.pc # "unused", s.cancelled = state[w].cancelled,
             s.holds = FALSE
      PROVE  WorkersInv'
    <2>1. /\ state' \in [Worker -> Goroutine]
          /\ UnusedOK'
          /\ MapMatchesGoroutines'
        BY <1>3, <1>6, StepKeepsMap
    <2>2. SlotsAreHeld' /\ semaphore' \in 0..Slots
        BY <1>6, ReleaseKeepsSlots
    <2>3. TypeOK'
        BY <1>3, <1>4, <2>1, <2>2 DEF WorkersInv, TypeOK, Worker, Goroutine
    <2>. QED  BY <2>1, <2>2, <2>3 DEF WorkersInv
<1>7. CASE Begin(w)
    <2>. DEFINE s == [state[w] EXCEPT !.pc = "sleeping"]
    <2>1. s \in Goroutine /\ s.pc = "sleeping" /\ s.cancelled = state[w].cancelled
          /\ s.holds = state[w].holds
        BY <1>1 DEF Goroutine
    <2>2. state' = [state EXCEPT ![w] = s] /\ state[w].pc = "spawned" /\ semaphore' = semaphore
        BY <1>1, <1>7 DEF Begin
    <2>. QED  BY <1>2, <1>5, <2>1, <2>2
<1>8. CASE Exit(w)
    <2>1. state' = [state EXCEPT ![w] = Unused] /\ state[w].pc = "sleeping"
          /\ semaphore' = semaphore /\ (service = "on" => state[w].cancelled)
        BY <1>8 DEF Exit, Cancelled
    <2>2. /\ state' \in [Worker -> Goroutine]
          /\ UnusedOK'
          /\ MapMatchesGoroutines'
        BY <1>3, <2>1, StepKeepsMap, UnusedType
    <2>3. Unused.holds = FALSE /\ state[w].holds = FALSE
        BY <1>1, <1>2, <2>1 DEF Unused, Goroutine
    <2>4. SlotsAreHeld'
        BY <2>1, <2>3, UnusedType, StepKeepsSlots
    <2>5. TypeOK'
        BY <1>3, <1>4, <2>1, <2>2 DEF WorkersInv, TypeOK, Worker, Goroutine
    <2>. QED  BY <2>2, <2>4, <2>5 DEF WorkersInv
<1>9. CASE Tick(w)
    <2>. DEFINE s == IF net[w[1]] = "online" THEN ToSyncing(state[w])
                     ELSE IF state[w].backoff THEN state[w]
                     ELSE [state[w] EXCEPT !.pc = "connecting"]
    <2>1. state' = [state EXCEPT ![w] = s] /\ state[w].pc = "sleeping" /\ semaphore' = semaphore
        BY <1>1, <1>9 DEF Tick
    <2>2. s \in Goroutine /\ s.pc # "unused" /\ s.cancelled = state[w].cancelled
          /\ s.holds = state[w].holds
        BY <1>1, <2>1 DEF Goroutine, ToSyncing
    <2>. HIDE DEF s
    <2>. QED  BY <1>2, <1>5, <2>1, <2>2
<1>10. CASE Connect(w)
    <2>. DEFINE s == IF net[w[1]] = "online" THEN ToSyncing(state[w])
                     ELSE IF net[w[1]] = "noaddr" /\ ~ state[w].first
                       THEN [state[w] EXCEPT !.pc = "waiting"]
                     ELSE [state[w] EXCEPT !.pc = "dialing"]
    <2>1. state' = [state EXCEPT ![w] = s] /\ state[w].pc = "connecting" /\ semaphore' = semaphore
        BY <1>1, <1>10 DEF Connect
    <2>2. s \in Goroutine /\ s.pc # "unused" /\ s.cancelled = state[w].cancelled
          /\ s.holds = state[w].holds
        BY <1>1, <2>1 DEF Goroutine, ToSyncing
    <2>. HIDE DEF s
    <2>. QED  BY <1>2, <1>5, <2>1, <2>2
<1>11. CASE Acquire(w)
    <2>. DEFINE s == [state[w] EXCEPT !.pc = "dialing", !.holds = TRUE]
    <2>1. state' = [state EXCEPT ![w] = s] /\ state[w].pc = "waiting"
          /\ semaphore < Slots /\ semaphore' = semaphore + 1
        BY <1>1, <1>11 DEF Acquire
    <2>2. s \in Goroutine /\ s.pc = "dialing" /\ s.cancelled = state[w].cancelled /\ s.holds
        BY <1>1 DEF Goroutine
    <2>. HIDE DEF s
    <2>3. /\ state' \in [Worker -> Goroutine]
          /\ UnusedOK'
          /\ MapMatchesGoroutines'
        BY <1>3, <2>1, <2>2, StepKeepsMap
    <2>4. \A v \in Worker : state'[v] = IF v = w THEN s ELSE state[v]
        BY <1>1, <2>1
    <2>5. Holders' = Holders \cup {w} /\ w \notin Holders
        <3>1. w \notin Holders
            BY <1>2, <2>1 DEF Holders
        <3>2. \A v \in Worker : state'[v].holds <=> state[v].holds \/ v = w
            BY <2>2, <2>4
        <3>. QED  BY <3>1, <3>2 DEF Holders, Worker
    <2>6. IsFiniteSet(Holders)
        BY WorkersFinite, FS_Subset DEF Holders
    <2>7. Cardinality(Holders') = Cardinality(Holders) + 1
        BY <2>5, <2>6, FS_AddElement
    <2>8. semaphore = Cardinality(Holders)
        BY DEF WorkersInv, SlotsAreHeld, Holders
    <2>9. \A v \in Worker : state'[v].holds => state'[v].pc = "dialing"
        BY <2>2, <2>4 DEF WorkersInv, SlotsAreHeld
    <2>10. SlotsAreHeld'
        BY <2>1, <2>7, <2>8, <2>9 DEF SlotsAreHeld, Holders, Worker
    <2>11. semaphore' \in 0..Slots
        BY <1>1, <2>1
    <2>12. TypeOK'
        BY <1>3, <1>4, <2>3, <2>11 DEF WorkersInv, TypeOK, Worker, Goroutine
    <2>. QED  BY <2>3, <2>10, <2>12 DEF WorkersInv
<1>12. CASE Abandon(w)
    <2>. DEFINE s == ToBackoff(state[w])
    <2>1. state' = [state EXCEPT ![w] = s] /\ state[w].pc = "waiting" /\ semaphore' = semaphore
        BY <1>1, <1>12 DEF Abandon
    <2>2. s \in Goroutine /\ s.pc = "sleeping" /\ s.cancelled = state[w].cancelled
          /\ s.holds = FALSE
        BY <1>1 DEF Goroutine, ToBackoff
    <2>3. state[w].holds = FALSE
        BY <1>1, <1>2, <2>1 DEF Goroutine
    <2>. HIDE DEF s
    <2>. QED  BY <1>5, <2>1, <2>2, <2>3
<1>13. CASE DialOk(w)
    <2>. DEFINE s == ToSyncing([state[w] EXCEPT !.holds = FALSE])
    <2>1. state' = [state EXCEPT ![w] = s] /\ state[w].pc = "dialing" /\ semaphore' = Release(w)
        BY <1>1, <1>13 DEF DialOk
    <2>2. s \in Goroutine /\ s.pc = "syncing" /\ s.cancelled = state[w].cancelled
          /\ s.holds = FALSE
        BY <1>1 DEF Goroutine, ToSyncing
    <2>. HIDE DEF s
    <2>. QED  BY <1>6, <2>1, <2>2
<1>14. CASE DialFails(w)
    <2>. DEFINE s == CASE net[w[1]] = "online"  -> ToSyncing([state[w] EXCEPT !.holds = FALSE])
                       [] net[w[1]] = "offline" -> [state[w] EXCEPT !.pc = "sleeping", !.holds = FALSE]
                       [] net[w[1]] = "noaddr"  -> ToBackoff(state[w])
    <2>1. state' = [state EXCEPT ![w] = s] /\ state[w].pc = "dialing" /\ semaphore' = Release(w)
        BY <1>1, <1>14 DEF DialFails
    <2>2. s \in Goroutine /\ s.pc # "unused" /\ s.cancelled = state[w].cancelled
          /\ s.holds = FALSE
        <3>1. CASE net[w[1]] = "online"
            BY <1>1, <3>1 DEF Goroutine, ToSyncing
        <3>2. CASE net[w[1]] = "offline"
            BY <1>1, <3>2 DEF Goroutine
        <3>3. CASE net[w[1]] = "noaddr"
            BY <1>1, <3>3 DEF Goroutine, ToBackoff
        <3>. QED  BY <1>1, <3>1, <3>2, <3>3
    <2>. HIDE DEF s
    <2>. QED  BY <1>6, <2>1, <2>2
<1>15. CASE SyncDone(w)
    <2>. DEFINE s == [state[w] EXCEPT !.pc = "sleeping"]
    <2>1. s \in Goroutine /\ s.pc = "sleeping" /\ s.cancelled = state[w].cancelled
          /\ s.holds = state[w].holds
        BY <1>1 DEF Goroutine
    <2>2. state' = [state EXCEPT ![w] = s] /\ state[w].pc = "syncing" /\ semaphore' = semaphore
        BY <1>1, <1>15 DEF SyncDone
    <2>. QED  BY <1>2, <1>5, <2>1, <2>2
<1>16. CASE Deadline(w)
    <2>. DEFINE s == [state[w] EXCEPT !.backoff = FALSE]
    <2>1. s \in Goroutine /\ s.pc = state[w].pc /\ s.cancelled = state[w].cancelled
          /\ s.holds = state[w].holds
        BY <1>1 DEF Goroutine
    <2>2. state' = [state EXCEPT ![w] = s] /\ state[w].backoff /\ semaphore' = semaphore
        BY <1>1, <1>16 DEF Deadline
    <2>3. state[w].pc # "unused"
        BY <2>2 DEF WorkersInv, UnusedOK, Unused
    <2>. QED  BY <1>2, <1>5, <2>1, <2>2, <2>3
<1>. QED  BY <1>7, <1>8, <1>9, <1>10, <1>11, <1>12, <1>13, <1>14, <1>15, <1>16 DEF Step

-----------------------------------------------------------------------------
\* The service starts without workers.
LEMMA WorkersInit == Init => WorkersInv
<1>. SUFFICES ASSUME Init PROVE WorkersInv
    OBVIOUS
<1>1. TypeOK /\ UnusedOK
    BY UnusedType, SyncWorkersConstants DEF Init, TypeOK, UnusedOK
<1>2. MapMatchesGoroutines
    BY DEF Init, MapMatchesGoroutines, Running
<1>3. Holders = {} /\ \A w \in Worker : ~ state[w].holds
    BY DEF Init, Holders, Unused
<1>4. SlotsAreHeld
    BY <1>3, FS_EmptySet DEF Init, SlotsAreHeld, Holders
<1>. QED  BY <1>1, <1>2, <1>4 DEF WorkersInv

\* Every step of the service, of its workers and around them keeps the
\* invariant.
LEMMA WorkersNext == WorkersInv /\ [Next]_vars => WorkersInv'
<1>. SUFFICES ASSUME WorkersInv, [Next]_vars PROVE WorkersInv'
    OBVIOUS
<1>1. CASE UNCHANGED vars
    BY <1>1 DEF vars, WorkersInv, TypeOK, UnusedOK, MapMatchesGoroutines, SlotsAreHeld,
                Running, Worker, Unused, Goroutine
<1>2. ASSUME UNCHANGED <<workers, state, semaphore>>,
             service' = "on" => service = "on",
             service' \in {"on", "stopping", "off", "panic"},
             trusted' \subseteq Peers,
             net' \in [Peers -> {"noaddr", "online", "offline"}]
      PROVE  WorkersInv'
    BY <1>2 DEF WorkersInv, TypeOK, UnusedOK, MapMatchesGoroutines, SlotsAreHeld,
                Running, Worker, Unused, Goroutine
<1>3. ASSUME NEW p \in Peers, Trust(p) PROVE WorkersInv'
    BY <1>2, <1>3 DEF Trust, WorkersInv, TypeOK
<1>4. ASSUME NEW p \in Peers, Network(p) PROVE WorkersInv'
    BY <1>2, <1>4 DEF Network, WorkersInv, TypeOK
<1>5. CASE Refresh
    BY <1>5, RefreshKeeps
<1>6. CASE Shutdown
    BY <1>2, <1>6 DEF Shutdown, WorkersInv, TypeOK
<1>7. CASE ShutdownDone
    BY <1>2, <1>7 DEF ShutdownDone, WorkersInv, TypeOK
<1>8. ASSUME NEW w \in Worker, Step(w) PROVE WorkersInv'
    BY <1>8, StepKeeps
<1>. QED  BY <1>1, <1>3, <1>4, <1>5, <1>6, <1>7, <1>8 DEF Next

\* The map of refreshWorkers names exactly the goroutines that nobody has
\* told to stop, one for each peer at most, however often a peer is trusted
\* and no longer trusted while its old workers are still on their way out.
THEOREM OneWorkerPerPeer == Spec => []MapMatchesGoroutines
<1>1. WorkersInv => MapMatchesGoroutines
    BY DEF WorkersInv
<1>. QED  BY <1>1, WorkersInit, WorkersNext, PTL DEF Spec

\* No slot of the semaphore of maybeConnect leaks or is given back twice.
THEOREM NoSlotLeaks == Spec => []SlotsAreHeld
<1>1. WorkersInv => SlotsAreHeld
    BY DEF WorkersInv
<1>. QED  BY <1>1, WorkersInit, WorkersNext, PTL DEF Spec
=============================================================================
