---------------------------- MODULE SyncWorkers ----------------------------
(***************************************************************************)
(* The syncing service of the daemon (backend/syncing/syncing.go, Start    *)
(* and refreshWorkers) and its workers (backend/syncing/worker.go), one    *)
(* goroutine for every peer to sync with.  What a round of syncing does is *)
(* in module Replication; this module is about which rounds take place.    *)
(*                                                                         *)
(* Time is abstract.  A timer may fire at any moment, and of the deadline  *)
(* of a backoff only whether it has passed is kept.  Of the number of      *)
(* attempts the code tells -1, the first one, from the others; how long    *)
(* the backoff is does not matter here.                                    *)
(***************************************************************************)
EXTENDS Integers, FiniteSets, Functions

CONSTANTS
    Peers,
    Slots,      \* peerRoutingConcurrency, the capacity of the semaphore
    MaxWorkers  \* bound: goroutines that run at a time

ASSUME SyncWorkersConstants ==
    /\ IsFiniteSet(Peers)
    /\ Slots \in Nat \ {0}
    /\ MaxWorkers \in Nat \ {0}

VARIABLES
    service,    \* Service.Start: "on", "stopping" (in wg.Wait), "off", "panic"
    trusted,    \* what qListPeersToSync returns
    net,        \* getPeerState of every peer
    workers,    \* Service.workers, a map from peers to workers
    state,      \* the goroutine of every worker
    semaphore   \* the number of slots taken

vars == <<service, trusted, net, workers, state, semaphore>>

\* Goroutines have numbers, which are used again.
Worker == Peers \X (1..MaxWorkers)

Unused == [pc |-> "unused", first |-> TRUE, backoff |-> FALSE,
           holds |-> FALSE, cancelled |-> FALSE]

Running(w) == state[w] # Unused

\* The numbers that no goroutine has.
Free == {n \in 1..MaxWorkers : \A p \in Peers : ~ Running(<<p, n>>)}

\* The workers that are started for some peers, old ones of the same peers
\* being still on their way out, perhaps.
Spawn(peers) ==
    LET number == CHOOSE f \in Injection(peers, Free) : TRUE
    IN  {<<p, number[p]>> : p \in peers}

\* Mistake: the worker's context does not descend from the service's.
OwnContext(w) == state[w].cancelled

\* The worker's context: its own, under the one of the service.
Cancelled(w) == state[w].cancelled \/ service # "on"

-----------------------------------------------------------------------------
Init ==
    /\ service = "on"
    /\ trusted = {}
    /\ net = [p \in Peers |-> "noaddr"]
    /\ workers = {}
    /\ state = [w \in Worker |-> Unused]
    /\ semaphore = 0

\* The account of a peer is trusted, or no longer.  Nobody looks once the
\* service is told to stop.
Trust(p) ==
    /\ service = "on"
    /\ trusted' = IF p \in trusted THEN trusted \ {p} ELSE trusted \cup {p}
    /\ UNCHANGED <<service, net, workers, state, semaphore>>

\* The host connects, disconnects, learns and forgets addresses.
Network(p) ==
    /\ \E s \in {"noaddr", "online", "offline"} : net' = [net EXCEPT ![p] = s]
    /\ UNCHANGED <<service, trusted, workers, state, semaphore>>

\* Mistake: workers that are stopped stay in the map.
Keep(stopped) == workers

\* The map without the workers that are stopped.
Forget(stopped) == workers \ stopped

\* refreshWorkers.  stop is assigned by the goroutine itself: a worker that
\* has not begun has none to call.
Refresh ==
    LET added == {p \in trusted : \A w \in workers : w[1] # p}
        new == Spawn(added)
        stopped == {w \in workers : w[1] \notin trusted}
    IN  /\ service = "on"
        /\ Injection(added, Free) # {}
        /\ IF \E w \in stopped : state[w].pc = "spawned"
             THEN /\ service' = "panic"
                  /\ UNCHANGED <<workers, state>>
             ELSE /\ workers' = Forget(stopped) \cup new
                  /\ state' = [w \in Worker |->
                        IF w \in new THEN [state[w] EXCEPT !.pc = "spawned"]
                        ELSE IF w \in stopped THEN [state[w] EXCEPT !.cancelled = TRUE]
                        ELSE state[w]]
                  /\ UNCHANGED service
        /\ UNCHANGED <<trusted, net, semaphore>>

\* Start returns: its context is cancelled, or refreshWorkers has failed.
\* Nobody asks for the peers to sync with any more.
Shutdown ==
    /\ service = "on"
    /\ service' = "stopping"
    /\ trusted' = {}
    /\ UNCHANGED <<net, workers, state, semaphore>>

\* Start: wg.Wait returns.
ShutdownDone ==
    /\ service = "stopping"
    /\ \A w \in Worker : ~ Running(w)
    /\ service' = "off"
    /\ UNCHANGED <<trusted, net, workers, state, semaphore>>

-----------------------------------------------------------------------------
\* worker.start: stop is assigned, the timer is set.
Begin(w) ==
    /\ state[w].pc = "spawned"
    /\ state' = [state EXCEPT ![w].pc = "sleeping"]
    /\ UNCHANGED <<service, trusted, net, workers, semaphore>>

\* sSleeping: ctx.Done.  The variables of the goroutine are gone.
Exit(w) ==
    /\ state[w].pc = "sleeping"
    /\ Cancelled(w)
    /\ state' = [state EXCEPT ![w] = Unused]
    /\ UNCHANGED <<service, trusted, net, workers, semaphore>>

\* sSyncing is entered: attempts and deadline are reset.
ToSyncing(s) == [s EXCEPT !.pc = "syncing", !.first = FALSE, !.backoff = FALSE]

\* sSleeping: tick.  sCheckConnection, and sBackoff if not connected.
Tick(w) ==
    /\ state[w].pc = "sleeping"
    /\ state' = [state EXCEPT ![w] =
           IF net[w[1]] = "online" THEN ToSyncing(@)
           ELSE IF @.backoff THEN @
           ELSE [@ EXCEPT !.pc = "connecting"]]
    /\ UNCHANGED <<service, trusted, net, workers, semaphore>>

\* sConnecting, maybeConnect: only the second and later lookups of a peer
\* without addresses need the semaphore.
Connect(w) ==
    /\ state[w].pc = "connecting"
    /\ state' = [state EXCEPT ![w] =
           IF net[w[1]] = "online" THEN ToSyncing(@)
           ELSE IF net[w[1]] = "noaddr" /\ ~ @.first THEN [@ EXCEPT !.pc = "waiting"]
           ELSE [@ EXCEPT !.pc = "dialing"]]
    /\ UNCHANGED <<service, trusted, net, workers, semaphore>>

\* maybeConnect: the semaphore is acquired.
Acquire(w) ==
    /\ state[w].pc = "waiting"
    /\ semaphore < Slots
    /\ semaphore' = semaphore + 1
    /\ state' = [state EXCEPT ![w].pc = "dialing", ![w].holds = TRUE]
    /\ UNCHANGED <<service, trusted, net, workers>>

\* maybeConnect returns peerStateNoAddr: attempts grows, a deadline is set,
\* and sBackoff leads to sSleeping.
ToBackoff(s) ==
    [s EXCEPT !.pc = "sleeping", !.first = FALSE, !.backoff = TRUE, !.holds = FALSE]

\* maybeConnect: ctx.Done while waiting for the semaphore.
Abandon(w) ==
    /\ state[w].pc = "waiting"
    /\ Cancelled(w)
    /\ state' = [state EXCEPT ![w] = ToBackoff(@)]
    /\ UNCHANGED <<service, trusted, net, workers, semaphore>>

\* Mistake: the semaphore is released only if the host got connected.
ReleaseOnline(w) ==
    IF state[w].holds /\ net[w[1]] = "online" THEN semaphore - 1 ELSE semaphore

\* The deferred release of the semaphore.
Release(w) == IF state[w].holds THEN semaphore - 1 ELSE semaphore

\* host.Connect succeeds.
DialOk(w) ==
    /\ state[w].pc = "dialing"
    /\ semaphore' = Release(w)
    /\ net' = [net EXCEPT ![w[1]] = "online"]
    /\ state' = [state EXCEPT ![w] = ToSyncing([@ EXCEPT !.holds = FALSE])]
    /\ UNCHANGED <<service, trusted, workers>>

\* host.Connect fails, or its time is up, or the worker is cancelled.
DialFails(w) ==
    /\ state[w].pc = "dialing"
    /\ semaphore' = Release(w)
    /\ state' = [state EXCEPT ![w] =
           CASE net[w[1]] = "online"  -> ToSyncing([@ EXCEPT !.holds = FALSE])
             [] net[w[1]] = "offline" -> [@ EXCEPT !.pc = "sleeping", !.holds = FALSE]
             [] net[w[1]] = "noaddr"  -> ToBackoff(@)]
    /\ UNCHANGED <<service, trusted, net, workers>>

\* worker.sync returns, whatever the outcome.
SyncDone(w) ==
    /\ state[w].pc = "syncing"
    /\ state' = [state EXCEPT ![w].pc = "sleeping"]
    /\ UNCHANGED <<service, trusted, net, workers, semaphore>>

\* The deadline of a backoff passes.
Deadline(w) ==
    /\ state[w].backoff
    /\ state' = [state EXCEPT ![w].backoff = FALSE]
    /\ UNCHANGED <<service, trusted, net, workers, semaphore>>

Step(w) ==
    \/ Begin(w)
    \/ Exit(w)
    \/ Tick(w)
    \/ Connect(w)
    \/ Acquire(w)
    \/ Abandon(w)
    \/ DialOk(w)
    \/ DialFails(w)
    \/ SyncDone(w)
    \/ Deadline(w)

Next ==
    \/ \E p \in Peers : Trust(p)
    \/ \E p \in Peers : Network(p)
    \/ Refresh
    \/ Shutdown
    \/ ShutdownDone
    \/ service # "panic" /\ \E w \in Worker : Step(w)

Spec == Init /\ [][Next]_vars

\* Timers fire, goroutines run, and calls return: a dial and a round have a
\* timeout each (worker.go).  A select with two ready cases picks either, and
\* blocked senders of a channel are served in turn: Exit and Acquire happen
\* if they are possible again and again.  A peer that is dialled for ever is
\* reached again and again.  A number belongs to one goroutine at a time, so
\* that fairness to numbers is fairness to goroutines.
Fairness ==
    /\ WF_vars(Refresh) /\ WF_vars(ShutdownDone)
    /\ \A n \in 1..MaxWorkers :
          /\ WF_vars(\E p \in Peers : LET w == <<p, n>> IN
                        Begin(w) \/ Tick(w) \/ Connect(w) \/ Abandon(w) \/ SyncDone(w))
          /\ WF_vars(\E p \in Peers : Deadline(<<p, n>>))
          /\ SF_vars(\E p \in Peers : Exit(<<p, n>>))
          /\ SF_vars(\E p \in Peers : Acquire(<<p, n>>))
          /\ SF_vars(\E p \in Peers : DialOk(<<p, n>>))

LiveSpec == Spec /\ Fairness

-----------------------------------------------------------------------------
\* What the goroutine of a worker can look like.
Goroutine ==
    [pc : {"unused", "spawned", "sleeping", "connecting", "waiting",
           "dialing", "syncing"},
     first : BOOLEAN, backoff : BOOLEAN, holds : BOOLEAN, cancelled : BOOLEAN]

\* The types of the variables; the semaphore never exceeds its capacity.
TypeOK ==
    /\ service \in {"on", "stopping", "off", "panic"}
    /\ trusted \subseteq Peers
    /\ net \in [Peers -> {"noaddr", "online", "offline"}]
    /\ workers \subseteq Worker
    /\ state \in [Worker -> Goroutine]
    /\ semaphore \in 0..Slots

\* While the service is on, the map names the goroutines that have not been
\* told to stop, no more and no less, and one at most for each peer: neither
\* a lost worker that nobody can stop nor a dead one that blocks a new one.
MapMatchesGoroutines ==
    service = "on" =>
        /\ workers = {w \in Worker : Running(w) /\ ~ state[w].cancelled}
        /\ \A v, w \in workers : v[1] = w[1] => v = w

\* Every slot of the semaphore belongs to a worker that is dialling, however
\* the call ends and whether or not the worker is stopped meanwhile.
SlotsAreHeld ==
    /\ semaphore = Cardinality({w \in Worker : state[w].holds})
    /\ \A w \in Worker : state[w].holds => state[w].pc = "dialing"

\* A peer that stays trusted while the service is on is synced again and
\* again: backoffs, the semaphore and the peers that compete for it, and
\* the network do not keep it waiting for ever.
TrustedAreSynced ==
    \A p \in Peers :
        <>[](p \in trusted /\ service = "on") =>
            []<>(\E w \in workers : w[1] = p /\ state[w].pc = "syncing")

\* When the service is told to stop, all workers end, wherever they are.
ShutdownCompletes == service = "stopping" ~> service = "off"

=============================================================================
