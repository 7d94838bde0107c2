------------------------------- MODULE Entity -------------------------------
(***************************************************************************)
(* The mutable object of the system: hyper.Entity (backend/hyper/          *)
(* entity.go) and its state, the last-writer-wins map of                   *)
(* backend/crdt2/map.go.                                                   *)
(*                                                                         *)
(* An entity is a DAG of signed changes.  Every device keeps in memory an  *)
(* entity it has loaded from its database, applies changes to it and       *)
(* creates new ones on top of its heads.  All changes of the model are     *)
(* about one entity, so the check of Change.Entity always passes; the      *)
(* actor of a change is the device that signed it.  The wall clock is read *)
(* afresh by every call and may read anything in 1..MaxWall.               *)
(***************************************************************************)
EXTENDS Timestamp, Sequences, FiniteSets

CONSTANTS
    Devices,
    Patches,     \* the sets of paths that a change may write
    MaxChanges,  \* bound: the number of changes ever made
    MaxLoad      \* bound: the changes made when a load still starts

ASSUME EntityConstants == MaxChanges \in Nat \ {0} /\ MaxLoad \in Nat

VARIABLES
    all,      \* every change made so far; the index of a change is its CID,
              \* and CIDs of equal length order as the origins of the map do
    entity,   \* entity[d]: the Entity object in the memory of device d
    loading   \* loading[d]: changes still to be applied by a running load

vars == <<all, entity, loading>>

Cids == 1..MaxChanges
Walls == 1..MaxWall
Paths == UNION Patches
Made == 1..Len(all)

\* What Clock.Track can accept.
Times == 0..(MaxWall + Skew - 1)

-----------------------------------------------------------------------------
\* NewEntity.
NewEntity ==
    [applied |-> {}, heads |-> {}, state |-> {}, maxClock |-> 0,
     vectorClock |-> [d \in Devices |-> 0]]

\* Map.ApplyPatch: the nodes a change puts into the map, one for each path
\* it writes, keyed by path, time and origin.
Nodes(c) == {[path |-> p, time |-> all[c].ts, origin |-> c] : p \in all[c].patch}

\* mapKey.Less on the nodes of one path: by time, then by origin.
Less(m, n) == m.time < n.time \/ (m.time = n.time /\ m.origin < n.origin)

\* Map.Get: the origin of the value under a path, if there is one.
Get(e, p) ==
    {n.origin : n \in {m \in e.state :
        m.path = p /\ \A k \in e.state : k.path = p => k = m \/ Less(k, m)}}

\* Map.ForgetState.
ForgetState(state, c) ==
    {n \in state : ~ (n.time = all[c].ts /\ n.origin = c)}

-----------------------------------------------------------------------------
\* ApplyChange: the checks in front of the update of the vector clock.
RefusedEarly(e, c, ch) == c \in e.applied \/ ch.ts < e.vectorClock[ch.actor]

\* ApplyChange: all the checks.  w is what time.Now() reads in Clock.Track.
Refused(e, c, ch, w) ==
    \/ RefusedEarly(e, c, ch)
    \/ ch.ts < e.maxClock
    \/ ~ (ch.deps \subseteq e.applied)
    \/ WayAhead(ch.ts, w)

\* ApplyChange, when it returns an error: a change that passes the early
\* checks has moved the vector clock of its actor.
AfterRefusal(e, c, ch) ==
    IF RefusedEarly(e, c, ch)
      THEN e
      ELSE [e EXCEPT !.vectorClock[ch.actor] = ch.ts]

\* Mistake: the heads forget the old heads instead of the dependencies.
ReplaceHeads(e, c, ch) == {c}

\* ApplyChange: the new heads.
NextHeads(e, c, ch) == (e.heads \cup {c}) \ ch.deps

\* ApplyChange, when it succeeds.
AfterApply(e, c, ch, nodes) ==
    [applied |-> e.applied \cup {c},
     heads |-> NextHeads(e, c, ch),
     state |-> e.state \cup nodes,
     maxClock |-> Later(ch.ts, e.maxClock),
     vectorClock |-> [e.vectorClock EXCEPT ![ch.actor] = ch.ts]]

\* The changes of S and everything they build on (change_deps, followed to
\* the end).  The ancestors of a change are recorded when it is made.
Closure(S) == S \cup UNION {all[c].ancestors : c \in S}

\* NewChange: the error case.
NothingToUpdate(deps, patch) == patch = {} /\ Cardinality(deps) = 1

\* NewChange: signed by device d, on top of deps.
NewChange(d, deps, ts, patch) ==
    [actor |-> d, ts |-> ts, deps |-> deps, patch |-> patch,
     ancestors |-> Closure(deps)]

-----------------------------------------------------------------------------
Init ==
    /\ all = <<>>
    /\ entity = [d \in Devices |-> NewEntity]
    /\ loading = [d \in Devices |-> {}]

Idle(d) == loading[d] = {}

\* Entity.ApplyChange called with a change that device d has received, in
\* whatever order the changes come.
ApplyChange(d, c, w) ==
    /\ Idle(d)
    /\ ~ Refused(entity[d], c, all[c], w)
    /\ entity' = [entity EXCEPT ![d] = AfterApply(@, c, all[c], Nodes(c))]
    /\ UNCHANGED <<all, loading>>

\* Entity.ApplyChange returning an error; the caller keeps the entity.
ApplyChangeRefused(d, c, w) ==
    /\ Idle(d)
    /\ Refused(entity[d], c, all[c], w)
    /\ entity' = [entity EXCEPT ![d] = AfterRefusal(@, c, all[c])]
    /\ UNCHANGED <<all, loading>>

\* Mistake: the timestamp is the wall clock's alone.
WallTime(max, now) == now

\* Entity.NextTimestamp.
NextTimestamp(max, now) == NextTime(max, now)

\* A change made by device d is applied to the entity e, and is published if
\* NewChange and ApplyChange take it; otherwise the caller returns the error and drops
\* the entity.  NextTimestamp, read at wall time w, has moved the clock;
\* wall time v is read by the Track call in ApplyChange.  All callers write
\* something in the first change of an entity.
Make(d, e, deps, patch, w, v) ==
    LET ts == NextTimestamp(e.maxClock, w)
        ch == NewChange(d, deps, ts, patch)
        c  == Len(all) + 1
        e1 == [e EXCEPT !.maxClock = ts]
        ns == {[path |-> p, time |-> ts, origin |-> c] : p \in patch}
    IN  /\ Len(all) < MaxChanges
        /\ patch = {} => deps # {}
        /\ ~ WayAhead(e.maxClock, w)
        /\ IF NothingToUpdate(deps, patch) \/ Refused(e1, c, ch, v)
             THEN /\ entity' = [entity EXCEPT ![d] = NewEntity]
                  /\ UNCHANGED all
             ELSE /\ entity' = [entity EXCEPT ![d] = AfterApply(e1, c, ch, ns)]
                  /\ all' = Append(all, ch)
        /\ UNCHANGED loading

\* Entity.CreateChange(e.NextTimestamp(), ...).
CreateChange(d, patch, w, v) ==
    /\ Idle(d)
    /\ Make(d, entity[d], entity[d].heads, patch, w, v)

\* Entity.ReplaceChange(old, e.NextTimestamp(), ...): the only head is
\* forgotten, and a new change takes its place in the DAG.
ReplaceChange(d, old, patch, w, v) ==
    /\ Idle(d)
    /\ entity[d].heads = {old}
    /\ LET e == [entity[d] EXCEPT !.applied = @ \ {old},
                                  !.heads = {},
                                  !.state = ForgetState(@, old)]
       IN  Make(d, e, all[old].deps, patch, w, v)

\* LoadEntity, LoadEntityAll and LoadEntityFromHeads select changes together
\* with their transitive dependencies and start from an empty entity.
Load(d, heads) ==
    /\ Idle(d)
    /\ heads # {}
    /\ Len(all) <= MaxLoad
    /\ entity' = [entity EXCEPT ![d] = NewEntity]
    /\ loading' = [loading EXCEPT ![d] = Closure(heads)]
    /\ UNCHANGED all

\* The next row of a load: rows come by timestamp, in any order among equals.
NextRow(S, c) == c \in S /\ \A k \in S : all[c].ts <= all[k].ts

LoadStep(d, c, w) ==
    /\ NextRow(loading[d], c)
    /\ ~ Refused(entity[d], c, all[c], w)
    /\ entity' = [entity EXCEPT ![d] = AfterApply(@, c, all[c], Nodes(c))]
    /\ loading' = [loading EXCEPT ![d] = @ \ {c}]
    /\ UNCHANGED all

\* The load returns the error of ApplyChange, and no entity.
LoadRefused(d, c, w) ==
    /\ NextRow(loading[d], c)
    /\ Refused(entity[d], c, all[c], w)
    /\ entity' = [entity EXCEPT ![d] = NewEntity]
    /\ loading' = [loading EXCEPT ![d] = {}]
    /\ UNCHANGED all

Next ==
    \E d \in Devices :
        \/ \E c \in Made, w \in Walls : ApplyChange(d, c, w)
        \/ \E c \in Made, w \in Walls : ApplyChangeRefused(d, c, w)
        \/ \E p \in Patches, w, v \in Walls : CreateChange(d, p, w, v)
        \/ \E c \in Made, p \in Patches, w, v \in Walls : ReplaceChange(d, c, p, w, v)
        \/ \E heads \in SUBSET Made : Load(d, heads)
        \/ \E c \in loading[d], w \in Walls : LoadStep(d, c, w)
        \/ \E c \in loading[d], w \in Walls : LoadRefused(d, c, w)

Spec == Init /\ [][Next]_vars

-----------------------------------------------------------------------------
Change ==
    [actor : Devices, ts : Times, deps : SUBSET Cids, patch : Patches,
     ancestors : SUBSET Cids]

\* The types of the variables; every timestamp made stays below the largest
\* wall clock plus the skew, however far entities are led ahead by others.
TypeOK ==
    /\ all \in Seq(Change) /\ Len(all) <= MaxChanges
    /\ entity \in [Devices ->
          [applied : SUBSET Cids, heads : SUBSET Cids,
           state : SUBSET [path : Paths, time : Times, origin : Cids],
           maxClock : Times, vectorClock : [Devices -> Times]]]
    /\ loading \in [Devices -> SUBSET Cids]

\* The version of an entity (the CIDs of its heads) names its whole content:
\* two devices that show the same version have applied the same changes and
\* hold the same map, whatever the order in which they received, loaded or
\* replaced changes.
SameVersionSameState ==
    \A d, e \in Devices :
        entity[d].heads = entity[e].heads =>
            /\ entity[d].applied = entity[e].applied
            /\ entity[d].state = entity[e].state

\* The heads are the applied changes that no applied change builds on, and
\* every dependency of an applied change is applied.
HeadsAreMaximal ==
    \A d \in Devices :
        LET e == entity[d]
        IN  /\ \A c \in e.applied : all[c].deps \subseteq e.applied
            /\ e.heads = {c \in e.applied : \A k \in e.applied : c \notin all[k].deps}

\* A value is never shadowed by one that its author had seen: the winner of
\* a path is not an ancestor of another applied change that writes the path.
LaterEditWins ==
    \A d \in Devices : \A p \in Paths : \A win \in Get(entity[d], p) :
        \A c \in entity[d].applied :
            p \in all[c].patch => win \notin all[c].ancestors

\* Loading by timestamp order never meets a change before its dependencies,
\* nor one that the clocks refuse as out of order: the only error a load can
\* return is that a timestamp is ahead of the local wall clock.
LoadFailsOnlyForSkew ==
    [][\A d \in Devices, c \in Made, w \in Walls :
          LoadRefused(d, c, w) => WayAhead(all[c].ts, w)]_vars

-----------------------------------------------------------------------------
\* Mistake: the reduction drops the dependencies that build on another one.
DepsOfSwapped(e) ==
    LET full == UNION {all[h].deps : h \in e.heads}
    IN  {n \in full : ~ \E r \in full : r \in all[n].deps}

\* Entity.Deps, the reduction for several heads: a dependency is dropped if
\* a change that directly builds on it is a dependency too.
DepsOf(e) ==
    LET full == UNION {all[h].deps : h \in e.heads}
    IN  {n \in full : ~ \E r \in full : n \in all[r].deps}

\* Entity.Deps.
Deps(e) ==
    IF Cardinality(e.heads) = 1
      THEN UNION {all[h].deps : h \in e.heads}
      ELSE DepsOf(e)

\* The previous version loses nothing: Deps with their ancestors are all the
\* applied changes but the heads.
DepsReachTheRest ==
    \A d \in Devices :
        Idle(d) => Closure(Deps(entity[d])) = entity[d].applied \ entity[d].heads
=============================================================================
