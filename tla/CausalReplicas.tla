--------------------------- MODULE CausalReplicas ---------------------------
(***************************************************************************)
(* What the storage and the syncing of nodes promise together: replicas    *)
(* hold sets of blobs, get blobs only by making them or from a replica     *)
(* that has them, never before what they depend on, and give up only       *)
(* whole entities.                                                         *)
(***************************************************************************)
CONSTANTS
    Cids, Entities, Replicas,
    Blob        \* Blob[c]: a record with the entity and the deps of c

VARIABLES
    have,       \* have[r]: the blobs whose data replica r holds
    made        \* the blobs made so far

vars == <<have, made>>

Init ==
    /\ have = [r \in Replicas |-> {}]
    /\ made = {}

Take(r, c) ==
    /\ Blob[c].deps \subseteq have[r]
    /\ have' = [have EXCEPT ![r] = @ \cup {c}]

\* A new blob appears.
Create(r, c) ==
    /\ c \notin made
    /\ Take(r, c)
    /\ made' = made \cup {c}

\* A blob is copied from one replica to another.
Copy(r, q, c) ==
    /\ c \in have[q]
    /\ Take(r, c)
    /\ UNCHANGED made

\* A replica drops an entity.
Drop(r, e) ==
    /\ have' = [have EXCEPT ![r] = {c \in @ : Blob[c].entity # e}]
    /\ UNCHANGED made

Next ==
    \/ \E r \in Replicas, c \in Cids : Create(r, c)
    \/ \E r, q \in Replicas, c \in Cids : Copy(r, q, c)
    \/ \E r \in Replicas, e \in Entities : Drop(r, e)

Spec == Init /\ [][Next]_vars
=============================================================================
