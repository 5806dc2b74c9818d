----------------------------- MODULE Replication -----------------------------
(***************************************************************************)
(* What sync promises, without cursors, transactions or retention: the     *)
(* server keeps the committed versions of each entity, numbered upwards,   *)
(* and a device's copy moves, entity by entity, from one committed version *)
(* it may see to a later one.                                              *)
(***************************************************************************)
EXTENDS Naturals

CONSTANTS
    Entities,   \* rows that are replicated
    Devices,    \* their readers
    Readable    \* the entities each device may see

VARIABLES
    versions,   \* the committed versions of each entity
    copy        \* the version of each entity a device has, 0: none

vars == <<versions, copy>>

Init ==
    /\ versions = [e \in Entities |-> {}]
    /\ copy = [d \in Devices |-> [e \in Entities |-> 0]]

\* A new version is later than all there were
Write(e) ==
    /\ \E n \in versions'[e] :
          /\ n > 0 /\ \A m \in versions[e] : m < n
          /\ versions' = [versions EXCEPT ![e] = @ \cup {n}]
    /\ UNCHANGED copy

\* Part of the copy is brought up to date, not necessarily to the newest state
Sync(d) ==
    /\ copy' = [copy EXCEPT ![d] = copy'[d]]
    /\ \A e \in Entities :
          \/ copy'[d][e] = copy[d][e]
          \/ /\ e \in Readable[d]
             /\ copy'[d][e] \in versions[e]
             /\ copy'[d][e] > copy[d][e]
    /\ UNCHANGED versions

Next == (\E e \in Entities : Write(e)) \/ (\E d \in Devices : Sync(d))

Spec == Init /\ [][Next]_vars
=============================================================================
