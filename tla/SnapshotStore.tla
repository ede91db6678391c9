--------------------------- MODULE SnapshotStore ---------------------------
(***************************************************************************)
(* What one entry of the cache promises, whatever files it is made of: it  *)
(* holds nothing or one snapshot of the topic, which a command that has    *)
(* taken it puts there in one step or not at all, and a command that asks  *)
(* is served what the entry holds at one moment, and keeps it.             *)
(***************************************************************************)
CONSTANTS
    Commands,
    Snapshots,
    None           \* no snapshot

VARIABLES
    entry,         \* what the entry holds
    taking,        \* taking[c]: the snapshot that c has begun to take
    served         \* served[c]: what c was given

vars == <<entry, taking, served>>

Init ==
    /\ entry = None
    /\ taking = [c \in Commands |-> None]
    /\ served = [c \in Commands |-> None]

Take(c) ==
    /\ taking[c] = None /\ served[c] = None
    /\ \E s \in Snapshots : taking' = [taking EXCEPT ![c] = s]
    /\ UNCHANGED <<entry, served>>

(* The write of ParquetCache. *)
Publish(c) ==
    /\ taking[c] # None
    /\ entry' = taking[c]
    /\ taking' = [taking EXCEPT ![c] = None]
    /\ UNCHANGED served

(* Consuming failed, or writing did, or the command was killed. *)
GiveUp(c) ==
    /\ taking[c] # None
    /\ taking' = [taking EXCEPT ![c] = None]
    /\ UNCHANGED <<entry, served>>

(* The read of ParquetCache. *)
Serve(c) ==
    /\ entry # None
    /\ taking[c] = None /\ served[c] = None
    /\ served' = [served EXCEPT ![c] = entry]
    /\ UNCHANGED <<entry, taking>>

Finish(c) ==
    /\ served[c] # None
    /\ served' = [served EXCEPT ![c] = None]
    /\ UNCHANGED <<entry, taking>>

Next == \E c \in Commands : Take(c) \/ Publish(c) \/ GiveUp(c) \/ Serve(c) \/ Finish(c)

Spec == Init /\ [][Next]_vars
=============================================================================
