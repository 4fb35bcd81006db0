------------------------------ MODULE PacketLife ------------------------------
(***************************************************************************)
(* What the routes promise of a packet, whichever made it: a candidate     *)
(* becomes a pending packet in some worktree; a packet is decided at most  *)
(* once and the decision stands; undecided it disappears only in a crash   *)
(* in the middle of its resolution, or by an operation that is undone, and *)
(* never the last packet of a name that a recorded outcome refers to.      *)
(***************************************************************************)
CONSTANTS
    Packets,       \* packets, one for each worktree and name
    NameOf(_)      \* the name of a packet, the same in every worktree

VARIABLES
    life,      \* of each packet
    recorded,  \* names that recorded outcomes refer to
    lost       \* packets that a crash took while they were resolved

vars == <<life, recorded, lost>>

Init ==
    /\ life \in [Packets -> {"absent", "pending"}]
    /\ recorded = {} /\ lost = {}

(* Steps of one packet, from life l to life m. *)
Create(l, m) == l = "absent" /\ m = "pending"
Decide(l, m) == l = "pending" /\ m \in {"applied", "rejected"}
Vanish(l, m) == l = "pending" /\ m = "absent"

(* What a recorded outcome refers to exists somewhere, or was taken by a   *)
(* crash in the middle of its resolution.                                  *)
IsBacked(name, after) ==
    \E pk \in Packets : NameOf(pk) = name /\ (after[pk] # "absent" \/ pk \in lost')

(* A failed batch takes several packets back at once; outcomes are final,  *)
(* and a step that takes a packet back or records an outcome leaves the    *)
(* names it touches backed.                                                *)
Next ==
    LET before == life
        after  == life'
        gone   == {pk \in Packets : Vanish(before[pk], after[pk])}
    IN /\ \A pk \in Packets :
             \/ after[pk] = before[pk]
             \/ Create(before[pk], after[pk]) \/ Decide(before[pk], after[pk])
             \/ pk \in gone
       /\ recorded \subseteq recorded' /\ lost \subseteq lost'
       /\ \A name \in (recorded' \ recorded) \cup (recorded \cap {NameOf(pk) : pk \in gone}) :
             IsBacked(name, after)

Spec == Init /\ [][Next]_vars
===============================================================================
