----------------------------- MODULE OwnerAuthority -----------------------------
(***************************************************************************)
(* What private lifecycle authority promises an owner.  What is decided    *)
(* about a record (its status, its predecessor, its lifecycle facts)       *)
(* changes only by using an authority: one the owner gave, in time, not    *)
(* withdrawn and not used before, for an operation not done before, while  *)
(* everything the owner saw is still as the owner saw it.  Its use leaves  *)
(* alone what the owner did not look at.  Other writers add records and    *)
(* touch the rest of a row.                                                *)
(***************************************************************************)
EXTENDS Naturals

CONSTANTS Records, Ops, Grants, Times, NoGrant, Absent

VARIABLES now, row, decided, authority, usedBy
vars == <<now, row, decided, authority, usedBy>>

View(seen) == [r \in seen |-> <<row[r], decided[r]>>]
NoAuthority == [state |-> "none"]

Init ==
    /\ now \in Times
    /\ authority = [g \in Grants |-> NoAuthority]
    /\ usedBy = [o \in Ops |-> NoGrant]

(* For an operation, until an instant, on a view of some of the records.    *)
Give(g) ==
    /\ authority[g].state = "none"
    /\ \E given \in {authority'[g]} :
         /\ given.state = "active"
         /\ usedBy[given.op] = NoGrant
         /\ now < given.until
         /\ given.view = View(DOMAIN given.view)
         /\ authority' = [authority EXCEPT ![g] = given]
    /\ UNCHANGED <<now, row, decided, usedBy>>

Withdraw(g) ==
    /\ authority[g].state = "active"
    /\ authority' = [authority EXCEPT ![g].state = "revoked"]
    /\ UNCHANGED <<now, row, decided, usedBy>>

Use(g) ==
    /\ authority[g].state = "active"
    /\ usedBy[authority[g].op] = NoGrant
    /\ now < authority[g].until
    /\ authority[g].view = View(DOMAIN authority[g].view)
    /\ authority' = [authority EXCEPT ![g].state = "consumed"]
    /\ usedBy' = [usedBy EXCEPT ![authority[g].op] = g]
    /\ \A r \in Records \ DOMAIN authority[g].view :
         decided[r] # Absent => row'[r] = row[r] /\ decided'[r] = decided[r]
    /\ UNCHANGED now

Write ==
    /\ \A r \in Records : decided[r] # Absent => decided'[r] = decided[r]
    /\ UNCHANGED <<now, authority, usedBy>>

Tick == now' > now /\ UNCHANGED <<row, decided, authority, usedBy>>

Next ==
    \/ \E g \in Grants :
         \/ Give(g)
         \/ Withdraw(g)
         \/ Use(g)
    \/ Write
    \/ Tick

Spec == Init /\ [][Next]_vars
================================================================================
