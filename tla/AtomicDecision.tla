--------------------------- MODULE AtomicDecision ---------------------------
(***************************************************************************)
(* What an explicit repository decision promises to whoever looks at the   *)
(* repository between transactions: the batch of records is entirely prior *)
(* or entirely post, a decision once made is carried out, and success is   *)
(* reported only for a batch that is post.  Only somebody who edits the    *)
(* records meanwhile can make it end in anything else.                     *)
(***************************************************************************)
VARIABLES
    batch,    \* "prior", "post", "mixed", or "pending" while unresolved
    decided,  \* the pending transaction can no longer be withdrawn
    acked,    \* success was reported
    edited    \* the records were edited since the batch was last whole

vars == <<batch, decided, acked, edited>>

Whole == {"prior", "post"}
Settled == Whole \cup {"mixed"}

Init == batch = "prior" /\ ~decided /\ ~acked /\ ~edited

Begin ==
    /\ batch = "prior" \/ (edited /\ batch # "pending")
    /\ batch' = "pending"
    /\ UNCHANGED <<decided, acked, edited>>

(* A withdrawal of what was decided answers an edit. *)
Decide   == batch = "pending" /\ decided' = TRUE /\ UNCHANGED <<batch, acked, edited>>
Reverse  == batch = "pending" /\ edited /\ decided' = FALSE /\ UNCHANGED <<batch, acked, edited>>

Settle ==
    /\ batch = "pending"
    /\ IF edited THEN batch' \in Settled
                 ELSE batch' = IF decided THEN "post" ELSE "prior"
    /\ decided' = FALSE
    /\ UNCHANGED <<acked, edited>>

Acknowledge ==
    /\ batch = "post" \/ edited
    /\ acked' = TRUE
    /\ UNCHANGED <<batch, decided, edited>>

(* The editor, and whoever then puts the batch back. *)
Edit ==
    /\ edited' = TRUE
    /\ IF batch = "pending" THEN batch' = "pending" ELSE batch' \in Settled
    /\ UNCHANGED <<decided, acked>>

Adopt   == batch = "prior" /\ edited' = FALSE /\ UNCHANGED <<batch, decided, acked>>
Restore ==
    /\ batch # "pending"
    /\ batch' = "prior" /\ acked' = FALSE /\ edited' = FALSE
    /\ UNCHANGED decided

Next == Begin \/ Decide \/ Reverse \/ Settle \/ Acknowledge \/ Edit \/ Adopt \/ Restore

Spec == Init /\ [][Next]_vars
=============================================================================
