------------------------------- MODULE Retention -------------------------------
(***************************************************************************)
(* When a private record may be recalled on its own: the retention policy  *)
(* of each lane, the lifecycle facts an owner adds to it, and the base     *)
(* decision every recall, plan and validation starts from (retention.rs).  *)
(*                                                                         *)
(* A row is what memory_record keeps of a record, facts what               *)
(* private_lifecycle_state keeps.  A boundary is an instant; Never stands  *)
(* for a boundary a row does not have, Unset for a fact nobody set.        *)
(***************************************************************************)
EXTENDS Naturals

CONSTANTS OrdinaryWindow, MaximumWindow,  \* episodic recall: 30 and 90 days
          Lease, SessionCap,              \* a checkpoint: 24 hours and 7 days
          Never                           \* later than every boundary

Unset == 0
Lanes == {"session", "episodic", "durable"}  \* durable: semantic and procedural

ASSUME WindowAssumption ==
    /\ {OrdinaryWindow, MaximumWindow, Lease, SessionCap, Never} \subseteq Nat
    /\ OrdinaryWindow < MaximumWindow

Validity(row, facts) ==
    IF facts.validity = Unset THEN row.expires ELSE facts.validity
OrdinaryBoundary(row) == row.occurred + OrdinaryWindow
RecallBoundary(row, facts) ==
    IF facts.recall = Unset THEN OrdinaryBoundary(row) ELSE facts.recall

(* The boundary the code reports is the earliest of these.                  *)
Boundaries(row, facts) ==
    CASE row.lane = "session" ->
           {row.continued + Lease, row.occurred + SessionCap, row.closed, row.expires}
      [] row.lane = "episodic" -> {RecallBoundary(row, facts), Validity(row, facts)}
      [] row.lane = "durable" -> {Validity(row, facts)}

(* A record whose boundary has come is still there for a query.             *)
Retained(row, facts, t) == \A b \in Boundaries(row, facts) : t < b

(* The evaluation refuses a row with facts its lane has no use for or with  *)
(* an extension that does not extend; every read route then fails closed.   *)
IsEvaluable(row, facts) ==
    /\ facts.recall # Unset =>
         /\ row.lane = "episodic"
         /\ OrdinaryBoundary(row) < facts.recall
         /\ facts.recall <= row.occurred + MaximumWindow
    /\ facts.validity # Unset =>
         /\ row.lane # "session"
         /\ row.expires < facts.validity
         /\ row.expires # Never

BaseCurrent(row, facts, t) ==
    /\ row.status = "active"
    /\ Retained(row, facts, t)
    /\ ~ facts.quarantined
================================================================================
