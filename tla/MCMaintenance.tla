---------------------------- MODULE MCMaintenance ----------------------------
(* Model checking of MaintenanceMaterialization: symmetry, and the atomic  *)
(* decision it implements as long as nobody edits the records.             *)
EXTENDS MaintenanceMaterialization, TLC

Symmetry == Permutations(Procs)

Decision == INSTANCE AtomicDecision WITH
    batch   <- IF journal # "none" THEN "pending"
               ELSE IF AllOutputs("post") THEN "post"
               ELSE IF AllOutputs("prior") THEN "prior"
               ELSE "mixed",
    decided <- journal # "none" /\ index[live].marker,
    edited  <- touched # {}

(* The journaled transaction, with its crashes, error paths and recoveries, *)
(* implements the atomic decision: every journal that is removed leaves the *)
(* whole batch post if the commit marker was written and prior if not,      *)
(* unless somebody edited the records while it was pending.                 *)
ImplementsDecision == Decision!Spec
===============================================================================
