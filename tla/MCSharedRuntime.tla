---------------------------- MODULE MCSharedRuntime ----------------------------
(* Finite instances of SharedRuntime: which worktree each process works in.  *)
EXTENDS SharedRuntime, TLC

CONSTANTS main, linked, a, b, prop, rec, nothing

MCApart == (a :> main) @@ (b :> linked)
MCTogether == (a :> main) @@ (b :> main)
================================================================================
