---------------------------- MODULE MCPacketRoutes ----------------------------
(* Two processes, in one worktree or in two of a repository, over two *)
(* candidates.                                                        *)
EXTENDS PacketRoutes, TLC

CONSTANTS A, B, one, two

Together == (one :> A) @@ (two :> A)
Apart == (one :> A) @@ (two :> B)
Case(r, h, n) == [route |-> r, home |-> h, mishaps |-> n]

MCCases == {
    Case("manual", Together, 2), Case("manual", Apart, 1),
    Case("import", Together, 2), Case("import", Apart, 2),
    Case("session_end", Together, 2), Case("session_end", Apart, 1),
    Case("capture", Together, 2), Case("capture", Apart, 1)}
MCUnlocked == {Case("capture", Together, 0)}
MCChanges == (1 :> "supersede") @@ (2 :> "tombstone")
===============================================================================
