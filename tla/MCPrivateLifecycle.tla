--------------------------- MODULE MCPrivateLifecycle ---------------------------
(* A finite instance of PrivateLifecycle: a claim that lapses, its opposite  *)
(* twice over, a later capture of the claim, an episode and a checkpoint,    *)
(* and the groups of actions two operations may ask for.                     *)
EXTENDS PrivateLifecycle, TLC

CONSTANTS lapsing, opposite, twin, later, episode, checkpoint, heir, fresh, nobody, op1, op2

MCRow(lane, claim, expires, origin) ==
    [status |-> "active", lane |-> lane, claim |-> claim, occurred |-> 0,
     continued |-> 0, closed |-> Never, expires |-> expires, reviewed |-> 0,
     origin |-> origin, pred |-> nobody, lineage |-> FALSE]

(* For the run about authority.                                             *)
MCPresent ==
    (lapsing :> MCRow("durable", "yes", 1, "first"))
    @@ (opposite :> MCRow("durable", "no", Never, "first"))
    @@ (episode :> MCRow("episodic", "note", Never, "first"))
    @@ (checkpoint :> MCRow("session", "note", Never, "first"))
MCArriving == later :> MCRow("durable", "yes", Never, "second")

(* For the run about contradictions: a claim that lapses, captured after    *)
(* the plans that are evaluated at 0 have left it out.                      *)
MCOpposed ==
    (opposite :> MCRow("durable", "no", Never, "first"))
    @@ (twin :> MCRow("durable", "no", Never, "second"))
    @@ (checkpoint :> MCRow("session", "note", Never, "first"))
MCTwin ==
    (lapsing :> MCRow("durable", "yes", 2, "first"))
    @@ (heir :> MCRow("session", "note", Never, "second"))

MCOpposite == {<<"yes", "no">>, <<"no", "yes">>}

MCAction(kind, on, to, until) ==
    [kind |-> kind, on |-> on, to |-> to, until |-> until, claim |-> "no", evidence |-> {}]
MCFact(kind, r) == MCAction(kind, {r}, nobody, 0)
MCCorrection(r, s) == [MCAction("correct", {r}, fresh, 0) EXCEPT !.evidence = {s}]

MCGroups == {
    {MCAction("extend_automatic_recall", {episode}, nobody, 3),
     MCAction("retain_until", {lapsing}, nobody, 3), MCFact("pin", opposite)},
    {MCAction("extend_validity", {lapsing}, nobody, 3), MCFact("quarantine", opposite)},
    {MCFact("unpin", opposite), MCFact("quarantine", checkpoint)},
    {MCFact("release_quarantine", opposite)},
    {MCAction("renew_from_evidence", {lapsing}, later, 0)},
    {MCCorrection(lapsing, opposite)},
    {MCAction("supersede", {opposite}, lapsing, 0)}}

MCConflicts == {
    {MCAction("consolidate", {opposite}, twin, 0)},
    {MCAction("resolve_contradiction", {lapsing, opposite}, twin, 0)},
    {MCCorrection(checkpoint, opposite)}}
MCSymmetry == Permutations(Ops)
================================================================================
