------------------------------ MODULE PrivateProofs ------------------------------
(***************************************************************************)
(* Theorems about PrivateLifecycle, for every set of records, operations   *)
(* and grants and for every bound.                                         *)
(***************************************************************************)
EXTENDS PrivateLifecycle, TLAPS

-------------------------------------------------------------------------------
(* Consent                                                                  *)

(* A reconciliation leaves the projection of the grant that is active, at   *)
(* the generation there is.                                                 *)
LEMMA ReconcileFollows ==
    ASSUME NEW end, Reconcile(end), UNCHANGED maintenance, maintenance.active
    PROVE  MaintenanceFollowsConsent'
<1>1. CASE end = "blocked"
    BY <1>1 DEF Reconcile, Marked, MaintenanceFollowsConsent
<1>2. CASE end # "blocked"
    BY <1>2 DEF Reconcile, Reconciled, MaintenanceFollowsConsent
<1>3. QED BY <1>1, <1>2

(* So does what follows a write, whatever the triggers marked.              *)
LEMMA AfterWriteFollows ==
    ASSUME NEW end, AfterWrite(end), MaintenanceFollowsConsent
    PROVE  MaintenanceFollowsConsent'
<1>1. CASE ~ maintenance.active
    BY <1>1 DEF AfterWrite, MaintenanceFollowsConsent
<1>2. CASE maintenance.active /\ end = "stopped"
    <2>1. projection' = Marked("dirty", generation') /\ UNCHANGED maintenance
        BY <1>2 DEF AfterWrite
    <2>2. QED BY <1>2, <2>1 DEF Marked, MaintenanceFollowsConsent
<1>3. CASE maintenance.active /\ end # "stopped"
    BY <1>3, ReconcileFollows DEF AfterWrite
<1>4. QED BY <1>1, <1>2, <1>3

LEMMA WriteFollows ==
    ASSUME NEW r, NEW row, NEW end, Write(r, row, end), MaintenanceFollowsConsent
    PROVE  MaintenanceFollowsConsent'
BY AfterWriteFollows DEF Write

LEMMA RefreshFollows ==
    ASSUME NEW end, RefreshMirror(end), MaintenanceFollowsConsent
    PROVE  MaintenanceFollowsConsent'
<1>1. CASE NeedsReconciliation
    BY <1>1, ReconcileFollows DEF RefreshMirror, NeedsReconciliation
<1>2. CASE ~ NeedsReconciliation
    BY <1>2 DEF RefreshMirror, recordVars, MaintenanceFollowsConsent
<1>3. QED BY <1>1, <1>2

(* There is a projection exactly while a maintenance grant is active, and   *)
(* it is that grant's, of the present generation.                           *)
THEOREM MaintenanceAlwaysConsented == Spec => []MaintenanceFollowsConsent
<1>1. Init => MaintenanceFollowsConsent
    BY DEF Init, DisabledProjection, MaintenanceFollowsConsent
<1>2. ASSUME MaintenanceFollowsConsent, [Next]_vars
      PROVE  MaintenanceFollowsConsent'
    <2>1. CASE \E g \in Grants : \E o \in Ops, group \in Groups, at \in (0..now) \cup {Never},
                 lifetime \in Lifetimes, until \in Times :
                 Authorize(g, o, group, at, lifetime, until)
        BY <1>2, <2>1 DEF Authorize, recordVars, MaintenanceFollowsConsent
    <2>2. CASE \E g \in Grants : Revoke(g)
        BY <1>2, <2>2 DEF Revoke, recordVars, MaintenanceFollowsConsent
    <2>3. ASSUME NEW g \in Grants, NEW h \in Grants, NEW end \in Ends, Apply(g, h, end)
          PROVE  MaintenanceFollowsConsent'
        BY <1>2, <2>3, AfterWriteFollows DEF Apply
    <2>4. ASSUME NEW g \in Grants, NEW h \in Grants, NEW end \in Ends, Replay(g, h, end)
          PROVE  MaintenanceFollowsConsent'
        BY <1>2, <2>4, RefreshFollows DEF Replay
    <2>5. ASSUME NEW r \in Records, NEW end \in Ends, Capture(r, end)
          PROVE  MaintenanceFollowsConsent'
        BY <1>2, <2>5, WriteFollows DEF Capture
    <2>6. ASSUME NEW r \in Records, NEW end \in Ends, ContinueCheckpoint(r, end)
          PROVE  MaintenanceFollowsConsent'
        BY <1>2, <2>6, WriteFollows DEF ContinueCheckpoint
    <2>7. ASSUME NEW r \in Records, NEW end \in Ends, CloseCheckpoint(r, end)
          PROVE  MaintenanceFollowsConsent'
        BY <1>2, <2>7, WriteFollows DEF CloseCheckpoint
    <2>8. ASSUME NEW r \in Records, NEW s \in Records, NEW end \in Ends,
                 SucceedCheckpoint(r, s, end)
          PROVE  MaintenanceFollowsConsent'
        BY <1>2, <2>8, WriteFollows DEF SucceedCheckpoint
    <2>9. ASSUME NEW end \in Ends, Refresh(end)
          PROVE  MaintenanceFollowsConsent'
        BY <1>2, <2>9, RefreshFollows DEF Refresh
    <2>10. ASSUME NEW end \in Ends, Enable(end)
           PROVE  MaintenanceFollowsConsent'
        <3>1. maintenance'.active
            BY <2>10 DEF Enable
        <3>2. QED BY <2>10, <3>1 DEF Enable, Reconciled, MaintenanceFollowsConsent
    <2>11. ASSUME NEW end \in Ends, Disable(end)
           PROVE  MaintenanceFollowsConsent'
        <3>1. ~ maintenance'.active
            BY <2>11 DEF Disable
        <3>2. QED BY <2>11, <3>1 DEF Disable, DisabledProjection, MaintenanceFollowsConsent
    <2>12. ASSUME NEW end \in Ends, ReconcileNow(end)
           PROVE  MaintenanceFollowsConsent'
        BY <2>12, ReconcileFollows DEF ReconcileNow
    <2>13. CASE Tick
        BY <1>2, <2>13 DEF Tick, recordVars, MaintenanceFollowsConsent
    <2>14. CASE UNCHANGED vars
        BY <1>2, <2>14 DEF vars, recordVars, MaintenanceFollowsConsent
    <2>15. QED
        BY <1>2, <2>1, <2>2, <2>3, <2>4, <2>5, <2>6, <2>7, <2>8, <2>9, <2>10, <2>11,
           <2>12, <2>13, <2>14 DEF Next
<1>3. QED BY <1>1, <1>2, PTL DEF Spec

-------------------------------------------------------------------------------
(* One action of a request                                                  *)

(* No other action of a request touches a record that one touches.          *)
LEMMA ActionOnIs ==
    ASSUME NEW group, IsRequest(group), NEW a \in group, NEW r \in Touched(a)
    PROVE  ActionOn(group, r) = a /\ IsTouched(group, r)
<1>1. \E b \in group : r \in Touched(b)
    OBVIOUS
<1>2. ActionOn(group, r) \in group /\ r \in Touched(ActionOn(group, r))
    BY <1>1 DEF ActionOn
<1>3. \A b \in group : b # a => Touched(a) \cap Touched(b) = {}
    BY DEF IsRequest
<1>4. QED BY <1>1, <1>2, <1>3 DEF IsTouched

(* The record a single action acts on.                                      *)
LEMMA TheOneIs ==
    ASSUME NEW a, IsAction(a), ~ IsSelection(a)
    PROVE  TheOne(a) \in Records /\ a.on = {TheOne(a)}
<1>1. PICK r \in Records : a.on = {r}
    BY DEF IsAction
<1>2. \A q \in Records : a.on = {q} => q = r
    BY <1>1
<1>3. QED BY <1>1, <1>2 DEF TheOne

(* A record's facts stay facts, whichever action touches it.                *)
LEMMA FactsTyped ==
    ASSUME facts \in [Records -> Facts], NEW a \in Action, IsAction(a),
           NEW r \in Records, NEW o \in Ops
    PROVE  FactsAfter(a, r, o) \in Facts
<1>1. facts[r] \in Facts
    OBVIOUS
<1>2. a.until \in Times
    BY DEF Action
<1>3. CASE a.kind = "correct" /\ r = a.to
    <2>1. facts[TheOne(a)] \in Facts
        BY <1>3, TheOneIs DEF IsSelection
    <2> DEFINE f == facts[TheOne(a)]
    <2>2. [k \in FactKinds |-> IF f.by[k] = NoOp THEN NoOp ELSE o]
            \in [FactKinds -> Ops \cup {NoOp}]
        OBVIOUS
    <2> HIDE DEF f
    <2>3. f \in Facts
        BY <2>1 DEF f
    <2>4. Inherited(f, o) \in Facts
        BY <2>2, <2>3 DEF Inherited, Facts
    <2>5. QED BY <1>3, <2>4 DEF FactsAfter, f
<1>4. CASE ~ (a.kind = "correct" /\ r = a.to)
    <2> DEFINE f == facts[r]
    <2>1. \A k \in FactKinds : [f.by EXCEPT ![k] = o] \in [FactKinds -> Ops \cup {NoOp}]
        BY <1>1 DEF Facts
    <2>2. {"recall", "validity", "retention", "quarantine"} \subseteq FactKinds
        BY DEF FactKinds
    <2> HIDE DEF f
    <2>3. f \in Facts
        BY <1>1 DEF f
    <2>4. /\ [f EXCEPT !.recall = a.until, !.by["recall"] = o] \in Facts
          /\ [f EXCEPT !.validity = a.until, !.by["validity"] = o] \in Facts
          /\ [f EXCEPT !.retain = a.until, !.by["retention"] = o] \in Facts
        BY <1>2, <2>1, <2>2, <2>3 DEF Facts
    <2>5. /\ [f EXCEPT !.pinned = (a.kind = "pin"), !.by["retention"] = o] \in Facts
          /\ [f EXCEPT !.quarantined = (a.kind = "quarantine"), !.by["quarantine"] = o]
               \in Facts
        BY <2>1, <2>2, <2>3 DEF Facts
    <2>6. QED BY <1>4, <2>3, <2>4, <2>5 DEF FactsAfter, f
<1>5. QED BY <1>3, <1>4

(* An action that is permitted moves no clock of a record backwards.        *)
LEMMA FactsGrow ==
    ASSUME facts \in [Records -> Facts], NEW a \in Action, IsAction(a), Permits(a, now),
           NEW r \in Records, r \in Touched(a), Exists(r), NEW o \in Ops
    PROVE  KeepsClocks(facts[r], FactsAfter(a, r, o))
<1>1. /\ facts[r].recall \in Nat /\ facts[r].validity \in Nat /\ facts[r].retain \in Nat
      /\ a.until \in Nat
    BY LifecycleBounds DEF Facts, Action, Times
<1>2. ~ (a.kind = "correct" /\ r = a.to)
    <2>1. ASSUME a.kind = "correct" PROVE ~ Exists(a.to)
        <3>1. PICK q \in Records : a.on = {q}
            BY <2>1, TheOneIs DEF IsSelection
        <3>2. ~ PermitsExtension(a, q, now)
            BY <2>1 DEF PermitsExtension
        <3>3. PermitsRetirement(a, q, now)
            BY <3>1, <3>2 DEF Permits
        <3>4. QED BY <2>1, <3>3 DEF PermitsRetirement
    <2>2. QED BY <2>1
<1>3. ASSUME a.kind \in {"extend_automatic_recall", "extend_validity", "retain_until"}
      PROVE  PermitsExtension(a, r, now)
    <2>1. a.to = NoRecord
        BY <1>3 DEF IsAction, Retiring
    <2>2. r \in a.on
        BY <2>1 DEF Touched
    <2>3. ~ PermitsRetirement(a, r, now)
        BY <1>3 DEF PermitsRetirement
    <2>4. QED BY <2>2, <2>3 DEF Permits
<1>4. CASE a.kind = "extend_automatic_recall"
    <2>1. a.until > RecallBoundary(record[r], facts[r])
        BY <1>3, <1>4 DEF PermitsExtension
    <2>2. a.until >= facts[r].recall
        BY <1>1, <2>1 DEF RecallBoundary, Unset
    <2>3. FactsAfter(a, r, o) = [facts[r] EXCEPT !.recall = a.until, !.by["recall"] = o]
        BY <1>4 DEF FactsAfter
    <2>4. QED BY <1>1, <2>2, <2>3 DEF KeepsClocks, Facts
<1>5. CASE a.kind = "extend_validity"
    <2>1. a.until > Validity(record[r], facts[r])
        BY <1>3, <1>5 DEF PermitsExtension
    <2>2. a.until >= facts[r].validity
        BY <1>1, <2>1 DEF Validity, Unset
    <2>3. FactsAfter(a, r, o) = [facts[r] EXCEPT !.validity = a.until, !.by["validity"] = o]
        BY <1>5 DEF FactsAfter
    <2>4. QED BY <1>1, <2>2, <2>3 DEF KeepsClocks, Facts
<1>6. CASE a.kind = "retain_until"
    <2>1. a.until > facts[r].retain
        BY <1>3, <1>6 DEF PermitsExtension
    <2>2. FactsAfter(a, r, o) = [facts[r] EXCEPT !.retain = a.until, !.by["retention"] = o]
        BY <1>6 DEF FactsAfter
    <2>3. QED BY <1>1, <2>1, <2>2 DEF KeepsClocks, Facts
<1>7. CASE a.kind \in {"pin", "unpin"}
    <2>1. FactsAfter(a, r, o) =
            [facts[r] EXCEPT !.pinned = (a.kind = "pin"), !.by["retention"] = o]
        BY <1>7 DEF FactsAfter
    <2>2. QED BY <1>1, <2>1 DEF KeepsClocks, Facts
<1>8. CASE a.kind \in {"quarantine", "release_quarantine"}
    <2>1. FactsAfter(a, r, o) =
            [facts[r] EXCEPT !.quarantined = (a.kind = "quarantine"), !.by["quarantine"] = o]
        BY <1>8 DEF FactsAfter
    <2>2. QED BY <1>1, <2>1 DEF KeepsClocks, Facts
<1>9. CASE a.kind \in Retiring
    <2>1. FactsAfter(a, r, o) = facts[r]
        BY <1>2, <1>9 DEF FactsAfter, Retiring
    <2>2. QED BY <1>1, <2>1 DEF KeepsClocks
<1>10. QED BY <1>4, <1>5, <1>6, <1>7, <1>8, <1>9 DEF Action, Kinds, Retiring

-------------------------------------------------------------------------------
(* What the tables hold                                                     *)

IsGrantRow(row) ==
    row # NoGrantRow => /\ row.request.op \in Ops /\ row.request.group \in Groups
                        /\ IsRequest(row.request.group)

(* The generation only grows, and no application and no mirror is ahead of  *)
(* it.                                                                      *)
GenerationLeads ==
    /\ generation \in Nat
    /\ mirror.generation \in 0..generation
    /\ DOMAIN application = Ops
    /\ \A o \in Ops : application[o].generation \in 0..generation

(* The inductive invariant of the theorems below.                           *)
Bookkeeping ==
    /\ GenerationLeads
    /\ facts \in [Records -> Facts]
    /\ DOMAIN grant = Grants /\ \A g \in Grants : IsGrantRow(grant[g])
    /\ acked \subseteq Ops /\ AckedIsMirrored

(* A step that leaves the grants, the facts and what was applied alone.     *)
LEMMA BookkeepingKept ==
    ASSUME Bookkeeping, generation' \in Nat, generation' >= generation,
           UNCHANGED <<facts, grant, application>>,
           \/ mirror' = mirror
           \/ mirror'.generation = generation',
           acked' \subseteq Ops,
           \A o \in acked' \ acked :
             application[o] # NoApplication /\ mirror'.generation = generation'
    PROVE  Bookkeeping'
<1>1. GenerationLeads'
    BY DEF Bookkeeping, GenerationLeads
<1>2. AckedIsMirrored'
    <2>1. \A o \in Ops : application[o].generation \in 0..generation
        BY DEF Bookkeeping, GenerationLeads
    <2>2. mirror.generation \in Nat /\ mirror'.generation \in Nat
        BY DEF Bookkeeping, GenerationLeads
    <2>3. mirror'.generation >= mirror.generation
        BY DEF Bookkeeping, GenerationLeads
    <2>4. ASSUME NEW o \in acked'
          PROVE  application'[o] # NoApplication
                 /\ mirror'.generation >= application'[o].generation
        <3>0. application[o].generation \in Nat /\ application[o].generation <= generation
            BY <2>1, <2>4 DEF Bookkeeping, GenerationLeads
        <3>1. CASE o \in acked
            BY <2>2, <2>3, <3>0, <3>1 DEF Bookkeeping, AckedIsMirrored
        <3>2. CASE o \notin acked
            BY <2>4, <3>0, <3>2 DEF Bookkeeping, GenerationLeads
        <3>3. QED BY <3>1, <3>2
    <2>5. QED BY <2>4 DEF AckedIsMirrored
<1>3. QED BY <1>1, <1>2 DEF Bookkeeping, IsGrantRow

LEMMA CopyIsPresent ==
    ASSUME NEW end, CopyToMirror(end)
    PROVE  /\ mirror' = mirror \/ mirror'.generation = generation'
           /\ IsMirrored(end) => mirror'.generation = generation'
BY DEF CopyToMirror, Shared

(* What a refresh of the mirror, and what a write, leaves alone.            *)
LEMMA RefreshKeeps ==
    ASSUME NEW end, RefreshMirror(end), Bookkeeping
    PROVE  /\ generation' = generation /\ facts' = facts /\ relation' = relation
           /\ mirror' = mirror \/ mirror'.generation = generation'
           /\ IsMirrored(end) => mirror'.generation = generation'
BY CopyIsPresent DEF RefreshMirror, recordVars

LEMMA WriteKeeps ==
    ASSUME NEW r, NEW row, NEW end, Write(r, row, end), Bookkeeping
    PROVE  /\ Bookkeeping'
           /\ facts' = facts /\ relation' = relation
<1>1. generation' = generation + 1 /\ facts' = facts /\ relation' = relation
      /\ UNCHANGED <<grant, application, acked>>
    BY DEF Write, Rotate, grantVars
<1>2. mirror' = mirror \/ mirror'.generation = generation'
    BY CopyIsPresent DEF Write, AfterWrite
<1>3. generation \in Nat /\ acked \subseteq Ops
    BY DEF Bookkeeping, GenerationLeads
<1>4. QED BY <1>1, <1>2, <1>3, BookkeepingKept

(* The group of a stored request, and its actions.                          *)
LEMMA StoredActions ==
    ASSUME Bookkeeping, NEW g \in Grants, grant[g].state # "none",
           NEW a \in grant[g].request.group
    PROVE  /\ grant[g].request.op \in Ops
           /\ IsRequest(grant[g].request.group)
           /\ a \in Action /\ IsAction(a)
<1>1. grant[g] # NoGrantRow
    BY DEF NoGrantRow
<1>2. grant[g].request.op \in Ops /\ grant[g].request.group \in Groups
      /\ IsRequest(grant[g].request.group)
    BY <1>1 DEF Bookkeeping, IsGrantRow
<1>3. a \in Action
    BY <1>2, GroupAssumption
<1>4. QED BY <1>2, <1>3 DEF IsRequest

LEMMA ApplyFacts ==
    ASSUME Bookkeeping, NEW g \in Grants, NEW h \in Grants, NEW end \in Ends,
           Apply(g, h, end), NEW r \in Records
    PROVE  /\ facts'[r] \in Facts
           /\ Exists(r) => KeepsClocks(facts[r], facts'[r])
<1> DEFINE group == grant[h].request.group
           o == grant[h].request.op
<1>1. facts' = [q \in Records |-> IF IsTouched(group, q)
                                  THEN FactsAfter(ActionOn(group, q), q, o) ELSE facts[q]]
    BY DEF Apply, ApplyGroup
<1>2. grant[h].state # "none" /\ \A a \in group : Permits(a, now)
    BY DEF Apply, IsBinding
<1>3. facts \in [Records -> Facts]
    BY DEF Bookkeeping
<1>4. CASE ~ IsTouched(group, r)
    <2>1. facts'[r] = facts[r]
        BY <1>1, <1>4
    <2>2. facts[r] \in Facts
        BY <1>3
    <2>3. facts[r].recall \in Nat /\ facts[r].validity \in Nat /\ facts[r].retain \in Nat
        BY <2>2, LifecycleBounds DEF Facts, Times
    <2>4. QED BY <2>1, <2>2, <2>3 DEF KeepsClocks
<1>5. CASE IsTouched(group, r)
    <2>1. PICK a \in group : r \in Touched(a)
        BY <1>5 DEF IsTouched
    <2>2. o \in Ops /\ IsRequest(group) /\ a \in Action /\ IsAction(a)
        BY <1>2, StoredActions
    <2>3. ActionOn(group, r) = a
        BY <2>1, <2>2, ActionOnIs
    <2>4. facts'[r] = FactsAfter(a, r, o)
        BY <1>1, <1>5, <2>3
    <2>5. FactsAfter(a, r, o) \in Facts
        BY <1>3, <2>2, FactsTyped
    <2>6. Exists(r) => KeepsClocks(facts[r], FactsAfter(a, r, o))
        BY <1>2, <1>3, <2>1, <2>2, FactsGrow
    <2>7. QED BY <2>4, <2>5, <2>6
<1>6. QED BY <1>4, <1>5

(* A correction carries everything over.                                    *)
LEMMA ApplyCorrections ==
    ASSUME Bookkeeping, NEW g \in Grants, NEW h \in Grants, NEW end \in Ends,
           Apply(g, h, end), NEW x \in relation' \ relation, x.kind = "correct"
    PROVE  /\ KeepsClocks(facts[x.subject], facts'[x.related])
           /\ facts'[x.related].pinned = facts[x.subject].pinned
           /\ facts'[x.related].quarantined = facts[x.subject].quarantined
<1> DEFINE group == grant[h].request.group
           o == grant[h].request.op
<1>1. PICK a \in {b \in group : b.kind \in Retiring} :
        \E r \in a.on : x = [kind |-> a.kind, subject |-> r, related |-> a.to, op |-> o]
    BY DEF Apply, ApplyGroup
<1>2. PICK r \in a.on : x = [kind |-> a.kind, subject |-> r, related |-> a.to, op |-> o]
    BY <1>1
<1>3. grant[h].state # "none"
    BY DEF Apply
<1>4. o \in Ops /\ IsRequest(group) /\ a \in Action /\ IsAction(a)
    BY <1>3, StoredActions
<1>5. a.kind = "correct" /\ x.subject = r /\ x.related = a.to
    BY <1>2
<1>6. a.to \in Records /\ a.to \in Touched(a)
    BY <1>4, <1>5 DEF Action, IsAction, Retiring, Touched
<1>7. TheOne(a) = r /\ r \in Records
    BY <1>2, <1>4, <1>5, TheOneIs DEF IsSelection
<1>8. ActionOn(group, a.to) = a /\ IsTouched(group, a.to)
    BY <1>4, <1>6, ActionOnIs
<1>9. facts'[a.to] = Inherited(facts[r], o)
    <2>1. facts' = [q \in Records |-> IF IsTouched(group, q)
                      THEN FactsAfter(ActionOn(group, q), q, o) ELSE facts[q]]
        BY DEF Apply, ApplyGroup
    <2>2. facts'[a.to] = FactsAfter(a, a.to, o)
        BY <1>6, <1>8, <2>1
    <2>3. QED BY <1>5, <1>7, <2>2 DEF FactsAfter
<1>10. facts[r] \in Facts
    BY <1>7 DEF Bookkeeping
<1>11. facts[r].recall \in Nat /\ facts[r].validity \in Nat /\ facts[r].retain \in Nat
    BY <1>10, LifecycleBounds DEF Facts, Times
<1>12. /\ Inherited(facts[r], o).recall = facts[r].recall
       /\ Inherited(facts[r], o).validity = facts[r].validity
       /\ Inherited(facts[r], o).retain = facts[r].retain
       /\ Inherited(facts[r], o).pinned = facts[r].pinned
       /\ Inherited(facts[r], o).quarantined = facts[r].quarantined
    BY <1>10 DEF Inherited, Facts
<1>13. QED BY <1>5, <1>9, <1>11, <1>12 DEF KeepsClocks

LEMMA ApplyKeeps ==
    ASSUME Bookkeeping, NEW g \in Grants, NEW h \in Grants, NEW end \in Ends,
           Apply(g, h, end)
    PROVE  Bookkeeping'
<1> DEFINE o == grant[h].request.op
<1>1. grant[g] # NoGrantRow /\ grant[h] # NoGrantRow
    BY DEF Apply, NoGrantRow
<1>2. o \in Ops
    BY <1>1 DEF Bookkeeping, IsGrantRow
<1>3. generation' = generation + 1
    BY DEF Apply, ApplyGroup, Rotate
<1>4. /\ mirror' = mirror \/ mirror'.generation = generation'
      /\ IsMirrored(end) => mirror'.generation = generation'
    BY CopyIsPresent DEF Apply, AfterWrite
<1>5. /\ DOMAIN application' = Ops
      /\ \A q \in Ops : q # o => application'[q] = application[q]
      /\ application'[o].generation = generation'
      /\ application'[o].grant = g
    BY <1>2 DEF Apply, Bookkeeping, GenerationLeads
<1>6. application[o] = NoApplication
    BY DEF Apply
<1>7. GenerationLeads'
    <2>1. generation \in Nat /\ mirror.generation \in 0..generation
          /\ \A q \in Ops : application[q].generation \in 0..generation
        BY DEF Bookkeeping, GenerationLeads
    <2>2. generation' \in Nat /\ mirror'.generation \in 0..generation'
        BY <1>3, <1>4, <2>1
    <2>3. \A q \in Ops : application'[q].generation \in 0..generation'
        BY <1>3, <1>5, <2>1
    <2>4. QED BY <1>5, <2>2, <2>3 DEF GenerationLeads
<1>8. (facts \in [Records -> Facts])'
    <2>1. \A r \in Records : facts'[r] \in Facts
        BY ApplyFacts
    <2>2. DOMAIN facts' = Records
          /\ facts' = [r \in Records |-> facts'[r]]
        BY DEF Apply, ApplyGroup
    <2>3. QED BY <2>1, <2>2
<1>9. DOMAIN grant' = Grants /\ \A q \in Grants : IsGrantRow(grant'[q])
    <2>1. grant' = [grant EXCEPT ![g].state = "consumed"]
        BY DEF Apply
    <2>2. DOMAIN grant = Grants /\ \A q \in Grants : IsGrantRow(grant[q])
        BY DEF Bookkeeping
    <2>3. grant'[g].request = grant[g].request
        BY <2>1, <2>2
    <2>4. ASSUME NEW q \in Grants PROVE IsGrantRow(grant'[q])
        <3>1. CASE q = g
            BY <1>1, <2>2, <2>3, <3>1 DEF IsGrantRow
        <3>2. CASE q # g
            BY <2>1, <2>2, <3>2
        <3>3. QED BY <3>1, <3>2
    <2>5. QED BY <2>1, <2>2, <2>4
<1>10. acked' \subseteq Ops
    BY <1>2 DEF Apply, Bookkeeping
<1>11. AckedIsMirrored'
    <2>1. /\ generation \in Nat /\ mirror.generation \in Nat /\ mirror'.generation \in Nat
          /\ mirror.generation <= generation /\ mirror'.generation >= mirror.generation
          /\ \A q \in Ops : application[q].generation \in Nat
        BY <1>3, <1>4, <1>7 DEF Bookkeeping, GenerationLeads
    <2>2. ASSUME NEW q \in acked'
          PROVE  application'[q] # NoApplication
                 /\ mirror'.generation >= application'[q].generation
        <3>1. CASE q \in acked
            <4>1. q # o
                BY <1>6, <3>1 DEF Bookkeeping, AckedIsMirrored
            <4>2. application'[q] = application[q]
                BY <1>5, <3>1, <4>1 DEF Bookkeeping
            <4>3. application[q] # NoApplication
                  /\ mirror.generation >= application[q].generation
                BY <3>1 DEF Bookkeeping, AckedIsMirrored
            <4>4. application[q].generation \in Nat
                BY <2>1, <3>1 DEF Bookkeeping
            <4>5. QED BY <2>1, <4>2, <4>3, <4>4
        <3>2. CASE q \notin acked
            <4>1. q = o /\ IsMirrored(end)
                BY <2>2, <3>2 DEF Apply
            <4>2. application'[o].generation # 0
                BY <1>3, <1>5, <2>1
            <4>3. QED BY <1>3, <1>4, <1>5, <2>1, <4>1, <4>2 DEF NoApplication
        <3>3. QED BY <3>1, <3>2
    <2>3. QED BY <2>2 DEF AckedIsMirrored
<1>12. QED BY <1>7, <1>8, <1>9, <1>10, <1>11 DEF Bookkeeping

LEMMA AuthorizeKeeps ==
    ASSUME Bookkeeping, NEW g \in Grants, NEW o \in Ops, NEW group \in Groups,
           NEW at, NEW lifetime, NEW until,
           Authorize(g, o, group, at, lifetime, until)
    PROVE  Bookkeeping'
<1>1. UNCHANGED <<facts, application, generation, mirror, acked>>
    BY DEF Authorize, recordVars
<1>2. GenerationLeads' /\ AckedIsMirrored'
    BY <1>1 DEF Bookkeeping, GenerationLeads, AckedIsMirrored
<1>3. PICK row : /\ grant' = [grant EXCEPT ![g] = row]
                 /\ row.request.op = o /\ row.request.group = group
                 /\ IsRequest(group)
    BY DEF Authorize
<1>4. DOMAIN grant' = Grants /\ \A q \in Grants : IsGrantRow(grant'[q])
    BY <1>3 DEF Bookkeeping, IsGrantRow
<1>5. QED BY <1>1, <1>2, <1>4 DEF Bookkeeping

LEMMA RevokeKeeps ==
    ASSUME Bookkeeping, NEW g \in Grants, Revoke(g)
    PROVE  Bookkeeping'
<1>1. UNCHANGED <<facts, application, generation, mirror, acked>>
    BY DEF Revoke, recordVars
<1>2. GenerationLeads' /\ AckedIsMirrored'
    BY <1>1 DEF Bookkeeping, GenerationLeads, AckedIsMirrored
<1>3. grant' = [grant EXCEPT ![g].state = "revoked"] /\ grant[g] # NoGrantRow
    BY DEF Revoke, NoGrantRow
<1>4. DOMAIN grant' = Grants /\ \A q \in Grants : IsGrantRow(grant'[q])
    <2>1. DOMAIN grant = Grants /\ \A q \in Grants : IsGrantRow(grant[q])
        BY DEF Bookkeeping
    <2>2. grant'[g].request = grant[g].request
        BY <1>3, <2>1
    <2>3. ASSUME NEW q \in Grants PROVE IsGrantRow(grant'[q])
        <3>1. CASE q = g
            BY <1>3, <2>1, <2>2, <3>1 DEF IsGrantRow
        <3>2. CASE q # g
            BY <1>3, <2>1, <3>2
        <3>3. QED BY <3>1, <3>2
    <2>4. QED BY <1>3, <2>1, <2>3
<1>5. QED BY <1>1, <1>2, <1>4 DEF Bookkeeping

LEMMA ReplayKeeps ==
    ASSUME Bookkeeping, NEW g \in Grants, NEW h \in Grants, NEW end, Replay(g, h, end)
    PROVE  /\ Bookkeeping'
           /\ facts' = facts /\ relation' = relation
<1> DEFINE o == grant[h].request.op
<1>1. o \in Ops /\ application[o] # NoApplication
    <2>1. grant[h] # NoGrantRow
        BY DEF Replay, NoGrantRow
    <2>2. QED BY <2>1 DEF Replay, Bookkeeping, IsGrantRow
<1>2. /\ generation' = generation /\ facts' = facts /\ relation' = relation
      /\ mirror' = mirror \/ mirror'.generation = generation'
      /\ IsMirrored(end) => mirror'.generation = generation'
    BY RefreshKeeps DEF Replay
<1>3. UNCHANGED <<grant, application>>
    BY DEF Replay, grantVars
<1>4. acked' = IF IsMirrored(end) THEN acked \cup {o} ELSE acked
    BY DEF Replay
<1>5. generation \in Nat /\ acked \subseteq Ops
    BY DEF Bookkeeping, GenerationLeads
<1>6. /\ acked' \subseteq Ops
      /\ \A q \in acked' \ acked :
           application[q] # NoApplication /\ mirror'.generation = generation'
    BY <1>1, <1>2, <1>4, <1>5
<1>7. Bookkeeping'
    BY <1>2, <1>3, <1>5, <1>6, BookkeepingKept
<1>8. QED BY <1>2, <1>7

(* What every step but an application does.                                 *)
LEMMA OtherStepsKeep ==
    ASSUME Bookkeeping, [Next]_vars,
           \A g, h \in Grants, end \in Ends : ~ Apply(g, h, end)
    PROVE  /\ Bookkeeping'
           /\ facts' = facts /\ relation' = relation
<1>1. generation \in Nat /\ acked \subseteq Ops
    BY DEF Bookkeeping, GenerationLeads
<1>2. ASSUME NEW g \in Grants, NEW o \in Ops, NEW group \in Groups,
             NEW at \in (0..now) \cup {Never}, NEW lifetime \in Lifetimes, NEW until \in Times,
             Authorize(g, o, group, at, lifetime, until)
      PROVE  Bookkeeping' /\ facts' = facts /\ relation' = relation
    BY <1>2, AuthorizeKeeps DEF Authorize, recordVars
<1>3. ASSUME NEW g \in Grants, Revoke(g)
      PROVE  Bookkeeping' /\ facts' = facts /\ relation' = relation
    BY <1>3, RevokeKeeps DEF Revoke, recordVars
<1>4. ASSUME NEW g \in Grants, NEW h \in Grants, NEW end \in Ends, Replay(g, h, end)
      PROVE  Bookkeeping' /\ facts' = facts /\ relation' = relation
    BY <1>4, ReplayKeeps
<1>5. ASSUME NEW r \in Records, NEW end \in Ends,
             \/ Capture(r, end)
             \/ ContinueCheckpoint(r, end)
             \/ CloseCheckpoint(r, end)
             \/ \E s \in Records : SucceedCheckpoint(r, s, end)
      PROVE  Bookkeeping' /\ facts' = facts /\ relation' = relation
    <2>1. \E q, row : Write(q, row, end)
        BY <1>5 DEF Capture, ContinueCheckpoint, CloseCheckpoint, SucceedCheckpoint
    <2>2. QED BY <2>1, WriteKeeps
<1>6. ASSUME NEW end \in Ends, Refresh(end)
      PROVE  Bookkeeping' /\ facts' = facts /\ relation' = relation
    <2>1. UNCHANGED <<grant, application, acked>>
        BY <1>6 DEF Refresh, grantVars
    <2>2. generation' = generation /\ facts' = facts /\ relation' = relation
          /\ (mirror' = mirror \/ mirror'.generation = generation')
        BY <1>6, RefreshKeeps DEF Refresh
    <2>3. QED BY <1>1, <2>1, <2>2, BookkeepingKept
<1>7. ASSUME NEW end \in Ends, Enable(end) \/ Disable(end) \/ ReconcileNow(end)
      PROVE  Bookkeeping' /\ facts' = facts /\ relation' = relation
    <2>1. UNCHANGED <<grant, application, acked>>
        BY <1>7 DEF Enable, Disable, ReconcileNow, grantVars
    <2>2. generation' = generation /\ facts' = facts /\ relation' = relation
        BY <1>7 DEF Enable, Disable, ReconcileNow, recordVars
    <2>3. mirror' = mirror \/ mirror'.generation = generation'
        BY <1>7, CopyIsPresent DEF Enable, Disable, ReconcileNow
    <2>4. QED BY <1>1, <2>1, <2>2, <2>3, BookkeepingKept
<1>8. ASSUME Tick \/ UNCHANGED vars
      PROVE  Bookkeeping' /\ facts' = facts /\ relation' = relation
    <2>1. UNCHANGED <<recordVars, grantVars, mirror, acked>>
        BY <1>8 DEF Tick, vars
    <2>2. QED BY <1>1, <2>1, BookkeepingKept DEF recordVars, grantVars
<1>9. QED BY <1>2, <1>3, <1>4, <1>5, <1>6, <1>7, <1>8 DEF Next

(* The bookkeeping is sound in every reachable state.                       *)
THEOREM BookkeepingHolds == Spec => []Bookkeeping
<1>1. Init => Bookkeeping
    <2>1. NoFacts \in Facts
        BY LifecycleBounds DEF NoFacts, Facts, Times, Unset
    <2>2. Init => GenerationLeads
        BY DEF Init, GenerationLeads, Shared, NoApplication
    <2>3. QED BY <2>1, <2>2 DEF Init, Bookkeeping, IsGrantRow, AckedIsMirrored
<1>2. ASSUME Bookkeeping, [Next]_vars
      PROVE  Bookkeeping'
    <2>1. CASE \E g, h \in Grants, end \in Ends : Apply(g, h, end)
        BY <1>2, <2>1, ApplyKeeps
    <2>2. CASE \A g, h \in Grants, end \in Ends : ~ Apply(g, h, end)
        BY <1>2, <2>2, OtherStepsKeep
    <2>3. QED BY <2>1, <2>2
<1>3. QED BY <1>1, <1>2, PTL DEF Spec

(* An operation that was reported as applied is in the mirror that recall   *)
(* reads, whichever of the calls that met it stopped before its refresh     *)
(* (apply_private_lifecycle and its replay).                                *)
THEOREM AckedAlwaysMirrored == Spec => []AckedIsMirrored
<1>1. Bookkeeping => AckedIsMirrored
    BY DEF Bookkeeping
<1>2. QED BY <1>1, BookkeepingHolds, PTL

(* No step shrinks what an owner granted a record, and a correction carries *)
(* all of it over (apply_action_group, create_correction_record).           *)
THEOREM ClocksAlwaysGrow == Spec => ClocksNeverShrink
<1>1. ASSUME Bookkeeping, [Next]_vars PROVE [ClocksGrow]_vars
    <2>1. ASSUME NEW g \in Grants, NEW h \in Grants, NEW end \in Ends, Apply(g, h, end)
          PROVE  ClocksGrow
        BY <1>1, <2>1, ApplyFacts, ApplyCorrections DEF ClocksGrow
    <2>2. ASSUME \A g, h \in Grants, end \in Ends : ~ Apply(g, h, end)
          PROVE  ClocksGrow
        <3>1. facts' = facts /\ relation' = relation
            BY <1>1, <2>2, OtherStepsKeep
        <3>2. ASSUME NEW r \in Records PROVE KeepsClocks(facts[r], facts'[r])
            <4>1. facts[r].recall \in Nat /\ facts[r].validity \in Nat
                  /\ facts[r].retain \in Nat
                BY <1>1, LifecycleBounds DEF Bookkeeping, Facts, Times
            <4>2. QED BY <3>1, <4>1 DEF KeepsClocks
        <3>3. QED BY <3>1, <3>2 DEF ClocksGrow
    <2>3. QED BY <2>1, <2>2
<1>2. QED BY <1>1, BookkeepingHolds, PTL DEF Spec, ClocksNeverShrink
================================================================================
