---------------------------- MODULE PrivateRecordProofs ----------------------------
(***************************************************************************)
(* Theorems about the rows, the facts and the plans of PrivateLifecycle:   *)
(* what they hold, how they are succeeded, and what time does to them.     *)
(***************************************************************************)
EXTENDS PrivateProofs

-------------------------------------------------------------------------------
(* Types                                                                    *)

(* The conjuncts of TypeOK, by what they are about.                         *)
RowsTyped ==
    /\ record \in [Records -> Row \cup {NoRow}]
    /\ facts \in [Records -> Facts]
    /\ version \in [Records -> Nat] /\ generation \in Nat
    /\ updated \in [Records -> 0..MaxTime]
RelationsTyped ==
    \A x \in relation : x.kind \in Retiring /\ {x.subject, x.related} \subseteq Records
MaintenanceTyped ==
    /\ maintenance \in [active : BOOLEAN, fingerprint : 0..MaxEnables]
    /\ projection.state \in {"disabled", "dirty", "current", "blocked"}
IsGrantTyped(row) ==
    \/ row = NoGrantRow
    \/ /\ row.state \in {"active", "revoked", "consumed"}
       /\ IsRequestRow(row.request)
       /\ row.from \in 0..MaxTime
       /\ row.from < row.until
       /\ row.until <= row.from + GrantWindow
GrantsTyped == \A g \in Grants : IsGrantTyped(grant[g])

LEMMA TypeOKIs ==
    TypeOK <=> /\ now \in 0..MaxTime /\ RowsTyped /\ RelationsTyped /\ MaintenanceTyped
               /\ GrantsTyped /\ acked \subseteq Ops
BY DEF TypeOK, RowsTyped, RelationsTyped, MaintenanceTyped, GrantsTyped, IsGrantTyped

LEMMA TimesAreNat ==
    /\ Times \subseteq Nat /\ Instants \subseteq Nat /\ 0..MaxTime \subseteq Times
    /\ MaxTime \in Nat /\ GrantWindow \in Nat /\ PlanWindow \in Nat /\ Never \in Nat
    /\ MaxEnables \in Nat
BY LifecycleBounds, WindowAssumption DEF Times, Instants

LEMMA NoRowIsNoRow == NoRow \notin Row
BY DEF NoRow, Row

(* A group that binds finds every record it touches and does not create.    *)
LEMMA BoundExist ==
    ASSUME NEW request, IsRequestRow(request), IsBinding(request)
    PROVE  \A r \in Needed(request.group) : Exists(r)
BY DEF IsRequestRow, IsBinding

LEMMA NeededOf ==
    ASSUME NEW group, NEW a \in group
    PROVE  /\ a.on \subseteq Needed(group) /\ a.evidence \subseteq Needed(group)
           /\ a.kind # "correct" => Touched(a) \subseteq Needed(group)
BY DEF Needed, Expected, Targets, Touched

LEMMA RowAfterTyped ==
    ASSUME RowsTyped, NEW a \in Action, IsAction(a), NEW r \in Records, NEW o \in Ops,
           r \in Touched(a), \A q \in a.on : Exists(q),
           a.kind # "correct" => Exists(r)
    PROVE  RowAfter(a, r, o) \in Row
<1>1. \A q \in Records : Exists(q) => record[q] \in Row
    BY DEF RowsTyped, Exists
<1>2. CASE r \in a.on
    <2> DEFINE row == record[r]
    <2>1. row \in Row
        BY <1>1, <1>2
    <2> HIDE DEF row
    <2>2. [row EXCEPT !.status = IF a.kind \in Retiring THEN "superseded" ELSE @] \in Row
        BY <2>1 DEF Row
    <2>3. QED BY <1>2, <2>2 DEF RowAfter, row
<1>3. CASE r \notin a.on /\ a.kind = "correct"
    <2> DEFINE row == record[TheOne(a)]
    <2>1. TheOne(a) \in Records /\ TheOne(a) \in a.on
        BY <1>3, TheOneIs DEF IsSelection
    <2>2. row \in Row
        BY <1>1, <2>1
    <2>3. a.claim \in Claims /\ 0 \in Times
        BY LifecycleBounds DEF Action, Times
    <2> HIDE DEF row
    <2>4. [row EXCEPT !.claim = a.claim, !.pred = TheOne(a), !.lineage = FALSE,
                      !.reviewed = 0, !.origin = o, !.status = "active"] \in Row
        BY <2>1, <2>2, <2>3 DEF Row
    <2>5. QED BY <1>3, <2>4 DEF RowAfter, Correction, row, Unset
<1>4. CASE r \notin a.on /\ a.kind # "correct"
    <2> DEFINE row == record[r]
    <2>1. row \in Row
        BY <1>1, <1>4
    <2> HIDE DEF row
    <2>2. ~ IsSelection(a) => TheOne(a) \in Records
        BY TheOneIs
    <2>3. ~ IsSelection(a) => /\ [row EXCEPT !.pred = TheOne(a), !.lineage = TRUE] \in Row
                              /\ [row EXCEPT !.pred = TheOne(a)] \in Row
        BY <2>1, <2>2 DEF Row
    <2>4. QED BY <1>4, <2>1, <2>3 DEF RowAfter, IsSelection, row
<1>5. QED BY <1>2, <1>3, <1>4

LEMMA BoundariesNat ==
    ASSUME NEW row \in Row, NEW f \in Facts
    PROVE  Boundaries(row, f) \subseteq Nat
<1>1. /\ row.occurred \in Nat /\ row.continued \in Nat /\ row.closed \in Nat
      /\ row.expires \in Nat /\ row.lane \in Lanes
    BY TimesAreNat DEF Row
<1>2. f.recall \in Nat /\ f.validity \in Nat
    BY TimesAreNat DEF Facts
<1>3. OrdinaryWindow \in Nat /\ Lease \in Nat /\ SessionCap \in Nat
    BY WindowAssumption
<1>4. RecallBoundary(row, f) \in Nat /\ Validity(row, f) \in Nat
    BY <1>1, <1>2, <1>3 DEF RecallBoundary, Validity, OrdinaryBoundary
<1>5. CASE row.lane = "session"
    BY <1>1, <1>3, <1>5 DEF Boundaries
<1>6. CASE row.lane = "episodic"
    BY <1>4, <1>6 DEF Boundaries
<1>7. CASE row.lane = "durable"
    BY <1>4, <1>7 DEF Boundaries
<1>8. QED BY <1>1, <1>5, <1>6, <1>7 DEF Lanes

LEMMA HorizonNat ==
    ASSUME RowsTyped, NEW t \in Nat
    PROVE  Horizon(t) \subseteq Nat
<1>1. ASSUME NEW r \in Records, IsRetained(r, t)
      PROVE  Boundaries(record[r], facts[r]) \subseteq Nat
    <2>1. record[r] \in Row /\ facts[r] \in Facts
        BY <1>1 DEF RowsTyped, IsRetained, Exists
    <2>2. QED BY <2>1, BoundariesNat
<1>2. t + PlanWindow \in Nat
    BY TimesAreNat
<1>3. QED BY <1>1, <1>2 DEF Horizon, Covered

LEMMA ReconcileTyped ==
    ASSUME NEW end, Reconcile(end), MaintenanceTyped, UNCHANGED maintenance
    PROVE  MaintenanceTyped'
<1>1. projection'.state \in {"blocked", "current"}
    BY DEF Reconcile, Marked, Reconciled
<1>2. QED BY <1>1 DEF MaintenanceTyped

LEMMA AfterWriteTyped ==
    ASSUME NEW end, AfterWrite(end), MaintenanceTyped, now \in 0..MaxTime
    PROVE  MaintenanceTyped' /\ now' \in 0..MaxTime
<1>1. CASE ~ maintenance.active
    BY <1>1 DEF AfterWrite, MaintenanceTyped
<1>2. CASE maintenance.active /\ end = "stopped"
    <2>1. projection' = Marked("dirty", generation') /\ UNCHANGED <<now, maintenance>>
        BY <1>2 DEF AfterWrite
    <2>2. projection'.state = "dirty"
        BY <2>1 DEF Marked
    <2>3. QED BY <2>1, <2>2 DEF MaintenanceTyped
<1>3. CASE maintenance.active /\ end # "stopped"
    BY <1>3, ReconcileTyped DEF AfterWrite
<1>4. QED BY <1>1, <1>2, <1>3

LEMMA RefreshTyped ==
    ASSUME NEW end, RefreshMirror(end), MaintenanceTyped, now \in 0..MaxTime
    PROVE  MaintenanceTyped' /\ now' \in 0..MaxTime
<1>1. CASE NeedsReconciliation
    BY <1>1, ReconcileTyped DEF RefreshMirror
<1>2. CASE ~ NeedsReconciliation
    BY <1>2 DEF RefreshMirror, MaintenanceTyped
<1>3. QED BY <1>1, <1>2

LEMMA RotateTyped ==
    ASSUME NEW rs, Rotate(rs), version \in [Records -> Nat], generation \in Nat
    PROVE  version' \in [Records -> Nat] /\ generation' \in Nat
BY DEF Rotate

LEMMA WriteTyped ==
    ASSUME NEW r \in Records, NEW row \in Row, NEW end, Write(r, row, end), TypeOK
    PROVE  TypeOK'
<1>1. RowsTyped /\ MaintenanceTyped /\ now \in 0..MaxTime
    BY TypeOKIs
<1>2. RowsTyped'
    BY <1>1, RotateTyped DEF Write, RowsTyped
<1>3. MaintenanceTyped' /\ now' \in 0..MaxTime
    BY <1>1, AfterWriteTyped DEF Write
<1>4. RelationsTyped' /\ GrantsTyped' /\ acked' \subseteq Ops
    BY DEF Write, grantVars, TypeOK, RelationsTyped, GrantsTyped, IsGrantTyped
<1>5. QED
    BY <1>2, <1>3, <1>4 DEF TypeOK, RowsTyped, RelationsTyped, MaintenanceTyped, GrantsTyped,
       IsGrantTyped

LEMMA AuthorizeTyped ==
    ASSUME TypeOK, NEW g \in Grants, NEW o \in Ops, NEW group \in Groups,
           NEW at \in (0..now) \cup {Never}, NEW lifetime, NEW until \in Times,
           Authorize(g, o, group, at, lifetime, until)
    PROVE  TypeOK'
<1> DEFINE request == [op |-> o, group |-> group,
                       versions |-> [r \in Needed(group) |-> version[r]],
                       plan |-> PlanOf(at)]
           row == [state |-> "active", request |-> request, from |-> now, until |-> until]
<1>1. RowsTyped /\ MaintenanceTyped /\ GrantsTyped /\ RelationsTyped /\ now \in 0..MaxTime
      /\ acked \subseteq Ops
    BY TypeOKIs
<1>2. /\ grant' = [grant EXCEPT ![g] = row]
      /\ UNCHANGED <<now, recordVars, maintenance, projection, acked>>
    BY DEF Authorize
<1>3. now < until /\ IsEarliest(until, Limits(lifetime, request.plan))
    BY DEF Authorize
<1>4. until <= now + GrantWindow
    BY <1>3 DEF IsEarliest, Limits
<1>5. IsPlanRow(request.plan)
    <2> SUFFICES ASSUME at # Never PROVE IsPlanRow(PlanAt(at))
        BY DEF IsPlanRow, PlanOf
    <2>1. at \in Nat /\ at \in Times
        BY <1>1, TimesAreNat DEF Times
    <2>2. Horizon(at) \subseteq Nat
        BY <1>1, <2>1, HorizonNat
    <2>3. IF maintenance.active THEN maintenance.fingerprint \in 0..MaxEnables ELSE 0 \in 0..MaxEnables
        BY <1>1, TimesAreNat DEF MaintenanceTyped
    <2>4. Proposals(Covered(at), at) \subseteq UNION Groups
        BY DEF Proposals
    <2>5. QED BY <1>1, <2>1, <2>2, <2>3, <2>4 DEF IsPlanRow, PlanAt, RowsTyped
<1>6. request.versions \in [Needed(group) -> Nat]
    <2>1. \A a \in group : a \in Action
        BY GroupAssumption
    <2>2. IsRequest(group)
        BY DEF Authorize
    <2>3. \A a \in group : Expected(a) \subseteq Records
        BY <2>1, <2>2 DEF IsRequest, IsAction, Expected, Targets, Touched, Action
    <2>4. Needed(group) \subseteq Records
        BY <2>3 DEF Needed
    <2>5. QED BY <1>1, <2>4 DEF RowsTyped
<1>7. IsRequestRow(request)
    BY <1>5, <1>6 DEF IsRequestRow
<1>8. IsGrantTyped(row)
    BY <1>1, <1>3, <1>4, <1>7 DEF IsGrantTyped
<1>9. GrantsTyped'
    <2> HIDE DEF row
    <2>1. \A h \in Grants : grant'[h] = grant[h] \/ grant'[h] = row
        BY <1>2
    <2>2. \A h \in Grants : IsGrantTyped(grant'[h])
        BY <1>1, <1>8, <2>1 DEF GrantsTyped
    <2>3. QED BY <2>2 DEF GrantsTyped, IsGrantTyped
<1>10. QED
    BY <1>1, <1>2, <1>9 DEF TypeOK, recordVars, RowsTyped, RelationsTyped, MaintenanceTyped,
       GrantsTyped, IsGrantTyped

(* The grant keeps its request when its state is set.                       *)
LEMMA StateSetTyped ==
    ASSUME GrantsTyped, DOMAIN grant = Grants, NEW g \in Grants, grant[g].state # "none",
           NEW state \in {"active", "revoked", "consumed"},
           grant' = [grant EXCEPT ![g].state = state]
    PROVE  GrantsTyped'
<1>1. grant[g] # NoGrantRow
    BY DEF NoGrantRow
<1>2. ASSUME NEW h \in Grants PROVE IsGrantTyped(grant'[h])
    <2>1. CASE h = g
        <3>1. IsGrantTyped(grant[g])
            BY DEF GrantsTyped
        <3>2. grant'[g] = [grant[g] EXCEPT !.state = state]
            OBVIOUS
        <3>3. /\ grant'[g].request = grant[g].request /\ grant'[g].from = grant[g].from
              /\ grant'[g].until = grant[g].until /\ grant'[g].state = state
            BY <3>2
        <3>4. QED BY <1>1, <2>1, <3>1, <3>3 DEF IsGrantTyped
    <2>2. CASE h # g
        BY <2>2 DEF GrantsTyped
    <2>3. QED BY <2>1, <2>2
<1>3. QED BY <1>2 DEF GrantsTyped, IsGrantTyped

(* What a request that binds finds: its actions, and their records.         *)
LEMMA BoundActions ==
    ASSUME TypeOK, Bookkeeping, NEW h \in Grants, grant[h].state # "none",
           IsBinding(grant[h].request), NEW a \in grant[h].request.group
    PROVE  /\ a \in Action /\ IsAction(a) /\ grant[h].request.op \in Ops
           /\ IsRequest(grant[h].request.group)
           /\ a.on \subseteq Records /\ a.evidence \subseteq Records
           /\ \A r \in a.on \cup a.evidence : Exists(r)
           /\ a.kind # "correct" => \A r \in Touched(a) : Exists(r)
           /\ Permits(a, now)
<1>1. a \in Action /\ IsAction(a) /\ grant[h].request.op \in Ops
      /\ IsRequest(grant[h].request.group)
    BY StoredActions
<1>2. IsRequestRow(grant[h].request)
    BY DEF TypeOK, NoGrantRow
<1>3. \A r \in Needed(grant[h].request.group) : Exists(r)
    BY <1>2, BoundExist
<1>4. Permits(a, now)
    BY DEF IsBinding
<1>5. a.on \subseteq Records /\ a.evidence \subseteq Records
    BY <1>1 DEF Action
<1>6. QED BY <1>1, <1>3, <1>4, <1>5, NeededOf

LEMMA ApplyTyped ==
    ASSUME TypeOK, Bookkeeping, NEW g \in Grants, NEW h \in Grants, NEW end \in Ends,
           Apply(g, h, end)
    PROVE  TypeOK'
<1> DEFINE group == grant[h].request.group
           o == grant[h].request.op
<1>1. RowsTyped /\ MaintenanceTyped /\ GrantsTyped /\ RelationsTyped /\ now \in 0..MaxTime
      /\ acked \subseteq Ops
    BY TypeOKIs
<1>2. grant[g].state # "none" /\ grant[h].state # "none" /\ IsBinding(grant[h].request)
    BY DEF Apply
<1>3. ASSUME NEW a \in group
      PROVE  /\ a \in Action /\ IsAction(a) /\ o \in Ops /\ IsRequest(group)
             /\ \A q \in a.on : Exists(q)
             /\ a.kind # "correct" => \A r \in Touched(a) : Exists(r)
    BY <1>2, BoundActions
<1>4. record' \in [Records -> Row \cup {NoRow}]
    <2>1. record' = [r \in Records |-> IF IsTouched(group, r)
                       THEN RowAfter(ActionOn(group, r), r, o) ELSE record[r]]
        BY DEF Apply, ApplyGroup
    <2>2. ASSUME NEW r \in Records, IsTouched(group, r)
          PROVE  RowAfter(ActionOn(group, r), r, o) \in Row
        <3>1. PICK a \in group : r \in Touched(a)
            BY <2>2 DEF IsTouched
        <3>2. ActionOn(group, r) = a
            BY <1>3, <3>1, ActionOnIs
        <3>3. QED BY <1>1, <1>3, <3>1, <3>2, RowAfterTyped
    <2>3. QED BY <1>1, <2>1, <2>2 DEF RowsTyped
<1>5. RowsTyped'
    <2>1. Rotate({r \in Records : IsTouched(group, r)})
        BY DEF Apply, ApplyGroup
    <2>2. version' \in [Records -> Nat] /\ generation' \in Nat
        BY <1>1, <2>1, RotateTyped DEF RowsTyped
    <2>3. (facts \in [Records -> Facts])'
        BY ApplyKeeps DEF Bookkeeping
    <2>4. (updated \in [Records -> 0..MaxTime])'
        BY <1>1 DEF Apply, ApplyGroup, RowsTyped
    <2>5. QED BY <1>4, <2>2, <2>3, <2>4 DEF RowsTyped
<1>6. RelationsTyped'
    <2>1. ASSUME NEW x \in relation' \ relation
          PROVE  x.kind \in Retiring /\ {x.subject, x.related} \subseteq Records
        <3>1. PICK a \in {b \in group : b.kind \in Retiring} :
                \E r \in a.on : x = [kind |-> a.kind, subject |-> r, related |-> a.to, op |-> o]
            BY <2>1 DEF Apply, ApplyGroup
        <3>2. a \in Action /\ a.to # NoRecord
            BY <1>3, <3>1 DEF IsAction
        <3>3. QED BY <3>1, <3>2 DEF Action
    <2>2. QED BY <1>1, <2>1 DEF RelationsTyped
<1>7. MaintenanceTyped' /\ now' \in 0..MaxTime
    BY <1>1, AfterWriteTyped DEF Apply
<1>8. GrantsTyped'
    <2>1. grant' = [grant EXCEPT ![g].state = "consumed"]
        BY DEF Apply
    <2>2. DOMAIN grant = Grants
        BY DEF Bookkeeping
    <2>3. QED BY <1>1, <1>2, <2>1, <2>2, StateSetTyped
<1>9. acked' \subseteq Ops
    BY ApplyKeeps DEF Bookkeeping
<1>10. QED
    BY <1>5, <1>6, <1>7, <1>8, <1>9 DEF TypeOK, RowsTyped, RelationsTyped, MaintenanceTyped,
       GrantsTyped, IsGrantTyped

LEMMA CaptureTyped ==
    ASSUME TypeOK, NEW r \in Records, NEW end \in Ends,
           \/ Capture(r, end)
           \/ ContinueCheckpoint(r, end)
           \/ CloseCheckpoint(r, end)
           \/ \E s \in Records : SucceedCheckpoint(r, s, end)
    PROVE  TypeOK'
<1>1. now \in Times /\ now \in Instants /\ 0 \in Times
    BY TimesAreNat DEF TypeOK, Times, Instants
<1>2. \A q \in Records : Exists(q) => record[q] \in Row
    BY DEF TypeOK, Exists
<1>3. CASE Capture(r, end)
    <2> DEFINE at == IF Arriving[r].lane = "durable" THEN Unset ELSE now
               row == Arriving[r]
    <2>1. row \in Row /\ at \in Times
        BY <1>1, <1>3, CastAssumption DEF Capture, Unset
    <2>2. Write(r, [row EXCEPT !.reviewed = now, !.occurred = at, !.continued = at], end)
        BY <1>3 DEF Capture
    <2> HIDE DEF row, at
    <2>3. [row EXCEPT !.reviewed = now, !.occurred = at, !.continued = at] \in Row
        BY <1>1, <2>1 DEF Row
    <2>4. QED BY <2>2, <2>3, WriteTyped
<1>4. CASE ContinueCheckpoint(r, end) \/ CloseCheckpoint(r, end)
    <2> DEFINE row == record[r]
    <2>1. row \in Row
        BY <1>2, <1>4 DEF ContinueCheckpoint, CloseCheckpoint, IsCheckpoint
    <2>2. \/ Write(r, [row EXCEPT !.continued = now], end)
          \/ Write(r, [row EXCEPT !.closed = now], end)
        BY <1>4 DEF ContinueCheckpoint, CloseCheckpoint
    <2> HIDE DEF row
    <2>3. [row EXCEPT !.continued = now] \in Row /\ [row EXCEPT !.closed = now] \in Row
        BY <1>1, <2>1 DEF Row
    <2>4. QED BY <2>2, <2>3, WriteTyped
<1>5. ASSUME NEW s \in Records, SucceedCheckpoint(r, s, end) PROVE TypeOK'
    <2> DEFINE row == Arriving[s]
    <2>1. row \in Row
        BY <1>5, CastAssumption DEF SucceedCheckpoint
    <2>2. Write(s, [row EXCEPT !.occurred = now, !.continued = now, !.pred = r,
                               !.lineage = TRUE], end)
        BY <1>5 DEF SucceedCheckpoint
    <2> HIDE DEF row
    <2>3. [row EXCEPT !.occurred = now, !.continued = now, !.pred = r, !.lineage = TRUE]
            \in Row
        BY <1>1, <2>1 DEF Row
    <2>4. QED BY <2>2, <2>3, WriteTyped
<1>6. QED BY <1>3, <1>4, <1>5

(* Every variable keeps to the rows of its table, in every reachable state  *)
(* (schema.rs).                                                             *)
THEOREM PrivateTypeCorrect == Spec => []TypeOK
<1>1. Init => TypeOK
    <2>1. ASSUME Init PROVE RowsTyped
        <3>1. NoFacts \in Facts
            BY LifecycleBounds DEF NoFacts, Facts, Times, Unset
        <3>2. QED BY <2>1, <3>1, CastAssumption, TimesAreNat DEF Init, RowsTyped
    <2>2. ASSUME Init PROVE MaintenanceTyped
        BY <2>1, <2>2, LifecycleBounds DEF Init, MaintenanceTyped, DisabledProjection
    <2>3. QED
        BY <2>1, <2>2, LifecycleBounds DEF Init, TypeOK, RowsTyped, MaintenanceTyped
<1>2. ASSUME TypeOK, Bookkeeping, [Next]_vars
      PROVE  TypeOK'
    <2>0. DOMAIN grant = Grants /\ RowsTyped /\ MaintenanceTyped /\ GrantsTyped
          /\ RelationsTyped /\ now \in 0..MaxTime /\ acked \subseteq Ops
        BY <1>2, TypeOKIs DEF Bookkeeping
    <2>1. ASSUME NEW g \in Grants, NEW o \in Ops, NEW group \in Groups,
                 NEW at \in (0..now) \cup {Never}, NEW lifetime \in Lifetimes, NEW until \in Times,
                 Authorize(g, o, group, at, lifetime, until)
          PROVE  TypeOK'
        BY <1>2, <2>1, AuthorizeTyped
    <2>2. ASSUME NEW g \in Grants, Revoke(g) PROVE TypeOK'
        <3>1. GrantsTyped'
            BY <2>0, <2>2, StateSetTyped DEF Revoke
        <3>2. QED
            BY <2>0, <2>2, <3>1 DEF Revoke, TypeOK, recordVars, RowsTyped, RelationsTyped,
               MaintenanceTyped, GrantsTyped, IsGrantTyped
    <2>3. ASSUME NEW g \in Grants, NEW h \in Grants, NEW end \in Ends, Apply(g, h, end)
          PROVE  TypeOK'
        BY <1>2, <2>3, ApplyTyped
    <2>4. ASSUME NEW g \in Grants, NEW h \in Grants, NEW end \in Ends, Replay(g, h, end)
          PROVE  TypeOK'
        <3>1. MaintenanceTyped' /\ now' \in 0..MaxTime
            BY <2>0, <2>4, RefreshTyped DEF Replay
        <3>2. acked' \subseteq Ops
            BY <1>2, <2>4, ReplayKeeps DEF Bookkeeping
        <3>3. UNCHANGED <<recordVars, grantVars>>
            BY <2>4 DEF Replay, RefreshMirror
        <3>4. QED
            BY <2>0, <3>1, <3>2, <3>3 DEF TypeOK, recordVars, grantVars, RowsTyped,
               RelationsTyped, MaintenanceTyped, GrantsTyped, IsGrantTyped
    <2>5. ASSUME NEW r \in Records, NEW end \in Ends,
                 \/ Capture(r, end)
                 \/ ContinueCheckpoint(r, end)
                 \/ CloseCheckpoint(r, end)
                 \/ \E s \in Records : SucceedCheckpoint(r, s, end)
          PROVE  TypeOK'
        BY <1>2, <2>5, CaptureTyped
    <2>6. ASSUME NEW end \in Ends, Refresh(end) PROVE TypeOK'
        <3>1. MaintenanceTyped' /\ now' \in 0..MaxTime
            BY <2>0, <2>6, RefreshTyped DEF Refresh
        <3>2. UNCHANGED <<recordVars, grantVars, acked>>
            BY <2>6 DEF Refresh, RefreshMirror
        <3>3. QED
            BY <2>0, <3>1, <3>2 DEF TypeOK, recordVars, grantVars, RowsTyped, RelationsTyped,
               MaintenanceTyped, GrantsTyped, IsGrantTyped
    <2>7. ASSUME NEW end \in Ends, Enable(end) \/ Disable(end) \/ ReconcileNow(end)
          PROVE  TypeOK'
        <3>1. MaintenanceTyped'
            <4>1. CASE Enable(end)
                BY <2>0, <4>1, TimesAreNat DEF Enable, MaintenanceTyped, Reconciled
            <4>2. CASE Disable(end)
                BY <2>0, <4>2 DEF Disable, MaintenanceTyped, DisabledProjection
            <4>3. CASE ReconcileNow(end)
                BY <2>0, <4>3, ReconcileTyped DEF ReconcileNow
            <4>4. QED BY <2>7, <4>1, <4>2, <4>3
        <3>2. UNCHANGED <<now, recordVars, grantVars, acked>>
            BY <2>7 DEF Enable, Disable, ReconcileNow
        <3>3. QED
            BY <2>0, <3>1, <3>2 DEF TypeOK, recordVars, grantVars, RowsTyped, RelationsTyped,
               MaintenanceTyped, GrantsTyped, IsGrantTyped
    <2>8. CASE Tick \/ UNCHANGED vars
        <3>1. UNCHANGED <<recordVars, grantVars, maintenance, projection, acked>>
            BY <2>8 DEF Tick, vars
        <3>2. now' \in 0..MaxTime
            BY <2>0, <2>8, TimesAreNat DEF Tick, vars
        <3>3. QED
            BY <2>0, <3>1, <3>2 DEF TypeOK, recordVars, grantVars, RowsTyped, RelationsTyped,
               MaintenanceTyped, GrantsTyped, IsGrantTyped
    <2>9. QED
        BY <1>2, <2>1, <2>2, <2>3, <2>4, <2>5, <2>6, <2>7, <2>8 DEF Next
<1>3. QED BY <1>1, <1>2, BookkeepingHolds, PTL DEF Spec

-------------------------------------------------------------------------------
(* Steps                                                                    *)

(* A command of the other writers, by its record and what the row becomes.  *)
IsCommand(r, end) ==
    \/ Capture(r, end)
    \/ ContinueCheckpoint(r, end)
    \/ CloseCheckpoint(r, end)
    \/ \E s \in Records : SucceedCheckpoint(r, s, end)

(* A step applies a group, or writes one row, or leaves the rows alone.     *)
LEMMA StepKinds ==
    ASSUME TypeOK, [Next]_vars
    PROVE  \/ \E g, h \in Grants, end \in Ends : Apply(g, h, end)
           \/ \E r \in Records, end \in Ends : IsCommand(r, end)
           \/ UNCHANGED <<recordVars, application>> /\ now' >= now
<1>1. now \in Nat
    BY TimesAreNat DEF TypeOK
<1>2. ASSUME NEW g \in Grants, NEW o \in Ops, NEW group \in Groups,
             NEW at \in (0..now) \cup {Never}, NEW lifetime \in Lifetimes, NEW until \in Times,
             Authorize(g, o, group, at, lifetime, until)
      PROVE  UNCHANGED <<recordVars, application>> /\ now' >= now
    BY <1>1, <1>2 DEF Authorize
<1>3. ASSUME NEW g \in Grants, Revoke(g)
      PROVE  UNCHANGED <<recordVars, application>> /\ now' >= now
    BY <1>1, <1>3 DEF Revoke
<1>4. ASSUME NEW g \in Grants, NEW h \in Grants, NEW end \in Ends, Replay(g, h, end)
      PROVE  UNCHANGED <<recordVars, application>> /\ now' >= now
    BY <1>1, <1>4 DEF Replay, RefreshMirror, grantVars
<1>5. ASSUME NEW end \in Ends, Refresh(end) \/ Enable(end) \/ Disable(end) \/ ReconcileNow(end)
      PROVE  UNCHANGED <<recordVars, application>> /\ now' >= now
    BY <1>1, <1>5 DEF Refresh, RefreshMirror, Enable, Disable, ReconcileNow, grantVars
<1>6. ASSUME Tick \/ UNCHANGED vars
      PROVE  UNCHANGED <<recordVars, application>> /\ now' >= now
    BY <1>1, <1>6 DEF Tick, vars, grantVars
<1>7. QED BY <1>2, <1>3, <1>4, <1>5, <1>6 DEF Next, IsCommand

(* What each command writes.                                                *)
LEMMA CommandWrites ==
    ASSUME TypeOK, NEW r \in Records, NEW end \in Ends, IsCommand(r, end)
    PROVE  \E q \in Records, row \in Row :
             /\ Write(q, row, end)
             /\ \/ /\ ~ Exists(q) /\ q \in DOMAIN Arriving /\ row.status = "active"
                   /\ row.pred = NoRecord /\ ~ row.lineage /\ row.reviewed = now
                \/ /\ ~ Exists(q) /\ row.lane = "session" /\ row.status = "active"
                   /\ row.lineage /\ row.pred = r /\ IsCheckpoint(r) /\ IsActive(r)
                   /\ ~ IsRetained(r, now) /\ row.reviewed = Arriving[q].reviewed
                   /\ q \in DOMAIN Arriving
                \/ /\ IsCheckpoint(q) /\ row.lane = "session"
                   /\ \/ /\ IsCurrent(q, now) /\ row = [record[q] EXCEPT !.continued = now]
                      \/ /\ record[q].closed = Never
                         /\ row = [record[q] EXCEPT !.closed = now]
<1>1. now \in Times /\ now \in Instants /\ 0 \in Times
    BY TimesAreNat DEF TypeOK, Times, Instants
<1>2. \A q \in Records : Exists(q) => record[q] \in Row
    BY DEF TypeOK, Exists
<1>3. CASE Capture(r, end)
    <2> DEFINE at == IF Arriving[r].lane = "durable" THEN Unset ELSE now
               row == Arriving[r]
               new == [row EXCEPT !.reviewed = now, !.occurred = at, !.continued = at]
    <2>1. /\ row \in Row /\ at \in Times /\ row.status = "active" /\ row.pred = NoRecord
          /\ ~ row.lineage
        BY <1>1, <1>3, CastAssumption DEF Capture, Unset
    <2>2. Write(r, new, end) /\ ~ Exists(r) /\ r \in DOMAIN Arriving
        BY <1>3 DEF Capture
    <2> HIDE DEF row, at
    <2>3. new \in Row /\ new.status = row.status /\ new.pred = row.pred
          /\ new.lineage = row.lineage /\ new.reviewed = now
        BY <1>1, <2>1 DEF Row
    <2> HIDE DEF new
    <2>4. QED BY <2>1, <2>2, <2>3
<1>4. CASE ContinueCheckpoint(r, end) \/ CloseCheckpoint(r, end)
    <2> DEFINE row == record[r]
    <2>1. row \in Row /\ row.lane = "session" /\ IsCheckpoint(r)
        BY <1>2, <1>4 DEF ContinueCheckpoint, CloseCheckpoint, IsCheckpoint
    <2>2. \/ Write(r, [row EXCEPT !.continued = now], end) /\ IsCurrent(r, now)
          \/ Write(r, [row EXCEPT !.closed = now], end) /\ row.closed = Never
        BY <1>4 DEF ContinueCheckpoint, CloseCheckpoint
    <2> HIDE DEF row
    <2>3. /\ [row EXCEPT !.continued = now] \in Row /\ [row EXCEPT !.closed = now] \in Row
          /\ [row EXCEPT !.continued = now].lane = "session"
          /\ [row EXCEPT !.closed = now].lane = "session"
        BY <1>1, <2>1 DEF Row
    <2>4. QED BY <2>1, <2>2, <2>3 DEF row
<1>5. ASSUME NEW s \in Records, SucceedCheckpoint(r, s, end)
      PROVE  \E row \in Row :
             /\ Write(s, row, end)
             /\ ~ Exists(s) /\ row.lane = "session" /\ row.status = "active"
             /\ row.lineage /\ row.pred = r /\ IsCheckpoint(r) /\ IsActive(r)
             /\ ~ IsRetained(r, now) /\ row.reviewed = Arriving[s].reviewed
             /\ s \in DOMAIN Arriving
    <2> DEFINE row == Arriving[s]
               new == [row EXCEPT !.occurred = now, !.continued = now, !.pred = r,
                                  !.lineage = TRUE]
    <2>1. row \in Row /\ row.status = "active" /\ row.lane = "session"
        BY <1>5, CastAssumption DEF SucceedCheckpoint
    <2>2. Write(s, new, end)
        BY <1>5 DEF SucceedCheckpoint
    <2>3. ~ Exists(s) /\ IsCheckpoint(r) /\ IsActive(r) /\ ~ IsRetained(r, now)
          /\ s \in DOMAIN Arriving
        BY <1>5 DEF SucceedCheckpoint
    <2> HIDE DEF row
    <2>4. /\ new \in Row /\ new.status = row.status /\ new.lane = row.lane
          /\ new.lineage /\ new.pred = r /\ new.reviewed = row.reviewed
        BY <1>1, <2>1 DEF Row
    <2> HIDE DEF new
    <2>5. QED BY <2>1, <2>2, <2>3, <2>4 DEF row
<1>6. QED BY <1>3, <1>4, <1>5 DEF IsCommand

(* What an application makes of one record.                                 *)
LEMMA AppliedRow ==
    ASSUME TypeOK, Bookkeeping, NEW g \in Grants, NEW h \in Grants, NEW end \in Ends,
           Apply(g, h, end), NEW r \in Records
    PROVE  \/ /\ record'[r] = record[r] /\ facts'[r] = facts[r]
              /\ \A a \in grant[h].request.group : r \notin Touched(a)
           \/ \E a \in grant[h].request.group :
                /\ r \in Touched(a)
                /\ record'[r] = RowAfter(a, r, grant[h].request.op)
                /\ facts'[r] = FactsAfter(a, r, grant[h].request.op)
<1> DEFINE group == grant[h].request.group
           o == grant[h].request.op
<1>1. /\ record' = [q \in Records |-> IF IsTouched(group, q)
                       THEN RowAfter(ActionOn(group, q), q, o) ELSE record[q]]
      /\ facts' = [q \in Records |-> IF IsTouched(group, q)
                       THEN FactsAfter(ActionOn(group, q), q, o) ELSE facts[q]]
    BY DEF Apply, ApplyGroup
<1>2. CASE ~ IsTouched(group, r)
    BY <1>1, <1>2 DEF IsTouched
<1>3. CASE IsTouched(group, r)
    <2>1. PICK a \in group : r \in Touched(a)
        BY <1>3 DEF IsTouched
    <2>2. ActionOn(group, r) = a
        BY <2>1, BoundActions, ActionOnIs DEF Apply
    <2>3. QED BY <1>1, <1>3, <2>1, <2>2
<1>4. QED BY <1>2, <1>3

(* The fields of a row that say when it lapses.                             *)
SameClocks(x, y) ==
    /\ x.lane = y.lane /\ x.occurred = y.occurred /\ x.continued = y.continued
    /\ x.closed = y.closed /\ x.expires = y.expires

(* Of a record that is there, an action changes the status, or binds it to  *)
(* a predecessor that it did not have.                                      *)
LEMMA RowKeeps ==
    ASSUME TypeOK, NEW a \in Action, IsAction(a), NEW r \in Records, Exists(r), NEW o,
           r \in Touched(a), Permits(a, now)
    PROVE  LET row == RowAfter(a, r, o) IN
           /\ SameClocks(row, record[r]) /\ row.claim = record[r].claim
           /\ row.reviewed = record[r].reviewed /\ row.origin = record[r].origin
           /\ \/ row.pred = record[r].pred /\ row.lineage = record[r].lineage
              \/ /\ a.kind \in Retiring /\ r = a.to /\ r \notin a.on /\ row.pred = TheOne(a)
                 /\ IsUnbound(r) /\ ~ IsSelection(a)
                 /\ row.lineage => record[r].lane = "durable"
           /\ IF r \in a.on /\ a.kind \in Retiring
              THEN row.status = "superseded" ELSE row.status = record[r].status
<1> DEFINE old == record[r]
<1>1. old \in Row
    BY DEF TypeOK, Exists
<1>2. CASE r \in a.on
    <2>1. RowAfter(a, r, o) =
            [old EXCEPT !.status = IF a.kind \in Retiring THEN "superseded" ELSE @]
        BY <1>2 DEF RowAfter
    <2> HIDE DEF old
    <2>2. QED BY <1>1, <1>2, <2>1 DEF SameClocks, Row, old
<1>3. CASE r \notin a.on /\ a.kind \in {"renew_from_evidence", "supersede"} /\ r = a.to
    <2>1. TheOne(a) \in Records /\ TheOne(a) \in a.on
        BY <1>3, TheOneIs DEF IsSelection
    <2>2. ~ PermitsExtension(a, TheOne(a), now)
        BY <1>3 DEF PermitsExtension
    <2>3. PermitsRetirement(a, TheOne(a), now)
        BY <2>1, <2>2 DEF Permits
    <2>4. IsUnbound(r) /\ (a.kind = "renew_from_evidence" => old.lane = "durable")
        BY <1>3, <2>3 DEF PermitsRetirement, Renews
    <2>5. RowAfter(a, r, o) = IF a.kind = "supersede" THEN [old EXCEPT !.pred = TheOne(a)]
                              ELSE [old EXCEPT !.pred = TheOne(a), !.lineage = TRUE]
        BY <1>3 DEF RowAfter
    <2>6. ~ old.lineage
        BY <1>1, <2>4 DEF IsUnbound
    <2>7. ~ IsSelection(a) /\ a.kind \in Retiring
        BY <1>3 DEF IsSelection, Retiring
    <2> HIDE DEF old
    <2>8. QED BY <1>1, <1>3, <2>4, <2>5, <2>6, <2>7 DEF SameClocks, Row, old
<1>4. CASE r \notin a.on /\ a.kind = "correct"
    <2>1. r = a.to /\ TheOne(a) \in a.on
        BY <1>4, TheOneIs DEF IsSelection, Touched
    <2>2. ~ PermitsExtension(a, TheOne(a), now)
        BY <1>4 DEF PermitsExtension
    <2>3. PermitsRetirement(a, TheOne(a), now)
        BY <2>1, <2>2 DEF Permits
    <2>4. QED BY <1>4, <2>1, <2>3 DEF PermitsRetirement
<1>5. CASE r \notin a.on /\ a.kind \notin {"renew_from_evidence", "supersede", "correct"}
    BY <1>1, <1>5 DEF RowAfter, SameClocks
<1>6. r \notin a.on => r = a.to
    BY DEF Touched
<1>7. QED BY <1>2, <1>3, <1>4, <1>5, <1>6

(* What a retirement finds: its subjects active, its successor not          *)
(* superseded.                                                              *)
LEMMA RetirementFinds ==
    ASSUME NEW a \in Action, IsAction(a), a.kind \in Retiring, Permits(a, now)
    PROVE  /\ a.to \in Records /\ \A r \in a.on : Exists(r) /\ IsActive(r)
           /\ record[a.to].status # "superseded"
           /\ a.kind = "correct" => ~ Exists(a.to)
<1>1. a.to \in Records
    BY DEF IsAction, Action
<1>2. PICK q : q \in a.on
    BY DEF IsAction
<1>3. \A r \in a.on : PermitsRetirement(a, r, now)
    BY DEF Permits, PermitsExtension, Retiring
<1>4. CASE a.kind = "renew_from_evidence"
    BY <1>1, <1>2, <1>3, <1>4 DEF PermitsRetirement, Renews, IsCurrent, BaseCurrent
<1>5. CASE a.kind = "correct"
    BY <1>1, <1>2, <1>3, <1>5 DEF PermitsRetirement, IsActive, Exists, NoRow
<1>6. CASE a.kind = "supersede"
    BY <1>1, <1>2, <1>3, <1>6 DEF PermitsRetirement, IsActive, Exists, NoRow
<1>7. CASE a.kind = "consolidate"
    <2>1. \A r \in Touched(a) : IsCurrent(r, now)
        BY <1>2, <1>3, <1>7 DEF PermitsRetirement, DuplicatesOf
    <2>2. QED
        BY <1>1, <1>7, <2>1 DEF IsCurrent, BaseCurrent, Touched, IsActive, Exists, IsAction
<1>8. CASE a.kind = "resolve_contradiction"
    <2>1. \A r \in Touched(a) : IsCurrent(r, now)
        BY <1>2, <1>3, <1>8 DEF PermitsRetirement, IsIncompatibleSet, Claimants
    <2>2. QED
        BY <1>1, <1>8, <2>1 DEF IsCurrent, BaseCurrent, Touched, IsActive, Exists, IsAction
<1>9. QED BY <1>4, <1>5, <1>6, <1>7, <1>8 DEF Retiring

(* The relations an application adds.                                       *)
LEMMA AppliedRelation ==
    ASSUME NEW g \in Grants, NEW h \in Grants, NEW end \in Ends, Apply(g, h, end)
    PROVE  /\ relation \subseteq relation'
           /\ \A x \in relation' \ relation :
                \E a \in grant[h].request.group : \E r \in a.on :
                   /\ a.kind \in Retiring
                   /\ x = [kind |-> a.kind, subject |-> r, related |-> a.to,
                           op |-> grant[h].request.op]
           /\ \A a \in grant[h].request.group : a.kind \in Retiring =>
                \A r \in a.on :
                   [kind |-> a.kind, subject |-> r, related |-> a.to,
                    op |-> grant[h].request.op] \in relation'
BY DEF Apply, ApplyGroup

-------------------------------------------------------------------------------
(* Succession                                                               *)

SupersededIsLeft ==
    \A r \in Records : record[r].status = "superseded" <=> \E x \in relation : x.subject = r
LeftOnce == \A x, y \in relation : x.subject = y.subject => x = y
PredecessorIsLeft ==
    \A r \in Records : Exists(r) /\ record[r].pred # NoRecord /\ ~ IsHandover(r) =>
        \E x \in relation : x.subject = record[r].pred /\ x.related = r
PathsEnd ==
    \A part \in SUBSET {x.subject : x \in relation} : part # {} =>
        \E r \in part : \A x \in relation : x.subject = r => x.related \notin part

LEMMA SuccessionEndsIs ==
    SuccessionEnds <=> SupersededIsLeft /\ LeftOnce /\ PredecessorIsLeft /\ PathsEnd
BY DEF SuccessionEnds, SupersededIsLeft, LeftOnce, PredecessorIsLeft, PathsEnd

LEMMA ApplySucceeds ==
    ASSUME TypeOK, Bookkeeping, SuccessionEnds,
           NEW g \in Grants, NEW h \in Grants, NEW end \in Ends, Apply(g, h, end)
    PROVE  SuccessionEnds'
<1> DEFINE group == grant[h].request.group
           o == grant[h].request.op
<1>1. SupersededIsLeft /\ LeftOnce /\ PredecessorIsLeft /\ PathsEnd
    BY SuccessionEndsIs
<1>2. ASSUME NEW a \in group
      PROVE  /\ a \in Action /\ IsAction(a) /\ IsRequest(group) /\ Permits(a, now)
             /\ a.on \subseteq Records
             /\ a.kind # "correct" => \A r \in Touched(a) : Exists(r)
    BY BoundActions DEF Apply
<1>3. ASSUME NEW a \in group, a.kind \in Retiring
      PROVE  /\ a.to \in Records /\ \A r \in a.on : Exists(r) /\ IsActive(r)
             /\ record[a.to].status # "superseded"
             /\ a.kind = "correct" => ~ Exists(a.to)
             /\ \A b \in group : a.to \notin b.on
    <2>1. \A b \in group : b # a => Touched(a) \cap Touched(b) = {}
        BY <1>2 DEF IsRequest
    <2>2. a.to \notin a.on /\ a.to # NoRecord
        BY <1>2, <1>3 DEF IsAction
    <2>3. \A b \in group : a.to \notin b.on
        BY <2>1, <2>2 DEF Touched
    <2>4. QED BY <1>2, <1>3, <2>3, RetirementFinds
<1>4. /\ relation \subseteq relation'
      /\ \A x \in relation' \ relation :
           \E a \in group : \E r \in a.on :
              /\ a.kind \in Retiring
              /\ x = [kind |-> a.kind, subject |-> r, related |-> a.to, op |-> o]
      /\ \A a \in group : a.kind \in Retiring => \A r \in a.on :
           [kind |-> a.kind, subject |-> r, related |-> a.to, op |-> o] \in relation'
    BY AppliedRelation
(* A subject of an old relation is no subject of a new one.                 *)
<1>5. ASSUME NEW x \in relation, NEW a \in group, a.kind \in Retiring
      PROVE  x.subject \notin a.on /\ x.subject # a.to
    <2>1. record[x.subject].status = "superseded" /\ x.subject \in Records
        BY <1>1 DEF SupersededIsLeft, TypeOK
    <2>2. QED BY <1>3, <1>5, <2>1 DEF IsActive
<1>6. ASSUME NEW r \in Records
      PROVE  \/ record'[r] = record[r] /\ \A a \in group : r \notin Touched(a)
             \/ \E a \in group : r \in Touched(a) /\ record'[r] = RowAfter(a, r, o)
    BY AppliedRow
<1>7. SupersededIsLeft'
    <2> SUFFICES ASSUME NEW r \in Records
                 PROVE  record'[r].status = "superseded" <=> \E x \in relation' : x.subject = r
        BY DEF SupersededIsLeft
    <2>1. CASE record'[r] = record[r] /\ \A a \in group : r \notin Touched(a)
        <3>1. \A x \in relation' \ relation : x.subject # r
            BY <1>4, <2>1 DEF Touched
        <3>2. QED BY <1>1, <1>4, <2>1, <3>1 DEF SupersededIsLeft
    <2>2. ASSUME NEW a \in group, r \in Touched(a), record'[r] = RowAfter(a, r, o)
          PROVE  record'[r].status = "superseded" <=> \E x \in relation' : x.subject = r
        <3>1. \A b \in group : b # a => r \notin Touched(b)
            BY <1>2, <2>2 DEF IsRequest
        <3>2. CASE r \in a.on /\ a.kind \in Retiring
            <4>1. record'[r].status = "superseded"
                BY <1>2, <1>3, <2>2, <3>2, RowKeeps
            <4>2. \E x \in relation' : x.subject = r
                BY <1>4, <3>2
            <4>3. QED BY <4>1, <4>2
        <3>3. CASE ~ (r \in a.on /\ a.kind \in Retiring)
            <4>1. \A x \in relation' \ relation : x.subject # r
                BY <1>4, <3>1, <3>3 DEF Touched
            <4>2. CASE Exists(r)
                <5>1. record'[r].status = record[r].status
                    BY <1>2, <2>2, <3>3, <4>2, RowKeeps
                <5>2. QED BY <1>1, <1>4, <4>1, <5>1 DEF SupersededIsLeft
            <4>3. CASE ~ Exists(r)
                <5>1. a.kind = "correct" /\ r = a.to /\ r \notin a.on
                    BY <1>2, <1>3, <2>2, <4>3 DEF Touched, Retiring
                <5>2. TheOne(a) \in a.on /\ Exists(TheOne(a)) /\ TheOne(a) \in Records
                    BY <1>2, <1>3, <5>1, TheOneIs DEF IsSelection, Retiring
                <5>3. record[TheOne(a)] \in Row
                    BY <5>2 DEF TypeOK, Exists
                <5>4. record'[r].status = "active"
                    BY <2>2, <5>1, <5>3 DEF RowAfter, Correction, Row
                <5>5. record[r].status # "superseded"
                    BY <4>3 DEF Exists, NoRow
                <5>6. QED BY <1>1, <1>4, <4>1, <5>4, <5>5 DEF SupersededIsLeft
            <4>4. QED BY <4>2, <4>3
        <3>4. QED BY <3>2, <3>3
    <2>3. QED BY <1>6, <2>1, <2>2
<1>8. LeftOnce'
    <2> SUFFICES ASSUME NEW x \in relation', NEW y \in relation', x.subject = y.subject
                 PROVE  x = y
        BY DEF LeftOnce
    <2>1. CASE x \in relation /\ y \in relation
        BY <1>1, <2>1 DEF LeftOnce
    <2>2. CASE x \notin relation /\ y \notin relation
        <3>1. PICK a \in group : \E r \in a.on : a.kind \in Retiring
                /\ x = [kind |-> a.kind, subject |-> r, related |-> a.to, op |-> o]
            BY <1>4, <2>2
        <3>2. PICK b \in group : \E r \in b.on : b.kind \in Retiring
                /\ y = [kind |-> b.kind, subject |-> r, related |-> b.to, op |-> o]
            BY <1>4, <2>2
        <3>3. x.subject \in a.on /\ x.subject \in b.on
            BY <3>1, <3>2
        <3>4. a = b
            BY <1>2, <3>3 DEF IsRequest, Touched
        <3>5. QED BY <3>1, <3>2, <3>4
    <2>3. CASE (x \in relation) # (y \in relation)
        BY <1>4, <1>5, <2>3
    <2>4. QED BY <2>1, <2>2, <2>3
<1>9. PredecessorIsLeft'
    <2> SUFFICES ASSUME NEW r \in Records, Exists(r)', record'[r].pred # NoRecord,
                        ~ IsHandover(r)'
                 PROVE  \E x \in relation' : x.subject = record'[r].pred /\ x.related = r
        BY DEF PredecessorIsLeft
    <2>1. CASE record'[r] = record[r]
        BY <1>1, <1>4, <2>1 DEF PredecessorIsLeft, Exists, IsHandover
    <2>2. ASSUME NEW a \in group, r \in Touched(a), record'[r] = RowAfter(a, r, o)
          PROVE  \E x \in relation' : x.subject = record'[r].pred /\ x.related = r
        <3>1. CASE Exists(r) /\ record'[r].pred = record[r].pred
                   /\ record'[r].lineage = record[r].lineage
            <4>1. record'[r].lane = record[r].lane
                BY <1>2, <2>2, <3>1, RowKeeps DEF SameClocks
            <4>2. ~ IsHandover(r)
                BY <3>1, <4>1 DEF IsHandover, Exists
            <4>3. QED BY <1>1, <1>4, <3>1, <4>2 DEF PredecessorIsLeft
        <3>2. CASE Exists(r) /\ ~ (record'[r].pred = record[r].pred
                                  /\ record'[r].lineage = record[r].lineage)
            <4>1. a.kind \in Retiring /\ r = a.to /\ record'[r].pred = TheOne(a)
                  /\ ~ IsSelection(a)
                BY <1>2, <2>2, <3>2, RowKeeps
            <4>2. TheOne(a) \in a.on
                BY <1>2, <4>1, TheOneIs
            <4>3. QED BY <1>4, <4>1, <4>2
        <3>3. CASE ~ Exists(r)
            <4>1. a.kind = "correct" /\ r = a.to /\ r \notin a.on
                BY <1>2, <1>3, <2>2, <3>3 DEF Touched, Retiring
            <4>2. TheOne(a) \in a.on /\ Exists(TheOne(a)) /\ TheOne(a) \in Records
                BY <1>2, <1>3, <4>1, TheOneIs DEF IsSelection, Retiring
            <4>3. record[TheOne(a)] \in Row
                BY <4>2 DEF TypeOK, Exists
            <4>4. record'[r].pred = TheOne(a)
                BY <2>2, <4>1, <4>3 DEF RowAfter, Correction, Row
            <4>5. QED BY <1>4, <4>1, <4>2, <4>4 DEF Retiring
        <3>4. QED BY <3>1, <3>2, <3>3
    <2>3. QED BY <1>6, <2>1, <2>2
<1>10. PathsEnd'
    <2> SUFFICES ASSUME NEW part \in SUBSET {x.subject : x \in relation'}, part # {}
                 PROVE  \E r \in part : \A x \in relation' : x.subject = r => x.related \notin part
        BY DEF PathsEnd
    (* A successor is the subject of no relation, so a part with a new      *)
    (* subject is left from there.                                          *)
    <2>1. ASSUME NEW a \in group, a.kind \in Retiring PROVE a.to \notin part
        <3>1. \A x \in relation' : x.subject # a.to
            BY <1>3, <1>4, <1>5, <2>1
        <3>2. QED BY <3>1
    <2>2. CASE \E a \in group : a.kind \in Retiring /\ a.on \cap part # {}
        <3>1. PICK a \in group : a.kind \in Retiring /\ a.on \cap part # {}
            BY <2>2
        <3>2. PICK r : r \in a.on /\ r \in part
            BY <3>1
        <3>3. ASSUME NEW x \in relation', x.subject = r PROVE x.related \notin part
            <4>1. x \notin relation
                BY <1>5, <3>1, <3>2, <3>3
            <4>2. PICK b \in group : b.kind \in Retiring /\ x.related = b.to
                BY <1>4, <4>1
            <4>3. QED BY <2>1, <4>2
        <3>4. QED BY <3>2, <3>3
    <2>3. CASE \A a \in group : a.kind \in Retiring => a.on \cap part = {}
        <3>1. \A x \in relation' : x.subject \in part => x \in relation
            BY <1>4, <2>3
        <3>2. part \subseteq {x.subject : x \in relation}
            BY <3>1
        <3>3. PICK r \in part : \A x \in relation : x.subject = r => x.related \notin part
            BY <1>1, <3>2 DEF PathsEnd
        <3>4. QED BY <3>1, <3>3
    <2>4. QED BY <2>2, <2>3
<1>11. QED
    BY <1>7, <1>8, <1>9, <1>10 DEF SuccessionEnds, SupersededIsLeft, LeftOnce,
       PredecessorIsLeft, PathsEnd

LEMMA CommandSucceeds ==
    ASSUME TypeOK, SuccessionEnds, NEW r \in Records, NEW end \in Ends, IsCommand(r, end)
    PROVE  SuccessionEnds'
<1>1. PICK q \in Records, row \in Row :
        /\ Write(q, row, end)
        /\ \/ /\ ~ Exists(q) /\ row.status = "active" /\ row.pred = NoRecord
           \/ /\ ~ Exists(q) /\ row.status = "active" /\ row.lane = "session" /\ row.lineage
           \/ /\ Exists(q) /\ (row = [record[q] EXCEPT !.continued = now]
                              \/ row = [record[q] EXCEPT !.closed = now])
    BY CommandWrites DEF IsCheckpoint
<1>2. SupersededIsLeft /\ LeftOnce /\ PredecessorIsLeft /\ PathsEnd
    BY SuccessionEndsIs
<1>3. relation' = relation /\ record' = [record EXCEPT ![q] = row]
    BY <1>1 DEF Write
<1>4. DOMAIN record = Records /\ \A p \in Records : Exists(p) => record[p] \in Row
    BY DEF TypeOK, Exists
<1>5. record'[q] = row /\ \A p \in Records : p # q => record'[p] = record[p]
    BY <1>3, <1>4
<1>6. /\ row.status = "superseded" <=> record[q].status = "superseded"
      /\ row.pred # NoRecord /\ ~ (row.lane = "session" /\ row.lineage) =>
           Exists(q) /\ row.pred = record[q].pred /\ ~ IsHandover(q)
    <2>1. CASE ~ Exists(q)
        BY <1>1, <2>1 DEF Exists, NoRow
    <2>2. CASE Exists(q)
        <3>1. record[q] \in Row
            BY <1>4, <2>2
        <3>2. /\ row.status = record[q].status /\ row.pred = record[q].pred
              /\ row.lane = record[q].lane /\ row.lineage = record[q].lineage
            BY <1>1, <2>2, <3>1 DEF Row
        <3>3. QED BY <2>2, <3>2 DEF IsHandover
    <2>3. QED BY <2>1, <2>2
<1>7. SupersededIsLeft'
    BY <1>2, <1>3, <1>5, <1>6 DEF SupersededIsLeft
<1>8. PredecessorIsLeft'
    <2> SUFFICES ASSUME NEW p \in Records, Exists(p)', record'[p].pred # NoRecord,
                        ~ IsHandover(p)'
                 PROVE  \E x \in relation' : x.subject = record'[p].pred /\ x.related = p
        BY DEF PredecessorIsLeft
    <2>1. CASE p = q
        <3>1. ~ (row.lane = "session" /\ row.lineage)
            BY <1>5, <2>1 DEF IsHandover
        <3>2. Exists(q) /\ row.pred = record[q].pred /\ ~ IsHandover(q)
            BY <1>5, <1>6, <2>1, <3>1
        <3>3. QED BY <1>2, <1>3, <1>5, <2>1, <3>2 DEF PredecessorIsLeft
    <2>2. CASE p # q
        BY <1>2, <1>3, <1>5, <2>2 DEF PredecessorIsLeft, Exists, IsHandover
    <2>3. QED BY <2>1, <2>2
<1>9. LeftOnce' /\ PathsEnd'
    BY <1>2, <1>3 DEF LeftOnce, PathsEnd
<1>10. QED
    BY <1>7, <1>8, <1>9 DEF SuccessionEnds, SupersededIsLeft, LeftOnce, PredecessorIsLeft,
       PathsEnd

(* Succession is sound in every reachable state, however renewals,          *)
(* corrections, supersessions, consolidations and resolutions follow each   *)
(* other or meet in one group (apply_action_group).                         *)
THEOREM SuccessionAlwaysEnds == Spec => []SuccessionEnds
<1>1. Init => SuccessionEnds
    <2>1. ASSUME Init
          PROVE  /\ relation = {}
                 /\ \A r \in Records : record[r].status # "superseded"
                 /\ \A r \in Records : Exists(r) => record[r].pred = NoRecord
        <3>1. \A r \in Records : record[r] = IF r \in DOMAIN Present THEN Present[r] ELSE NoRow
            BY <2>1 DEF Init
        <3>2. QED BY <2>1, <3>1, CastAssumption DEF Init, NoRow, Exists
    <2>2. QED BY <2>1 DEF SuccessionEnds
<1>2. ASSUME SuccessionEnds, TypeOK, Bookkeeping, [Next]_vars
      PROVE  SuccessionEnds'
    <2>1. ASSUME NEW g \in Grants, NEW h \in Grants, NEW end \in Ends, Apply(g, h, end)
          PROVE  SuccessionEnds'
        BY <1>2, <2>1, ApplySucceeds
    <2>2. ASSUME NEW r \in Records, NEW end \in Ends, IsCommand(r, end)
          PROVE  SuccessionEnds'
        BY <1>2, <2>2, CommandSucceeds
    <2>3. CASE UNCHANGED <<recordVars, application>>
        BY <1>2, <2>3 DEF recordVars, SuccessionEnds, Exists, IsHandover
    <2>4. QED BY <1>2, <2>1, <2>2, <2>3, StepKinds
<1>3. QED BY <1>1, <1>2, PrivateTypeCorrect, BookkeepingHolds, PTL DEF Spec

-------------------------------------------------------------------------------
(* Sessions                                                                 *)

(* A checkpoint that is closed or has lapsed.                               *)
IsPast(r) == Exists(r) /\ record[r].lane = "session" /\ ~ IsRetained(r, now)

(* What HandedOverIsPast rests on: not only is the checkpoint not current,  *)
(* its boundary has come, and nothing moves it back.                        *)
SessionsArePast ==
    \A s \in Records : IsHandover(s) =>
        LET r == record[s].pred IN
        /\ r \in Records /\ IsPast(r)
        /\ \A x \in relation : x.subject = r /\ x.kind = "correct" => IsPast(x.related)

(* The boundaries of a checkpoint are those of its row alone.               *)
LEMMA SessionBoundaries ==
    ASSUME NEW x \in Row, NEW y \in Row, SameClocks(x, y), x.lane = "session", NEW f, NEW g
    PROVE  Boundaries(x, f) = Boundaries(y, g)
BY DEF SameClocks, Boundaries

LEMMA StillPast ==
    ASSUME TypeOK, now' \in Nat, now' >= now, NEW r \in Records, IsPast(r),
           record'[r] \in Row, SameClocks(record'[r], record[r])
    PROVE  IsPast(r)'
<1>1. record[r] \in Row /\ facts[r] \in Facts /\ now \in Nat
    BY TimesAreNat DEF TypeOK, IsPast, Exists
<1>2. Exists(r)' /\ record'[r].lane = "session"
    BY NoRowIsNoRow DEF Exists, IsPast, SameClocks
<1>3. Boundaries(record'[r], facts'[r]) = Boundaries(record[r], facts[r])
    BY <1>1, <1>2, SessionBoundaries
<1>4. PICK b \in Boundaries(record[r], facts[r]) : ~ (now < b)
    BY DEF IsPast, IsRetained, Retained
<1>5. b \in Nat
    BY <1>1, BoundariesNat
<1>6. ~ (now' < b)
    BY <1>1, <1>4, <1>5
<1>7. QED BY <1>2, <1>3, <1>4, <1>6 DEF IsPast, IsRetained, Retained

(* Closing one does not bring it back either.                               *)
LEMMA ClosedStaysPast ==
    ASSUME TypeOK, NEW r \in Records, IsPast(r), record[r].closed = Never, now' = now,
           record'[r] = [record[r] EXCEPT !.closed = now]
    PROVE  IsPast(r)'
<1>1. record[r] \in Row /\ now \in 0..MaxTime
    BY DEF TypeOK, IsPast, Exists
<1>2. now < Never /\ now \in Instants
    BY <1>1, LifecycleBounds, TimesAreNat DEF Instants
<1>3. record'[r] \in Row /\ record'[r].lane = "session"
    BY <1>1, <1>2 DEF Row, IsPast
<1>4. PICK b \in Boundaries(record[r], facts[r]) : ~ (now < b)
    BY DEF IsPast, IsRetained, Retained
<1>5. b # record[r].closed
    BY <1>2, <1>4
<1>6. b \in Boundaries(record'[r], facts'[r])
    BY <1>1, <1>4, <1>5 DEF Boundaries, IsPast, Row
<1>7. QED BY <1>3, <1>4, <1>6, NoRowIsNoRow DEF IsPast, IsRetained, Retained, Exists

LEMMA PastStays ==
    ASSUME TypeOK, TypeOK', Bookkeeping, [Next]_vars, NEW r \in Records, IsPast(r)
    PROVE  IsPast(r)'
<1>1. record[r] \in Row /\ Exists(r) /\ now \in Nat /\ now' \in Nat
    BY TimesAreNat DEF TypeOK, IsPast, Exists
<1>2. ASSUME NEW g \in Grants, NEW h \in Grants, NEW end \in Ends, Apply(g, h, end)
      PROVE  IsPast(r)'
    <2>1. now' = now
        BY <1>2 DEF Apply, AfterWrite
    <2>2. SameClocks(record'[r], record[r])
        <3>1. CASE record'[r] = record[r]
            BY <3>1 DEF SameClocks
        <3>2. ASSUME NEW a \in grant[h].request.group, r \in Touched(a),
                     record'[r] = RowAfter(a, r, grant[h].request.op)
              PROVE  SameClocks(record'[r], record[r])
            <4>1. a \in Action /\ IsAction(a) /\ Permits(a, now)
                BY <1>2, BoundActions DEF Apply
            <4>2. QED BY <1>1, <3>2, <4>1, RowKeeps
        <3>3. QED BY <1>2, <3>1, <3>2, AppliedRow
    <2>3. record'[r] \in Row
        <3>1. record'[r] # NoRow
            <4>1. record'[r].lane = "session"
                BY <2>2 DEF SameClocks, IsPast
            <4>2. CASE record'[r] = record[r]
                BY <1>1, <4>2 DEF Exists
            <4>3. ASSUME NEW a \in grant[h].request.group, r \in Touched(a),
                         record'[r] = RowAfter(a, r, grant[h].request.op)
                  PROVE  record'[r] # NoRow
                <5>1. /\ a \in Action /\ IsAction(a) /\ \A q \in a.on : Exists(q)
                      /\ grant[h].request.op \in Ops
                    BY <1>2, BoundActions DEF Apply
                <5>2. RowsTyped
                    BY TypeOKIs
                <5>3. record'[r] \in Row
                    BY <1>1, <4>3, <5>1, <5>2, RowAfterTyped
                <5>4. QED BY <5>3, NoRowIsNoRow
            <4>4. QED BY <1>2, <4>2, <4>3, AppliedRow
        <3>2. QED BY <3>1 DEF TypeOK
    <2>4. QED BY <1>1, <2>1, <2>2, <2>3, StillPast
<1>3. ASSUME NEW c \in Records, NEW end \in Ends, IsCommand(c, end)
      PROVE  IsPast(r)'
    <2>1. PICK q \in Records, row \in Row :
            /\ Write(q, row, end)
            /\ \/ ~ Exists(q)
               \/ IsCurrent(q, now)
               \/ record[q].closed = Never /\ row = [record[q] EXCEPT !.closed = now]
        BY <1>3, CommandWrites
    <2>2. record' = [record EXCEPT ![q] = row] /\ now' = now
        BY <2>1 DEF Write, AfterWrite
    <2>3. CASE r # q
        <3>1. record'[r] = record[r]
            BY <2>2, <2>3 DEF TypeOK
        <3>2. QED BY <1>1, <2>2, <3>1, StillPast DEF SameClocks
    <2>4. CASE r = q
        <3>1. record[r].closed = Never /\ record'[r] = [record[r] EXCEPT !.closed = now]
            BY <2>1, <2>2, <2>4 DEF IsPast, IsCurrent, BaseCurrent, IsRetained, TypeOK
        <3>2. QED BY <2>2, <3>1, ClosedStaysPast
    <2>5. QED BY <2>3, <2>4
<1>4. CASE UNCHANGED <<recordVars, application>> /\ now' >= now
    BY <1>1, <1>4, StillPast DEF recordVars, SameClocks
<1>5. QED BY <1>2, <1>3, <1>4, StepKinds

(* A correction of a past checkpoint is past too.                           *)
LEMMA CorrectionIsPast ==
    ASSUME TypeOK, TypeOK', Bookkeeping,
           NEW g \in Grants, NEW h \in Grants, NEW end \in Ends, Apply(g, h, end),
           NEW x \in relation' \ relation, x.kind = "correct", IsPast(x.subject)
    PROVE  IsPast(x.related)'
<1> DEFINE group == grant[h].request.group
           o == grant[h].request.op
<1>1. PICK a \in group : \E r \in a.on :
        /\ a.kind \in Retiring
        /\ x = [kind |-> a.kind, subject |-> r, related |-> a.to, op |-> o]
    BY AppliedRelation
<1>2. a \in Action /\ IsAction(a) /\ IsRequest(group) /\ \A q \in a.on : Exists(q)
    BY BoundActions DEF Apply
<1>3. a.kind = "correct" /\ x.related = a.to /\ x.subject \in a.on
    BY <1>1
<1>4. TheOne(a) = x.subject /\ x.subject \in Records
    BY <1>2, <1>3, TheOneIs DEF IsSelection
<1>5. a.to \in Records /\ a.to \in Touched(a) /\ a.to \notin a.on
    BY <1>2, <1>3 DEF IsAction, Action, Retiring, Touched
<1>6. record'[a.to] = Correction(a, o)
    <2>1. record'[a.to] = RowAfter(a, a.to, o)
        <3>1. \A b \in group : a.to \in Touched(b) => b = a
            BY <1>2, <1>5 DEF IsRequest
        <3>2. QED BY <1>5, <3>1, AppliedRow
    <2>2. QED BY <1>3, <1>5, <2>1 DEF RowAfter
<1>7. record[x.subject] \in Row
    BY <1>4 DEF TypeOK, IsPast, Exists
<1>8. SameClocks(record'[a.to], record[x.subject])
    BY <1>4, <1>6, <1>7 DEF Correction, SameClocks, Row
<1>9. record'[a.to] \in Row /\ now' = now
    <2>1. record'[a.to].status = "active"
        BY <1>4, <1>6, <1>7 DEF Correction, Row
    <2>2. record'[a.to] # NoRow
        BY <2>1 DEF NoRow
    <2>3. QED BY <1>5, <2>2 DEF TypeOK, Apply, AfterWrite
<1>10. record'[a.to].lane = "session"
    BY <1>8 DEF SameClocks, IsPast
<1>11. Boundaries(record'[a.to], facts'[a.to]) = Boundaries(record[x.subject], facts[x.subject])
    BY <1>7, <1>8, <1>9, <1>10, SessionBoundaries
<1>12. QED
    BY <1>3, <1>9, <1>10, <1>11, NoRowIsNoRow DEF IsPast, IsRetained, Retained, Exists

LEMMA SessionsStayPast ==
    ASSUME TypeOK, TypeOK', Bookkeeping, SuccessionEnds, SessionsArePast, [Next]_vars
    PROVE  SessionsArePast'
<1> SUFFICES ASSUME NEW s \in Records, IsHandover(s)', NEW r, r = record'[s].pred
             PROVE  /\ r \in Records /\ IsPast(r)'
                    /\ \A x \in relation' : x.subject = r /\ x.kind = "correct" =>
                          IsPast(x.related)'
    BY DEF SessionsArePast, IsPast, IsRetained, Exists, IsHandover
<1>1. ASSUME IsHandover(s), record'[s].pred = record[s].pred
      PROVE  /\ r \in Records /\ IsPast(r) /\ IsPast(r)'
             /\ \A x \in relation : x.subject = r /\ x.kind = "correct" =>
                   IsPast(x.related)'
    <2>1. /\ r \in Records /\ IsPast(r)
          /\ \A x \in relation : x.subject = r /\ x.kind = "correct" => IsPast(x.related)
        BY <1>1 DEF SessionsArePast
    <2>2. \A x \in relation : x.related \in Records
        BY DEF TypeOK
    <2>3. \A q \in Records : IsPast(q) => IsPast(q)'
        BY PastStays
    <2>4. QED BY <2>1, <2>2, <2>3
<1>2. ASSUME NEW g \in Grants, NEW h \in Grants, NEW end \in Ends, Apply(g, h, end)
      PROVE  /\ r \in Records /\ IsPast(r)'
             /\ \A x \in relation' : x.subject = r /\ x.kind = "correct" => IsPast(x.related)'
    <2>1. IsHandover(s) /\ record'[s].pred = record[s].pred
        <3>1. CASE record'[s] = record[s]
            BY <3>1 DEF IsHandover, Exists
        <3>2. ASSUME NEW a \in grant[h].request.group, s \in Touched(a),
                     record'[s] = RowAfter(a, s, grant[h].request.op)
              PROVE  IsHandover(s) /\ record'[s].pred = record[s].pred
            <4>1. /\ a \in Action /\ IsAction(a) /\ Permits(a, now)
                  /\ \A q \in a.on : Exists(q) /\ q \in Records
                  /\ a.kind # "correct" => \A q \in Touched(a) : Exists(q)
                BY <1>2, BoundActions DEF Apply
            <4>2. CASE Exists(s)
                BY <3>2, <4>1, <4>2, RowKeeps DEF IsHandover, SameClocks
            <4>3. CASE ~ Exists(s)
                <5>1. a.kind = "correct" /\ s \notin a.on
                    BY <3>2, <4>1, <4>3
                <5>2. TheOne(a) \in a.on
                    BY <4>1, <5>1, TheOneIs DEF IsSelection
                <5>3. record[TheOne(a)] \in Row
                    BY <4>1, <5>2 DEF TypeOK, Exists
                <5>4. ~ record'[s].lineage
                    BY <3>2, <5>1, <5>3 DEF RowAfter, Correction, Row
                <5>5. QED BY <5>4 DEF IsHandover
            <4>4. QED BY <4>2, <4>3
        <3>3. QED BY <1>2, <3>1, <3>2, AppliedRow
    <2>2. \A x \in relation' \ relation : x.subject = r /\ x.kind = "correct" =>
            IsPast(x.related)'
        BY <1>1, <1>2, <2>1, CorrectionIsPast
    <2>3. QED BY <1>1, <2>1, <2>2
<1>3. ASSUME NEW c \in Records, NEW end \in Ends, IsCommand(c, end)
      PROVE  /\ r \in Records /\ IsPast(r)'
             /\ \A x \in relation' : x.subject = r /\ x.kind = "correct" => IsPast(x.related)'
    <2>1. PICK q \in Records, row \in Row :
            /\ Write(q, row, end)
            /\ \/ ~ row.lineage
               \/ /\ row.lineage /\ row.pred = c /\ IsCheckpoint(c) /\ IsActive(c)
                  /\ ~ IsRetained(c, now)
               \/ /\ IsCheckpoint(q)
                  /\ \/ row = [record[q] EXCEPT !.continued = now]
                     \/ row = [record[q] EXCEPT !.closed = now]
        BY <1>3, CommandWrites
    <2>2. record' = [record EXCEPT ![q] = row] /\ relation' = relation
          /\ DOMAIN record = Records
        BY <2>1 DEF Write, TypeOK
    <2>3. CASE s # q
        <3>1. record'[s] = record[s]
            BY <2>2, <2>3
        <3>2. IsHandover(s)
            BY <3>1 DEF IsHandover, Exists
        <3>3. QED BY <1>1, <2>2, <3>1, <3>2
    <2>4. CASE s = q
        <3>1. record'[s] = row /\ row.lineage
            BY <2>2, <2>4 DEF IsHandover
        <3>2. CASE /\ row.pred = c /\ IsCheckpoint(c) /\ IsActive(c) /\ ~ IsRetained(c, now)
            <4>1. IsPast(c)
                BY <3>2 DEF IsPast, IsCheckpoint
            <4>2. \A x \in relation : x.subject # c
                BY <3>2 DEF SuccessionEnds, IsActive
            <4>3. QED BY <2>2, <3>1, <3>2, <4>1, <4>2, PastStays
        <3>3. CASE /\ IsCheckpoint(q)
                   /\ \/ row = [record[q] EXCEPT !.continued = now]
                      \/ row = [record[q] EXCEPT !.closed = now]
            <4>1. record[q] \in Row
                BY <3>3 DEF IsCheckpoint, Exists, TypeOK
            <4>2. row.pred = record[q].pred /\ row.lineage = record[q].lineage
                BY <3>3, <4>1 DEF Row
            <4>3. IsHandover(s) /\ record'[s].pred = record[s].pred
                BY <2>4, <3>1, <3>3, <4>2 DEF IsHandover, IsCheckpoint
            <4>4. QED BY <1>1, <2>2, <4>3
        <3>4. QED BY <2>1, <3>1, <3>2, <3>3
    <2>5. QED BY <2>3, <2>4
<1>4. CASE UNCHANGED recordVars
    <2>1. IsHandover(s) /\ record'[s].pred = record[s].pred /\ relation' = relation
        BY <1>4 DEF recordVars, IsHandover, Exists
    <2>2. QED BY <1>1, <2>1
<1>5. QED BY <1>2, <1>3, <1>4, StepKinds

(* A session goes on in one place: once a checkpoint is handed over neither *)
(* it nor a correction of it is ever current again                          *)
(* (ensure_successor_predecessor, continue_checkpoint,                      *)
(* create_correction_record).                                               *)
THEOREM HandedOverStaysPast == Spec => []HandedOverIsPast
<1>1. Init => SessionsArePast
    <2>1. ASSUME Init, NEW s \in Records PROVE ~ IsHandover(s)
        <3>1. record[s] = IF s \in DOMAIN Present THEN Present[s] ELSE NoRow
            BY <2>1 DEF Init
        <3>2. QED BY <3>1, CastAssumption DEF IsHandover, Exists
    <2>2. QED BY <2>1 DEF SessionsArePast
<1>2. TypeOK /\ TypeOK' /\ Bookkeeping /\ SuccessionEnds /\ SessionsArePast /\ [Next]_vars
        => SessionsArePast'
    BY SessionsStayPast
<1>3. SessionsArePast => HandedOverIsPast
    BY DEF SessionsArePast, HandedOverIsPast, IsPast, IsCurrent, BaseCurrent, IsRetained
<1>4. QED
    BY <1>1, <1>2, <1>3, PrivateTypeCorrect, BookkeepingHolds, SuccessionAlwaysEnds, PTL
       DEF Spec

-------------------------------------------------------------------------------
(* Evidence                                                                 *)

(* The kinds of action that may have set a fact.                            *)
SetBy(k, f) == {"correct"} \cup
    CASE k = "recall" -> {"extend_automatic_recall"}
      [] k = "validity" -> {"extend_validity"}
      [] k = "retention" -> {"retain_until", "pin", "unpin"}
      [] k = "quarantine" -> IF f.quarantined THEN {"quarantine"} ELSE {"release_quarantine"}

(* Facts f of record r are what their events say.                           *)
AreBacked(r, f) ==
    /\ f.recall # Unset <=> f.by["recall"] # NoOp
    /\ f.validity # Unset <=> f.by["validity"] # NoOp
    /\ f.by["retention"] = NoOp => f.retain = Unset /\ ~ f.pinned
    /\ f.by["quarantine"] = NoOp => ~ f.quarantined
    /\ \A k \in FactKinds : f.by[k] # NoOp => Backs(f.by[k], r, SetBy(k, f))

(* What FactsAreManageable rests on: a record that is not there has none.   *)
FactsAreBacked ==
    \A r \in Records :
        IF Exists(r) THEN AreBacked(r, facts[r]) /\ IsEvaluable(record[r], facts[r])
        ELSE facts[r] = NoFacts

LEMMA VerifiedIs ==
    ASSUME NEW r PROVE IsVerified(r) <=> AreBacked(r, facts[r])
BY DEF IsVerified, AreBacked, SetBy

LEMMA NoFactsNeeded ==
    ASSUME NEW r, NEW row
    PROVE  AreBacked(r, NoFacts) /\ IsEvaluable(row, NoFacts)
BY DEF AreBacked, NoFacts, FactKinds, IsEvaluable

(* An event goes on backing what it backs, and a new one backs what its     *)
(* operation sets.                                                          *)
LEMMA EventsBack ==
    ASSUME TypeOK, Bookkeeping,
           NEW g \in Grants, NEW h \in Grants, NEW end \in Ends, Apply(g, h, end),
           NEW o, o = grant[h].request.op
    PROVE  /\ \A p, r, kinds : Backs(p, r, kinds) => Backs(p, r, kinds)'
           /\ \A a \in grant[h].request.group : a.kind # "renew_from_evidence" =>
                \A r \in Touched(a) : \A kinds : a.kind \in kinds =>
                   Backs(o, r, kinds)'
<1> DEFINE group == grant[h].request.group
           new == [request |-> grant[h].request, grant |-> g, at |-> now,
                   generation |-> generation', kinds |-> {a.kind : a \in group},
                   targets |-> AuditTargets(group)]
<1>1. grant[h] # NoGrantRow
    BY DEF Apply, NoGrantRow
<1>2. o \in Ops /\ DOMAIN application = Ops
    BY <1>1 DEF Bookkeeping, GenerationLeads, IsGrantRow
<1>3. application[o] = NoApplication /\ application' = [application EXCEPT ![o] = new]
    BY DEF Apply
<1>4. generation' # 0
    BY DEF Apply, ApplyGroup, Rotate, Bookkeeping, GenerationLeads
<1>5. /\ application'[o] # NoApplication
      /\ application'[o].kinds = {a.kind : a \in group}
      /\ application'[o].targets = AuditTargets(group)
    <2>1. application'[o] = new
        BY <1>2, <1>3
    <2>2. new.generation # NoApplication.generation
        BY <1>4 DEF NoApplication
    <2>3. QED BY <2>1, <2>2
<1>6. \A p \in Ops : application[p] # NoApplication => application'[p] = application[p]
    BY <1>2, <1>3
<1>7. ASSUME NEW a \in group, a.kind # "renew_from_evidence", NEW r \in Touched(a)
      PROVE  r \in AuditTargets(group)
    BY <1>7 DEF AuditTargets
<1>8. QED BY <1>2, <1>5, <1>6, <1>7 DEF Backs

(* Applying an action leaves the facts of what it touches backed.           *)
LEMMA ActionBacks ==
    ASSUME TypeOK, Bookkeeping, FactsAreBacked,
           NEW g \in Grants, NEW h \in Grants, NEW end \in Ends, Apply(g, h, end),
           NEW a \in grant[h].request.group, NEW r \in Records, r \in Touched(a), Exists(r),
           NEW o, o = grant[h].request.op, NEW f, f = FactsAfter(a, r, o)
    PROVE  AreBacked(r, f)'
<1> DEFINE old == facts[r]
<1>1. /\ a \in Action /\ IsAction(a) /\ o \in Ops /\ Permits(a, now)
      /\ \A q \in a.on : Exists(q) /\ q \in Records
    BY BoundActions DEF Apply
<1>2. old \in Facts /\ AreBacked(r, old) /\ o # NoOp
    BY <1>1, NamesAssumption DEF TypeOK, FactsAreBacked
<1>3. \A p, kinds : Backs(p, r, kinds) => Backs(p, r, kinds)'
    BY EventsBack
<1>4. a.kind # "renew_from_evidence" => \A kinds : a.kind \in kinds => Backs(o, r, kinds)'
    BY EventsBack
<1>5. ~ (a.kind = "correct" /\ r = a.to)
    BY <1>1, RetirementFinds DEF Retiring
<1>6. ASSUME a.kind \in {"extend_automatic_recall", "extend_validity"} PROVE a.until # 0
    <2>1. r \in a.on
        BY <1>1, <1>6 DEF Touched, IsAction, Retiring
    <2>2. ~ PermitsRetirement(a, r, now)
        BY <1>6 DEF PermitsRetirement
    <2>3. a.until > now
        BY <1>1, <1>6, <2>1, <2>2 DEF Permits, PermitsExtension
    <2>4. QED BY <1>1, <2>3, TimesAreNat DEF TypeOK, Action
<1> HIDE DEF old
<1>7. CASE a.kind = "extend_automatic_recall"
    <2>1. f = [old EXCEPT !.recall = a.until, !.by["recall"] = o]
        BY <1>7 DEF FactsAfter, old
    <2>2. /\ f.recall = a.until /\ f.by["recall"] = o
          /\ f.validity = old.validity /\ f.retain = old.retain /\ f.pinned = old.pinned
          /\ f.quarantined = old.quarantined
          /\ \A k \in FactKinds \ {"recall"} : f.by[k] = old.by[k]
        BY <1>2, <2>1 DEF Facts, FactKinds
    <2>3. Backs(o, r, SetBy("recall", f))'
        BY <1>4, <1>7 DEF SetBy
    <2>4. \A k \in FactKinds : SetBy(k, f) = SetBy(k, old)
        BY <2>2 DEF SetBy
    <2>5. QED BY <1>2, <1>3, <1>6, <1>7, <2>2, <2>3, <2>4 DEF AreBacked, FactKinds, Unset
<1>8. CASE a.kind = "extend_validity"
    <2>1. f = [old EXCEPT !.validity = a.until, !.by["validity"] = o]
        BY <1>8 DEF FactsAfter, old
    <2>2. /\ f.validity = a.until /\ f.by["validity"] = o
          /\ f.recall = old.recall /\ f.retain = old.retain /\ f.pinned = old.pinned
          /\ f.quarantined = old.quarantined
          /\ \A k \in FactKinds \ {"validity"} : f.by[k] = old.by[k]
        BY <1>2, <2>1 DEF Facts, FactKinds
    <2>3. Backs(o, r, SetBy("validity", f))'
        BY <1>4, <1>8 DEF SetBy
    <2>4. \A k \in FactKinds : SetBy(k, f) = SetBy(k, old)
        BY <2>2 DEF SetBy
    <2>5. QED BY <1>2, <1>3, <1>6, <1>8, <2>2, <2>3, <2>4 DEF AreBacked, FactKinds, Unset
<1>9. CASE a.kind \in {"retain_until", "pin", "unpin"}
    <2>1. \/ f = [old EXCEPT !.retain = a.until, !.by["retention"] = o]
          \/ f = [old EXCEPT !.pinned = (a.kind = "pin"), !.by["retention"] = o]
        BY <1>9 DEF FactsAfter, old
    <2>2. /\ f.by["retention"] = o
          /\ f.recall = old.recall /\ f.validity = old.validity
          /\ f.quarantined = old.quarantined
          /\ \A k \in FactKinds \ {"retention"} : f.by[k] = old.by[k]
        BY <1>2, <2>1 DEF Facts, FactKinds
    <2>3. Backs(o, r, SetBy("retention", f))'
        BY <1>4, <1>9 DEF SetBy
    <2>4. \A k \in FactKinds : SetBy(k, f) = SetBy(k, old)
        BY <2>2 DEF SetBy
    <2>5. QED BY <1>2, <1>3, <2>2, <2>3, <2>4 DEF AreBacked, FactKinds
<1>10. CASE a.kind \in {"quarantine", "release_quarantine"}
    <2>1. f = [old EXCEPT !.quarantined = (a.kind = "quarantine"), !.by["quarantine"] = o]
        BY <1>10 DEF FactsAfter, old
    <2>2. /\ f.by["quarantine"] = o /\ f.quarantined = (a.kind = "quarantine")
          /\ f.recall = old.recall /\ f.validity = old.validity /\ f.retain = old.retain
          /\ f.pinned = old.pinned
          /\ \A k \in FactKinds \ {"quarantine"} : f.by[k] = old.by[k]
        BY <1>2, <2>1 DEF Facts, FactKinds
    <2>3. Backs(o, r, SetBy("quarantine", f))'
        BY <1>4, <1>10, <2>2 DEF SetBy
    <2>4. \A k \in FactKinds \ {"quarantine"} : SetBy(k, f) = SetBy(k, old)
        BY DEF SetBy, FactKinds
    <2>5. QED BY <1>2, <1>3, <2>2, <2>3, <2>4 DEF AreBacked, FactKinds
<1>11. CASE a.kind \in Retiring
    <2>1. f = old
        BY <1>5, <1>11 DEF FactsAfter, Retiring, old
    <2>2. QED BY <1>2, <1>3, <2>1 DEF AreBacked
<1>12. QED BY <1>1, <1>7, <1>8, <1>9, <1>10, <1>11 DEF Action, Kinds, Retiring

(* So does a correction, which inherits facts under its own event.          *)
LEMMA CorrectionBacks ==
    ASSUME TypeOK, Bookkeeping, FactsAreBacked,
           NEW g \in Grants, NEW h \in Grants, NEW end \in Ends, Apply(g, h, end),
           NEW a \in grant[h].request.group, a.kind = "correct",
           NEW r, r = a.to, NEW o, o = grant[h].request.op, NEW f, f = FactsAfter(a, r, o)
    PROVE  AreBacked(r, f)'
<1> DEFINE old == facts[TheOne(a)]
<1>1. /\ a \in Action /\ IsAction(a) /\ o \in Ops /\ o # NoOp
      /\ \A q \in a.on : Exists(q) /\ q \in Records
    BY BoundActions, NamesAssumption DEF Apply
<1>2. TheOne(a) \in a.on /\ r \in Touched(a)
    BY <1>1, TheOneIs DEF IsSelection, Touched, IsAction, Retiring
<1>3. old \in Facts /\ AreBacked(TheOne(a), old)
    BY <1>1, <1>2 DEF TypeOK, FactsAreBacked
<1>4. \A kinds : "correct" \in kinds => Backs(o, r, kinds)'
    BY <1>2, EventsBack
<1>5. f = Inherited(old, o)
    BY DEF FactsAfter
<1> HIDE DEF old
<1>6. /\ f.recall = old.recall /\ f.validity = old.validity /\ f.retain = old.retain
      /\ f.pinned = old.pinned /\ f.quarantined = old.quarantined
      /\ \A k \in FactKinds : f.by[k] = IF old.by[k] = NoOp THEN NoOp ELSE o
    BY <1>3, <1>5 DEF Inherited, Facts
<1>7. \A k \in FactKinds : f.by[k] = NoOp <=> old.by[k] = NoOp
    BY <1>1, <1>6
<1>8. \A k \in FactKinds : Backs(o, r, SetBy(k, f))'
    BY <1>4 DEF SetBy
<1>9. QED BY <1>3, <1>6, <1>7, <1>8 DEF AreBacked, FactKinds

(* An extension that is permitted can be evaluated.                         *)
LEMMA ActionEvaluable ==
    ASSUME TypeOK, NEW a \in Action, IsAction(a), Permits(a, now), NEW r \in Records,
           r \in Touched(a), Exists(r), NEW o \in Ops, IsEvaluable(record[r], facts[r])
    PROVE  IsEvaluable(RowAfter(a, r, o), FactsAfter(a, r, o))
<1> DEFINE old == facts[r]
           f == FactsAfter(a, r, o)
           row == record[r]
<1>1. row \in Row /\ old \in Facts /\ IsEvaluable(row, old)
    BY DEF TypeOK, Exists
<1>2. SameClocks(RowAfter(a, r, o), row)
    BY RowKeeps
<1>3. ~ (a.kind = "correct" /\ r = a.to)
    BY RetirementFinds DEF Retiring
<1>4. IsEvaluable(row, f)
    <2>1. CASE a.kind \in {"extend_automatic_recall", "extend_validity"}
        <3>1. r \in a.on
            BY <2>1 DEF Touched, IsAction, Retiring
        <3>2. ~ PermitsRetirement(a, r, now)
            BY <2>1 DEF PermitsRetirement
        <3>3. PermitsExtension(a, r, now)
            BY <3>1, <3>2 DEF Permits
        <3>4. /\ old.recall \in Nat /\ old.validity \in Nat /\ a.until \in Nat
              /\ row.occurred \in Nat /\ row.expires \in Nat
              /\ OrdinaryWindow \in Nat /\ MaximumWindow \in Nat
            BY <1>1, TimesAreNat, WindowAssumption DEF Facts, Row, Action
        <3>5. CASE a.kind = "extend_automatic_recall"
            <4>1. f = [old EXCEPT !.recall = a.until, !.by["recall"] = o]
                BY <3>5 DEF FactsAfter
            <4>2. f.recall = a.until /\ f.validity = old.validity
                BY <1>1, <4>1 DEF Facts
            <4>3. /\ row.lane = "episodic" /\ a.until > RecallBoundary(row, old)
                  /\ a.until <= row.occurred + MaximumWindow
                BY <3>3, <3>5 DEF PermitsExtension
            <4>4. OrdinaryBoundary(row) < a.until
                BY <1>1, <3>4, <4>3 DEF RecallBoundary, OrdinaryBoundary, IsEvaluable
            <4> HIDE DEF f, old, row
            <4>5. QED BY <1>1, <4>2, <4>3, <4>4 DEF IsEvaluable
        <3>6. CASE a.kind = "extend_validity"
            <4>1. f = [old EXCEPT !.validity = a.until, !.by["validity"] = o]
                BY <3>6 DEF FactsAfter
            <4>2. f.validity = a.until /\ f.recall = old.recall
                BY <1>1, <4>1 DEF Facts
            <4>3. /\ row.lane # "session" /\ row.expires # Never
                  /\ a.until > Validity(row, old)
                BY <3>3, <3>6 DEF PermitsExtension
            <4>4. row.expires < a.until
                BY <1>1, <3>4, <4>3 DEF Validity, IsEvaluable
            <4> HIDE DEF f, old, row
            <4>5. QED BY <1>1, <4>2, <4>3, <4>4 DEF IsEvaluable
        <3>7. QED BY <2>1, <3>5, <3>6
    <2>2. CASE a.kind \notin {"extend_automatic_recall", "extend_validity"}
        <3>1. \/ f = old
              \/ f = [old EXCEPT !.retain = a.until, !.by["retention"] = o]
              \/ f = [old EXCEPT !.pinned = (a.kind = "pin"), !.by["retention"] = o]
              \/ f = [old EXCEPT !.quarantined = (a.kind = "quarantine"),
                                 !.by["quarantine"] = o]
            BY <1>3, <2>2 DEF FactsAfter
        <3> HIDE DEF f, old, row
        <3>2. f.recall = old.recall /\ f.validity = old.validity
            BY <1>1, <3>1 DEF Facts
        <3>3. QED BY <1>1, <3>2 DEF IsEvaluable
    <2>3. QED BY <2>1, <2>2
<1> HIDE DEF f, old, row
<1>5. QED BY <1>2, <1>4 DEF IsEvaluable, SameClocks, OrdinaryBoundary, f

LEMMA ApplyBacks ==
    ASSUME TypeOK, Bookkeeping, FactsAreBacked,
           NEW g \in Grants, NEW h \in Grants, NEW end \in Ends, Apply(g, h, end)
    PROVE  FactsAreBacked'
<1> SUFFICES ASSUME NEW r \in Records, NEW f, f = facts'[r]
             PROVE  IF Exists(r)' THEN AreBacked(r, f)' /\ IsEvaluable(record'[r], f)
                    ELSE f = NoFacts
    BY DEF FactsAreBacked, AreBacked, Backs
<1>1. CASE record'[r] = record[r] /\ f = facts[r]
    <2>1. Exists(r)' <=> Exists(r)
        BY <1>1 DEF Exists
    <2>2. \A p, kinds : Backs(p, r, kinds) => Backs(p, r, kinds)'
        BY EventsBack
    <2>3. AreBacked(r, facts[r]) => AreBacked(r, f)'
        BY <1>1, <2>2 DEF AreBacked
    <2>4. QED BY <1>1, <2>1, <2>3 DEF FactsAreBacked
<1>2. ASSUME NEW a \in grant[h].request.group, r \in Touched(a),
             NEW o, o = grant[h].request.op,
             record'[r] = RowAfter(a, r, o), f = FactsAfter(a, r, o)
      PROVE  /\ Exists(r)' /\ AreBacked(r, f)'
             /\ IsEvaluable(record'[r], f)
    <2>1. /\ a \in Action /\ IsAction(a) /\ o \in Ops /\ Permits(a, now)
          /\ \A q \in a.on : Exists(q) /\ q \in Records
          /\ a.kind # "correct" => \A q \in Touched(a) : Exists(q)
        BY <1>2, BoundActions DEF Apply
    <2>2. Exists(r)'
        <3>1. RowAfter(a, r, o) \in Row
            BY <1>2, <2>1, RowAfterTyped, TypeOKIs
        <3>2. QED BY <1>2, <3>1, NoRowIsNoRow DEF Exists
    <2>3. CASE Exists(r)
        <3>1. IsEvaluable(record[r], facts[r])
            BY <2>3 DEF FactsAreBacked
        <3>2. IsEvaluable(record'[r], f)
            BY <1>2, <2>1, <2>3, <3>1, ActionEvaluable
        <3>3. AreBacked(r, f)'
            BY <1>2, <2>3, ActionBacks
        <3>4. QED BY <2>2, <3>2, <3>3
    <2>4. CASE ~ Exists(r)
        <3>1. a.kind = "correct" /\ r = a.to /\ r \notin a.on
            BY <1>2, <2>1, <2>4 DEF Touched
        <3>2. TheOne(a) \in a.on
            BY <2>1, <3>1, TheOneIs DEF IsSelection
        <3>3. record[TheOne(a)] \in Row /\ facts[TheOne(a)] \in Facts
            BY <2>1, <3>2 DEF TypeOK, Exists
        <3>4. IsEvaluable(record[TheOne(a)], facts[TheOne(a)])
            BY <2>1, <3>2 DEF FactsAreBacked
        <3>5. SameClocks(record'[r], record[TheOne(a)])
            BY <1>2, <3>1, <3>3 DEF RowAfter, Correction, SameClocks, Row
        <3>6. /\ f.recall = facts[TheOne(a)].recall
              /\ f.validity = facts[TheOne(a)].validity
            BY <1>2, <3>1, <3>3 DEF FactsAfter, Inherited, Facts
        <3>7. IsEvaluable(record'[r], f)
            BY <3>4, <3>5, <3>6 DEF IsEvaluable, SameClocks, OrdinaryBoundary
        <3>8. AreBacked(r, f)'
            BY <1>2, <3>1, CorrectionBacks
        <3>9. QED BY <2>2, <3>7, <3>8
    <2>5. QED BY <2>3, <2>4
<1>3. QED BY <1>1, <1>2, AppliedRow

LEMMA CommandBacks ==
    ASSUME TypeOK, FactsAreBacked, NEW r \in Records, NEW end \in Ends, IsCommand(r, end)
    PROVE  FactsAreBacked'
<1>1. PICK q \in Records, row \in Row :
        /\ Write(q, row, end)
        /\ \/ ~ Exists(q)
           \/ /\ Exists(q)
              /\ \/ row = [record[q] EXCEPT !.continued = now]
                 \/ row = [record[q] EXCEPT !.closed = now]
    BY CommandWrites DEF IsCheckpoint
<1>2. /\ record' = [record EXCEPT ![q] = row] /\ facts' = facts /\ application' = application
      /\ DOMAIN record = Records
    BY <1>1 DEF Write, grantVars, TypeOK
<1> SUFFICES ASSUME NEW p \in Records
             PROVE  IF Exists(p)' THEN /\ AreBacked(p, facts[p])
                                       /\ IsEvaluable(record'[p], facts[p])
                    ELSE facts[p] = NoFacts
    BY <1>2 DEF FactsAreBacked, AreBacked, Backs
<1>3. CASE p # q
    BY <1>2, <1>3 DEF FactsAreBacked, Exists
<1>4. CASE p = q
    <2>1. record'[p] = row /\ Exists(p)'
        BY <1>2, <1>4, NoRowIsNoRow DEF Exists
    <2>2. CASE ~ Exists(q)
        BY <1>4, <2>1, <2>2, NoFactsNeeded DEF FactsAreBacked
    <2>3. CASE Exists(q)
        <3>1. record[q] \in Row /\ IsEvaluable(record[q], facts[q]) /\ AreBacked(q, facts[q])
            BY <2>3 DEF TypeOK, Exists, FactsAreBacked
        <3>2. /\ row.lane = record[q].lane /\ row.occurred = record[q].occurred
              /\ row.expires = record[q].expires
            BY <1>1, <2>3, <3>1 DEF Row
        <3>3. QED BY <1>4, <2>1, <3>1, <3>2 DEF IsEvaluable, OrdinaryBoundary
    <2>4. QED BY <2>2, <2>3
<1>5. QED BY <1>3, <1>4

(* No sequence of groups and commands leaves a record with facts that its   *)
(* lane has no use for or that no event backs: the owner can always         *)
(* authorize, plan and reconcile it (verify_lifecycle_authority).           *)
THEOREM FactsAlwaysManageable == Spec => []FactsAreManageable
<1>1. Init => FactsAreBacked
    BY NoFactsNeeded DEF Init, FactsAreBacked
<1>2. ASSUME FactsAreBacked, TypeOK, Bookkeeping, [Next]_vars
      PROVE  FactsAreBacked'
    <2>1. ASSUME NEW g \in Grants, NEW h \in Grants, NEW end \in Ends, Apply(g, h, end)
          PROVE  FactsAreBacked'
        BY <1>2, <2>1, ApplyBacks
    <2>2. ASSUME NEW r \in Records, NEW end \in Ends, IsCommand(r, end)
          PROVE  FactsAreBacked'
        BY <1>2, <2>2, CommandBacks
    <2>3. CASE UNCHANGED <<recordVars, application>>
        BY <1>2, <2>3 DEF recordVars, FactsAreBacked, AreBacked, Backs, Exists
    <2>4. QED BY <1>2, <2>1, <2>2, <2>3, StepKinds
<1>3. FactsAreBacked => FactsAreManageable
    BY VerifiedIs DEF FactsAreBacked, FactsAreManageable
<1>4. QED BY <1>1, <1>2, <1>3, PrivateTypeCorrect, BookkeepingHolds, PTL DEF Spec
===============================================================================
