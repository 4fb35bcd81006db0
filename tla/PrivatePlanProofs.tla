--------------------------- MODULE PrivatePlanProofs ---------------------------
(***************************************************************************)
(* Proofs about what time and versions decide in PrivateLifecycle: that a  *)
(* version tells its record, that a projection in force suppresses every   *)
(* contradiction of the database it was copied with, and that a plan which *)
(* still binds proposes what a plan made now would propose.  From these,   *)
(* the refinement to OwnerAuthority, step by step: every step gives,       *)
(* withdraws or uses an authority, or writes what is not the owner's to    *)
(* decide, or changes nothing an owner sees.                               *)
(***************************************************************************)
EXTENDS PrivateRecordProofs

-------------------------------------------------------------------------------
(* Versions                                                                 *)

(* The version of a record only grows, and a step that leaves it alone      *)
(* leaves the record and its facts alone.                                   *)
VersionsTell ==
    \A r \in Records :
        /\ version'[r] \in Nat /\ version'[r] >= version[r]
        /\ version'[r] = version[r] =>
             record'[r] = record[r] /\ facts'[r] = facts[r] /\ updated'[r] = updated[r]

LEMMA StepsTell ==
    ASSUME TypeOK, Bookkeeping, [Next]_vars
    PROVE  VersionsTell
<1>1. \A r \in Records : version[r] \in Nat
    BY DEF TypeOK
<1>2. ASSUME NEW g \in Grants, NEW h \in Grants, NEW end \in Ends, Apply(g, h, end)
      PROVE  VersionsTell
    <2> DEFINE group == grant[h].request.group
    <2>1. version' = [r \in Records |-> IF r \in {q \in Records : IsTouched(group, q)}
                                        THEN version[r] + 1 ELSE version[r]]
        BY <1>2 DEF Apply, ApplyGroup, Rotate
    <2> SUFFICES ASSUME NEW r \in Records
                 PROVE  /\ version'[r] \in Nat /\ version'[r] >= version[r]
                        /\ version'[r] = version[r] =>
                             /\ record'[r] = record[r] /\ facts'[r] = facts[r]
                             /\ updated'[r] = updated[r]
        BY DEF VersionsTell
    <2>2. CASE IsTouched(group, r)
        BY <1>1, <2>1, <2>2
    <2>3. CASE ~ IsTouched(group, r)
        <3>1. record'[r] = record[r] /\ facts'[r] = facts[r]
            BY <1>2, <2>3 DEF Apply, ApplyGroup
        <3>2. ~ IsRestamped(group, r)
            BY <2>3, NamesAssumption DEF IsRestamped, IsTouched, Touched
        <3>3. updated'[r] = updated[r]
            BY <1>2, <3>2 DEF Apply, ApplyGroup
        <3>4. QED BY <1>1, <2>1, <2>3, <3>1, <3>3
    <2>4. QED BY <2>2, <2>3
<1>3. ASSUME NEW r \in Records, NEW end \in Ends, IsCommand(r, end)
      PROVE  VersionsTell
    <2>1. PICK q \in Records, row \in Row : Write(q, row, end)
        BY <1>3, CommandWrites
    <2>2. /\ record' = [record EXCEPT ![q] = row] /\ facts' = facts
          /\ updated' = [updated EXCEPT ![q] = now]
          /\ version' = [p \in Records |-> IF p \in {q} THEN version[p] + 1 ELSE version[p]]
        BY <2>1 DEF Write, Rotate
    <2>3. QED BY <1>1, <2>2 DEF VersionsTell, TypeOK
<1>4. CASE UNCHANGED <<recordVars, application>>
    BY <1>1, <1>4 DEF recordVars, VersionsTell
<1>5. QED BY <1>2, <1>3, <1>4, StepKinds

(* Time only passes.                                                        *)
LEMMA TimePasses ==
    ASSUME TypeOK, TypeOK', [Next]_vars
    PROVE  now \in Nat /\ now' \in Nat /\ now' >= now
<1>1. now \in Nat /\ now' \in Nat
    BY TimesAreNat DEF TypeOK
<1>2. ASSUME NEW g \in Grants, NEW h \in Grants, NEW end \in Ends, Apply(g, h, end)
      PROVE  now' = now
    BY <1>2 DEF Apply, AfterWrite
<1>3. ASSUME NEW r \in Records, NEW end \in Ends, IsCommand(r, end)
      PROVE  now' = now
    BY <1>3, CommandWrites DEF Write, AfterWrite
<1>4. QED BY <1>1, <1>2, <1>3, StepKinds

-------------------------------------------------------------------------------
(* Updates                                                                  *)

(* No record is updated in the future, and none is reviewed after its last  *)
(* update: a review is stamped by the write that adds the record.           *)
IsUpdatedBy(r, t) == updated[r] <= t
IsReviewedByUpdate(r) ==
    Exists(r) /\ record[r].lane = "durable" => record[r].reviewed <= updated[r]
UpdatesTell == \A r \in Records : IsUpdatedBy(r, now) /\ IsReviewedByUpdate(r)

LEMMA CommandUpdates ==
    ASSUME TypeOK, UpdatesTell, NEW r \in Records, NEW end \in Ends, IsCommand(r, end)
    PROVE  UpdatesTell'
<1>1. PICK q \in Records, row \in Row :
        /\ Write(q, row, end)
        /\ row.lane # "session" => row.reviewed = now
    BY CommandWrites
<1>2. /\ record' = [record EXCEPT ![q] = row] /\ updated' = [updated EXCEPT ![q] = now]
      /\ now' = now /\ now \in Nat
    BY <1>1, TimesAreNat DEF Write, AfterWrite, TypeOK
<1>3. ASSUME NEW p \in Records
      PROVE  updated'[p] <= now' /\ IsReviewedByUpdate(p)'
    <2>1. CASE p = q
        <3>1. record'[p] = row /\ updated'[p] = now
            BY <1>2, <2>1 DEF TypeOK
        <3>2. QED BY <1>1, <1>2, <3>1 DEF IsReviewedByUpdate
    <2>2. CASE p # q
        <3>1. record'[p] = record[p] /\ updated'[p] = updated[p]
            BY <1>2, <2>2 DEF TypeOK
        <3>2. QED BY <1>2, <3>1 DEF UpdatesTell, IsUpdatedBy, IsReviewedByUpdate, Exists
    <2>3. QED BY <2>1, <2>2
<1>4. QED BY <1>3 DEF UpdatesTell, IsUpdatedBy

LEMMA ApplyUpdates ==
    ASSUME TypeOK, Bookkeeping, UpdatesTell,
           NEW g \in Grants, NEW h \in Grants, NEW end \in Ends, Apply(g, h, end)
    PROVE  UpdatesTell'
<1> SUFFICES ASSUME NEW r \in Records
             PROVE  updated'[r] <= now' /\ IsReviewedByUpdate(r)'
    BY DEF UpdatesTell, IsUpdatedBy
<1>1. now' = now /\ now \in Nat /\ updated[r] \in Nat
    BY TimesAreNat DEF Apply, AfterWrite, TypeOK
<1>2. updated[r] <= now /\ IsReviewedByUpdate(r)
    BY DEF UpdatesTell, IsUpdatedBy
<1>3. updated'[r] = updated[r] \/ updated'[r] = now
    BY DEF Apply, ApplyGroup
<1>4. updated'[r] \in Nat /\ updated'[r] <= now' /\ updated[r] <= updated'[r]
    BY <1>1, <1>2, <1>3
<1>5. \A q \in Records : Exists(q) => record[q].reviewed \in Nat
    BY TimesAreNat DEF TypeOK, Exists, Row
<1>6. CASE record'[r] = record[r]
    BY <1>1, <1>2, <1>4, <1>5, <1>6 DEF IsReviewedByUpdate, Exists
<1>7. ASSUME NEW a \in grant[h].request.group, r \in Touched(a),
             record'[r] = RowAfter(a, r, grant[h].request.op)
      PROVE  IsReviewedByUpdate(r)'
    <2>1. /\ a \in Action /\ IsAction(a) /\ Permits(a, now)
          /\ \A q \in a.on : Exists(q) /\ q \in Records
          /\ a.kind # "correct" => \A q \in Touched(a) : Exists(q)
        BY BoundActions DEF Apply
    <2>2. CASE Exists(r)
        <3>1. record'[r].lane = record[r].lane /\ record'[r].reviewed = record[r].reviewed
            BY <1>7, <2>1, <2>2, RowKeeps DEF SameClocks
        <3>2. QED BY <1>1, <1>2, <1>4, <1>5, <2>2, <3>1 DEF IsReviewedByUpdate
    <2>3. CASE ~ Exists(r)
        <3>1. a.kind = "correct" /\ r \notin a.on
            BY <1>7, <2>1, <2>3
        <3>2. TheOne(a) \in a.on
            BY <2>1, <3>1, TheOneIs DEF IsSelection
        <3>3. record[TheOne(a)] \in Row
            BY <2>1, <3>2 DEF TypeOK, Exists
        <3>4. record'[r].reviewed = 0
            BY <1>7, <3>1, <3>3 DEF RowAfter, Correction, Row, Unset
        <3>5. QED BY <1>4, <3>4 DEF IsReviewedByUpdate
    <2>4. QED BY <2>2, <2>3
<1>8. IsReviewedByUpdate(r)'
    BY <1>6, <1>7, AppliedRow
<1>9. QED BY <1>4, <1>8

LEMMA UpdatesKeep ==
    ASSUME TypeOK, TypeOK', Bookkeeping, UpdatesTell, [Next]_vars
    PROVE  UpdatesTell'
<1>1. now \in Nat /\ now' \in Nat /\ now' >= now
    BY TimePasses
<1>2. ASSUME UNCHANGED <<recordVars, application>>
      PROVE  UpdatesTell'
    <2>1. record' = record /\ updated' = updated
        BY <1>2 DEF recordVars
    <2>2. \A r \in Records : updated[r] \in Nat
        BY TimesAreNat DEF TypeOK
    <2>3. QED
        BY <1>1, <2>1, <2>2 DEF UpdatesTell, IsUpdatedBy, IsReviewedByUpdate, Exists
<1>3. QED BY <1>2, CommandUpdates, ApplyUpdates, StepKinds

LEMMA UpdatesStart ==
    ASSUME Init
    PROVE  UpdatesTell
<1>1. ASSUME NEW r \in Records PROVE IsUpdatedBy(r, now) /\ IsReviewedByUpdate(r)
    <2>1. /\ record[r] = IF r \in DOMAIN Present THEN Present[r] ELSE NoRow
          /\ updated[r] = 0 /\ now = 0
        BY DEF Init
    <2>2. QED BY <2>1, CastAssumption DEF IsUpdatedBy, IsReviewedByUpdate, Exists
<1>2. QED BY <1>1 DEF UpdatesTell

-------------------------------------------------------------------------------
(* Projections                                                              *)

DatabaseTyped(db) ==
    /\ db.record \in [Records -> Row \cup {NoRow}]
    /\ db.facts \in [Records -> Facts]

(* The projection of a database has every contradiction that is between its *)
(* rows as of t, at their versions.                                         *)
Reflects(db, t) ==
    \A r, s \in Records :
        /\ IsBaseCurrent(db, r, t) /\ IsBaseCurrent(db, s, t)
        /\ db.record[r].lane = "durable" /\ db.record[s].lane = "durable"
        /\ AreOpposed(db.record, r, s)
        => /\ {r, s} \in db.projection.edges
           /\ \A x \in {r, s} : db.version[x] = db.projection.members[x]
IsReflected(db, t) ==
    DatabaseTyped(db) /\ (db.projection.state = "current" => \E u \in 0..t : Reflects(db, u))

ProjectionsReflect == IsReflected(Shared, now) /\ IsReflected(mirror, now)

(* A reconciliation reflects the rows it reads.                             *)
LEMMA ReconciledReflects ==
    ASSUME TypeOK', UpdatesTell', (projection = Reconciled)'
    PROVE  Reflects(Shared', now')
<1>1. /\ projection'.edges = Edges(Covered(now), now)'
      /\ \A x \in UNION projection'.edges : projection'.members[x] = version'[x]
    BY DEF Reconciled
<1>2. /\ Shared'.record = record' /\ Shared'.facts = facts' /\ Shared'.version = version'
      /\ Shared'.projection = projection'
    BY DEF Shared
<1>3. ASSUME NEW r \in Records, NEW s \in Records,
             IsBaseCurrent(Shared', r, now'), IsBaseCurrent(Shared', s, now'),
             record'[r].lane = "durable", record'[s].lane = "durable",
             AreOpposed(record, r, s)'
      PROVE  {r, s} \in projection'.edges
    <2>0. ASSUME NEW q \in Records, IsBaseCurrent(Shared', q, now')
          PROVE  q \in Covered(now)' /\ IsCurrent(q, now)'
        BY <1>2, <2>0
           DEF Covered, IsCurrent, IsBaseCurrent, Exists, UpdatesTell, IsUpdatedBy
    <2>1. r \in Claimants(Covered(now), now)' /\ s \in Claimants(Covered(now), now)'
        BY <1>3, <2>0 DEF Claimants
    <2> DEFINE p == <<r, s>>
    <2>2. p \in Claimants(Covered(now), now)' \X Claimants(Covered(now), now)' /\ p[1] = r /\ p[2] = s
        BY <2>1
    <2>3. AreOpposed(record, p[1], p[2])'
        BY <1>3 DEF AreOpposed
    <2> HIDE DEF p
    <2>4. {p[1], p[2]} \in Edges(Covered(now), now)'
        BY <2>2, <2>3 DEF Edges
    <2>5. QED BY <1>1, <2>2, <2>4
<1>4. QED BY <1>1, <1>2, <1>3 DEF Reflects, AreOpposed

LEMMA ReconcileReflects ==
    ASSUME TypeOK', UpdatesTell', (projection = Reconciled)' \/ projection'.state # "current"
    PROVE  IsReflected(Shared', now')
<1>1. DatabaseTyped(Shared')
    BY DEF DatabaseTyped, Shared, TypeOK
<1>2. now' \in 0..now'
    BY TimesAreNat DEF TypeOK
<1>3. CASE (projection = Reconciled)'
    BY <1>1, <1>2, <1>3, ReconciledReflects DEF IsReflected
<1>4. CASE projection'.state # "current"
    BY <1>1, <1>4 DEF IsReflected, Shared
<1>5. QED BY <1>3, <1>4

(* What was reflected is at any later time.                                 *)
LEMMA StillReflected ==
    ASSUME NEW db, NEW t \in Nat, NEW u \in Nat, t <= u, IsReflected(db, t)
    PROVE  IsReflected(db, u)
<1>1. \A v \in 0..t : v \in 0..u
    OBVIOUS
<1>2. QED BY <1>1 DEF IsReflected

(* What each step does to the projection and to the mirror.                 *)
LEMMA ProjectionSteps ==
    ASSUME TypeOK, MaintenanceFollowsConsent, [Next]_vars
    PROVE  /\ \/ (projection = Reconciled)'
              \/ projection'.state # "current"
              \/ Shared' = Shared
           /\ mirror' = mirror \/ mirror' = Shared'
<1> DEFINE Done ==
             /\ \/ (projection = Reconciled)'
                \/ projection'.state # "current"
                \/ Shared' = Shared
             /\ mirror' = mirror \/ mirror' = Shared'
<1>1. ASSUME NEW end, Reconcile(end)
      PROVE  (projection = Reconciled)' \/ projection'.state # "current"
    <2>1. ASSUME projection' = Marked("blocked", generation')
          PROVE  projection'.state = "blocked"
        BY <2>1 DEF Marked
    <2>2. QED BY <1>1, <2>1 DEF Reconcile
<1>2. ASSUME NEW end \in Ends, AfterWrite(end)
      PROVE  Done
    <2>1. mirror' = mirror \/ mirror' = Shared'
        BY <1>2 DEF AfterWrite, CopyToMirror
    <2>2. CASE ~ maintenance.active
        BY <1>2, <2>1, <2>2 DEF AfterWrite, MaintenanceFollowsConsent
    <2>3. CASE maintenance.active /\ end = "stopped"
        <3>1. projection' = Marked("dirty", generation')
            BY <1>2, <2>3 DEF AfterWrite
        <3>2. projection'.state = "dirty"
            BY <3>1 DEF Marked
        <3>3. QED BY <2>1, <3>2
    <2>4. CASE maintenance.active /\ end # "stopped"
        BY <1>1, <1>2, <2>1, <2>4 DEF AfterWrite
    <2>5. QED BY <2>2, <2>3, <2>4
<1>3. ASSUME UNCHANGED <<recordVars, projection, mirror>>
      PROVE  Done
    BY <1>3 DEF recordVars, Shared
<1>4. ASSUME NEW end \in Ends, RefreshMirror(end)
      PROVE  Done
    <2>1. mirror' = mirror \/ mirror' = Shared'
        BY <1>4 DEF RefreshMirror, CopyToMirror
    <2>2. CASE NeedsReconciliation
        BY <1>1, <1>4, <2>1, <2>2 DEF RefreshMirror
    <2>3. CASE ~ NeedsReconciliation
        BY <1>4, <2>1, <2>3 DEF RefreshMirror, recordVars, Shared
    <2>4. QED BY <2>2, <2>3
<1> HIDE DEF Done
<1>5. ASSUME NEW g \in Grants, NEW o \in Ops, NEW group \in Groups,
             NEW at \in (0..now) \cup {Never}, NEW lifetime \in Lifetimes, NEW until \in Times,
             Authorize(g, o, group, at, lifetime, until)
      PROVE  Done
    BY <1>3, <1>5 DEF Authorize
<1>6. ASSUME NEW g \in Grants, Revoke(g)
      PROVE  Done
    BY <1>3, <1>6 DEF Revoke
<1>7. ASSUME NEW g \in Grants, NEW h \in Grants, NEW end \in Ends,
             Apply(g, h, end) \/ Replay(g, h, end)
      PROVE  Done
    BY <1>2, <1>4, <1>7 DEF Apply, Replay
<1>8. ASSUME NEW r \in Records, NEW end \in Ends, IsCommand(r, end)
      PROVE  Done
    BY <1>2, <1>8, CommandWrites DEF Write
<1>9. ASSUME NEW end \in Ends, Refresh(end)
      PROVE  Done
    BY <1>4, <1>9 DEF Refresh
<1>10. ASSUME NEW end \in Ends, Enable(end) \/ Disable(end) \/ ReconcileNow(end)
       PROVE  Done
    BY <1>1, <1>10 DEF Done, Enable, Disable, ReconcileNow, DisabledProjection, CopyToMirror
<1>11. ASSUME Tick \/ UNCHANGED vars
       PROVE  Done
    BY <1>3, <1>11 DEF Tick, vars
<1>12. Done
    BY <1>5, <1>6, <1>7, <1>8, <1>9, <1>10, <1>11 DEF Next, IsCommand
<1>13. QED BY <1>12 DEF Done

LEMMA ProjectionsKeep ==
    ASSUME TypeOK, TypeOK', UpdatesTell', MaintenanceFollowsConsent, ProjectionsReflect,
           [Next]_vars
    PROVE  ProjectionsReflect'
<1>1. now \in Nat /\ now' \in Nat /\ now' >= now
    BY TimePasses
<1>2. IsReflected(Shared, now') /\ IsReflected(mirror, now')
    BY <1>1, StillReflected DEF ProjectionsReflect
<1>3. IsReflected(Shared', now')
    BY <1>2, ProjectionSteps, ReconcileReflects
<1>4. IsReflected(mirror', now')
    BY <1>2, <1>3, ProjectionSteps
<1>5. QED BY <1>3, <1>4 DEF ProjectionsReflect

(* What is current was current at any earlier time.                         *)
LEMMA CurrentBefore ==
    ASSUME NEW db, DatabaseTyped(db), NEW t \in Nat, NEW u \in Nat, t <= u,
           NEW r \in Records, IsBaseCurrent(db, r, u)
    PROVE  IsBaseCurrent(db, r, t)
<1>1. db.record[r] \in Row /\ db.facts[r] \in Facts
    BY DEF DatabaseTyped, IsBaseCurrent
<1>2. ASSUME NEW b \in Boundaries(db.record[r], db.facts[r]), u < b PROVE t < b
    BY <1>1, <1>2, BoundariesNat
<1>3. QED BY <1>2 DEF IsBaseCurrent, BaseCurrent, Retained

(* A projection in force has every contradiction between what is current.   *)
LEMMA ReflectedSuppresses ==
    ASSUME NEW db, now \in Nat, IsReflected(db, now), db.projection.state # "disabled",
           NEW r \in Records, NEW s \in Records, AreContradictory(db, r, s)
    PROVE  ~ IsRecalled(db, r, now)
<1> SUFFICES ASSUME ProjectionIsInForce(db, now) PROVE Suppresses(db, s, r, now) /\ s # r
    BY DEF IsRecalled
<1>1. PICK t \in 0..now : Reflects(db, t)
    BY DEF IsReflected, ProjectionIsInForce
<1>2. IsBaseCurrent(db, r, t) /\ IsBaseCurrent(db, s, t)
    BY CurrentBefore DEF IsReflected, AreContradictory
<1>3. /\ {r, s} \in db.projection.edges
      /\ \A x \in {r, s} : db.version[x] = db.projection.members[x]
    BY <1>1, <1>2 DEF Reflects, AreContradictory
<1>4. s # r
    <2> DEFINE p == <<db.record[r].claim, db.record[s].claim>>
    <2>1. p \in Opposite
        BY DEF AreContradictory, AreOpposed
    <2>2. p[1] # p[2]
        BY <2>1, OppositeAssumption
    <2>3. QED BY <2>2
<1>5. QED BY <1>3, <1>4 DEF Suppresses, AreContradictory

(* While maintenance is enabled, neither side of a contradiction is         *)
(* recalled, whatever interrupted refreshes left in the mirror              *)
(* (current_assertion_sql).                                                 *)
THEOREM NoContradictionIsRecalled == Spec => []NoContradictionRecalled
<1>1. Init => ProjectionsReflect
    <2>1. ASSUME Init PROVE DatabaseTyped(Shared) /\ Shared.projection.state = "disabled"
        <3>1. NoFacts \in Facts
            BY LifecycleBounds DEF NoFacts, Facts, Times, Unset
        <3>2. record \in [Records -> Row \cup {NoRow}]
            BY <2>1, CastAssumption DEF Init
        <3>3. QED BY <2>1, <3>1, <3>2 DEF Init, DatabaseTyped, Shared, DisabledProjection
    <2>2. QED BY <2>1 DEF Init, ProjectionsReflect, IsReflected
<1>2. TypeOK /\ TypeOK' /\ UpdatesTell' /\ MaintenanceFollowsConsent /\ ProjectionsReflect
        /\ [Next]_vars => ProjectionsReflect'
    BY ProjectionsKeep
<1>3. TypeOK /\ ProjectionsReflect => NoContradictionRecalled
    <2>1. TypeOK => now \in Nat
        BY TimesAreNat DEF TypeOK
    <2>2. QED
        BY <2>1, ReflectedSuppresses DEF ProjectionsReflect, NoContradictionRecalled
<1>4. Init => UpdatesTell
    BY UpdatesStart
<1>5. TypeOK /\ TypeOK' /\ Bookkeeping /\ UpdatesTell /\ [Next]_vars => UpdatesTell'
    BY UpdatesKeep
<1>6. QED
    BY <1>1, <1>2, <1>3, <1>4, <1>5, PrivateTypeCorrect, BookkeepingHolds,
       MaintenanceAlwaysConsented, PTL DEF Spec

-------------------------------------------------------------------------------
(* Grants                                                                   *)

(* A step gives one grant that was not there, or changes states only.       *)
LEMMA GrantSteps ==
    ASSUME Bookkeeping, [Next]_vars
    PROVE  \/ \E g \in Grants, o \in Ops, group \in Groups, at \in (0..now) \cup {Never},
                 lifetime \in Lifetimes, until \in Times :
                 Authorize(g, o, group, at, lifetime, until)
           \/ /\ \A g \in Grants : \/ grant'[g] = grant[g]
                                   \/ /\ grant[g] # NoGrantRow /\ grant'[g] # NoGrantRow
                                      /\ grant'[g].request = grant[g].request
              /\ seen' = seen
<1> DEFINE Given == \E g \in Grants, o \in Ops, group \in Groups, at \in (0..now) \cup {Never},
                 lifetime \in Lifetimes, until \in Times :
                 Authorize(g, o, group, at, lifetime, until)
           Kept ==
             /\ \A q \in Grants : \/ grant'[q] = grant[q]
                                 \/ /\ grant[q] # NoGrantRow /\ grant'[q] # NoGrantRow
                                    /\ grant'[q].request = grant[q].request
             /\ seen' = seen
<1>1. DOMAIN grant = Grants
    BY DEF Bookkeeping
<1>2. ASSUME NEW g \in Grants, NEW h \in Grants, NEW end \in Ends,
             Revoke(g) \/ Apply(g, h, end)
      PROVE  Kept
    <2>1. PICK state \in {"revoked", "consumed"} : grant' = [grant EXCEPT ![g].state = state]
        BY <1>2 DEF Revoke, Apply
    <2>2. grant[g] # NoGrantRow
        BY <1>2 DEF Revoke, Apply, NoGrantRow
    <2>3. grant'[g].request = grant[g].request /\ grant'[g].state = state
        BY <1>1, <2>1
    <2>4. grant'[g] # NoGrantRow
        BY <2>3 DEF NoGrantRow
    <2>5. \A q \in Grants : q # g => grant'[q] = grant[q]
        BY <1>1, <2>1
    <2>6. QED BY <1>2, <2>2, <2>3, <2>4, <2>5 DEF Revoke, Apply
<1>3. ASSUME NEW g \in Grants, NEW h \in Grants, NEW end \in Ends, Replay(g, h, end)
      PROVE  Kept
    BY <1>3 DEF Replay, grantVars
<1>4. ASSUME NEW r \in Records, NEW end \in Ends,
             \/ Capture(r, end) \/ ContinueCheckpoint(r, end) \/ CloseCheckpoint(r, end)
             \/ \E s \in Records : SucceedCheckpoint(r, s, end)
      PROVE  Kept
    BY <1>4 DEF Capture, ContinueCheckpoint, CloseCheckpoint, SucceedCheckpoint, Write,
       grantVars
<1>5. ASSUME NEW end \in Ends, Refresh(end) \/ Enable(end) \/ Disable(end) \/ ReconcileNow(end)
      PROVE  Kept
    BY <1>5 DEF Refresh, Enable, Disable, ReconcileNow, grantVars
<1>6. ASSUME Tick \/ UNCHANGED vars
      PROVE  Kept
    BY <1>6 DEF Tick, vars, grantVars
<1> HIDE DEF Given, Kept
<1>7. ASSUME Next PROVE Given \/ Kept
    <2>1. ASSUME NEW g \in Grants, NEW o \in Ops, NEW group \in Groups,
                 NEW at \in (0..now) \cup {Never}, NEW lifetime \in Lifetimes, NEW until \in Times,
                 Authorize(g, o, group, at, lifetime, until)
          PROVE  Given
        BY <2>1 DEF Given
    <2>2. ASSUME NEW g \in Grants,
                 \/ \E o \in Ops, group \in Groups, at \in (0..now) \cup {Never},
                       lifetime \in Lifetimes, until \in Times :
                       Authorize(g, o, group, at, lifetime, until)
                 \/ Revoke(g)
                 \/ \E h \in Grants, end \in Ends : Apply(g, h, end) \/ Replay(g, h, end)
          PROVE  Given \/ Kept
        <3>1. CASE Revoke(g)
            BY <1>2, <3>1 DEF Ends
        <3>2. QED BY <1>2, <1>3, <2>1, <2>2, <3>1
    <2>3. QED BY <1>4, <1>5, <1>6, <1>7, <2>2 DEF Next
<1>8. Given \/ Kept
    BY <1>6, <1>7
<1>9. QED BY <1>8 DEF Given, Kept

-------------------------------------------------------------------------------
(* Plans                                                                    *)

(* What a plan holds of the records it covers, evaluated at its instant.    *)
IsEvaluatedOf(plan) ==
    /\ plan.horizon = Horizon(plan.at)
    /\ plan.proposals = Proposals(Covered(plan.at), plan.at)

(* What PlansStayTrue rests on: a plan is of the past, and while every      *)
(* record has the version it names, evaluating it again changes nothing.    *)
PlanTells(plan) ==
    /\ plan.at <= now
    /\ \A r \in Records : plan.versions[r] <= version[r]
    /\ plan.versions = version => IsEvaluatedOf(plan)
PlansTell ==
    \A g \in Grants : grant[g] # NoGrantRow /\ grant[g].request.plan # Direct =>
        PlanTells(grant[g].request.plan)

(* A plan is evaluated from the rows, the facts and the instants of update. *)
LEMMA SameEvaluation ==
    ASSUME NEW plan, UNCHANGED <<record, facts, updated>>
    PROVE  IsEvaluatedOf(plan) => IsEvaluatedOf(plan)'
<1> DEFINE t == plan.at
<1>1. Covered(t)' = Covered(t)
    BY DEF Covered, Exists
<1>2. \A r : IsRetained(r, t)' <=> IsRetained(r, t)
    BY DEF IsRetained, Exists
<1>3. \A r : IsCurrent(r, t)' <=> IsCurrent(r, t)
    BY DEF IsCurrent, Exists
<1>4. Horizon(t)' = Horizon(t)
    BY <1>1, <1>2 DEF Horizon
<1>5. \A rs, r : DuplicatesOf(rs, r, t)' = DuplicatesOf(rs, r, t)
    BY <1>3 DEF DuplicatesOf, IsDuplicate, SameRetention
<1>6. \A rs : Claimants(rs, t)' = Claimants(rs, t)
    BY <1>3 DEF Claimants
<1>7. \A rs, r : Neighbours(rs, r, t)' = Neighbours(rs, r, t)
    BY <1>6 DEF Neighbours, AreOpposed
<1>8. \A part, rs : IsIncompatibleSet(part, rs, t)' <=> IsIncompatibleSet(part, rs, t)
    BY <1>6, <1>7 DEF IsIncompatibleSet, IsClosedUnderOpposition
<1>9. \A s, r : Renews(s, r, t)' <=> Renews(s, r, t)
    BY <1>2, <1>3 DEF Renews, Exists, IsActive
<1>10. \A rs, a : Proposes(rs, t, a)' <=> Proposes(rs, t, a)
    BY <1>5, <1>8, <1>9 DEF Proposes
<1>11. \A rs : Proposals(rs, t)' = Proposals(rs, t)
    BY <1>10 DEF Proposals
<1>12. QED BY <1>1, <1>4, <1>11 DEF IsEvaluatedOf

(* A plan goes on telling, whatever is written.                             *)
LEMMA StepsKeepPlans ==
    ASSUME TypeOK, TypeOK', Bookkeeping, [Next]_vars,
           NEW plan, plan # Direct, IsPlanRow(plan), PlanTells(plan)
    PROVE  PlanTells(plan)'
<1>1. plan.at \in Nat /\ \A r \in Records : plan.versions[r] \in Nat
    BY TimesAreNat DEF IsPlanRow
<1>2. now \in Nat /\ now' \in Nat /\ now' >= now
    BY TimePasses
<1>3. ASSUME NEW r \in Records
      PROVE  /\ version[r] \in Nat /\ version'[r] \in Nat /\ version'[r] >= version[r]
             /\ version'[r] = version[r] =>
                  record'[r] = record[r] /\ facts'[r] = facts[r] /\ updated'[r] = updated[r]
             /\ plan.versions[r] <= version[r]
    BY StepsTell DEF VersionsTell, TypeOK, PlanTells
<1>4. plan.at <= now' /\ \A r \in Records : plan.versions[r] <= version'[r]
    BY <1>1, <1>2, <1>3 DEF PlanTells
<1>5. ASSUME plan.versions = version'
      PROVE  IsEvaluatedOf(plan)'
    <2>1. ASSUME NEW r \in Records PROVE version'[r] = version[r]
        BY <1>1, <1>3, <1>5
    <2>2. version' = version /\ record' = record /\ facts' = facts /\ updated' = updated
        BY <1>3, <2>1 DEF TypeOK
    <2>3. IsEvaluatedOf(plan)
        BY <1>5, <2>2 DEF PlanTells
    <2>4. QED BY <2>2, <2>3, SameEvaluation
<1>6. QED BY <1>4, <1>5 DEF PlanTells

(* A plan that is authorized tells.                                         *)
LEMMA NewPlanTells ==
    ASSUME TypeOK, NEW at \in 0..now, NEW plan, plan = PlanAt(at),
           UNCHANGED <<now, record, facts, updated, version>>
    PROVE  PlanTells(plan)'
<1>1. /\ plan.at = at /\ plan.versions = version /\ plan.horizon = Horizon(at)
      /\ plan.proposals = Proposals(Covered(at), at)
    BY DEF PlanAt
<1>2. now \in Nat /\ \A r \in Records : version[r] \in Nat
    BY TimesAreNat DEF TypeOK
<1>3. IsEvaluatedOf(plan)
    BY <1>1 DEF IsEvaluatedOf
<1>4. IsEvaluatedOf(plan)'
    BY <1>3, SameEvaluation
<1>5. QED BY <1>1, <1>2, <1>4 DEF PlanTells

LEMMA PlansKeep ==
    ASSUME TypeOK, TypeOK', Bookkeeping, PlansTell, [Next]_vars
    PROVE  PlansTell'
<1>1. ASSUME NEW g \in Grants, grant[g] # NoGrantRow, NEW plan, plan = grant[g].request.plan,
             plan # Direct
      PROVE  PlanTells(plan)'
    <2>1. IsPlanRow(plan) /\ PlanTells(plan)
        BY <1>1 DEF TypeOK, IsRequestRow, PlansTell
    <2>2. QED BY <1>1, <2>1, StepsKeepPlans
<1>2. ASSUME NEW g \in Grants, grant'[g] # NoGrantRow, NEW plan, plan = grant'[g].request.plan,
             plan # Direct
      PROVE  PlanTells(plan)'
    <2>1. CASE grant[g] # NoGrantRow /\ grant'[g].request = grant[g].request
        BY <1>1, <1>2, <2>1
    <2>2. ASSUME NEW h \in Grants, NEW o \in Ops, NEW group \in Groups,
                 NEW at \in (0..now) \cup {Never}, NEW lifetime \in Lifetimes,
                 NEW until \in Times, Authorize(h, o, group, at, lifetime, until)
          PROVE  PlanTells(plan)'
        <3>1. DOMAIN grant = Grants /\ UNCHANGED <<now, record, facts, updated, version>>
            BY <2>2 DEF Bookkeeping, Authorize, recordVars
        <3>2. CASE g # h
            <4>1. grant'[g] = grant[g]
                BY <2>2, <3>1, <3>2 DEF Authorize
            <4>2. QED BY <1>1, <1>2, <4>1
        <3>3. CASE g = h
            <4>1. grant'[g].request.plan = PlanOf(at)
                BY <2>2, <3>1, <3>3 DEF Authorize
            <4>2. at # Never /\ plan = PlanAt(at)
                BY <1>2, <4>1 DEF PlanOf
            <4>3. at \in 0..now
                BY <4>2
            <4>4. QED BY <3>1, <4>2, <4>3, NewPlanTells
        <3>4. QED BY <3>2, <3>3
    <2>3. CASE grant'[g] = grant[g]
        BY <1>1, <1>2, <2>3
    <2>4. QED BY <2>1, <2>2, <2>3, GrantSteps
<1>3. QED BY <1>2 DEF PlansTell, PlanTells, IsEvaluatedOf, Proposals, Horizon, Covered

(* Before the horizon of a plan nothing it covers lapses that it retained.  *)
LEMMA SameRetained ==
    ASSUME TypeOK, NEW t \in Nat, t <= now, Before(now, Horizon(t)), NEW r \in Covered(t)
    PROVE  /\ IsRetained(r, t) <=> IsRetained(r, now)
           /\ IsCurrent(r, t) <=> IsCurrent(r, now)
<1>1. now \in Nat /\ r \in Records /\ Exists(r)
    BY TimesAreNat DEF TypeOK, Covered
<1>2. ASSUME NEW b \in Boundaries(record[r], facts[r])
      PROVE  b \in Nat
    BY <1>1, BoundariesNat DEF TypeOK, Exists
<1>3. ASSUME IsRetained(r, t) PROVE IsRetained(r, now)
    <2>1. Boundaries(record[r], facts[r]) \subseteq Horizon(t)
        BY <1>3 DEF Horizon
    <2>2. QED BY <1>3, <2>1 DEF Before, IsRetained, Retained
<1>4. ASSUME IsRetained(r, now) PROVE IsRetained(r, t)
    <2>1. \A b \in Boundaries(record[r], facts[r]) : now < b
        BY <1>4 DEF IsRetained, Retained
    <2>2. \A b \in Boundaries(record[r], facts[r]) : t < b
        BY <1>1, <1>2, <2>1
    <2>3. QED BY <1>1, <2>2 DEF IsRetained, Retained
<1>5. QED BY <1>3, <1>4 DEF IsCurrent, BaseCurrent, IsRetained

LEMMA SameFindings ==
    ASSUME TypeOK, NEW t \in Nat, t <= now, Before(now, Horizon(t)),
           NEW rs, rs = Covered(t)
    PROVE  /\ \A r : DuplicatesOf(rs, r, t) = DuplicatesOf(rs, r, now)
           /\ \A part : IsIncompatibleSet(part, rs, t) <=> IsIncompatibleSet(part, rs, now)
<1>1. \A r \in rs : IsCurrent(r, t) <=> IsCurrent(r, now)
    BY SameRetained
<1>2. \A r : DuplicatesOf(rs, r, t) = DuplicatesOf(rs, r, now)
    BY <1>1 DEF DuplicatesOf
<1>3. Claimants(rs, t) = Claimants(rs, now)
    BY <1>1 DEF Claimants
<1>4. \A r : Neighbours(rs, r, t) = Neighbours(rs, r, now)
    BY <1>3 DEF Neighbours
<1>5. \A part : IsClosedUnderOpposition(part, rs, t) <=> IsClosedUnderOpposition(part, rs, now)
    BY <1>4 DEF IsClosedUnderOpposition
<1>6. \A part : IsIncompatibleSet(part, rs, t) <=> IsIncompatibleSet(part, rs, now)
    BY <1>3, <1>4, <1>5 DEF IsIncompatibleSet
<1>7. QED BY <1>2, <1>6

LEMMA SameProposals ==
    ASSUME TypeOK, UpdatesTell, NEW t \in Nat, t <= now, Before(now, Horizon(t)),
           NEW rs, rs = Covered(t)
    PROVE  Proposals(rs, t) = Proposals(rs, now)
<1>1. now \in Nat /\ rs \subseteq Records
    BY TimesAreNat DEF TypeOK, Covered
<1>2. \A r \in rs : /\ IsRetained(r, t) <=> IsRetained(r, now)
                    /\ IsCurrent(r, t) <=> IsCurrent(r, now)
    BY SameRetained
<1>3. ASSUME NEW s \in rs, record[s].lane = "durable"
      PROVE  record[s].reviewed <= t /\ record[s].reviewed <= now
    <2>1. Exists(s) /\ updated[s] <= t /\ updated[s] \in Nat
        BY TimesAreNat, <1>1 DEF Covered, TypeOK
    <2>2. record[s].reviewed \in Nat /\ record[s].reviewed <= updated[s]
        BY <1>1, <1>3, <2>1, TimesAreNat
           DEF UpdatesTell, IsReviewedByUpdate, TypeOK, Exists, Row
    <2>3. QED BY <1>1, <2>1, <2>2
<1>4. ASSUME NEW s \in rs, NEW r \in rs
      PROVE  Renews(s, r, t) <=> Renews(s, r, now)
    BY <1>2, <1>3 DEF Renews
<1>5. ASSUME NEW a PROVE Proposes(rs, t, a) <=> Proposes(rs, now, a)
    BY <1>4, SameFindings DEF Proposes
<1>6. QED BY <1>5 DEF Proposals

(* A plan that a grant names proposes, until its horizon and while every    *)
(* record has the version it names, exactly what the detectors find now     *)
(* among the records it covers, whichever past instant it was evaluated at: *)
(* nothing it covers lapses before the horizon, no review among them is     *)
(* later than the plan, and every write shows in a version                  *)
(* (validate_request_plan_binding, plan_private_maintenance_inner).         *)
THEOREM PlansAlwaysTrue == Spec => []PlansStayTrue
<1>1. Init => PlansTell /\ UpdatesTell
    BY UpdatesStart DEF PlansTell, Init
<1>2. TypeOK /\ TypeOK' /\ Bookkeeping /\ PlansTell /\ UpdatesTell /\ [Next]_vars
        => PlansTell' /\ UpdatesTell'
    BY PlansKeep, UpdatesKeep
<1>3. ASSUME TypeOK, PlansTell, UpdatesTell PROVE PlansStayTrue
    <2> SUFFICES ASSUME NEW g \in Grants, grant[g] # NoGrantRow,
                        NEW plan, plan = grant[g].request.plan, plan # Direct,
                        Before(now, plan.horizon), plan.versions = version
                 PROVE  plan.proposals = Proposals(Covered(plan.at), now)
        BY DEF PlansStayTrue
    <2>1. IsPlanRow(plan) /\ PlanTells(plan)
        BY <1>3 DEF TypeOK, IsRequestRow, PlansTell
    <2>2. plan.at \in Nat /\ plan.at <= now
        BY <2>1, TimesAreNat DEF IsPlanRow, PlanTells
    <2>3. /\ plan.horizon = Horizon(plan.at)
          /\ plan.proposals = Proposals(Covered(plan.at), plan.at)
        BY <2>1 DEF PlanTells, IsEvaluatedOf
    <2>4. Proposals(Covered(plan.at), plan.at) = Proposals(Covered(plan.at), now)
        BY <1>3, <2>2, <2>3, SameProposals
    <2>5. QED BY <2>3, <2>4
<1>4. QED BY <1>1, <1>2, <1>3, PrivateTypeCorrect, BookkeepingHolds, PTL DEF Spec

-------------------------------------------------------------------------------
(* The refinement of OwnerAuthority                                         *)

(* What the abstract specification sees of the rows.                        *)
AbstractRow == [r \in Records |-> RowOf(record[r])]
AbstractDecided == [r \in Records |-> DecidedOf(record[r], facts[r])]
AbstractAuthority == [g \in Grants |-> AuthorityOf(g)]
AbstractUsedBy == [o \in Ops |-> IF application[o] = NoApplication THEN NoGrant
                                 ELSE application[o].grant]

-------------------------------------------------------------------------------
(* What a grant's owner saw                                                 *)

(* The versions a request names, of all that its owner saw.                 *)
VersionsOf(request) ==
    IF request.plan = Direct THEN request.versions ELSE request.plan.versions

(* What the refinement rests on: a record that has the version a request    *)
(* names is as the owner saw it.                                            *)
ViewTells(request, view) ==
    /\ DOMAIN view = BoundTo(request)
    /\ \A r \in BoundTo(request) :
         /\ VersionsOf(request)[r] <= version[r]
         /\ VersionsOf(request)[r] = version[r] => view[r] = <<record[r], facts[r]>>
SeenTells ==
    /\ DOMAIN seen = Grants
    /\ \A g \in Grants : grant[g] # NoGrantRow => ViewTells(grant[g].request, seen[g])

LEMMA NeededRecords ==
    ASSUME NEW group \in Groups
    PROVE  Needed(group) \subseteq Records
<1>1. ASSUME NEW a \in group PROVE Expected(a) \subseteq Records
    <2>1. a \in Action
        BY GroupAssumption
    <2>2. QED BY <2>1 DEF Action, Expected, Targets, Touched
<1>2. QED BY <1>1 DEF Needed

LEMMA BoundVersions ==
    ASSUME NEW request, IsRequestRow(request)
    PROVE  /\ BoundTo(request) \subseteq Records
           /\ \A r \in BoundTo(request) : VersionsOf(request)[r] \in Nat
           /\ Needed(request.group) \subseteq BoundTo(request)
<1>1. Needed(request.group) \subseteq Records
    BY NeededRecords DEF IsRequestRow
<1>2. QED BY <1>1 DEF IsRequestRow, IsPlanRow, BoundTo, VersionsOf

LEMMA StepsKeepViews ==
    ASSUME TypeOK, Bookkeeping, [Next]_vars, NEW request, IsRequestRow(request),
           NEW view, ViewTells(request, view)
    PROVE  ViewTells(request, view)'
<1>1. \A r \in BoundTo(request) : r \in Records /\ VersionsOf(request)[r] \in Nat
    BY BoundVersions
<1>2. ASSUME NEW r \in BoundTo(request)
      PROVE  /\ VersionsOf(request)[r] <= version'[r]
             /\ VersionsOf(request)[r] = version'[r] => view[r] = <<record'[r], facts'[r]>>
    <2>1. /\ version[r] \in Nat /\ version'[r] \in Nat /\ version'[r] >= version[r]
          /\ version'[r] = version[r] => record'[r] = record[r] /\ facts'[r] = facts[r]
        BY <1>1, StepsTell DEF VersionsTell, TypeOK
    <2> DEFINE v == VersionsOf(request)[r]
    <2>2. v <= version[r] /\ (v = version[r] => view[r] = <<record[r], facts[r]>>)
        BY DEF ViewTells
    <2>3. v \in Nat
        BY <1>1
    <2> HIDE DEF v
    <2>4. v <= version'[r] /\ (v = version'[r] => view[r] = <<record'[r], facts'[r]>>)
        BY <2>1, <2>2, <2>3
    <2>5. QED BY <2>4 DEF v
<1>3. QED BY <1>2 DEF ViewTells, BoundTo, VersionsOf

LEMMA SeenKeep ==
    ASSUME TypeOK, Bookkeeping, SeenTells, [Next]_vars
    PROVE  SeenTells'
<1>1. ASSUME NEW g \in Grants, grant[g] # NoGrantRow, NEW request, request = grant[g].request,
             NEW view, view = seen[g]
      PROVE  ViewTells(request, view)'
    <2>1. IsRequestRow(request) /\ ViewTells(request, view)
        BY <1>1 DEF TypeOK, SeenTells
    <2>2. QED BY <2>1, StepsKeepViews
<1>2. DOMAIN seen = Grants /\ DOMAIN grant = Grants
    BY DEF SeenTells, Bookkeeping
<1>3. ASSUME NEW h \in Grants, NEW o \in Ops, NEW group \in Groups,
             NEW at \in (0..now) \cup {Never}, NEW lifetime \in Lifetimes, NEW until \in Times,
             Authorize(h, o, group, at, lifetime, until)
      PROVE  SeenTells'
    <2>1. UNCHANGED <<record, facts, version>>
        BY <1>3 DEF Authorize, recordVars
    <2>2. PICK request :
            /\ request.plan = Direct \/ request.plan.versions = version
            /\ request.group = group
            /\ request.versions = [r \in Needed(group) |-> version[r]]
            /\ grant' = [grant EXCEPT ![h] = [state |-> "active", request |-> request,
                                              from |-> now, until |-> until]]
            /\ seen' = [seen EXCEPT ![h] = View(BoundTo(request))]
        BY <1>3 DEF Authorize, PlanAt, PlanOf
    <2>3. DOMAIN seen' = Grants
        BY <1>2, <2>2
    <2>4. ViewTells(request, View(BoundTo(request)))
        <3>1. \A r \in Needed(group) : r \in Records
            BY NeededRecords
        <3>2. \A r \in BoundTo(request) : r \in Records /\ VersionsOf(request)[r] = version[r]
            BY <2>2, <3>1 DEF BoundTo, VersionsOf
        <3>3. \A r \in Records : version[r] <= version[r]
            BY DEF TypeOK
        <3>4. QED BY <3>2, <3>3 DEF ViewTells, View
    <2>5. \A g \in Grants : grant'[g] # NoGrantRow =>
            \E q, view : /\ q = grant'[g].request /\ view = seen'[g]
                         /\ \/ q = request /\ view = View(BoundTo(request))
                            \/ /\ grant[g] # NoGrantRow /\ q = grant[g].request
                               /\ view = seen[g]
        BY <1>2, <2>2
    <2>6. \A q, view : ViewTells(q, view) => ViewTells(q, view)'
        BY <2>1 DEF ViewTells
    <2>7. QED BY <2>3, <2>4, <2>5, <2>6 DEF SeenTells, ViewTells
<1>4. CASE /\ \A g \in Grants : \/ grant'[g] = grant[g]
                                \/ /\ grant[g] # NoGrantRow /\ grant'[g] # NoGrantRow
                                   /\ grant'[g].request = grant[g].request
           /\ seen' = seen
    BY <1>1, <1>2, <1>4 DEF SeenTells, ViewTells
<1>5. QED BY <1>3, <1>4, GrantSteps

-------------------------------------------------------------------------------
(* Steps                                                                    *)

(* What the owner sees of a grant follows from it and from what was seen.   *)
LEMMA AuthorityIs ==
    ASSUME NEW g \in Grants
    PROVE  /\ grant[g] = NoGrantRow => AuthorityOf(g) = Owner!NoAuthority
           /\ grant[g] # NoGrantRow =>
                /\ AuthorityOf(g).state = grant[g].state
                /\ AuthorityOf(g).op = grant[g].request.op
                /\ AuthorityOf(g).until = grant[g].until
                /\ DOMAIN AuthorityOf(g).view = DOMAIN seen[g]
BY DEF AuthorityOf, NoGrantRow, Owner!NoAuthority

(* A step after which an owner sees nothing new.                            *)
LEMMA Unseen ==
    ASSUME UNCHANGED <<now, record, facts, grant, seen, application>>
    PROVE  UNCHANGED Owner!vars
BY DEF Owner!vars, AuthorityOf

(* The owner authorizes what the owner sees now.                            *)
LEMMA AuthorizeGives ==
    ASSUME TypeOK, Bookkeeping, SeenTells, NEW g \in Grants, NEW o \in Ops, NEW group \in Groups,
           NEW at \in (0..now) \cup {Never}, NEW lifetime \in Lifetimes, NEW until \in Times,
           Authorize(g, o, group, at, lifetime, until)
    PROVE  Owner!Give(g)
<1>1. UNCHANGED <<now, record, facts, application>>
    BY DEF Authorize, recordVars
<1>2. PICK request :
        /\ request.op = o /\ request.group = group
        /\ grant' = [grant EXCEPT ![g] = [state |-> "active", request |-> request,
                                          from |-> now, until |-> until]]
        /\ seen' = [seen EXCEPT ![g] = View(BoundTo(request))]
    BY DEF Authorize
<1>3. DOMAIN grant = Grants /\ DOMAIN seen = Grants
    BY DEF Bookkeeping, SeenTells
<1>4. /\ grant'[g].state = "active" /\ grant'[g].request.op = o /\ grant'[g].until = until
      /\ grant'[g] # NoGrantRow /\ seen'[g] = View(BoundTo(request))
    BY <1>2, <1>3 DEF NoGrantRow
<1>5. AbstractAuthority[g].state = "none"
    <2>1. grant[g] = NoGrantRow
        BY DEF Authorize, TypeOK
    <2>2. QED BY <2>1, AuthorityIs DEF AbstractAuthority, Owner!NoAuthority
<1>6. AbstractAuthority' = [AbstractAuthority EXCEPT ![g] = AbstractAuthority'[g]]
    <2>1. ASSUME NEW q \in Grants, q # g PROVE AuthorityOf(q)' = AuthorityOf(q)
        <3>1. grant'[q] = grant[q] /\ seen'[q] = seen[q]
            BY <1>2, <1>3, <2>1
        <3>2. QED BY <3>1 DEF AuthorityOf
    <2>2. QED BY <2>1 DEF AbstractAuthority
<1>7. BoundTo(request) \subseteq Records
    BY <1>2, NeededRecords DEF BoundTo
<1> DEFINE given == AbstractAuthority'[g]
<1>8. /\ given.state = "active" /\ given.op = o /\ given.until = until
      /\ given.view = [r \in BoundTo(request) |->
                         <<RowOf(record[r]), DecidedOf(record[r], facts[r])>>]
    <2>1. given = [state |-> "active", op |-> o, until |-> until,
                   view |-> [r \in DOMAIN seen'[g] |->
                               <<RowOf(seen'[g][r][1]),
                                 DecidedOf(seen'[g][r][1], seen'[g][r][2])>>]]
        BY <1>4 DEF AbstractAuthority, AuthorityOf
    <2>2. /\ DOMAIN seen'[g] = BoundTo(request)
          /\ \A r \in BoundTo(request) :
               seen'[g][r][1] = record[r] /\ seen'[g][r][2] = facts[r]
        BY <1>4 DEF View
    <2>3. QED BY <2>1, <2>2
<1>9. given.view = Owner!View(DOMAIN given.view)
    BY <1>7, <1>8 DEF Owner!View
<1>10. AbstractUsedBy[o] = NoGrant /\ now < until
    BY DEF Authorize, AbstractUsedBy
<1>11. UNCHANGED <<now, AbstractRow, AbstractDecided, AbstractUsedBy>>
    BY <1>1 DEF AbstractRow, AbstractDecided, AbstractUsedBy
<1> HIDE DEF given
<1>12. QED
    BY <1>5, <1>6, <1>8, <1>9, <1>10, <1>11
       DEF Owner!Give, given, AbstractRow, AbstractDecided, AbstractAuthority, AbstractUsedBy

(* A grant changes its state alone: so does the authority it stands for.    *)
LEMMA StateIsSet ==
    ASSUME Bookkeeping, NEW g \in Grants, grant[g].state = "active", NEW state,
           state \in {"revoked", "consumed"},
           grant' = [grant EXCEPT ![g].state = state], seen' = seen
    PROVE  /\ AbstractAuthority[g].state = "active"
           /\ AbstractAuthority' = [AbstractAuthority EXCEPT ![g].state = state]
<1>1. DOMAIN grant = Grants /\ grant[g] # NoGrantRow
    BY DEF Bookkeeping, NoGrantRow
<1>2. \A q \in Grants : q # g => grant'[q] = grant[q]
    BY <1>1
<1>3. /\ grant'[g].state = state /\ grant'[g].request = grant[g].request
      /\ grant'[g].until = grant[g].until
    BY <1>1
<1>4. grant'[g] # NoGrantRow
    BY <1>3 DEF NoGrantRow
<1>5. AuthorityOf(g)' = [AuthorityOf(g) EXCEPT !.state = state]
    <2> DEFINE view == [r \in DOMAIN seen[g] |-> <<RowOf(seen[g][r][1]),
                                                  DecidedOf(seen[g][r][1], seen[g][r][2])>>]
    <2>1. AuthorityOf(g) = [state |-> grant[g].state, op |-> grant[g].request.op,
                            until |-> grant[g].until, view |-> view]
        BY <1>1 DEF AuthorityOf
    <2>2. AuthorityOf(g)' = [state |-> state, op |-> grant[g].request.op,
                             until |-> grant[g].until, view |-> view]
        BY <1>3, <1>4 DEF AuthorityOf
    <2> HIDE DEF view
    <2>3. QED BY <2>1, <2>2
<1>6. \A q \in Grants : q # g => AuthorityOf(q)' = AuthorityOf(q)
    BY <1>2 DEF AuthorityOf
<1>7. AuthorityOf(g).state = "active"
    BY <1>1 DEF AuthorityOf
<1>8. QED BY <1>5, <1>6, <1>7 DEF AbstractAuthority

LEMMA RevokeWithdraws ==
    ASSUME Bookkeeping, NEW g \in Grants, Revoke(g)
    PROVE  Owner!Withdraw(g)
<1>1. /\ AbstractAuthority[g].state = "active"
      /\ AbstractAuthority' = [AbstractAuthority EXCEPT ![g].state = "revoked"]
    BY StateIsSet DEF Revoke
<1>2. UNCHANGED <<now, AbstractRow, AbstractDecided, AbstractUsedBy>>
    BY DEF Revoke, recordVars, AbstractRow, AbstractDecided, AbstractUsedBy
<1>3. QED
    BY <1>1, <1>2
       DEF Owner!Withdraw, AbstractRow, AbstractDecided, AbstractAuthority, AbstractUsedBy

(* What a request that binds covers is as its owner saw it.                 *)
LEMMA BindingIsSeen ==
    ASSUME TypeOK, SeenTells, NEW g \in Grants, grant[g] # NoGrantRow,
           NEW request, request = grant[g].request, IsBinding(request)
    PROVE  \A r \in BoundTo(request) : seen[g][r] = <<record[r], facts[r]>>
<1>1. ViewTells(request, seen[g]) /\ IsRequestRow(request)
    BY DEF SeenTells, TypeOK
<1>2. ASSUME NEW r \in BoundTo(request) PROVE VersionsOf(request)[r] = version[r]
    <2>1. CASE request.plan = Direct
        BY <1>1, <2>1 DEF IsBinding, VersionsOf, BoundTo, IsRequestRow
    <2>2. CASE request.plan # Direct
        <3>1. request.plan.versions = version
            BY <2>2 DEF IsBinding, IsPlanCurrent, PlanAt
        <3>2. QED BY <2>2, <3>1 DEF VersionsOf
    <2>3. QED BY <2>1, <2>2
<1>3. QED BY <1>1, <1>2 DEF ViewTells

(* A group is applied by using the authority it names.                      *)
LEMMA ApplyUses ==
    ASSUME TypeOK, Bookkeeping, SeenTells,
           NEW g \in Grants, NEW h \in Grants, NEW end \in Ends, Apply(g, h, end)
    PROVE  Owner!Use(g)
<1> DEFINE request == grant[g].request
           o == request.op
           new == [request |-> request, grant |-> g, at |-> now, generation |-> generation',
                   kinds |-> {a.kind : a \in request.group},
                   targets |-> AuditTargets(request.group)]
<1>1. /\ grant[g] # NoGrantRow /\ grant[h] # NoGrantRow /\ grant[h].request = request
      /\ grant[g].state = "active" /\ now < grant[g].until /\ IsBinding(request)
      /\ application[o] = NoApplication /\ seen' = seen
      /\ application' = [application EXCEPT ![o] = new]
      /\ grant' = [grant EXCEPT ![g].state = "consumed"]
    BY DEF Apply, IsLive, NoGrantRow
<1>2. o \in Ops /\ DOMAIN application = Ops /\ generation' # 0 /\ now' = now
    BY <1>1 DEF Apply, ApplyGroup, Rotate, AfterWrite, Bookkeeping, GenerationLeads, IsGrantRow
<1>3. /\ AbstractAuthority[g].state = "active"
      /\ AbstractAuthority' = [AbstractAuthority EXCEPT ![g].state = "consumed"]
    BY <1>1, StateIsSet
<1>4. AbstractAuthority[g].op = o /\ AbstractAuthority[g].until = grant[g].until
    BY <1>1, AuthorityIs DEF AbstractAuthority
<1>5. AbstractUsedBy[o] = NoGrant
    BY <1>1, <1>2 DEF AbstractUsedBy
<1>6. AbstractUsedBy' = [AbstractUsedBy EXCEPT ![o] = g]
    <2>1. new # NoApplication /\ new.grant = g
        <3>1. new.generation # NoApplication.generation
            BY <1>2 DEF NoApplication
        <3>2. QED BY <3>1
    <2> HIDE DEF new
    <2>2. application'[o] = new /\ \A p \in Ops : p # o => application'[p] = application[p]
        BY <1>1, <1>2
    <2> HIDE DEF o
    <2>3. QED BY <1>2, <2>1, <2>2 DEF AbstractUsedBy
<1>7. BoundTo(request) \subseteq Records /\ Needed(request.group) \subseteq BoundTo(request)
    BY <1>1, BoundVersions DEF TypeOK
<1>8. AbstractAuthority[g].view = [r \in BoundTo(request) |->
                         <<RowOf(record[r]), DecidedOf(record[r], facts[r])>>]
    <2>1. AbstractAuthority[g].view = [r \in DOMAIN seen[g] |->
            <<RowOf(seen[g][r][1]), DecidedOf(seen[g][r][1], seen[g][r][2])>>]
        BY <1>1 DEF AbstractAuthority, AuthorityOf
    <2>2. DOMAIN seen[g] = BoundTo(request)
        BY <1>1 DEF SeenTells, ViewTells
    <2>3. \A r \in BoundTo(request) : seen[g][r] = <<record[r], facts[r]>>
        BY <1>1, BindingIsSeen
    <2>4. \A r \in BoundTo(request) : seen[g][r][1] = record[r] /\ seen[g][r][2] = facts[r]
        BY <2>3
    <2>5. QED BY <2>1, <2>2, <2>4
<1>9. AbstractAuthority[g].view = Owner!View(DOMAIN AbstractAuthority[g].view)
    BY <1>7, <1>8 DEF Owner!View
<1>10. ASSUME NEW r \in Records \ BoundTo(request), AbstractDecided[r] # <<>>
       PROVE  AbstractRow'[r] = AbstractRow[r] /\ AbstractDecided'[r] = AbstractDecided[r]
    <2>1. Exists(r)
        BY <1>10 DEF AbstractDecided, DecidedOf, Exists
    <2>2. ASSUME NEW a \in request.group PROVE r \notin Touched(a)
        <3>1. /\ a \in Action /\ IsAction(a) /\ Permits(a, now)
              /\ \A q \in a.on : Exists(q)
            BY <1>1, BoundActions DEF Apply
        <3>2. a.on \subseteq Needed(request.group)
              /\ (a.kind # "correct" => Touched(a) \subseteq Needed(request.group))
            BY NeededOf
        <3>3. a.kind = "correct" => ~ Exists(a.to)
            BY <3>1, RetirementFinds DEF Retiring
        <3>4. QED BY <1>7, <1>10, <2>1, <3>2, <3>3 DEF Touched
    <2>3. record'[r] = record[r] /\ facts'[r] = facts[r]
        BY <1>1, <2>2, AppliedRow
    <2>4. QED BY <2>3 DEF AbstractRow, AbstractDecided
<1> HIDE DEF request, o, new
<1>11. QED
    BY <1>1, <1>2, <1>3, <1>4, <1>5, <1>6, <1>8, <1>9, <1>10
       DEF Owner!Use, AbstractRow, AbstractDecided, AbstractAuthority, AbstractUsedBy

(* A command of the other writers decides nothing about a record there is.  *)
LEMMA CommandIsWrite ==
    ASSUME TypeOK, NEW r \in Records, NEW end \in Ends, IsCommand(r, end)
    PROVE  Owner!Write
<1>1. PICK q \in Records, row \in Row :
        /\ Write(q, row, end)
        /\ \/ ~ Exists(q)
           \/ /\ Exists(q)
              /\ \/ row = [record[q] EXCEPT !.continued = now]
                 \/ row = [record[q] EXCEPT !.closed = now]
    BY CommandWrites DEF IsCheckpoint
<1>2. /\ record' = [record EXCEPT ![q] = row] /\ UNCHANGED <<facts, grantVars>> /\ now' = now
      /\ DOMAIN record = Records
    BY <1>1 DEF Write, AfterWrite, TypeOK
<1>3. ASSUME NEW p \in Records, Exists(p)
      PROVE  DecidedOf(record'[p], facts'[p]) = DecidedOf(record[p], facts[p])
    <2>1. CASE p # q
        BY <1>2, <2>1
    <2>2. CASE p = q
        <3>1. record[q] \in Row /\ record'[q] = row /\ row # NoRow
            BY <1>2, <1>3, <2>2, NoRowIsNoRow DEF TypeOK, Exists
        <3>2. /\ row.status = record[q].status /\ row.claim = record[q].claim
              /\ row.pred = record[q].pred /\ row.lineage = record[q].lineage
            BY <1>1, <1>3, <2>2, <3>1 DEF Row
        <3>3. QED BY <1>2, <1>3, <2>2, <3>1, <3>2 DEF DecidedOf, Exists
    <2>3. QED BY <2>1, <2>2
<1>4. ASSUME NEW p \in Records, AbstractDecided[p] # <<>>
      PROVE  AbstractDecided'[p] = AbstractDecided[p]
    <2>1. Exists(p)
        BY <1>4 DEF AbstractDecided, DecidedOf, Exists
    <2>2. QED BY <1>3, <2>1 DEF AbstractDecided
<1>5. UNCHANGED <<now, AbstractAuthority, AbstractUsedBy>>
    BY <1>2 DEF grantVars, AbstractAuthority, AbstractUsedBy, AuthorityOf
<1>6. QED
    BY <1>4, <1>5
       DEF Owner!Write, AbstractDecided, AbstractAuthority, AbstractUsedBy

LEMMA TickTicks ==
    ASSUME TypeOK, Tick
    PROVE  Owner!Tick
<1>1. now' > now
    BY TimesAreNat DEF Tick, TypeOK
<1>2. UNCHANGED <<AbstractRow, AbstractDecided, AbstractAuthority, AbstractUsedBy>>
    BY DEF Tick, recordVars, grantVars, AbstractRow, AbstractDecided, AbstractAuthority,
       AbstractUsedBy, AuthorityOf
<1>3. QED
    BY <1>1, <1>2
       DEF Owner!Tick, AbstractRow, AbstractDecided, AbstractAuthority, AbstractUsedBy

LEMMA StepsRefine ==
    ASSUME TypeOK, Bookkeeping, SeenTells, [Next]_vars
    PROVE  [Owner!Next]_(Owner!vars)
<1>1. ASSUME NEW g \in Grants, NEW o \in Ops, NEW group \in Groups,
             NEW at \in (0..now) \cup {Never}, NEW lifetime \in Lifetimes, NEW until \in Times,
             Authorize(g, o, group, at, lifetime, until)
      PROVE  Owner!Next
    BY <1>1, AuthorizeGives DEF Owner!Next
<1>2. ASSUME NEW g \in Grants, Revoke(g)
      PROVE  Owner!Next
    BY <1>2, RevokeWithdraws DEF Owner!Next
<1>3. ASSUME NEW g \in Grants, NEW h \in Grants, NEW end \in Ends, Apply(g, h, end)
      PROVE  Owner!Next
    BY <1>3, ApplyUses DEF Owner!Next
<1>4. ASSUME NEW g \in Grants, NEW h \in Grants, NEW end \in Ends, Replay(g, h, end)
      PROVE  UNCHANGED Owner!vars
    BY <1>4, Unseen DEF Replay, RefreshMirror, recordVars, grantVars
<1>5. ASSUME NEW g \in Grants,
             \/ \E o \in Ops, group \in Groups, at \in (0..now) \cup {Never},
                   lifetime \in Lifetimes, until \in Times :
                   Authorize(g, o, group, at, lifetime, until)
             \/ Revoke(g)
             \/ \E h \in Grants, end \in Ends : Apply(g, h, end) \/ Replay(g, h, end)
      PROVE  Owner!Next \/ UNCHANGED Owner!vars
    BY <1>1, <1>2, <1>3, <1>4, <1>5
<1>6. ASSUME NEW r \in Records, NEW end \in Ends, IsCommand(r, end)
      PROVE  Owner!Next
    BY <1>6, CommandIsWrite DEF Owner!Next
<1>7. ASSUME NEW end \in Ends, Refresh(end) \/ Enable(end) \/ Disable(end) \/ ReconcileNow(end)
      PROVE  UNCHANGED Owner!vars
    BY <1>7, Unseen DEF Refresh, RefreshMirror, Enable, Disable, ReconcileNow, recordVars,
       grantVars
<1>8. ASSUME Tick PROVE Owner!Next
    BY <1>8, TickTicks DEF Owner!Next
<1>9. ASSUME UNCHANGED vars PROVE UNCHANGED Owner!vars
    BY <1>9, Unseen DEF vars, recordVars, grantVars
<1>10. QED BY <1>5, <1>6, <1>7, <1>8, <1>9 DEF Next, IsCommand

(* What is decided about a record changes only by using, once and in time,  *)
(* an authority over records that are still as its owner saw them: the      *)
(* private lifecycle implements the abstract specification of owner         *)
(* authority (authorize_private_lifecycle, apply_private_lifecycle and      *)
(* every other writer of private records).                                  *)
THEOREM OwnerAlwaysDecides == Spec => OwnerDecides
<1>1. Init => SeenTells
    BY DEF Init, SeenTells
<1>2. TypeOK /\ Bookkeeping /\ SeenTells /\ [Next]_vars => SeenTells'
    BY SeenKeep
<1>3. Init => Owner!Init
    BY LifecycleBounds DEF Init, Owner!Init, Owner!NoAuthority, AuthorityOf, NoGrantRow,
       NoApplication, Times
<1>4. TypeOK /\ Bookkeeping /\ SeenTells /\ [Next]_vars => [Owner!Next]_(Owner!vars)
    BY StepsRefine
<1>5. QED
    BY <1>1, <1>2, <1>3, <1>4, PrivateTypeCorrect, BookkeepingHolds, PTL
       DEF Spec, OwnerDecides, Owner!Spec
===============================================================================
