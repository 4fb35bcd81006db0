---------------------------- MODULE PrivateLifecycle ----------------------------
(***************************************************************************)
(* Private records under their owner's authority: the owner authorizes a   *)
(* group of lifecycle actions on exact record versions, the group is       *)
(* applied at most once, and a retry of it replays the recorded result     *)
(* (service/private_lifecycle.rs).  Beside it, private maintenance: while  *)
(* the owner's maintenance grant is active a projection of the unresolved  *)
(* contradictions suppresses the records of both sides                     *)
(* (service/private_maintenance.rs).  Triggers rotate the version of every *)
(* record a write touches, advance the lifecycle generation and mark the   *)
(* projection dirty (schema.rs).                                           *)
(*                                                                         *)
(* Every writer holds the repository lifecycle lock and one immediate      *)
(* transaction of shared.db, so a call is one step; after its commit it    *)
(* refreshes the mirror in index.db, and may stop before that.             *)
(***************************************************************************)
EXTENDS Retention, FiniteSets

CONSTANTS
    Records, Claims, Origins,  \* record ids; what a record says; who captured it
    Opposite,                  \* pairs of claims of one signature and two polarities
    Present,                   \* rows that are there at the start
    Arriving,                  \* rows a capture may add
    Ops, Grants, NoOp, NoGrant, NoRecord,
    Groups,                    \* the action groups owners ask for
    GrantWindow, PlanWindow,   \* 24 hours each
    Lifetimes,                 \* how long an authority its owner asks for
    MaxTime, MaxEnables, MaxWrites  \* bounds

VARIABLES
    now,
    record, facts, version,  \* memory_record and private_lifecycle_state
    updated,                 \* memory_record.updated_at
    generation,              \* private_lifecycle_generation
    relation,                \* private_lifecycle_relation
    grant,                   \* owner_action_grant
    application,             \* private_lifecycle_application, with its event
    maintenance,             \* private_maintenance_grant
    projection,              \* private_maintenance_projection, conflict sets
    mirror,                  \* the copy of all this that index.db recalls from
    acked,                   \* history: operations reported as applied
    seen,                    \* history: the records as a grant's owner saw them
    writes                   \* what MaxWrites counts

recordVars == <<record, facts, version, updated, generation, relation>>
grantVars  == <<grant, application, seen>>
vars == <<now, recordVars, grantVars, maintenance, projection, mirror, acked, writes>>

Times == 0..(MaxTime + GrantWindow)
Instants == Times \cup {Never}

Kinds == {"extend_automatic_recall", "extend_validity", "retain_until", "pin",
          "unpin", "renew_from_evidence", "correct", "supersede", "consolidate",
          "resolve_contradiction", "quarantine", "release_quarantine"}
Retiring == {"renew_from_evidence", "correct", "supersede", "consolidate",
             "resolve_contradiction"}

(* on: the records acted on, or the members that give way.  to: the         *)
(* successor, keeper or winner, or the id a correction will create (a fresh *)
(* uuid in the code).                                                       *)
Action == [kind : Kinds, on : SUBSET Records, to : Records \cup {NoRecord},
           until : Times, claim : Claims, evidence : SUBSET Records]

Row == [status : {"active", "superseded"}, lane : Lanes, claim : Claims,
        occurred : Times, continued : Times, closed : Instants, expires : Instants,
        reviewed : Times, origin : Origins \cup Ops,
        pred : Records \cup {NoRecord}, lineage : BOOLEAN]
NoRow == [status |-> "none"]

FactKinds == {"recall", "validity", "retention", "quarantine"}
Facts == [recall : Times, validity : Times, retain : Times, pinned : BOOLEAN,
          quarantined : BOOLEAN, by : [FactKinds -> Ops \cup {NoOp}]]
NoFacts == [recall |-> Unset, validity |-> Unset, retain |-> Unset, pinned |-> FALSE,
            quarantined |-> FALSE, by |-> [k \in FactKinds |-> NoOp]]

ASSUME CastAssumption ==
    /\ DOMAIN Present \subseteq Records /\ DOMAIN Arriving \subseteq Records
    /\ DOMAIN Present \cap DOMAIN Arriving = {}
    /\ \A r \in DOMAIN Present : Present[r] \in Row /\ Present[r].status = "active"
    /\ \A r \in DOMAIN Arriving : Arriving[r] \in Row /\ Arriving[r].status = "active"
    /\ \A r \in DOMAIN Present :
         /\ Present[r].pred = NoRecord /\ ~ Present[r].lineage
         /\ Present[r].reviewed = 0  \* a review is stamped when it is made
    /\ \A r \in DOMAIN Arriving : Arriving[r].pred = NoRecord /\ ~ Arriving[r].lineage
ASSUME NamesAssumption ==
    NoRecord \notin Records /\ NoOp \notin Ops /\ NoGrant \notin Grants
ASSUME LifecycleBounds ==
    /\ {GrantWindow, PlanWindow, MaxTime, MaxEnables, MaxWrites} \subseteq Nat
    /\ Lifetimes \subseteq Nat
    /\ GrantWindow > 0 /\ PlanWindow > 0 /\ MaxTime + GrantWindow < Never
ASSUME OppositeAssumption ==
    \A p \in Opposite :
        p \in Claims \X Claims /\ p[1] # p[2] /\ <<p[2], p[1]>> \in Opposite
ASSUME GroupAssumption == Groups \subseteq SUBSET Action

-------------------------------------------------------------------------------
(* Requests                                                                 *)

IsSelection(a) == a.kind \in {"consolidate", "resolve_contradiction"}
Touched(a) == a.on \cup (IF a.to = NoRecord THEN {} ELSE {a.to})
Targets(a) == IF a.kind = "correct" THEN a.on ELSE Touched(a)
Expected(a) == Targets(a) \cup a.evidence

IsAction(a) ==
    /\ IF IsSelection(a) THEN a.on # {} ELSE \E r \in Records : a.on = {r}
    /\ a.kind \in Retiring <=> a.to # NoRecord
    /\ a.to \notin a.on
    /\ a.kind = "correct" <=> a.evidence # {}
    /\ a.on \cap a.evidence = {}

(* No record is the target of two actions, or of one and evidence for any.  *)
IsRequest(group) ==
    /\ group # {}
    /\ \A a \in group : IsAction(a)
    /\ \A a, b \in group :
         /\ a # b => Touched(a) \cap Touched(b) = {}
         /\ Touched(a) \cap b.evidence = {}

Needed(group) == UNION {Expected(a) : a \in group}

-------------------------------------------------------------------------------
(* What a record is at an instant, and what the detectors find              *)

Exists(r) == record[r] # NoRow
IsRetained(r, t) == Exists(r) /\ Retained(record[r], facts[r], t)
IsCurrent(r, t) == Exists(r) /\ BaseCurrent(record[r], facts[r], t)
IsActive(r) == record[r].status = "active"

SameRetention(x, y) ==
    /\ x.occurred = y.occurred /\ x.continued = y.continued
    /\ x.closed = y.closed /\ x.expires = y.expires
IsDuplicate(r, s) ==
    /\ record[r].lane = record[s].lane
    /\ record[r].claim = record[s].claim
    /\ SameRetention(record[r], record[s])
DuplicatesOf(rs, r, t) == {s \in rs : IsCurrent(s, t) /\ IsDuplicate(r, s)}

(* The contradictions among the records rs.                                 *)
Claimants(rs, t) == {r \in rs : IsCurrent(r, t) /\ record[r].lane = "durable"}
AreOpposed(rows, r, s) ==
    /\ <<rows[r].claim, rows[s].claim>> \in Opposite
    /\ rows[r].pred # s /\ rows[s].pred # r
Neighbours(rs, r, t) == {s \in Claimants(rs, t) : AreOpposed(record, r, s)}
Edges(rs, t) ==
    {{p[1], p[2]} : p \in {q \in Claimants(rs, t) \X Claimants(rs, t) :
                             AreOpposed(record, q[1], q[2])}}

(* The records of one connected component of the contradictions.            *)
IsClosedUnderOpposition(part, rs, t) == \A r \in part : Neighbours(rs, r, t) \subseteq part
IsIncompatibleSet(part, rs, t) ==
    /\ part \subseteq Claimants(rs, t)
    /\ \E r \in part : Neighbours(rs, r, t) # {}
    /\ IsClosedUnderOpposition(part, rs, t)
    /\ \A less \in (SUBSET part) \ {{}, part} : ~ IsClosedUnderOpposition(less, rs, t)

RenewsWhatEnded(s, r, t) ==
    /\ Exists(r) /\ IsCurrent(s, t)
    /\ record[r].lane = "durable" /\ record[s].lane = "durable"
    /\ record[r].claim = record[s].claim
    /\ record[r].origin # record[s].origin
    /\ ~ IsRetained(r, t)
    /\ Validity(record[r], facts[r]) < record[s].reviewed
    /\ record[s].reviewed <= t
(* A record that says again, later and from elsewhere, what r said.         *)
Renews(s, r, t) ==
    /\ Exists(r) /\ IsCurrent(s, t)
    /\ record[r].lane = "durable" /\ record[s].lane = "durable"
    /\ record[r].claim = record[s].claim
    /\ record[r].origin # record[s].origin
    /\ IsActive(r) /\ ~ IsRetained(r, t)
    /\ Validity(record[r], facts[r]) < record[s].reviewed
    /\ record[s].reviewed <= t
IsUnbound(r) == record[r].pred = NoRecord /\ ~ record[r].lineage

-------------------------------------------------------------------------------
(* The conditions on each action (validate_action_semantics)                *)

PermitsExtension(a, r, t) ==
    CASE a.kind = "extend_automatic_recall" ->
           /\ record[r].lane = "episodic" /\ IsActive(r)
           /\ a.until > RecallBoundary(record[r], facts[r]) /\ a.until > t
           /\ a.until <= record[r].occurred + MaximumWindow
      [] a.kind = "extend_validity" ->
           /\ record[r].lane # "session" /\ IsActive(r)
           /\ record[r].expires # Never
           /\ a.until > Validity(record[r], facts[r]) /\ a.until > t
      [] a.kind = "retain_until" -> a.until > t /\ a.until > facts[r].retain
      [] a.kind = "pin" -> record[r].lane # "session" /\ ~ facts[r].pinned
      [] a.kind = "unpin" -> facts[r].pinned
      [] a.kind = "quarantine" -> ~ facts[r].quarantined
      [] a.kind = "release_quarantine" -> facts[r].quarantined
      [] OTHER -> FALSE

PermitsRetirement(a, r, t) ==
    CASE a.kind = "renew_from_evidence" -> Renews(a.to, r, t) /\ IsUnbound(a.to)
      [] a.kind = "correct" ->
           /\ IsActive(r) /\ ~ Exists(a.to)
           /\ \A s \in a.evidence : IsCurrent(s, t)
      [] a.kind = "supersede" ->
           /\ IsActive(r) /\ IsActive(a.to) /\ IsUnbound(a.to)
           /\ record[r].lane = record[a.to].lane
      [] a.kind = "consolidate" -> Touched(a) = DuplicatesOf(Records, r, t)
      [] a.kind = "resolve_contradiction" -> IsIncompatibleSet(Touched(a), Records, t)
      [] OTHER -> FALSE

Permits(a, t) ==
    \A r \in a.on : PermitsExtension(a, r, t) \/ PermitsRetirement(a, r, t)

-------------------------------------------------------------------------------
(* Authority                                                                *)

NoApplication == [generation |-> 0]
NoGrantRow == [state |-> "none"]
Direct == [at |-> Never]    \* a request that names no maintenance plan
IsEarliest(t, horizon) == t \in horizon /\ \A b \in horizon : t <= b
Before(t, horizon) == \A b \in horizon : t < b

(* A plan may be evaluated as of an earlier instant: it finds nothing in,   *)
(* and takes no boundary from, the records updated after it.                *)
Covered(t) == {r \in Records : Exists(r) /\ updated[r] <= t}

(* Faulty variant: a plan binds for the whole of its window.                *)
HorizonOfWindow(t) == {t + PlanWindow}
Horizon(t) == {t + PlanWindow} \cup
    UNION {Boundaries(record[r], facts[r]) : r \in {s \in Covered(t) : IsRetained(s, t)}}

(* What the detectors, looking at the records rs, propose to the owner.     *)
Proposes(rs, t, a) ==
    \E r \in a.on :
      CASE a.kind = "renew_from_evidence" -> {r, a.to} \subseteq rs /\ Renews(a.to, r, t)
        [] a.kind = "consolidate" -> Touched(a) = DuplicatesOf(rs, r, t)
        [] a.kind = "resolve_contradiction" -> IsIncompatibleSet(Touched(a), rs, t)
        [] OTHER -> FALSE
Proposals(rs, t) == {a \in UNION Groups : IsAction(a) /\ Proposes(rs, t, a)}

(* A plan's identity covers every record's version and temporal facts, the  *)
(* maintenance grant, the instant it is evaluated at and what it proposes;  *)
(* its not_after is the earliest instant of the horizon.                    *)
PlanAt(t) == [at |-> t, versions |-> version, horizon |-> Horizon(t),
              proposals |-> Proposals(Covered(t), t),
              fingerprint |-> IF maintenance.active THEN maintenance.fingerprint ELSE 0]

(* An event is found by the operation whose application wrote it.           *)
Backs(o, r, kinds) ==
    /\ o \in Ops /\ application[o] # NoApplication
    /\ r \in application[o].targets
    /\ application[o].kinds \cap kinds # {}

IsVerified(r) ==
    LET f == facts[r] IN
    /\ f.recall # Unset <=> f.by["recall"] # NoOp
    /\ f.validity # Unset <=> f.by["validity"] # NoOp
    /\ f.by["retention"] = NoOp => f.retain = Unset /\ ~ f.pinned
    /\ f.by["quarantine"] = NoOp => ~ f.quarantined
    /\ \A k \in FactKinds : f.by[k] # NoOp =>
         Backs(f.by[k], r, {"correct"} \cup
           CASE k = "recall" -> {"extend_automatic_recall"}
             [] k = "validity" -> {"extend_validity"}
             [] k = "retention" -> {"retain_until", "pin", "unpin"}
             [] k = "quarantine" ->
                  IF f.quarantined THEN {"quarantine"} ELSE {"release_quarantine"})

IsPlanCurrent(plan, group) ==
    \/ plan = Direct
    \/ /\ plan.at <= now /\ Before(now, plan.horizon)
       /\ group \subseteq plan.proposals
       /\ PlanAt(plan.at) = plan

IsBindingByName(request) ==
    /\ IsPlanCurrent(request.plan, request.group)
    /\ \A r \in DOMAIN request.versions : Exists(r) /\ IsVerified(r)
    /\ \A a \in request.group : Permits(a, now)
(* The binding a grant stores, built again when it is used.                 *)
IsBinding(request) ==
    /\ IsPlanCurrent(request.plan, request.group)
    /\ \A r \in DOMAIN request.versions :
         Exists(r) /\ IsVerified(r) /\ version[r] = request.versions[r]
    /\ \A a \in request.group : Permits(a, now)

BoundTo(request) ==
    IF request.plan = Direct THEN Needed(request.group) ELSE Records
View(rs) == [r \in rs |-> <<record[r], facts[r]>>]

IsLive(g) == grant[g].state = "active" /\ now < grant[g].until

LimitsAsRequested(lifetime, plan) ==
    {now + lifetime} \cup (IF plan = Direct THEN {} ELSE plan.horizon)
Limits(lifetime, plan) ==
    {now + GrantWindow, now + lifetime} \cup (IF plan = Direct THEN {} ELSE plan.horizon)

(* The instant the caller's plan is evaluated at; Never: no plan is named.  *)
PlanOf(at) == IF at = Never THEN Direct ELSE PlanAt(at)

(* Re-authorizing an applied operation, or a request that a live grant      *)
(* already covers, returns what is there or an error, and writes nothing.   *)
Authorize(g, o, group, at, lifetime, until) ==
    LET request == [op |-> o, group |-> group,
                    versions |-> [r \in Needed(group) |-> version[r]],
                    plan |-> PlanOf(at)]
    IN
    /\ grant[g].state = "none"
    /\ \A h \in Grants : h < g => grant[h].state # "none"
    /\ application[o] = NoApplication
    /\ now < until
    /\ IsEarliest(until, Limits(lifetime, request.plan))
    /\ IsRequest(group)
    /\ IsBinding(request)
    /\ \A h \in Grants : grant[h].state = "active" /\ grant[h].request = request
                           => ~ IsLive(h)
    /\ grant' = [grant EXCEPT ![g] =
         [state |-> "active", request |-> request, from |-> now, until |-> until]]
    /\ seen' = [seen EXCEPT ![g] = View(BoundTo(request))]
    /\ UNCHANGED <<now, recordVars, application, maintenance, projection, mirror, acked,
                   writes>>

Revoke(g) ==
    /\ grant[g].state = "active"
    /\ grant' = [grant EXCEPT ![g].state = "revoked"]
    /\ UNCHANGED <<now, recordVars, application, seen, maintenance, projection, mirror,
                   acked, writes>>

-------------------------------------------------------------------------------
(* What follows a write: triggers, reconciliation and the mirror            *)

(* The schema rotates the versions and, while a maintenance grant is        *)
(* active, marks the projection dirty.                                      *)
Rotate(rs) ==
    /\ version' = [r \in Records |-> IF r \in rs THEN version[r] + 1 ELSE version[r]]
    /\ generation' = generation + 1

Marked(state, gen) ==
    [projection EXCEPT !.state = state, !.generation = gen,
                       !.fingerprint = maintenance.fingerprint]

Reconciled == [state |-> "current", fingerprint |-> maintenance.fingerprint,
               generation |-> generation, horizon |-> Horizon(now),
               edges |-> Edges(Covered(now), now),
               members |-> [r \in UNION Edges(Covered(now), now) |-> version[r]]]
IsDirty ==
    /\ maintenance.active
    /\ projection.state = "dirty"
NeedsReconciliation ==
    /\ maintenance.active
    /\ \/ projection.state = "dirty"
       \/ /\ projection.state = "current"
          /\ \/ projection.fingerprint # maintenance.fingerprint
             \/ ~ Before(now, projection.horizon)

(* The rows of shared.db that index.db copies in one transaction.           *)
Shared == [record |-> record, facts |-> facts, version |-> version,
           generation |-> generation, projection |-> projection]

(* A writer refreshes the mirror after its commit: it reconciles what it    *)
(* made dirty, then copies.  It may stop, or find the index unavailable,    *)
(* before either.  A reconciliation that fails blocks the projection, which *)
(* keeps its conflict sets and waits for the generation to move.            *)
Ends == {"stopped", "reconciled", "blocked", "refreshed"}
IsMirrored(end) == end \in {"blocked", "refreshed"}

Reconcile(end) ==
    projection' = IF end = "blocked" THEN Marked("blocked", generation') ELSE Reconciled'
CopyToMirror(end) == mirror' = IF IsMirrored(end) THEN Shared' ELSE mirror

AfterWrite(end) ==
    /\ UNCHANGED <<now, maintenance>>
    /\ IF ~ maintenance.active
       THEN end \in {"stopped", "refreshed"} /\ projection' = projection
       ELSE IF end = "stopped" THEN projection' = Marked("dirty", generation')
       ELSE Reconcile(end)
    /\ CopyToMirror(end)

-------------------------------------------------------------------------------
(* Applying a group                                                         *)

(* No two actions touch one record, so their order does not matter.         *)
ActionOn(group, r) == CHOOSE a \in group : r \in Touched(a)
IsTouched(group, r) == \E a \in group : r \in Touched(a)
TheOne(a) == CHOOSE r \in Records : a.on = {r}

Correction(a, o) ==
    [record[TheOne(a)] EXCEPT !.claim = a.claim, !.pred = TheOne(a), !.lineage = FALSE,
                              !.reviewed = Unset, !.origin = o, !.status = "active"]
RowAfter(a, r, o) ==
    IF r \in a.on
    THEN [record[r] EXCEPT !.status = IF a.kind \in Retiring THEN "superseded" ELSE @]
    ELSE CASE a.kind = "correct" -> Correction(a, o)
           [] a.kind = "renew_from_evidence" ->
                [record[r] EXCEPT !.pred = TheOne(a), !.lineage = TRUE]
           [] a.kind = "supersede" -> [record[r] EXCEPT !.pred = TheOne(a)]
           [] OTHER -> record[r]

InheritNothing(f, o) == NoFacts
(* A correction inherits the facts of its predecessor, each now backed by   *)
(* the correction's own event.                                              *)
Inherited(f, o) ==
    [f EXCEPT !.by = [k \in FactKinds |-> IF f.by[k] = NoOp THEN NoOp ELSE o]]
FactsAfter(a, r, o) ==
    IF a.kind = "correct" /\ r = a.to THEN Inherited(facts[TheOne(a)], o)
    ELSE CASE a.kind = "extend_automatic_recall" ->
                [facts[r] EXCEPT !.recall = a.until, !.by["recall"] = o]
           [] a.kind = "extend_validity" ->
                [facts[r] EXCEPT !.validity = a.until, !.by["validity"] = o]
           [] a.kind = "retain_until" ->
                [facts[r] EXCEPT !.retain = a.until, !.by["retention"] = o]
           [] a.kind \in {"pin", "unpin"} ->
                [facts[r] EXCEPT !.pinned = (a.kind = "pin"), !.by["retention"] = o]
           [] a.kind \in {"quarantine", "release_quarantine"} ->
                [facts[r] EXCEPT !.quarantined = (a.kind = "quarantine"),
                                 !.by["quarantine"] = o]
           [] OTHER -> facts[r]

(* Who gets a new updated_at: what is retired, and the successors that      *)
(* are given a predecessor; not a keeper or winner, nor for facts.          *)
IsRestamped(group, r) ==
    \E a \in group : \/ a.kind \in Retiring /\ r \in a.on
                     \/ a.kind \in {"renew_from_evidence", "correct", "supersede"} /\ r = a.to

ApplyGroup(group, o) ==
    /\ record' = [r \in Records |-> IF IsTouched(group, r)
                                    THEN RowAfter(ActionOn(group, r), r, o) ELSE record[r]]
    /\ facts' = [r \in Records |-> IF IsTouched(group, r)
                                   THEN FactsAfter(ActionOn(group, r), r, o) ELSE facts[r]]
    /\ relation' = relation \cup
         UNION {{[kind |-> a.kind, subject |-> r, related |-> a.to, op |-> o] : r \in a.on} :
                a \in {b \in group : b.kind \in Retiring}}
    /\ updated' = [r \in Records |-> IF IsRestamped(group, r) THEN now ELSE updated[r]]
    /\ Rotate({r \in Records : IsTouched(group, r)})

AuditSubjects(group) == UNION {a.on : a \in group}
(* The event names the records acted on, and not the evidence of a renewal. *)
AuditTargets(group) ==
    UNION {IF a.kind = "renew_from_evidence" THEN a.on ELSE Touched(a) : a \in group}

(* The caller submits the request of grant h with the id of grant g.        *)
Apply(g, h, end) ==
    LET request == grant[h].request
        o == request.op
    IN
    /\ grant[g].state # "none" /\ grant[h].state # "none"
    /\ application[o] = NoApplication
    /\ IsLive(g)
    /\ grant[g].request = request
    /\ IsBinding(request)
    /\ ApplyGroup(request.group, o)
    /\ application' = [application EXCEPT ![o] =
         [request |-> request, grant |-> g, at |-> now, generation |-> generation',
          kinds |-> {a.kind : a \in request.group}, targets |-> AuditTargets(request.group)]]
    /\ grant' = [grant EXCEPT ![g].state = "consumed"]
    /\ AfterWrite(end)
    /\ acked' = IF IsMirrored(end) THEN acked \cup {o} ELSE acked
    /\ UNCHANGED <<seen, writes>>

-------------------------------------------------------------------------------
(* Every refresh of the mirror: on opening a service, before a read, after  *)
(* a write and when an applied operation is submitted again.                *)
RefreshMirror(end) ==
    /\ UNCHANGED <<now, recordVars, maintenance>>
    /\ IF NeedsReconciliation
       THEN end \in {"reconciled", "blocked", "refreshed"} /\ Reconcile(end)
       ELSE end = "refreshed" /\ projection' = projection
    /\ CopyToMirror(end)

Refresh(end) ==
    /\ RefreshMirror(end)
    /\ UNCHANGED <<grantVars, acked, writes>>

ReplayResult(g, h, end) ==
    LET o == grant[h].request.op IN
    /\ grant[g].state # "none" /\ grant[h].state # "none"
    /\ application[o] # NoApplication
    /\ application[o].request = grant[h].request
    /\ application[o].grant = g
    /\ end = "refreshed"
    /\ acked' = acked \cup {o}
    /\ UNCHANGED <<now, recordVars, grantVars, maintenance, projection, mirror, writes>>
Replay(g, h, end) ==
    LET o == grant[h].request.op IN
    /\ grant[g].state # "none" /\ grant[h].state # "none"
    /\ application[o] # NoApplication
    /\ application[o].request = grant[h].request
    /\ application[o].grant = g
    /\ RefreshMirror(end)
    /\ acked' = IF IsMirrored(end) THEN acked \cup {o} ELSE acked
    /\ UNCHANGED <<grantVars, writes>>

-------------------------------------------------------------------------------
(* Other writers of private records.  The commands on checkpoints name the  *)
(* version they expect, and a retry of one is answered with its outcome: it *)
(* only refreshes the mirror.                                               *)

Counted == writes < MaxWrites /\ writes' = writes + 1
Write(r, row, end) ==
    /\ record' = [record EXCEPT ![r] = row]
    /\ updated' = [updated EXCEPT ![r] = now]
    /\ Rotate({r})
    /\ UNCHANGED <<facts, relation, grantVars, acked>>
    /\ AfterWrite(end)

(* An accepted capture: reviewed now, and a checkpoint started now.         *)
Capture(r, end) ==
    /\ r \in DOMAIN Arriving /\ ~ Exists(r)
    /\ Counted
    /\ LET row == Arriving[r]
           at == IF row.lane = "durable" THEN Unset ELSE now
       IN Write(r, [row EXCEPT !.reviewed = now, !.occurred = at, !.continued = at], end)

IsCheckpoint(r) == Exists(r) /\ record[r].lane = "session"

(* Faulty variant: what is not closed may be continued, lapsed or not.      *)
ContinueOpenCheckpoint(r, end) ==
    /\ IsCheckpoint(r) /\ record[r].closed = Never
    /\ IsActive(r) /\ now > record[r].continued
    /\ Counted
    /\ Write(r, [record[r] EXCEPT !.continued = now], end)
ContinueCheckpoint(r, end) ==
    /\ IsCheckpoint(r) /\ record[r].closed = Never
    /\ Counted
    /\ IsCurrent(r, now) /\ now > record[r].continued
    /\ Write(r, [record[r] EXCEPT !.continued = now], end)

CloseCheckpoint(r, end) ==
    /\ IsCheckpoint(r) /\ record[r].closed = Never
    /\ IsActive(r) /\ ~ facts[r].quarantined
    /\ Counted
    /\ Write(r, [record[r] EXCEPT !.closed = now], end)

(* A new checkpoint that goes on from one that is closed or has lapsed.     *)
SucceedCheckpoint(r, s, end) ==
    /\ IsCheckpoint(r) /\ IsActive(r) /\ ~ facts[r].quarantined
    /\ ~ IsRetained(r, now)
    /\ s \in DOMAIN Arriving /\ ~ Exists(s) /\ Arriving[s].lane = "session"
    /\ UNCHANGED writes
    /\ Write(s, [Arriving[s] EXCEPT !.occurred = now, !.continued = now,
                                   !.pred = r, !.lineage = TRUE], end)

-------------------------------------------------------------------------------
(* Private maintenance                                                      *)

(* A reconciliation that fails takes the new authority back with it.        *)
Enable(end) ==
    /\ ~ maintenance.active => maintenance.fingerprint < MaxEnables
    /\ UNCHANGED <<now, recordVars, grantVars, acked, writes>>
    /\ maintenance' = IF maintenance.active THEN maintenance
         ELSE [active |-> TRUE, fingerprint |-> maintenance.fingerprint + 1]
    /\ projection' = Reconciled'
    /\ end \in {"reconciled", "refreshed"} /\ CopyToMirror(end)

(* The generation that the disabled row records is never read.              *)
DisabledProjection ==
    [state |-> "disabled", fingerprint |-> 0, generation |-> 0,
     horizon |-> {}, edges |-> {}, members |-> [r \in {} |-> 0]]

DisableGrantOnly(end) ==
    /\ maintenance' = [maintenance EXCEPT !.active = FALSE]
    /\ projection' = projection
    /\ UNCHANGED <<now, recordVars, grantVars, acked, writes>>
    /\ end \in {"stopped", "refreshed"} /\ CopyToMirror(end)
Disable(end) ==
    /\ maintenance' = [maintenance EXCEPT !.active = FALSE]
    /\ projection' = DisabledProjection
    /\ UNCHANGED <<now, recordVars, grantVars, acked, writes>>
    /\ end \in {"stopped", "refreshed"} /\ CopyToMirror(end)

(* Asked for by the owner, whether it is needed or not.                     *)
ReconcileNow(end) ==
    /\ maintenance.active
    /\ UNCHANGED <<now, recordVars, grantVars, maintenance, acked, writes>>
    /\ end # "stopped" /\ Reconcile(end) /\ CopyToMirror(end)

Tick ==
    /\ now < MaxTime /\ now' = now + 1
    /\ UNCHANGED <<recordVars, grantVars, maintenance, projection, mirror, acked, writes>>

-------------------------------------------------------------------------------
Init ==
    /\ now = 0
    /\ record = [r \in Records |-> IF r \in DOMAIN Present THEN Present[r] ELSE NoRow]
    /\ facts = [r \in Records |-> NoFacts]
    /\ version = [r \in Records |-> IF r \in DOMAIN Present THEN 1 ELSE 0]
    /\ updated = [r \in Records |-> 0]
    /\ generation = 0
    /\ relation = {}
    /\ grant = [g \in Grants |-> NoGrantRow]
    /\ application = [o \in Ops |-> NoApplication]
    /\ seen = [g \in Grants |-> View({})]
    /\ maintenance = [active |-> FALSE, fingerprint |-> 0]
    /\ projection = DisabledProjection
    /\ mirror = Shared
    /\ acked = {}
    /\ writes = 0

Next ==
    \/ \E g \in Grants :
         \/ \E o \in Ops, group \in Groups, at \in (0..now) \cup {Never},
               lifetime \in Lifetimes, until \in Times :
               Authorize(g, o, group, at, lifetime, until)
         \/ Revoke(g)
         \/ \E h \in Grants, end \in Ends : Apply(g, h, end) \/ Replay(g, h, end)
    \/ \E r \in Records, end \in Ends :
         \/ Capture(r, end)
         \/ ContinueCheckpoint(r, end)
         \/ CloseCheckpoint(r, end)
         \/ \E s \in Records : SucceedCheckpoint(r, s, end)
    \/ \E end \in Ends :
         \/ Refresh(end)
         \/ Enable(end)
         \/ Disable(end)
         \/ ReconcileNow(end)
    \/ Tick

Spec == Init /\ [][Next]_vars

(* Somebody goes on opening the service or reading, and one such refresh    *)
(* runs to its end.                                                         *)
FairSpec == Spec /\ WF_vars(Refresh("refreshed"))

-------------------------------------------------------------------------------
(* What is recalled, from shared.db or a copy of it                         *)

ProjectionIsKept(db, t) ==
    /\ db.projection.state \in {"current", "dirty"}
    /\ db.projection.generation = db.generation
    /\ Before(t, db.projection.horizon)
ProjectionIsInForce(db, t) ==
    /\ db.projection.state = "current"
    /\ db.projection.generation = db.generation
    /\ Before(t, db.projection.horizon)
IsBaseCurrent(db, r, t) ==
    db.record[r] # NoRow /\ BaseCurrent(db.record[r], db.facts[r], t)
Suppresses(db, s, r, t) ==
    /\ {r, s} \in db.projection.edges
    /\ \A x \in {r, s} : db.version[x] = db.projection.members[x]
    /\ IsBaseCurrent(db, s, t)

(* current_assertion_sql.                                                   *)
IsRecalled(db, r, t) ==
    /\ IsBaseCurrent(db, r, t)
    /\ \/ db.projection.state = "disabled"
       \/ /\ ProjectionIsInForce(db, t)
          /\ \A s \in Records : s # r => ~ Suppresses(db, s, r, t)

AreContradictory(db, r, s) ==
    /\ IsBaseCurrent(db, r, now) /\ IsBaseCurrent(db, s, now)
    /\ db.record[r].lane = "durable" /\ db.record[s].lane = "durable"
    /\ AreOpposed(db.record, r, s)

-------------------------------------------------------------------------------
(* Properties                                                               *)

(* What the variables hold (the tables of schema.rs).                       *)
IsPlanRow(plan) ==
    \/ plan = Direct
    \/ /\ plan.at \in Times /\ plan.versions \in [Records -> Nat]
       /\ plan.horizon \subseteq Nat /\ plan.fingerprint \in 0..MaxEnables
       /\ plan.proposals \subseteq UNION Groups
IsRequestRow(q) ==
    /\ q.op \in Ops /\ q.group \in Groups /\ IsPlanRow(q.plan)
    /\ q.versions \in [Needed(q.group) -> Nat]
TypeOK ==
    /\ now \in 0..MaxTime
    /\ record \in [Records -> Row \cup {NoRow}]
    /\ facts \in [Records -> Facts]
    /\ version \in [Records -> Nat] /\ generation \in Nat
    /\ updated \in [Records -> 0..MaxTime]
    /\ \A x \in relation : x.kind \in Retiring /\ {x.subject, x.related} \subseteq Records
    /\ maintenance \in [active : BOOLEAN, fingerprint : 0..MaxEnables]
    /\ projection.state \in {"disabled", "dirty", "current", "blocked"}
    /\ \A g \in Grants :
         \/ grant[g] = NoGrantRow
         \/ /\ grant[g].state \in {"active", "revoked", "consumed"}
            /\ IsRequestRow(grant[g].request)
            /\ grant[g].from \in 0..MaxTime
            /\ grant[g].from < grant[g].until
            /\ grant[g].until <= grant[g].from + GrantWindow
    /\ acked \subseteq Ops

(* Every lifecycle fact a record carries stays within what its lane allows  *)
(* and is backed by an event that names the record and an action of the     *)
(* right kind.  One that is not makes every later authorization, plan and   *)
(* reconciliation of the record fail (verify_lifecycle_authority).          *)
FactsAreManageable ==
    \A r \in Records : Exists(r) => IsVerified(r) /\ IsEvaluable(record[r], facts[r])

(* The checkpoint that a checkpoint was made to go on from.                 *)
IsHandover(s) == Exists(s) /\ record[s].lane = "session" /\ record[s].lineage

(* A record is superseded exactly when one relation leads on from it; a     *)
(* predecessor is one a relation leads on from, or a checkpoint that was    *)
(* handed over; and following relations ends at a record that is not        *)
(* superseded: whatever part of the superseded ones one takes, some record  *)
(* of it leads out of it (apply_action_group).                              *)
SuccessionEnds ==
    /\ \A r \in Records :
         record[r].status = "superseded" <=> \E x \in relation : x.subject = r
    /\ \A x, y \in relation : x.subject = y.subject => x = y
    /\ \A r \in Records : Exists(r) /\ record[r].pred # NoRecord /\ ~ IsHandover(r) =>
         \E x \in relation : x.subject = record[r].pred /\ x.related = r
    /\ \A part \in SUBSET {x.subject : x \in relation} : part # {} =>
         \E r \in part : \A x \in relation : x.subject = r => x.related \notin part

(* A session goes on in one place: a checkpoint that was handed over to a   *)
(* successor is never current again, whoever continues, closes, releases or *)
(* corrects it later, and neither is a correction of it                     *)
(* (ensure_successor_predecessor, continue_checkpoint,                      *)
(* create_correction_record).                                               *)
HandedOverIsPast ==
    \A s \in Records : IsHandover(s) =>
        LET r == record[s].pred IN
        /\ ~ IsCurrent(r, now)
        /\ \A x \in relation : x.subject = r /\ x.kind = "correct" =>
             ~ IsCurrent(x.related, now)

(* While maintenance is enabled neither side of a contradiction between     *)
(* current records is recalled, from shared.db or from a mirror that an     *)
(* interrupted refresh left behind (current_assertion_sql).                 *)
NoContradictionRecalled ==
    \A db \in {Shared, mirror} : db.projection.state # "disabled" =>
        \A r, s \in Records : AreContradictory(db, r, s) => ~ IsRecalled(db, r, now)

(* Derived state exists by consent only: there is a projection exactly      *)
(* while a maintenance grant is active, it is that grant's, and it is never *)
(* taken for a projection of other records than the present ones            *)
(* (private_maintenance.rs and the dirty triggers of schema.rs).            *)
MaintenanceFollowsConsent ==
    /\ maintenance.active <=> projection.state # "disabled"
    /\ maintenance.active => /\ projection.fingerprint = maintenance.fingerprint
                             /\ projection.generation = generation
    /\ ~ maintenance.active => projection.edges = {}

(* An operation reported as applied is in the mirror, even when the call    *)
(* that committed it stopped before its refresh and a retry reported it.    *)
AckedIsMirrored ==
    \A o \in acked : /\ application[o] # NoApplication
                     /\ mirror.generation >= application[o].generation

(* A maintenance plan that a grant names proposes, until its horizon and    *)
(* while every record has the version it names, exactly what the detectors  *)
(* find now among the records it covers: its horizon ends before the        *)
(* passing of time alone makes one of these findings appear or go, and      *)
(* every other change shows in a version.  Of a record updated after the    *)
(* instant the plan is evaluated at the plan says nothing, then or now; one *)
(* that covers every record proposes what a plan made now proposes          *)
(* (validate_request_plan_binding, plan_private_maintenance_inner).         *)
PlansStayTrue ==
    \A g \in {h \in Grants : grant[h] # NoGrantRow} :
        LET plan == grant[g].request.plan IN
        plan # Direct /\ Before(now, plan.horizon) /\ plan.versions = version =>
            plan.proposals = Proposals(Covered(plan.at), now)

(* Recall that a change or the passing of time has silenced always resumes: *)
(* again and again the index comes to hold a projection in force, unless    *)
(* maintenance is disabled or blocked (reconcile_if_dirty_locked).          *)
RecallResumes ==
    []<>(\/ ~ maintenance.active \/ projection.state = "blocked"
         \/ ProjectionIsInForce(mirror, now))

KeepsClocks(f, g) == g.recall >= f.recall /\ g.validity >= f.validity /\ g.retain >= f.retain
ClocksGrow ==
    /\ \A r \in Records : Exists(r) => KeepsClocks(facts[r], facts'[r])
    /\ \A x \in relation' \ relation : x.kind = "correct" =>
         /\ KeepsClocks(facts[x.subject], facts'[x.related])
         /\ facts'[x.related].pinned = facts[x.subject].pinned
         /\ facts'[x.related].quarantined = facts[x.subject].quarantined
(* What an owner granted a record only grows: its physical retention and    *)
(* its validity never shrink, and a correction carries every clock, the pin *)
(* and the quarantine over to the record that replaces it                   *)
(* (create_correction_record).                                              *)
ClocksNeverShrink == [][ClocksGrow]_vars

(* What is decided about a record changes only by using, once and in time,  *)
(* an authority over records that are still as its owner saw them.          *)
RowOf(row) == IF row = NoRow THEN <<>>
              ELSE <<row.lane, row.occurred, row.continued, row.closed, row.expires>>
DecidedOf(row, f) == IF row = NoRow THEN <<>>
                     ELSE <<row.status, row.claim, row.pred, row.lineage, f>>
AuthorityOf(g) ==
    IF grant[g] = NoGrantRow THEN NoGrantRow
    ELSE [state |-> grant[g].state, op |-> grant[g].request.op, until |-> grant[g].until,
          view |-> [r \in DOMAIN seen[g] |->
                      <<RowOf(seen[g][r][1]), DecidedOf(seen[g][r][1], seen[g][r][2])>>]]

Owner == INSTANCE OwnerAuthority WITH
    Absent <- <<>>,
    row <- [r \in Records |-> RowOf(record[r])],
    decided <- [r \in Records |-> DecidedOf(record[r], facts[r])],
    authority <- [g \in Grants |-> AuthorityOf(g)],
    usedBy <- [o \in Ops |-> IF application[o] = NoApplication THEN NoGrant
                             ELSE application[o].grant]
OwnerDecides == Owner!Spec
================================================================================
