----------------------------- MODULE SharedRuntime -----------------------------
(***************************************************************************)
(* The shared runtime of linked worktrees.  One repository has one         *)
(* shared.db, the authority for proposals and local records, and one       *)
(* index.db for each worktree: a projection of that checkout's records     *)
(* plus a mirror of shared.db.  No transaction spans the two databases,    *)
(* nor a database and a canonical file, so an operation that changes an    *)
(* index first writes the shared-sync journal, commits a marker with the   *)
(* index, and copies its payload to shared.db afterwards.  Every later     *)
(* operation of any worktree first finishes or discards what the journal   *)
(* says (service/shared_runtime.rs; its callers in service.rs, rebuild.rs  *)
(* and capture_route_apply/mod.rs).                                        *)
(*                                                                         *)
(* A mirror revision is a random string that triggers change on every      *)
(* write: synced says that an index carries the revision of shared.db.     *)
(***************************************************************************)
EXTENDS Integers

CONSTANTS
    Trees, Procs, Home,     \* worktrees; processes, each working in one tree
    Proposals, Locals,      \* proposals of shared.db; captured local records
    Nothing,                \* no process, no index file, no connection, no item
    MaxOps, MaxIndexes, MaxFailures, MaxEdits,  \* bounds
    UnderUse,               \* an index may be replaced under an open service
    LockFreeReplay          \* a capture apply with nothing to write may run

ASSUME HomeAssumption == Home \in [Procs -> Trees]
ASSUME NothingAssumption ==
    /\ Nothing \notin Procs \cup Proposals \cup Locals
    /\ Nothing \notin 0..MaxIndexes
ASSUME ItemAssumption == Proposals \cap Locals = {}
ASSUME BoundAssumption ==
    {MaxOps, MaxIndexes, MaxFailures, MaxEdits} \subseteq Nat
ASSUME SwitchAssumption == UnderUse \in BOOLEAN /\ LockFreeReplay \in BOOLEAN

VARIABLES
    shared,    \* shared.db: the status of each proposal, the local records
    index,     \* every index.db file ever created, by worktree and number
    live,      \* the number of the file index.db names now
    file,      \* the canonical file of each proposal's record, by worktree
    journal,   \* the shared-sync journal
    lock,      \* the holder of the repository lifecycle lock
    conn,      \* the index file each process has open
    pc, run,   \* each process's control and local variables
    acked,     \* history: what an operation reported as done
    installed, \* history: worktrees whose file of a proposal nobody touched since
    ops, made, failures, edits  \* what the bounds count

dbs    == <<shared, index, live, made>>
disk   == <<file, installed>>
budget == <<failures, edits>>
vars   == <<dbs, disk, journal, ops, lock, conn, pc, run, acked, budget>>

Status == {"none", "pending", "approved", "applied", "rejected"}
File == {"none", "exact", "other"}      \* exact: the bytes the journal hashes
Indexes == 0..MaxIndexes
Index == [prop : [Proposals -> Status], recs : SUBSET Locals,
          canon : [Proposals -> File], markers : SUBSET (1..MaxOps), synced : BOOLEAN]

NoJournal == [op |-> 0]
Journal == [op : 1..MaxOps, tree : Trees, item : Proposals \cup Locals]

Ops == {"open", "read", "replay", "propose", "approve", "reject", "apply",
        "capture", "rebuild"}
PCs == {"idle", "recover", "roll", "share", "unmark", "drop", "mirror", "body",
        "decide", "install", "commit", "remove", "create", "import", "done"}

(* index: the file the operation works on.  source: the file the journal's  *)
(* path named when recovery opened it.  seen: the journal recovery read.    *)
(* last: this is the recovery that ends the operation.                      *)
Run == [op : Ops, item : Proposals \cup Locals \cup {Nothing},
        index : Indexes \cup {Nothing}, source : Indexes \cup {Nothing},
        seen : Journal \cup {NoJournal}, last : BOOLEAN,
        snapshot : [Proposals -> File]]

NoFiles == [i \in Proposals |-> "none"]
NoRun == [op |-> "read", item |-> Nothing, index |-> Nothing, source |-> Nothing,
          seen |-> NoJournal, last |-> FALSE, snapshot |-> NoFiles]

EmptyIndex == [prop |-> [i \in Proposals |-> "none"], recs |-> {}, canon |-> NoFiles,
               markers |-> {}, synced |-> FALSE]

TypeDbs ==
    /\ shared \in [prop : [Proposals -> Status], recs : SUBSET Locals]
    /\ index \in [Trees -> [Indexes -> Index]]
    /\ live \in [Trees -> Indexes \cup {Nothing}]
    /\ made \in [Trees -> Indexes]

TypeFiles ==
    /\ file \in [Trees -> [Proposals -> File]]
    /\ installed \in [Proposals -> SUBSET Trees]
    /\ journal \in Journal \cup {NoJournal}
    /\ ops \in 0..MaxOps

TypeProcs ==
    /\ lock \in Procs \cup {Nothing}
    /\ conn \in [Procs -> Indexes \cup {Nothing}]
    /\ pc \in [Procs -> PCs]
    /\ run \in [Procs -> Run]

TypeHistory ==
    /\ acked \subseteq Proposals \cup Locals
    /\ failures \in 0..MaxFailures
    /\ edits \in 0..MaxEdits

TypeOK == TypeDbs /\ TypeFiles /\ TypeProcs /\ TypeHistory

(* An initialised repository, its worktrees' indexes mirroring shared.db. *)
Init ==
    /\ shared = [prop |-> EmptyIndex.prop, recs |-> {}]
    /\ index = [t \in Trees |-> [g \in Indexes |->
                  [EmptyIndex EXCEPT !.synced = (g = 0)]]]
    /\ live = [t \in Trees |-> 0]
    /\ made = [t \in Trees |-> 0]
    /\ file = [t \in Trees |-> NoFiles]
    /\ journal = NoJournal /\ ops = 0
    /\ lock = Nothing
    /\ conn = [p \in Procs |-> Nothing]
    /\ pc = [p \in Procs |-> "idle"]
    /\ run = [p \in Procs |-> NoRun]
    /\ acked = {}
    /\ installed = [i \in Proposals |-> {}]
    /\ failures = 0 /\ edits = 0

-------------------------------------------------------------------------------
Tree(p) == Home[p]
Mine(p) == index[Tree(p)][run[p].index]
Goto(p, label) == pc' = [pc EXCEPT ![p] = label]
Note(p, r) == run' = [run EXCEPT ![p] = r]

(* An index with its mirror revision changed by the triggers on every write *)
(* of a proposal or a local record, and every index after one of shared.db. *)
Touched(x) == [x EXCEPT !.synced = FALSE]
SetIndex(t, g, x) == index' = [index EXCEPT ![t][g] = x]
SetShared(s) ==
    /\ shared' = s
    /\ index' = [t \in Trees |-> [g \in Indexes |-> Touched(index[t][g])]]

(* The lock's guard is dropped when the operation returns. *)
Unlock(p) == lock' = IF lock = p THEN Nothing ELSE lock
Quit(p) ==
    /\ Goto(p, "idle") /\ Note(p, NoRun)
    /\ Unlock(p)
    /\ conn' = IF run[p].op = "open" THEN [conn EXCEPT ![p] = Nothing] ELSE conn
    /\ UNCHANGED <<acked, ops>>

(* An index write waits for the transaction another connection has open. *)
InTransaction(p) == pc[p] \in {"install", "commit"}
WriteBlocked(p, t, g) ==
    \E q \in Procs \ {p} : InTransaction(q) /\ Tree(q) = t /\ run[q].index = g

MirrorCurrent(t, g) == index[t][g].synced
Settled(t, g) == journal = NoJournal /\ MirrorCurrent(t, g)

-------------------------------------------------------------------------------
(* Beginning an operation: a service opens, or an open one takes the lock.  *)
Start(p, op, item, g) ==
    /\ pc[p] = "idle"
    /\ Goto(p, "recover")
    /\ Note(p, [NoRun EXCEPT !.op = op, !.item = item, !.index = g])
    /\ UNCHANGED <<dbs, disk, journal, ops, acked, budget>>

TakeLock(p) == lock = Nothing /\ lock' = p

(* An open whose mirror is current and which finds no journal takes no lock. *)
OpenCurrent(p) ==
    /\ pc[p] = "idle" /\ conn[p] = Nothing
    /\ live[Tree(p)] # Nothing
    /\ Settled(Tree(p), live[Tree(p)])
    /\ conn' = [conn EXCEPT ![p] = live[Tree(p)]]
    /\ UNCHANGED <<dbs, disk, journal, ops, lock, pc, run, acked, budget>>

OpenRefreshing(p) ==
    /\ conn[p] = Nothing
    /\ live[Tree(p)] # Nothing
    /\ ~Settled(Tree(p), live[Tree(p)])
    /\ TakeLock(p)
    /\ conn' = [conn EXCEPT ![p] = live[Tree(p)]]
    /\ Start(p, "open", Nothing, live[Tree(p)])

Close(p) ==
    /\ pc[p] = "idle" /\ conn[p] # Nothing
    /\ conn' = [conn EXCEPT ![p] = Nothing]
    /\ UNCHANGED <<dbs, disk, journal, ops, lock, pc, run, acked, budget>>

Read(p) ==
    /\ conn[p] # Nothing
    /\ ~Settled(Tree(p), conn[p])
    /\ TakeLock(p)
    /\ Start(p, "read", Nothing, conn[p]) /\ UNCHANGED conn

Command(p, op, item) ==
    /\ conn[p] # Nothing
    /\ TakeLock(p)
    /\ Start(p, op, item, conn[p]) /\ UNCHANGED conn

(* capture apply takes the lock only if it has something to write, and calls *)
(* the refresh that expects the lock to be held in either case.              *)
ReplayCapture(p) ==
    /\ LockFreeReplay
    /\ conn[p] # Nothing
    /\ Settled(Tree(p), conn[p])
    /\ Start(p, "replay", Nothing, conn[p]) /\ UNCHANGED <<lock, conn>>

InUse(t) == \E p \in Procs : Tree(p) = t /\ conn[p] # Nothing

(* A file that is unlinked lives on for the processes that have it open. *)
Unlink(t) ==
    /\ live' = [live EXCEPT ![t] = Nothing]
    /\ index' = IF InUse(t) \/ live[t] = Nothing THEN index
                ELSE [index EXCEPT ![t][live[t]] = EmptyIndex]

(* memzoi rebuild, and an open that finds no index.db. *)
Rebuild(p) ==
    /\ conn[p] = Nothing
    /\ UnderUse \/ ~InUse(Tree(p))
    /\ made[Tree(p)] < MaxIndexes
    /\ TakeLock(p)
    /\ Start(p, "rebuild", Nothing, Nothing) /\ UNCHANGED conn

-------------------------------------------------------------------------------
(* recover_pending_shared_sync_locked.  j is the journal as it was read.     *)
IsApply(j) == j.item \in Proposals
SourceIndex(j) == index[j.tree][live[j.tree]]
SourceMissing(j) == live[j.tree] = Nothing
(* A faulty variant looks the marker up under a wrong id. *)
NeverCommitted(j) == FALSE
IsCommitted(j) == j.op \in SourceIndex(j).markers
IsShared(j) ==
    IF IsApply(j) THEN shared.prop[j.item] = "applied" ELSE j.item \in shared.recs
InSourceIndex(j) ==
    IsApply(j) => /\ SourceIndex(j).prop[j.item] = "applied"
                  /\ SourceIndex(j).canon[j.item] = "exact"
CanonicalFile(j) == file[j.tree][j.item]

(* Nothing is left to do, or the index transaction never committed and no   *)
(* canonical file says otherwise.                                           *)
(* Faulty variants: the canonical file is not looked at; the marker of a    *)
(* payload that shared.db already has is left behind; a canonical file      *)
(* without a marker is left for somebody else to explain.                   *)
DiscardUnmarked(j) ==
    \/ SourceMissing(j) /\ IsShared(j)
    \/ ~SourceMissing(j) /\ ~IsCommitted(j)
DiscardOnceShared(j) ==
    \/ IsShared(j)
    \/ /\ ~SourceMissing(j) /\ ~IsCommitted(j)
       /\ IsApply(j) => CanonicalFile(j) = "none"
RefuseMarkerless(j) == FALSE

IsDiscardable(j) ==
    \/ SourceMissing(j) /\ IsShared(j)
    \/ /\ ~SourceMissing(j) /\ ~IsCommitted(j)
       /\ IF IsShared(j) THEN InSourceIndex(j)
          ELSE IsApply(j) => CanonicalFile(j) = "none"

(* A canonical file without its marker: the crash was between the two.      *)
IsMarkerless(j) ==
    /\ ~IsShared(j) /\ ~SourceMissing(j)
    /\ IsApply(j) /\ CanonicalFile(j) = "exact"
    /\ ~IsCommitted(j)

IsUnshared(j) ==
    /\ ~IsShared(j) /\ ~SourceMissing(j)
    /\ IsCommitted(j)
    /\ IsApply(j) => CanonicalFile(j) = "exact"

IsUncleaned(j) ==
    /\ IsShared(j) /\ ~SourceMissing(j)
    /\ InSourceIndex(j) /\ IsCommitted(j)

(* An apply or a capture ends with the recovery alone, a rebuild begins so. *)
AfterRecovery(p) ==
    IF run[p].last /\ run[p].op \in {"apply", "capture"} THEN "done"
    ELSE IF ~run[p].last /\ run[p].op = "rebuild" THEN "body"
    ELSE "mirror"

Stays == UNCHANGED <<dbs, disk, journal, ops, lock, conn, acked, budget>>

RecoverNothing(p) ==
    /\ pc[p] = "recover" /\ journal = NoJournal
    /\ Goto(p, AfterRecovery(p))
    /\ Stays /\ UNCHANGED run

Recover(p) ==
    /\ pc[p] = "recover" /\ journal # NoJournal
    /\ \/ IsDiscardable(journal) /\ Goto(p, "drop")
       \/ IsMarkerless(journal) /\ Goto(p, "roll")
       \/ IsUnshared(journal) /\ Goto(p, "share")
       \/ IsUncleaned(journal) /\ Goto(p, "unmark")
    /\ Note(p, [run[p] EXCEPT !.seen = journal, !.source = live[journal.tree]])
    /\ Stays

(* The evidence is contradictory or missing: every operation is refused.    *)
IsUndecided(j) ==
    ~(IsDiscardable(j) \/ IsMarkerless(j) \/ IsUnshared(j) \/ IsUncleaned(j))

RecoverRefuse(p) ==
    /\ pc[p] = "recover" /\ journal # NoJournal
    /\ IsUndecided(journal)
    /\ Quit(p)
    /\ UNCHANGED <<dbs, disk, journal, budget>>

Source(p) == index[run[p].seen.tree][run[p].source]
SourceFree(p) == ~WriteBlocked(p, run[p].seen.tree, run[p].source)
SetSource(p, x) == SetIndex(run[p].seen.tree, run[p].source, x) /\ UNCHANGED <<shared, live, made>>

(* roll_forward_markerless_proposal_apply *)
CanRollForward(x, i) == x.prop[i] = "approved" /\ x.canon[i] = "none"
WithApplied(x, i, op) ==
    Touched([x EXCEPT !.prop[i] = "applied", !.canon[i] = "exact",
                      !.markers = @ \cup {op}])

(* The index transaction of a capture; a faulty one leaves the marker out.  *)
WithUnmarkedRecord(x, i, op) == Touched([x EXCEPT !.recs = @ \cup {i}])
WithRecord(x, i, op) ==
    Touched([x EXCEPT !.recs = @ \cup {i}, !.markers = @ \cup {op}])

RollForward(p) ==
    LET j == run[p].seen IN
    /\ pc[p] = "roll" /\ SourceFree(p)
    /\ CanRollForward(Source(p), j.item)
    /\ SetSource(p, WithApplied(Source(p), j.item, j.op))
    /\ Goto(p, "share")
    /\ UNCHANGED <<disk, journal, ops, lock, conn, run, acked, budget>>

RollForwardRefuse(p) ==
    /\ pc[p] = "roll" /\ SourceFree(p)
    /\ ~CanRollForward(Source(p), run[p].seen.item)
    /\ Quit(p)
    /\ UNCHANGED <<dbs, disk, journal, budget>>

(* apply_shared_sync_payload *)
(* Faulty variants: a payload is a record whatever its kind; the status of  *)
(* the proposal is not compared before it is overwritten.                   *)
RecordPayload(j) == [shared EXCEPT !.recs = @ \cup {j.item}]
ShareRegardless(j) == TRUE

Payload(j) ==
    IF IsApply(j) THEN [shared EXCEPT !.prop[j.item] = "applied"]
    ELSE [shared EXCEPT !.recs = @ \cup {j.item}]
SharePossible(j) == IsApply(j) => shared.prop[j.item] \in {"approved", "applied"}

Share(p) ==
    /\ pc[p] = "share"
    /\ SharePossible(run[p].seen)
    /\ IF Payload(run[p].seen) = shared THEN UNCHANGED <<shared, index>>
       ELSE SetShared(Payload(run[p].seen))
    /\ Goto(p, "unmark")
    /\ UNCHANGED <<live, made, disk, journal, ops, lock, conn, run, acked, budget>>

ShareRefuse(p) ==
    /\ pc[p] = "share"
    /\ ~SharePossible(run[p].seen)
    /\ Quit(p)
    /\ UNCHANGED <<dbs, disk, journal, budget>>

Unmark(p) ==
    LET op == run[p].seen.op IN
    /\ pc[p] = "unmark" /\ SourceFree(p)
    /\ op \in Source(p).markers
    /\ SetSource(p, [Source(p) EXCEPT !.markers = @ \ {op}])
    /\ Goto(p, "drop")
    /\ UNCHANGED <<disk, journal, ops, lock, conn, run, acked, budget>>

UnmarkRefuse(p) ==
    /\ pc[p] = "unmark" /\ SourceFree(p)
    /\ run[p].seen.op \notin Source(p).markers
    /\ Quit(p)
    /\ UNCHANGED <<dbs, disk, journal, budget>>

(* The journal is removed by its path, whatever it says by now. *)
Drop(p) ==
    /\ pc[p] = "drop"
    /\ journal' = NoJournal
    /\ Goto(p, AfterRecovery(p))
    /\ Note(p, [run[p] EXCEPT !.seen = NoJournal, !.source = Nothing])
    /\ UNCHANGED <<dbs, disk, ops, lock, conn, acked, budget>>

-------------------------------------------------------------------------------
(* The rest of refresh_index_mirrors_locked_at: one index transaction.      *)
(* A faulty variant mirrors the proposals alone. *)
ProposalsMirrored(x) == [x EXCEPT !.prop = shared.prop, !.synced = TRUE]
Mirrored(x) == [x EXCEPT !.prop = shared.prop, !.recs = shared.recs, !.synced = TRUE]

Mirror(p) ==
    /\ pc[p] = "mirror"
    /\ IF MirrorCurrent(Tree(p), run[p].index) THEN UNCHANGED index
       ELSE /\ ~WriteBlocked(p, Tree(p), run[p].index)
            /\ SetIndex(Tree(p), run[p].index, Mirrored(Mine(p)))
    /\ Goto(p, IF run[p].last THEN "done" ELSE "body")
    /\ UNCHANGED <<shared, live, made, disk, journal, ops, lock, conn, run, acked, budget>>

ToLast(p) == Goto(p, "recover") /\ Note(p, [run[p] EXCEPT !.last = TRUE])

(* Proposal commands write shared.db and refresh once more.  A proposal is   *)
(* inserted in one statement.  Approval and rejection load the proposal and  *)
(* compare its status, then update the row by its id whatever it says by     *)
(* then: two statements, and no transaction around them.                     *)
Allowed(op, status) ==
    \/ op = "propose" /\ status = "none"
    \/ op = "approve" /\ status = "pending"
    \/ op = "reject" /\ status \in {"pending", "approved"}
Result(op) == CASE op = "propose" -> "pending" [] op = "approve" -> "approved"
                [] op = "reject" -> "rejected"

Propose(p) ==
    LET i == run[p].item IN
    /\ pc[p] = "body" /\ run[p].op = "propose"
    /\ Allowed("propose", shared.prop[i])
    /\ SetShared([shared EXCEPT !.prop[i] = Result("propose")])
    /\ ToLast(p)
    /\ UNCHANGED <<live, made, disk, journal, ops, lock, conn, acked, budget>>

Decide(p) ==
    /\ pc[p] = "body" /\ run[p].op \in {"approve", "reject"}
    /\ Allowed(run[p].op, shared.prop[run[p].item])
    /\ Goto(p, "decide")
    /\ Stays /\ UNCHANGED run

SetStatus(p) ==
    /\ pc[p] = "decide"
    /\ SetShared([shared EXCEPT !.prop[run[p].item] = Result(run[p].op)])
    /\ ToLast(p)
    /\ UNCHANGED <<live, made, disk, journal, ops, lock, conn, acked, budget>>

(* apply_proposal: the checks, then the journal inside the open transaction. *)
IndexCurrent(p) == Mine(p).canon = file[Tree(p)]
CanApply(p) ==
    /\ IndexCurrent(p)
    /\ shared.prop[run[p].item] = "approved" /\ Mine(p).prop[run[p].item] = "approved"
    /\ file[Tree(p)][run[p].item] = "none"
CanCapture(p) == run[p].item \notin Mine(p).recs
CanWrite(p) ==
    /\ journal = NoJournal
    /\ \/ run[p].op = "apply" /\ CanApply(p)
       \/ run[p].op = "capture" /\ CanCapture(p)

WriteJournal(p) ==
    /\ pc[p] = "body" /\ run[p].op \in {"apply", "capture"}
    /\ CanWrite(p) /\ ~WriteBlocked(p, Tree(p), run[p].index)
    /\ ops < MaxOps
    /\ ops' = ops + 1
    /\ journal' = [op |-> ops + 1, tree |-> Tree(p), item |-> run[p].item]
    /\ Note(p, [run[p] EXCEPT !.seen = journal'])
    /\ Goto(p, IF run[p].op = "apply" THEN "install" ELSE "commit")
    /\ UNCHANGED <<dbs, disk, lock, conn, acked, budget>>

(* Reads and replays have nothing more to do, and a command whose checks    *)
(* fail returns an error.                                                   *)
BodyEnds(p) ==
    LET r == run[p] IN
    /\ pc[p] = "body"
    /\ \/ r.op \in {"open", "read", "replay"}
       \/ r.op \in {"propose", "approve", "reject"} /\ ~Allowed(r.op, shared.prop[r.item])
       \/ r.op \in {"apply", "capture"} /\ ~CanWrite(p)
    /\ Goto(p, "idle") /\ Note(p, NoRun) /\ Unlock(p)
    /\ UNCHANGED <<dbs, disk, journal, ops, conn, acked, budget>>

SetFile(t, i, content) == file' = [file EXCEPT ![t][i] = content]
Forget(t, i) == installed' = [installed EXCEPT ![i] = @ \ {t}]

(* canonical_write.rs: create the file, then commit the index transaction.  *)
Install(p) ==
    LET t == Tree(p)  i == run[p].item IN
    /\ pc[p] = "install"
    /\ file[t][i] = "none"
    /\ SetFile(t, i, "exact")
    /\ installed' = [installed EXCEPT ![i] = @ \cup {t}]
    /\ Goto(p, "commit")
    /\ UNCHANGED <<dbs, journal, ops, lock, conn, run, acked, budget>>

Commit(p) ==
    LET r == run[p] IN
    /\ pc[p] = "commit"
    /\ SetIndex(Tree(p), r.index,
         IF r.op = "apply" THEN WithApplied(Mine(p), r.item, r.seen.op)
         ELSE WithRecord(Mine(p), r.item, r.seen.op))
    /\ ToLast(p)
    /\ UNCHANGED <<shared, live, made, disk, journal, ops, lock, conn, acked, budget>>

(* A reported failure before the commit: the transaction rolls back and a   *)
(* file that was created is removed if it is still the one created.         *)
RollBackFile(p) ==
    LET t == Tree(p)  i == run[p].item IN
    IF pc[p] = "commit" /\ run[p].op = "apply" /\ file[t][i] = "exact"
      THEN SetFile(t, i, "none") /\ Forget(t, i)
      ELSE UNCHANGED disk

(* rebuild_with_options, after the recovery. *)
Snapshot(p) ==
    /\ pc[p] = "body" /\ run[p].op = "rebuild"
    /\ Note(p, [run[p] EXCEPT !.snapshot = file[Tree(p)]])
    /\ Goto(p, "remove")
    /\ UNCHANGED <<dbs, disk, journal, ops, lock, conn, acked, budget>>

RemoveIndex(p) ==
    /\ pc[p] = "remove"
    /\ Unlink(Tree(p))
    /\ Goto(p, "create")
    /\ UNCHANGED <<shared, made, disk, journal, ops, lock, conn, run, acked, budget>>

CreateIndex(p) ==
    LET g == made[Tree(p)] + 1 IN
    /\ pc[p] = "create" /\ g \in Indexes
    /\ made' = [made EXCEPT ![Tree(p)] = g]
    /\ live' = [live EXCEPT ![Tree(p)] = g]
    /\ SetIndex(Tree(p), g, EmptyIndex)
    /\ Note(p, [run[p] EXCEPT !.index = g])
    /\ Goto(p, "import")
    /\ UNCHANGED <<shared, disk, journal, ops, lock, conn, acked, budget>>

ImportRecords(p) ==
    /\ pc[p] = "import"
    /\ SetIndex(Tree(p), run[p].index, [Mine(p) EXCEPT !.canon = run[p].snapshot])
    /\ ToLast(p)
    /\ UNCHANGED <<shared, live, made, disk, journal, ops, lock, conn, acked, budget>>

Finish(p) ==
    /\ pc[p] = "done"
    /\ acked' = IF run[p].op \in {"apply", "capture"} THEN acked \cup {run[p].item} ELSE acked
    /\ Goto(p, "idle") /\ Note(p, NoRun) /\ Unlock(p)
    /\ UNCHANGED <<dbs, disk, journal, ops, conn, budget>>

-------------------------------------------------------------------------------
(* A reported I/O or database error in any step. *)
Fault(p) ==
    /\ pc[p] \notin {"idle", "done"} /\ failures < MaxFailures
    /\ failures' = failures + 1
    /\ RollBackFile(p)
    /\ Quit(p)
    /\ UNCHANGED <<dbs, journal, edits>>

Crash(p) ==
    /\ pc[p] # "idle" /\ failures < MaxFailures
    /\ failures' = failures + 1
    /\ Goto(p, "idle") /\ Note(p, NoRun) /\ Unlock(p)
    /\ conn' = [conn EXCEPT ![p] = Nothing]
    /\ UNCHANGED <<dbs, disk, journal, ops, acked, edits>>

(* An editor or Git changes or removes a canonical file, or restores its bytes. *)
Edit(t, i) ==
    /\ edits < MaxEdits /\ edits' = edits + 1
    /\ file[t][i] # "none"
    /\ \E content \in File \ {file[t][i]} : SetFile(t, i, content)
    /\ Forget(t, i)
    /\ UNCHANGED <<dbs, journal, ops, lock, conn, pc, run, acked, failures>>

(* The owner deletes an index, which the documentation calls disposable. *)
DeleteIndex(t) ==
    /\ edits < MaxEdits /\ edits' = edits + 1
    /\ live[t] # Nothing
    /\ UnderUse \/ ~InUse(t)
    /\ \A p \in Procs : Tree(p) = t => pc[p] = "idle"
    /\ Unlink(t)
    /\ UNCHANGED <<shared, made, disk, journal, ops, lock, conn, pc, run, acked,
                   failures>>

Begin(p) ==
    \/ OpenCurrent(p) \/ OpenRefreshing(p) \/ Close(p)
    \/ Read(p) \/ ReplayCapture(p) \/ Rebuild(p)
    \/ \E i \in Proposals, op \in {"propose", "approve", "reject", "apply"} : Command(p, op, i)
    \/ \E i \in Locals : Command(p, "capture", i)

Recovery(p) ==
    \/ RecoverNothing(p) \/ Recover(p) \/ RecoverRefuse(p)
    \/ RollForward(p) \/ RollForwardRefuse(p)
    \/ Share(p) \/ ShareRefuse(p)
    \/ Unmark(p) \/ UnmarkRefuse(p)
    \/ Drop(p)

Operation(p) ==
    \/ Mirror(p) \/ Propose(p) \/ Decide(p) \/ SetStatus(p)
    \/ WriteJournal(p) \/ BodyEnds(p)
    \/ Install(p) \/ Commit(p)
    \/ Snapshot(p) \/ RemoveIndex(p) \/ CreateIndex(p) \/ ImportRecords(p)
    \/ Finish(p)

Disturb ==
    \/ \E p \in Procs : Fault(p) \/ Crash(p)
    \/ \E t \in Trees : DeleteIndex(t) \/ \E i \in Proposals : Edit(t, i)

Next == (\E p \in Procs : Begin(p) \/ Recovery(p) \/ Operation(p)) \/ Disturb

Spec == Init /\ [][Next]_vars

(* Operations run to their end, and somebody keeps using the repository.    *)
RefreshSomewhere == \E p \in Procs : OpenRefreshing(p) \/ Read(p)
FairSpec ==
    /\ Spec
    /\ \A p \in Procs : WF_vars(Recovery(p) \/ Operation(p))
    /\ WF_vars(RefreshSomewhere)

-------------------------------------------------------------------------------
(* A canonical file that apply_proposal created belongs to one worktree and, *)
(* once no journal is pending, to a proposal that shared.db calls applied:   *)
(* otherwise another worktree could apply, or a reviewer reject, a proposal  *)
(* whose record is already in the repository.                                *)
InstalledOnce ==
    \A i \in Proposals :
        /\ \A t, u \in installed[i] : t = u
        /\ installed[i] # {} =>
              \/ shared.prop[i] = "applied"
              \/ shared.prop[i] = "approved" /\ journal # NoJournal /\ journal.item = i

(* What apply or capture reported as done is in shared.db, the authority    *)
(* every worktree mirrors, and not only in the index it was written through.*)
AckedIsShared ==
    /\ acked \cap Locals \subseteq shared.recs
    /\ \A i \in acked \cap Proposals : shared.prop[i] = "applied"

(* A commit marker in an index that recovery would consult belongs to the   *)
(* pending journal: the journal is removed last, so that no marker is left  *)
(* behind and none is read as the commit of something else.                 *)
MarkersAreJournaled ==
    \A t \in Trees : live[t] # Nothing => \A op \in index[t][live[t]].markers :
        journal # NoJournal /\ journal.op = op /\ journal.tree = t

(* The index of a worktree is ahead of shared.db by nothing but what the    *)
(* pending journal will copy, so that the refresh, which makes the index    *)
(* equal to shared.db, never undoes a committed write.                      *)
IndexNotAhead ==
    \A t \in Trees : live[t] # Nothing =>
        LET x == index[t][live[t]]
            ahead == (x.recs \ shared.recs)
                     \cup {i \in Proposals : x.prop[i] = "applied" /\ shared.prop[i] # "applied"}
        IN  ahead # {} => journal # NoJournal /\ journal.tree = t /\ ahead = {journal.item}

(* An index that carries the mirror revision of shared.db has its content:  *)
(* readers skip the refresh on the strength of the revision alone.          *)
MirrorIsFresh ==
    \A t \in Trees, g \in Indexes : index[t][g].synced =>
        index[t][g].prop = shared.prop /\ index[t][g].recs = shared.recs

(* shared.db is not moved back: no record disappears, a rejection is final,  *)
(* and no recovery, with whatever stale journal in hand, nor any command     *)
(* overwrites an applied proposal.  There is one exception, which takes a    *)
(* recovery without the lock: it applies a proposal between the two          *)
(* statements of a rejection, whose update then overwrites what it wrote.    *)
OvertakenRejection(i) ==
    /\ LockFreeReplay
    /\ \E p \in Procs : pc[p] = "decide" /\ run[p].op = "reject" /\ run[p].item = i
SharedMovesForward ==
    [][/\ shared.recs \subseteq shared'.recs
       /\ \A i \in Proposals :
             /\ shared.prop[i] = "rejected" => shared'.prop[i] = "rejected"
             /\ shared.prop[i] = "applied" =>
                   shared'.prop[i] = "applied" \/ OvertakenRejection(i)]_vars

(* A pending journal is settled by whichever worktree comes next, unless    *)
(* the file or the index it needs as evidence was taken away.               *)
EvidenceTaken ==
    \/ journal # NoJournal /\ live[journal.tree] = Nothing
    \/ journal # NoJournal /\ IsApply(journal) /\ CanonicalFile(journal) # "exact"
JournalSettles == journal # NoJournal ~> (journal = NoJournal \/ EvidenceTaken)
====
