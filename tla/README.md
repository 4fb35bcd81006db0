# Memzoi: a verification project

Memzoi keeps the memory of a software project as Markdown records inside its Git
repository (`.memzoi/records/**`), with SQLite databases beside them. This directory
holds TLA+ models of the parts of the Rust workspace (`src/crates`) where a crash, a
concurrent process or a manual edit can do harm, the TLC configurations that check
them on small instances, and TLAPS proofs of theorems that hold for every instance.
Paths below are relative to `src/crates/memzoi-core/src/` unless they start with
`crates/`, `docs/` or `website/`.

- [1. The system](#1-the-system)
- [2. The plan](#2-the-plan)
- [3. Maintenance materialization](#3-maintenance-materialization)
- [4. The shared runtime of linked worktrees](#4-the-shared-runtime-of-linked-worktrees)
- [5. Private records, retention and private maintenance](#5-private-records-retention-and-private-maintenance)
- [6. Proposal packets and the routes that make them](#6-proposal-packets-and-the-routes-that-make-them)
- [7. What disagrees with the documentation](#7-what-disagrees-with-the-documentation)
- [8. What is proved](#8-what-is-proved)
- [9. What is not modelled](#9-what-is-not-modelled)

## 1. The system

Memzoi is a library, a CLI and an MCP server. There is no daemon: every command opens a
`MemoryService` (`service.rs`), works and exits, an MCP server keeps one open. So the
concurrent actors are operating-system processes, and what they share is on disk:

| state | where | kept by |
|---|---|---|
| canonical records | `.memzoi/records/**` of each worktree, in Git | every canonical write; editors and Git at any time |
| proposal packets | `.memzoi/proposals/**` of each worktree, in Git | capture, session end, packet import and rejection |
| `shared.db` | one per repository, under `~/.memzoi` | authority for proposals, local and session records, private lifecycle |
| `index.db` | one per worktree | disposable projection of the records, plus a mirror of `shared.db` |
| journals | runtime directory, one file per kind of operation | shared sync, capture apply, session end, maintenance, import origins |
| `repo-lifecycle.lock` | runtime directory | an advisory file lock, waited for at most five seconds |

No transaction spans two databases, nor a database and a file. Every operation that
changes two of these stores therefore follows one discipline: take the lock, settle what an
interrupted operation left, check everything again, write a journal, change files and
commit the index together with a marker row, change the other store, remove marker and
journal. The commit of `index.db` is the commit point; recovery reads the marker to tell
which side of it the crash was on. What makes this hard is that each piece of evidence
(journal, staged file, backup, marker, canonical file, index file) lives in a different
store with its own way of being changed by somebody who does not hold the lock.

### Components

| component | state | operations | what is hard | what makes it correct |
|---|---|---|---|---|
| Repository maintenance materialization (`service/repository_maintenance_materialization.rs`, `journal.rs`) | canonical records, journal and its two temporaries, staged finals, backups, commit marker | apply a decision to N records; recover on open; roll back; clean up | crash between any two renames; error during rollback; retry of the same decision; edits and Git under the transaction; rebuild of the index it commits to | all or nothing; the commit is never withdrawn; evidence outlives need; no edit is lost; success means indexed; recovery converges |
| Repository file primitives (`repository_io.rs`, `service/repository_mutation.rs`) | file identities (device, inode) and bytes | revalidate and rename, back up, exchange the journal | the check and the rename are two system calls | what is replaced is what was checked |
| Lifecycle lock (`service/safe_files.rs`) | who holds the lock | acquire within 5 s, release, shared read lock | death of the holder; an answer asked before the lock is stale after it | one writer; a timeout changes nothing |
| Shared runtime (`service/shared_runtime.rs`) | shared-sync journal, markers, mirror revisions | prepare, recover, refresh the mirror | the writer of the journal and its finisher are different worktrees with different indexes | committed in the index implies it reaches `shared.db`, once; no worktree reads a stale mirror as current |
| Canonical writes, proposal application (`service/canonical_write.rs`, `service.rs`, `proposals.rs`) | proposal status, record file | propose, approve, reject, apply, supersede, tombstone, expire | file created before the index commits; approval and application in different worktrees | one application; a file exists only for an applied proposal |
| Derived index (`service/derived_index/*`, `db.rs`) | rows, drift, the file `index.db` names | inspect, rebuild | the file is replaced while others have it open | an index equals the records or says it is stale |
| Capture route application (`service/capture_route_apply/*`) | capture journal, staged packets, marker | apply a reviewed capture; recover | two journals and two commit markers in one transaction | packets and runtime records appear together or not at all |
| Session-end application (`service/session_end_route_apply*`) | a journal of the same discipline | apply, recover | as above, plus origins in `shared.db` | as above |
| Proposal packets (`service/proposal_packets/*`) | packet files, target records | import, apply, reject | several renames without a journal, rolled back on a reported error only | a reported error leaves nothing changed |
| Private lifecycle and maintenance (`private_lifecycle.rs`, `private_maintenance.rs`, `service/private_*`, `service/runtime_records/*`) | records, lifecycle facts, owner grants, relations and the projection of contradictions in `shared.db` | authorize, revoke and apply groups of actions; write checkpoints; enable, disable, reconcile | versions compared and used later; stops before the mirror refresh; dirty or lapsed projections | only an unexpired authority over unchanged records decides, once; contradictions are not recalled |
| Import lifecycle, origins (`service/import_*`, `import.rs`, `origin.rs`) | claimed and finalized origins | claim, finalize, recover | a retry of what was already done | an input is imported once |
| Retention, planning, expiry (`retention.rs`, `maintenance.rs`, `expiry.rs`) | none | pure planning | boundaries of time and order | plans are deterministic and respect protection |
| Capture inputs, OKF, schema, search, Git, CLI, MCP | none of their own | parse, render, rank, dispatch | data only | not modelled, see section 9 |

Interactions: the CLI and the MCP server call `MemoryService`; opening it rebuilds a
missing index, then runs, in this order, the recoveries of import origins, shared sync
(with the mirror refresh), capture apply, maintenance and session end (`service.rs:413-453`).
Every writing operation takes the lifecycle lock first, refreshes the mirror under it, and
refuses to work on a drifted index. Maintenance and proposal application share
`repository_io`; capture and proposal application share the shared-sync journal.

`PROJECT.json` lists the hazards of this code, each at its line with the properties that
cover it, or with the reason why none does.

## 2. The plan

Order: what can destroy committed work first, and what other parts rest on before them.

| # | module | state |
|---|---|---|
| 1 | `MaintenanceMaterialization`, `AtomicDecision` (what it promises), `MCMaintenance`, `MaintenanceProofs` | checked; every safety property and the refinement proved |
| 2 | `SharedRuntime`, `MCSharedRuntime`, `SharedProofs`, `SharedCustodyProofs` (with proposal application, rebuild and runtime capture as its clients) | checked; every safety property proved |
| 3 | `Retention`, `PrivateLifecycle`, `OwnerAuthority` (what it promises), `MCPrivateLifecycle`, `PrivateProofs`, `PrivateRecordProofs`, `PrivatePlanProofs` | checked; every safety property and the refinement proved |
| 4 | `PacketStore` (the files and their resolution), `OriginRoutes` (imports and checkpoint promotions), `CaptureRoute`, `PacketRoutes` (their composition), `PacketLife` (what they promise), `MCPacketRoutes`, `PacketProofs`, `PacketCustodyProofs` | checked; every safety property and the refinement proved |
| 5 | Batches of canonical writes without a packet (expiry), with the planning over canonical records (`maintenance.rs`, `expiry.rs`) that feeds them and item 1 | |
| 6 | The shared read side of the lifecycle lock, with the MCP server's event loop in front of it (planning worker, cancellation, deadlines, bounded queues); the replay of resolutions and the runtime records of promotions and imports; the CLI's self-update | |

Theorems worth proving. Done, see section 8: every safety property of 1 to 4 that a run checks,
and the three refinements. Left: in 4, captures that share a worktree and a batch, which the
run shows to be harmless and the theorems leave out (section 8, Packets); then the safety
properties of 5.

## 3. Maintenance materialization

`MaintenanceMaterialization` models `MemoryService::apply_repository_maintenance_materialization`
and `recover_on_open` from the lock to the result. One decision rewrites records `1..N`
from their *prior* to their *post* content; record 0 stands for all comparison records,
which are only read.

**State.** `bytes` is the content of each record (`"other"` is anything else, absence
included); `own` is whose inode an output has, which `classify_journal_outputs` compares
with the identities in the journal; `stage` and `backup` are the transaction files, possibly
torn; `journal` is absent, initial, or rewritten with the identities of the installed
files; `jtmp` and `rtmp` are the temporaries of its two writes; `index` holds every
`index.db` file ever installed with its rows and its commit marker, `live` the one the path
names, `conn` the one each process has open; `lock`, `proc`, `pc` and `run` are control.
`touched`, `committed` and `acked` are history variables.

**Actions.** Whatever the lock serialises is one actor, its holder, with one action per
step that a crash can separate from the next: load and classify; restore record by record
(revalidate, then rename); reconcile the index; clean up file by file; recognise an
already applied decision; retire the old marker; stage; back up; write, link and unlink the
journal temporary; install record by record (revalidate, then rename); write the journal
again and exchange it; verify; commit; and the undo path of each error. `OpenService`,
`RecoverOnOpen` (its question asked before the lock is taken), `Apply`, `LockTimeout` and
`CloseService` are the processes' own. The environment is `Crash`, `IoFault`, `Edit`,
`OtherCanonicalWrite`, `GitRestore` and `Rebuild`.

**Abstractions.** One decision, whose retries are the same decision. Plan, selection and
write-gate validation are pure and become "the records are the ones planned"; a failed
validation is an `IoFault`. Renames and `fsync` are durable, and SQLite's rollback does not
fail. Drift is equality of contents. A failure to begin the index transaction is the fault
before the first installation.

| run | bounds | shows |
|---|---|---|
| `maintenance_safety` | N = 2, 2 processes, 2 crashes, 1 fault, 2 edits, 1 Git restore, torn writes; 2.5 M states | `EvidenceComplete`: a journal finds its staged finals and backups complete. `Uniform`: without a journal the batch is all prior or all post. `MarkerIsOwn`: a marker beside a journal is this transaction's. `CommittedStays`: nothing withdraws a committed decision. `EditsSurvive`, `WritesAreJournaled`, `SuccessMeansIndexed`. `ImplementsDecision`: the transaction implements `AtomicDecision`, pending while a journal exists, decided by the marker |
| `maintenance_recovery` | 2 crashes, 1 fault, 1 rebuild | `RecoveryConverges`: a pending journal is resolved. `RetriesSucceed`: a retried decision is acknowledged |
| `maintenance_edit_window`, `maintenance_torn_rewrite` | the smallest that show it | the findings of section 7 |

N = 2 is the smallest batch that can be torn, and every loop then has a first, a later and
a last iteration; two processes are enough for one to find what another left, since the
lock admits one at a time and a third would only repeat the second. Two crashes give the
crash during recovery from a crash. One fault and one crash together give the failing rollback. Two edits give an edit
of both outputs, or of an output and a comparison record. Deadlock is checked.

**Fairness.** `WF(Holder)`: a process that has the lock keeps executing. Weak fairness of
some process opening and some process recovering on open: the tool keeps being used.
`RetryingSpec` adds `SF` of some process applying, since the attempt is only possible
between others' turns: the owner repeats the command until it succeeds. None of it
restricts crashes or faults, which are bounded instead.

**Not claimed.** With a rebuild, `CommittedStays` and `MarkerIsOwn` do not hold: a rebuild
between the commit and the clean-up drops the marker (recovery then withdraws the batch,
uniformly), and a service with a detached index commits where nobody looks. `Uniform` and
convergence are checked with a rebuild; the other two only without.

## 4. The shared runtime of linked worktrees

`SharedRuntime` models `service/shared_runtime.rs` with the operations that feed it: opening
and reading, `propose`, `approve`, `reject` and `apply_proposal` (`service.rs`), the create
path of `canonical_write.rs`, `rebuild`, and a capture that writes a runtime record. Each
process works in the worktree `Home` gives it.

**State.** `shared` is `shared.db`: the status of each proposal and the set of local
records. `index[t][g]` is the g-th `index.db` of worktree t: mirrored proposals and records,
canonical rows, markers, and `synced`, which says whether its mirror revision equals that of
`shared.db`. A revision is a random string that triggers change on every write
(`schema.rs:476-789`), so a write of an index clears its own flag, a write of `shared.db`
clears all, and only the mirror sets one. `live` is the file a path names, `conn` the file a
process has open: an unlinked file lives on for those who have it. `file` is the canonical
record of each proposal in each worktree. `journal`, `lock`, `pc` and `run` are as above;
`acked` and `installed` are history.

**Actions.** An operation begins (`OpenCurrent`, `OpenRefreshing`, `Read`, `Command`,
`ReplayCapture`, `Rebuild`, `Close`), recovers (`Recover` classifies the journal as
`recover_pending_shared_sync_locked` does; `RollForward`, `Share`, `Unmark`, `Drop` are its
separate commits, each with its refusal), mirrors, does its work (`Propose`; `Decide`, the
check of an approval or rejection, and `SetStatus`, its unconditional update; `WriteJournal`,
`Install`, `Commit`; a rebuild's `Snapshot`, `RemoveIndex`, `CreateIndex`, `ImportRecords`),
and recovers once more before it reports (`Finish`). `Fault` is a reported
error in any step, with the rollback of the created file; `Crash`, `Edit` and `DeleteIndex`
are the environment.

**Abstractions.** One record per capture and one file per proposal. Audit events, origin
outcomes, private lifecycle and maintenance projections, which travel in the same
transactions, are left out, and so is the pending-reconciliation test of the read path. The
audit event that follows a status change is left out with them. Validation of a pending
proposal, which changes its stored report and no status, is left out too, and a repeated approval or rejection, which changes
nothing, is a command that ends. The journal's temporary name and rename are one step, since
readers only know the final name. A lock timeout changes nothing and is not an action.
The mirror reads `shared.db` and writes the index as one step: under the lock nobody else
writes `shared.db`, and where a recovery runs without the lock (`LockFreeReplay`) nothing is
claimed about mirrors. `MaxFailures` bounds crashes and
faults together, `MaxEdits` edits of records and deletions of indexes.

| run | bounds | shows |
|---|---|---|
| `shared_worktrees` | a process in each of two worktrees, one proposal, one local record, 2 journaled operations, 1 rebuild per worktree, 1 crash or fault, 1 edit or deleted index; 0.75 M states | see below |
| `shared_unguarded` | two processes in one worktree, 2 operations, 1 failure, a rebuild under an open service, recoveries without the lock; 3.2 M states | `SharedMovesForward`: no record disappears, a rejection is final, and an applied proposal is overwritten by nothing but a rejection that a recovery without the lock has overtaken (see finding 3). The run reaches that step and every refusal of the recovery |
| `shared_unlocked_refresh`, `shared_replaced_index` | the smallest that show it | the findings of section 7 |

In `shared_worktrees`: `InstalledOnce`: a canonical file that `apply_proposal` created is in
one worktree, and without a pending journal its proposal is applied in `shared.db`.
`AckedIsShared`: what was reported as done is in `shared.db`. `MarkersAreJournaled`: a marker
always belongs to the pending journal. `IndexNotAhead`: an index is ahead of `shared.db` only
by what the journal will copy, so that no refresh deletes a committed write. `MirrorIsFresh`:
an index that carries the current revision has the current content. `JournalSettles`: a
pending journal is settled unless its evidence was taken away: the source index deleted, or
the canonical file edited or removed. In that case the code refuses every operation of every
worktree, the rebuild included, until somebody repairs it; this is listed as a hazard.

Two operations are the smallest number at which a journal can meet the remains of an earlier
one; with one proposal and one record they are an application and a capture or two attempts
at either. Two worktrees suffice for a journal to be finished by a stranger. Deadlock is not
checked: with its bounds used up, the instance may stop with its source index gone, as the
program does.

**Fairness.** An operation that has begun continues (weak fairness of each process's
steps), and some process whose mirror is stale or who sees a journal keeps trying to
open or read (weak fairness of `RefreshSomewhere`). The code's own loop, five seconds of
trying the lock, gives nothing more; commands are not assumed to be repeated.

## 5. Private records, retention and private maintenance

`Retention` translates the policy of `retention.rs`: which boundaries a record of each lane
has (a session checkpoint's lease and cap, an episode's recall window, a durable record's
validity), how an owner's lifecycle facts move them, when a record is retained, current, and
when a row with its facts cannot be evaluated at all. `PrivateLifecycle` models what owners
may decide about private records (`private_lifecycle.rs`, `service/private_lifecycle.rs`),
the triggers of `schema.rs` that react, and private maintenance (`private_maintenance.rs`,
`service/private_maintenance.rs`).

**State.** `record`, `facts`, `version` are the rows, the owner's facts about them, and the
token the triggers rotate at every write of either; `updated` is a row's `updated_at`, which
captures, the commands on checkpoints and retirements set and a change of facts does not;
`generation` counts rotations;
`relation` leads from a superseded record to what followed it. `grant` and `application` are
the owner's authorizations and their one-time use; `maintenance` is the consent to
reconcile contradictions and `projection` what a reconciliation found: the conflicting
pairs, the versions they were found at, and the horizon until which that is known to hold.
`mirror` is the copy of all this from which the worktree's `index.db` recalls. `seen` (what
an owner looked at) and `acked` are history variables.

**Actions.** `Authorize` binds a group of actions to the versions of every record it touches
or cites, directly or through a maintenance plan with its horizon; `Revoke`; `Apply` uses a
grant after checking it all again. The plan (`PlanAt`) is evaluated at any instant up to the
present that its caller chose: it finds nothing in, and takes no boundary from, the records
updated after that instant (`Covered`, `records_after_evaluation_excluded` in
`maintenance.rs`), though their versions are part of its identity; it is revalidated by
planning again at that same instant. What keeps a group that the present records do not
permit from being applied under such a plan is that `Permits` is evaluated at the present,
over all records, both when it is authorized and when it is applied. `Replay` answers an
operation that was applied already. The twelve kinds of action are those of the code: extend recall or validity, retain, pin,
unpin, quarantine, release, renew from evidence, correct, supersede, consolidate, resolve a
contradiction. `Capture`, `ContinueCheckpoint`, `CloseCheckpoint` and `SucceedCheckpoint`
(which hands a session over from a checkpoint that is closed or has lapsed to a new one) are
the other writers.
`Enable`, `Disable`, `ReconcileNow` and `Refresh` are private maintenance and the mirror. A
writer holds the lifecycle lock and one immediate transaction, so a call is one step up to
its commit; what follows the commit (reconciliation, then mirror) may stop at either point,
or fail and block the projection: each action carries its `end`.

**Abstractions.** Titles, bodies and paths are a `claim` with an opposite; semantic and
procedural lanes behave alike and are one, `"durable"`. The `expired` status has no writer
among the private routes. Tokens and uuids are numbers; a correction names the fresh id it
will create. A plan targets all records (targeting some of them leaves findings out, not
versions), proposes among the actions of the run's groups, and its `not_after` is the
earliest boundary, without the review date (`stale_at`). Time moves only forward. The
actions of a group have disjoint targets, which the code requires, and are one simultaneous
step. There is one mirror; that several worktrees have one each is the subject of section 4.

`OwnerAuthority` is the abstract specification: what is decided about a record changes only
by using, once and in time, an authority over records that are still as their owner saw
them; its use leaves alone what the owner did not look at; other writers add records and
touch the rest of a row. `OwnerDecides` is the refinement, with a view of the actual rows (not
of their version tokens) as what the owner saw: it fails if a write is missing a rotation.

| run | bounds | shows |
|---|---|---|
| `private_authority` | 2 operations, 2 grants, 6 records, 7 groups with every kind of action but the last two, 3 instants, 1 other write | `FactsAreManageable`: every fact stays within what its lane allows and is backed by an event, so that no record becomes unmanageable. `SuccessionEnds`: a record is superseded exactly when one relation leads on from it, and following relations ends. `AckedIsMirrored`: what was reported, also by a retry after a stop, is in the mirror. `ClocksNeverShrink`: a retention or validity that was granted is not lost, by a correction either. `OwnerDecides` |
| `private_maintenance` | 1 operation, 1 grant, 6 records, 3 groups (a consolidation, the resolution of a conflict of three, the correction of a checkpoint), 3 instants, 1 enabling, 1 other write besides the handover, plans as of any instant so far; 0.12 M states | `NoContradictionRecalled`: while maintenance is enabled no contradictory record is recalled, from `shared.db` or from a stale mirror. `HandedOverIsPast`: a session goes on in one place; the checkpoint that was handed over is never current again, and neither is a correction of it. `PlansStayTrue`: until its horizon and while every version stands, a plan that a grant names proposes exactly what the detectors find now among the records it covers; of records updated after the instant it is evaluated at it says nothing, so it need not propose what a plan made now would. `MaintenanceFollowsConsent`: there is a projection exactly under an active grant, of that grant and of the present generation. `RecallResumes`: recall silenced by a change or by time resumes, again and again |

Two operations are the smallest number with which one may act on what another has changed
since it was authorized, and two grants with which one may be used for the other's request.
Three instants lie before, at and after the boundaries, grant windows included. A conflict of
three records is the smallest with a part that is not the whole. In the second run a plan as
of instant 0 can be authorized after the claim that contradicts the others has been captured
at instant 1, which it leaves out: there the plan stays current and proposes less than one
made at that moment, so the case in which the two differ is among the states checked. One
enabling is what that run affords beside such plans; the states a second one adds, a
projection that meets another grant's fingerprint, are left to the proofs, which hold for
every `MaxEnables` (`MaintenanceAlwaysConsented`, `NoContradictionIsRecalled`,
`PrivateTypeCorrect`). The operations are symmetric in the first run. Deadlock is not checked: with time and grants used up nothing is left to do.

**Fairness.** In `private_maintenance` alone: `WF(Refresh("refreshed"))`, somebody goes on
opening the service or reading, and such a refresh runs to its end. Reconciliations that
fail are not excluded: `RecallResumes` lets a blocked projection stay so until the next
write, as the code does.

## 6. Proposal packets and the routes that make them

A packet is a file under `.memzoi/proposals/pending` of a worktree; resolving it writes
canonical records and moves it to `resolved/applied` or `resolved/rejected`. Three routes
make packets: an import, the promotion of a session checkpoint, and a reviewed capture. Each
has its own journal and its own idea of recovery, and they meet in the same directory with
resolvers and editors.

| module | models | code |
|---|---|---|
| `PacketStore` | the files, the inventory that stops on anything unreadable or doubled, apply and reject step by step with their rollback | `service/proposal_packets/*` |
| `OriginRoutes` | imports and promotions: plan, journal, creation file by file, commit of the outcomes (and closing of the checkpoint), clean-up, the error path, and their two recoveries | `service/import_*`, `service/session_end_route_apply*` |
| `CaptureRoute` | captures: recover, check the plan again, announce, stage, place, own, commit with a marker, then complete or undo by that marker | `service/capture_route_apply/*` |
| `PacketRoutes` | the processes that open services, run any of these, wait for the lock, give up, stop; the properties | `service.rs`, `service/safe_files.rs` |
| `PacketLife` | what all of it promises of a packet | abstract |

**State.** `pending`, `resolved` and `record` are the files of each worktree; `lock`, `at`
and `job` the control; `outcome` what `shared.db` records of each candidate, which answers
every retry; `checkpoint` the session's; `journals` those of each worktree; `stage`, `owned`
and `marker` belong to captures. `route` and `home` are chosen at the start and stay. `cut`
(resolutions a crash interrupted) and `raced` (worktrees where a recovery removed the
journal of a promotion that was still running) are history; `mishaps` counts down the
crashes, errors, timeouts and edits that may still come.

**Faults.** A crash is possible between any two steps and may leave the file being written
torn; every step may fail and take the code's own error path; waiting for the lock may time
out (`GiveUp`); an edit changes a pending packet and leaves it readable. The imports' and
captures' recoveries run under the lock; a capture whose candidates are all replayed
recovers without it, and a promotion's recovery decides outside it (`JudgeJournal`,
`DiscardJournal`): these are the code's interleavings, not the model's.

**Abstractions.** A candidate is a number, its record is named by its title alone and its
packet by the first free suffix. An edited packet has another body: imports, which compare
bodies, do not find it and captures, which compare titles, call it a conflict; both write
nothing else. Index rows, and the replay of a resolution, which repairs them, are left out.
Outcomes of a capture are seen at its commit; their way to `shared.db` is section 4. A
promotion records one outcome for its batch, repeated here for each candidate. Removing a
batch's own files by moving them to a backup first is one step. All candidates are approved
and go to the repository.

| run | bounds | shows |
|---|---|---|
| `packet_routes` | 2 processes, both in one worktree or one in each of two, 2 candidates in one batch, 2 copies, 2 attempts, 2 checkpoint versions, 1 or 2 mishaps (see below), torn files; 0.6 M states | see below |
| `packet_unlocked` | 2 processes in one worktree, captures of one candidate each, 3 attempts, no mishap | the finding of section 7 |

In `packet_routes`: `OutcomesAreBacked`: a recorded creation names a packet that exists, or
that a resolver holds, or that a crash took while it was resolved. `PacketsAreAccountedFor`:
a packet nobody edited and no outcome names is announced by a journal of its worktree.
`ResolutionMatchesRecords`: applied packets and changed records are the same story, in both
directions. `OneDecisionPerRecord`: two packets never both change a record or create it
twice. `NoTwins`: no candidate is pending twice unchanged in a worktree.
`ImplementsPacketLife`: a packet is decided at most once for good, disappears undecided only
by a crash in its resolution or an operation that is undone, and never as the last one of a
name an outcome refers to. `JournalsSettle`: a journal is removed unless the state it names
is one the recovery refuses for good; `IsStuck` spells out each of those refusals.

Two candidates in one batch are the smallest that can be half made; two copies the smallest
with a suffix; two attempts let an operation meet the remains of another; a second worktree
lets outcomes be shared while files and journals are not. The one-batch bound keeps the
recovery without the lock from meeting a batch of other candidates: that case is what
`packet_unlocked` shows. Mishaps: two in every case but manual packets, promotions and
captures with the processes apart, where one keeps the instance within a few minutes; the
crash during recovery from a crash is in the other cases. Deadlock is not checked, since
attempts run out.

**Fairness.** Weak fairness of each process's opening, closing, recovering and continuing: a
command that has begun goes on and ends, and a next one is started. Strong fairness of taking
the lock to recover: a process that polls a lock which becomes free again and again gets
it before its deadline (`RepoLifecycleLock::acquire` polls for five seconds); that it gives
up all the same is a mishap, and bounded like them.

**Not claimed.** That a packet is never pending and resolved at once (`ResolvedIsTerminal`
is stated in the module and not checked): a committed capture that is not cleaned up yet, a
packet resolved by a service that was already open, and the next open reinstalls it from its
stage, after which the inventory refuses the worktree's packets. What happens in worktrees
in `raced`. That a state the recovery refuses is rare: a crash between the installation of a
captured packet and its ownership record, half a promotion's batch, an import retried by a
service that was open before the recovery, and a packet rejected before its import was
recovered, all lead to one or to a second packet; they are listed as hazards at their lines.
The documentation disclaims crash-atomicity of apply and reject
(`website/docs/reference.md:1133`), which is what `cut` is for.

## 7. What disagrees with the documentation

Each is a run whose property quotes a sentence of the repository, and which TLC violates.

1. **An edit in the window.** `install_authorized_repository_projection` compares the target
   and then renames over it. RFC 0002 says manual edits are never silently overwritten.
2. **A torn journal rewrite.** A crash while the rewrite is created leaves a short file under
   the name clean-up matches by content; every later open then fails. RFC 0002 asks for
   temporaries to be removed or deterministically recoverable.
3. **A refresh without the lock.** A capture apply with nothing to write takes no lock and
   still recovers. It can remove a journal another process has just written and is about to
   commit; that process then finds nothing to finish and reports a record that never
   reaches `shared.db`, and that the next refresh deletes. A second consequence: a rejection
   loads the proposal (`proposals.rs:301`) and later updates the row whatever it says
   (`proposals.rs:501`), and a recovery without the lock can apply the proposal in between,
   although `proposals.rs:305` refuses to reject what is applied. `SharedMovesForward` names
   that step (`OvertakenRejection`); taken out of the property, TLC finds a trace of 34 states:
   an apply fails after its journal is written, a replay has read that journal without the
   lock, another service settles it and begins to reject, the replay copies "applied" to
   `shared.db`, and the update makes it "rejected".
4. **A detached index.** A service opened before a rebuild commits rows and marker to the
   file the rebuild unlinked; recovery looks the marker up in the new file, discards the
   shared-sync journal, and the capture is reported as done. The same rebuild
   (`service/derived_index/rebuild.rs:70`) detaches a maintenance decision in the same way.
5. **A capture undone by a replay.** The same recovery without the lock as in 3, on packets:
   it finds another capture's batch installed and not committed, and takes it away. The other
   then commits outcomes that name packets which do not exist.

## 8. What is proved

Eight modules hold the proofs. Each theorem is for every value of the constants; the
assumptions are the named ones of the modules: bounds are naturals (positive where the code
starts at one), switches are Booleans, `NoProc` or `Nothing` is none of the values it stands
in for, processes live in worktrees, the candidates are a finite non-empty range 1..n, windows
are windows of time, the records at the start and those that arrive later are distinct. TLC
evaluates them in every run. Hypotheses beyond these are written in front of the theorem.

### Maintenance materialization: `MaintenanceProofs`

| theorem | states |
|---|---|
| `TypeCorrect` | `Spec => []TypeOK` |
| `EvidenceAlwaysComplete` | `Spec => []EvidenceComplete` |
| `WritesAlwaysJournaled` | `Spec => WritesAreJournaled` |
| `EditsAlwaysSurvive` | `~EditInWindow => (Spec => EditsSurvive)` |
| `AlwaysUniform` | `Spec => []Uniform` |
| `MarkerAlwaysOwn` | `MaxRebuilds = 0 => (Spec => []MarkerIsOwn)` |
| `CommittedAlwaysStays` | `MaxRebuilds = 0 => (Spec => CommittedStays)` |
| `SuccessAlwaysIndexed` | `MaxRebuilds = 0 => (Spec => SuccessMeansIndexed)` |
| `DecisionAlwaysImplemented` | `MaxRebuilds = 0 => (Spec => ImplementsDecision)` |

`EvidenceComplete` is not inductive: in a state that is not reachable, the journal could be
linked before the last backup, or clean-up could remove a staged file while the journal is
there. The inductive invariant `Inv` adds three facts. `Control`: the lock is held exactly
when the holder's control is not idle, and where its loop variable is in use. `JournalPlace`:
at which control points the journal is absent and at which it is present. `Progress`: while
staging, all earlier finals are complete; while backing up, all finals and all earlier
backups; at the journal write, everything. `TypeOK` and `Inv` are proved inductive together,
one lemma per group of actions. `WritesAlwaysJournaled` follows from `Inv` and the lemma
`OnlyReplaces`, which says which renames are the only steps of the program that change a record,
and to what. `EditsAlwaysSurvive` needs one more invariant, `Armed`: between a revalidation
and its rename the target is not a manual edit, which is where the assumption that no editor
acts in the window enters.

`Uniform` holds with rebuilds too. Its invariant, `UniformInv`, says of each control point
which outputs are prior and which post, edited ones aside: earlier than the loop variable and
later than it while installing, undoing and restoring, all of them where the journal is
absent. The other three need that nobody replaces `index.db`, and that is not a convenience:
a service that keeps an older file open retires its marker in that file, and the marker in
the new one is then another's. Where there is one index, `Resolution` is inductive:
`MarkerTells` (the marker in the index is this transaction's from its commit to its clean-up,
and absent before), `BatchTells` (which side of the commit the outputs are on), `WrittenTells`
(the rows follow), `RollbackTells` (nothing committed is being rolled back).
`DecisionAlwaysImplemented` maps each step to one of `AtomicDecision` or to a stutter: the
journal's link begins it, the commit or the undo decides it, the unlinking of the journal ends
it, an editor's steps are its disturbances.

### Linked worktrees: `SharedProofs`, `SharedCustodyProofs`

| theorem | states |
|---|---|
| `SharedTypeCorrect` | `Spec => []TypeOK` |
| `SharedNeverMovesBack` | `Spec => SharedMovesForward` |
| `DecisionsFinalUnderLock` | `~LockFreeReplay => (Spec => DecisionsAreFinal)` |
| `MirrorAlwaysFresh` | `~LockFreeReplay => (Spec => []MirrorIsFresh)` |
| `OperationsAreHeld` | `Guarded => (Spec => []Held)` |
| `FilesAreInstalledOnce` | `Guarded => (Spec => []InstalledOnce)` |
| `MarkersAlwaysJournaled` | `Guarded => (Spec => []MarkersAreJournaled)` |
| `IndexNeverAhead` | `Guarded => (Spec => []IndexNotAhead)` |
| `AckedAlwaysShared` | `Guarded => (Spec => []AckedIsShared)` |

`TypeOK` is not inductive: a step that writes with the journal it has in hand could, in a
state that is not reachable, hold none, or a capture a proposal. `InHand` says at which
control points an operation holds a journal and of which kind its item is; `TypeOK` and
`InHand` are proved inductive together, one lemma for each group of actions. Three steps alone
write `shared.db`. The copy of a payload compares the proposal's status in the transaction
that changes it (`ShareApplies`), so it matters neither who holds the lock nor whether the
journal in hand is still the one on disk; a proposal is inserted new; but the update of an
approval or rejection compares nothing, and rests on a check some steps back. Two invariants
say what that check is still worth: every operation but the replay of a capture holds the lock
(`LocksHeld`), and a decision that waits for its update is still allowed, unless it is a
rejection and a recovery without the lock has applied the proposal (`DecisionsStand`).
`SharedNeverMovesBack` follows, with that exception; without such recoveries there is none,
which is `DecisionsFinalUnderLock`, and the proofs of custody below use it.
`MirrorAlwaysFresh` takes one lemma for each way to write a database: writing
`shared.db` leaves no index with its revision, writing proposals or records of an index
changes the index's own, and markers and canonical rows are no part of the mirror.

The other four hold where every recovery is under the lock, no index is replaced under an
open service, and each worktree has one process at a time, while any number of worktrees
work at once: `Guarded`. The first two are what the runs `shared_unlocked_refresh` and
`shared_replaced_index` violate; the third because a rebuild may replace the index a
service of the same worktree is just opening without the lock, which is the same harm. Two
inductive invariants carry them. `Held`: one operation at a time has the lock, and at which
control points it works on the live index and on the journal on disk. `Custody` on top of it:
what an index has beyond `shared.db` is the pending journal's item and its marker is there
(`IndexesAccounted`), a created file is its journal's or an applied proposal's
(`FilesAccounted`), what an operation relies on from step to step (`Reliance`), and what is
settled once it only has to report (`Finishing`).

### Private records: `PrivateProofs`, `PrivateRecordProofs`, `PrivatePlanProofs`

| theorem | states |
|---|---|
| `MaintenanceAlwaysConsented` | `Spec => []MaintenanceFollowsConsent` |
| `BookkeepingHolds` | `Spec => []Bookkeeping`, an invariant the next ones rest on |
| `AckedAlwaysMirrored` | `Spec => []AckedIsMirrored` |
| `ClocksAlwaysGrow` | `Spec => ClocksNeverShrink` |
| `PrivateTypeCorrect` | `Spec => []TypeOK` |
| `FactsAlwaysManageable` | `Spec => []FactsAreManageable` |
| `SuccessionAlwaysEnds` | `Spec => []SuccessionEnds` |
| `HandedOverStaysPast` | `Spec => []HandedOverIsPast` |
| `NoContradictionIsRecalled` | `Spec => []NoContradictionRecalled` |
| `PlansAlwaysTrue` | `Spec => []PlansStayTrue`, for plans as of any instant |
| `OwnerAlwaysDecides` | `Spec => OwnerDecides`, the refinement of `OwnerAuthority` |

`MaintenanceFollowsConsent` is inductive as it stands: every writer either leaves projection,
grant and generation alone or ends in one of three ways (`AfterWriteFollows`,
`ReconcileFollows`, `RefreshFollows`), each of which stamps what it leaves with the generation
of the step. `AckedIsMirrored` is not: a mirror or an application from the future would
break it at the next copy. `Bookkeeping` adds that neither is ahead of the generation, that
facts have their types, and that a grant row holds a well-formed request. Every step
but an application leaves facts and relations alone (`OtherStepsKeep`). For an application,
`ActionOnIs` says that a record is touched by one action of a well-formed request, whatever
`CHOOSE` picks; `FactsGrow` goes through the kinds of action, each under the condition
`Permits` puts on it, and a correction cannot reach a record that exists; `ApplyCorrections`
follows a new relation back to the action that made it.

`FactsAreManageable` needs to know which event backs each fact, and that the facts of a record
that is absent are blank: `FactsAreBacked`. `SuccessionEnds` adds to its own three parts that
a predecessor is left exactly once and left by the record that names it; a chain cannot close
because a record that is new to a relation has not been the start of one. `HandedOverIsPast`
follows from the boundaries of a checkpoint never moving once passed. `NoContradictionRecalled`
rests on `ProjectionsReflect` (a projection names what contradicted at its generation), on
the mirror carrying a generation with its rows, and on no record being updated later than
now, so that a reconciliation leaves none out. `PlansStayTrue` rests on `PlansTell` (what a
plan found among the records it covers, by their present rows as long as the versions stand)
and `UpdatesTell` (no record is updated in the future, and a record's review is never later
than its last update, so that a record a plan covers has been reviewed by the plan's
instant); `SameProposals` then shows that no finding among the covered records appears or
goes before the horizon. `OwnerAlwaysDecides` rests on `SeenTells` (the rows behind the
versions a grant names are those its owner saw) and maps each authorization, revocation and
application to the abstract one and everything else to a stutter or to the passing of time.

### Packets: `PacketProofs`, `PacketCustodyProofs`

| theorem | states |
|---|---|
| `PacketTypeCorrect` | `Spec => []TypeOK` |
| `RecordsAlwaysMatch` | `Spec => []ResolutionMatchesRecords` |
| `OneDecisionAlways` | `Spec => []OneDecisionPerRecord` |
| `PacketsAlwaysAccounted` | `Unshared => (Spec => []PacketsAreAccountedFor)` |
| `OutcomesAlwaysBacked` | `Unshared => (Spec => []OutcomesAreBacked)` |
| `NeverTwins` | `Unshared => (Spec => []NoTwins)` |
| `LifeAlwaysImplemented` | `Unshared => (Spec => ImplementsPacketLife)`, the refinement of `PacketLife` |

`Typed` strengthens `TypeOK`: `JobFits` says which local variables a process has at each
step, of which route, and that the candidate in hand is one its plan creates. The next two
follow from `Resolutive`: a process that resolves holds the lock; where nobody resolves, the
records of a worktree and its resolved packets are one `Story`; where somebody does, the
`Story` is that of the records it would roll back to, and the present ones differ from those
by the writes made so far (`Midway`). `StoryOverwritten` is the heart: a packet whose records
were untouched when it was checked disturbs no other packet's, finished or not. A rollback
falls back to the prior story, a crash moves the packet to those that were cut. Every other
step of every route leaves records and resolutions alone (`OriginateElsewhere`,
`CapturesElsewhere`, `ServeElsewhere`).

The last four are about files, journals and outcomes together, and `Custody` carries them.
Its `Books` say what a worktree looks like from outside: a loose packet is recorded or
announced (`Accounted`); a recorded one is kept where no journal will undo it (`Backed`); an
unedited one is alone (`Twinless`); a capture journal is the only one, and committed only
once its outcomes are recorded (`Batched`); a promotion records all or nothing (`Promoted`).
Packets a resolver took away count as if they were there, since it may put them back. Its
`IsAtWork` says the same of every control point: while a batch is created, the files before
the candidate in hand are there and those from it on are not (`IsUpTo`); what a plan replays
is what is recorded (`Fits`); a recovery that undoes knows its marker is another's, and one
that retires a journal has left none of its files unrecorded. Neither half is inductive
alone. `Orderly` gives the lock to every label that needs it, and `Footprint` bounds what a
step writes in other worktrees and without the lock, so that one process's work survives the
others' steps (`OthersSpared`, `SparedWorks`); then there is one lemma for each action.

`Unshared`: no worktree in which captures are applied has two processes. Processes that
import, promote or resolve packets of these routes share worktrees freely, and captures work
at once in as many worktrees as there are. Without it `OutcomesAreBacked` is false, and with
it the refinement: that is the fifth item of section 7, a capture with nothing to write that
recovers without the lock. `Accounted` and `Twinless` are proved together with `Backed`, so
they share the hypothesis. The run `packet_routes` also has two captures in one worktree, over
one batch, where the four properties hold: such a capture has nothing to write only once that
batch is recorded.

For `LifeAlwaysImplemented`, every step is one of `PacketLife`: `ResolverLives` follows a
packet through its resolution, rollback and crash, pending as long as it is held;
`OutcomesAreFinal` shows that no command or recovery records a candidate twice; and with
`OutcomesAreBacked` after the step, whatever vanished was not the last packet of its name.

Only model-checked: the liveness properties, since fairness and ENABLED are outside the
prover's fragment.

## 9. What is not modelled

- Expiry, planning over canonical records and the memory policy: next in the plan.
- The write gate, secret scanning, admission of records, capture review and policy, OKF
  parsing and rendering, capture extraction and its evaluation: functions of their input
  without shared state; the models take their verdict as an input or as a fault.
- Runtime records of promotions and imports, promotions without a checkpoint, blocked and
  discarded import candidates, the replay of a resolution.
- Search, context, precheck, exports and the recall evaluation: read-only.
- Git inspection: its answers are inputs.
- CLI and MCP server: argument parsing, rendering and dispatch over the operations above. What
  has state of its own comes last in the plan: the MCP server's planning worker with its
  deadlines and bounded queues, and the self-update.
- Power loss that undoes an `fsync`ed rename, corruption of SQLite, and a clock that moves
  backwards.

To check by hand, in this directory:
`tlc -config Maintenance_safety.cfg MCMaintenance`, and likewise for every run of
`PROJECT.json`; `tlapm MaintenanceProofs.tla`, and likewise the other proof modules
(`MaintenanceProofs` extends `MCMaintenance`, which holds the mapping to `AtomicDecision`).
