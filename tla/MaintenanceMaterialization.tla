---------------------- MODULE MaintenanceMaterialization ----------------------
(***************************************************************************)
(* Repository maintenance materialization: one explicit decision rewrites  *)
(* a batch of canonical records under .memzoi/records from their prior to  *)
(* their post content.  service/repository_maintenance_materialization.rs  *)
(* drives it, its journal.rs keeps the write-ahead journal, the staged     *)
(* finals, the backups and the commit marker, and repository_io.rs         *)
(* provides the compare-then-rename file primitives.                       *)
(*                                                                         *)
(* Record 0 stands for the comparison records the decision was made        *)
(* against: the transaction reads them and never writes them.  Outputs     *)
(* 1..N are written in path order.                                         *)
(*                                                                         *)
(* Everything the repository lifecycle lock serialises is one actor, the   *)
(* lock holder, whose program counter is pc.  The environment edits        *)
(* records, restores them with Git, crashes processes and fails I/O.       *)
(***************************************************************************)
EXTENDS Integers

CONSTANTS
    N,            \* number of records one decision rewrites
    Procs,        \* processes with a service on this worktree
    NoProc,       \* the lock is free
    MaxCrashes, MaxFaults, MaxEdits, MaxRestores, MaxRebuilds,  \* bounds
    TornWrites,   \* a crash may leave the file being created incomplete
    EditInWindow  \* an editor may act between a revalidation and its rename

ASSUME NAssumption == N \in Nat \ {0}
ASSUME NoProcAssumption == NoProc \notin Procs
ASSUME BoundAssumption == {MaxCrashes, MaxFaults, MaxEdits, MaxRestores, MaxRebuilds} \subseteq Nat
ASSUME SwitchAssumption == TornWrites \in BOOLEAN /\ EditInWindow \in BOOLEAN

VARIABLES
    bytes,    \* content of each canonical record
    own,      \* whose inode an output has: the journaled prior or post one
    stage, backup,  \* transaction files of each output
    journal,  \* the maintenance journal: absent, initial, with post identities
    jtmp,     \* the temporary the journal is linked from
    rtmp,     \* the temporary the journal rewrite is exchanged with
    index,    \* each index.db file ever installed: record rows, commit marker
    live,     \* the one index.db names now
    lock, proc, conn,   \* lock holder; each process's state and open index
    pc, run,  \* the lock holder's control and local variables
    touched, committed, acked,  \* history: see below
    crashes, faults, edits, restores  \* what the bounds count

disk   == <<bytes, own, stage, backup, journal, jtmp, rtmp>>
db     == <<index, live>>
procs  == <<lock, proc, conn>>
ghost  == <<touched, committed, acked>>
budget == <<crashes, faults, edits, restores>>
vars   == <<disk, db, procs, pc, run, ghost, budget>>

Outputs == 1..N
Records == 0..N

Bytes == {"prior", "post", "other"}     \* "other": any further content, or no file
Owners == {"prior", "post", "none"}
TxFile == {"none", "torn", "ok"}
JournalTmp == {"none", "foreign", "match"}       \* match: the bytes this decision would write
RewriteTmp == {"none", "torn", "next", "prev"}   \* next: the rewrite; prev: what it replaced

PCs == {"idle", "load", "restore", "cleanVerify", "cleanJournal", "cleanTmp",
        "cleanStage", "cleanBackup", "recognize", "reindex", "retire", "stage",
        "backup", "journalTmp", "journalLink", "journalUnlink", "install",
        "rewriteTmp", "rewriteSwap", "rewriteUnlink", "verify", "commit",
        "undoFailed", "undo"}

(* then is where the shared clean-up loop returns to. *)
Then == {"none", "written", "error", "recovered", "already", "fresh"}

Run == [k : 0..N, armed : 0..N, goal : {"prior", "post"}, then : Then,
        seen : [Outputs -> {"prior", "post"}]]

NoRun == [k |-> 0, armed |-> 0, goal |-> "prior", then |-> "none",
          seen |-> [i \in Outputs |-> "prior"]]

TypeDisk ==
    /\ bytes \in [Records -> Bytes]
    /\ own \in [Outputs -> Owners]
    /\ stage \in [Outputs -> TxFile]
    /\ backup \in [Outputs -> TxFile]
    /\ journal \in {"none", "initial", "rewritten"}
    /\ jtmp \in JournalTmp
    /\ rtmp \in RewriteTmp

TypeDb ==
    /\ index \in [0..MaxRebuilds -> [rows : [Records -> Bytes], marker : BOOLEAN]]
    /\ live \in 0..MaxRebuilds

TypeProcs ==
    /\ lock \in Procs \cup {NoProc}
    /\ proc \in [Procs -> {"closed", "opening", "open", "recovering", "applying"}]
    /\ conn \in [Procs -> 0..MaxRebuilds]
    /\ pc \in PCs

TypeHistory ==
    /\ touched \subseteq Records
    /\ committed \in BOOLEAN
    /\ acked \in BOOLEAN
    /\ crashes \in 0..MaxCrashes
    /\ faults \in 0..MaxFaults
    /\ edits \in 0..MaxEdits
    /\ restores \in 0..MaxRestores

TypeOK == TypeDisk /\ TypeDb /\ TypeProcs /\ run \in Run /\ TypeHistory

(* An initialised bundle: the records the plan read, indexed, nothing pending. *)
Init ==
    /\ bytes = [r \in Records |-> "prior"]
    /\ own = [i \in Outputs |-> "none"]
    /\ stage = [i \in Outputs |-> "none"]
    /\ backup = [i \in Outputs |-> "none"]
    /\ journal = "none" /\ jtmp = "none" /\ rtmp = "none"
    /\ index = [g \in 0..MaxRebuilds |->
                  [rows |-> [r \in Records |-> "prior"], marker |-> FALSE]]
    /\ live = 0
    /\ lock = NoProc
    /\ proc = [p \in Procs |-> "closed"]
    /\ conn = [p \in Procs |-> 0]
    /\ pc = "idle" /\ run = NoRun
    /\ touched = {} /\ committed = FALSE /\ acked = FALSE
    /\ crashes = 0 /\ faults = 0 /\ edits = 0 /\ restores = 0

-------------------------------------------------------------------------------
(* The index.db the lock holder has open, and the drift inspection against it. *)
MyIndex == index[conn[lock]]
Projected(content) ==
    [r \in Records |-> IF r \in Outputs THEN content ELSE MyIndex.rows[r]]
IsCurrent(rows) == rows = bytes

(* Faulty variants: the import of the final records, or the marker, is left *)
(* out of the index transaction.                                            *)
SetMarkerOnly(content, marker) == index' = [index EXCEPT ![conn[lock]].marker = marker]
SetRowsOnly(content, marker) == index' = [index EXCEPT ![conn[lock]].rows = Projected(content)]

SetIndex(content, marker) ==
    index' = [index EXCEPT ![conn[lock]] = [rows |-> Projected(content), marker |-> marker]]

(* The loops over the decision's outputs; a faulty one runs once too often. *)
MorePastTheEnd(i) == i <= N
MoreAfter(i) == i < N

AllOutputs(content) == \A i \in Outputs : bytes[i] = content
ComparisonsMatch == bytes[0] = "prior"

Goto(label) == pc' = label /\ UNCHANGED procs
With(i, label) == run' = [run EXCEPT !.k = i, !.armed = 0] /\ Goto(label)
Return(label) == run' = [run EXCEPT !.k = 1, !.armed = 0, !.then = label]

(* The holder leaves its critical section: a failed open closes the service. *)
Release(ok) ==
    /\ lock' = NoProc /\ pc' = "idle" /\ run' = NoRun
    /\ LET closes == proc[lock] = "recovering" /\ ~ok
       IN /\ proc' = [proc EXCEPT ![lock] = IF closes THEN "closed" ELSE "open"]
          /\ conn' = IF closes THEN [conn EXCEPT ![lock] = 0] ELSE conn

(* An error return that keeps all transaction evidence where it is. *)
Fail == Release(FALSE) /\ UNCHANGED <<disk, db, ghost, budget>>

-------------------------------------------------------------------------------
(* Processes.  Opening a service looks for the journal before it takes the *)
(* lock; applying takes the lock and recovers first, in the same section.  *)

OpenService(p) ==
    /\ proc[p] = "closed"
    /\ proc' = [proc EXCEPT ![p] = IF journal = "none" THEN "open" ELSE "opening"]
    /\ conn' = [conn EXCEPT ![p] = live]
    /\ UNCHANGED <<disk, db, lock, pc, run, ghost, budget>>

CloseService(p) ==
    /\ proc[p] = "open" /\ lock # p
    /\ proc' = [proc EXCEPT ![p] = "closed"]
    /\ conn' = [conn EXCEPT ![p] = 0]
    /\ UNCHANGED <<disk, db, lock, pc, run, ghost, budget>>

LockTimeout(p) ==
    /\ proc[p] = "opening" /\ lock # NoProc
    /\ proc' = [proc EXCEPT ![p] = "closed"]
    /\ conn' = [conn EXCEPT ![p] = 0]
    /\ UNCHANGED <<disk, db, lock, pc, run, ghost, budget>>

TakeLock(p, from, to) ==
    /\ lock = NoProc /\ proc[p] = from
    /\ lock' = p
    /\ proc' = [proc EXCEPT ![p] = to]
    /\ pc' = "load"
    /\ UNCHANGED <<disk, db, conn, run, ghost, budget>>

RecoverOnOpen(p) == TakeLock(p, "opening", "recovering")
Apply(p) == TakeLock(p, "open", "applying")

-------------------------------------------------------------------------------
(* recover_locked: load, classify, restore one state, reconcile, clean up. *)

AfterRecovery ==
    IF proc[lock] = "recovering"
    THEN Release(TRUE)
    ELSE run' = NoRun /\ Goto("recognize")

(* A mixture is recoverable when its post entries form a prefix and the    *)
(* entries recovery would overwrite are files the transaction owns.        *)
MixtureOwned ==
    LET post == {i \in Outputs : bytes[i] = "post"}
    IN /\ \A i \in post : 1..i \subseteq post
       /\ MyIndex.marker => \A i \in Outputs \ post : own[i] = "prior"
       /\ ~MyIndex.marker /\ journal = "rewritten" => \A i \in post : own[i] = "post"

Recoverable ==
    /\ \A i \in Outputs : stage[i] = "ok" /\ backup[i] = "ok" /\ bytes[i] # "other"
    /\ ComparisonsMatch
    /\ AllOutputs("prior") \/ AllOutputs("post") \/ MixtureOwned

RecoveryGoal ==
    IF AllOutputs("prior") THEN "prior"
    ELSE IF AllOutputs("post") \/ MyIndex.marker THEN "post"
    ELSE "prior"

RecoverLoad ==
    /\ pc = "load"
    /\ \/ journal = "none" /\ AfterRecovery /\ UNCHANGED <<disk, db, ghost, budget>>
       \/ journal # "none" /\ ~Recoverable /\ Fail
       \/ /\ journal # "none" /\ Recoverable
          /\ run' = [NoRun EXCEPT !.seen = [i \in Outputs |-> bytes[i]], !.goal = RecoveryGoal]
          /\ Goto("restore")
          /\ UNCHANGED <<disk, db, ghost, budget>>

(* Faulty variant: recovery overwrites what it finds now, not what it saw. *)
RestoreBlindly(i) == TRUE
StillAsSeen(i) == bytes[i] = run.seen[i]

Unrestored == {i \in Outputs : run.seen[i] # run.goal}
IsNextRestore(i) ==
    \A j \in Unrestored : IF run.goal = "prior" THEN j <= i ELSE i <= j

(* restore_journal_state captures and revalidates the classified content.  *)
RestoreRevalidate ==
    /\ pc = "restore" /\ run.armed = 0
    /\ \E i \in Unrestored :
          /\ IsNextRestore(i)
          /\ IF StillAsSeen(i)
             THEN /\ run' = [run EXCEPT !.armed = i]
                  /\ Goto("restore")
                  /\ UNCHANGED <<disk, db, ghost, budget>>
             ELSE Fail

RestoreRename ==
    /\ pc = "restore" /\ run.armed # 0
    /\ bytes' = [bytes EXCEPT ![run.armed] = run.goal]
    /\ own' = [own EXCEPT ![run.armed] = "none"]
    /\ run' = [run EXCEPT !.seen[run.armed] = run.goal, !.armed = 0]
    /\ Goto("restore")
    /\ UNCHANGED <<stage, backup, journal, jtmp, rtmp, db, ghost, budget>>

(* verify_complete_*_state, then reconcile_recovery_index in one transaction. *)
ReconcileIndex ==
    /\ pc = "restore" /\ Unrestored = {}
    /\ IF AllOutputs(run.goal) /\ ComparisonsMatch /\ IsCurrent(Projected(run.goal))
       THEN /\ SetIndex(run.goal, run.goal = "post")
            /\ committed' = (run.goal = "post")
            /\ Return("recovered") /\ Goto("cleanVerify")
            /\ UNCHANGED <<disk, live, touched, acked, budget>>
       ELSE Fail

-------------------------------------------------------------------------------
(* journal::cleanup, and the tail it shares with cleanup_artifacts_only    *)
(* and cleanup_orphans_for_completed_decision.                             *)

(* The superseded journal, or the rewrite a crash left before its exchange; *)
(* the latter is looked for only under the name the current files give.     *)
RewriteTmpFound ==
    IF journal = "rewritten" THEN rtmp # "none"
    ELSE rtmp # "none" /\ \A i \in Outputs : bytes[i] = "post" /\ own[i] = "post"

(* Faulty variant: a rewrite that never got exchanged is not recognised. *)
OnlySupersededMatches == rtmp = "prev"
RewriteTmpMatches == rtmp = IF journal = "rewritten" THEN "prev" ELSE "next"

CleanVerify ==
    /\ pc = "cleanVerify"
    /\ IF /\ \A i \in Outputs : stage[i] = "ok" /\ backup[i] = "ok"
          /\ RewriteTmpFound => RewriteTmpMatches
       THEN /\ rtmp' = IF RewriteTmpFound THEN "none" ELSE rtmp
            /\ Goto("cleanJournal")
            /\ UNCHANGED <<bytes, own, stage, backup, journal, jtmp, db, run, ghost, budget>>
       ELSE Fail

(* Faulty variant: the journal outlives the files it refers to. *)
CleanJournalLast ==
    /\ pc = "cleanJournal"
    /\ Goto("cleanTmp")
    /\ UNCHANGED <<disk, db, run, ghost, budget>>

CleanJournal ==
    /\ pc = "cleanJournal"
    /\ journal' = "none"
    /\ Goto("cleanTmp")
    /\ UNCHANGED <<bytes, own, stage, backup, jtmp, rtmp, db, run, ghost, budget>>

CleanTmp ==
    /\ pc = "cleanTmp"
    /\ IF jtmp \in {"none", "match"}
       THEN /\ jtmp' = "none"
            /\ Goto("cleanStage")
            /\ UNCHANGED <<bytes, own, stage, backup, journal, rtmp, db, run, ghost, budget>>
       ELSE Fail

CleanStage ==
    /\ pc = "cleanStage"
    /\ IF stage[run.k] # "torn"
       THEN /\ stage' = [stage EXCEPT ![run.k] = "none"]
            /\ Goto("cleanBackup")
            /\ UNCHANGED <<bytes, own, backup, journal, jtmp, rtmp, db, run, ghost, budget>>
       ELSE Fail

CleanReturn ==
    CASE run.then = "written"   -> Release(TRUE) /\ acked' = TRUE
      [] run.then = "recovered" -> AfterRecovery /\ UNCHANGED acked
      [] run.then = "already"   -> run' = NoRun /\ Goto("reindex") /\ UNCHANGED acked
      [] run.then = "fresh"     -> run' = NoRun /\ Goto("retire") /\ UNCHANGED acked
      [] OTHER                  -> Release(FALSE) /\ UNCHANGED acked

CleanBackup ==
    /\ pc = "cleanBackup"
    /\ IF backup[run.k] # "torn"
       THEN /\ backup' = [backup EXCEPT ![run.k] = "none"]
            /\ IF MoreAfter(run.k) THEN With(run.k + 1, "cleanStage") /\ UNCHANGED acked
                            ELSE CleanReturn
            /\ UNCHANGED <<bytes, own, stage, journal, jtmp, rtmp, db, touched, committed, budget>>
       ELSE Fail

-------------------------------------------------------------------------------
(* apply_repository_maintenance_materialization after its recovery.        *)

(* Faulty variant: a decision that is already applied is not recognised. *)
RecognizePriorOnly == AllOutputs("prior")
Recognizable == AllOutputs("post") \/ AllOutputs("prior")

(* recognize_exact_after_state, else prepare_exact_pre_state; both go on   *)
(* to remove this decision's orphan transaction files.                     *)
Recognize ==
    /\ pc = "recognize"
    /\ IF ComparisonsMatch /\ Recognizable
       THEN /\ Return(IF AllOutputs("post") THEN "already" ELSE "fresh")
            /\ Goto("cleanStage")
            /\ UNCHANGED <<disk, db, ghost, budget>>
       ELSE Fail

(* reconcile_materialized_index, and the "already current" result. *)
Reindex ==
    /\ pc = "reindex"
    /\ IF IsCurrent(Projected("post"))
       THEN /\ SetIndex("post", MyIndex.marker)
            /\ acked' = TRUE
            /\ Release(TRUE)
            /\ UNCHANGED <<disk, live, touched, committed, budget>>
       ELSE Fail

(* Faulty variant: the marker of an earlier application is kept. *)
MarkerKept == index
MarkerRetired == [index EXCEPT ![conn[lock]].marker = FALSE]

(* Capture the prior identities, build the journal from them, and delete   *)
(* the commit marker of an earlier application of the same decision.       *)
RetirePriorMarker ==
    /\ pc = "retire"
    /\ IF AllOutputs("prior") /\ ComparisonsMatch
       THEN /\ own' = [i \in Outputs |-> "prior"]
            /\ jtmp' = IF jtmp = "match" /\ \E i \in Outputs : own[i] # "prior"
                       THEN "foreign" ELSE jtmp
            /\ rtmp' = "none"
            /\ index' = MarkerRetired
            /\ touched' = {} /\ committed' = FALSE
            /\ With(1, "stage")
            /\ UNCHANGED <<bytes, stage, backup, journal, live, acked, budget>>
       ELSE Fail

(* A failure before the journal is durable: cleanup_artifacts_only. *)
AbandonArtifacts == Return("error") /\ Goto("cleanTmp")

Stage ==
    /\ pc = "stage"
    /\ IF stage[run.k] = "none"
       THEN /\ stage' = [stage EXCEPT ![run.k] = "ok"]
            /\ IF MoreAfter(run.k) THEN With(run.k + 1, "stage") ELSE With(1, "backup")
       ELSE AbandonArtifacts /\ UNCHANGED stage
    /\ UNCHANGED <<bytes, own, backup, journal, jtmp, rtmp, db, ghost, budget>>

(* The journaled prior file: its content and its identity.  The faulty     *)
(* variant compares the identity alone.                                    *)
SameInode(i) == own[i] = "prior"
IsPriorFile(i) == bytes[i] = "prior" /\ own[i] = "prior"

Backup ==
    /\ pc = "backup"
    /\ IF backup[run.k] = "none" /\ IsPriorFile(run.k)
       THEN /\ backup' = [backup EXCEPT ![run.k] = "ok"]
            /\ IF MoreAfter(run.k) THEN With(run.k + 1, "backup") ELSE With(1, "journalTmp")
       ELSE AbandonArtifacts /\ UNCHANGED backup
    /\ UNCHANGED <<bytes, own, stage, journal, jtmp, rtmp, db, ghost, budget>>

(* write_journal: a matching orphan temporary is replaced, any other one   *)
(* is an error; the link makes the journal appear complete or not at all.  *)
WriteJournalTmp ==
    /\ pc = "journalTmp"
    /\ IF jtmp = "foreign"
       THEN AbandonArtifacts /\ UNCHANGED jtmp
       ELSE jtmp' = "match" /\ With(1, "journalLink")
    /\ UNCHANGED <<bytes, own, stage, backup, journal, rtmp, db, ghost, budget>>

(* Faulty variant: installation starts before the journal is durable. *)
LinkJournalLater ==
    /\ pc = "journalLink"
    /\ With(1, "install")
    /\ UNCHANGED <<disk, db, ghost, budget>>

LinkJournal ==
    /\ pc = "journalLink"
    /\ journal' = "initial"
    /\ With(1, "journalUnlink")
    /\ UNCHANGED <<bytes, own, stage, backup, jtmp, rtmp, db, ghost, budget>>

UnlinkJournalTmp ==
    /\ pc = "journalUnlink"
    /\ jtmp' = "none"
    /\ With(1, "install")
    /\ UNCHANGED <<bytes, own, stage, backup, journal, rtmp, db, ghost, budget>>

InstallRevalidate ==
    /\ pc = "install" /\ run.armed = 0
    /\ IF IsPriorFile(run.k)
       THEN run' = [run EXCEPT !.armed = run.k] /\ Goto("install")
       ELSE With(run.k, "undoFailed")
    /\ UNCHANGED <<disk, db, ghost, budget>>

InstallRename ==
    /\ pc = "install" /\ run.armed # 0
    /\ bytes' = [bytes EXCEPT ![run.k] = "post"]
    /\ own' = [own EXCEPT ![run.k] = "post"]
    /\ IF MoreAfter(run.k) THEN With(run.k + 1, "install") ELSE With(N, "rewriteTmp")
    /\ UNCHANGED <<stage, backup, journal, jtmp, rtmp, db, ghost, budget>>

(* rewrite_journal: persist the post identities by exchanging the journal  *)
(* with a complete new one, then remove the superseded one.                *)
WriteRewriteTmp ==
    /\ pc = "rewriteTmp"
    /\ rtmp' = "next"
    /\ With(N, "rewriteSwap")
    /\ UNCHANGED <<bytes, own, stage, backup, journal, jtmp, db, ghost, budget>>

SwapJournal ==
    /\ pc = "rewriteSwap"
    /\ journal' = "rewritten" /\ rtmp' = "prev"
    /\ With(N, "rewriteUnlink")
    /\ UNCHANGED <<bytes, own, stage, backup, jtmp, db, ghost, budget>>

UnlinkSuperseded ==
    /\ pc = "rewriteUnlink"
    /\ rtmp' = "none"
    /\ With(N, "verify")
    /\ UNCHANGED <<bytes, own, stage, backup, journal, jtmp, db, ghost, budget>>

VerifyPostState ==
    /\ pc = "verify"
    /\ With(N, IF AllOutputs("post") /\ ComparisonsMatch THEN "commit" ELSE "undo")
    /\ UNCHANGED <<disk, db, ghost, budget>>

(* The index transaction: the imported final records, the commit marker    *)
(* (an INSERT, so it must be absent) and the drift inspection, COMMIT.     *)
Commit ==
    /\ pc = "commit"
    /\ IF ~MyIndex.marker /\ IsCurrent(Projected("post"))
       THEN /\ SetIndex("post", TRUE)
            /\ committed' = TRUE
            /\ Return("written") /\ Goto("cleanVerify")
            /\ UNCHANGED <<disk, live, touched, acked, budget>>
       ELSE With(N, "undo") /\ UNCHANGED <<disk, db, ghost, budget>>

-------------------------------------------------------------------------------
(* Rollback of a reported failure, the index transaction rolled back.      *)

(* rollback_failed_install_if_present: only post content is put back.      *)
UndoFailedRevalidate ==
    /\ pc = "undoFailed" /\ run.armed = 0
    /\ IF bytes[run.k] = "post"
       THEN run' = [run EXCEPT !.armed = run.k] /\ Goto("undoFailed")
       ELSE With(run.k - 1, "undo")
    /\ UNCHANGED <<disk, db, ghost, budget>>

(* rollback_installed: in reverse order, best effort, by owned identity.   *)
UndoRevalidate ==
    /\ pc = "undo" /\ run.armed = 0 /\ run.k # 0
    /\ IF bytes[run.k] = "post" /\ own[run.k] = "post"
       THEN run' = [run EXCEPT !.armed = run.k] /\ Goto("undo")
       ELSE With(run.k - 1, "undo")
    /\ UNCHANGED <<disk, db, ghost, budget>>

UndoRename ==
    /\ pc \in {"undoFailed", "undo"} /\ run.armed # 0
    /\ bytes' = [bytes EXCEPT ![run.k] = "prior"]
    /\ own' = [own EXCEPT ![run.k] = "none"]
    /\ With(run.k - 1, "undo")
    /\ UNCHANGED <<stage, backup, journal, jtmp, rtmp, db, ghost, budget>>

(* Faulty variant: evidence is removed although the rollback was partial. *)
AssumePreState == TRUE
VerifiedPreState == AllOutputs("prior") /\ ComparisonsMatch /\ IsCurrent(MyIndex.rows)

(* cleanup_verified_pre_state: evidence is kept unless the pre-state and   *)
(* the index are both exactly restored.                                    *)
CleanVerifiedPreState ==
    /\ pc = "undo" /\ run.k = 0
    /\ IF VerifiedPreState
       THEN /\ Return("error") /\ Goto("cleanVerify")
            /\ UNCHANGED <<disk, db, ghost, budget>>
       ELSE Fail

-------------------------------------------------------------------------------
(* The environment.                                                        *)

(* An I/O error or a refusal by a check outside this model. *)
IoFault ==
    /\ faults < MaxFaults /\ faults' = faults + 1
    /\ \/ /\ pc \in {"stage", "backup", "journalTmp"}
          /\ AbandonArtifacts
          /\ jtmp' = IF pc = "journalTmp" /\ jtmp = "match" THEN "none" ELSE jtmp
          /\ UNCHANGED <<bytes, own>>
       \/ /\ pc = "install"                           \* before its rename ...
          /\ With(run.k, "undoFailed")
          /\ UNCHANGED <<bytes, own, jtmp>>
       \/ /\ pc = "install" /\ run.armed # 0          \* ... or after it
          /\ bytes' = [bytes EXCEPT ![run.k] = "post"]
          /\ own' = [own EXCEPT ![run.k] = "post"]
          /\ With(run.k, "undoFailed")
          /\ UNCHANGED jtmp
       \/ /\ pc \in {"rewriteTmp", "commit"}
          /\ With(N, "undo")
          /\ UNCHANGED <<bytes, own, jtmp>>
       \/ /\ pc \in {"undoFailed", "undo"} /\ run.armed # 0
          /\ With(run.k - 1, "undo")
          /\ UNCHANGED <<bytes, own, jtmp>>
       \/ /\ pc \in {"load", "restore", "cleanVerify", "cleanJournal", "cleanTmp",
                     "cleanStage", "cleanBackup", "recognize", "reindex", "retire",
                     "journalUnlink"}
          /\ Release(FALSE)
          /\ UNCHANGED <<bytes, own, jtmp>>
    /\ UNCHANGED <<stage, backup, journal, rtmp, db, ghost, crashes, edits, restores>>

(* The lock holder dies; the file it was creating may be incomplete.  The  *)
(* operating system releases the lock.                                     *)
Crash ==
    /\ lock # NoProc /\ crashes < MaxCrashes
    /\ crashes' = crashes + 1
    /\ lock' = NoProc /\ pc' = "idle" /\ run' = NoRun
    /\ proc' = [proc EXCEPT ![lock] = "closed"]
    /\ conn' = [conn EXCEPT ![lock] = 0]
    /\ \/ UNCHANGED disk
       \/ /\ TornWrites
          /\ \/ /\ pc = "stage" /\ stage[run.k] = "none"
                /\ stage' = [stage EXCEPT ![run.k] = "torn"]
                /\ UNCHANGED <<backup, jtmp, rtmp>>
             \/ /\ pc = "backup" /\ backup[run.k] = "none"
                /\ backup' = [backup EXCEPT ![run.k] = "torn"]
                /\ UNCHANGED <<stage, jtmp, rtmp>>
             \/ /\ pc = "journalTmp" /\ jtmp' = "foreign" /\ UNCHANGED <<stage, backup, rtmp>>
             \/ /\ pc = "rewriteTmp" /\ rtmp' = "torn" /\ UNCHANGED <<stage, backup, jtmp>>
          /\ UNCHANGED <<bytes, own, journal>>
    /\ UNCHANGED <<db, ghost, faults, edits, restores>>

(* Anyone edits a record, in place or by replacing the file.               *)
Edit(r, content, inPlace) ==
    /\ edits < MaxEdits /\ edits' = edits + 1
    /\ EditInWindow \/ run.armed # r \/ r = 0
    /\ bytes[r] # content \/ (r # 0 /\ ~inPlace)
    /\ bytes' = [bytes EXCEPT ![r] = content]
    /\ own' = IF r \in Outputs /\ ~inPlace THEN [own EXCEPT ![r] = "none"] ELSE own
    /\ touched' = touched \cup {r}
    /\ UNCHANGED <<stage, backup, journal, jtmp, rtmp, db, procs, pc, run,
                   committed, acked, crashes, faults, restores>>

(* Another mutation of this service family: under the lock, with a current *)
(* index, a canonical write replaces the record and its row.               *)
OtherCanonicalWrite(p, r) ==
    /\ lock = NoProc /\ proc[p] = "open"
    /\ IsCurrent(index[conn[p]].rows)
    /\ edits < MaxEdits /\ edits' = edits + 1
    /\ bytes' = [bytes EXCEPT ![r] = "other"]
    /\ own' = IF r \in Outputs THEN [own EXCEPT ![r] = "none"] ELSE own
    /\ index' = [index EXCEPT ![conn[p]].rows[r] = "other"]
    /\ touched' = touched \cup {r}
    /\ UNCHANGED <<stage, backup, journal, jtmp, rtmp, live, procs, pc, run,
                   committed, acked, crashes, faults, restores>>

(* git restore of the whole batch while no transaction is pending. *)
GitRestore ==
    /\ lock = NoProc /\ journal = "none"
    /\ restores < MaxRestores /\ restores' = restores + 1
    /\ bytes' = [r \in Records |-> "prior"]
    /\ own' = [i \in Outputs |-> "none"]
    /\ touched' = {} /\ acked' = FALSE
    /\ UNCHANGED <<stage, backup, journal, jtmp, rtmp, db, procs, pc, run,
                   committed, crashes, faults, edits>>

(* memzoi rebuild: index.db is deleted and imported afresh under the lock; *)
(* services that are open keep the deleted file.                           *)
Rebuild ==
    /\ lock = NoProc /\ live < MaxRebuilds
    /\ live' = live + 1
    /\ index' = [index EXCEPT ![live + 1] = [rows |-> bytes, marker |-> FALSE]]
    /\ UNCHANGED <<disk, procs, pc, run, ghost, budget>>

Holder ==
    \/ RecoverLoad \/ RestoreRevalidate \/ RestoreRename \/ ReconcileIndex
    \/ CleanVerify \/ CleanJournal \/ CleanTmp \/ CleanStage \/ CleanBackup
    \/ Recognize \/ Reindex \/ RetirePriorMarker \/ Stage \/ Backup
    \/ WriteJournalTmp \/ LinkJournal \/ UnlinkJournalTmp
    \/ InstallRevalidate \/ InstallRename
    \/ WriteRewriteTmp \/ SwapJournal \/ UnlinkSuperseded
    \/ VerifyPostState \/ Commit
    \/ UndoFailedRevalidate \/ UndoRevalidate \/ UndoRename \/ CleanVerifiedPreState

Processes ==
    \E p \in Procs : OpenService(p) \/ CloseService(p) \/ LockTimeout(p)
                        \/ RecoverOnOpen(p) \/ Apply(p)

Environment ==
    \/ IoFault \/ Crash \/ GitRestore \/ Rebuild
    \/ \E r \in Records : \E content \in Bytes, inPlace \in BOOLEAN : Edit(r, content, inPlace)
    \/ \E p \in Procs, r \in Records : OtherCanonicalWrite(p, r)

Next == Holder \/ Processes \/ Environment

Spec == Init /\ [][Next]_vars

-------------------------------------------------------------------------------
(* Properties.                                                             *)

EnvironmentStep == edits' # edits \/ restores' # restores

(* Write-ahead: as long as a journal is on disk, every staged final and    *)
(* every backup that recover_locked needs to read is complete (journal.rs: *)
(* written after them, removed before them).                               *)
EvidenceComplete ==
    journal # "none" => \A i \in Outputs : stage[i] = "ok" /\ backup[i] = "ok"

(* All or nothing: without a journal, no crash, error path or recovery has *)
(* left some outputs of the decision written and others not (records that  *)
(* somebody edited during the transaction excepted).                       *)
Uniform ==
    journal = "none" =>
        \A i, j \in Outputs \ touched : bytes[i] = bytes[j]

(* A commit marker found next to a journal is this transaction's own: the  *)
(* marker of an earlier application of the same decision was retired, so   *)
(* recovery never rolls forward what was not committed.                    *)
MarkerIsOwn ==
    journal # "none" /\ index[live].marker => committed

(* The committed decision stays: after the index transaction committed,    *)
(* no step of the program turns a final record back into its prior, not    *)
(* even one recovering from a crash ("Cleanup failures after this point    *)
(* preserve the post-state").                                              *)
CommittedStays ==
    [][ \A i \in Outputs :
          committed /\ committed' /\ ~EnvironmentStep /\ bytes[i] = "post"
            => bytes'[i] = "post" ]_vars

(* A manual edit is never overwritten: neither installation nor rollback   *)
(* nor recovery replaces content that is not the transaction's own prior   *)
(* or final.                                                               *)
EditsSurvive ==
    [][ \A r \in Records :
          ~EnvironmentStep /\ bytes[r] = "other" => bytes'[r] = "other" ]_vars

(* Every replacement of a canonical record is covered by evidence that can *)
(* undo or finish it: a durable journal and this record's backup and final.*)
WritesAreJournaled ==
    [][ \A i \in Outputs :
          ~EnvironmentStep /\ bytes'[i] # bytes[i]
            => journal # "none" /\ stage[i] = "ok" /\ backup[i] = "ok" ]_vars

(* A success result ("written" or "already current") is only given when    *)
(* the index that other services open agrees with the canonical records.   *)
SuccessMeansIndexed ==
    [][ acked' /\ ~acked => \A i \in Outputs \ touched :
            bytes[i] = "post" /\ index'[live].rows[i] = "post" ]_vars

(* Recovery converges: an interrupted transaction does not stay pending    *)
(* when nobody edits the records and services keep being opened.           *)
RecoveryConverges == journal # "none" ~> journal = "none"

(* A decision that is retried is eventually applied and acknowledged.      *)
RetriesSucceed == <>acked

Fairness ==
    /\ WF_vars(Holder)
    /\ WF_vars(\E p \in Procs : RecoverOnOpen(p))
    /\ WF_vars(\E p \in Procs : OpenService(p))

FairSpec == Spec /\ Fairness
RetryingSpec == FairSpec /\ SF_vars(\E p \in Procs : Apply(p))

===============================================================================
