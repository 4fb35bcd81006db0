--------------------------- MODULE MaintenanceProofs ---------------------------
(***************************************************************************)
(* Theorems about MaintenanceMaterialization, for every number of outputs, *)
(* processes, crashes, faults, edits, restores and rebuilds.               *)
(***************************************************************************)
EXTENDS MCMaintenance, TLAPS

(* The lock holder's control: who holds the lock, and where its loop       *)
(* variable and the output it is about to rename may be used.              *)
Control ==
    /\ lock = NoProc <=> pc = "idle"
    /\ pc \in {"stage", "backup", "install", "undoFailed", "cleanVerify", "cleanJournal",
               "cleanTmp", "cleanStage", "cleanBackup"} => run.k # 0
    /\ run.armed # 0 => pc \in {"restore", "install", "undoFailed", "undo"}
    /\ run.armed # 0 /\ pc # "restore" => run.armed = run.k

-------------------------------------------------------------------------------
(* Type correctness.                                                       *)

LEMMA Bounds ==
    /\ 0 \in 0..N /\ 1 \in 0..N /\ N \in 0..N /\ 0 \in 0..MaxRebuilds
    /\ \A i \in 0..N : MoreAfter(i) => i + 1 \in 0..N
    /\ \A i \in 0..N : i # 0 => i - 1 \in 0..N /\ i \in Outputs
BY NAssumption, BoundAssumption DEF MoreAfter, Outputs

LEMMA DiskSame == TypeDisk /\ UNCHANGED disk => TypeDisk'
BY DEF TypeDisk, disk

LEMMA DbSame == TypeDb /\ UNCHANGED db => TypeDb'
BY DEF TypeDb, db

LEMMA HistorySame == TypeHistory /\ UNCHANGED <<ghost, budget>> => TypeHistory'
BY DEF TypeHistory, ghost, budget

LEMMA NoRunTyped == NoRun \in Run
BY Bounds DEF NoRun, Run, Then

(* The ways an action moves the holder on keep control and locals typed.   *)
LEMMA GotoTyped ==
  ASSUME TypeProcs, NEW label \in PCs, Goto(label)
  PROVE  TypeProcs'
BY DEF TypeProcs, Goto, procs

LEMMA WithTyped ==
  ASSUME run \in Run, TypeProcs, NEW i \in 0..N, NEW label \in PCs, With(i, label)
  PROVE  run' \in Run /\ TypeProcs'
<1>1. run' = [run EXCEPT !.k = i, !.armed = 0]
  BY DEF With
<1> QED
  BY <1>1, Bounds, GotoTyped DEF With, Run

LEMMA ReturnTyped ==
  ASSUME run \in Run, NEW label \in Then, Return(label)
  PROVE  run' \in Run
BY Bounds DEF Return, Run

LEMMA ArmTyped ==
  ASSUME run \in Run, NEW i \in 0..N, run' = [run EXCEPT !.armed = i]
  PROVE  run' \in Run
BY DEF Run

LEMMA ReleaseTyped ==
  ASSUME TypeProcs, NEW ok \in BOOLEAN, Release(ok)
  PROVE  run' \in Run /\ TypeProcs'
<1>1. proc' \in [Procs -> {"closed", "opening", "open", "recovering", "applying"}]
  <2>1. proc' = [proc EXCEPT ![lock] =
                   IF proc[lock] = "recovering" /\ ~ok THEN "closed" ELSE "open"]
    BY DEF Release
  <2> QED
    BY <2>1 DEF TypeProcs
<1>2. conn' \in [Procs -> 0..MaxRebuilds]
  <2>1. conn' = [conn EXCEPT ![lock] = 0] \/ conn' = conn
    BY DEF Release
  <2> QED
    BY <2>1, Bounds DEF TypeProcs
<1> QED
  BY <1>1, <1>2, NoRunTyped DEF Release, TypeProcs, PCs

LEMMA AfterRecoveryTyped ==
  ASSUME TypeProcs, AfterRecovery
  PROVE  run' \in Run /\ TypeProcs'
BY ReleaseTyped, GotoTyped, NoRunTyped DEF AfterRecovery, PCs

LEMMA AbandonTyped ==
  ASSUME run \in Run, TypeProcs, AbandonArtifacts
  PROVE  run' \in Run /\ TypeProcs'
BY ReturnTyped, GotoTyped DEF AbandonArtifacts, Then, PCs

LEMMA FailTyped == TypeOK /\ Fail => TypeOK'
BY ReleaseTyped, DiskSame, DbSame, HistorySame DEF Fail, TypeOK

LEMMA SetIndexTyped ==
  ASSUME TypeDb, TypeProcs, lock # NoProc,
         NEW content \in Bytes, NEW m \in BOOLEAN, SetIndex(content, m)
  PROVE  index' \in [0..MaxRebuilds -> [rows : [Records -> Bytes], marker : BOOLEAN]]
<1>1. conn[lock] \in 0..MaxRebuilds
  BY DEF TypeProcs
<1>2. Projected(content) \in [Records -> Bytes]
  BY <1>1 DEF Projected, TypeDb, MyIndex
<1> QED
  BY <1>1, <1>2 DEF SetIndex, TypeDb

(* Recovery and the shared clean-up. *)
LEMMA TypeRecovery ==
  ASSUME TypeOK, Control,
         \/ RecoverLoad \/ RestoreRevalidate \/ RestoreRename \/ ReconcileIndex
         \/ CleanVerify \/ CleanJournal \/ CleanTmp \/ CleanStage \/ CleanBackup
  PROVE  TypeOK'
<1> USE DEF TypeOK
<1>1. CASE RecoverLoad
  <2>1. CASE journal = "none" /\ AfterRecovery /\ UNCHANGED <<disk, db, ghost, budget>>
    BY <2>1, AfterRecoveryTyped, DiskSame, DbSame, HistorySame
  <2>2. CASE Fail
    BY <2>2, FailTyped
  <2>3. CASE /\ Recoverable /\ Goto("restore")
             /\ run' = [NoRun EXCEPT !.seen = [i \in Outputs |-> bytes[i]], !.goal = RecoveryGoal]
             /\ UNCHANGED <<disk, db, ghost, budget>>
    <3>1. [i \in Outputs |-> bytes[i]] \in [Outputs -> {"prior", "post"}]
      BY <2>3 DEF Recoverable, TypeDisk, Bytes, Outputs, Records
    <3>2. RecoveryGoal \in {"prior", "post"}
      BY DEF RecoveryGoal
    <3>3. run' \in Run
      BY <3>1, <3>2, <2>3, NoRunTyped DEF Run
    <3>4. TypeProcs'
      BY <2>3, GotoTyped DEF PCs
    <3> QED
      BY <2>3, <3>3, <3>4, DiskSame, DbSame, HistorySame
  <2> QED
    BY <1>1, <2>1, <2>2, <2>3 DEF RecoverLoad
<1>2. CASE RestoreRevalidate
  BY <1>2, FailTyped, ArmTyped, GotoTyped, DiskSame, DbSame, HistorySame
     DEF RestoreRevalidate, PCs, Unrestored, Outputs
<1>3. CASE RestoreRename
  <2>1. TypeDisk'
    BY <1>3 DEF RestoreRename, TypeDisk, Run, Bytes, Owners
  <2>2. run' \in Run
    BY <1>3, Bounds DEF RestoreRename, Run
  <2> QED
    BY <1>3, <2>1, <2>2, GotoTyped, DbSame, HistorySame DEF RestoreRename, PCs
<1>4. CASE ReconcileIndex
  BY <1>4, FailTyped, SetIndexTyped, ReturnTyped, GotoTyped, DiskSame
     DEF ReconcileIndex, Control, Run, Then, PCs, Bytes, TypeDb, TypeHistory, budget
<1>5. CASE CleanVerify
  BY <1>5, FailTyped, GotoTyped, DbSame, HistorySame
     DEF CleanVerify, PCs, TypeDisk, RewriteTmp
<1>6. CASE CleanJournal
  BY <1>6, GotoTyped, DbSame, HistorySame DEF CleanJournal, PCs, TypeDisk
<1>7. CASE CleanTmp
  BY <1>7, FailTyped, GotoTyped, DbSame, HistorySame DEF CleanTmp, PCs, TypeDisk, JournalTmp
<1>8. CASE CleanStage
  BY <1>8, FailTyped, GotoTyped, DbSame, HistorySame DEF CleanStage, PCs, TypeDisk, TxFile
<1>9. CASE CleanBackup
  <2>1. CASE Fail
    BY <2>1, FailTyped
  <2>2. CASE /\ backup' = [backup EXCEPT ![run.k] = "none"]
             /\ IF MoreAfter(run.k) THEN With(run.k + 1, "cleanStage") /\ UNCHANGED acked
                                    ELSE CleanReturn
             /\ UNCHANGED <<bytes, own, stage, journal, jtmp, rtmp, db, touched, committed, budget>>
    <3>1. TypeDisk' /\ TypeDb'
      BY <2>2, DbSame DEF TypeDisk, TxFile
    <3>2. /\ run' \in Run /\ TypeProcs' /\ acked' \in BOOLEAN
      <4>1. CASE MoreAfter(run.k)
        BY <4>1, <2>2, Bounds, WithTyped DEF Run, PCs, TypeHistory
      <4>2. CASE CleanReturn
        BY <4>2, ReleaseTyped, AfterRecoveryTyped, GotoTyped, NoRunTyped
           DEF CleanReturn, PCs, TypeHistory
      <4> QED
        BY <2>2, <4>1, <4>2
    <3> QED
      BY <2>2, <3>1, <3>2 DEF TypeHistory, budget
  <2> QED
    BY <1>9, <2>1, <2>2 DEF CleanBackup
<1> QED
  BY <1>1, <1>2, <1>3, <1>4, <1>5, <1>6, <1>7, <1>8, <1>9

(* The application itself, and its rollback. *)
LEMMA TypeApplication ==
  ASSUME TypeOK, Control,
         \/ Recognize \/ Reindex \/ RetirePriorMarker \/ Stage \/ Backup
         \/ WriteJournalTmp \/ LinkJournal \/ UnlinkJournalTmp
         \/ InstallRevalidate \/ InstallRename
         \/ WriteRewriteTmp \/ SwapJournal \/ UnlinkSuperseded
         \/ VerifyPostState \/ Commit
  PROVE  TypeOK'
<1> USE DEF TypeOK
<1>1. CASE Recognize
  BY <1>1, FailTyped, ReturnTyped, GotoTyped, DiskSame, DbSame, HistorySame
     DEF Recognize, Then, PCs
<1>2. CASE Reindex
  BY <1>2, FailTyped, SetIndexTyped, ReleaseTyped, DiskSame
     DEF Reindex, Control, Bytes, TypeDb, TypeHistory, budget, MyIndex, TypeProcs
<1>3. CASE RetirePriorMarker
  <2>1. CASE Fail
    BY <2>1, FailTyped
  <2>2. CASE /\ own' = [i \in Outputs |-> "prior"]
             /\ jtmp' \in {jtmp, "foreign"} /\ rtmp' = "none"
             /\ index' = MarkerRetired
             /\ touched' = {} /\ committed' = FALSE
             /\ With(1, "stage")
             /\ UNCHANGED <<bytes, stage, backup, journal, live, acked, budget>>
    <3>1. TypeDisk'
      BY <2>2 DEF TypeDisk, Owners, JournalTmp, RewriteTmp
    <3>2. TypeDb'
      BY <2>2 DEF TypeDb, MarkerRetired
    <3> QED
      BY <2>2, <3>1, <3>2, Bounds, WithTyped DEF PCs, TypeHistory, budget
  <2> QED
    BY <1>3, <2>1, <2>2 DEF RetirePriorMarker
<1>4. CASE Stage
  <2>1. TypeDisk' /\ TypeDb' /\ TypeHistory'
    BY <1>4, DbSame, HistorySame DEF Stage, TypeDisk, TxFile
  <2>2. run.k \in 0..N
    BY DEF Run
  <2> QED
    BY <1>4, <2>1, <2>2, Bounds, WithTyped, AbandonTyped DEF Stage, PCs
<1>5. CASE Backup
  <2>1. TypeDisk' /\ TypeDb' /\ TypeHistory'
    BY <1>5, DbSame, HistorySame DEF Backup, TypeDisk, TxFile
  <2>2. run.k \in 0..N
    BY DEF Run
  <2> QED
    BY <1>5, <2>1, <2>2, Bounds, WithTyped, AbandonTyped DEF Backup, PCs
<1>6. CASE WriteJournalTmp
  BY <1>6, Bounds, WithTyped, AbandonTyped, DbSame, HistorySame
     DEF WriteJournalTmp, PCs, TypeDisk, JournalTmp
<1>7. CASE LinkJournal
  BY <1>7, Bounds, WithTyped, DbSame, HistorySame DEF LinkJournal, PCs, TypeDisk
<1>8. CASE UnlinkJournalTmp
  BY <1>8, Bounds, WithTyped, DbSame, HistorySame
     DEF UnlinkJournalTmp, PCs, TypeDisk, JournalTmp
<1>9. CASE InstallRevalidate
  BY <1>9, WithTyped, ArmTyped, GotoTyped, DiskSame, DbSame, HistorySame
     DEF InstallRevalidate, PCs, Run
<1>10. CASE InstallRename
  <2>1. TypeDisk' /\ TypeDb' /\ TypeHistory'
    BY <1>10, DbSame, HistorySame DEF InstallRename, TypeDisk, Bytes, Owners
  <2>2. run.k \in 0..N
    BY DEF Run
  <2> QED
    BY <1>10, <2>1, <2>2, Bounds, WithTyped DEF InstallRename, PCs
<1>11. CASE WriteRewriteTmp
  BY <1>11, Bounds, WithTyped, DbSame, HistorySame
     DEF WriteRewriteTmp, PCs, TypeDisk, RewriteTmp
<1>12. CASE SwapJournal
  BY <1>12, Bounds, WithTyped, DbSame, HistorySame DEF SwapJournal, PCs, TypeDisk, RewriteTmp
<1>13. CASE UnlinkSuperseded
  BY <1>13, Bounds, WithTyped, DbSame, HistorySame
     DEF UnlinkSuperseded, PCs, TypeDisk, RewriteTmp
<1>14. CASE VerifyPostState
  BY <1>14, Bounds, WithTyped, DiskSame, DbSame, HistorySame DEF VerifyPostState, PCs
<1>15. CASE Commit
  <2>1. CASE With(N, "undo") /\ UNCHANGED <<disk, db, ghost, budget>>
    BY <2>1, Bounds, WithTyped, DiskSame, DbSame, HistorySame DEF PCs
  <2>2. CASE /\ SetIndex("post", TRUE) /\ committed' = TRUE
             /\ Return("written") /\ Goto("cleanVerify")
             /\ UNCHANGED <<disk, live, touched, acked, budget>>
    BY <1>15, <2>2, SetIndexTyped, ReturnTyped, GotoTyped, DiskSame
       DEF Commit, Control, Bytes, Then, PCs, TypeDb, TypeHistory, budget
  <2> QED
    BY <1>15, <2>1, <2>2 DEF Commit
<1> QED
  BY <1>1, <1>2, <1>3, <1>4, <1>5, <1>6, <1>7, <1>8, <1>9, <1>10, <1>11, <1>12, <1>13,
     <1>14, <1>15

LEMMA TypeUndo ==
  ASSUME TypeOK, Control,
         UndoFailedRevalidate \/ UndoRevalidate \/ UndoRename \/ CleanVerifiedPreState
  PROVE  TypeOK'
<1> USE DEF TypeOK
<1>0. run.k \in 0..N
  BY DEF Run
<1>1. CASE UndoFailedRevalidate
  BY <1>0, <1>1, Bounds, WithTyped, ArmTyped, GotoTyped, DiskSame, DbSame, HistorySame
     DEF UndoFailedRevalidate, Control, PCs
<1>2. CASE UndoRevalidate
  BY <1>0, <1>2, Bounds, WithTyped, ArmTyped, GotoTyped, DiskSame, DbSame, HistorySame
     DEF UndoRevalidate, PCs
<1>3. CASE UndoRename
  <2>1. TypeDisk' /\ TypeDb' /\ TypeHistory'
    BY <1>3, DbSame, HistorySame DEF UndoRename, TypeDisk, Bytes, Owners
  <2>2. run.k # 0
    BY <1>3 DEF UndoRename, Control
  <2> QED
    BY <1>0, <1>3, <2>1, <2>2, Bounds, WithTyped DEF UndoRename, PCs
<1>4. CASE CleanVerifiedPreState
  BY <1>4, FailTyped, ReturnTyped, GotoTyped, DiskSame, DbSame, HistorySame
     DEF CleanVerifiedPreState, Then, PCs
<1> QED
  BY <1>1, <1>2, <1>3, <1>4

LEMMA TypeProcesses == TypeOK /\ Processes => TypeOK'
<1> USE DEF TypeOK
<1> SUFFICES ASSUME TypeOK, NEW p \in Procs,
                    OpenService(p) \/ CloseService(p) \/ LockTimeout(p)
                      \/ RecoverOnOpen(p) \/ Apply(p)
             PROVE  TypeOK'
  BY DEF Processes
<1>1. CASE OpenService(p)
  BY <1>1, DiskSame, DbSame, HistorySame DEF OpenService, TypeProcs, TypeDb
<1>2. CASE CloseService(p) \/ LockTimeout(p)
  BY <1>2, Bounds, DiskSame, DbSame, HistorySame DEF CloseService, LockTimeout, TypeProcs
<1>3. CASE RecoverOnOpen(p) \/ Apply(p)
  BY <1>3, DiskSame, DbSame, HistorySame DEF RecoverOnOpen, Apply, TakeLock, TypeProcs, PCs
<1> QED
  BY <1>1, <1>2, <1>3

LEMMA TypeEnvironment == TypeOK /\ Control /\ Environment => TypeOK'
<1> SUFFICES ASSUME TypeOK, Control, Environment PROVE TypeOK'
  OBVIOUS
<1> USE DEF TypeOK
<1>0. /\ run.k \in 0..N
      /\ run.armed # 0 => run.armed \in Outputs
  BY Bounds DEF Run
<1>1. CASE IoFault
  <2>1. TypeDisk'
    BY <1>1 DEF IoFault, TypeDisk, JournalTmp, Bytes, Owners
  <2>2. TypeDb' /\ TypeHistory'
    BY <1>1, BoundAssumption, DbSame DEF IoFault, TypeHistory, ghost
  <2>3. run' \in Run /\ TypeProcs'
    BY <1>0, <1>1, Bounds, WithTyped, AbandonTyped, ReleaseTyped DEF IoFault, Control, PCs
  <2> QED
    BY <2>1, <2>2, <2>3
<1>2. CASE Crash
  <2>1. TypeDisk'
    BY <1>2, DiskSame DEF Crash, TypeDisk, TxFile, JournalTmp, RewriteTmp
  <2>2. TypeDb' /\ TypeHistory'
    BY <1>2, BoundAssumption, DbSame DEF Crash, TypeHistory, ghost
  <2>3. run' \in Run /\ TypeProcs'
    BY <1>2, Bounds, NoRunTyped DEF Crash, TypeProcs, PCs
  <2> QED
    BY <2>1, <2>2, <2>3
<1>3. CASE GitRestore
  <2>1. TypeDisk'
    BY <1>3 DEF GitRestore, TypeDisk, Bytes, Owners
  <2>2. TypeDb'
    BY <1>3, DbSame DEF GitRestore
  <2>3. TypeHistory'
    <3>1. touched' \subseteq Records /\ committed' \in BOOLEAN /\ acked' \in BOOLEAN
      BY <1>3 DEF GitRestore, TypeHistory
    <3>2. restores' \in 0..MaxRestores
      BY <1>3, BoundAssumption DEF GitRestore, TypeHistory
    <3> QED
      BY <1>3, <3>1, <3>2 DEF GitRestore, TypeHistory
  <2> QED
    BY <1>3, <2>1, <2>2, <2>3 DEF GitRestore, TypeProcs, procs
<1>4. CASE Rebuild
  <2>1. TypeDb'
    BY <1>4, BoundAssumption DEF Rebuild, TypeDb, TypeDisk
  <2> QED
    BY <1>4, <2>1, DiskSame, HistorySame DEF Rebuild, TypeProcs, procs
<1>5. ASSUME NEW r \in Records, NEW content \in Bytes, NEW inPlace \in BOOLEAN,
             Edit(r, content, inPlace)
      PROVE  TypeOK'
  <2>1. TypeDisk'
    BY <1>5 DEF Edit, TypeDisk, Owners
  <2>2. TypeDb' /\ TypeHistory'
    BY <1>5, BoundAssumption, DbSame DEF Edit, TypeHistory
  <2> QED
    BY <1>5, <2>1, <2>2 DEF Edit, TypeProcs, procs
<1>6. ASSUME NEW p \in Procs, NEW r \in Records, OtherCanonicalWrite(p, r)
      PROVE  TypeOK'
  <2>1. TypeDisk'
    BY <1>6 DEF OtherCanonicalWrite, TypeDisk, Owners, Bytes
  <2>2. TypeDb'
    BY <1>6 DEF OtherCanonicalWrite, TypeDb, Bytes
  <2>3. TypeHistory'
    BY <1>6, BoundAssumption DEF OtherCanonicalWrite, TypeHistory
  <2> QED
    BY <1>6, <2>1, <2>2, <2>3 DEF OtherCanonicalWrite, TypeProcs, procs
<1> QED
  BY <1>1, <1>2, <1>3, <1>4, <1>5, <1>6 DEF Environment

-------------------------------------------------------------------------------
(* Write-ahead evidence.  EvidenceComplete alone is not inductive: the     *)
(* journal is linked long after the files it refers to were written.  The  *)
(* invariant follows the holder through the stage and backup loops and     *)
(* says in which parts of its program the journal is there.                *)

JournalAbsent == {"cleanTmp", "cleanStage", "cleanBackup", "recognize", "reindex",
                  "retire", "stage", "backup", "journalTmp", "journalLink"}
JournalPresent == {"restore", "cleanVerify", "cleanJournal", "journalUnlink", "install",
                   "rewriteTmp", "rewriteSwap", "rewriteUnlink", "verify", "commit",
                   "undoFailed", "undo"}

JournalPlace ==
    /\ pc \in JournalAbsent => journal = "none"
    /\ pc \in JournalPresent => journal # "none"

Staged(limit) == \A i \in Outputs : i < limit => stage[i] = "ok"
BackedUp(limit) == \A i \in Outputs : i < limit => backup[i] = "ok"

Progress ==
    /\ pc = "stage" => Staged(run.k)
    /\ pc = "backup" => Staged(N + 1) /\ BackedUp(run.k)
    /\ pc \in {"journalTmp", "journalLink"} => Staged(N + 1) /\ BackedUp(N + 1)

Inv == Control /\ JournalPlace /\ Progress /\ EvidenceComplete

LEMMA NoRunFields == NoRun.armed = 0 /\ NoRun.k = 0
BY DEF NoRun

LEMMA WithGoes ==
  ASSUME run \in Run, NEW i, NEW label, With(i, label)
  PROVE  run'.k = i /\ run'.armed = 0 /\ pc' = label /\ lock' = lock
BY DEF With, Goto, Run, procs

LEMMA ReturnGoes ==
  ASSUME run \in Run, NEW label, Return(label)
  PROVE  run'.k = 1 /\ run'.armed = 0
BY DEF Return, Run

LEMMA ReleaseGoes ==
  ASSUME NEW ok, Release(ok)
  PROVE  lock' = NoProc /\ pc' = "idle" /\ run'.armed = 0
BY NoRunFields DEF Release

LEMMA GotoGoes ==
  ASSUME NEW label, Goto(label)
  PROVE  pc' = label /\ lock' = lock
BY DEF Goto, procs

(* The steps that leave the critical section, and those that touch neither *)
(* the journal nor the files it refers to.                                 *)
LEMMA InvRelease ==
  ASSUME Inv, NEW ok, Release(ok), UNCHANGED <<stage, backup, journal>>
  PROVE  Inv'
BY ReleaseGoes DEF Inv, Control, JournalPlace, JournalAbsent, JournalPresent, Progress,
                   EvidenceComplete

LEMMA InvFail == Inv /\ Fail => Inv'
BY InvRelease DEF Fail, disk

Quiet == {"load", "restore", "cleanVerify", "cleanJournal", "cleanTmp", "recognize", "reindex",
          "retire", "journalUnlink", "rewriteTmp", "rewriteSwap", "rewriteUnlink", "verify",
          "commit", "undo"}

LEMMA InvMove ==
  ASSUME Inv, lock # NoProc, lock' = lock, pc' \in Quiet, run'.armed = 0,
         pc' \in {"cleanVerify", "cleanJournal", "cleanTmp"} => run'.k # 0,
         UNCHANGED <<stage, backup, journal>>, JournalPlace'
  PROVE  Inv'
BY DEF Inv, Control, Progress, EvidenceComplete, Quiet

LEMMA InvAfterRecovery ==
  ASSUME Inv, lock # NoProc, journal = "none", AfterRecovery, UNCHANGED <<stage, backup, journal>>
  PROVE  Inv'
<1>1. CASE Release(TRUE)
  BY <1>1, InvRelease
<1>2. CASE run' = NoRun /\ Goto("recognize")
  BY <1>2, InvMove, GotoGoes, NoRunFields DEF Quiet, JournalPlace, JournalPresent
<1> QED
  BY <1>1, <1>2 DEF AfterRecovery

LEMMA InvAbandon ==
  ASSUME Inv, run \in Run, pc \in JournalAbsent, AbandonArtifacts, UNCHANGED <<stage, backup, journal>>
  PROVE  Inv'
<1>1. run'.k = 1 /\ run'.armed = 0 /\ pc' = "cleanTmp" /\ lock' = lock
  BY ReturnGoes, GotoGoes DEF AbandonArtifacts
<1> QED
  BY <1>1, InvMove DEF Inv, Control, Quiet, JournalPlace, JournalAbsent, JournalPresent

LEMMA InvRecovery ==
  ASSUME TypeOK, Inv,
         \/ RecoverLoad \/ RestoreRevalidate \/ RestoreRename \/ ReconcileIndex
         \/ CleanVerify \/ CleanJournal \/ CleanTmp \/ CleanStage \/ CleanBackup
  PROVE  Inv'
<1>0. run \in Run /\ (pc # "idle" => lock # NoProc)
  BY DEF TypeOK, Inv, Control
<1> USE DEF Quiet, JournalPlace, JournalAbsent, JournalPresent
<1>1. CASE RecoverLoad
  <2>1. CASE journal = "none" /\ AfterRecovery /\ UNCHANGED <<disk, db, ghost, budget>>
    <3>1. UNCHANGED <<stage, backup, journal>>
      BY <2>1 DEF disk
    <3> QED
      BY <1>0, <1>1, <2>1, <3>1, InvAfterRecovery DEF RecoverLoad
  <2>2. CASE Fail
    BY <2>2, InvFail
  <2>3. CASE /\ journal # "none" /\ Goto("restore")
             /\ run' = [NoRun EXCEPT !.seen = [i \in Outputs |-> bytes[i]], !.goal = RecoveryGoal]
             /\ UNCHANGED <<disk, db, ghost, budget>>
    <3>1. run'.armed = 0
      BY <2>3 DEF NoRun
    <3> QED
      BY <1>0, <1>1, <2>3, <3>1, InvMove, GotoGoes DEF RecoverLoad, disk
  <2> QED
    BY <1>1, <2>1, <2>2, <2>3 DEF RecoverLoad
<1>2. CASE RestoreRevalidate
  <2>1. CASE Fail
    BY <2>1, InvFail
  <2>2. CASE Goto("restore") /\ UNCHANGED <<disk, db, ghost, budget>>
    BY <1>0, <1>2, <2>2, GotoGoes
       DEF RestoreRevalidate, disk, Inv, Control, Progress, EvidenceComplete
  <2> QED
    BY <1>2, <2>1, <2>2 DEF RestoreRevalidate
<1>3. CASE RestoreRename
  <2>1. run'.armed = 0
    BY <1>0, <1>3 DEF RestoreRename, Run
  <2> QED
    BY <1>0, <1>3, <2>1, InvMove, GotoGoes DEF RestoreRename, Inv
<1>4. CASE ReconcileIndex
  BY <1>0, <1>4, InvFail, InvMove, ReturnGoes, GotoGoes DEF ReconcileIndex, disk, Inv
<1>5. CASE CleanVerify
  <2>1. CASE pc = "cleanVerify" /\ Goto("cleanJournal") /\ UNCHANGED <<stage, backup, journal, run>>
    <3>1. run.armed = 0 /\ run.k # 0
      BY <2>1 DEF Inv, Control
    <3> QED
      BY <1>0, <2>1, <3>1, InvMove, GotoGoes DEF Inv
  <2> QED
    BY <1>5, <2>1, InvFail DEF CleanVerify
<1>6. CASE CleanJournal
  BY <1>0, <1>6, GotoGoes DEF CleanJournal, Inv, Control, Progress, EvidenceComplete
<1>7. CASE CleanTmp
  <2>1. CASE pc = "cleanTmp" /\ Goto("cleanStage") /\ UNCHANGED <<journal, run>> /\ run.k # 0
    <3>1. journal' = "none" /\ pc' = "cleanStage" /\ lock' = lock /\ run' = run
      BY <2>1, GotoGoes DEF Inv
    <3> QED
      BY <1>0, <2>1, <3>1 DEF Inv, Control, Progress, EvidenceComplete
  <2> QED
    BY <1>7, <2>1, InvFail DEF CleanTmp, Inv, Control
<1>8. CASE CleanStage
  <2>1. CASE pc = "cleanStage" /\ Goto("cleanBackup") /\ UNCHANGED <<journal, run>>
    <3>1. journal' = "none" /\ pc' = "cleanBackup" /\ lock' = lock /\ run' = run
      BY <2>1, GotoGoes DEF Inv
    <3> QED
      BY <1>0, <2>1, <3>1 DEF Inv, Control, Progress, EvidenceComplete
  <2> QED
    BY <1>8, <2>1, InvFail DEF CleanStage
<1>9. CASE CleanBackup
  <2>1. CASE /\ pc = "cleanBackup" /\ UNCHANGED <<stage, journal>>
             /\ IF MoreAfter(run.k) THEN With(run.k + 1, "cleanStage") ELSE CleanReturn
    <3>0. journal = "none" /\ journal' = "none" /\ run.k \in 0..N
      BY <1>0, <2>1 DEF Inv, Run
    <3>1. CASE With(run.k + 1, "cleanStage")
      <4>1. run'.k = run.k + 1 /\ run'.armed = 0 /\ pc' = "cleanStage" /\ lock' = lock
        BY <1>0, <3>1, WithGoes
      <4>2. run'.k # 0
        BY <3>0, <4>1
      <4> QED
        BY <1>0, <2>1, <3>0, <4>1, <4>2 DEF Inv, Control, Progress, EvidenceComplete
    <3>2. CASE (\E ok \in BOOLEAN : Release(ok))
      <4>1. lock' = NoProc /\ pc' = "idle" /\ run'.armed = 0
        BY <3>2, ReleaseGoes
      <4> QED
        BY <3>0, <4>1 DEF Inv, Control, Progress, EvidenceComplete
    <3>3. CASE run' = NoRun /\ \E label \in {"recognize", "reindex", "retire"} : Goto(label)
      <4>1. run'.armed = 0 /\ pc' \in {"recognize", "reindex", "retire"} /\ lock' = lock
        BY <3>3, GotoGoes, NoRunFields
      <4> QED
        BY <1>0, <2>1, <3>0, <4>1 DEF Inv, Control, Progress, EvidenceComplete
    <3> QED
      BY <2>1, <3>1, <3>2, <3>3 DEF CleanReturn, AfterRecovery
  <2> QED
    BY <1>9, <2>1, InvFail DEF CleanBackup
<1> QED
  BY <1>1, <1>2, <1>3, <1>4, <1>5, <1>6, <1>7, <1>8, <1>9

LEMMA InvApplication ==
  ASSUME TypeOK, Inv,
         \/ Recognize \/ Reindex \/ RetirePriorMarker \/ Stage \/ Backup
         \/ WriteJournalTmp \/ LinkJournal \/ UnlinkJournalTmp
         \/ InstallRevalidate \/ InstallRename
         \/ WriteRewriteTmp \/ SwapJournal \/ UnlinkSuperseded
         \/ VerifyPostState \/ Commit
  PROVE  Inv'
<1>0. run \in Run /\ run.k \in 0..N /\ (pc # "idle" => lock # NoProc)
  BY DEF TypeOK, Inv, Control, Run
<1> USE DEF Quiet, JournalPlace, JournalAbsent, JournalPresent
<1>1. CASE Recognize
  <2>1. CASE /\ pc = "recognize" /\ Goto("cleanStage") /\ UNCHANGED <<stage, backup, journal>>
             /\ \E label \in Then : Return(label)
    <3>1. run'.k = 1 /\ run'.armed = 0 /\ pc' = "cleanStage" /\ lock' = lock
      BY <1>0, <2>1, ReturnGoes, GotoGoes
    <3> QED
      BY <1>0, <2>1, <3>1 DEF Inv, Control, Progress, EvidenceComplete
  <2> QED
    BY <1>1, <2>1, InvFail DEF Recognize, Then, disk
<1>2. CASE Reindex
  BY <1>2, InvFail, InvRelease DEF Reindex, disk
<1>3. CASE RetirePriorMarker
  <2>1. CASE pc = "retire" /\ With(1, "stage") /\ UNCHANGED <<stage, backup, journal>>
    <3>1. run'.k = 1 /\ run'.armed = 0 /\ pc' = "stage" /\ lock' = lock
      BY <1>0, <2>1, WithGoes
    <3> QED
      BY <1>0, <2>1, <3>1, NAssumption
         DEF Inv, Control, Progress, EvidenceComplete, Staged, Outputs
  <2> QED
    BY <1>3, <2>1, InvFail DEF RetirePriorMarker
<1>4. CASE Stage
  <2>1. CASE stage[run.k] # "none"
    BY <1>0, <1>4, <2>1, InvAbandon DEF Stage
  <2>2. CASE stage[run.k] = "none"
    <3>1. /\ run.k \in Outputs /\ journal = "none" /\ journal' = "none"
          /\ stage' = [stage EXCEPT ![run.k] = "ok"] /\ backup' = backup
      BY <1>0, <1>4, <2>2, Bounds DEF Stage, Inv, Control
    <3>2. \A i \in Outputs : i < run.k + 1 => stage'[i] = "ok"
      BY <1>0, <1>4, <3>1 DEF Stage, Inv, Progress, Staged, TypeOK, TypeDisk, Outputs
    <3>3. CASE MoreAfter(run.k)
      <4>1. run'.k = run.k + 1 /\ run'.armed = 0 /\ pc' = "stage" /\ lock' = lock
        BY <1>0, <1>4, <2>2, <3>3, WithGoes DEF Stage
      <4>2. run'.k # 0 /\ Staged(run.k)'
        BY <1>0, <3>2, <4>1 DEF Staged
      <4> QED
        BY <1>0, <1>4, <3>1, <4>1, <4>2 DEF Stage, Inv, Control, Progress, EvidenceComplete
    <3>4. CASE ~MoreAfter(run.k)
      <4>1. run'.k = 1 /\ run'.armed = 0 /\ pc' = "backup" /\ lock' = lock
        BY <1>0, <1>4, <2>2, <3>4, WithGoes DEF Stage
      <4>2. run.k = N
        BY <1>0, <3>4, NAssumption DEF MoreAfter
      <4>3. Staged(N + 1)' /\ BackedUp(run.k)'
        BY <3>2, <4>1, <4>2, NAssumption DEF Staged, BackedUp, Outputs
      <4> QED
        BY <1>0, <1>4, <3>1, <4>1, <4>3 DEF Stage, Inv, Control, Progress, EvidenceComplete
    <3> QED
      BY <3>3, <3>4
  <2> QED
    BY <2>1, <2>2
<1>5. CASE Backup
  <2>1. CASE ~(backup[run.k] = "none" /\ IsPriorFile(run.k))
    BY <1>0, <1>5, <2>1, InvAbandon DEF Backup
  <2>2. CASE backup[run.k] = "none" /\ IsPriorFile(run.k)
    <3>1. /\ run.k \in Outputs /\ journal = "none" /\ journal' = "none"
          /\ backup' = [backup EXCEPT ![run.k] = "ok"] /\ stage' = stage
          /\ Staged(N + 1)'
      BY <1>0, <1>5, <2>2, Bounds DEF Backup, Inv, Control, Progress, Staged
    <3>2. \A i \in Outputs : i < run.k + 1 => backup'[i] = "ok"
      BY <1>0, <1>5, <3>1 DEF Backup, Inv, Progress, BackedUp, TypeOK, TypeDisk, Outputs
    <3>3. CASE MoreAfter(run.k)
      <4>1. run'.k = run.k + 1 /\ run'.armed = 0 /\ pc' = "backup" /\ lock' = lock
        BY <1>0, <1>5, <2>2, <3>3, WithGoes DEF Backup
      <4>2. run'.k # 0 /\ BackedUp(run.k)'
        BY <1>0, <3>2, <4>1 DEF BackedUp
      <4> QED
        BY <1>0, <1>5, <3>1, <4>1, <4>2 DEF Backup, Inv, Control, Progress, EvidenceComplete
    <3>4. CASE ~MoreAfter(run.k)
      <4>1. run'.k = 1 /\ run'.armed = 0 /\ pc' = "journalTmp" /\ lock' = lock
        BY <1>0, <1>5, <2>2, <3>4, WithGoes DEF Backup
      <4>2. run.k = N
        BY <1>0, <3>4, NAssumption DEF MoreAfter
      <4>3. BackedUp(N + 1)'
        BY <3>2, <4>2 DEF BackedUp
      <4> QED
        BY <1>0, <1>5, <3>1, <4>1, <4>3 DEF Backup, Inv, Control, Progress, EvidenceComplete
    <3> QED
      BY <3>3, <3>4
  <2> QED
    BY <2>1, <2>2
<1>6. CASE WriteJournalTmp
  <2>1. CASE With(1, "journalLink") /\ UNCHANGED <<stage, backup, journal>>
    <3>1. run'.k = 1 /\ run'.armed = 0 /\ pc' = "journalLink" /\ lock' = lock
      BY <1>0, <2>1, WithGoes
    <3> QED
      BY <1>0, <1>6, <2>1, <3>1
         DEF WriteJournalTmp, Inv, Control, Progress, EvidenceComplete, Staged, BackedUp
  <2> QED
    BY <1>0, <1>6, <2>1, InvAbandon DEF WriteJournalTmp
<1>7. CASE LinkJournal
  <2>1. run'.k = 1 /\ run'.armed = 0 /\ pc' = "journalUnlink" /\ lock' = lock
    BY <1>0, <1>7, WithGoes DEF LinkJournal
  <2>2. EvidenceComplete'
    BY <1>7, NAssumption
       DEF LinkJournal, Inv, Progress, Staged, BackedUp, Outputs, EvidenceComplete
  <2> QED
    BY <1>0, <1>7, <2>1, <2>2 DEF LinkJournal, Inv, Control, Progress
<1>8. CASE UnlinkJournalTmp
  <2>1. run'.k = 1 /\ run'.armed = 0 /\ pc' = "install" /\ lock' = lock
    BY <1>0, <1>8, WithGoes DEF UnlinkJournalTmp
  <2> QED
    BY <1>0, <1>8, <2>1 DEF UnlinkJournalTmp, Inv, Control, Progress, EvidenceComplete
<1>9. CASE InstallRevalidate
  <2>1. run.k # 0 /\ journal # "none" /\ UNCHANGED <<stage, backup, journal>>
    BY <1>9 DEF InstallRevalidate, Inv, Control, disk
  <2>2. CASE IsPriorFile(run.k)
    <3>1. run' = [run EXCEPT !.armed = run.k] /\ Goto("install")
      BY <1>9, <2>2 DEF InstallRevalidate
    <3>2. run'.armed = run'.k /\ run'.k = run.k /\ pc' = "install" /\ lock' = lock
      BY <1>0, <3>1, GotoGoes DEF Run
    <3> QED
      BY <1>0, <1>9, <2>1, <3>2 DEF InstallRevalidate, Inv, Control, Progress, EvidenceComplete
  <2>3. CASE ~IsPriorFile(run.k)
    <3>1. run'.armed = 0 /\ run'.k = run.k /\ pc' = "undoFailed" /\ lock' = lock
      BY <1>0, <1>9, <2>3, WithGoes DEF InstallRevalidate
    <3> QED
      BY <1>0, <1>9, <2>1, <3>1 DEF InstallRevalidate, Inv, Control, Progress, EvidenceComplete
  <2> QED
    BY <2>2, <2>3
<1>10. CASE InstallRename
  <2>1. CASE MoreAfter(run.k)
    <3>1. run'.k = run.k + 1 /\ run'.armed = 0 /\ pc' = "install" /\ lock' = lock
      BY <1>0, <1>10, <2>1, WithGoes DEF InstallRename
    <3>2. run'.k # 0
      BY <1>0, <3>1
    <3> QED
      BY <1>0, <1>10, <3>1, <3>2 DEF InstallRename, Inv, Control, Progress, EvidenceComplete
  <2>2. CASE ~MoreAfter(run.k)
    BY <1>0, <1>10, <2>2, InvMove, WithGoes DEF InstallRename, Inv
  <2> QED
    BY <2>1, <2>2
<1>11. CASE WriteRewriteTmp \/ UnlinkSuperseded
  BY <1>0, <1>11, InvMove, WithGoes DEF WriteRewriteTmp, UnlinkSuperseded, Inv
<1>12. CASE SwapJournal
  <2>1. run'.armed = 0 /\ pc' = "rewriteUnlink" /\ lock' = lock /\ journal # "none"
    BY <1>0, <1>12, WithGoes DEF SwapJournal, Inv
  <2> QED
    BY <1>0, <1>12, <2>1 DEF SwapJournal, Inv, Control, Progress, EvidenceComplete
<1>13. CASE VerifyPostState
  BY <1>0, <1>13, InvMove, WithGoes DEF VerifyPostState, Inv, disk
<1>14. CASE Commit
  <2>1. UNCHANGED <<stage, backup, journal>> /\ journal # "none"
    BY <1>14 DEF Commit, disk, Inv
  <2>2. CASE With(N, "undo")
    BY <1>0, <1>14, <2>1, <2>2, InvMove, WithGoes DEF Commit
  <2>3. CASE Return("written") /\ Goto("cleanVerify")
    BY <1>0, <1>14, <2>1, <2>3, InvMove, ReturnGoes, GotoGoes DEF Commit
  <2> QED
    BY <1>14, <2>2, <2>3 DEF Commit
<1> QED
  BY <1>1, <1>2, <1>3, <1>4, <1>5, <1>6, <1>7, <1>8, <1>9, <1>10, <1>11, <1>12, <1>13, <1>14

LEMMA InvUndo ==
  ASSUME TypeOK, Inv,
         UndoFailedRevalidate \/ UndoRevalidate \/ UndoRename \/ CleanVerifiedPreState
  PROVE  Inv'
<1>0. run \in Run /\ run.k \in 0..N /\ (pc # "idle" => lock # NoProc)
  BY DEF TypeOK, Inv, Control, Run
<1> USE DEF Quiet, JournalPlace, JournalAbsent, JournalPresent
<1>1. ASSUME pc \in {"undoFailed", "undo"}, UNCHANGED <<stage, backup, journal>>,
             With(run.k - 1, "undo")
      PROVE  Inv'
  BY <1>0, <1>1, InvMove, WithGoes DEF Inv
<1>2. ASSUME pc \in {"undoFailed", "undo"}, UNCHANGED <<stage, backup, journal>>,
             run.k # 0, run' = [run EXCEPT !.armed = run.k], Goto(pc)
      PROVE  Inv'
  <2>1. run'.armed = run'.k /\ run'.k = run.k /\ pc' = pc /\ lock' = lock
    BY <1>0, <1>2, GotoGoes DEF Run
  <2> QED
    BY <1>0, <1>2, <2>1 DEF Inv, Control, Progress, EvidenceComplete
<1>3. CASE UndoFailedRevalidate
  BY <1>1, <1>2, <1>3 DEF UndoFailedRevalidate, disk, Inv, Control
<1>4. CASE UndoRevalidate
  BY <1>1, <1>2, <1>4 DEF UndoRevalidate, disk
<1>5. CASE UndoRename
  BY <1>1, <1>5 DEF UndoRename
<1>6. CASE CleanVerifiedPreState
  BY <1>0, <1>6, InvFail, InvMove, ReturnGoes, GotoGoes DEF CleanVerifiedPreState, disk, Inv
<1> QED
  BY <1>3, <1>4, <1>5, <1>6

LEMMA InvProcesses == TypeOK /\ Inv /\ Processes => Inv'
<1> SUFFICES ASSUME TypeOK, Inv, NEW p \in Procs,
                    OpenService(p) \/ CloseService(p) \/ LockTimeout(p)
                      \/ RecoverOnOpen(p) \/ Apply(p)
             PROVE  Inv'
  BY DEF Processes
<1> USE DEF Inv, Control, JournalPlace, JournalAbsent, JournalPresent, Progress, EvidenceComplete, disk
<1>1. CASE OpenService(p) \/ CloseService(p) \/ LockTimeout(p)
  BY <1>1 DEF OpenService, CloseService, LockTimeout, Staged, BackedUp
<1>2. CASE RecoverOnOpen(p) \/ Apply(p)
  BY <1>2, NoProcAssumption DEF RecoverOnOpen, Apply, TakeLock
<1> QED
  BY <1>1, <1>2

LEMMA InvEnvironment == TypeOK /\ Inv /\ Environment => Inv'
<1> SUFFICES ASSUME TypeOK, Inv, Environment PROVE Inv'
  OBVIOUS
<1>0. run \in Run /\ run.k \in 0..N /\ (pc # "idle" => lock # NoProc)
  BY DEF TypeOK, Inv, Control, Run
<1> USE DEF JournalPlace, JournalAbsent, JournalPresent
<1>1. CASE IoFault
  <2>0. UNCHANGED <<stage, backup, journal>>
    BY <1>1 DEF IoFault
  <2>1. CASE pc \in {"stage", "backup", "journalTmp"} /\ AbandonArtifacts
    BY <1>0, <2>0, <2>1, InvAbandon
  <2>2. CASE pc = "install" /\ With(run.k, "undoFailed")
    <3>1. run'.armed = 0 /\ run'.k = run.k /\ pc' = "undoFailed" /\ lock' = lock
      BY <1>0, <2>2, WithGoes
    <3> QED
      BY <1>0, <2>0, <2>2, <3>1 DEF Inv, Control, Progress, EvidenceComplete
  <2>3. CASE \/ pc \in {"rewriteTmp", "commit"} /\ With(N, "undo")
             \/ pc \in {"undoFailed", "undo"} /\ With(run.k - 1, "undo")
    <3>1. run'.armed = 0 /\ pc' = "undo" /\ lock' = lock
      BY <1>0, <2>3, WithGoes
    <3> QED
      BY <1>0, <2>0, <2>3, <3>1, InvMove DEF Inv, Quiet
  <2>4. CASE Release(FALSE)
    BY <2>0, <2>4, InvRelease
  <2> QED
    BY <1>1, <2>1, <2>2, <2>3, <2>4 DEF IoFault
<1>2. CASE Crash
  <2>1. lock' = NoProc /\ pc' = "idle" /\ run'.armed = 0 /\ journal' = journal
    BY <1>2, NoRunFields DEF Crash, disk
  <2>2. EvidenceComplete'
    BY <1>2 DEF Crash, disk, Inv, EvidenceComplete
  <2> QED
    BY <2>1, <2>2 DEF Inv, Control, Progress
<1>3. ASSUME UNCHANGED <<stage, backup, journal, lock, pc, run>>
      PROVE  Inv'
  BY <1>3 DEF Inv, Control, Progress, Staged, BackedUp, EvidenceComplete
<1>4. CASE GitRestore \/ Rebuild
  BY <1>3, <1>4 DEF GitRestore, Rebuild, procs, disk
<1>5. ASSUME NEW r \in Records, NEW content \in Bytes, NEW inPlace \in BOOLEAN,
             Edit(r, content, inPlace)
      PROVE  Inv'
  BY <1>3, <1>5 DEF Edit, procs
<1>6. ASSUME NEW p \in Procs, NEW r \in Records, OtherCanonicalWrite(p, r)
      PROVE  Inv'
  BY <1>3, <1>6 DEF OtherCanonicalWrite, procs
<1> QED
  BY <1>1, <1>2, <1>4, <1>5, <1>6 DEF Environment

LEMMA InitInv == Init => TypeOK /\ Inv
<1> SUFFICES ASSUME Init PROVE TypeOK /\ Inv
  OBVIOUS
<1> USE DEF Init
<1>1. TypeDisk /\ TypeProcs
  BY Bounds DEF TypeDisk, TypeProcs, Bytes, Owners, TxFile, JournalTmp, RewriteTmp, PCs
<1>2. TypeDb
  BY Bounds DEF TypeDb, Bytes
<1>3. TypeHistory
  <2>1. touched \subseteq Records /\ committed \in BOOLEAN /\ acked \in BOOLEAN
    OBVIOUS
  <2>2. crashes \in 0..MaxCrashes /\ faults \in 0..MaxFaults
          /\ edits \in 0..MaxEdits /\ restores \in 0..MaxRestores
    BY BoundAssumption
  <2> QED
    BY <2>1, <2>2 DEF TypeHistory
<1>4. Inv
  BY NoRunFields
     DEF Inv, Control, JournalPlace, JournalAbsent, JournalPresent, Progress, EvidenceComplete
<1> QED
  BY <1>1, <1>2, <1>3, <1>4, NoRunTyped DEF TypeOK

LEMMA InvStep == TypeOK /\ Inv /\ [Next]_vars => TypeOK' /\ Inv'
<1> SUFFICES ASSUME TypeOK, Inv, [Next]_vars PROVE TypeOK' /\ Inv'
  OBVIOUS
<1>1. CASE Holder
  BY <1>1, TypeRecovery, TypeApplication, TypeUndo, InvRecovery, InvApplication, InvUndo
     DEF Holder, Inv
<1>2. CASE Processes
  BY <1>2, TypeProcesses, InvProcesses
<1>3. CASE Environment
  BY <1>3, TypeEnvironment, InvEnvironment DEF Inv
<1>4. CASE UNCHANGED vars
  <2>1. TypeOK'
    BY <1>4, DiskSame, DbSame, HistorySame DEF vars, TypeOK, TypeProcs, procs
  <2>2. Inv'
    BY <1>4 DEF vars, disk, procs, Inv, Control, JournalPlace, Progress, Staged, BackedUp,
                EvidenceComplete
  <2> QED
    BY <2>1, <2>2
<1> QED
  BY <1>1, <1>2, <1>3, <1>4 DEF Next

LEMMA Invariance == Spec => [](TypeOK /\ Inv)
<1>1. Init => TypeOK /\ Inv
  BY InitInv
<1>2. TypeOK /\ Inv /\ [Next]_vars => (TypeOK /\ Inv)'
  BY InvStep
<1> QED
  BY <1>1, <1>2, PTL DEF Spec

(* Every variable keeps its type, through every interleaving of processes, *)
(* crashes, faults and edits.                                              *)
THEOREM TypeCorrect == Spec => []TypeOK
BY Invariance, PTL

(* Whatever crashes, fails or is edited: a journal on disk always finds    *)
(* all staged finals and backups complete, so recover_locked never reads a *)
(* torn or missing one that the transaction itself produced.               *)
THEOREM EvidenceAlwaysComplete == Spec => []EvidenceComplete
BY Invariance, PTL DEF Inv

-------------------------------------------------------------------------------
(* Which steps replace a canonical record, and with what.                  *)

Replaces ==
    /\ run.armed # 0
    /\ \/ pc = "restore" /\ bytes' = [bytes EXCEPT ![run.armed] = run.goal]
       \/ pc = "install" /\ bytes' = [bytes EXCEPT ![run.armed] = "post"]
       \/ pc \in {"undoFailed", "undo"} /\ bytes' = [bytes EXCEPT ![run.armed] = "prior"]

LEMMA OnlyReplaces ==
  ASSUME TypeOK, Inv, [Next]_vars
  PROVE  bytes' = bytes \/ Replaces \/ EnvironmentStep
<1>0. run \in Run /\ run.k \in 0..N
  BY DEF TypeOK, Run
<1>1. CASE RestoreRename
  BY <1>0, <1>1 DEF RestoreRename, Replaces, Run
<1>2. CASE InstallRename \/ UndoRename
  BY <1>2 DEF InstallRename, UndoRename, Replaces, Inv, Control
<1>3. CASE /\ Holder
           /\ ~(RestoreRename \/ InstallRename \/ UndoRename)
  <2>1. bytes' = bytes \/ Fail
    BY <1>3
       DEF Holder, disk, RecoverLoad, RestoreRevalidate, ReconcileIndex, CleanVerify,
           CleanJournal, CleanTmp, CleanStage, CleanBackup, Recognize, Reindex,
           RetirePriorMarker, Stage, Backup, WriteJournalTmp, LinkJournal, UnlinkJournalTmp,
           InstallRevalidate, WriteRewriteTmp, SwapJournal, UnlinkSuperseded, VerifyPostState,
           Commit, UndoFailedRevalidate, UndoRevalidate, CleanVerifiedPreState
  <2> QED
    BY <2>1 DEF Fail, disk
<1>4. CASE Processes
  BY <1>4 DEF Processes, OpenService, CloseService, LockTimeout, RecoverOnOpen, Apply,
              TakeLock, disk
<1>5. CASE IoFault
  BY <1>5 DEF IoFault, Replaces, Inv, Control
<1>6. CASE Crash \/ Rebuild
  BY <1>6 DEF Crash, Rebuild, disk
<1>7. CASE GitRestore
  BY <1>7 DEF GitRestore, EnvironmentStep, TypeOK, TypeHistory
<1>8. ASSUME NEW r \in Records, NEW content \in Bytes, NEW inPlace \in BOOLEAN,
             Edit(r, content, inPlace)
      PROVE  EnvironmentStep
  BY <1>8 DEF Edit, EnvironmentStep, TypeOK, TypeHistory
<1>9. ASSUME NEW p \in Procs, NEW r \in Records, OtherCanonicalWrite(p, r)
      PROVE  EnvironmentStep
  BY <1>9 DEF OtherCanonicalWrite, EnvironmentStep, TypeOK, TypeHistory
<1>10. CASE UNCHANGED vars
  BY <1>10 DEF vars, disk
<1> QED
  BY <1>1, <1>2, <1>3, <1>4, <1>5, <1>6, <1>7, <1>8, <1>9, <1>10 DEF Next, Environment

(* No step of the program replaces a canonical record before the journal   *)
(* that can undo or finish the replacement is on disk, nor after it is     *)
(* gone: installation, rollback and recovery alike.                        *)
THEOREM WritesAlwaysJournaled == Spec => WritesAreJournaled
<1>1. TypeOK /\ Inv /\ [Next]_vars =>
        \A i \in Outputs : ~EnvironmentStep /\ bytes'[i] # bytes[i]
            => journal # "none" /\ stage[i] = "ok" /\ backup[i] = "ok"
  BY OnlyReplaces DEF Replaces, Inv, JournalPlace, JournalPresent, EvidenceComplete
<1> QED
  BY <1>1, Invariance, PTL DEF Spec, WritesAreJournaled

-------------------------------------------------------------------------------
(* Manual edits.                                                           *)

(* What the holder is about to replace is content of the transaction.      *)
Armed == run.armed # 0 => bytes[run.armed] \in {"prior", "post"}

LEMMA ArmedStep ==
  ASSUME ~EditInWindow, TypeOK, Inv, Armed, [Next]_vars
  PROVE  Armed'
<1> USE DEF Armed
<1>0. /\ run \in Run /\ run.k \in 0..N /\ run.armed \in 0..N
      /\ bytes \in [Records -> Bytes] /\ Outputs \subseteq Records
  BY DEF TypeOK, TypeDisk, Run, Outputs, Records
<1>a. ASSUME UNCHANGED <<bytes, run>> PROVE Armed'
  BY <1>a
<1>b. ASSUME run'.armed = 0 PROVE Armed'
  BY <1>b
<1>c. ASSUME Fail PROVE Armed'
  BY <1>b, <1>c, ReleaseGoes DEF Fail
<1>1. CASE \/ RecoverLoad \/ RestoreRename \/ ReconcileIndex \/ CleanVerify
           \/ CleanJournal \/ CleanTmp \/ CleanStage \/ CleanBackup
  <2>1. CASE RecoverLoad
    <3>1. ASSUME run' = [NoRun EXCEPT !.seen = [i \in Outputs |-> bytes[i]], !.goal = RecoveryGoal]
          PROVE  run'.armed = 0
      BY <3>1 DEF NoRun
    <3> QED
      BY <2>1, <3>1, <1>b, <1>c, ReleaseGoes, NoRunFields DEF RecoverLoad, AfterRecovery
  <2>2. CASE RestoreRename
    BY <1>0, <2>2, <1>b DEF RestoreRename, Run
  <2>3. CASE ReconcileIndex
    BY <1>0, <2>3, <1>b, <1>c, ReturnGoes DEF ReconcileIndex
  <2>4. CASE CleanVerify \/ CleanJournal \/ CleanTmp \/ CleanStage
    BY <2>4, <1>a, <1>c DEF CleanVerify, CleanJournal, CleanTmp, CleanStage
  <2>5. CASE CleanBackup
    BY <1>0, <2>5, <1>b, <1>c, WithGoes, ReleaseGoes, NoRunFields
       DEF CleanBackup, CleanReturn, AfterRecovery
  <2> QED
    BY <1>1, <2>1, <2>2, <2>3, <2>4, <2>5
<1>2. CASE RestoreRevalidate
  <2>1. ASSUME NEW i \in Unrestored, StillAsSeen(i), run' = [run EXCEPT !.armed = i],
               UNCHANGED bytes
        PROVE  Armed'
    BY <1>0, <2>1 DEF StillAsSeen, Unrestored, Run
  <2> QED
    BY <1>2, <1>c, <2>1 DEF RestoreRevalidate, disk
<1>3. CASE \/ Recognize \/ Reindex \/ RetirePriorMarker \/ Stage \/ Backup
           \/ WriteJournalTmp \/ LinkJournal \/ UnlinkJournalTmp \/ InstallRename
           \/ WriteRewriteTmp \/ SwapJournal \/ UnlinkSuperseded
           \/ VerifyPostState \/ Commit
  <2>1. ASSUME NEW i, NEW label, With(i, label) PROVE Armed'
    BY <1>0, <1>b, <2>1, WithGoes
  <2>2. ASSUME NEW label, Return(label) PROVE Armed'
    BY <1>0, <1>b, <2>2, ReturnGoes
  <2>3. ASSUME NEW ok, Release(ok) PROVE Armed'
    BY <1>b, <2>3, ReleaseGoes
  <2>4. CASE Recognize \/ Reindex \/ RetirePriorMarker
    BY <2>4, <1>c, <2>1, <2>2, <2>3 DEF Recognize, Reindex, RetirePriorMarker
  <2>5. CASE Stage \/ Backup \/ WriteJournalTmp \/ LinkJournal \/ UnlinkJournalTmp \/ InstallRename
    BY <2>5, <2>1, <2>2
       DEF Stage, Backup, WriteJournalTmp, LinkJournal, UnlinkJournalTmp, InstallRename,
           AbandonArtifacts
  <2>6. CASE WriteRewriteTmp \/ SwapJournal \/ UnlinkSuperseded \/ VerifyPostState \/ Commit
    BY <2>6, <2>1, <2>2
       DEF WriteRewriteTmp, SwapJournal, UnlinkSuperseded, VerifyPostState, Commit
  <2> QED
    BY <1>3, <2>4, <2>5, <2>6
<1>4. CASE InstallRevalidate \/ UndoFailedRevalidate \/ UndoRevalidate
  <2>1. ASSUME bytes[run.k] \in {"prior", "post"}, run' = [run EXCEPT !.armed = run.k],
               UNCHANGED bytes
        PROVE  Armed'
    BY <1>0, <2>1 DEF Run
  <2>2. ASSUME NEW i, NEW label, With(i, label) PROVE Armed'
    BY <1>0, <1>b, <2>2, WithGoes
  <2> QED
    BY <1>4, <2>1, <2>2
       DEF InstallRevalidate, UndoFailedRevalidate, UndoRevalidate, disk, IsPriorFile
<1>5. CASE UndoRename \/ CleanVerifiedPreState
  BY <1>0, <1>5, <1>b, <1>c, WithGoes, ReturnGoes DEF UndoRename, CleanVerifiedPreState
<1>6. CASE Processes
  BY <1>6, <1>a DEF Processes, OpenService, CloseService, LockTimeout, RecoverOnOpen, Apply,
                    TakeLock, disk
<1>7. CASE IoFault
  BY <1>0, <1>7, <1>b, WithGoes, ReturnGoes, ReleaseGoes DEF IoFault, AbandonArtifacts
<1>8. CASE Crash
  BY <1>8, <1>b, NoRunFields DEF Crash
<1>9. CASE GitRestore
  BY <1>0, <1>9 DEF GitRestore, Records
<1>10. CASE Rebuild
  BY <1>10, <1>a DEF Rebuild, disk
<1>11. ASSUME NEW r \in Records, NEW content \in Bytes, NEW inPlace \in BOOLEAN,
              Edit(r, content, inPlace)
       PROVE  Armed'
  BY <1>0, <1>11 DEF Edit
<1>12. ASSUME NEW p \in Procs, NEW r \in Records, OtherCanonicalWrite(p, r)
       PROVE  Armed'
  BY <1>12, <1>b DEF OtherCanonicalWrite, Inv, Control
<1>13. CASE UNCHANGED vars
  BY <1>13, <1>a DEF vars, disk
<1> QED
  BY <1>1, <1>2, <1>3, <1>4, <1>5, <1>6, <1>7, <1>8, <1>9, <1>10, <1>11, <1>12, <1>13
     DEF Next, Holder, Environment

(* If no editor acts between a revalidation and the rename it guards, then *)
(* neither installation, rollback nor recovery ever replaces content that  *)
(* is not the transaction's own prior or final.                            *)
THEOREM EditsAlwaysSurvive == ~EditInWindow => (Spec => EditsSurvive)
<1> SUFFICES ASSUME ~EditInWindow PROVE Spec => EditsSurvive
  OBVIOUS
<1>1. Init => Armed
  BY NoRunFields DEF Init, Armed
<1>2. TypeOK /\ Inv /\ Armed /\ [Next]_vars => Armed'
  BY ArmedStep
<1>3. TypeOK /\ Inv /\ Armed /\ [Next]_vars =>
        \A r \in Records : ~EnvironmentStep /\ bytes[r] = "other" => bytes'[r] = "other"
  BY OnlyReplaces DEF Replaces, Armed, TypeOK, TypeDisk, Run
<1> QED
  BY <1>1, <1>2, <1>3, Invariance, PTL DEF Spec, EditsSurvive

-------------------------------------------------------------------------------
(* All or nothing.                                                          *)

(* The outputs nobody edited since the batch was last whole.                *)
Untouched == Outputs \ touched
Whole(content) == \A i \in Untouched : bytes[i] = content

(* The journal is removed in two steps: from the decision that the outputs  *)
(* are all post or all prior, to the unlinking of the journal.              *)
Closing == {"cleanVerify", "cleanJournal"}

UniformInv == journal = "none" \/ pc \in Closing => \E content \in Bytes : Whole(content)

-------------------------------------------------------------------------------
(* The commit marker and what it stands for, while services keep the index  *)
(* they opened.                                                             *)

Preparing == {"stage", "backup", "journalTmp", "journalLink"}
Deciding == {"journalUnlink", "install", "rewriteTmp", "rewriteSwap", "rewriteUnlink",
             "verify", "commit", "undoFailed", "undo"}
Cleaning == Closing \cup {"cleanTmp", "cleanStage", "cleanBackup"}

Marker == index[0].marker

(* The marker next to a journal, or where one is prepared, is its own.      *)
MarkerTells ==
    /\ committed => Marker
    /\ (journal # "none" \/ pc \in Preparing) /\ Marker => committed
    /\ pc \in Preparing \cup Deciding => ~ committed

(* What is committed is post until its journal is gone, and a batch that is *)
(* about to be journaled is prior.                                          *)
BatchTells ==
    /\ journal # "none" /\ committed => Whole("post")
    /\ pc \in Preparing => Whole("prior")
    /\ pc \in Closing => Whole(IF Marker THEN "post" ELSE "prior")

(* A success that is about to be reported is on disk and in the index.      *)
WrittenTells ==
    pc \in Cleaning /\ run.then = "written" =>
        \A i \in Untouched : bytes[i] = "post" /\ index[0].rows[i] = "post"

(* Recovery rolls back only what was not committed.                         *)
RollbackTells ==
    pc = "restore" =>
        /\ run.armed # 0 => run.armed \in Unrestored
        /\ run.goal = "prior" /\ Unrestored # {} => ~ committed

Resolution == MarkerTells /\ BatchTells /\ WrittenTells /\ RollbackTells

LEMMA SomeOutput == 1 \in Outputs
BY NAssumption DEF Outputs

(* A step that writes no record and does not begin to close.                *)
LEMMA UniformKeeps ==
  ASSUME UniformInv, UNCHANGED bytes, touched \subseteq touched',
         journal' = "none" \/ pc' \in Closing => journal = "none" \/ pc \in Closing
  PROVE  UniformInv'
BY DEF UniformInv, Whole, Untouched

LEMMA UniformOpen ==
  ASSUME journal' # "none", pc' \notin Closing
  PROVE  UniformInv'
BY DEF UniformInv

LEMMA UniformWhole ==
  ASSUME NEW content \in Bytes, \A i \in Outputs : bytes'[i] = content
  PROVE  UniformInv'
BY DEF UniformInv, Whole, Untouched

LEMMA UniformFail == UniformInv /\ Fail => UniformInv'
BY UniformKeeps, ReleaseGoes DEF Fail, disk, ghost, Closing

(* What an index says that has the rows of a whole batch and is current.    *)
LEMMA CurrentIsWhole ==
  ASSUME NEW content, IsCurrent(Projected(content))
  PROVE  AllOutputs(content)
BY DEF IsCurrent, Projected, AllOutputs, Outputs, Records

(* Where the clean-up returns to.                                           *)
LEMMA CleanBackupGoes ==
  ASSUME CleanBackup, ~ Fail
  PROVE  /\ pc' \in {"cleanStage", "idle", "recognize", "reindex", "retire"}
         /\ pc' = "cleanStage" => run' = [run EXCEPT !.k = run.k + 1, !.armed = 0]
         /\ UNCHANGED acked \/ (acked' = TRUE /\ run.then = "written")
<1>1. CASE With(run.k + 1, "cleanStage") /\ UNCHANGED acked
  BY <1>1 DEF With, Goto
<1>2. CASE CleanReturn
  <2>1. CASE run.then = "written"
    BY <1>2, <2>1 DEF CleanReturn, Release
  <2>2. CASE run.then = "recovered"
    BY <1>2, <2>2 DEF CleanReturn, AfterRecovery, Release, Goto
  <2>3. CASE run.then = "already" \/ run.then = "fresh"
    BY <1>2, <2>3 DEF CleanReturn, Goto
  <2>4. CASE run.then \notin {"written", "recovered", "already", "fresh"}
    BY <1>2, <2>4 DEF CleanReturn, Release
  <2> QED
    BY <2>1, <2>2, <2>3, <2>4
<1> QED
  BY <1>1, <1>2 DEF CleanBackup

LEMMA UniformRecovery ==
  ASSUME TypeOK, Inv, UniformInv,
         \/ RecoverLoad \/ RestoreRevalidate \/ RestoreRename \/ ReconcileIndex
         \/ CleanVerify \/ CleanJournal \/ CleanTmp \/ CleanStage \/ CleanBackup
  PROVE  UniformInv'
<1>0. run \in Run
  BY DEF TypeOK
<1>1. CASE RecoverLoad
  <2>1. UNCHANGED <<bytes, touched, journal>> /\ pc' \notin Closing
    BY <1>1 DEF RecoverLoad, AfterRecovery, Fail, Release, Goto, disk, ghost, Closing
  <2> QED
    BY <2>1, UniformKeeps
<1>2. CASE RestoreRevalidate
  <2>1. UNCHANGED <<bytes, touched, journal>> /\ pc' \notin Closing
    BY <1>2, ReleaseGoes, GotoGoes DEF RestoreRevalidate, Fail, disk, ghost, Closing
  <2> QED
    BY <2>1, UniformKeeps
<1>3. CASE RestoreRename
  BY <1>3, UniformOpen, GotoGoes DEF RestoreRename, Inv, JournalPlace, JournalPresent, Closing
<1>4. CASE ReconcileIndex
  <2>1. CASE Fail
    BY <2>1, UniformFail
  <2>2. CASE AllOutputs(run.goal) /\ UNCHANGED disk
    BY <1>0, <2>2, UniformWhole DEF AllOutputs, disk, Run, Bytes
  <2> QED
    BY <1>4, <2>1, <2>2 DEF ReconcileIndex
<1>5. CASE CleanVerify \/ CleanTmp \/ CleanStage
  <2>1. CASE Fail
    BY <2>1, UniformFail
  <2>2. CASE ~ Fail
    BY <1>5, <2>2, UniformKeeps, GotoGoes
       DEF CleanVerify, CleanTmp, CleanStage, Closing, ghost, Inv, JournalPlace
  <2> QED
    BY <2>1, <2>2
<1>6. CASE CleanJournal
  BY <1>6, UniformKeeps DEF CleanJournal, Closing, ghost
<1>7. CASE CleanBackup
  <2>1. CASE Fail
    BY <2>1, UniformFail
  <2>2. CASE ~ Fail
    <3>1. UNCHANGED <<bytes, touched, journal>>
      BY <1>7, <2>2 DEF CleanBackup
    <3>2. pc' \notin Closing
      BY <1>7, <2>2, CleanBackupGoes DEF Closing
    <3> QED
      BY <3>1, <3>2, UniformKeeps
  <2> QED
    BY <2>1, <2>2
<1> QED
  BY <1>1, <1>2, <1>3, <1>4, <1>5, <1>6, <1>7

LEMMA UniformApplication ==
  ASSUME TypeOK, Inv, UniformInv,
         \/ Recognize \/ Reindex \/ RetirePriorMarker \/ Stage \/ Backup
         \/ WriteJournalTmp \/ LinkJournal \/ UnlinkJournalTmp
         \/ InstallRevalidate \/ InstallRename
         \/ WriteRewriteTmp \/ SwapJournal \/ UnlinkSuperseded
         \/ VerifyPostState \/ Commit
  PROVE  UniformInv'
<1>0. run \in Run
  BY DEF TypeOK
<1>1. CASE Fail
  BY <1>1, UniformFail
<1>2. CASE RetirePriorMarker /\ ~ Fail
  <2>1. AllOutputs("prior") /\ UNCHANGED bytes
    BY <1>2 DEF RetirePriorMarker
  <2> QED
    BY <2>1, UniformWhole DEF AllOutputs, Bytes
<1>3. CASE (Recognize \/ Reindex) /\ ~ Fail
  <2>1. UNCHANGED <<bytes, touched, journal>> /\ pc' \notin Closing
    BY <1>3 DEF Recognize, Reindex, Release, Goto, disk, ghost, Closing
  <2> QED
    BY <2>1, UniformKeeps
<1>4. CASE Stage \/ Backup \/ WriteJournalTmp
  <2>1. UNCHANGED <<bytes, touched, journal>>
    BY <1>4 DEF Stage, Backup, WriteJournalTmp, ghost
  <2>2. pc' \notin Closing
    BY <1>0, <1>4, WithGoes, GotoGoes DEF Stage, Backup, WriteJournalTmp, AbandonArtifacts, Closing
  <2> QED
    BY <2>1, <2>2, UniformKeeps
<1>5. CASE \/ LinkJournal \/ UnlinkJournalTmp \/ InstallRevalidate \/ InstallRename
           \/ WriteRewriteTmp \/ SwapJournal \/ UnlinkSuperseded \/ VerifyPostState
  <2>1. journal' # "none"
    BY <1>5 DEF LinkJournal, UnlinkJournalTmp, InstallRevalidate, InstallRename, WriteRewriteTmp,
       SwapJournal, UnlinkSuperseded, VerifyPostState, Inv, JournalPlace, JournalPresent, disk
  <2>2. pc' \notin Closing
    BY <1>0, <1>5, WithGoes, GotoGoes DEF LinkJournal, UnlinkJournalTmp, InstallRevalidate,
       InstallRename, WriteRewriteTmp, SwapJournal, UnlinkSuperseded, VerifyPostState, Closing
  <2> QED
    BY <2>1, <2>2, UniformOpen
<1>6. CASE Commit
  <2>1. CASE IsCurrent(Projected("post")) /\ UNCHANGED disk
    BY <2>1, CurrentIsWhole, UniformWhole DEF AllOutputs, disk, Bytes
  <2>2. CASE With(N, "undo") /\ UNCHANGED disk
    BY <1>0, <1>6, <2>2, WithGoes, UniformOpen
       DEF Commit, Inv, JournalPlace, JournalPresent, disk, Closing
  <2> QED
    BY <1>6, <2>1, <2>2 DEF Commit
<1> QED
  BY <1>1, <1>2, <1>3, <1>4, <1>5, <1>6

LEMMA UniformUndo ==
  ASSUME TypeOK, Inv, UniformInv,
         UndoFailedRevalidate \/ UndoRevalidate \/ UndoRename \/ CleanVerifiedPreState
  PROVE  UniformInv'
<1>0. run \in Run
  BY DEF TypeOK
<1>1. CASE UndoFailedRevalidate \/ UndoRevalidate \/ UndoRename
  <2>1. journal' # "none"
    BY <1>1 DEF UndoFailedRevalidate, UndoRevalidate, UndoRename, Inv, JournalPlace,
       JournalPresent, disk
  <2>2. pc' \notin Closing
    BY <1>0, <1>1, WithGoes, GotoGoes DEF UndoFailedRevalidate, UndoRevalidate, UndoRename, Closing
  <2> QED
    BY <2>1, <2>2, UniformOpen
<1>2. CASE CleanVerifiedPreState
  <2>1. CASE Fail
    BY <2>1, UniformFail
  <2>2. CASE VerifiedPreState /\ UNCHANGED disk
    BY <2>2, UniformWhole DEF VerifiedPreState, AllOutputs, disk, Bytes
  <2> QED
    BY <1>2, <2>1, <2>2 DEF CleanVerifiedPreState
<1> QED
  BY <1>1, <1>2

(* Whoever edits a record answers for it, and Git restores the whole batch. *)
LEMMA UniformEnvironment ==
  ASSUME TypeOK, Inv, UniformInv, Environment
  PROVE  UniformInv'
<1>0. run \in Run
  BY DEF TypeOK
<1>a. ASSUME NEW r \in Records, touched' = touched \cup {r}, UNCHANGED <<journal, pc>>,
             NEW content, bytes' = [bytes EXCEPT ![r] = content]
      PROVE  UniformInv'
  BY <1>a DEF UniformInv, Whole, Untouched, TypeOK, TypeDisk, Outputs, Records
<1>1. CASE IoFault
  <2>1. UNCHANGED <<touched, journal>>
    BY <1>1 DEF IoFault, ghost
  <2>2. pc' \notin Closing
    BY <1>1 DEF IoFault, AbandonArtifacts, With, Goto, Release, Closing
  <2>3. CASE UNCHANGED bytes
    BY <2>1, <2>2, <2>3, UniformKeeps
  <2>4. CASE ~ UNCHANGED bytes
    BY <1>1, <2>1, <2>2, <2>4, UniformOpen DEF IoFault, Inv, JournalPlace, JournalPresent
  <2> QED
    BY <2>3, <2>4
<1>2. CASE Crash
  BY <1>2, UniformKeeps DEF Crash, disk, ghost, Closing
<1>3. CASE GitRestore
  BY <1>3, UniformWhole DEF GitRestore, Outputs, Records, Bytes
<1>4. CASE Rebuild
  BY <1>4, UniformKeeps DEF Rebuild, disk, ghost
<1>5. ASSUME NEW r \in Records, NEW content \in Bytes, NEW inPlace \in BOOLEAN,
             Edit(r, content, inPlace)
      PROVE  UniformInv'
  BY <1>5, <1>a DEF Edit
<1>6. ASSUME NEW p \in Procs, NEW r \in Records, OtherCanonicalWrite(p, r)
      PROVE  UniformInv'
  BY <1>6, <1>a DEF OtherCanonicalWrite
<1> QED
  BY <1>1, <1>2, <1>3, <1>4, <1>5, <1>6 DEF Environment

LEMMA UniformStep == TypeOK /\ Inv /\ UniformInv /\ [Next]_vars => UniformInv'
<1> SUFFICES ASSUME TypeOK, Inv, UniformInv, [Next]_vars PROVE UniformInv'
  OBVIOUS
<1>1. CASE Processes
  BY <1>1, UniformKeeps DEF Processes, OpenService, CloseService, LockTimeout, RecoverOnOpen, Apply,
     TakeLock, disk, ghost, Closing
<1>2. CASE UNCHANGED vars
  BY <1>2, UniformKeeps DEF vars, disk, ghost
<1> QED
  BY <1>1, <1>2, UniformRecovery, UniformApplication, UniformUndo, UniformEnvironment
     DEF Next, Holder

(* All or nothing: whatever crashes, fails, is retried or is recovered, and *)
(* whichever index a service has open, when no journal is on disk the       *)
(* outputs that nobody edited are all prior or all post.                    *)
THEOREM AlwaysUniform == Spec => []Uniform
<1>1. Init => UniformInv
  BY DEF Init, UniformInv, Whole, Untouched, Outputs, Records, Bytes
<1>2. UniformInv => Uniform
  BY DEF UniformInv, Uniform, Whole, Untouched
<1> QED
  BY <1>1, <1>2, UniformStep, Invariance, PTL DEF Spec

-------------------------------------------------------------------------------
(* Resolution is inductive as long as index.db is not replaced.             *)

LEMMA OneIndex ==
  ASSUME MaxRebuilds = 0, TypeOK
  PROVE  /\ live = 0 /\ ~ Rebuild
         /\ DOMAIN index = {0} /\ index[0].marker \in BOOLEAN
         /\ \A p \in Procs : conn[p] = 0
         /\ lock # NoProc => conn[lock] = 0 /\ MyIndex = index[0]
<1>1. 0..MaxRebuilds = {0}
  OBVIOUS
<1> QED
  BY <1>1 DEF TypeOK, TypeDb, TypeProcs, MyIndex, Rebuild

LEMMA SetIndexSets ==
  ASSUME MaxRebuilds = 0, TypeOK, lock # NoProc, NEW content, NEW marker, SetIndex(content, marker)
  PROVE  /\ index'[0].marker = marker
         /\ \A i \in Outputs : index'[0].rows[i] = content
<1>1. index'[0] = [rows |-> Projected(content), marker |-> marker]
  BY OneIndex DEF SetIndex
<1>2. \A i \in Outputs : Projected(content)[i] = content
  BY DEF Projected, Outputs, Records
<1> QED
  BY <1>1, <1>2

(* A step that writes no record, no index and no history, and neither       *)
(* creates a journal nor enters a part of the program something is said of. *)
Idling == PCs \ (Preparing \cup Deciding \cup Closing \cup {"restore"})

LEMMA ResolutionMoves ==
  ASSUME Resolution, UNCHANGED <<bytes, index, touched, committed>>,
         journal' = journal \/ journal' = "none",
         \/ pc' \in Idling
         \/ pc \in Preparing /\ pc' \in Preparing
         \/ pc \in Deciding /\ pc' \in Deciding
         \/ pc \in Closing /\ pc' \in Closing,
         pc' \in Cleaning => run'.then # "written" \/ (pc \in Cleaning /\ run'.then = run.then)
  PROVE  Resolution'
<1> USE DEF Idling, Preparing, Deciding, Closing
<1>1. MarkerTells'
  BY DEF Resolution, MarkerTells, Marker
<1>2. BatchTells'
  BY DEF Resolution, BatchTells, Whole, Untouched, Marker
<1>3. WrittenTells'
  BY DEF Resolution, WrittenTells, Untouched
<1>4. RollbackTells'
  BY DEF RollbackTells
<1> QED
  BY <1>1, <1>2, <1>3, <1>4 DEF Resolution

LEMMA ResolutionEnds ==
  ASSUME Resolution, UNCHANGED <<bytes, index, touched, committed, journal>>, pc' = "idle"
  PROVE  Resolution'
BY ResolutionMoves DEF Idling, PCs, Preparing, Deciding, Closing, Cleaning

LEMMA ResolutionFail == Resolution /\ Fail => Resolution'
BY ResolutionEnds, ReleaseGoes DEF Fail, disk, db, ghost

(* The sets of labels, for the steps below. *)
LEMMA Labels ==
  /\ {"idle", "load", "recognize", "reindex", "retire", "cleanTmp", "cleanStage", "cleanBackup"}
       \subseteq Idling
  /\ Idling \cap (Preparing \cup Deciding \cup Closing \cup {"restore"}) = {}
BY DEF Idling, PCs, Preparing, Deciding, Closing

LEMMA LoadResolves ==
  ASSUME MaxRebuilds = 0, TypeOK, Inv, Resolution, RecoverLoad
  PROVE  Resolution'
<1>1. CASE Fail
  BY <1>1, ResolutionFail
<1>2. CASE journal = "none" /\ AfterRecovery /\ UNCHANGED <<disk, db, ghost, budget>>
  <2>1. pc' \in {"idle", "recognize"}
    BY <1>2 DEF AfterRecovery, Release, Goto
  <2> QED
    BY <1>2, <2>1, Labels, ResolutionMoves DEF disk, db, ghost, Cleaning, Closing
<1>3. CASE /\ journal # "none" /\ Recoverable /\ Goto("restore")
           /\ run' = [NoRun EXCEPT !.seen = [i \in Outputs |-> bytes[i]], !.goal = RecoveryGoal]
           /\ UNCHANGED <<disk, db, ghost, budget>>
  <2>1. /\ run'.seen = [i \in Outputs |-> bytes[i]] /\ run'.goal = RecoveryGoal /\ run'.armed = 0
        /\ pc' = "restore" /\ UNCHANGED <<bytes, journal, index, touched, committed>>
    BY <1>3 DEF NoRun, Goto, disk, db, ghost
  <2>2. ASSUME RecoveryGoal = "prior", Unrestored' # {} PROVE ~ committed
    <3>1. CASE AllOutputs("prior")
      BY <2>1, <2>2, <3>1 DEF Unrestored, AllOutputs
    <3>2. CASE ~ MyIndex.marker
      <4>1. lock # NoProc
        BY DEF RecoverLoad, Inv, Control
      <4> QED
        BY <3>2, <4>1, OneIndex DEF Resolution, MarkerTells, Marker
    <3> QED
      BY <2>2, <3>1, <3>2 DEF RecoveryGoal
  <2>3. RollbackTells'
    BY <2>1, <2>2 DEF RollbackTells
  <2>4. MarkerTells' /\ BatchTells' /\ WrittenTells'
    BY <2>1 DEF Resolution, MarkerTells, BatchTells, WrittenTells, Marker, Whole, Untouched,
       Preparing, Deciding, Closing, Cleaning
  <2> QED
    BY <2>3, <2>4 DEF Resolution
<1> QED
  BY <1>1, <1>2, <1>3 DEF RecoverLoad

LEMMA RestoreResolves ==
  ASSUME MaxRebuilds = 0, TypeOK, Inv, Resolution, RestoreRevalidate \/ RestoreRename
  PROVE  Resolution'
<1>0. run \in Run /\ pc = "restore" /\ Outputs \subseteq Records
  BY DEF TypeOK, RestoreRevalidate, RestoreRename, Outputs, Records
<1>1. CASE Fail
  BY <1>1, ResolutionFail
<1>2. CASE RestoreRevalidate /\ ~ Fail
  <2>1. PICK i \in Unrestored : run' = [run EXCEPT !.armed = i]
    BY <1>2 DEF RestoreRevalidate
  <2>2. /\ run'.armed = i /\ run'.goal = run.goal /\ run'.seen = run.seen
        /\ pc' = "restore" /\ UNCHANGED <<bytes, journal, index, touched, committed>>
    BY <1>0, <1>2, <2>1 DEF RestoreRevalidate, Run, Goto, disk, db, ghost
  <2>3. RollbackTells'
    BY <1>0, <2>1, <2>2 DEF Resolution, RollbackTells, Unrestored
  <2>4. MarkerTells' /\ BatchTells' /\ WrittenTells'
    BY <1>0, <2>2 DEF Resolution, MarkerTells, BatchTells, WrittenTells, Marker, Whole, Untouched,
       Preparing, Deciding, Closing, Cleaning
  <2> QED
    BY <2>3, <2>4 DEF Resolution
<1>3. CASE RestoreRename
  <2>1. /\ bytes' = [bytes EXCEPT ![run.armed] = run.goal] /\ run.armed \in Unrestored
        /\ run' = [run EXCEPT !.seen[run.armed] = run.goal, !.armed = 0]
        /\ pc' = "restore" /\ UNCHANGED <<journal, index, touched, committed>>
    BY <1>0, <1>3 DEF RestoreRename, Goto, Resolution, RollbackTells, db, ghost
  <2>2. run'.armed = 0 /\ run'.goal = run.goal /\ Unrestored' \subseteq Unrestored
    BY <1>0, <2>1 DEF Run, Unrestored
  <2>3. RollbackTells'
    BY <1>0, <2>1, <2>2 DEF Resolution, RollbackTells
  <2>4. ASSUME journal # "none", committed PROVE Whole("post")'
    <3>1. run.goal = "post" /\ Whole("post")
      BY <1>0, <2>1, <2>4 DEF Resolution, RollbackTells, BatchTells, Run
    <3> QED
      BY <1>0, <2>1, <3>1 DEF Whole, Untouched, TypeOK, TypeDisk
  <2>5. BatchTells'
    BY <2>1, <2>4 DEF BatchTells, Preparing, Closing
  <2>6. MarkerTells' /\ WrittenTells'
    BY <1>0, <2>1 DEF Resolution, MarkerTells, WrittenTells, Marker, Preparing, Deciding,
       Cleaning, Closing
  <2> QED
    BY <2>3, <2>5, <2>6 DEF Resolution
<1> QED
  BY <1>1, <1>2, <1>3

(* The index transactions that settle what the journal stands for.          *)
LEMMA SettledResolves ==
  ASSUME MaxRebuilds = 0, TypeOK, lock # NoProc, NEW content \in {"prior", "post"},
         AllOutputs(content), SetIndex(content, content = "post"), committed' = (content = "post"),
         pc' \in Closing, run'.then = "written" => content = "post", UNCHANGED <<bytes, touched>>
  PROVE  Resolution'
<1>1. /\ index'[0].marker = (content = "post")
      /\ \A i \in Outputs : index'[0].rows[i] = content
  BY SetIndexSets
<1>2. \A i \in Outputs : bytes'[i] = content
  BY DEF AllOutputs
<1> USE DEF Preparing, Deciding, Closing
<1>3. MarkerTells'
  BY <1>1 DEF MarkerTells, Marker
<1>4. BatchTells'
  BY <1>1, <1>2 DEF BatchTells, Whole, Untouched, Marker
<1>5. WrittenTells'
  BY <1>1, <1>2 DEF WrittenTells, Untouched
<1>6. RollbackTells'
  BY DEF RollbackTells
<1> QED
  BY <1>3, <1>4, <1>5, <1>6 DEF Resolution

LEMMA ReconcileResolves ==
  ASSUME MaxRebuilds = 0, TypeOK, Inv, Resolution, ReconcileIndex
  PROVE  Resolution'
<1>0. run \in Run /\ lock # NoProc
  BY DEF TypeOK, ReconcileIndex, Inv, Control
<1>1. CASE Fail
  BY <1>1, ResolutionFail
<1>2. CASE ~ Fail
  <2>1. /\ AllOutputs(run.goal) /\ SetIndex(run.goal, run.goal = "post")
        /\ committed' = (run.goal = "post") /\ Return("recovered") /\ pc' = "cleanVerify"
        /\ UNCHANGED <<bytes, touched>>
    BY <1>2 DEF ReconcileIndex, Goto, disk
  <2>2. run'.then = "recovered"
    BY <1>0, <2>1 DEF Return, Run
  <2> QED
    BY <1>0, <2>1, <2>2, SettledResolves DEF Run, Closing
<1> QED
  BY <1>1, <1>2

LEMMA CommitResolves ==
  ASSUME MaxRebuilds = 0, TypeOK, Inv, Resolution, Commit
  PROVE  Resolution'
<1>0. run \in Run /\ pc = "commit" /\ lock # NoProc
  BY DEF TypeOK, Commit, Inv, Control
<1>1. CASE IsCurrent(Projected("post")) /\ ~ MyIndex.marker
  BY <1>0, <1>1, CurrentIsWhole, SettledResolves DEF Commit, Goto, disk, Closing
<1>2. CASE With(N, "undo") /\ UNCHANGED <<disk, db, ghost, budget>>
  <2>1. pc' = "undo" /\ UNCHANGED <<bytes, journal, index, touched, committed>>
    BY <1>2 DEF With, Goto, disk, db, ghost
  <2> QED
    BY <1>0, <2>1, ResolutionMoves DEF Deciding, Cleaning, Closing
<1> QED
  BY <1>1, <1>2 DEF Commit

LEMMA CleaningResolves ==
  ASSUME TypeOK, Inv, Resolution,
         CleanVerify \/ CleanJournal \/ CleanTmp \/ CleanStage \/ CleanBackup
  PROVE  Resolution'
<1>0. run \in Run /\ pc \in Cleaning
  BY DEF TypeOK, CleanVerify, CleanJournal, CleanTmp, CleanStage, CleanBackup, Cleaning, Closing
<1>1. CASE Fail
  BY <1>1, ResolutionFail
<1>2. CASE (CleanVerify \/ CleanJournal \/ CleanTmp \/ CleanStage) /\ ~ Fail
  <2>1. /\ UNCHANGED <<bytes, index, touched, committed, run>>
        /\ journal' = journal \/ journal' = "none"
    BY <1>2 DEF CleanVerify, CleanJournal, CleanTmp, CleanStage, db, ghost
  <2>2. \/ pc \in Closing /\ pc' \in Closing
        \/ pc' \in {"cleanTmp", "cleanStage", "cleanBackup"}
    BY <1>2 DEF CleanVerify, CleanJournal, CleanTmp, CleanStage, Goto, Closing
  <2> QED
    BY <1>0, <2>1, <2>2, Labels, ResolutionMoves
<1>3. CASE CleanBackup /\ ~ Fail
  <2>1. UNCHANGED <<bytes, index, touched, committed, journal>>
    BY <1>3 DEF CleanBackup, db
  <2>2. pc' \in {"cleanStage", "idle", "recognize", "reindex", "retire"}
    BY <1>3, CleanBackupGoes
  <2>3. pc' \in Cleaning => run'.then = run.then
    BY <1>0, <1>3, <2>2, CleanBackupGoes DEF Cleaning, Closing, Run
  <2> QED
    BY <1>0, <2>1, <2>2, <2>3, Labels, ResolutionMoves
<1> QED
  BY <1>1, <1>2, <1>3

LEMMA RecognitionResolves ==
  ASSUME MaxRebuilds = 0, TypeOK, Inv, Resolution, Recognize \/ Reindex \/ RetirePriorMarker
  PROVE  Resolution'
<1>0. run \in Run /\ lock # NoProc
  BY DEF TypeOK, Recognize, Reindex, RetirePriorMarker, Inv, Control
<1>1. CASE Fail
  BY <1>1, ResolutionFail
<1>2. CASE Recognize /\ ~ Fail
  <2>1. /\ Return(IF AllOutputs("post") THEN "already" ELSE "fresh") /\ pc' = "cleanStage"
        /\ UNCHANGED <<bytes, journal, index, touched, committed>>
    BY <1>2 DEF Recognize, Goto, disk, db, ghost
  <2>2. run'.then # "written"
    BY <1>0, <2>1 DEF Return, Run
  <2> QED
    BY <2>1, <2>2, Labels, ResolutionMoves
<1>3. CASE Reindex /\ ~ Fail
  <2>1. /\ SetIndex("post", MyIndex.marker) /\ pc' = "idle"
        /\ UNCHANGED <<bytes, journal, touched, committed>>
    BY <1>3 DEF Reindex, Release, disk
  <2>2. index'[0].marker = index[0].marker
    BY <1>0, <2>1, OneIndex, SetIndexSets
  <2> QED
    BY <2>1, <2>2 DEF Resolution, MarkerTells, BatchTells, WrittenTells, RollbackTells, Marker,
       Whole, Untouched, Preparing, Deciding, Closing, Cleaning
<1>4. CASE RetirePriorMarker /\ ~ Fail
  <2>1. /\ AllOutputs("prior") /\ index' = MarkerRetired /\ pc' = "stage" /\ committed' = FALSE
        /\ UNCHANGED <<bytes, journal>>
    BY <1>4 DEF RetirePriorMarker, With, Goto
  <2>2. index'[0].marker = FALSE
    BY <1>0, <2>1, OneIndex DEF MarkerRetired, TypeOK, TypeDb
  <2> QED
    BY <2>1, <2>2 DEF Resolution, MarkerTells, BatchTells, WrittenTells, RollbackTells, Marker,
       Whole, Untouched, AllOutputs, Preparing, Deciding, Closing, Cleaning
<1> QED
  BY <1>1, <1>2, <1>3, <1>4

LEMMA PreparationResolves ==
  ASSUME TypeOK, Inv, Resolution, Stage \/ Backup \/ WriteJournalTmp
  PROVE  Resolution'
<1>0. run \in Run /\ pc \in Preparing
  BY DEF TypeOK, Stage, Backup, WriteJournalTmp, Preparing
<1>1. UNCHANGED <<bytes, journal, index, touched, committed>>
  BY DEF Stage, Backup, WriteJournalTmp, db, ghost
<1>2. CASE AbandonArtifacts
  <2>1. pc' = "cleanTmp" /\ run'.then = "error"
    BY <1>0, <1>2 DEF AbandonArtifacts, Return, Goto, Run
  <2> QED
    BY <1>1, <2>1, Labels, ResolutionMoves
<1>3. CASE ~ AbandonArtifacts
  <2>1. pc' \in Preparing
    BY <1>3 DEF Stage, Backup, WriteJournalTmp, With, Goto, Preparing
  <2> QED
    BY <1>0, <1>1, <2>1, ResolutionMoves DEF Preparing, Cleaning, Closing
<1> QED
  BY <1>2, <1>3

(* From the link of the journal on the batch is being installed or undone.  *)
LEMMA DecisionResolves ==
  ASSUME TypeOK, Inv, Resolution, pc \in Deciding \cup {"journalLink"}, pc' \in Deciding \cup {"idle"},
         UNCHANGED <<index, touched, committed>>
  PROVE  Resolution'
<1> USE DEF Preparing, Deciding, Closing, Cleaning
<1>1. ~ committed
  BY DEF Resolution, MarkerTells
<1>2. journal # "none" \/ pc \in Preparing
  BY DEF Inv, JournalPlace, JournalPresent
<1>3. MarkerTells'
  BY <1>1, <1>2 DEF Resolution, MarkerTells, Marker
<1>4. BatchTells' /\ WrittenTells' /\ RollbackTells'
  BY <1>1 DEF BatchTells, WrittenTells, RollbackTells
<1> QED
  BY <1>3, <1>4 DEF Resolution

LEMMA InstallationResolves ==
  ASSUME TypeOK, Inv, Resolution,
         \/ LinkJournal \/ UnlinkJournalTmp \/ InstallRevalidate \/ InstallRename
         \/ WriteRewriteTmp \/ SwapJournal \/ UnlinkSuperseded \/ VerifyPostState
         \/ UndoFailedRevalidate \/ UndoRevalidate \/ UndoRename
  PROVE  Resolution'
<1>1. UNCHANGED <<index, touched, committed>>
  BY DEF LinkJournal, UnlinkJournalTmp, InstallRevalidate, InstallRename, WriteRewriteTmp,
     SwapJournal, UnlinkSuperseded, VerifyPostState, UndoFailedRevalidate, UndoRevalidate,
     UndoRename, db, ghost
<1>2. pc \in Deciding \cup {"journalLink"}
  BY DEF LinkJournal, UnlinkJournalTmp, InstallRevalidate, InstallRename, WriteRewriteTmp,
     SwapJournal, UnlinkSuperseded, VerifyPostState, UndoFailedRevalidate, UndoRevalidate,
     UndoRename, Deciding
<1>3. pc' \in Deciding
  BY DEF LinkJournal, UnlinkJournalTmp, InstallRevalidate, InstallRename, WriteRewriteTmp,
     SwapJournal, UnlinkSuperseded, VerifyPostState, UndoFailedRevalidate, UndoRevalidate,
     UndoRename, With, Goto, Deciding
<1> QED
  BY <1>1, <1>2, <1>3, DecisionResolves

(* A rollback that is verified leaves a prior batch and no marker.          *)
LEMMA VerifiedResolves ==
  ASSUME TypeOK, Inv, Resolution, CleanVerifiedPreState
  PROVE  Resolution'
<1>0. run \in Run /\ pc = "undo" /\ journal # "none"
  BY DEF TypeOK, CleanVerifiedPreState, Inv, JournalPlace, JournalPresent
<1>1. CASE Fail
  BY <1>1, ResolutionFail
<1>2. CASE ~ Fail
  <2>1. /\ AllOutputs("prior") /\ pc' = "cleanVerify" /\ Return("error")
        /\ UNCHANGED <<bytes, journal, index, touched, committed>>
    BY <1>2 DEF CleanVerifiedPreState, VerifiedPreState, Goto, disk, db, ghost
  <2>2. ~ committed /\ ~ Marker /\ run'.then = "error"
    BY <1>0, <2>1 DEF Resolution, MarkerTells, Deciding, Return, Run
  <2> QED
    BY <2>1, <2>2 DEF Resolution, MarkerTells, BatchTells, WrittenTells, RollbackTells, Marker,
       Whole, Untouched, AllOutputs, Preparing, Deciding, Closing, Cleaning
<1> QED
  BY <1>1, <1>2

LEMMA ProcessesResolve == Resolution /\ Processes => Resolution'
<1> SUFFICES ASSUME Resolution, NEW p \in Procs,
                    \/ OpenService(p) \/ CloseService(p) \/ LockTimeout(p)
                    \/ RecoverOnOpen(p) \/ Apply(p)
             PROVE  Resolution'
  BY DEF Processes
<1>1. UNCHANGED <<bytes, journal, index, touched, committed, run>>
  BY DEF OpenService, CloseService, LockTimeout, RecoverOnOpen, Apply, TakeLock, disk, db, ghost
<1>2. pc' = pc \/ pc' = "load"
  BY DEF OpenService, CloseService, LockTimeout, RecoverOnOpen, Apply, TakeLock
<1> QED
  BY <1>1, <1>2 DEF Resolution, MarkerTells, BatchTells, WrittenTells, RollbackTells, Unrestored,
     Marker, Whole, Untouched, Preparing, Deciding, Closing, Cleaning

(* A record that somebody writes is touched and no longer counts.           *)
LEMMA TouchResolves ==
  ASSUME TypeOK, Resolution, NEW r \in Records, NEW content, touched' = touched \cup {r},
         bytes' = [bytes EXCEPT ![r] = content], UNCHANGED <<journal, committed, pc, run>>,
         index'[0].marker = index[0].marker,
         \A i \in Outputs \ {r} : index'[0].rows[i] = index[0].rows[i]
  PROVE  Resolution'
<1>1. \A i \in Outputs \ touched' : i \in Untouched /\ i # r /\ bytes'[i] = bytes[i]
  BY DEF TypeOK, TypeDisk, Outputs, Records, Untouched
<1>2. \A c : Whole(c) => Whole(c)'
  BY <1>1 DEF Whole, Untouched
<1>3. MarkerTells' /\ RollbackTells'
  BY DEF Resolution, MarkerTells, RollbackTells, Marker, Unrestored
<1>4. BatchTells'
  BY <1>2 DEF Resolution, BatchTells, Marker
<1>5. WrittenTells'
  BY <1>1 DEF Resolution, WrittenTells, Untouched
<1> QED
  BY <1>3, <1>4, <1>5 DEF Resolution

LEMMA EnvironmentResolves ==
  ASSUME MaxRebuilds = 0, TypeOK, Inv, Resolution, Environment
  PROVE  Resolution'
<1>0. run \in Run
  BY DEF TypeOK
<1>1. CASE IoFault
  <2>1. UNCHANGED <<journal, index, touched, committed>>
    BY <1>1 DEF IoFault, db, ghost
  <2>2. CASE AbandonArtifacts /\ UNCHANGED bytes
    <3>1. pc' = "cleanTmp" /\ run'.then = "error"
      BY <1>0, <2>2 DEF AbandonArtifacts, Return, Goto, Run
    <3> QED
      BY <2>1, <2>2, <3>1, Labels, ResolutionMoves
  <2>3. CASE pc \in Deciding /\ pc' \in Deciding
    BY <2>1, <2>3, DecisionResolves
  <2>4. CASE pc' = "idle" /\ UNCHANGED bytes
    BY <2>1, <2>4, ResolutionEnds
  <2> QED
    BY <1>1, <2>2, <2>3, <2>4 DEF IoFault, With, Goto, Release, Deciding
<1>2. CASE Crash
  <2>1. /\ pc' = "idle" /\ UNCHANGED <<bytes, journal, index, touched, committed>>
    BY <1>2 DEF Crash, disk, db, ghost
  <2> QED
    BY <2>1, ResolutionEnds
<1>3. CASE GitRestore
  <2>1. /\ pc = "idle" /\ journal = "none" /\ UNCHANGED <<journal, index, committed, pc>>
    BY <1>3 DEF GitRestore, db, Inv, Control
  <2> QED
    BY <2>1 DEF Resolution, MarkerTells, BatchTells, WrittenTells, RollbackTells, Marker,
       Preparing, Deciding, Closing, Cleaning
<1>4. ~ Rebuild
  BY OneIndex
<1>5. ASSUME NEW r \in Records, NEW content \in Bytes, NEW inPlace \in BOOLEAN,
             Edit(r, content, inPlace)
      PROVE  Resolution'
  BY <1>5, TouchResolves DEF Edit, db
<1>6. ASSUME NEW p \in Procs, NEW r \in Records, OtherCanonicalWrite(p, r)
      PROVE  Resolution'
  <2>1. /\ index'[0].marker = index[0].marker
        /\ \A i \in Outputs \ {r} : index'[0].rows[i] = index[0].rows[i]
    BY <1>6, OneIndex DEF OtherCanonicalWrite, TypeOK, TypeDb, Outputs, Records
  <2> QED
    BY <1>6, <2>1, TouchResolves DEF OtherCanonicalWrite
<1> QED
  BY <1>1, <1>2, <1>3, <1>4, <1>5, <1>6 DEF Environment

LEMMA ResolutionStep ==
  ASSUME MaxRebuilds = 0, TypeOK, Inv, Resolution, [Next]_vars
  PROVE  Resolution'
<1>1. CASE UNCHANGED vars
  BY <1>1 DEF Resolution, MarkerTells, BatchTells, WrittenTells, RollbackTells, Unrestored,
     Marker, Whole, Untouched, vars, disk, db, ghost
<1> QED
  BY <1>1, LoadResolves, RestoreResolves, ReconcileResolves, CleaningResolves,
     RecognitionResolves, PreparationResolves, InstallationResolves, CommitResolves,
     VerifiedResolves, ProcessesResolve, EnvironmentResolves DEF Next, Holder

LEMMA ResolutionHolds == MaxRebuilds = 0 => (Spec => [](TypeOK /\ Inv /\ Resolution))
<1> SUFFICES ASSUME MaxRebuilds = 0 PROVE Spec => [](TypeOK /\ Inv /\ Resolution)
  OBVIOUS
<1>1. Init => Resolution
  BY BoundAssumption DEF Init, Resolution, MarkerTells, BatchTells, WrittenTells, RollbackTells,
     Marker, Preparing, Deciding, Closing, Cleaning
<1>2. TypeOK /\ Inv /\ Resolution /\ [Next]_vars => Resolution'
  BY ResolutionStep
<1> QED
  BY <1>1, <1>2, Invariance, PTL DEF Spec

(* A commit marker next to a journal is this transaction's own: recovery    *)
(* never rolls forward what was not committed.  As long as index.db is not  *)
(* replaced: a service that keeps an older file retires its marker there.   *)
THEOREM MarkerAlwaysOwn == MaxRebuilds = 0 => (Spec => []MarkerIsOwn)
<1> SUFFICES ASSUME MaxRebuilds = 0 PROVE Spec => []MarkerIsOwn
  OBVIOUS
<1>1. TypeOK /\ Resolution => MarkerIsOwn
  BY OneIndex DEF MarkerIsOwn, Resolution, MarkerTells, Marker
<1> QED
  BY <1>1, ResolutionHolds, PTL

(* What the index transaction committed is never undone: installation,      *)
(* rollback and recovery alike replace a final record by its prior only     *)
(* while nothing is committed, as long as index.db is not replaced.         *)
THEOREM CommittedAlwaysStays == MaxRebuilds = 0 => (Spec => CommittedStays)
<1> SUFFICES ASSUME MaxRebuilds = 0 PROVE Spec => CommittedStays
  OBVIOUS
<1>1. ASSUME TypeOK, Inv, Resolution, [Next]_vars,
             NEW i \in Outputs, committed, ~ EnvironmentStep, bytes[i] = "post"
      PROVE  bytes'[i] = "post"
  <2>1. CASE bytes' = bytes
    BY <1>1, <2>1
  <2>2. CASE Replaces
    <3>1. pc \notin Deciding
      BY <1>1 DEF Resolution, MarkerTells
    <3>2. pc = "restore" /\ bytes' = [bytes EXCEPT ![run.armed] = run.goal] /\ run.armed # 0
      BY <2>2, <3>1 DEF Replaces, Deciding
    <3>3. run.goal = "post"
      BY <1>1, <3>2 DEF Resolution, RollbackTells, TypeOK, Run
    <3> QED
      BY <1>1, <3>2, <3>3
  <2> QED
    BY <1>1, <2>1, <2>2, OnlyReplaces
<1>2. TypeOK /\ Inv /\ Resolution /\ [Next]_vars =>
        \A i \in Outputs : committed /\ committed' /\ ~ EnvironmentStep /\ bytes[i] = "post"
            => bytes'[i] = "post"
  BY <1>1
<1> QED
  BY <1>2, ResolutionHolds, PTL DEF Spec, CommittedStays

-------------------------------------------------------------------------------
(* What is acknowledged.                                                    *)

(* The two steps that report success.                                       *)
LEMMA OnlyAcknowledges ==
  ASSUME [Next]_vars, acked', ~ acked
  PROVE  (CleanBackup /\ run.then = "written") \/ (Reindex /\ ~ Fail)
<1>0. ~ Fail
  BY DEF Fail, ghost
<1>1. CASE Holder
  <2>1. CleanBackup \/ Reindex
    BY <1>0, <1>1
       DEF Holder, ghost, RecoverLoad, RestoreRevalidate, RestoreRename, ReconcileIndex, CleanVerify,
           CleanJournal, CleanTmp, CleanStage, Recognize, RetirePriorMarker, Stage, Backup,
           WriteJournalTmp, LinkJournal, UnlinkJournalTmp, InstallRevalidate, InstallRename,
           WriteRewriteTmp, SwapJournal, UnlinkSuperseded, VerifyPostState, Commit,
           UndoFailedRevalidate, UndoRevalidate, UndoRename, CleanVerifiedPreState
  <2> QED
    BY <1>0, <2>1, CleanBackupGoes
<1>2. ~ Processes
  BY DEF Processes, OpenService, CloseService, LockTimeout, RecoverOnOpen, Apply, TakeLock, ghost
<1>3. ~ Environment
  BY DEF Environment, IoFault, Crash, GitRestore, Rebuild, Edit, OtherCanonicalWrite, ghost
<1>4. ~ UNCHANGED vars
  BY DEF vars, ghost
<1> QED
  BY <1>1, <1>2, <1>3, <1>4 DEF Next

(* A success is reported only for a batch that is on disk and in the index  *)
(* that services open, records edited meanwhile excepted, as long as        *)
(* index.db is not replaced.                                                *)
THEOREM SuccessAlwaysIndexed == MaxRebuilds = 0 => (Spec => SuccessMeansIndexed)
<1> SUFFICES ASSUME MaxRebuilds = 0 PROVE Spec => SuccessMeansIndexed
  OBVIOUS
<1>1. ASSUME TypeOK, Inv, Resolution, [Next]_vars, acked', ~ acked, NEW i \in Outputs \ touched
      PROVE  bytes[i] = "post" /\ index'[live].rows[i] = "post"
  <2>0. live = 0 /\ i \in Untouched
    BY <1>1, OneIndex DEF Untouched
  <2>1. CASE CleanBackup /\ run.then = "written"
    <3>1. UNCHANGED index
      BY <2>1 DEF CleanBackup, Fail, db
    <3> QED
      BY <1>1, <2>0, <2>1, <3>1 DEF Resolution, WrittenTells, CleanBackup, Cleaning
  <2>2. CASE Reindex /\ ~ Fail
    <3>1. lock # NoProc
      BY <1>1, <2>2 DEF Reindex, Inv, Control
    <3>2. IsCurrent(Projected("post")) /\ SetIndex("post", MyIndex.marker)
      BY <2>2 DEF Reindex
    <3>3. AllOutputs("post") /\ index'[0].rows[i] = "post"
      BY <1>1, <3>1, <3>2, CurrentIsWhole, SetIndexSets
    <3> QED
      BY <2>0, <3>3 DEF AllOutputs
  <2> QED
    BY <1>1, <2>1, <2>2, OnlyAcknowledges
<1>2. TypeOK /\ Inv /\ Resolution /\ [Next]_vars =>
        (acked' /\ ~acked => \A i \in Outputs \ touched :
            bytes[i] = "post" /\ index'[live].rows[i] = "post")
  BY <1>1
<1> QED
  BY <1>2, ResolutionHolds, PTL DEF Spec, SuccessMeansIndexed

-------------------------------------------------------------------------------
(* The journaled transaction implements the atomic decision.                *)

Batch == IF journal # "none" THEN "pending"
         ELSE IF AllOutputs("post") THEN "post"
         ELSE IF AllOutputs("prior") THEN "prior"
         ELSE "mixed"
Decided == journal # "none" /\ Marker

LEMMA SameIndex == MaxRebuilds = 0 /\ TypeOK /\ TypeOK' => live = 0 /\ live' = 0
<1>1. MaxRebuilds = 0 => 0..MaxRebuilds = {0}
  OBVIOUS
<1> QED
  BY <1>1 DEF TypeOK, TypeDb

(* A batch that is whole shows as whole.                                    *)
LEMMA WholeShows ==
  ASSUME journal = "none"
  PROVE  /\ AllOutputs("post") => Batch = "post"
         /\ AllOutputs("prior") => Batch = "prior"
         /\ touched = {} /\ Whole("post") => Batch = "post"
         /\ touched = {} /\ Whole("prior") => Batch = "prior"
BY SomeOutput DEF Batch, AllOutputs, Whole, Untouched

(* Steps an observer between transactions does not see: nothing changes, or *)
(* the outputs of a pending transaction.                                    *)
LEMMA Unseen ==
  ASSUME live = 0, live' = 0, UNCHANGED <<touched, acked>>, index'[0].marker = index[0].marker,
         \/ UNCHANGED <<bytes, journal>>
         \/ journal # "none" /\ journal' # "none"
  PROVE  UNCHANGED Decision!vars
BY DEF Decision!vars, AllOutputs

LEMMA FailUnseen == live = 0 /\ live' = 0 /\ Fail => UNCHANGED Decision!vars
BY Unseen DEF Fail, disk, db, ghost

LEMMA LinkBegins ==
  ASSUME live = 0, live' = 0, Inv, Resolution, LinkJournal
  PROVE  Decision!Begin
<1>1. pc = "journalLink" /\ journal = "none" /\ journal' # "none"
  BY DEF LinkJournal, Inv, JournalPlace, JournalAbsent
<1>2. UNCHANGED <<index, touched, acked>> /\ ~ Marker
  BY <1>1 DEF LinkJournal, Resolution, MarkerTells, Preparing, db, ghost
<1>3. touched = {} => Batch = "prior"
  BY <1>1, WholeShows DEF Resolution, BatchTells, Preparing
<1> QED
  BY <1>1, <1>2, <1>3 DEF Decision!Begin, Batch, Marker

(* The index transaction decides; a recovery that rolls back what was       *)
(* decided answers an edit.                                                 *)
LEMMA IndexDecides ==
  ASSUME MaxRebuilds = 0, TypeOK, live = 0, live' = 0, Inv, Resolution,
         (ReconcileIndex \/ Commit) /\ ~ Fail
  PROVE  Decision!Decide \/ Decision!Reverse \/ UNCHANGED Decision!vars
<1>0. run \in Run /\ lock # NoProc /\ journal # "none"
  BY DEF TypeOK, ReconcileIndex, Commit, Inv, Control, JournalPlace, JournalPresent
<1>1. UNCHANGED <<bytes, journal, touched, acked>>
  BY DEF ReconcileIndex, Commit, disk, ghost
<1>2. CASE SetIndex("post", TRUE)
  <2>1. index'[0].marker = TRUE
    BY <1>0, <1>2, SetIndexSets
  <2> QED
    BY <1>0, <1>1, <2>1 DEF Decision!Decide
<1>3. CASE SetIndex("prior", FALSE) /\ AllOutputs("prior")
  <2>1. index'[0].marker = FALSE
    BY <1>0, <1>3, SetIndexSets
  <2>2. Marker => touched # {}
    BY <1>0, <1>3, SomeOutput
       DEF Resolution, MarkerTells, BatchTells, Whole, Untouched, AllOutputs
  <2>3. Marker \in BOOLEAN
    BY OneIndex DEF Marker
  <2>4. CASE Marker
    BY <1>0, <1>1, <2>1, <2>2, <2>4 DEF Decision!Reverse
  <2>5. CASE ~ Marker
    BY <1>0, <1>1, <2>1, <2>3, <2>5, Unseen DEF Marker
  <2> QED
    BY <2>4, <2>5
<1>4. CASE With(N, "undo") /\ UNCHANGED <<disk, db, ghost, budget>>
  BY <1>1, <1>4, Unseen DEF db
<1> QED
  BY <1>0, <1>2, <1>3, <1>4 DEF ReconcileIndex, Commit, Run

LEMMA UnlinkSettles ==
  ASSUME live = 0, live' = 0, Inv, Resolution, CleanJournal
  PROVE  Decision!Settle
<1>1. journal # "none" /\ journal' = "none" /\ UNCHANGED <<bytes, index, touched, acked>>
  BY DEF CleanJournal, Inv, JournalPlace, JournalPresent, db, ghost
<1>2. Whole(IF Marker THEN "post" ELSE "prior")
  BY DEF CleanJournal, Resolution, BatchTells, Closing
<1>3. Batch' \in {"post", "prior", "mixed"}
  BY <1>1 DEF Batch
<1>4. touched = {} => Batch' = IF Marker THEN "post" ELSE "prior"
  BY <1>1, <1>2, SomeOutput DEF Batch, Whole, Untouched, AllOutputs
<1> QED
  BY <1>1, <1>3, <1>4 DEF Decision!Settle, Decision!Settled, Decision!Whole, Batch, Marker

LEMMA ReportAcknowledges ==
  ASSUME MaxRebuilds = 0, TypeOK, live = 0, live' = 0, Inv, Resolution,
         (CleanBackup \/ Reindex) /\ ~ Fail
  PROVE  Decision!Acknowledge \/ UNCHANGED Decision!vars
<1>1. CASE CleanBackup
  <2>1. journal = "none" /\ UNCHANGED <<bytes, journal, index, touched>> /\ pc \in Cleaning
    BY <1>1 DEF CleanBackup, Fail, Inv, JournalPlace, JournalAbsent, db, Cleaning
  <2>2. CASE UNCHANGED acked
    BY <2>1, <2>2, Unseen
  <2>3. CASE acked' = TRUE /\ run.then = "written"
    <3>1. touched = {} => Batch = "post"
      BY <2>1, <2>3, WholeShows DEF Resolution, WrittenTells, Whole
    <3> QED
      BY <2>1, <2>3, <3>1 DEF Decision!Acknowledge, Batch, AllOutputs
  <2> QED
    BY <1>1, <2>2, <2>3, CleanBackupGoes
<1>2. CASE Reindex
  <2>1. lock # NoProc /\ journal = "none"
    BY <1>2 DEF Reindex, Inv, Control, JournalPlace, JournalAbsent
  <2>2. /\ IsCurrent(Projected("post")) /\ SetIndex("post", MyIndex.marker) /\ acked' = TRUE
        /\ UNCHANGED <<bytes, journal, touched>>
    BY <1>2 DEF Reindex, disk
  <2>3. Batch = "post"
    BY <2>1, <2>2, CurrentIsWhole, WholeShows
  <2> QED
    BY <2>1, <2>2, <2>3 DEF Decision!Acknowledge, Batch, AllOutputs
<1> QED
  BY <1>1, <1>2

(* A decision that starts afresh answers for the records from now on.       *)
LEMMA RetireAdopts ==
  ASSUME Inv, RetirePriorMarker, ~ Fail
  PROVE  Decision!Adopt
<1>1. journal = "none" /\ UNCHANGED <<bytes, journal, acked>> /\ touched' = {}
  BY DEF RetirePriorMarker, Inv, JournalPlace, JournalAbsent
<1>2. Batch = "prior"
  BY <1>1, WholeShows DEF RetirePriorMarker
<1> QED
  BY <1>1, <1>2 DEF Decision!Adopt, Batch, AllOutputs

LEMMA GitRestores ==
  ASSUME TypeOK, GitRestore
  PROVE  Decision!Restore
<1>1. /\ journal = "none" /\ UNCHANGED journal
      /\ \A i \in Outputs : bytes'[i] = "prior"
      /\ touched' = {} /\ acked' = FALSE
  BY DEF GitRestore, Outputs, Records
<1> QED
  BY <1>1, SomeOutput DEF Decision!Restore, AllOutputs

LEMMA WriterEdits ==
  ASSUME live = 0, live' = 0, index'[0].marker = index[0].marker, UNCHANGED <<journal, acked>>,
         NEW r \in Records, touched' = touched \cup {r}
  PROVE  Decision!Edit
BY DEF Decision!Edit, Decision!Settled, Decision!Whole

LEMMA EnvironmentRefines ==
  ASSUME MaxRebuilds = 0, TypeOK, live = 0, live' = 0, Inv, Environment
  PROVE  Decision!Edit \/ Decision!Restore \/ UNCHANGED Decision!vars
<1>1. CASE IoFault
  <2>1. UNCHANGED <<journal, index, touched, acked>>
    BY <1>1 DEF IoFault, db, ghost
  <2>2. UNCHANGED bytes \/ journal # "none"
    BY <1>1 DEF IoFault, Inv, JournalPlace, JournalPresent
  <2> QED
    BY <2>1, <2>2, Unseen
<1>2. CASE Crash
  BY <1>2, Unseen DEF Crash, disk, db, ghost
<1>3. CASE GitRestore
  BY <1>3, GitRestores
<1>4. ~ Rebuild
  BY OneIndex
<1>5. ASSUME NEW r \in Records, NEW content \in Bytes, NEW inPlace \in BOOLEAN,
             Edit(r, content, inPlace)
      PROVE  Decision!Edit
  BY <1>5, WriterEdits DEF Edit, db
<1>6. ASSUME NEW p \in Procs, NEW r \in Records, OtherCanonicalWrite(p, r)
      PROVE  Decision!Edit
  <2>1. index'[0].marker = index[0].marker
    BY <1>6, OneIndex DEF OtherCanonicalWrite, TypeOK, TypeDb
  <2> QED
    BY <1>6, <2>1, WriterEdits DEF OtherCanonicalWrite
<1> QED
  BY <1>1, <1>2, <1>3, <1>4, <1>5, <1>6 DEF Environment

LEMMA StepRefines ==
  ASSUME MaxRebuilds = 0, TypeOK, TypeOK', Inv, Resolution, [Next]_vars
  PROVE  [Decision!Next]_(Decision!vars)
<1>0. live = 0 /\ live' = 0
  BY SameIndex
<1>1. CASE Fail
  BY <1>0, <1>1, FailUnseen
<1>2. CASE (ReconcileIndex \/ Commit) /\ ~ Fail
  BY <1>0, <1>2, IndexDecides DEF Decision!Next
<1>3. CASE LinkJournal \/ CleanJournal
  BY <1>0, <1>3, LinkBegins, UnlinkSettles DEF Decision!Next
<1>4. CASE (CleanBackup \/ Reindex) /\ ~ Fail
  BY <1>0, <1>4, ReportAcknowledges DEF Decision!Next
<1>5. CASE RetirePriorMarker /\ ~ Fail
  BY <1>5, RetireAdopts DEF Decision!Next
<1>6. CASE RestoreRename \/ InstallRename \/ UndoRename \/ SwapJournal
  <2>1. UNCHANGED <<index, touched, acked>>
    BY <1>6 DEF RestoreRename, InstallRename, UndoRename, SwapJournal, db, ghost
  <2>2. journal # "none" /\ journal' # "none"
    BY <1>6 DEF RestoreRename, InstallRename, UndoRename, SwapJournal, Inv, JournalPlace,
       JournalPresent
  <2> QED
    BY <1>0, <2>1, <2>2, Unseen
<1>7. CASE /\ ~ Fail
           /\ \/ RecoverLoad \/ RestoreRevalidate \/ CleanVerify \/ CleanTmp \/ CleanStage
              \/ Recognize \/ Stage \/ Backup \/ WriteJournalTmp \/ UnlinkJournalTmp
              \/ InstallRevalidate \/ WriteRewriteTmp \/ UnlinkSuperseded \/ VerifyPostState
              \/ UndoFailedRevalidate \/ UndoRevalidate \/ CleanVerifiedPreState
  <2>1. UNCHANGED <<bytes, journal, index, touched, acked>>
    BY <1>7 DEF RecoverLoad, RestoreRevalidate, CleanVerify, CleanTmp, CleanStage, Recognize, Stage,
       Backup, WriteJournalTmp, UnlinkJournalTmp, InstallRevalidate, WriteRewriteTmp,
       UnlinkSuperseded, VerifyPostState, UndoFailedRevalidate, UndoRevalidate,
       CleanVerifiedPreState, disk, db, ghost
  <2> QED
    BY <1>0, <2>1, Unseen
<1>8. CASE Processes \/ UNCHANGED vars
  BY <1>0, <1>8, Unseen DEF Processes, OpenService, CloseService, LockTimeout, RecoverOnOpen, Apply,
     TakeLock, vars, disk, db, ghost
<1>9. CASE Environment
  BY <1>0, <1>9, EnvironmentRefines DEF Decision!Next
<1> QED
  BY <1>1, <1>2, <1>3, <1>4, <1>5, <1>6, <1>7, <1>8, <1>9 DEF Next, Holder

(* The journaled transaction, with its crashes, I/O faults, error paths,    *)
(* retries and recoveries, implements the atomic decision, for every number *)
(* of records, processes and failures, as long as index.db is not replaced: *)
(* whoever looks while no journal is on disk sees the whole batch prior or  *)
(* post, whichever the commit marker said, and success is reported only for *)
(* a post batch, unless somebody edited the records meanwhile.              *)
THEOREM DecisionAlwaysImplemented == MaxRebuilds = 0 => (Spec => ImplementsDecision)
<1> SUFFICES ASSUME MaxRebuilds = 0 PROVE Spec => ImplementsDecision
  OBVIOUS
<1>1. Init => Decision!Init
  BY SomeOutput DEF Init, Decision!Init, AllOutputs, Outputs, Records
<1>2. TypeOK /\ TypeOK' /\ Inv /\ Resolution /\ [Next]_vars => [Decision!Next]_(Decision!vars)
  BY StepRefines
<1> QED
  BY <1>1, <1>2, ResolutionHolds, PTL DEF Spec, ImplementsDecision, Decision!Spec
===============================================================================
