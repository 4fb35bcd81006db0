----------------------------- MODULE SharedProofs -----------------------------
(***************************************************************************)
(* Theorems about SharedRuntime, for every set of worktrees, processes,    *)
(* proposals and records, and whether or not indexes are replaced under    *)
(* open services.  A theorem that needs every recovery to hold the lock    *)
(* says so.                                                                *)
(***************************************************************************)
EXTENDS SharedRuntime, TLAPS

(* What an operation's local variables are good for at each control point:  *)
(* a journal in hand where the recovery or the commit uses one, and an item *)
(* of the kind the operation is about.                                      *)
HasInHand(label, r) ==
    /\ label \in {"roll", "share", "unmark", "install", "commit"} => r.seen \in Journal
    /\ label \in {"install", "commit"} => r.op \in {"apply", "capture"}
    /\ label = "decide" => r.op \in {"approve", "reject"}
    /\ r.op = "capture" => r.item \in Locals
    /\ r.op \in {"approve", "reject", "apply"} => r.item \in Proposals
InHand == \A p \in Procs : HasInHand(pc[p], run[p])

-------------------------------------------------------------------------------
(* Type correctness: what the building blocks of the actions preserve.      *)

LEMMA Basics ==
    /\ 0 \in Indexes /\ 0 \in 0..MaxOps /\ 0 \in 0..MaxFailures /\ 0 \in 0..MaxEdits
    /\ NoFiles \in [Proposals -> File]
    /\ EmptyIndex \in Index
    /\ NoRun \in Run
    /\ \A p \in Procs : Tree(p) \in Trees
BY BoundAssumption, HomeAssumption
   DEF Indexes, NoFiles, File, EmptyIndex, Index, Status, NoRun, Run, Ops, NoJournal, Tree

LEMMA GotoTyped ==
  ASSUME pc \in [Procs -> PCs], NEW p \in Procs, NEW label \in PCs, Goto(p, label)
  PROVE  pc' \in [Procs -> PCs]
BY DEF Goto

LEMMA NoteTyped ==
  ASSUME run \in [Procs -> Run], NEW p \in Procs, NEW r \in Run, Note(p, r)
  PROVE  run' \in [Procs -> Run]
BY DEF Note

(* Writing an index file that does not exist changes none of those that do. *)
LEMMA SetIndexTyped ==
  ASSUME index \in [Trees -> [Indexes -> Index]],
         NEW t, NEW g, NEW x, SetIndex(t, g, x),
         t \in Trees /\ g \in Indexes => x \in Index
  PROVE  index' \in [Trees -> [Indexes -> Index]]
<1>1. CASE t \in Trees /\ g \in Indexes
  BY <1>1 DEF SetIndex
<1>2. CASE t \in Trees /\ g \notin Indexes
  <2>1. [index[t] EXCEPT ![g] = x] = index[t]
    BY <1>2
  <2> QED
    BY <1>2, <2>1 DEF SetIndex
<1>3. CASE t \notin Trees
  BY <1>3 DEF SetIndex
<1> QED
  BY <1>1, <1>2, <1>3

LEMMA TouchedTyped == \A x \in Index : Touched(x) \in Index
BY DEF Touched, Index

LEMMA SetSharedTyped ==
  ASSUME index \in [Trees -> [Indexes -> Index]],
         NEW s \in [prop : [Proposals -> Status], recs : SUBSET Locals], SetShared(s)
  PROVE  /\ shared' \in [prop : [Proposals -> Status], recs : SUBSET Locals]
         /\ index' \in [Trees -> [Indexes -> Index]]
BY TouchedTyped DEF SetShared

LEMMA UnlinkTyped ==
  ASSUME TypeDbs, NEW t \in Trees, Unlink(t)
  PROVE  /\ index' \in [Trees -> [Indexes -> Index]]
         /\ live' \in [Trees -> Indexes \cup {Nothing}]
<1>1. live' \in [Trees -> Indexes \cup {Nothing}]
  BY DEF Unlink, TypeDbs
<1>2. index' = index \/ index' = [index EXCEPT ![t][live[t]] = EmptyIndex]
  BY DEF Unlink
<1>3. CASE index' = [index EXCEPT ![t][live[t]] = EmptyIndex]
  <2>1. SetIndex(t, live[t], EmptyIndex)
    BY <1>3 DEF SetIndex
  <2> QED
    BY <2>1, <1>1, Basics, SetIndexTyped DEF TypeDbs
<1> QED
  BY <1>1, <1>2, <1>3 DEF TypeDbs

LEMMA SetFileTyped ==
  ASSUME file \in [Trees -> [Proposals -> File]],
         NEW t \in Trees, NEW i, NEW content \in File, SetFile(t, i, content)
  PROVE  file' \in [Trees -> [Proposals -> File]]
<1>1. [file[t] EXCEPT ![i] = content] \in [Proposals -> File]
  BY Zenon
<1> QED
  BY <1>1 DEF SetFile

LEMMA DbsSame == TypeDbs /\ UNCHANGED dbs => TypeDbs'
BY DEF TypeDbs, dbs

LEMMA FilesSame == TypeFiles /\ UNCHANGED <<disk, journal, ops>> => TypeFiles'
BY DEF TypeFiles, disk

LEMMA HistorySame == TypeHistory /\ UNCHANGED <<acked, budget>> => TypeHistory'
BY DEF TypeHistory, budget

LEMMA QuitTyped ==
  ASSUME TypeProcs, NEW p \in Procs, Quit(p)
  PROVE  TypeProcs'
<1>1. pc' \in [Procs -> PCs] /\ run' \in [Procs -> Run]
  BY GotoTyped, NoteTyped, Basics DEF Quit, TypeProcs, PCs
<1>2. lock' \in Procs \cup {Nothing}
  BY DEF Quit, Unlock, TypeProcs
<1>3. conn' \in [Procs -> Indexes \cup {Nothing}]
  BY DEF Quit, TypeProcs
<1> QED
  BY <1>1, <1>2, <1>3 DEF TypeProcs

-------------------------------------------------------------------------------
(* What an operation does to its process: control and locals stay typed.    *)

LEMMA MovesTyped ==
  ASSUME TypeProcs, NEW p \in Procs, NEW label \in PCs, Goto(p, label), UNCHANGED <<lock, conn>>,
         UNCHANGED run \/ \E r \in Run : Note(p, r)
  PROVE  TypeProcs'
BY GotoTyped, NoteTyped DEF TypeProcs

LEMMA EndsTyped ==
  ASSUME TypeProcs, NEW p \in Procs, Goto(p, "idle"), Note(p, NoRun), Unlock(p), UNCHANGED conn
  PROVE  TypeProcs'
BY GotoTyped, NoteTyped, Basics DEF TypeProcs, Unlock, PCs

LEMMA StartTyped ==
  ASSUME TypeProcs, NEW p \in Procs, NEW op \in Ops, NEW item \in Proposals \cup Locals \cup {Nothing},
         NEW g \in Indexes \cup {Nothing}, Start(p, op, item, g),
         lock' \in Procs \cup {Nothing}, conn' \in [Procs -> Indexes \cup {Nothing}]
  PROVE  TypeProcs'
<1>1. [NoRun EXCEPT !.op = op, !.item = item, !.index = g] \in Run
  BY Basics DEF Run
<1> QED
  BY <1>1, GotoTyped, NoteTyped DEF Start, TypeProcs, PCs

LEMMA LastTyped ==
  ASSUME TypeProcs, NEW p \in Procs, ToLast(p), UNCHANGED <<lock, conn>>
  PROVE  TypeProcs'
<1>1. [run[p] EXCEPT !.last = TRUE] \in Run
  BY DEF TypeProcs, Run
<1> QED
  BY <1>1, MovesTyped DEF ToLast, PCs

LEMMA AfterRecoveryTyped == \A p \in Procs : AfterRecovery(p) \in PCs
BY DEF AfterRecovery, PCs

(* Operations begin.                                                        *)
LEMMA TypeBegin ==
  ASSUME TypeOK, NEW p \in Procs, Begin(p)
  PROVE  TypeOK'
<1> USE DEF TypeOK
<1>1. CASE OpenCurrent(p)
  <2>1. live[Tree(p)] \in Indexes
    BY <1>1, Basics DEF OpenCurrent, TypeDbs
  <2>2. TypeProcs'
    BY <1>1, <2>1 DEF OpenCurrent, TypeProcs
  <2> QED
    BY <1>1, <2>2, DbsSame, FilesSame, HistorySame DEF OpenCurrent
<1>2. CASE OpenRefreshing(p)
  <2>1. live[Tree(p)] \in Indexes
    BY <1>2, Basics DEF OpenRefreshing, TypeDbs
  <2>2. /\ lock' \in Procs \cup {Nothing}
        /\ conn' \in [Procs -> Indexes \cup {Nothing}]
    BY <1>2, <2>1 DEF OpenRefreshing, TakeLock, TypeProcs
  <2>3. Start(p, "open", Nothing, live[Tree(p)])
    BY <1>2 DEF OpenRefreshing
  <2>4. TypeProcs'
    BY <2>1, <2>2, <2>3, StartTyped DEF Ops
  <2> QED
    BY <2>3, <2>4, DbsSame, FilesSame, HistorySame DEF Start
<1>3. CASE Close(p)
  <2>1. TypeProcs'
    BY <1>3 DEF Close, TypeProcs
  <2> QED
    BY <1>3, <2>1, DbsSame, FilesSame, HistorySame DEF Close
<1>4. CASE Read(p) \/ ReplayCapture(p) \/ \E i \in Proposals \cup Locals, op \in Ops : Command(p, op, i)
  <2>1. \E op \in Ops, i \in Proposals \cup Locals \cup {Nothing} : Start(p, op, i, conn[p])
    BY <1>4 DEF Read, ReplayCapture, Command, Ops
  <2>2. conn[p] \in Indexes \cup {Nothing}
    BY DEF TypeProcs
  <2>3. /\ lock' \in Procs \cup {Nothing}
        /\ conn' \in [Procs -> Indexes \cup {Nothing}]
    BY <1>4 DEF Read, ReplayCapture, Command, TakeLock, TypeProcs
  <2>4. TypeProcs'
    BY <2>1, <2>2, <2>3, StartTyped
  <2> QED
    BY <2>1, <2>4, DbsSame, FilesSame, HistorySame DEF Start
<1>5. CASE Rebuild(p)
  <2>1. /\ lock' \in Procs \cup {Nothing}
        /\ conn' \in [Procs -> Indexes \cup {Nothing}]
    BY <1>5 DEF Rebuild, TakeLock, TypeProcs
  <2>2. Start(p, "rebuild", Nothing, Nothing)
    BY <1>5 DEF Rebuild
  <2>3. TypeProcs'
    BY <2>1, <2>2, StartTyped DEF Ops
  <2> QED
    BY <2>2, <2>3, DbsSame, FilesSame, HistorySame DEF Start
<1> QED
  BY <1>1, <1>2, <1>3, <1>4, <1>5 DEF Begin, Ops

(* The recovery settles a journal.                                          *)
LEMMA ContentTyped ==
  ASSUME NEW x \in Index, NEW j \in Journal
  PROVE  /\ WithApplied(x, j.item, j.op) \in Index
         /\ j.item \in Locals => WithRecord(x, j.item, j.op) \in Index
         /\ [x EXCEPT !.markers = @ \ {j.op}] \in Index
BY DEF WithApplied, WithRecord, Touched, Index, Journal, Status, File

LEMMA PayloadTyped ==
  ASSUME TypeDbs, NEW j \in Journal
  PROVE  Payload(j) \in [prop : [Proposals -> Status], recs : SUBSET Locals]
BY DEF Payload, IsApply, Journal, TypeDbs, Status

LEMMA SetSourceTyped ==
  ASSUME TypeDbs, NEW p, NEW x, SetSource(p, x),
         run[p].seen.tree \in Trees /\ run[p].source \in Indexes => x \in Index
  PROVE  TypeDbs'
BY SetIndexTyped DEF SetSource, TypeDbs

LEMMA RefusalTyped ==
  ASSUME TypeOK, NEW p \in Procs, Quit(p), UNCHANGED <<dbs, disk, journal, budget>>
  PROVE  TypeOK'
<1>1. UNCHANGED <<acked, ops>>
  BY DEF Quit
<1> QED
  BY <1>1, QuitTyped, DbsSame, FilesSame, HistorySame DEF TypeOK

LEMMA TypeRecovery ==
  ASSUME TypeOK, InHand, NEW p \in Procs, Recovery(p)
  PROVE  TypeOK'
<1> USE DEF TypeOK
<1>0. run[p] \in Run
  BY DEF TypeProcs
<1>1. CASE RecoverNothing(p)
  <2>1. TypeProcs'
    BY <1>1, MovesTyped, AfterRecoveryTyped DEF RecoverNothing, Stays
  <2> QED
    BY <1>1, <2>1, DbsSame, FilesSame, HistorySame DEF RecoverNothing, Stays
<1>2. CASE Recover(p)
  <2>1. live[journal.tree] \in Indexes \cup {Nothing}
    BY <1>2 DEF Recover, TypeDbs, TypeFiles, Journal
  <2>2. [run[p] EXCEPT !.seen = journal, !.source = live[journal.tree]] \in Run
    BY <1>0, <2>1 DEF Run, TypeFiles
  <2>3. \E label \in PCs : Goto(p, label)
    BY <1>2 DEF Recover, PCs
  <2>4. TypeProcs'
    BY <1>2, <2>2, <2>3, MovesTyped DEF Recover, Stays
  <2> QED
    BY <1>2, <2>4, DbsSame, FilesSame, HistorySame DEF Recover, Stays
<1>3. CASE RecoverRefuse(p) \/ RollForwardRefuse(p) \/ ShareRefuse(p) \/ UnmarkRefuse(p)
  BY <1>3, RefusalTyped DEF RecoverRefuse, RollForwardRefuse, ShareRefuse, UnmarkRefuse
<1>4. CASE RollForward(p)
  <2>1. run[p].seen \in Journal
    BY <1>4 DEF RollForward, InHand, HasInHand
  <2>2. run[p].source \in Indexes => Source(p) \in Index
    BY <2>1 DEF Source, TypeDbs, Journal
  <2>3. SetSource(p, WithApplied(Source(p), run[p].seen.item, run[p].seen.op))
    BY <1>4 DEF RollForward
  <2>4. TypeDbs'
    BY <2>1, <2>2, <2>3, SetSourceTyped, ContentTyped
  <2>5. TypeProcs'
    BY <1>4, MovesTyped DEF RollForward, PCs
  <2> QED
    BY <1>4, <2>4, <2>5, FilesSame, HistorySame DEF RollForward
<1>5. CASE Share(p)
  <2>1. run[p].seen \in Journal
    BY <1>5 DEF Share, InHand, HasInHand
  <2>2. Payload(run[p].seen) \in [prop : [Proposals -> Status], recs : SUBSET Locals]
    BY <2>1, PayloadTyped
  <2>3. TypeDbs'
    BY <1>5, <2>2, SetSharedTyped DEF Share, TypeDbs
  <2>4. TypeProcs'
    BY <1>5, MovesTyped DEF Share, PCs
  <2> QED
    BY <1>5, <2>3, <2>4, FilesSame, HistorySame DEF Share
<1>6. CASE Unmark(p)
  <2>1. run[p].seen \in Journal
    BY <1>6 DEF Unmark, InHand, HasInHand
  <2>2. run[p].source \in Indexes => Source(p) \in Index
    BY <2>1 DEF Source, TypeDbs, Journal
  <2>3. SetSource(p, [Source(p) EXCEPT !.markers = @ \ {run[p].seen.op}])
    BY <1>6 DEF Unmark
  <2>4. TypeDbs'
    BY <2>1, <2>2, <2>3, SetSourceTyped, ContentTyped
  <2>5. TypeProcs'
    BY <1>6, MovesTyped DEF Unmark, PCs
  <2> QED
    BY <1>6, <2>4, <2>5, FilesSame, HistorySame DEF Unmark
<1>7. CASE Drop(p)
  <2>1. [run[p] EXCEPT !.seen = NoJournal, !.source = Nothing] \in Run
    BY <1>0 DEF Run
  <2>2. TypeProcs'
    BY <1>7, <2>1, MovesTyped, AfterRecoveryTyped DEF Drop
  <2>3. TypeFiles'
    BY <1>7 DEF Drop, TypeFiles, disk
  <2> QED
    BY <1>7, <2>2, <2>3, DbsSame, HistorySame DEF Drop
<1> QED
  BY <1>1, <1>2, <1>3, <1>4, <1>5, <1>6, <1>7 DEF Recovery

(* The rest of an operation.                                                *)
LEMMA TypeOperation ==
  ASSUME TypeOK, InHand, NEW p \in Procs, Operation(p)
  PROVE  TypeOK'
<1> USE DEF TypeOK
<1>0. run[p] \in Run /\ Tree(p) \in Trees /\ (run[p].index \in Indexes => Mine(p) \in Index)
  BY Basics DEF TypeProcs, TypeDbs, Mine
<1>1. CASE Mirror(p)
  <2>1. ASSUME run[p].index \in Indexes PROVE Mirrored(Mine(p)) \in Index
    BY <1>0, <2>1 DEF Mirrored, Index, TypeDbs
  <2>2. TypeDbs'
    BY <1>1, <2>1, SetIndexTyped DEF Mirror, TypeDbs
  <2>3. TypeProcs'
    BY <1>1, MovesTyped DEF Mirror, PCs
  <2> QED
    BY <1>1, <2>2, <2>3, FilesSame, HistorySame DEF Mirror
<1>2. CASE Propose(p) \/ SetStatus(p)
  <2>1. Result(run[p].op) \in Status
    BY <1>2 DEF Propose, SetStatus, InHand, HasInHand, Result, Status
  <2>2. [shared EXCEPT !.prop[run[p].item] = Result(run[p].op)]
          \in [prop : [Proposals -> Status], recs : SUBSET Locals]
    BY <2>1 DEF TypeDbs
  <2>3. TypeDbs'
    BY <1>2, <2>2, SetSharedTyped DEF Propose, SetStatus, TypeDbs
  <2>4. TypeProcs'
    BY <1>2, LastTyped DEF Propose, SetStatus
  <2> QED
    BY <1>2, <2>3, <2>4, FilesSame, HistorySame DEF Propose, SetStatus
<1>12. CASE Decide(p)
  <2>1. TypeProcs'
    BY <1>12, MovesTyped DEF Decide, Stays, PCs
  <2> QED
    BY <1>12, <2>1, DbsSame, FilesSame, HistorySame DEF Decide, Stays
<1>3. CASE WriteJournal(p)
  <2>1. ops + 1 \in 1..MaxOps
    BY <1>3, BoundAssumption DEF WriteJournal, TypeFiles
  <2>2. journal' \in Journal
    BY <1>0, <1>3, <2>1 DEF WriteJournal, InHand, HasInHand, Journal
  <2>3. [run[p] EXCEPT !.seen = journal'] \in Run
    BY <1>0, <2>2 DEF Run
  <2>4. TypeProcs'
    BY <1>3, <2>3, MovesTyped DEF WriteJournal, PCs
  <2>5. TypeFiles'
    BY <1>3, <2>1, <2>2 DEF WriteJournal, TypeFiles, disk
  <2> QED
    BY <1>3, <2>4, <2>5, DbsSame, HistorySame DEF WriteJournal
<1>4. CASE BodyEnds(p)
  <2>1. TypeProcs'
    BY <1>4, EndsTyped DEF BodyEnds
  <2> QED
    BY <1>4, <2>1, DbsSame, FilesSame, HistorySame DEF BodyEnds
<1>5. CASE Install(p)
  <2>1. file' \in [Trees -> [Proposals -> File]]
    BY <1>0, <1>5, SetFileTyped DEF Install, TypeFiles, File
  <2>2. installed' \in [Proposals -> SUBSET Trees]
    BY <1>0, <1>5 DEF Install, TypeFiles
  <2>3. TypeFiles'
    BY <1>5, <2>1, <2>2 DEF Install, TypeFiles
  <2>4. TypeProcs'
    BY <1>5, MovesTyped DEF Install, PCs
  <2> QED
    BY <1>5, <2>3, <2>4, DbsSame, HistorySame DEF Install
<1>6. CASE Commit(p)
  <2>1. run[p].seen \in Journal /\ run[p].seen.op \in 1..MaxOps
    BY <1>6 DEF Commit, InHand, HasInHand, Journal
  <2>2. ASSUME run[p].index \in Indexes
        PROVE  WithApplied(Mine(p), run[p].item, run[p].seen.op) \in Index
    BY <1>0, <2>1, <2>2 DEF WithApplied, Touched, Index, Status, File
  <2>3. ASSUME run[p].index \in Indexes, run[p].op # "apply"
        PROVE  WithRecord(Mine(p), run[p].item, run[p].seen.op) \in Index
    <3>1. run[p].item \in Locals
      BY <1>6, <2>3 DEF Commit, InHand, HasInHand
    <3> QED
      BY <1>0, <2>1, <2>3, <3>1 DEF WithRecord, Touched, Index
  <2>4. TypeDbs'
    BY <1>6, <2>2, <2>3, SetIndexTyped DEF Commit, TypeDbs
  <2>5. TypeProcs'
    BY <1>6, LastTyped DEF Commit
  <2> QED
    BY <1>6, <2>4, <2>5, FilesSame, HistorySame DEF Commit
<1>7. CASE Snapshot(p)
  <2>1. [run[p] EXCEPT !.snapshot = file[Tree(p)]] \in Run
    BY <1>0 DEF Run, TypeFiles
  <2>2. TypeProcs'
    BY <1>7, <2>1, MovesTyped DEF Snapshot, PCs
  <2> QED
    BY <1>7, <2>2, DbsSame, FilesSame, HistorySame DEF Snapshot
<1>8. CASE RemoveIndex(p)
  <2>1. TypeDbs'
    BY <1>0, <1>8, UnlinkTyped DEF RemoveIndex, TypeDbs
  <2>2. TypeProcs'
    BY <1>8, MovesTyped DEF RemoveIndex, PCs
  <2> QED
    BY <1>8, <2>1, <2>2, FilesSame, HistorySame DEF RemoveIndex
<1>9. CASE CreateIndex(p)
  <2> DEFINE g == made[Tree(p)] + 1
  <2>1. g \in Indexes /\ SetIndex(Tree(p), g, EmptyIndex)
    BY <1>9 DEF CreateIndex
  <2>2. TypeDbs'
    BY <1>0, <1>9, <2>1, Basics, SetIndexTyped DEF CreateIndex, TypeDbs
  <2>3. [run[p] EXCEPT !.index = g] \in Run
    BY <1>0, <2>1 DEF Run
  <2>4. TypeProcs'
    BY <1>9, <2>3, MovesTyped DEF CreateIndex, PCs
  <2> QED
    BY <1>9, <2>2, <2>4, FilesSame, HistorySame DEF CreateIndex
<1>10. CASE ImportRecords(p)
  <2>1. ASSUME run[p].index \in Indexes PROVE [Mine(p) EXCEPT !.canon = run[p].snapshot] \in Index
    BY <1>0, <2>1 DEF Index, Run
  <2>2. TypeDbs'
    BY <1>10, <2>1, SetIndexTyped DEF ImportRecords, TypeDbs
  <2>3. TypeProcs'
    BY <1>10, LastTyped DEF ImportRecords
  <2> QED
    BY <1>10, <2>2, <2>3, FilesSame, HistorySame DEF ImportRecords
<1>11. CASE Finish(p)
  <2>1. TypeProcs'
    BY <1>11, EndsTyped DEF Finish
  <2>2. TypeHistory'
    BY <1>11 DEF Finish, InHand, HasInHand, TypeHistory, budget
  <2> QED
    BY <1>11, <2>1, <2>2, DbsSame, FilesSame DEF Finish
<1> QED
  BY <1>1, <1>2, <1>3, <1>4, <1>5, <1>6, <1>7, <1>8, <1>9, <1>10, <1>11, <1>12 DEF Operation

(* Faults, crashes and what is done to the files from outside.              *)
LEMMA TypeDisturb ==
  ASSUME TypeOK, Disturb
  PROVE  TypeOK'
<1> USE DEF TypeOK
<1>1. ASSUME NEW p \in Procs, Fault(p) PROVE TypeOK'
  <2>1. /\ file' \in [Trees -> [Proposals -> File]]
        /\ installed' \in [Proposals -> SUBSET Trees]
    BY <1>1, Basics, SetFileTyped DEF Fault, RollBackFile, Forget, TypeFiles, File, disk
  <2>2. TypeFiles'
    BY <1>1, <2>1 DEF Fault, Quit, TypeFiles
  <2>3. TypeHistory'
    BY <1>1, BoundAssumption DEF Fault, Quit, TypeHistory
  <2> QED
    BY <1>1, <2>2, <2>3, QuitTyped, DbsSame DEF Fault
<1>2. ASSUME NEW p \in Procs, Crash(p) PROVE TypeOK'
  <2>1. /\ pc' \in [Procs -> PCs] /\ run' \in [Procs -> Run]
        /\ lock' \in Procs \cup {Nothing}
    BY <1>2, GotoTyped, NoteTyped, Basics DEF Crash, Unlock, TypeProcs, PCs
  <2>2. TypeProcs'
    BY <1>2, <2>1 DEF Crash, TypeProcs
  <2>3. TypeHistory'
    BY <1>2, BoundAssumption DEF Crash, TypeHistory
  <2> QED
    BY <1>2, <2>2, <2>3, DbsSame, FilesSame DEF Crash
<1>3. ASSUME NEW t \in Trees, DeleteIndex(t) PROVE TypeOK'
  <2>1. TypeDbs'
    BY <1>3, UnlinkTyped DEF DeleteIndex, TypeDbs
  <2>2. TypeProcs'
    BY <1>3 DEF DeleteIndex, TypeProcs
  <2>3. TypeHistory'
    BY <1>3, BoundAssumption DEF DeleteIndex, TypeHistory
  <2> QED
    BY <1>3, <2>1, <2>2, <2>3, FilesSame DEF DeleteIndex
<1>4. ASSUME NEW t \in Trees, NEW i \in Proposals, Edit(t, i) PROVE TypeOK'
  <2>1. file' \in [Trees -> [Proposals -> File]]
    BY <1>4, SetFileTyped DEF Edit, TypeFiles
  <2>2. TypeFiles'
    BY <1>4, <2>1 DEF Edit, Forget, TypeFiles
  <2>3. TypeProcs'
    BY <1>4 DEF Edit, TypeProcs
  <2>4. TypeHistory'
    BY <1>4, BoundAssumption DEF Edit, TypeHistory
  <2> QED
    BY <1>4, <2>2, <2>3, <2>4, DbsSame DEF Edit
<1> QED
  BY <1>1, <1>2, <1>3, <1>4 DEF Disturb

-------------------------------------------------------------------------------
(* The local variables of an operation: InHand is inductive with TypeOK.    *)

LEMMA HandMoves ==
  ASSUME TypeProcs, InHand, NEW p \in Procs, NEW label, NEW r,
         Goto(p, label), Note(p, r), HasInHand(label, r)
  PROVE  InHand'
<1> SUFFICES ASSUME NEW q \in Procs PROVE HasInHand(pc[q], run[q])'
  BY DEF InHand
<1>1. CASE q = p
  <2>1. pc'[q] = label /\ run'[q] = r
    BY <1>1 DEF Goto, Note, TypeProcs
  <2> QED
    BY <2>1 DEF HasInHand
<1>2. CASE q # p
  <2>1. pc'[q] = pc[q] /\ run'[q] = run[q]
    BY <1>2 DEF Goto, Note, TypeProcs
  <2> QED
    BY <2>1 DEF InHand, HasInHand
<1> QED
  BY <1>1, <1>2

LEMMA HandGoes ==
  ASSUME TypeProcs, InHand, NEW p \in Procs, NEW label,
         Goto(p, label), UNCHANGED run, HasInHand(label, run[p])
  PROVE  InHand'
<1>1. Note(p, run[p])
  BY DEF Note, TypeProcs
<1> QED
  BY <1>1, HandMoves

LEMMA HandSame == InHand /\ UNCHANGED <<pc, run>> => InHand'
BY DEF InHand, HasInHand

(* An operation that ends leaves nothing in hand. *)
LEMMA HandEmptied ==
  ASSUME TypeProcs, InHand, NEW p \in Procs, Goto(p, "idle"), Note(p, NoRun)
  PROVE  InHand'
BY HandMoves DEF HasInHand, NoRun

LEMMA HandLast ==
  ASSUME TypeProcs, InHand, NEW p \in Procs, ToLast(p)
  PROVE  InHand'
<1>1. HasInHand("recover", [run[p] EXCEPT !.last = TRUE])
  BY DEF InHand, HasInHand, TypeProcs, Run
<1> QED
  BY <1>1, HandMoves DEF ToLast

LEMMA HandStart ==
  ASSUME TypeProcs, InHand, NEW p \in Procs, NEW op, NEW item, NEW g, Start(p, op, item, g),
         op = "capture" => item \in Locals,
         op \in {"approve", "reject", "apply"} => item \in Proposals
  PROVE  InHand'
<1>1. HasInHand("recover", [NoRun EXCEPT !.op = op, !.item = item, !.index = g])
  BY DEF HasInHand, NoRun
<1> QED
  BY <1>1, HandMoves DEF Start

LEMMA HandBegin ==
  ASSUME TypeOK, InHand, NEW p \in Procs, Begin(p)
  PROVE  InHand'
<1> USE DEF TypeOK
<1>1. CASE OpenCurrent(p) \/ Close(p)
  BY <1>1, HandSame DEF OpenCurrent, Close
<1>2. CASE OpenRefreshing(p) \/ Read(p) \/ ReplayCapture(p) \/ Rebuild(p)
  <2>1. \/ Start(p, "open", Nothing, live[Tree(p)]) \/ Start(p, "read", Nothing, conn[p])
        \/ Start(p, "replay", Nothing, conn[p]) \/ Start(p, "rebuild", Nothing, Nothing)
    BY <1>2 DEF OpenRefreshing, Read, ReplayCapture, Rebuild
  <2> QED
    BY <2>1, HandStart
<1>3. ASSUME NEW i \in Proposals, NEW op \in {"propose", "approve", "reject", "apply"},
             Command(p, op, i)
      PROVE  InHand'
  BY <1>3, HandStart DEF Command
<1>4. ASSUME NEW i \in Locals, Command(p, "capture", i) PROVE InHand'
  BY <1>4, HandStart DEF Command
<1> QED
  BY <1>1, <1>2, <1>3, <1>4 DEF Begin

LEMMA HandRecovery ==
  ASSUME TypeOK, InHand, NEW p \in Procs, Recovery(p)
  PROVE  InHand'
<1> USE DEF TypeOK
<1>0. run[p] \in Run /\ HasInHand(pc[p], run[p])
  BY DEF TypeProcs, InHand
<1>1. AfterRecovery(p) \notin {"roll", "share", "unmark", "decide", "install", "commit"}
  BY DEF AfterRecovery
<1>2. CASE RecoverNothing(p)
  BY <1>0, <1>1, <1>2, HandGoes DEF RecoverNothing, Stays, HasInHand
<1>3. CASE Recover(p)
  <2>1. journal \in Journal
    BY <1>3 DEF Recover, TypeFiles
  <2>2. PICK label \in {"drop", "roll", "share", "unmark"} : Goto(p, label)
    BY <1>3 DEF Recover
  <2>3. HasInHand(label, [run[p] EXCEPT !.seen = journal, !.source = live[journal.tree]])
    BY <1>0, <2>1 DEF HasInHand, Run
  <2> QED
    BY <1>3, <2>2, <2>3, HandMoves DEF Recover
<1>4. CASE RecoverRefuse(p) \/ RollForwardRefuse(p) \/ ShareRefuse(p) \/ UnmarkRefuse(p)
  BY <1>4, HandEmptied DEF RecoverRefuse, RollForwardRefuse, ShareRefuse, UnmarkRefuse, Quit
<1>5. CASE RollForward(p)
  BY <1>0, <1>5, HandGoes DEF RollForward, HasInHand
<1>6. CASE Share(p)
  BY <1>0, <1>6, HandGoes DEF Share, HasInHand
<1>7. CASE Unmark(p)
  BY <1>0, <1>7, HandGoes DEF Unmark, HasInHand
<1>8. CASE Drop(p)
  <2>1. HasInHand(AfterRecovery(p), [run[p] EXCEPT !.seen = NoJournal, !.source = Nothing])
    BY <1>0, <1>1 DEF HasInHand, Run
  <2> QED
    BY <1>8, <2>1, HandMoves DEF Drop
<1> QED
  BY <1>2, <1>3, <1>4, <1>5, <1>6, <1>7, <1>8 DEF Recovery

LEMMA HandOperation ==
  ASSUME TypeOK, InHand, NEW p \in Procs, Operation(p)
  PROVE  InHand'
<1> USE DEF TypeOK
<1>0. run[p] \in Run /\ HasInHand(pc[p], run[p])
  BY DEF TypeProcs, InHand
<1>1. CASE Mirror(p)
  <2>1. PICK label \in {"done", "body"} : Goto(p, label)
    BY <1>1 DEF Mirror
  <2>2. HasInHand(label, run[p])
    BY <1>0 DEF HasInHand
  <2> QED
    BY <1>1, <2>1, <2>2, HandGoes DEF Mirror
<1>2. CASE Propose(p) \/ SetStatus(p) \/ Commit(p) \/ ImportRecords(p)
  BY <1>2, HandLast DEF Propose, SetStatus, Commit, ImportRecords
<1>9. CASE Decide(p)
  BY <1>0, <1>9, HandGoes DEF Decide, Stays, HasInHand
<1>3. CASE WriteJournal(p)
  <2>1. ops + 1 \in 1..MaxOps
    BY <1>3, BoundAssumption DEF WriteJournal, TypeFiles
  <2>2. journal' \in Journal
    BY <1>0, <1>3, <2>1, Basics DEF WriteJournal, HasInHand, Journal
  <2>3. PICK label \in {"install", "commit"} : Goto(p, label)
    BY <1>3 DEF WriteJournal
  <2>4. HasInHand(label, [run[p] EXCEPT !.seen = journal'])
    BY <1>0, <1>3, <2>2 DEF WriteJournal, HasInHand, Run
  <2> QED
    BY <1>3, <2>3, <2>4, HandMoves DEF WriteJournal
<1>4. CASE BodyEnds(p) \/ Finish(p)
  BY <1>4, HandEmptied DEF BodyEnds, Finish
<1>5. CASE Install(p)
  BY <1>0, <1>5, HandGoes DEF Install, HasInHand
<1>6. CASE Snapshot(p)
  <2>1. HasInHand("remove", [run[p] EXCEPT !.snapshot = file[Tree(p)]])
    BY <1>0 DEF HasInHand, Run
  <2> QED
    BY <1>6, <2>1, HandMoves DEF Snapshot
<1>7. CASE RemoveIndex(p)
  BY <1>0, <1>7, HandGoes DEF RemoveIndex, HasInHand
<1>8. CASE CreateIndex(p)
  <2>1. HasInHand("import", [run[p] EXCEPT !.index = made[Tree(p)] + 1])
    BY <1>0 DEF HasInHand, Run
  <2> QED
    BY <1>8, <2>1, HandMoves DEF CreateIndex
<1> QED
  BY <1>1, <1>2, <1>3, <1>4, <1>5, <1>6, <1>7, <1>8, <1>9 DEF Operation

LEMMA HandDisturb ==
  ASSUME TypeOK, InHand, Disturb
  PROVE  InHand'
<1> USE DEF TypeOK
<1>1. ASSUME NEW p \in Procs, Fault(p) \/ Crash(p) PROVE InHand'
  BY <1>1, HandEmptied DEF Fault, Crash, Quit
<1>2. ASSUME NEW t \in Trees, DeleteIndex(t) \/ \E i \in Proposals : Edit(t, i) PROVE InHand'
  BY <1>2, HandSame DEF DeleteIndex, Edit
<1> QED
  BY <1>1, <1>2 DEF Disturb

-------------------------------------------------------------------------------
LEMMA TypesStart == Init => TypeOK /\ InHand
<1> SUFFICES ASSUME Init PROVE TypeOK /\ InHand
  OBVIOUS
<1> USE Basics DEF Init
<1>1. TypeDbs
  <2>1. [EmptyIndex EXCEPT !.synced = TRUE] \in Index /\ [EmptyIndex EXCEPT !.synced = FALSE] \in Index
    BY DEF Index
  <2> QED
    BY <2>1 DEF TypeDbs, EmptyIndex, Status
<1>2. TypeFiles
  BY DEF TypeFiles
<1>3. TypeProcs
  BY DEF TypeProcs, PCs
<1>4. TypeHistory
  BY DEF TypeHistory
<1>5. InHand
  BY DEF InHand, HasInHand, NoRun
<1> QED
  BY <1>1, <1>2, <1>3, <1>4, <1>5 DEF TypeOK

LEMMA TypesStep == TypeOK /\ InHand /\ [Next]_vars => TypeOK' /\ InHand'
<1> SUFFICES ASSUME TypeOK, InHand, [Next]_vars PROVE TypeOK' /\ InHand'
  OBVIOUS
<1>1. ASSUME NEW p \in Procs, Begin(p) PROVE TypeOK' /\ InHand'
  BY <1>1, TypeBegin, HandBegin
<1>2. ASSUME NEW p \in Procs, Recovery(p) PROVE TypeOK' /\ InHand'
  BY <1>2, TypeRecovery, HandRecovery
<1>3. ASSUME NEW p \in Procs, Operation(p) PROVE TypeOK' /\ InHand'
  BY <1>3, TypeOperation, HandOperation
<1>4. CASE Disturb
  BY <1>4, TypeDisturb, HandDisturb
<1>5. CASE UNCHANGED vars
  <2>1. TypeOK'
    BY <1>5, DbsSame, FilesSame, HistorySame DEF vars, TypeOK, TypeProcs
  <2>2. InHand'
    BY <1>5, HandSame DEF vars
  <2> QED
    BY <2>1, <2>2
<1> QED
  BY <1>1, <1>2, <1>3, <1>4, <1>5 DEF Next

LEMMA SharedTypes == Spec => [](TypeOK /\ InHand)
BY TypesStart, TypesStep, PTL DEF Spec

(* Every state of the shared runtime is one the code can hold: two databases *)
(* with known statuses, files, a journal that names a worktree and an item,  *)
(* and operations with the locals their next step reads.                     *)
THEOREM SharedTypeCorrect == Spec => []TypeOK
BY SharedTypes, PTL

-------------------------------------------------------------------------------
(* Every operation holds the lock but the replay of a capture, and a        *)
(* decision that waits for its update is still allowed, unless it is a      *)
(* rejection and a recovery that did not hold the lock has applied the      *)
(* proposal.                                                                *)
LocksHeld ==
    \A p \in Procs : pc[p] # "idle" => lock = p \/ (LockFreeReplay /\ run[p].op = "replay")

Stands(r, s) ==
    \/ Allowed(r.op, s.prop[r.item])
    \/ LockFreeReplay /\ r.op = "reject" /\ s.prop[r.item] = "applied"
DecisionsStand == \A p \in Procs : pc[p] = "decide" => Stands(run[p], shared)

(* What a step of an operation does to the processes: one moves, keeps what *)
(* it is about, and comes to a decision only by the check.                  *)
Moves(p) ==
    /\ pc[p] # "idle"
    /\ \A q \in Procs \ {p} : pc'[q] = pc[q] /\ run'[q] = run[q]
    /\ \/ pc'[p] = "idle" /\ Unlock(p)
       \/ UNCHANGED lock /\ run'[p].op = run[p].op
    /\ pc'[p] = "decide" => Decide(p)

LEMMA OthersRest ==
  ASSUME TypeProcs, NEW p \in Procs, NEW label, Goto(p, label), UNCHANGED run \/ \E r : Note(p, r)
  PROVE  /\ pc'[p] = label
         /\ \A q \in Procs \ {p} : pc'[q] = pc[q] /\ run'[q] = run[q]
BY DEF Goto, Note, TypeProcs

LEMMA MovesOn ==
  ASSUME TypeProcs, NEW p \in Procs, pc[p] # "idle", NEW label, Goto(p, label), UNCHANGED <<lock, run>>,
         label = "decide" => Decide(p)
  PROVE  Moves(p)
BY OthersRest DEF Moves

LEMMA MovesNoting ==
  ASSUME TypeProcs, NEW p \in Procs, pc[p] # "idle", NEW label, Goto(p, label), UNCHANGED lock,
         NEW r, Note(p, r), r.op = run[p].op, label # "decide"
  PROVE  Moves(p)
<1>1. run'[p] = r
  BY DEF Note, TypeProcs
<1> QED
  BY <1>1, OthersRest DEF Moves

LEMMA MovesOut ==
  ASSUME TypeProcs, NEW p \in Procs, pc[p] # "idle", Goto(p, "idle"), Note(p, NoRun), Unlock(p)
  PROVE  Moves(p)
BY OthersRest DEF Moves

LEMMA RecoveryMoves ==
  ASSUME TypeOK, NEW p \in Procs, Recovery(p)
  PROVE  Moves(p)
<1> USE DEF TypeOK
<1>0. run[p] \in Run /\ AfterRecovery(p) # "decide"
  BY DEF TypeProcs, AfterRecovery
<1>1. CASE RecoverNothing(p)
  BY <1>0, <1>1, MovesOn DEF RecoverNothing, Stays
<1>2. CASE Recover(p)
  <2>1. [run[p] EXCEPT !.seen = journal, !.source = live[journal.tree]].op = run[p].op
    BY <1>0 DEF Run
  <2>2. PICK label \in {"drop", "roll", "share", "unmark"} : Goto(p, label)
    BY <1>2 DEF Recover
  <2> QED
    BY <1>2, <2>1, <2>2, MovesNoting DEF Recover, Stays
<1>3. CASE RecoverRefuse(p) \/ RollForwardRefuse(p) \/ ShareRefuse(p) \/ UnmarkRefuse(p)
  BY <1>3, MovesOut DEF RecoverRefuse, RollForwardRefuse, ShareRefuse, UnmarkRefuse, Quit
<1>4. CASE RollForward(p) \/ Share(p) \/ Unmark(p)
  BY <1>4, MovesOn DEF RollForward, Share, Unmark
<1>5. CASE Drop(p)
  <2>1. [run[p] EXCEPT !.seen = NoJournal, !.source = Nothing].op = run[p].op
    BY <1>0 DEF Run
  <2> QED
    BY <1>0, <1>5, <2>1, MovesNoting DEF Drop
<1> QED
  BY <1>1, <1>2, <1>3, <1>4, <1>5 DEF Recovery

LEMMA LastMoves ==
  ASSUME TypeProcs, NEW p \in Procs, pc[p] # "idle", ToLast(p), UNCHANGED lock
  PROVE  Moves(p)
<1> DEFINE r == [run[p] EXCEPT !.last = TRUE]
<1>1. r.op = run[p].op
  BY DEF TypeProcs, Run
<1>2. Goto(p, "recover") /\ Note(p, r)
  BY DEF ToLast
<1> HIDE DEF r
<1> QED
  BY <1>1, <1>2, MovesNoting

LEMMA OperationMoves ==
  ASSUME TypeOK, NEW p \in Procs, Operation(p)
  PROVE  Moves(p)
<1> USE DEF TypeOK
<1>0. run[p] \in Run
  BY DEF TypeProcs
<1>1. CASE Mirror(p)
  <2>1. PICK label \in {"done", "body"} : Goto(p, label)
    BY <1>1 DEF Mirror
  <2> QED
    BY <1>1, <2>1, MovesOn DEF Mirror
<1>2. CASE Decide(p) \/ Install(p) \/ RemoveIndex(p)
  BY <1>2, MovesOn DEF Decide, Install, RemoveIndex, Stays
<1>3. CASE Propose(p) \/ SetStatus(p) \/ Commit(p) \/ ImportRecords(p)
  BY <1>3, LastMoves DEF Propose, SetStatus, Commit, ImportRecords
<1>4. CASE WriteJournal(p)
  <2>1. [run[p] EXCEPT !.seen = journal'].op = run[p].op
    BY <1>0 DEF Run
  <2>2. PICK label \in {"install", "commit"} : Goto(p, label)
    BY <1>4 DEF WriteJournal
  <2> QED
    BY <1>4, <2>1, <2>2, MovesNoting DEF WriteJournal
<1>5. CASE BodyEnds(p) \/ Finish(p)
  BY <1>5, MovesOut DEF BodyEnds, Finish
<1>6. CASE Snapshot(p)
  <2> DEFINE r == [run[p] EXCEPT !.snapshot = file[Tree(p)]]
  <2>1. r.op = run[p].op
    BY <1>0 DEF Run
  <2>2. Goto(p, "remove") /\ Note(p, r)
    BY <1>6 DEF Snapshot
  <2> HIDE DEF r
  <2> QED
    BY <1>6, <2>1, <2>2, MovesNoting DEF Snapshot
<1>7. CASE CreateIndex(p)
  <2> DEFINE r == [run[p] EXCEPT !.index = made[Tree(p)] + 1]
  <2>1. r.op = run[p].op
    BY <1>0 DEF Run
  <2>2. Goto(p, "import") /\ Note(p, r)
    BY <1>7 DEF CreateIndex
  <2> HIDE DEF r
  <2> QED
    BY <1>7, <2>1, <2>2, MovesNoting DEF CreateIndex
<1> QED
  BY <1>1, <1>2, <1>3, <1>4, <1>5, <1>6, <1>7 DEF Operation

LEMMA BeginStands ==
  ASSUME TypeOK, LocksHeld, DecisionsStand, NEW p \in Procs, Begin(p)
  PROVE  LocksHeld' /\ DecisionsStand'
<1> USE DEF TypeOK
<1>1. UNCHANGED shared
  BY DEF Begin, OpenCurrent, OpenRefreshing, Close, Read, ReplayCapture, Rebuild, Command, Start, dbs
<1>2. CASE OpenCurrent(p) \/ Close(p)
  BY <1>1, <1>2 DEF OpenCurrent, Close, LocksHeld, DecisionsStand
<1>3. ASSUME NEW op, NEW item, NEW g, Start(p, op, item, g),
             TakeLock(p) \/ (LockFreeReplay /\ op = "replay" /\ UNCHANGED lock)
      PROVE  LocksHeld' /\ DecisionsStand'
  <2> DEFINE r == [NoRun EXCEPT !.op = op, !.item = item, !.index = g]
  <2>1. r.op = op
    BY DEF NoRun
  <2>2. Goto(p, "recover") /\ Note(p, r) /\ pc[p] = "idle"
    BY <1>3 DEF Start
  <2> HIDE DEF r
  <2>3. /\ pc'[p] = "recover" /\ run'[p] = r
        /\ \A q \in Procs \ {p} : pc'[q] = pc[q] /\ run'[q] = run[q]
    BY <2>2 DEF Goto, Note, TypeProcs
  <2>4. LocksHeld'
    BY <1>3, <2>1, <2>3, NothingAssumption DEF LocksHeld, TakeLock
  <2>5. DecisionsStand'
    BY <1>1, <2>3 DEF DecisionsStand
  <2> QED
    BY <2>4, <2>5
<1>4. CASE OpenRefreshing(p) \/ Read(p) \/ ReplayCapture(p) \/ Rebuild(p)
  BY <1>3, <1>4 DEF OpenRefreshing, Read, ReplayCapture, Rebuild
<1>5. ASSUME NEW op, NEW item, Command(p, op, item) PROVE LocksHeld' /\ DecisionsStand'
  BY <1>3, <1>5 DEF Command
<1> QED
  BY <1>2, <1>4, <1>5 DEF Begin

LEMMA MovesLocked ==
  ASSUME LocksHeld, NEW p \in Procs, Moves(p)
  PROVE  LocksHeld'
<1>1. CASE pc'[p] = "idle" /\ Unlock(p)
  BY <1>1 DEF LocksHeld, Moves, Unlock
<1>2. CASE UNCHANGED lock /\ run'[p].op = run[p].op
  BY <1>2 DEF LocksHeld, Moves
<1> QED
  BY <1>1, <1>2 DEF Moves

(* Only the replay of a capture runs beside a decision.                     *)
LEMMA Beside ==
  ASSUME InHand, LocksHeld, NEW p \in Procs, pc[p] # "idle",
         NEW q \in Procs \ {p}, pc[q] = "decide"
  PROVE  LockFreeReplay /\ run[p].op = "replay" /\ run[q].item \in Proposals
<1>1. run[q].op \in {"approve", "reject"} /\ run[q].item \in Proposals
  BY DEF InHand, HasInHand
<1>2. lock = q
  BY <1>1 DEF LocksHeld
<1> QED
  BY <1>1, <1>2 DEF LocksHeld

(* A payload makes a proposal applied if it is approved or applied already,  *)
(* whatever journal the recovery has in hand.                                *)
LEMMA ShareApplies ==
  ASSUME TypeOK, NEW p \in Procs, Share(p)
  PROVE  /\ shared.recs \subseteq shared'.recs
         /\ \A i \in Proposals :
               \/ shared'.prop[i] = shared.prop[i]
               \/ shared.prop[i] \in {"approved", "applied"} /\ shared'.prop[i] = "applied"
<1>1. shared' = shared \/ shared' = Payload(run[p].seen)
  BY DEF Share, SetShared
<1>2. CASE shared' = Payload(run[p].seen) /\ IsApply(run[p].seen)
  <2>1. shared.prop[run[p].seen.item] \in {"approved", "applied"}
    BY <1>2 DEF Share, SharePossible
  <2> QED
    BY <1>2, <2>1 DEF Payload, IsApply, TypeOK, TypeDbs
<1>3. CASE shared' = Payload(run[p].seen) /\ ~IsApply(run[p].seen)
  BY <1>3 DEF Payload, TypeOK, TypeDbs
<1> QED
  BY <1>1, <1>2, <1>3

(* shared.db is written by the copy of a payload and by proposal commands.   *)
LEMMA RecoveryShares ==
  ASSUME NEW p \in Procs, Recovery(p), ~Share(p)
  PROVE  UNCHANGED shared
BY DEF Recovery, RecoverNothing, Recover, RecoverRefuse, RollForward, RollForwardRefuse, ShareRefuse,
   Unmark, UnmarkRefuse, Drop, SetSource, Stays, dbs

LEMMA OperationShares ==
  ASSUME NEW p \in Procs, Operation(p), ~Propose(p), ~SetStatus(p)
  PROVE  UNCHANGED shared
BY DEF Operation, Mirror, Decide, Stays, WriteJournal, BodyEnds, Install, Commit, Snapshot, RemoveIndex,
   CreateIndex, ImportRecords, Finish, dbs

(* No step of another process unsettles a decision.                          *)
LEMMA OthersStand ==
  ASSUME TypeOK, InHand, LocksHeld, DecisionsStand, NEW p \in Procs, Recovery(p) \/ Operation(p),
         NEW q \in Procs \ {p}, pc[q] = "decide"
  PROVE  Stands(run[q], shared')
<1>1. Stands(run[q], shared)
  BY DEF DecisionsStand
<1>2. Moves(p)
  BY RecoveryMoves, OperationMoves
<1>3. LockFreeReplay /\ run[p].op = "replay" /\ run[q].item \in Proposals
  BY <1>2, Beside DEF Moves
<1>4. CASE Share(p)
  <2>1. \/ shared'.prop[run[q].item] = shared.prop[run[q].item]
        \/ /\ shared.prop[run[q].item] \in {"approved", "applied"}
           /\ shared'.prop[run[q].item] = "applied"
    BY <1>3, <1>4, ShareApplies
  <2>2. run[q].op \in {"approve", "reject"}
    BY DEF InHand, HasInHand
  <2> QED
    BY <1>1, <1>3, <2>1, <2>2 DEF Stands, Allowed
<1>5. ~Propose(p) /\ ~SetStatus(p)
  BY <1>3 DEF Propose, SetStatus, InHand, HasInHand
<1>6. CASE ~Share(p)
  BY <1>1, <1>5, <1>6, RecoveryShares, OperationShares
<1> QED
  BY <1>4, <1>6

LEMMA ActsStand ==
  ASSUME TypeOK, InHand, LocksHeld, DecisionsStand, NEW p \in Procs, Recovery(p) \/ Operation(p)
  PROVE  LocksHeld' /\ DecisionsStand'
<1>1. Moves(p)
  BY RecoveryMoves, OperationMoves
<1>2. ASSUME NEW q \in Procs, pc'[q] = "decide" PROVE Stands(run'[q], shared')
  <2>1. CASE q = p
    BY <1>1, <1>2, <2>1 DEF Moves, Decide, Stays, Stands, dbs
  <2>2. CASE q # p
    BY <1>1, <1>2, <2>2, OthersStand DEF Moves
  <2> QED
    BY <2>1, <2>2
<1> QED
  BY <1>1, <1>2, MovesLocked DEF DecisionsStand

LEMMA StandingStep ==
  TypeOK /\ InHand /\ LocksHeld /\ DecisionsStand /\ [Next]_vars => LocksHeld' /\ DecisionsStand'
<1> SUFFICES ASSUME TypeOK, InHand, LocksHeld, DecisionsStand, [Next]_vars
             PROVE  LocksHeld' /\ DecisionsStand'
  OBVIOUS
<1>1. ASSUME NEW p \in Procs, Fault(p) \/ Crash(p) PROVE LocksHeld' /\ DecisionsStand'
  <2>1. Moves(p) /\ UNCHANGED shared /\ pc'[p] = "idle"
    BY <1>1, MovesOut, OthersRest DEF Fault, Crash, Quit, TypeOK, dbs
  <2> QED
    BY <2>1, MovesLocked DEF Moves, DecisionsStand
<1>2. ASSUME NEW t \in Trees, DeleteIndex(t) \/ \E i \in Proposals : Edit(t, i)
      PROVE  LocksHeld' /\ DecisionsStand'
  BY <1>2 DEF DeleteIndex, Edit, LocksHeld, DecisionsStand, dbs
<1>3. CASE UNCHANGED vars
  BY <1>3 DEF vars, dbs, LocksHeld, DecisionsStand
<1> QED
  BY <1>1, <1>2, <1>3, BeginStands, ActsStand DEF Next, Disturb

LEMMA AlwaysStanding == Spec => [](TypeOK /\ InHand /\ LocksHeld /\ DecisionsStand)
<1>1. Init => LocksHeld /\ DecisionsStand
  BY DEF Init, LocksHeld, DecisionsStand
<1> QED
  BY <1>1, StandingStep, SharedTypes, PTL DEF Spec

Forward ==
    /\ shared.recs \subseteq shared'.recs
    /\ \A i \in Proposals :
          /\ shared.prop[i] = "rejected" => shared'.prop[i] = "rejected"
          /\ shared.prop[i] = "applied" => shared'.prop[i] = "applied" \/ OvertakenRejection(i)

LEMMA SharedSame == UNCHANGED shared => Forward
BY DEF Forward

(* A proposal that is decided is not decided again, unless the check of the  *)
(* rejection was overtaken.                                                  *)
LEMMA SetStatusForward ==
  ASSUME TypeOK, InHand, DecisionsStand, NEW p \in Procs, SetStatus(p)
  PROVE  Forward
<1>1. shared' = [shared EXCEPT !.prop[run[p].item] = Result(run[p].op)]
  BY DEF SetStatus, SetShared
<1>2. Stands(run[p], shared) /\ pc[p] = "decide"
  BY DEF SetStatus, DecisionsStand
<1>3. shared.prop[run[p].item] # "rejected"
  BY <1>2 DEF Stands, Allowed
<1>4. shared.prop[run[p].item] = "applied" => OvertakenRejection(run[p].item)
  BY <1>2 DEF Stands, Allowed, OvertakenRejection
<1> QED
  BY <1>1, <1>3, <1>4 DEF Forward, TypeOK, TypeDbs

LEMMA StepForward == TypeOK /\ InHand /\ DecisionsStand /\ [Next]_vars => Forward
<1> SUFFICES ASSUME TypeOK, InHand, DecisionsStand, [Next]_vars PROVE Forward
  OBVIOUS
<1>1. ASSUME NEW p \in Procs, Begin(p) PROVE UNCHANGED shared
  BY <1>1 DEF Begin, OpenCurrent, OpenRefreshing, Close, Read, ReplayCapture, Rebuild, Command,
     Start, dbs
<1>2. ASSUME NEW p \in Procs, Recovery(p) PROVE Forward
  BY <1>2, ShareApplies, RecoveryShares DEF Forward
<1>3. ASSUME NEW p \in Procs, Operation(p) PROVE Forward
  <2>1. CASE Propose(p)
    <3>1. shared' = [shared EXCEPT !.prop[run[p].item] = Result("propose")]
      BY <2>1 DEF Propose, SetShared
    <3>2. shared.prop[run[p].item] \notin {"applied", "rejected"}
      BY <2>1 DEF Propose, Allowed
    <3> QED
      BY <3>1, <3>2 DEF Forward, TypeOK, TypeDbs
  <2> QED
    BY <1>3, <2>1, SetStatusForward, OperationShares, SharedSame
<1>4. CASE Disturb \/ UNCHANGED vars
  BY <1>4, SharedSame DEF Disturb, Fault, Crash, DeleteIndex, Edit, vars, dbs
<1> QED
  BY <1>1, <1>2, <1>3, <1>4, SharedSame DEF Next

(* No captured record disappears from shared.db, a rejection is final, and   *)
(* an applied proposal is overwritten, if ever, by the update of a rejection *)
(* whose check a recovery without the lock has overtaken.                    *)
THEOREM SharedNeverMovesBack == Spec => SharedMovesForward
<1>1. TypeOK /\ InHand /\ LocksHeld /\ DecisionsStand /\ [Next]_vars => [Forward]_vars
  BY StepForward
<1>2. [](TypeOK /\ InHand /\ LocksHeld /\ DecisionsStand) /\ [][Next]_vars => [][Forward]_vars
  BY <1>1, PTL
<1> QED
  BY <1>2, AlwaysStanding, PTL DEF Spec, SharedMovesForward, Forward

(* With every recovery under the lock, a decision on a proposal is final,    *)
(* whatever journal a recovery has in hand and whatever happened to the      *)
(* indexes and the files meanwhile: the lock is what makes the check and the *)
(* update of a decision one.                                                 *)
DecisionsAreFinal ==
    [][\A i \in Proposals : shared.prop[i] \in {"applied", "rejected"} =>
          shared'.prop[i] = shared.prop[i]]_vars

THEOREM DecisionsFinalUnderLock == ~LockFreeReplay => (Spec => DecisionsAreFinal)
<1> SUFFICES ASSUME ~LockFreeReplay PROVE Spec => DecisionsAreFinal
  OBVIOUS
<1> DEFINE Final == \A i \in Proposals : shared.prop[i] \in {"applied", "rejected"} =>
                        shared'.prop[i] = shared.prop[i]
<1>1. TypeOK /\ InHand /\ LocksHeld /\ DecisionsStand /\ [Next]_vars => [Final]_vars
  BY StepForward DEF Forward, OvertakenRejection
<1>2. [](TypeOK /\ InHand /\ LocksHeld /\ DecisionsStand) /\ [][Next]_vars => [][Final]_vars
  BY <1>1, PTL
<1> QED
  BY <1>2, AlwaysStanding, PTL DEF Spec, DecisionsAreFinal

-------------------------------------------------------------------------------
(* Mirrors.  A written index is fresh if what is written is.                 *)
Fresh(x) == x.synced => x.prop = shared.prop /\ x.recs = shared.recs

LEMMA FreshAll == MirrorIsFresh <=> \A t \in Trees, g \in Indexes : Fresh(index[t][g])
BY DEF MirrorIsFresh, Fresh

LEMMA FreshSame == MirrorIsFresh /\ UNCHANGED <<shared, index>> => MirrorIsFresh'
BY DEF MirrorIsFresh

LEMMA SetIndexFresh ==
  ASSUME TypeDbs, MirrorIsFresh, UNCHANGED shared,
         NEW t, NEW g, NEW x, SetIndex(t, g, x), t \in Trees /\ g \in Indexes => Fresh(x)
  PROVE  MirrorIsFresh'
<1> SUFFICES ASSUME NEW u \in Trees, NEW h \in Indexes PROVE Fresh(index'[u][h])
  BY DEF MirrorIsFresh, Fresh
<1>1. CASE u = t /\ h = g
  <2>1. index'[u][h] = x
    BY <1>1 DEF SetIndex, TypeDbs
  <2> QED
    BY <1>1, <2>1
<1>2. CASE u # t \/ h # g
  <2>1. index'[u][h] = index[u][h]
    BY <1>2 DEF SetIndex, TypeDbs
  <2> QED
    BY <2>1, FreshAll
<1> QED
  BY <1>1, <1>2

(* A write of shared.db gives it a new revision, which no index carries.     *)
LEMMA SetSharedFresh ==
  ASSUME TypeDbs, NEW s, SetShared(s)
  PROVE  MirrorIsFresh'
<1>1. \A t \in Trees, g \in Indexes : index'[t][g].synced = FALSE
  BY DEF SetShared, Touched, TypeDbs, Index
<1> QED
  BY <1>1 DEF MirrorIsFresh

LEMMA UnlinkFresh ==
  ASSUME TypeDbs, MirrorIsFresh, UNCHANGED shared, NEW t \in Trees, Unlink(t)
  PROVE  MirrorIsFresh'
<1>1. CASE index' = index
  BY <1>1, FreshSame
<1>2. CASE index' = [index EXCEPT ![t][live[t]] = EmptyIndex]
  <2>1. SetIndex(t, live[t], EmptyIndex) /\ Fresh(EmptyIndex)
    BY <1>2 DEF SetIndex, Fresh, EmptyIndex
  <2> QED
    BY <2>1, SetIndexFresh
<1> QED
  BY <1>1, <1>2 DEF Unlink

(* A write of a proposal or a record changes the index's own revision; the   *)
(* markers and the canonical rows are no part of the mirror.                 *)
LEMMA ContentFresh ==
  ASSUME NEW x \in Index, NEW i, NEW op
  PROVE  /\ Fresh(WithApplied(x, i, op)) /\ Fresh(WithRecord(x, i, op))
         /\ Fresh(x) => Fresh([x EXCEPT !.markers = @ \ {op}])
         /\ \A canon : Fresh(x) => Fresh([x EXCEPT !.canon = canon])
         /\ Fresh(Mirrored(x))
<1>1. Fresh(WithApplied(x, i, op)) /\ Fresh(WithRecord(x, i, op))
  BY DEF Fresh, WithApplied, WithRecord, Touched, Index
<1>2. Fresh(x) => Fresh([x EXCEPT !.markers = @ \ {op}])
  BY DEF Fresh, Index
<1>3. \A canon : Fresh(x) => Fresh([x EXCEPT !.canon = canon])
  BY DEF Fresh, Index
<1>4. Fresh(Mirrored(x))
  BY DEF Fresh, Mirrored, Index
<1> QED
  BY <1>1, <1>2, <1>3, <1>4

LEMMA RecoveryFresh ==
  ASSUME TypeOK, InHand, MirrorIsFresh, NEW p \in Procs, Recovery(p)
  PROVE  MirrorIsFresh'
<1> USE DEF TypeOK
<1>1. CASE RollForward(p) \/ Unmark(p)
  <2>1. run[p].seen \in Journal
    BY <1>1 DEF RollForward, Unmark, InHand, HasInHand
  <2>2. run[p].source \in Indexes => Source(p) \in Index /\ Fresh(Source(p))
    BY <2>1, FreshAll DEF Source, TypeDbs, Journal
  <2>3. \E x : SetSource(p, x) /\ (run[p].source \in Indexes => Fresh(x))
    BY <1>1, <2>2, ContentFresh DEF RollForward, Unmark
  <2> QED
    BY <2>3, SetIndexFresh DEF SetSource
<1>2. CASE Share(p)
  BY <1>2, FreshSame, SetSharedFresh DEF Share
<1>3. CASE ~RollForward(p) /\ ~Unmark(p) /\ ~Share(p)
  BY <1>3, FreshSame DEF Recovery, RecoverNothing, Recover, RecoverRefuse, RollForwardRefuse,
     ShareRefuse, UnmarkRefuse, Drop, Stays, dbs
<1> QED
  BY <1>1, <1>2, <1>3

LEMMA OperationFresh ==
  ASSUME TypeOK, MirrorIsFresh, NEW p \in Procs, Operation(p)
  PROVE  MirrorIsFresh'
<1> USE DEF TypeOK
<1>0. /\ Tree(p) \in Trees
      /\ run[p].index \in Indexes => Mine(p) \in Index /\ Fresh(Mine(p))
  BY Basics, FreshAll DEF TypeDbs, Mine
<1>1. CASE Mirror(p)
  BY <1>0, <1>1, ContentFresh, FreshSame, SetIndexFresh DEF Mirror
<1>2. CASE Propose(p) \/ SetStatus(p)
  BY <1>2, SetSharedFresh DEF Propose, SetStatus
<1>3. CASE Commit(p)
  <2>1. \E x : SetIndex(Tree(p), run[p].index, x) /\ (run[p].index \in Indexes => Fresh(x))
    BY <1>0, <1>3, ContentFresh DEF Commit
  <2> QED
    BY <1>3, <2>1, SetIndexFresh DEF Commit
<1>4. CASE RemoveIndex(p)
  BY <1>0, <1>4, UnlinkFresh DEF RemoveIndex
<1>5. CASE CreateIndex(p)
  <2>1. Fresh(EmptyIndex)
    BY DEF Fresh, EmptyIndex
  <2> QED
    BY <1>5, <2>1, SetIndexFresh DEF CreateIndex
<1>6. CASE ImportRecords(p)
  BY <1>0, <1>6, ContentFresh, SetIndexFresh DEF ImportRecords
<1>7. CASE Decide(p) \/ WriteJournal(p) \/ BodyEnds(p) \/ Install(p) \/ Snapshot(p) \/ Finish(p)
  BY <1>7, FreshSame DEF Decide, Stays, WriteJournal, BodyEnds, Install, Snapshot, Finish, dbs
<1> QED
  BY <1>1, <1>2, <1>3, <1>4, <1>5, <1>6, <1>7 DEF Operation

LEMMA StepFresh == TypeOK /\ InHand /\ MirrorIsFresh /\ [Next]_vars => MirrorIsFresh'
<1> SUFFICES ASSUME TypeOK, InHand, MirrorIsFresh, [Next]_vars PROVE MirrorIsFresh'
  OBVIOUS
<1>1. ASSUME NEW p \in Procs, Begin(p) PROVE MirrorIsFresh'
  BY <1>1, FreshSame DEF Begin, OpenCurrent, OpenRefreshing, Close, Read, ReplayCapture, Rebuild,
     Command, Start, dbs
<1>2. ASSUME NEW p \in Procs, Fault(p) \/ Crash(p) PROVE MirrorIsFresh'
  BY <1>2, FreshSame DEF Fault, Crash, dbs
<1>3. ASSUME NEW t \in Trees, DeleteIndex(t) PROVE MirrorIsFresh'
  BY <1>3, UnlinkFresh DEF DeleteIndex, TypeOK
<1>4. ASSUME NEW t \in Trees, NEW i \in Proposals, Edit(t, i) PROVE MirrorIsFresh'
  BY <1>4, FreshSame DEF Edit, dbs
<1>5. CASE UNCHANGED vars
  BY <1>5, FreshSame DEF vars, dbs
<1> QED
  BY <1>1, <1>2, <1>3, <1>4, <1>5, RecoveryFresh, OperationFresh DEF Next, Disturb

(* Readers may skip the refresh on the strength of the mirror revision: an   *)
(* index that carries the revision of shared.db has its content.  The mirror *)
(* reads shared.db and writes the index in one step, which only the lock     *)
(* justifies; hence the assumption.                                          *)
THEOREM MirrorAlwaysFresh == ~LockFreeReplay => (Spec => []MirrorIsFresh)
<1>1. Init => MirrorIsFresh
  BY DEF Init, MirrorIsFresh, EmptyIndex, Index
<1> QED
  BY <1>1, StepFresh, SharedTypes, PTL DEF Spec
===============================================================================
