-------------------------- MODULE SharedCustodyProofs --------------------------
(***************************************************************************)
(* What the lifecycle lock and the shared-sync journal hold together: one  *)
(* operation at a time, each on the index its worktree names, and a marker *)
(* in an index, an index ahead of shared.db, a file an apply created and   *)
(* an operation reported as done, each accounted for by the journal or by  *)
(* shared.db.  The theorems are about worktrees that one process each      *)
(* works in and whose indexes nobody replaces under an open service, and   *)
(* about recoveries that take the lock.                                    *)
(***************************************************************************)
EXTENDS SharedProofs

Guarded ==
    /\ ~ LockFreeReplay /\ ~ UnderUse
    /\ \A p, q \in Procs : Tree(p) = Tree(q) => p = q

-------------------------------------------------------------------------------
(* Control                                                                  *)

Exclusive == \A p \in Procs : pc[p] # "idle" <=> lock = p

Rebuilding == {"remove", "create", "import"}
Settling == {"roll", "share", "unmark", "drop"}
Writing == {"install", "commit"}
Recovered == {"mirror", "body", "decide", "done"} \cup Rebuilding

(* An operation at the given label works on the index that its worktree     *)
(* names now, a rebuild on none until it has created one.                   *)
OwnIndex(label, r, connection, now) ==
    /\ connection # Nothing => connection = now
    /\ label # "idle" /\ r.op = "rebuild" =>
         /\ connection = Nothing
         /\ r.index = IF r.last \/ label = "import" THEN now ELSE Nothing
    /\ label # "idle" /\ r.op # "rebuild" =>
         connection # Nothing /\ r.index = connection
    /\ label \in Rebuilding => r.op = "rebuild"
    /\ label \in {"body", "decide"} \cup Rebuilding \cup Writing => ~ r.last
    /\ label = "done" => r.last

(* A recovery settles the journal there is, a writer has written it, and    *)
(* what comes after a recovery finds none.                                  *)
OwnJournal(label, r, t, j, names) ==
    /\ label \in Settling =>
         j # NoJournal /\ r.seen = j /\ names[j.tree] \in {r.source, Nothing}
    /\ label \in Writing =>
         j # NoJournal /\ r.seen = j /\ j.tree = t /\ j.item = r.item
    /\ label \in Recovered => j = NoJournal

Orderly(p) ==
    /\ OwnIndex(pc[p], run[p], conn[p], live[Tree(p)])
    /\ OwnJournal(pc[p], run[p], Tree(p), journal, live)

Held == Exclusive /\ \A p \in Procs : Orderly(p)

-------------------------------------------------------------------------------
(* Held is inductive.                                                       *)

LEMMA Alone ==
  ASSUME Held, NEW p \in Procs, pc[p] # "idle"
  PROVE  lock = p /\ \A q \in Procs \ {p} : pc[q] = "idle"
BY DEF Held, Exclusive

LEMMA AllIdle ==
  ASSUME Held, lock = Nothing
  PROVE  \A q \in Procs : pc[q] = "idle"
BY NothingAssumption DEF Held, Exclusive

(* An idle process is at rest whatever the journal and the indexes say.     *)
LEMMA AtRest ==
  ASSUME NEW r, NEW t, NEW c, NEW now, NEW j, NEW names, c # Nothing => c = now
  PROVE  OwnIndex("idle", r, c, now) /\ OwnJournal("idle", r, t, j, names)
BY DEF OwnIndex, OwnJournal, Rebuilding, Settling, Writing, Recovered

(* A step of the one process that runs.                                     *)
LEMMA HeldActs ==
  ASSUME TypeProcs, Held, NEW p \in Procs, \A q \in Procs \ {p} : pc[q] = "idle",
         NEW label, NEW r, Goto(p, label), Note(p, r),
         lock' = IF label = "idle" THEN Nothing ELSE p,
         \A q \in Procs \ {p} : conn'[q] = conn[q] /\ live'[Tree(q)] = live[Tree(q)],
         OwnIndex(label, r, conn'[p], live'[Tree(p)]),
         OwnJournal(label, r, Tree(p), journal', live')
  PROVE  Held'
<1>1. pc'[p] = label /\ run'[p] = r
  BY DEF Goto, Note, TypeProcs
<1>2. \A q \in Procs \ {p} : pc'[q] = "idle" /\ pc'[q] = pc[q] /\ run'[q] = run[q]
  BY DEF Goto, Note, TypeProcs
<1>3. Exclusive'
  BY <1>1, <1>2, NothingAssumption DEF Exclusive
<1>4. Orderly(p)'
  BY <1>1 DEF Orderly, Tree
<1>5. ASSUME NEW q \in Procs \ {p} PROVE Orderly(q)'
  <2>1. conn'[q] # Nothing => conn'[q] = live'[Tree(q)]
    BY DEF Held, Orderly, OwnIndex
  <2> QED
    BY <1>2, <2>1, AtRest DEF Orderly, Tree
<1> QED
  BY <1>3, <1>4, <1>5 DEF Held

(* The same, when the step changes no connection and no index's name.       *)
LEMMA HeldGoes ==
  ASSUME TypeProcs, Held, NEW p \in Procs, pc[p] # "idle",
         NEW label \in PCs \ {"idle"}, NEW r, Goto(p, label), Note(p, r), UNCHANGED <<lock, conn, live>>,
         OwnIndex(label, r, conn[p], live[Tree(p)]),
         OwnJournal(label, r, Tree(p), journal', live)
  PROVE  Held'
BY Alone, HeldActs

LEMMA HeldEnds ==
  ASSUME TypeProcs, Held, NEW p \in Procs, pc[p] # "idle",
         Goto(p, "idle"), Note(p, NoRun), Unlock(p), UNCHANGED live,
         conn' = conn \/ conn' = [conn EXCEPT ![p] = Nothing]
  PROVE  Held'
<1>1. lock' = Nothing
  BY Alone DEF Unlock
<1>2. conn'[p] # Nothing => conn'[p] = live'[Tree(p)]
  BY DEF Held, Orderly, OwnIndex, TypeProcs
<1>3. \A q \in Procs \ {p} : conn'[q] = conn[q]
  BY DEF TypeProcs
<1> QED
  BY <1>1, <1>2, <1>3, Alone, AtRest, HeldActs

LEMMA HeldSame == Held /\ UNCHANGED <<pc, run, conn, live, journal, lock>> => Held'
BY DEF Held, Exclusive, Orderly, Tree

LEMMA HeldStarts ==
  ASSUME TypeProcs, Held, NEW p \in Procs, TakeLock(p), NEW op, NEW item, NEW g, Start(p, op, item, g),
         UNCHANGED live, \A q \in Procs \ {p} : conn'[q] = conn[q],
         conn'[p] # Nothing => conn'[p] = live[Tree(p)],
         IF op = "rebuild" THEN conn'[p] = Nothing /\ g = Nothing ELSE conn'[p] # Nothing /\ g = conn'[p]
  PROVE  Held'
<1> DEFINE r == [NoRun EXCEPT !.op = op, !.item = item, !.index = g]
<1>1. r.op = op /\ r.index = g /\ r.last = FALSE
  BY DEF NoRun
<1>2. Goto(p, "recover") /\ Note(p, r)
  BY DEF Start
<1>3. lock' = p /\ \A q \in Procs : pc[q] = "idle"
  BY AllIdle DEF TakeLock
<1> HIDE DEF r
<1>4. OwnIndex("recover", r, conn'[p], live'[Tree(p)])
  BY <1>1 DEF OwnIndex, Rebuilding, Writing
<1>5. OwnJournal("recover", r, Tree(p), journal', live')
  BY DEF OwnJournal, Settling, Writing, Recovered, Rebuilding
<1> QED
  BY <1>2, <1>3, <1>4, <1>5, HeldActs

LEMMA HeldBegin ==
  ASSUME Guarded, TypeOK, Held, NEW p \in Procs, Begin(p)
  PROVE  Held'
<1> USE DEF TypeOK
<1>0. conn[p] # Nothing => conn[p] = live[Tree(p)]
  BY DEF Held, Orderly, OwnIndex
<1>1. CASE OpenCurrent(p) \/ Close(p)
  <2>1. /\ pc[p] = "idle" /\ UNCHANGED <<pc, run, journal, lock, live>>
        /\ conn' \in {[conn EXCEPT ![p] = live[Tree(p)]], [conn EXCEPT ![p] = Nothing]}
    BY <1>1 DEF OpenCurrent, Close, dbs
  <2>2. ASSUME NEW q \in Procs PROVE Orderly(q)'
    <3>1. CASE q = p
      BY <2>1, <3>1, AtRest DEF Orderly, Tree, TypeProcs
    <3>2. CASE q # p
      BY <2>1, <3>2 DEF Held, Orderly, Tree, TypeProcs
    <3> QED
      BY <3>1, <3>2
  <2> QED
    BY <2>1, <2>2 DEF Held, Exclusive
<1>2. CASE OpenRefreshing(p)
  <2>1. conn' = [conn EXCEPT ![p] = live[Tree(p)]] /\ UNCHANGED live
    BY <1>2 DEF OpenRefreshing, Start, dbs
  <2> QED
    BY <1>2, <2>1, HeldStarts DEF OpenRefreshing, TypeProcs
<1>3. CASE Read(p)
  BY <1>0, <1>3, HeldStarts DEF Read, Start, dbs
<1>4. CASE Rebuild(p)
  BY <1>0, <1>4, HeldStarts DEF Rebuild, Start, dbs
<1>5. ASSUME NEW op, op # "rebuild", NEW item, Command(p, op, item) PROVE Held'
  BY <1>0, <1>5, HeldStarts DEF Command, Start, dbs
<1>6. ~ ReplayCapture(p)
  BY DEF Guarded, ReplayCapture
<1> QED
  BY <1>1, <1>2, <1>3, <1>4, <1>5, <1>6 DEF Begin

(* What recovery leads to.                                                  *)
LEMMA AfterRecoveryTells ==
  ASSUME NEW p \in Procs
  PROVE  /\ AfterRecovery(p) \in {"done", "body", "mirror"}
         /\ AfterRecovery(p) = "body" => ~ run[p].last
         /\ AfterRecovery(p) = "done" => run[p].last /\ run[p].op \in {"apply", "capture"}
BY DEF AfterRecovery

LEMMA HeldRecovery ==
  ASSUME TypeOK, Held, NEW p \in Procs, Recovery(p)
  PROVE  Held'
<1> USE DEF TypeOK
<1>0. run[p] \in Run /\ Orderly(p) /\ (UNCHANGED run => Note(p, run[p]))
  BY DEF TypeProcs, Held, Note
<1> DEFINE label == AfterRecovery(p)
<1>1. CASE RecoverNothing(p)
  <2>1. OwnIndex(label, run[p], conn[p], live[Tree(p)])
    BY <1>0, <1>1, AfterRecoveryTells DEF RecoverNothing, Orderly, OwnIndex, Rebuilding, Writing
  <2>2. OwnJournal(label, run[p], Tree(p), journal, live)
    BY <1>1, AfterRecoveryTells DEF RecoverNothing, OwnJournal, Settling, Writing
  <2> QED
    BY <1>0, <1>1, <2>1, <2>2, AfterRecoveryTells, HeldGoes DEF RecoverNothing, Stays, dbs, PCs
<1>2. CASE Recover(p)
  <2> DEFINE r == [run[p] EXCEPT !.seen = journal, !.source = live[journal.tree]]
  <2>1. /\ r.op = run[p].op /\ r.index = run[p].index /\ r.last = run[p].last
        /\ r.seen = journal /\ r.source = live[journal.tree]
    BY <1>0 DEF Run
  <2>2. PICK next \in Settling : Goto(p, next)
    BY <1>2 DEF Recover, Settling
  <2>3. Note(p, r)
    BY <1>2 DEF Recover
  <2> HIDE DEF r
  <2>4. OwnIndex(next, r, conn[p], live[Tree(p)])
    BY <1>0, <1>2, <2>1, <2>2 DEF Recover, Orderly, OwnIndex, Rebuilding, Writing, Settling
  <2>5. OwnJournal(next, r, Tree(p), journal, live)
    BY <1>2, <2>1, <2>2 DEF Recover, OwnJournal, Settling, Writing, Recovered, Rebuilding
  <2> QED
    BY <1>2, <2>2, <2>3, <2>4, <2>5, HeldGoes DEF Recover, Stays, dbs, PCs, Settling
<1>3. CASE RecoverRefuse(p) \/ RollForwardRefuse(p) \/ ShareRefuse(p) \/ UnmarkRefuse(p)
  BY <1>3, HeldEnds DEF RecoverRefuse, RollForwardRefuse, ShareRefuse, UnmarkRefuse, Quit, dbs
<1>4. CASE RollForward(p) \/ Share(p) \/ Unmark(p)
  <2>1. /\ pc[p] \in Settling /\ UNCHANGED <<live, journal, lock, conn, run>>
    BY <1>4 DEF RollForward, Share, Unmark, SetSource, Settling
  <2>2. PICK next \in Settling : Goto(p, next)
    BY <1>4 DEF RollForward, Share, Unmark, Settling
  <2>3. OwnIndex(next, run[p], conn[p], live[Tree(p)])
    BY <1>0, <2>1, <2>2 DEF Orderly, OwnIndex, Rebuilding, Writing, Settling
  <2>4. OwnJournal(next, run[p], Tree(p), journal, live)
    BY <1>0, <2>1, <2>2 DEF Orderly, OwnJournal, Settling, Writing, Recovered, Rebuilding
  <2> QED
    BY <1>0, <2>1, <2>2, <2>3, <2>4, HeldGoes DEF PCs, Settling
<1>5. CASE Drop(p)
  <2> DEFINE r == [run[p] EXCEPT !.seen = NoJournal, !.source = Nothing]
  <2>1. /\ r.op = run[p].op /\ r.index = run[p].index /\ r.last = run[p].last
    BY <1>0 DEF Run
  <2>2. Note(p, r) /\ Goto(p, label)
    BY <1>5 DEF Drop
  <2> HIDE DEF r
  <2>3. OwnIndex(label, r, conn[p], live[Tree(p)])
    BY <1>0, <1>5, <2>1, AfterRecoveryTells DEF Drop, Orderly, OwnIndex, Rebuilding, Writing
  <2>4. OwnJournal(label, r, Tree(p), journal', live)
    BY <1>5, AfterRecoveryTells DEF Drop, OwnJournal, Settling, Writing
  <2> QED
    BY <1>5, <2>2, <2>3, <2>4, AfterRecoveryTells, HeldGoes DEF Drop, dbs, PCs
<1> QED
  BY <1>1, <1>2, <1>3, <1>4, <1>5 DEF Recovery

LEMMA HeldLast ==
  ASSUME TypeProcs, Held, NEW p \in Procs, pc[p] \in {"body", "decide", "commit", "import"}, ToLast(p),
         UNCHANGED <<lock, conn, live>>,
         run[p].op = "rebuild" => pc[p] = "import"
  PROVE  Held'
<1> DEFINE r == [run[p] EXCEPT !.last = TRUE]
<1>1. r.op = run[p].op /\ r.index = run[p].index /\ r.last = TRUE
  BY DEF TypeProcs, Run
<1>2. Goto(p, "recover") /\ Note(p, r)
  BY DEF ToLast
<1> HIDE DEF r
<1>3. OwnIndex("recover", r, conn[p], live[Tree(p)])
  BY <1>1 DEF Held, Orderly, OwnIndex, Rebuilding, Writing
<1>4. OwnJournal("recover", r, Tree(p), journal', live)
  BY DEF OwnJournal, Settling, Writing, Recovered, Rebuilding
<1> QED
  BY <1>2, <1>3, <1>4, HeldGoes DEF PCs

LEMMA HeldOperation ==
  ASSUME Guarded, TypeOK, InHand, Held, NEW p \in Procs, Operation(p)
  PROVE  Held'
<1> USE DEF TypeOK
<1>0. run[p] \in Run /\ Orderly(p) /\ (UNCHANGED run => Note(p, run[p]))
  BY DEF TypeProcs, Held, Note
<1>1. CASE Mirror(p)
  <2>1. PICK label \in {"done", "body"} : Goto(p, label) /\ label = IF run[p].last THEN "done" ELSE "body"
    BY <1>1 DEF Mirror
  <2>2. OwnIndex(label, run[p], conn[p], live[Tree(p)])
    BY <1>0, <1>1, <2>1 DEF Mirror, Orderly, OwnIndex, Rebuilding, Writing
  <2>3. OwnJournal(label, run[p], Tree(p), journal, live)
    BY <1>0, <1>1, <2>1 DEF Mirror, Orderly, OwnJournal, Settling, Writing, Recovered
  <2> QED
    BY <1>0, <1>1, <2>1, <2>2, <2>3, HeldGoes DEF Mirror, PCs
<1>2. CASE Propose(p) \/ SetStatus(p)
  <2>1. run[p].op # "rebuild"
    BY <1>2 DEF Propose, SetStatus, InHand, HasInHand
  <2> QED
    BY <1>2, <2>1, HeldLast DEF Propose, SetStatus
<1>11. CASE Decide(p)
  <2>1. OwnIndex("decide", run[p], conn[p], live[Tree(p)])
    BY <1>0, <1>11 DEF Decide, Orderly, OwnIndex, Rebuilding, Writing
  <2>2. OwnJournal("decide", run[p], Tree(p), journal, live)
    BY <1>0, <1>11 DEF Decide, Orderly, OwnJournal, Settling, Writing, Recovered
  <2> QED
    BY <1>0, <1>11, <2>1, <2>2, HeldGoes DEF Decide, Stays, dbs, PCs
<1>3. CASE Commit(p)
  <2>1. run[p].op # "rebuild"
    BY <1>3 DEF Commit, InHand, HasInHand
  <2> QED
    BY <1>3, <2>1, HeldLast DEF Commit
<1>4. CASE ImportRecords(p)
  BY <1>4, HeldLast DEF ImportRecords
<1>5. CASE WriteJournal(p)
  <2> DEFINE r == [run[p] EXCEPT !.seen = journal']
  <2>1. /\ r.op = run[p].op /\ r.index = run[p].index /\ r.last = run[p].last
        /\ r.item = run[p].item /\ r.seen = journal'
    BY <1>0 DEF Run
  <2>2. PICK label \in Writing : Goto(p, label)
    BY <1>5 DEF WriteJournal, Writing
  <2>3. Note(p, r)
    BY <1>5 DEF WriteJournal
  <2>4. journal' # NoJournal /\ journal'.tree = Tree(p) /\ journal'.item = run[p].item
    BY <1>5 DEF WriteJournal, NoJournal, TypeFiles
  <2> HIDE DEF r
  <2>5. OwnIndex(label, r, conn[p], live[Tree(p)])
    BY <1>0, <1>5, <2>1, <2>2 DEF WriteJournal, Orderly, OwnIndex, Rebuilding, Writing
  <2>6. OwnJournal(label, r, Tree(p), journal', live)
    BY <2>1, <2>2, <2>4 DEF OwnJournal, Settling, Writing, Recovered, Rebuilding
  <2> QED
    BY <1>5, <2>2, <2>3, <2>5, <2>6, HeldGoes DEF WriteJournal, dbs, PCs, Writing
<1>6. CASE BodyEnds(p) \/ Finish(p)
  BY <1>6, HeldEnds DEF BodyEnds, Finish, dbs
<1>7. CASE Install(p)
  <2>1. OwnIndex("commit", run[p], conn[p], live[Tree(p)])
    BY <1>0, <1>7 DEF Install, Orderly, OwnIndex, Rebuilding, Writing
  <2>2. OwnJournal("commit", run[p], Tree(p), journal, live)
    BY <1>0, <1>7 DEF Install, Orderly, OwnJournal, Settling, Writing, Recovered, Rebuilding
  <2> QED
    BY <1>0, <1>7, <2>1, <2>2, HeldGoes DEF Install, dbs, PCs
<1>8. CASE Snapshot(p)
  <2> DEFINE r == [run[p] EXCEPT !.snapshot = file[Tree(p)]]
  <2>1. r.op = run[p].op /\ r.index = run[p].index /\ r.last = run[p].last
    BY <1>0 DEF Run
  <2>2. Goto(p, "remove") /\ Note(p, r)
    BY <1>8 DEF Snapshot
  <2> HIDE DEF r
  <2>3. OwnIndex("remove", r, conn[p], live[Tree(p)])
    BY <1>0, <1>8, <2>1 DEF Snapshot, Orderly, OwnIndex, Rebuilding, Writing
  <2>4. OwnJournal("remove", r, Tree(p), journal, live)
    BY <1>0, <1>8 DEF Snapshot, Orderly, OwnJournal, Settling, Writing, Recovered, Rebuilding
  <2> QED
    BY <1>8, <2>2, <2>3, <2>4, HeldGoes DEF Snapshot, dbs, PCs
<1>9. CASE RemoveIndex(p)
  <2>1. live' = [live EXCEPT ![Tree(p)] = Nothing] /\ UNCHANGED <<journal, lock, conn, run>>
    BY <1>9 DEF RemoveIndex, Unlink
  <2>2. \A q \in Procs \ {p} : live'[Tree(q)] = live[Tree(q)]
    BY <2>1, Basics DEF Guarded, TypeDbs
  <2>3. OwnIndex("create", run[p], conn'[p], live'[Tree(p)])
    BY <1>0, <1>9, <2>1 DEF RemoveIndex, Orderly, OwnIndex, Rebuilding, Writing
  <2>4. OwnJournal("create", run[p], Tree(p), journal', live')
    BY <1>0, <1>9, <2>1 DEF RemoveIndex, Orderly, OwnJournal, Settling, Writing, Recovered, Rebuilding
  <2> QED
    BY <1>0, <1>9, <2>1, <2>2, <2>3, <2>4, Alone, HeldActs DEF RemoveIndex
<1>10. CASE CreateIndex(p)
  <2> DEFINE g == made[Tree(p)] + 1
             r == [run[p] EXCEPT !.index = g]
  <2>1. r.op = run[p].op /\ r.index = g /\ r.last = run[p].last
    BY <1>0 DEF Run
  <2>2. Goto(p, "import") /\ Note(p, r)
    BY <1>10 DEF CreateIndex
  <2>3. live' = [live EXCEPT ![Tree(p)] = g] /\ UNCHANGED <<journal, lock, conn>>
    BY <1>10 DEF CreateIndex
  <2>4. live'[Tree(p)] = g /\ \A q \in Procs \ {p} : live'[Tree(q)] = live[Tree(q)]
    BY <2>3, Basics DEF Guarded, TypeDbs
  <2> HIDE DEF g, r
  <2>5. OwnIndex("import", r, conn'[p], live'[Tree(p)])
    BY <1>0, <1>10, <2>1, <2>3, <2>4 DEF CreateIndex, Orderly, OwnIndex, Rebuilding, Writing
  <2>6. OwnJournal("import", r, Tree(p), journal', live')
    BY <1>0, <1>10, <2>3 DEF CreateIndex, Orderly, OwnJournal, Settling, Writing, Recovered, Rebuilding
  <2> QED
    BY <1>10, <2>2, <2>3, <2>4, <2>5, <2>6, Alone, HeldActs DEF CreateIndex
<1> QED
  BY <1>1, <1>2, <1>3, <1>4, <1>5, <1>6, <1>7, <1>8, <1>9, <1>10, <1>11 DEF Operation

(* An index is deleted while its worktree is at rest: no operation uses it, *)
(* and a recovery that has it for its source finds the name free.           *)
LEMMA HeldDisturb ==
  ASSUME Guarded, TypeOK, Held, Disturb
  PROVE  Held'
<1> USE DEF TypeOK
<1>1. ASSUME NEW p \in Procs, Fault(p) \/ Crash(p) PROVE Held'
  BY <1>1, HeldEnds DEF Fault, Crash, Quit, dbs
<1>2. ASSUME NEW t \in Trees, DeleteIndex(t) PROVE Held'
  <2>1. /\ live' = [live EXCEPT ![t] = Nothing]
        /\ UNCHANGED <<pc, run, conn, journal, lock>>
    BY <1>2 DEF DeleteIndex, Unlink
  <2>2. ASSUME NEW p \in Procs PROVE Orderly(p)'
    <3>1. CASE Tree(p) = t
      <4>1. pc[p] = "idle" /\ conn[p] = Nothing
        BY <1>2, <3>1 DEF DeleteIndex, Guarded, InUse
      <4> QED
        BY <2>1, <4>1, AtRest DEF Orderly
    <3>2. CASE Tree(p) # t
      <4>1. live'[Tree(p)] = live[Tree(p)]
        BY <2>1, <3>2, Basics DEF TypeDbs
      <4>2. OwnIndex(pc[p], run[p], conn[p], live[Tree(p)])
        BY DEF Held, Orderly
      <4>3. \A u : live'[u] = live[u] \/ live'[u] = Nothing
        BY <2>1 DEF TypeDbs
      <4>4. OwnJournal(pc[p], run[p], Tree(p), journal, live')
        BY <4>3 DEF Held, Orderly, OwnJournal
      <4> QED
        BY <2>1, <4>1, <4>2, <4>4 DEF Orderly, Tree
    <3> QED
      BY <3>1, <3>2
  <2> QED
    BY <2>1, <2>2 DEF Held, Exclusive
<1>3. ASSUME NEW t \in Trees, NEW i \in Proposals, Edit(t, i) PROVE Held'
  BY <1>3, HeldSame DEF Edit, dbs
<1> QED
  BY <1>1, <1>2, <1>3 DEF Disturb

LEMMA HeldStep == Guarded /\ TypeOK /\ InHand /\ Held /\ [Next]_vars => Held'
<1> SUFFICES ASSUME Guarded, TypeOK, InHand, Held, [Next]_vars PROVE Held'
  OBVIOUS
<1>1. CASE UNCHANGED vars
  BY <1>1, HeldSame DEF vars, dbs
<1> QED
  BY <1>1, HeldBegin, HeldRecovery, HeldOperation, HeldDisturb DEF Next

(* One operation at a time has the lifecycle lock, and whoever has it works *)
(* on the index its worktree names and on the journal there is: a recovery  *)
(* on the one it read, a writer on the one it wrote, and whatever follows a *)
(* recovery on none.                                                        *)
THEOREM OperationsAreHeld == Guarded => (Spec => []Held)
<1> SUFFICES ASSUME Guarded PROVE Spec => []Held
  OBVIOUS
<1>1. Init => Held
  BY NothingAssumption DEF Init, Held, Exclusive, Orderly, OwnIndex, OwnJournal, Rebuilding,
     Settling, Writing, Recovered
<1>2. TypeOK /\ InHand /\ Held /\ [Next]_vars => Held'
  BY HeldStep
<1> QED
  BY <1>1, <1>2, SharedTypes, PTL DEF Spec

-------------------------------------------------------------------------------
(* Content                                                                  *)

(* What index x has that shared.db, with content s, has not.                *)
Ahead(x, s) == (x.recs \ s.recs) \cup
    {i \in Proposals : x.prop[i] = "applied" /\ s.prop[i] # "applied"}

(* The markers of worktree t's index x are the pending journal's, and so is *)
(* the one item by which it is ahead of shared.db.                          *)
Accounted(x, t, s, j) ==
    /\ \A op \in x.markers : j # NoJournal /\ j.op = op /\ j.tree = t
    /\ Ahead(x, s) # {} =>
         j # NoJournal /\ j.tree = t /\ Ahead(x, s) = {j.item} /\ j.op \in x.markers

Live(t) == index[t][live[t]]
IndexesAccounted ==
    \A t \in Trees : live[t] # Nothing => Accounted(Live(t), t, shared, journal)

Shares(i, s) == IF i \in Proposals THEN s.prop[i] = "applied" ELSE i \in s.recs

(* A file an apply created is there until somebody touches it, and its      *)
(* proposal is applied or the journal's.                                    *)
FileAccounted(i, holders, contents, status, j) ==
    /\ \A t \in holders : contents[t][i] = "exact"
    /\ \A t, u \in holders : t = u
    /\ holders # {} /\ status # "applied" =>
         /\ status = "approved"
         /\ j # NoJournal /\ j.item = i /\ holders \subseteq {j.tree}
FilesAccounted ==
    \A i \in Proposals : FileAccounted(i, installed[i], file, shared.prop[i], journal)

(* What a process may rely on at each step of a recovery or of a write.     *)
Reliance(p) ==
    /\ pc[p] = "unmark" => Shares(journal.item, shared)
    /\ pc[p] = "drop" =>
         /\ live[journal.tree] # Nothing => journal.op \notin Live(journal.tree).markers
         /\ Shares(journal.item, shared) \/ (IsApply(journal) => installed[journal.item] = {})
    /\ pc[p] = "install" =>
         shared.prop[run[p].item] = "approved" /\ installed[run[p].item] = {}

(* The recovery that ends an apply or a capture has the operation's own     *)
(* journal to finish, and has shared its item by the time it reports.       *)
Finishing(p) ==
    run[p].last /\ run[p].op \in {"apply", "capture"} =>
        /\ pc[p] = "recover" =>
             /\ journal # NoJournal /\ journal.tree = Tree(p) /\ journal.item = run[p].item
             /\ journal.op \in Live(Tree(p)).markers
        /\ pc[p] # "roll"
        /\ pc[p] = "share" => journal.item = run[p].item
        /\ pc[p] \in {"unmark", "drop", "mirror", "done"} => Shares(run[p].item, shared)

Custody ==
    /\ IndexesAccounted /\ FilesAccounted
    /\ \A p \in Procs : Reliance(p) /\ Finishing(p)

-------------------------------------------------------------------------------
(* What the contents of an index do to its account.                         *)

LEMMA WriteAccounted ==
  ASSUME NEW x \in Index, NEW s, NEW j \in Journal, Accounted(x, j.tree, s, j)
  PROVE  /\ Accounted(WithApplied(x, j.item, j.op), j.tree, s, j)
         /\ j.op \in WithApplied(x, j.item, j.op).markers
         /\ Accounted(WithRecord(x, j.item, j.op), j.tree, s, j)
         /\ j.op \in WithRecord(x, j.item, j.op).markers
<1>0. j # NoJournal
  BY DEF Journal, NoJournal
<1>1. ASSUME NEW y, y.markers = x.markers \cup {j.op}, Ahead(y, s) \subseteq Ahead(x, s) \cup {j.item}
      PROVE  Accounted(y, j.tree, s, j)
  <2>1. Ahead(y, s) # {} => Ahead(y, s) = {j.item}
    BY <1>1 DEF Accounted
  <2> QED
    BY <1>0, <1>1, <2>1 DEF Accounted
<1>2. /\ WithApplied(x, j.item, j.op).markers = x.markers \cup {j.op}
      /\ Ahead(WithApplied(x, j.item, j.op), s) \subseteq Ahead(x, s) \cup {j.item}
  BY DEF Ahead, WithApplied, Touched, Index
<1>3. /\ WithRecord(x, j.item, j.op).markers = x.markers \cup {j.op}
      /\ Ahead(WithRecord(x, j.item, j.op), s) \subseteq Ahead(x, s) \cup {j.item}
  BY DEF Ahead, WithRecord, Touched, Index
<1> QED
  BY <1>1, <1>2, <1>3

(* An index equal to shared.db, or with other canonical rows, or empty.     *)
LEMMA RestAccounted ==
  ASSUME TypeDbs, NEW x \in Index, NEW t, NEW j, Accounted(x, t, shared, j)
  PROVE  /\ Accounted(Mirrored(x), t, shared, j)
         /\ \A canon : Accounted([x EXCEPT !.canon = canon], t, shared, j)
         /\ Accounted(Touched(x), t, shared, j)
<1>1. Mirrored(x).markers = x.markers /\ Ahead(Mirrored(x), shared) = {}
  BY DEF Mirrored, Index, Ahead, TypeDbs
<1>2. ASSUME NEW canon
      PROVE  /\ [x EXCEPT !.canon = canon].markers = x.markers
             /\ Ahead([x EXCEPT !.canon = canon], shared) = Ahead(x, shared)
  BY DEF Index, Ahead
<1>3. Touched(x).markers = x.markers /\ Ahead(Touched(x), shared) = Ahead(x, shared)
  BY DEF Index, Ahead, Touched
<1>4. Accounted(Mirrored(x), t, shared, j)
  BY <1>1 DEF Accounted
<1>5. ASSUME NEW canon PROVE Accounted([x EXCEPT !.canon = canon], t, shared, j)
  BY <1>2 DEF Accounted
<1>6. Accounted(Touched(x), t, shared, j)
  BY <1>3 DEF Accounted
<1> QED
  BY <1>4, <1>5, <1>6

LEMMA EmptyAccounted == \A t, s, j : Accounted(EmptyIndex, t, s, j)
BY DEF Accounted, Ahead, EmptyIndex

(* A marker may go once its item is shared: nothing is ahead any more.      *)
LEMMA UnmarkAccounted ==
  ASSUME NEW x \in Index, NEW s \in [prop : [Proposals -> Status], recs : SUBSET Locals],
         NEW j \in Journal, Accounted(x, j.tree, s, j), Shares(j.item, s)
  PROVE  Accounted([x EXCEPT !.markers = @ \ {j.op}], j.tree, s, j)
<1> DEFINE y == [x EXCEPT !.markers = @ \ {j.op}]
<1>1. y.markers = x.markers \ {j.op} /\ Ahead(y, s) = Ahead(x, s)
  BY DEF Index, Ahead
<1>2. j.item \notin Ahead(x, s)
  BY ItemAssumption DEF Shares, Ahead, Index
<1> HIDE DEF y
<1>3. Accounted(y, j.tree, s, j)
  BY <1>1, <1>2 DEF Accounted
<1> QED
  BY <1>3 DEF y

(* When shared.db moves forward an index is ahead of it by no more.         *)
LEMMA ForwardAccounted ==
  ASSUME NEW x, NEW t, NEW j, NEW s, NEW r, Accounted(x, t, s, j),
         s.recs \subseteq r.recs,
         \A i \in Proposals : s.prop[i] = "applied" => r.prop[i] = "applied"
  PROVE  Accounted(x, t, r, j)
<1>1. Ahead(x, r) \subseteq Ahead(x, s)
  BY DEF Ahead
<1> QED
  BY <1>1 DEF Accounted

(* An index without markers is not ahead, whatever journal comes or goes.   *)
LEMMA UnmarkedAccounted ==
  ASSUME NEW x, NEW t, NEW j, NEW k, NEW s, Accounted(x, t, s, j), x.markers = {}
  PROVE  Accounted(x, t, s, k)
BY DEF Accounted

-------------------------------------------------------------------------------
(* What a write does to every account.                                      *)

LEMMA IndexesWritten ==
  ASSUME TypeDbs, IndexesAccounted, UNCHANGED <<shared, live, journal>>,
         NEW t, NEW g, NEW x, SetIndex(t, g, x),
         t \in Trees /\ g = live[t] /\ g # Nothing => Accounted(x, t, shared, journal)
  PROVE  IndexesAccounted'
<1> SUFFICES ASSUME NEW u \in Trees, live[u] # Nothing
             PROVE  Accounted(index'[u][live[u]], u, shared, journal)
  BY DEF IndexesAccounted, Live
<1>1. CASE u = t /\ live[u] = g
  <2>1. index'[u][live[u]] = x
    BY <1>1 DEF SetIndex, TypeDbs
  <2> QED
    BY <1>1, <2>1
<1>2. CASE u # t \/ live[u] # g
  <2>1. index'[u][live[u]] = index[u][live[u]]
    BY <1>2 DEF SetIndex, TypeDbs
  <2> QED
    BY <2>1 DEF IndexesAccounted, Live
<1> QED
  BY <1>1, <1>2

LEMMA IndexesUnlinked ==
  ASSUME TypeDbs, IndexesAccounted, UNCHANGED <<shared, journal>>, NEW t \in Trees, Unlink(t)
  PROVE  IndexesAccounted'
<1> SUFFICES ASSUME NEW u \in Trees, live'[u] # Nothing
             PROVE  Accounted(index'[u][live'[u]], u, shared, journal)
  BY DEF IndexesAccounted, Live
<1>1. u # t /\ live'[u] = live[u] /\ index'[u] = index[u]
  BY DEF Unlink, TypeDbs
<1> QED
  BY <1>1 DEF IndexesAccounted, Live

LEMMA SharedWritten ==
  ASSUME TypeDbs, IndexesAccounted, UNCHANGED <<live, journal>>, NEW s, SetShared(s),
         shared.recs \subseteq s.recs,
         \A i \in Proposals : shared.prop[i] = "applied" => s.prop[i] = "applied"
  PROVE  IndexesAccounted'
<1> SUFFICES ASSUME NEW u \in Trees, live[u] # Nothing
             PROVE  Accounted(index'[u][live[u]], u, s, journal)
  BY DEF IndexesAccounted, Live, SetShared
<1>1. index'[u][live[u]] = Touched(Live(u)) /\ Live(u) \in Index
  BY DEF SetShared, TypeDbs, Live
<1>2. Accounted(Touched(Live(u)), u, shared, journal)
  BY <1>1, RestAccounted DEF IndexesAccounted
<1> QED
  BY <1>1, <1>2, ForwardAccounted

LEMMA IndexesSame ==
  IndexesAccounted /\ UNCHANGED <<shared, index, live, journal>> => IndexesAccounted'
BY DEF IndexesAccounted, Live

LEMMA FilesStay ==
  FilesAccounted /\ UNCHANGED <<disk, shared, journal>> => FilesAccounted'
BY DEF FilesAccounted, disk

(* A proposal decided or applied while no apply of it is under way.         *)
LEMMA FilesDecided ==
  ASSUME TypeDbs, FilesAccounted, UNCHANGED <<disk, journal>>,
         \A i \in Proposals : \/ shared'.prop[i] = shared.prop[i]
                              \/ shared'.prop[i] = "applied"
                              \/ installed[i] = {}
  PROVE  FilesAccounted'
BY DEF FilesAccounted, FileAccounted, disk

(* A file is changed, and who had created it no longer answers for it.      *)
LEMMA FileTouched ==
  ASSUME TypeFiles, FilesAccounted, UNCHANGED <<shared, journal>>,
         NEW t \in Trees, NEW i \in Proposals, NEW content, SetFile(t, i, content), Forget(t, i)
  PROVE  FilesAccounted' /\ \A k \in Proposals : installed'[k] \subseteq installed[k]
<1>1. \A k \in Proposals : installed'[k] = IF k = i THEN installed[k] \ {t} ELSE installed[k]
  BY DEF Forget, TypeFiles
<1>2. \A u \in Trees, k \in Proposals : u # t \/ k # i => file'[u][k] = file[u][k]
  BY DEF SetFile, TypeFiles
<1>3. ASSUME NEW k \in Proposals
      PROVE  FileAccounted(k, installed'[k], file', shared.prop[k], journal)
  <2>1. \A u \in installed'[k] : u \in Trees /\ file'[u][k] = file[u][k] /\ u \in installed[k]
    BY <1>1, <1>2 DEF TypeFiles
  <2>2. FileAccounted(k, installed[k], file, shared.prop[k], journal)
    BY DEF FilesAccounted
  <2> QED
    BY <2>1, <2>2 DEF FileAccounted
<1> QED
  BY <1>1, <1>3 DEF FilesAccounted

-------------------------------------------------------------------------------
(* Custody is inductive.                                                    *)

LEMMA Resting == \A p \in Procs : pc[p] = "idle" => Reliance(p) /\ Finishing(p)
BY DEF Reliance, Finishing

LEMMA CustodyActs ==
  ASSUME TypeProcs, NEW p \in Procs, \A q \in Procs \ {p} : pc[q] = "idle",
         NEW label, Goto(p, label),
         IndexesAccounted', FilesAccounted', Reliance(p)', Finishing(p)'
  PROVE  Custody'
<1>1. ASSUME NEW q \in Procs, q # p PROVE Reliance(q)' /\ Finishing(q)'
  <2>1. pc'[q] = "idle"
    BY <1>1 DEF Goto, TypeProcs
  <2> QED
    BY <2>1 DEF Reliance, Finishing
<1> QED
  BY <1>1 DEF Custody

LEMMA CustodyEnds ==
  ASSUME TypeProcs, Held, Custody, NEW p \in Procs, pc[p] # "idle", Goto(p, "idle"),
         IndexesAccounted', FilesAccounted'
  PROVE  Custody'
<1>1. pc'[p] = "idle"
  BY DEF Goto, TypeProcs
<1>2. Reliance(p)' /\ Finishing(p)'
  BY <1>1 DEF Reliance, Finishing
<1> QED
  BY <1>2, Alone, CustodyActs

LEMMA CustodyBegin ==
  ASSUME Guarded, TypeOK, Held, Custody, NEW p \in Procs, Begin(p)
  PROVE  Custody'
<1> USE DEF TypeOK
<1>1. IndexesAccounted' /\ FilesAccounted'
  BY IndexesSame, FilesStay DEF Custody, Begin, OpenCurrent, OpenRefreshing, Close, Read,
     ReplayCapture, Rebuild, Command, Start, dbs
<1>2. CASE OpenCurrent(p) \/ Close(p)
  <2>1. UNCHANGED <<dbs, disk, journal, pc, run>>
    BY <1>2 DEF OpenCurrent, Close
  <2>2. \A q \in Procs : (Reliance(q) /\ Finishing(q))'
    BY <2>1 DEF Custody, Reliance, Finishing, Shares, Live, IsApply, Tree, dbs, disk
  <2> QED
    BY <1>1, <2>2 DEF Custody
<1>3. ASSUME NEW op, NEW item, NEW g, Start(p, op, item, g), TakeLock(p) PROVE Custody'
  <2>1. Goto(p, "recover") /\ \A q \in Procs : pc[q] = "idle"
    BY <1>3, AllIdle DEF Start, TakeLock
  <2>2. pc'[p] = "recover" /\ run'[p].last = FALSE
    BY <1>3 DEF Start, Goto, Note, TypeProcs, NoRun
  <2>3. Reliance(p)' /\ Finishing(p)'
    BY <2>2 DEF Reliance, Finishing
  <2> QED
    BY <1>1, <2>1, <2>3, CustodyActs
<1>4. ~ ReplayCapture(p)
  BY DEF Guarded, ReplayCapture
<1> QED
  BY <1>2, <1>3, <1>4 DEF Begin, OpenRefreshing, Read, Rebuild, Command

(* The recovery reads the journal and decides.                              *)
LEMMA CustodyRecover ==
  ASSUME TypeOK, Held, Custody, NEW p \in Procs, Recover(p)
  PROVE  Custody'
<1> USE DEF TypeOK
<1>1. /\ journal \in Journal /\ pc[p] = "recover" /\ UNCHANGED <<dbs, disk, journal>>
      /\ run' = [run EXCEPT ![p] = [run[p] EXCEPT !.seen = journal, !.source = live[journal.tree]]]
  BY DEF Recover, Note, Stays, TypeFiles
<1>2. /\ run'[p].last = run[p].last /\ run'[p].op = run[p].op /\ run'[p].item = run[p].item
  BY <1>1 DEF TypeProcs, Run
<1>3. IndexesAccounted' /\ FilesAccounted'
  BY <1>1, IndexesSame, FilesStay DEF Custody, dbs
<1>4. Shares(journal.item, shared) <=> IsShared(journal)
  BY DEF Shares, IsShared, IsApply
<1>5. Live(journal.tree) = SourceIndex(journal)
  BY DEF Live, SourceIndex
<1>6. Finishing(p) /\ (run[p].last /\ run[p].op \in {"apply", "capture"} => live[Tree(p)] # Nothing)
  BY <1>1 DEF Custody, Held, Orderly, OwnIndex
<1>7. PICK label : /\ Goto(p, label)
                   /\ \/ label = "drop" /\ IsDiscardable(journal)
                      \/ label = "roll" /\ IsMarkerless(journal)
                      \/ label = "share" /\ IsUnshared(journal)
                      \/ label = "unmark" /\ IsUncleaned(journal)
  BY DEF Recover
<1>8. pc'[p] = label
  BY <1>7 DEF Goto, TypeProcs
<1>9. Reliance(p)'
  <2>1. label = "unmark" => Shares(journal.item, shared)
    BY <1>4, <1>7 DEF IsUncleaned
  <2>2. label = "drop" /\ live[journal.tree] # Nothing => journal.op \notin Live(journal.tree).markers
    BY <1>5, <1>7 DEF IsDiscardable, SourceMissing, IsCommitted
  <2>3. ASSUME label = "drop", ~ Shares(journal.item, shared), IsApply(journal)
        PROVE  installed[journal.item] = {}
    <3>1. file[journal.tree][journal.item] = "none"
      BY <1>4, <1>7, <2>3 DEF IsDiscardable, CanonicalFile
    <3>2. shared.prop[journal.item] # "applied" /\ journal.item \in Proposals
      BY <2>3 DEF Shares, IsApply
    <3>3. FileAccounted(journal.item, installed[journal.item], file, shared.prop[journal.item], journal)
      BY <3>2 DEF Custody, FilesAccounted
    <3> QED
      BY <3>1, <3>2, <3>3 DEF FileAccounted
  <2>4. label # "install"
    BY <1>7
  <2> QED
    BY <1>1, <1>8, <2>1, <2>2, <2>3, <2>4 DEF Reliance, Shares, Live, IsApply, dbs, disk
<1>10. Finishing(p)'
  <2>1. ASSUME run[p].last, run[p].op \in {"apply", "capture"}
        PROVE  /\ journal.item = run[p].item /\ label # "roll"
               /\ label \in {"unmark", "drop"} => Shares(journal.item, shared)
    <3>1. journal.item = run[p].item /\ IsCommitted(journal) /\ ~SourceMissing(journal)
      BY <1>1, <1>5, <1>6, <2>1 DEF Finishing, IsCommitted, SourceMissing
    <3> QED
      BY <1>4, <1>7, <3>1 DEF IsDiscardable, IsMarkerless, IsUncleaned
  <2> QED
    BY <1>1, <1>2, <1>7, <1>8, <2>1 DEF Finishing, Shares, dbs
<1> QED
  BY <1>1, <1>3, <1>7, <1>9, <1>10, Alone, CustodyActs

(* The index a recovery writes is the one the journal's worktree names, or  *)
(* one that was unlinked meanwhile.                                         *)
LEMMA SourceWritten ==
  ASSUME TypeOK, Held, IndexesAccounted, NEW p \in Procs, pc[p] \in Settling,
         UNCHANGED journal, NEW x, SetSource(p, x),
         Source(p) \in Index /\ Accounted(Source(p), journal.tree, shared, journal) =>
           Accounted(x, journal.tree, shared, journal)
  PROVE  IndexesAccounted'
<1> USE DEF TypeOK
<1>1. journal \in Journal /\ run[p].seen = journal /\ live[journal.tree] \in {run[p].source, Nothing}
  BY DEF Held, Orderly, OwnJournal, TypeFiles
<1>2. ASSUME run[p].source = live[journal.tree], run[p].source # Nothing
      PROVE  Accounted(x, journal.tree, shared, journal)
  <2>1. Source(p) = Live(journal.tree) /\ Source(p) \in Index
    BY <1>1, <1>2 DEF Source, Live, TypeDbs, Journal
  <2> QED
    BY <1>1, <1>2, <2>1 DEF IndexesAccounted, Journal
<1> QED
  BY <1>1, <1>2, IndexesWritten DEF SetSource

LEMMA CustodyRoll ==
  ASSUME TypeOK, Held, Custody, NEW p \in Procs, RollForward(p)
  PROVE  Custody'
<1> USE DEF TypeOK
<1>1. /\ pc[p] = "roll" /\ UNCHANGED <<shared, live, disk, journal, run>>
      /\ Goto(p, "share") /\ pc'[p] = "share"
  BY DEF RollForward, SetSource, Goto, TypeProcs
<1>2. journal \in Journal /\ run[p].seen = journal
  BY <1>1 DEF Held, Orderly, OwnJournal, Settling, TypeFiles
<1>3. IndexesAccounted'
  <2>1. SetSource(p, WithApplied(Source(p), journal.item, journal.op))
    BY <1>2 DEF RollForward
  <2> QED
    BY <1>1, <1>2, <2>1, WriteAccounted, SourceWritten DEF Custody, Settling
<1>4. FilesAccounted'
  BY <1>1, FilesStay DEF Custody
<1>5. Reliance(p)' /\ Finishing(p)'
  BY <1>1 DEF Custody, Reliance, Finishing
<1> QED
  BY <1>1, <1>3, <1>4, <1>5, Alone, CustodyActs

LEMMA CustodyShare ==
  ASSUME TypeOK, InHand, Held, Custody, NEW p \in Procs, Share(p)
  PROVE  Custody'
<1> USE DEF TypeOK
<1>1. /\ pc[p] = "share" /\ UNCHANGED <<live, disk, journal, run>>
      /\ Goto(p, "unmark") /\ pc'[p] = "unmark"
  BY DEF Share, Goto, TypeProcs
<1>2. journal \in Journal /\ run[p].seen = journal
  BY <1>1 DEF Held, Orderly, OwnJournal, Settling, TypeFiles
<1>3. /\ shared.recs \subseteq shared'.recs
      /\ \A i \in Proposals : shared.prop[i] = "applied" => shared'.prop[i] = "applied"
  BY ShareApplies
<1>4. shared' = Payload(journal) /\ (UNCHANGED index \/ SetShared(Payload(journal)))
  BY <1>2 DEF Share, SetShared
<1>5. IndexesAccounted'
  <2>1. CASE UNCHANGED <<shared, index>>
    BY <1>1, <2>1, IndexesSame DEF Custody
  <2>2. CASE SetShared(Payload(journal))
    BY <1>1, <1>3, <1>4, <2>2, SharedWritten DEF Custody
  <2> QED
    BY <1>2, <2>1, <2>2 DEF Share
<1>6. FilesAccounted'
  <2>1. \A i \in Proposals : shared'.prop[i] = shared.prop[i] \/ shared'.prop[i] = "applied"
    BY <1>4 DEF Payload, TypeDbs
  <2> QED
    BY <1>1, <2>1, FilesDecided DEF Custody
<1>7. Shares(journal.item, shared')
  BY <1>2, <1>4 DEF Payload, Shares, IsApply, TypeDbs
<1>8. Reliance(p)'
  BY <1>1, <1>7 DEF Reliance, Shares
<1>9. Finishing(p)'
  BY <1>1, <1>7 DEF Custody, Finishing, Shares
<1> QED
  BY <1>1, <1>5, <1>6, <1>8, <1>9, Alone, CustodyActs

LEMMA CustodyUnmark ==
  ASSUME TypeOK, Held, Custody, NEW p \in Procs, Unmark(p)
  PROVE  Custody'
<1> USE DEF TypeOK
<1>1. /\ pc[p] = "unmark" /\ UNCHANGED <<shared, live, disk, journal, run>>
      /\ Goto(p, "drop") /\ pc'[p] = "drop"
  BY DEF Unmark, SetSource, Goto, TypeProcs
<1>2. /\ journal \in Journal /\ run[p].seen = journal
      /\ live[journal.tree] \in {run[p].source, Nothing}
  BY <1>1 DEF Held, Orderly, OwnJournal, Settling, TypeFiles
<1>3. Shares(journal.item, shared)
  BY <1>1 DEF Custody, Reliance
<1> DEFINE x == [Source(p) EXCEPT !.markers = @ \ {journal.op}]
<1>4. SetSource(p, x)
  BY <1>2 DEF Unmark
<1>5. IndexesAccounted'
  BY <1>1, <1>2, <1>3, <1>4, UnmarkAccounted, SourceWritten DEF Custody, Settling, TypeDbs
<1>6. FilesAccounted'
  BY <1>1, FilesStay DEF Custody
<1>7. ASSUME live[journal.tree] # Nothing PROVE journal.op \notin Live(journal.tree)'.markers
  <2>1. Source(p) \in Index /\ index' = [index EXCEPT ![journal.tree][live[journal.tree]] = x]
    BY <1>2, <1>4, <1>7 DEF Source, SetSource, SetIndex, TypeDbs, Journal
  <2>2. x.markers = Source(p).markers \ {journal.op}
    BY <2>1 DEF Index
  <2> HIDE DEF x
  <2>3. index'[journal.tree][live[journal.tree]] = x
    BY <1>2, <1>7, <2>1 DEF TypeDbs, Journal
  <2> QED
    BY <1>1, <2>2, <2>3 DEF Live
<1>8. Reliance(p)'
  BY <1>1, <1>3, <1>7 DEF Reliance, Shares, Live
<1>9. Finishing(p)'
  BY <1>1 DEF Custody, Finishing, Shares
<1> QED
  BY <1>1, <1>5, <1>6, <1>8, <1>9, Alone, CustodyActs

(* The journal is removed once no index has a marker and no file an apply   *)
(* created waits for it.                                                    *)
LEMMA CustodyDrop ==
  ASSUME TypeOK, Held, Custody, NEW p \in Procs, Drop(p)
  PROVE  Custody'
<1> USE DEF TypeOK
<1> DEFINE label == AfterRecovery(p)
<1>1. /\ pc[p] = "drop" /\ UNCHANGED <<dbs, disk>> /\ journal' = NoJournal
      /\ Goto(p, label) /\ pc'[p] = label
      /\ run'[p].last = run[p].last /\ run'[p].op = run[p].op /\ run'[p].item = run[p].item
  BY DEF Drop, Goto, Note, TypeProcs, Run
<1>2. journal \in Journal
  BY <1>1 DEF Held, Orderly, OwnJournal, Settling, TypeFiles
<1>3. /\ live[journal.tree] # Nothing => journal.op \notin Live(journal.tree).markers
      /\ Shares(journal.item, shared) \/ (IsApply(journal) => installed[journal.item] = {})
  BY <1>1 DEF Custody, Reliance
<1>4. IndexesAccounted'
  <2>1. ASSUME NEW t \in Trees, live[t] # Nothing
        PROVE  Accounted(Live(t), t, shared, NoJournal)
    <3>1. Accounted(Live(t), t, shared, journal)
      BY <2>1 DEF Custody, IndexesAccounted
    <3>2. Live(t).markers = {}
      BY <1>3, <2>1, <3>1 DEF Accounted
    <3> QED
      BY <3>1, <3>2, UnmarkedAccounted
  <2> QED
    BY <1>1, <2>1 DEF IndexesAccounted, Live, dbs
<1>5. FilesAccounted'
  <2>1. ASSUME NEW i \in Proposals
        PROVE  FileAccounted(i, installed[i], file, shared.prop[i], NoJournal)
    BY <1>3 DEF Custody, FilesAccounted, FileAccounted, Shares, IsApply
  <2> QED
    BY <1>1, <2>1 DEF FilesAccounted, dbs, disk
<1>6. Reliance(p)'
  BY <1>1, AfterRecoveryTells DEF Reliance
<1>7. Finishing(p)'
  BY <1>1, AfterRecoveryTells DEF Custody, Finishing, Shares, dbs
<1> QED
  BY <1>1, <1>4, <1>5, <1>6, <1>7, Alone, CustodyActs

LEMMA CustodyRecovery ==
  ASSUME TypeOK, InHand, Held, Custody, NEW p \in Procs, Recovery(p)
  PROVE  Custody'
<1>1. CASE RecoverNothing(p)
  <2>1. /\ UNCHANGED <<dbs, disk, journal, run>> /\ journal = NoJournal /\ pc[p] = "recover"
        /\ Goto(p, AfterRecovery(p)) /\ pc'[p] = AfterRecovery(p)
    BY <1>1 DEF RecoverNothing, Stays, Goto, TypeOK, TypeProcs
  <2>2. IndexesAccounted' /\ FilesAccounted'
    BY <2>1, IndexesSame, FilesStay DEF Custody, dbs
  <2>3. Reliance(p)'
    BY <2>1, AfterRecoveryTells DEF Reliance
  <2>4. Finishing(p)'
    BY <2>1, AfterRecoveryTells DEF Custody, Finishing
  <2> QED
    BY <2>1, <2>2, <2>3, <2>4, Alone, CustodyActs DEF TypeOK
<1>2. CASE RecoverRefuse(p) \/ RollForwardRefuse(p) \/ ShareRefuse(p) \/ UnmarkRefuse(p)
  <2>1. pc[p] # "idle" /\ Goto(p, "idle") /\ UNCHANGED <<dbs, disk, journal>>
    BY <1>2 DEF RecoverRefuse, RollForwardRefuse, ShareRefuse, UnmarkRefuse, Quit
  <2> QED
    BY <2>1, IndexesSame, FilesStay, CustodyEnds DEF Custody, TypeOK, dbs
<1> QED
  BY <1>1, <1>2, CustodyRecover, CustodyRoll, CustodyShare, CustodyUnmark, CustodyDrop DEF Recovery

-------------------------------------------------------------------------------
LEMMA LastTells ==
  ASSUME TypeProcs, NEW p \in Procs, ToLast(p)
  PROVE  /\ pc'[p] = "recover" /\ Goto(p, "recover")
         /\ run'[p].last = TRUE /\ run'[p].op = run[p].op /\ run'[p].item = run[p].item
BY DEF ToLast, Goto, Note, TypeProcs, Run

(* An operation other than an apply or a capture relies on nothing outside  *)
(* the recovery's own steps.                                                *)
LEMMA CustodyElse ==
  ASSUME TypeProcs, Held, NEW p \in Procs, pc[p] # "idle",
         NEW label, Goto(p, label), label \notin Settling \cup {"install"},
         run'[p].last => run'[p].op \notin {"apply", "capture"},
         IndexesAccounted', FilesAccounted'
  PROVE  Custody'
<1>1. pc'[p] = label
  BY DEF Goto, TypeProcs
<1>2. Reliance(p)' /\ Finishing(p)'
  BY <1>1 DEF Reliance, Finishing, Settling
<1> QED
  BY <1>2, Alone, CustodyActs

LEMMA CustodyMirror ==
  ASSUME TypeOK, Held, Custody, NEW p \in Procs, Mirror(p)
  PROVE  Custody'
<1> USE DEF TypeOK
<1>1. PICK label \in {"done", "body"} : Goto(p, label)
  BY DEF Mirror
<1>2. /\ pc[p] = "mirror" /\ UNCHANGED <<shared, live, disk, journal, run>> /\ pc'[p] = label
  BY <1>1 DEF Mirror, Goto, TypeProcs
<1>3. IndexesAccounted'
  <2>1. CASE SetIndex(Tree(p), run[p].index, Mirrored(Mine(p)))
    <3>1. ASSUME Tree(p) \in Trees, run[p].index = live[Tree(p)], live[Tree(p)] # Nothing
          PROVE  Accounted(Mirrored(Mine(p)), Tree(p), shared, journal)
      <4>1. Mine(p) = Live(Tree(p)) /\ Mine(p) \in Index
        BY <3>1 DEF Mine, Live, TypeDbs
      <4> QED
        BY <3>1, <4>1, RestAccounted DEF Custody, IndexesAccounted
    <3> QED
      BY <1>2, <2>1, <3>1, IndexesWritten DEF Custody
  <2>2. CASE UNCHANGED index
    BY <1>2, <2>2, IndexesSame DEF Custody
  <2> QED
    BY <2>1, <2>2 DEF Mirror
<1>4. FilesAccounted'
  BY <1>2, FilesStay DEF Custody
<1>5. Reliance(p)' /\ Finishing(p)'
  BY <1>2 DEF Custody, Reliance, Finishing, Shares
<1> QED
  BY <1>1, <1>2, <1>3, <1>4, <1>5, Alone, CustodyActs

(* The update of a decision finds what its check saw: the lock is held.     *)
LEMMA CustodyDecide ==
  ASSUME ~LockFreeReplay, TypeOK, InHand, DecisionsStand, Held, Custody,
         NEW p \in Procs, Propose(p) \/ SetStatus(p)
  PROVE  Custody'
<1> USE DEF TypeOK
<1> DEFINE s == [shared EXCEPT !.prop[run[p].item] = Result(run[p].op)]
<1>1. /\ pc[p] \in {"body", "decide"} /\ UNCHANGED <<live, disk, journal>> /\ SetShared(s) /\ ToLast(p)
      /\ run[p].op \notin {"apply", "capture"}
  BY DEF Propose, SetStatus, InHand, HasInHand
<1>2. shared.prop[run[p].item] # "applied"
  BY DEF Propose, SetStatus, DecisionsStand, Stands, Allowed
<1>3. journal = NoJournal
  BY <1>1 DEF Held, Orderly, OwnJournal, Recovered
<1>4. /\ shared' = s /\ s.recs = shared.recs
      /\ \A i \in Proposals : i # run[p].item => s.prop[i] = shared.prop[i]
  BY <1>1 DEF SetShared, TypeDbs
<1>5. IndexesAccounted'
  BY <1>1, <1>4, <1>2, SharedWritten DEF Custody
<1>6. FilesAccounted'
  <2>1. run[p].item \in Proposals => installed[run[p].item] = {}
    BY <1>3, <1>2 DEF Custody, FilesAccounted, FileAccounted
  <2> QED
    BY <1>1, <1>4, <2>1, FilesDecided DEF Custody
<1> QED
  BY <1>1, <1>5, <1>6, LastTells, CustodyElse DEF Settling

(* A journal is written when there is none: no index has a marker and no    *)
(* file waits.                                                              *)
LEMMA CustodyWrite ==
  ASSUME TypeOK, InHand, Held, Custody, NEW p \in Procs, WriteJournal(p)
  PROVE  Custody'
<1> USE DEF TypeOK
<1>1. PICK label \in Writing : Goto(p, label) /\ (label = "install" => run[p].op = "apply")
  BY DEF WriteJournal, Writing
<1>2. /\ pc[p] = "body" /\ journal = NoJournal /\ UNCHANGED <<dbs, disk>> /\ pc'[p] = label
      /\ run'[p].last = run[p].last /\ run'[p].op = run[p].op /\ run'[p].item = run[p].item
  BY <1>1 DEF WriteJournal, CanWrite, Goto, Note, TypeProcs, Run
<1>3. ~ run[p].last
  BY <1>2 DEF Held, Orderly, OwnIndex
<1>4. IndexesAccounted'
  <2>1. ASSUME NEW t \in Trees, live[t] # Nothing
        PROVE  Accounted(Live(t), t, shared, NoJournal) /\ Live(t).markers = {}
    BY <1>2, <2>1 DEF Custody, IndexesAccounted, Accounted
  <2>2. ASSUME NEW t \in Trees, live[t] # Nothing, NEW j
        PROVE  Accounted(Live(t), t, shared, j)
    BY <2>1, <2>2, UnmarkedAccounted
  <2> QED
    BY <1>2, <2>2 DEF IndexesAccounted, Live, dbs
<1>5. \A i \in Proposals : installed[i] # {} => shared.prop[i] = "applied"
  BY <1>2 DEF Custody, FilesAccounted, FileAccounted
<1>6. FilesAccounted'
  BY <1>2, <1>5 DEF Custody, FilesAccounted, FileAccounted, dbs, disk
<1>7. Reliance(p)'
  <2>1. ASSUME label = "install"
        PROVE  shared.prop[run[p].item] = "approved" /\ installed[run[p].item] = {}
    <3>1. shared.prop[run[p].item] = "approved" /\ run[p].item \in Proposals
      BY <1>1, <2>1 DEF WriteJournal, CanWrite, CanApply, InHand, HasInHand
    <3> QED
      BY <1>5, <3>1
  <2> QED
    BY <1>1, <1>2, <2>1 DEF Reliance, Writing, dbs, disk
<1>8. Finishing(p)'
  BY <1>2, <1>3 DEF Finishing
<1> QED
  BY <1>1, <1>2, <1>4, <1>6, <1>7, <1>8, Alone, CustodyActs

LEMMA CustodyInstall ==
  ASSUME TypeOK, InHand, Held, Custody, NEW p \in Procs, Install(p)
  PROVE  Custody'
<1> USE DEF TypeOK
<1> DEFINE t == Tree(p)
           i == run[p].item
<1>1. /\ pc[p] = "install" /\ UNCHANGED <<dbs, journal, run>> /\ Goto(p, "commit")
      /\ file' = [file EXCEPT ![t][i] = "exact"]
      /\ installed' = [installed EXCEPT ![i] = @ \cup {t}]
  BY DEF Install, SetFile
<1>2. journal # NoJournal /\ journal.tree = t /\ journal.item = i /\ ~ run[p].last /\ t \in Trees
  BY <1>1, Basics DEF Held, Orderly, OwnJournal, OwnIndex, Writing
<1>3. shared.prop[i] = "approved" /\ installed[i] = {}
  BY <1>1 DEF Custody, Reliance
<1> HIDE DEF t, i
<1>4. \A k \in Proposals : installed'[k] = IF k = i THEN {t} ELSE installed[k]
  BY <1>1, <1>3 DEF TypeFiles
<1>5. \A u \in Trees, k \in Proposals :
        file'[u][k] = IF u = t /\ k = i THEN "exact" ELSE file[u][k]
  BY <1>1, <1>2 DEF TypeFiles
<1>6. ASSUME NEW k \in Proposals
      PROVE  FileAccounted(k, installed'[k], file', shared.prop[k], journal)
  <2>1. CASE k = i
    BY <1>2, <1>3, <1>4, <1>5, <2>1 DEF FileAccounted
  <2>2. CASE k # i
    <3>1. \A u \in installed[k] : u \in Trees
      BY DEF TypeFiles
    <3>2. FileAccounted(k, installed[k], file, shared.prop[k], journal)
      BY DEF Custody, FilesAccounted
    <3> QED
      BY <1>4, <1>5, <2>2, <3>1, <3>2 DEF FileAccounted
  <2> QED
    BY <2>1, <2>2
<1>7. FilesAccounted'
  BY <1>1, <1>6 DEF FilesAccounted, dbs
<1>8. IndexesAccounted'
  BY <1>1, IndexesSame DEF Custody, dbs
<1> QED
  BY <1>1, <1>2, <1>7, <1>8, CustodyElse DEF Settling

(* The commit puts the marker and the item into the writer's index.         *)
LEMMA CustodyCommit ==
  ASSUME TypeOK, InHand, Held, Custody, NEW p \in Procs, Commit(p)
  PROVE  Custody'
<1> USE DEF TypeOK
<1> DEFINE x == IF run[p].op = "apply" THEN WithApplied(Mine(p), run[p].item, run[p].seen.op)
                ELSE WithRecord(Mine(p), run[p].item, run[p].seen.op)
<1>1. /\ pc[p] = "commit" /\ UNCHANGED <<shared, live, disk, journal>> /\ ToLast(p)
      /\ SetIndex(Tree(p), run[p].index, x)
  BY DEF Commit
<1>2. /\ journal \in Journal /\ run[p].seen = journal /\ journal # NoJournal
      /\ journal.tree = Tree(p) /\ journal.item = run[p].item
  BY <1>1 DEF Held, Orderly, OwnJournal, Writing, TypeFiles
<1>3. run[p].index = live[Tree(p)] /\ live[Tree(p)] # Nothing /\ Tree(p) \in Trees
  <2>1. run[p].op # "rebuild"
    BY <1>1 DEF InHand, HasInHand
  <2> QED
    BY <1>1, <2>1, Basics DEF Held, Orderly, OwnIndex
<1>4. Mine(p) = Live(Tree(p)) /\ Mine(p) \in Index
  BY <1>3 DEF Mine, Live, TypeDbs
<1>5. Accounted(x, Tree(p), shared, journal) /\ journal.op \in x.markers
  <2>1. Accounted(Mine(p), journal.tree, shared, journal)
    BY <1>2, <1>3, <1>4 DEF Custody, IndexesAccounted
  <2> QED
    BY <1>2, <1>4, <2>1, WriteAccounted
<1> HIDE DEF x
<1>6. IndexesAccounted'
  BY <1>1, <1>5, IndexesWritten DEF Custody
<1>7. FilesAccounted'
  BY <1>1, FilesStay DEF Custody
<1>8. index'[Tree(p)][live[Tree(p)]] = x
  BY <1>1, <1>3 DEF SetIndex, TypeDbs
<1>9. Reliance(p)'
  BY <1>1, LastTells DEF Reliance
<1>10. Finishing(p)'
  BY <1>1, <1>2, <1>5, <1>8, LastTells DEF Finishing, Live, Tree
<1> QED
  BY <1>1, <1>6, <1>7, <1>9, <1>10, LastTells, Alone, CustodyActs

LEMMA CustodyRebuild ==
  ASSUME TypeOK, Held, Custody, NEW p \in Procs,
         Snapshot(p) \/ RemoveIndex(p) \/ CreateIndex(p) \/ ImportRecords(p)
  PROVE  Custody'
<1> USE DEF TypeOK
<1>0. run[p] \in Run /\ Tree(p) \in Trees
  BY Basics DEF TypeProcs
<1>1. CASE Snapshot(p)
  <2>1. /\ pc[p] = "body" /\ Goto(p, "remove") /\ UNCHANGED <<dbs, disk, journal>>
        /\ run'[p].last = run[p].last /\ run'[p].op = "rebuild"
    BY <1>0, <1>1 DEF Snapshot, Note, TypeProcs, Run
  <2> QED
    BY <2>1, IndexesSame, FilesStay, CustodyElse DEF Custody, Settling, dbs
<1>2. CASE RemoveIndex(p)
  <2>1. pc[p] = "remove" /\ Goto(p, "create") /\ UNCHANGED <<shared, disk, journal, run>>
    BY <1>2 DEF RemoveIndex
  <2>2. run[p].op = "rebuild"
    BY <2>1 DEF Held, Orderly, OwnIndex, Rebuilding
  <2>3. IndexesAccounted'
    BY <1>0, <1>2, <2>1, IndexesUnlinked DEF RemoveIndex, Custody
  <2> QED
    BY <2>1, <2>2, <2>3, FilesStay, CustodyElse DEF Custody, Settling
<1>3. CASE CreateIndex(p)
  <2> DEFINE g == made[Tree(p)] + 1
  <2>1. /\ pc[p] = "create" /\ Goto(p, "import") /\ UNCHANGED <<shared, disk, journal>>
        /\ live' = [live EXCEPT ![Tree(p)] = g] /\ index' = [index EXCEPT ![Tree(p)][g] = EmptyIndex]
        /\ run'[p].op = run[p].op /\ g \in Indexes
    BY <1>0, <1>3 DEF CreateIndex, SetIndex, Note, TypeProcs, Run
  <2>2. run[p].op = "rebuild"
    BY <2>1 DEF Held, Orderly, OwnIndex, Rebuilding
  <2> HIDE DEF g
  <2>3. ASSUME NEW t \in Trees, live'[t] # Nothing
        PROVE  Accounted(index'[t][live'[t]], t, shared, journal)
    <3>1. CASE t = Tree(p)
      <4>1. index'[t][live'[t]] = EmptyIndex
        BY <2>1, <3>1 DEF TypeDbs
      <4> QED
        BY <4>1, EmptyAccounted
    <3>2. CASE t # Tree(p)
      <4>1. live'[t] = live[t] /\ index'[t] = index[t]
        BY <2>1, <3>2 DEF TypeDbs
      <4> QED
        BY <2>3, <4>1 DEF Custody, IndexesAccounted, Live
    <3> QED
      BY <3>1, <3>2
  <2>4. IndexesAccounted'
    BY <2>1, <2>3 DEF IndexesAccounted, Live
  <2> QED
    BY <2>1, <2>2, <2>4, FilesStay, CustodyElse DEF Custody, Settling
<1>4. CASE ImportRecords(p)
  <2>1. /\ pc[p] = "import" /\ ToLast(p) /\ UNCHANGED <<shared, live, disk, journal>>
        /\ SetIndex(Tree(p), run[p].index, [Mine(p) EXCEPT !.canon = run[p].snapshot])
    BY <1>4 DEF ImportRecords
  <2>2. run[p].op = "rebuild"
    BY <2>1 DEF Held, Orderly, OwnIndex, Rebuilding
  <2>3. ASSUME run[p].index = live[Tree(p)], live[Tree(p)] # Nothing
        PROVE  Accounted([Mine(p) EXCEPT !.canon = run[p].snapshot], Tree(p), shared, journal)
    <3>1. Mine(p) = Live(Tree(p)) /\ Mine(p) \in Index
      BY <1>0, <2>3 DEF Mine, Live, TypeDbs
    <3> QED
      BY <1>0, <2>3, <3>1, RestAccounted DEF Custody, IndexesAccounted
  <2>4. IndexesAccounted'
    BY <2>1, <2>3, IndexesWritten DEF Custody
  <2> QED
    BY <2>1, <2>2, <2>4, FilesStay, LastTells, CustodyElse DEF Custody, Settling
<1> QED
  BY <1>1, <1>2, <1>3, <1>4

LEMMA CustodyOperation ==
  ASSUME ~LockFreeReplay, TypeOK, InHand, DecisionsStand, Held, Custody, NEW p \in Procs, Operation(p)
  PROVE  Custody'
<1>1. CASE BodyEnds(p) \/ Finish(p)
  <2>1. pc[p] # "idle" /\ Goto(p, "idle") /\ UNCHANGED <<dbs, disk, journal>>
    BY <1>1 DEF BodyEnds, Finish
  <2> QED
    BY <2>1, IndexesSame, FilesStay, CustodyEnds DEF Custody, TypeOK, dbs
<1>2. CASE Decide(p)
  <2>1. /\ pc[p] = "body" /\ Goto(p, "decide") /\ UNCHANGED <<dbs, disk, journal>>
        /\ UNCHANGED run /\ run[p].op \notin {"apply", "capture"}
    BY <1>2 DEF Decide, Stays
  <2> QED
    BY <2>1, IndexesSame, FilesStay, CustodyElse DEF Custody, Settling, TypeOK, dbs
<1> QED
  BY <1>1, <1>2, CustodyMirror, CustodyDecide, CustodyWrite, CustodyInstall, CustodyCommit,
     CustodyRebuild DEF Operation

(* What is done to the files from outside leaves every reliance standing:   *)
(* fewer files wait for a journal, and an index that goes takes its markers *)
(* with it.                                                                 *)
LEMMA CustodyDisturb ==
  ASSUME Guarded, TypeOK, Held, Custody, Disturb
  PROVE  Custody'
<1> USE DEF TypeOK
<1>1. ASSUME NEW p \in Procs, Fault(p) PROVE Custody'
  <2>1. /\ pc[p] # "idle" /\ Goto(p, "idle") /\ UNCHANGED <<dbs, journal>> /\ RollBackFile(p)
    BY <1>1 DEF Fault, Quit
  <2>2. FilesAccounted'
    <3>1. CASE UNCHANGED disk
      BY <2>1, <3>1, FilesStay DEF Custody, dbs
    <3>2. CASE ~ UNCHANGED disk
      <4>1. /\ SetFile(Tree(p), run[p].item, "none") /\ Forget(Tree(p), run[p].item)
            /\ run[p].op = "apply"
        BY <2>1, <3>2 DEF RollBackFile
      <4>2. run[p].item \in Proposals \/ UNCHANGED disk
        BY <4>1 DEF SetFile, Forget, TypeFiles, disk
      <4> QED
        BY <2>1, <3>2, <4>1, <4>2, Basics, FileTouched DEF Custody, dbs
    <3> QED
      BY <3>1, <3>2
  <2> QED
    BY <2>1, <2>2, IndexesSame, CustodyEnds DEF Custody, dbs
<1>2. ASSUME NEW p \in Procs, Crash(p) PROVE Custody'
  <2>1. /\ pc[p] # "idle" /\ Goto(p, "idle") /\ UNCHANGED <<dbs, disk, journal>>
    BY <1>2 DEF Crash
  <2> QED
    BY <2>1, IndexesSame, FilesStay, CustodyEnds DEF Custody, dbs
<1>3. ASSUME NEW t \in Trees, NEW i \in Proposals, Edit(t, i) PROVE Custody'
  <2>1. UNCHANGED <<dbs, journal, pc, run>> /\ Forget(t, i) /\ \E content \in File : SetFile(t, i, content)
    BY <1>3 DEF Edit
  <2>2. FilesAccounted' /\ \A k \in Proposals : installed'[k] \subseteq installed[k]
    BY <2>1, FileTouched DEF Custody, dbs
  <2>3. IndexesAccounted'
    BY <2>1, IndexesSame DEF Custody, dbs
  <2>4. ASSUME NEW p \in Procs PROVE Reliance(p)' /\ Finishing(p)'
    <3>1. Reliance(p) /\ Finishing(p)
      BY DEF Custody
    <3>2. ASSUME NEW k, installed[k] = {} PROVE installed'[k] = {}
      BY <2>1, <2>2, <3>2 DEF Forget, TypeFiles
    <3>3. Reliance(p)'
      BY <2>1, <3>1, <3>2 DEF Reliance, Shares, Live, IsApply, dbs
    <3>4. Finishing(p)'
      BY <2>1, <3>1 DEF Finishing, Shares, Live, Tree, dbs
    <3> QED
      BY <3>3, <3>4
  <2> QED
    BY <2>2, <2>3, <2>4 DEF Custody
<1>4. ASSUME NEW t \in Trees, DeleteIndex(t) PROVE Custody'
  <2>1. /\ UNCHANGED <<shared, disk, journal, pc, run>> /\ Unlink(t)
        /\ \A p \in Procs : Tree(p) = t => pc[p] = "idle"
    BY <1>4 DEF DeleteIndex
  <2>2. IndexesAccounted' /\ FilesAccounted'
    BY <2>1, IndexesUnlinked, FilesStay DEF Custody
  <2>3. \A u \in Trees : u # t => live'[u] = live[u] /\ index'[u] = index[u]
    BY <2>1 DEF Unlink, TypeDbs
  <2>4. live'[t] = Nothing
    BY <2>1 DEF Unlink, TypeDbs
  <2>5. ASSUME NEW p \in Procs PROVE Reliance(p)'
    <3>1. pc[p] = "drop" => journal.tree \in Trees
      BY DEF Held, Orderly, OwnJournal, Settling, TypeFiles, Journal
    <3>2. ASSUME pc[p] = "drop", live'[journal.tree] # Nothing
          PROVE  journal.op \notin Live(journal.tree)'.markers
      <4>1. journal.tree # t
        BY <2>4, <3>2
      <4> QED
        BY <2>1, <2>3, <3>1, <3>2, <4>1 DEF Custody, Reliance, Live
    <3> QED
      BY <2>1, <3>2 DEF Custody, Reliance, Shares, IsApply, disk
  <2>6. ASSUME NEW p \in Procs PROVE Finishing(p)'
    <3>1. CASE pc[p] = "idle"
      BY <2>1, <3>1 DEF Finishing
    <3>2. CASE pc[p] # "idle"
      <4>1. Live(Tree(p))' = Live(Tree(p))
        BY <2>1, <2>3, <3>2, Basics DEF Live, Tree
      <4> QED
        BY <2>1, <4>1 DEF Custody, Finishing, Shares, Tree
    <3> QED
      BY <3>1, <3>2
  <2> QED
    BY <2>2, <2>5, <2>6 DEF Custody
<1> QED
  BY <1>1, <1>2, <1>3, <1>4 DEF Disturb

LEMMA CustodyStep ==
  Guarded /\ TypeOK /\ InHand /\ DecisionsStand /\ Held /\ Custody /\ [Next]_vars => Custody'
<1> SUFFICES ASSUME Guarded, TypeOK, InHand, DecisionsStand, Held, Custody, [Next]_vars PROVE Custody'
  OBVIOUS
<1>0. ~LockFreeReplay
  BY DEF Guarded
<1>1. CASE UNCHANGED vars
  <2>1. UNCHANGED <<dbs, disk, journal, pc, run>>
    BY <1>1 DEF vars
  <2>2. \A q \in Procs : (Reliance(q) /\ Finishing(q))'
    BY <2>1 DEF Custody, Reliance, Finishing, Shares, Live, IsApply, Tree, dbs, disk
  <2> QED
    BY <2>1, <2>2, IndexesSame, FilesStay DEF Custody, dbs
<1> QED
  BY <1>0, <1>1, CustodyBegin, CustodyRecovery, CustodyOperation, CustodyDisturb DEF Next

LEMMA CustodyStart == Init => Custody
<1> SUFFICES ASSUME Init PROVE Custody
  OBVIOUS
<1>1. IndexesAccounted
  <2>1. ASSUME NEW t \in Trees
        PROVE  /\ Live(t).markers = {} /\ Live(t).recs = {}
               /\ \A i \in Proposals : Live(t).prop[i] = "none"
    BY Basics DEF Init, Live, EmptyIndex
  <2>2. ASSUME NEW t \in Trees PROVE Ahead(Live(t), shared) = {}
    BY <2>1 DEF Ahead
  <2> QED
    BY <2>1, <2>2 DEF IndexesAccounted, Accounted
<1>2. FilesAccounted
  BY DEF Init, FilesAccounted, FileAccounted
<1> QED
  BY <1>1, <1>2, Resting DEF Init, Custody

(* Every marker, every item an index is ahead by, and every file an apply   *)
(* created is accounted for at every step of an operation and of a recovery.*)
LEMMA CustodyHolds == Guarded => (Spec => [](TypeOK /\ InHand /\ DecisionsStand /\ Held /\ Custody))
<1> SUFFICES ASSUME Guarded PROVE Spec => [](TypeOK /\ InHand /\ DecisionsStand /\ Held /\ Custody)
  OBVIOUS
<1>1. TypeOK /\ InHand /\ DecisionsStand /\ Held /\ Custody /\ [Next]_vars => Custody'
  BY CustodyStep
<1>2. Spec => []Held
  BY OperationsAreHeld
<1> QED
  BY <1>1, <1>2, CustodyStart, AlwaysStanding, PTL DEF Spec

-------------------------------------------------------------------------------
(* A canonical file that apply_proposal created belongs to one worktree and *)
(* to a proposal that shared.db calls applied, or that the pending journal  *)
(* will make so: no other worktree can apply, and no reviewer reject, what  *)
(* is in the repository already.                                            *)
THEOREM FilesAreInstalledOnce == Guarded => (Spec => []InstalledOnce)
<1>1. Custody => InstalledOnce
  BY DEF Custody, FilesAccounted, FileAccounted, InstalledOnce
<1> QED
  BY <1>1, CustodyHolds, PTL

(* A commit marker in an index that a recovery would consult is the pending *)
(* journal's: none is left behind, to be read as the commit of another      *)
(* operation.                                                               *)
THEOREM MarkersAlwaysJournaled == Guarded => (Spec => []MarkersAreJournaled)
<1>1. Custody => MarkersAreJournaled
  BY DEF Custody, IndexesAccounted, Accounted, Live, MarkersAreJournaled
<1> QED
  BY <1>1, CustodyHolds, PTL

(* The index of a worktree is ahead of shared.db by nothing but what the    *)
(* pending journal will copy: the refresh, which makes the index equal to   *)
(* shared.db, never undoes a committed write.                               *)
THEOREM IndexNeverAhead == Guarded => (Spec => []IndexNotAhead)
<1>1. Custody => IndexNotAhead
  BY DEF Custody, IndexesAccounted, Accounted, Ahead, Live, IndexNotAhead
<1> QED
  BY <1>1, CustodyHolds, PTL

(* What an apply or a capture reported as done is in shared.db: the recovery *)
(* that ends the operation finds the operation's own journal and marker, and *)
(* copies the item before it lets the operation report.                      *)
THEOREM AckedAlwaysShared == Guarded => (Spec => []AckedIsShared)
<1> SUFFICES ASSUME Guarded PROVE Spec => []AckedIsShared
  OBVIOUS
<1> DEFINE Backed == \A i \in acked : Shares(i, shared)
<1>1. Init => Backed
  BY DEF Init
<1>2. ASSUME TypeOK, InHand, DecisionsStand, Held, Custody, Backed, [Next]_vars PROVE Backed'
  <2>1. \A i \in Proposals \cup Locals : Shares(i, shared) => Shares(i, shared')
    BY <1>2, StepForward DEF Forward, Shares, Guarded, OvertakenRejection
  <2>2. acked \subseteq Proposals \cup Locals
    BY <1>2 DEF TypeOK, TypeHistory
  <2>3. CASE UNCHANGED acked
    BY <1>2, <2>1, <2>2, <2>3 DEF Shares
  <2>4. ASSUME NEW p \in Procs, Finish(p) PROVE Backed'
    <3>1. /\ UNCHANGED shared
          /\ \/ acked' = acked
             \/ acked' = acked \cup {run[p].item} /\ run[p].op \in {"apply", "capture"}
      <4>1. UNCHANGED shared
        BY <2>4 DEF Finish, dbs
      <4>2. CASE run[p].op \in {"apply", "capture"}
        BY <2>4, <4>1, <4>2 DEF Finish
      <4>3. CASE run[p].op \notin {"apply", "capture"}
        BY <2>4, <4>1, <4>3 DEF Finish
      <4> QED
        BY <4>2, <4>3
    <3>2. run[p].op \in {"apply", "capture"} => Shares(run[p].item, shared)
      <4>1. run[p].last
        BY <1>2, <2>4 DEF Finish, Held, Orderly, OwnIndex
      <4> QED
        BY <1>2, <2>4, <4>1 DEF Finish, Custody, Finishing
    <3> QED
      BY <1>2, <3>1, <3>2 DEF Shares
  <2>5. UNCHANGED acked \/ \E p \in Procs : Finish(p)
    BY <1>2 DEF Next, Begin, Recovery, Operation, Disturb, OpenCurrent, OpenRefreshing, Close, Read,
       ReplayCapture, Rebuild, Command, Start, RecoverNothing, Recover, RecoverRefuse, RollForward,
       RollForwardRefuse, Share, ShareRefuse, Unmark, UnmarkRefuse, Drop, Mirror, Propose,
       Decide, SetStatus, WriteJournal, BodyEnds, Install, Commit, Snapshot, RemoveIndex, CreateIndex, ImportRecords,
       Fault, Crash, Quit, DeleteIndex, Edit, Stays, vars
  <2> QED
    BY <2>3, <2>4, <2>5
<1>3. Backed => AckedIsShared
  BY ItemAssumption DEF AckedIsShared, Shares
<1> QED
  BY <1>1, <1>2, <1>3, CustodyHolds, PTL DEF Spec
===============================================================================
