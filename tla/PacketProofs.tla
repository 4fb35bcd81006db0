------------------------------ MODULE PacketProofs ------------------------------
(***************************************************************************)
(* Theorems about PacketRoutes, for every number of worktrees, processes,  *)
(* candidates, copies, attempts and mishaps, and every mixture of routes.  *)
(***************************************************************************)
EXTENDS PacketRoutes, FiniteSetTheorems, TLAPS

-------------------------------------------------------------------------------
(* What a process is doing, by the label it is at.                         *)

Resolving   == {"move", "write", "install", "finish"}
Originating == {"journal", "create", "commit", "unjournal"}
Judging     == {"judge", "discard", "promote"}
Reviewing   == {"announce", "stage", "place", "own", "record"}
Settling    == {"complete", "clear", "undo", "disown", "retire"}
InHand == {"create", "stage", "place", "own", "complete", "clear", "undo"}
Labels == {"closed", "open", "opening", "recover", "drop", "plan"}
            \cup Resolving \cup Originating \cup Judging \cup Reviewing \cup Settling

Operation == [acts : Plans, at : 1..MaxAttempts, version : 1..MaxVersion, k : Nat,
              recovering : BOOLEAN]
Attempt == [plan : Plans, acts : Plans, at : 0..MaxAttempts, version : 1..MaxVersion, k : Nat,
            back : {"open", "closed"}, next : {"open", "plan"}, again : BOOLEAN,
            loaded : 0..MaxAttempts, mine : SUBSET Items]
Judged == [j : Journal]

(* The local variables of each process are those of what it is doing.      *)
JobFits(p) ==
    /\ at[p] \in Resolving => job[p] \in Resolutions
    /\ at[p] = "write" => job[p].k \in 1..Len(Writes(job[p].pk[1]))
    /\ at[p] \in Originating => job[p] \in Operation /\ route \in {"import", "session_end"}
    /\ at[p] = "drop" => job[p] \in Judged /\ route = "import"
    /\ at[p] \in Judging => job[p] \in Judged /\ route = "session_end"
    /\ at[p] \in {"plan"} \cup Reviewing \cup Settling => job[p] \in Attempt /\ route = "capture"
    /\ at[p] = "recover" => route = "import" \/ (route = "capture" /\ job[p] \in Attempt)
    /\ at[p] \in {"plan"} \cup Reviewing => job[p].at # 0
    /\ at[p] \in InHand => job[p].k \in Creates(job[p].acts)
    /\ at[p] \in {"recover"} \cup Settling /\ route = "capture" =>
            (job[p].next = "plan" => job[p].at # 0)

Frame ==
    /\ route \in {"manual", "import", "session_end", "capture"}
    /\ home \in [Procs -> Trees]
    /\ at \in [Procs -> Labels]
    /\ job = [p \in Procs |-> job[p]]

Typed == TypeOK /\ Frame /\ \A p \in Procs : JobFits(p)

-------------------------------------------------------------------------------
(* The moves of a process.                                                 *)

LEMMA GotoMoves ==
  ASSUME Frame, NEW p \in Procs, NEW label \in Labels, Goto(p, label)
  PROVE  /\ at' \in [Procs -> Labels] /\ at'[p] = label
         /\ \A q \in Procs \ {p} : at'[q] = at[q]
BY DEF Frame, Goto

LEMMA JobMoves ==
  ASSUME Frame, NEW p \in Procs, NEW j, job' = [job EXCEPT ![p] = j]
  PROVE  /\ job' = [q \in Procs |-> job'[q]] /\ job'[p] = j
         /\ \A q \in Procs \ {p} : job'[q] = job[q]
BY DEF Frame

LEMMA StepMoves ==
  ASSUME Frame, NEW p \in Procs, NEW k, NEW label \in Labels, Step(p, k, label)
  PROVE  /\ at' \in [Procs -> Labels] /\ at'[p] = label
         /\ job' = [q \in Procs |-> job'[q]] /\ job'[p] = [job[p] EXCEPT !.k = k]
         /\ \A q \in Procs \ {p} : at'[q] = at[q] /\ job'[q] = job[q]
         /\ lock' = lock
<1>1. job' = [job EXCEPT ![p] = [job[p] EXCEPT !.k = k]]
  BY DEF Step
<1> QED
  BY <1>1, GotoMoves, JobMoves DEF Step

LEMMA EnterMoves ==
  ASSUME Frame, NEW p \in Procs, NEW j, NEW label \in Labels, Enter(p, j, label)
  PROVE  /\ at' \in [Procs -> Labels] /\ at'[p] = label
         /\ job' = [q \in Procs |-> job'[q]] /\ job'[p] = j
         /\ \A q \in Procs \ {p} : at'[q] = at[q] /\ job'[q] = job[q]
         /\ lock = NoProc /\ lock' = p
BY GotoMoves, JobMoves DEF Enter

LEMMA LeaveMoves ==
  ASSUME Frame, NEW p \in Procs, NEW label \in Labels, Leave(p, label)
  PROVE  /\ at' \in [Procs -> Labels] /\ at'[p] = label
         /\ job' = [q \in Procs |-> job'[q]] /\ job'[p] = NoJob
         /\ \A q \in Procs \ {p} : at'[q] = at[q] /\ job'[q] = job[q]
         /\ lock' = IF lock = p THEN NoProc ELSE lock
BY GotoMoves, JobMoves DEF Leave

(* The fields a step to another candidate keeps.                           *)
LEMMA StepOperation ==
  ASSUME NEW j \in Operation, NEW k \in Nat
  PROVE  [j EXCEPT !.k = k] \in Operation
BY DEF Operation

LEMMA StepAttempt ==
  ASSUME NEW j \in Attempt, NEW k \in Nat
  PROVE  [j EXCEPT !.k = k] \in Attempt
BY DEF Attempt

LEMMA StepResolution ==
  ASSUME NEW j \in Resolutions, NEW k \in Nat
  PROVE  [j EXCEPT !.k = k] \in Resolutions
BY DEF Resolutions

LEMMA StepFields ==
  ASSUME NEW j, NEW k, j \in Operation \cup Attempt \cup Resolutions
  PROVE  LET i == [j EXCEPT !.k = k] IN
         /\ i.k = k
         /\ j \in Operation => i.acts = j.acts /\ i.at = j.at /\ i.version = j.version /\ i.recovering = j.recovering
         /\ j \in Attempt => /\ i.acts = j.acts /\ i.at = j.at /\ i.plan = j.plan /\ i.next = j.next
                             /\ i.back = j.back /\ i.again = j.again /\ i.loaded = j.loaded /\ i.mine = j.mine
         /\ j \in Resolutions => /\ i.pk = j.pk /\ i.outcome = j.outcome /\ i.seen = j.seen
                                 /\ i.prior = j.prior
BY DEF Operation, Attempt, Resolutions

LEMMA ItemsAreNumbers == Items \subseteq Nat \ {0}
BY ItemsAssumption, FS_CardinalityType

LEMMA EmptyPlan == <<>> \in Plans
BY DEF Plans

LEMMA SomeChange == Frame => \A i \in Items : ChangeOf(i) \in {"create", "supersede", "tombstone"}
BY ChangesAssumption DEF Frame, ChangeOf

LEMMA WritesTyped ==
  ASSUME Frame, NEW i \in Items
  PROVE  /\ Len(Writes(i)) \in Nat \ {0}
         /\ \A k \in 1..Len(Writes(i)) : Writes(i)[k][1] \in Records /\ Writes(i)[k][2] \in Statuses
<1>1. CASE ChangeOf(i) = "create"
  BY <1>1 DEF Writes, Records, Statuses
<1>2. CASE ChangeOf(i) = "supersede"
  BY <1>2 DEF Writes, Records, Statuses
<1>3. CASE ChangeOf(i) = "tombstone"
  BY <1>3 DEF Writes, Records, Statuses
<1> QED
  BY <1>1, <1>2, <1>3, SomeChange

-------------------------------------------------------------------------------
(* Type correctness.                                                       *)

LEMMA WritesStay == UNCHANGED setting => \A i : Writes(i)' = Writes(i)
BY DEF Writes, ChangeOf, setting

LEMMA OthersFit ==
  ASSUME Typed, NEW p \in Procs, UNCHANGED setting,
         \A q \in Procs \ {p} : at'[q] = at[q] /\ job'[q] = job[q],
         JobFits(p)'
  PROVE  \A q \in Procs : JobFits(q)'
<1> SUFFICES ASSUME NEW q \in Procs \ {p} PROVE JobFits(q)'
  OBVIOUS
<1>1. JobFits(q) /\ UNCHANGED <<route, at[q], job[q]>>
  BY DEF Typed, setting
<1>2. \A i : Writes(i)' = Writes(i)
  BY WritesStay
<1> QED
  BY <1>1, <1>2 DEF JobFits

LEMMA OriginsSame == TypeOrigins /\ UNCHANGED origins => TypeOrigins'
BY DEF TypeOrigins, origins

LEMMA CaptureSame == TypeCapture /\ UNCHANGED capture => TypeCapture'
BY DEF TypeCapture, capture

LEMMA StoreSame == TypeStore /\ UNCHANGED <<files, lock, cut, mishaps>> => TypeStore'
BY DEF TypeStore, files

LEMMA IdleFits ==
  ASSUME NEW p \in Procs, at'[p] \in {"closed", "open", "opening"}
  PROVE  JobFits(p)'
BY DEF JobFits, Resolving, Originating, Judging, Reviewing, Settling, InHand

(* A job of a resolution.                                                  *)
LEMMA ResolvingFits ==
  ASSUME NEW p \in Procs, NEW j \in Resolutions, UNCHANGED setting,
         at'[p] \in Resolving, job'[p] = j, at'[p] = "write" => j.k \in 1..Len(Writes(j.pk[1]))
  PROVE  JobFits(p)'
<1>1. (at[p] = "write" => job[p].k \in 1..Len(Writes(job[p].pk[1])))'
  BY WritesStay
<1> QED
  BY <1>1 DEF JobFits, Resolving, Originating, Judging, Reviewing, Settling, InHand

LEMMA ActTyped ==
  ASSUME Typed, NEW p \in Procs, UNCHANGED setting, TypeOK', JobFits(p)',
         at' \in [Procs -> Labels], job' = [q \in Procs |-> job'[q]],
         \A q \in Procs \ {p} : at'[q] = at[q] /\ job'[q] = job[q]
  PROVE  Typed'
BY OthersFit DEF Typed, Frame, setting

LEMMA LeaveTyped ==
  ASSUME Typed, NEW p \in Procs, NEW label \in {"closed", "open"}, Leave(p, label),
         UNCHANGED setting, TypeOK'
  PROVE  Typed'
<1>1. label \in Labels
  BY DEF Labels
<1> QED
  BY <1>1, LeaveMoves, IdleFits, ActTyped DEF Typed

LEMMA TypeResolution ==
  ASSUME Typed, NEW p \in Procs, Resolution(p) \/ FailResolution(p) \/ CrashInResolution(p),
         UNCHANGED <<origins, capture>>
  PROVE  Typed'
<1> USE DEF Typed
<1>0. TypeOrigins' /\ TypeCapture' /\ home[p] \in Trees
  BY OriginsSame, CaptureSame DEF TypeOK, Frame
<1>b. Frame /\ TypeStore
  BY DEF TypeOK
<1>c. ASSUME NEW label \in {"closed", "open"}, Leave(p, label), UNCHANGED setting, TypeStore'
      PROVE  Typed'
  BY <1>0, <1>c, LeaveTyped DEF TypeOK
<1>d. ASSUME NEW k \in Nat, NEW label \in Resolving, Step(p, k, label), job[p] \in Resolutions,
             label = "write" => k \in 1..Len(Writes(job[p].pk[1])), UNCHANGED setting, TypeStore'
      PROVE  Typed'
  <2>1. /\ at' \in [Procs -> Labels] /\ at'[p] = label
        /\ job' = [q \in Procs |-> job'[q]] /\ job'[p] = [job[p] EXCEPT !.k = k]
        /\ \A q \in Procs \ {p} : at'[q] = at[q] /\ job'[q] = job[q]
    BY <1>b, <1>d, StepMoves DEF Labels
  <2>2. job'[p] \in Resolutions /\ job'[p].k = k /\ job'[p].pk = job[p].pk
    BY <1>d, <2>1, StepResolution, StepFields
  <2>3. JobFits(p)'
    BY <1>d, <2>1, <2>2, ResolvingFits
  <2> QED
    BY <1>0, <1>d, <2>1, <2>3, ActTyped DEF TypeOK
<1>e. at[p] \in Resolving => job[p] \in Resolutions /\ job[p].pk[1] \in Items
  BY DEF JobFits, Resolutions, Packets
<1>1. ASSUME NEW pk \in Packets, NEW outcome_ \in {"applied", "rejected"}, Resolve(p, pk, outcome_)
      PROVE  Typed'
  <2> DEFINE j == [pk |-> pk, outcome |-> outcome_, seen |-> pending[home[p]][pk],
                   prior |-> record[home[p]], k |-> 1]
  <2>1. /\ Enter(p, j, "move") /\ UNCHANGED <<setting, files, cut, mishaps>>
        /\ pending[home[p]][pk] \in Readable
    BY <1>1 DEF Resolve
  <2>2. j \in Resolutions
    BY <1>0, <1>b, <2>1 DEF Resolutions, TypeStore
  <2>3. TypeStore'
    BY <1>b, <2>1, EnterMoves DEF TypeStore, files, Labels, Resolving
  <2> HIDE DEF j
  <2>4. JobFits(p)'
    BY <1>b, <2>1, <2>2, EnterMoves, ResolvingFits DEF Labels, Resolving
  <2> QED
    BY <1>0, <1>b, <2>1, <2>3, <2>4, EnterMoves, ActTyped DEF TypeOK, Labels, Resolving
<1>2. CASE MovePending(p)
  <2>1. CASE Leave(p, "open") /\ UNCHANGED pending
    BY <1>2, <1>b, <1>c, <2>1 DEF MovePending, TypeStore, Leave
  <2>2. CASE /\ pending' = [pending EXCEPT ![home[p]][job[p].pk] = "none"]
             /\ Step(p, 1, IF job[p].outcome = "applied" THEN "write" ELSE "install")
    <3>1. TypeStore'
      BY <1>2, <1>b, <2>2 DEF MovePending, TypeStore, Step
    <3> QED
      BY <1>2, <1>b, <1>d, <1>e, <2>2, <3>1, WritesTyped DEF MovePending, Resolving
  <2> QED
    BY <1>2, <2>1, <2>2 DEF MovePending
<1>3. CASE WriteRecord(p)
  <2> DEFINE writes == Writes(job[p].pk[1])
             k == job[p].k
             status == IF writes[k][2] = "active" /\ job[p].seen = "edited" THEN "amended"
                       ELSE writes[k][2]
  <2>1. /\ at[p] = "write" /\ UNCHANGED <<setting, pending, resolved, cut, mishaps>>
        /\ record' = [record EXCEPT ![home[p]][writes[k][1]] = status]
        /\ Step(p, k + 1, IF k < Len(writes) THEN "write" ELSE "install")
    BY <1>3 DEF WriteRecord
  <2>2. k \in 1..Len(writes) /\ Len(writes) \in Nat /\ writes[k][2] \in Statuses
    BY <1>b, <1>e, <2>1, WritesTyped DEF JobFits, Resolving
  <2>3. status \in Statuses
    BY <2>2 DEF Statuses
  <2> HIDE DEF status
  <2>4. TypeStore'
    BY <1>b, <2>1, <2>3 DEF TypeStore, Step
  <2> QED
    BY <1>d, <1>e, <2>1, <2>2, <2>4 DEF Resolving
<1>4. CASE InstallResolved(p)
  <2>1. job[p].outcome \in {"applied", "rejected"}
    BY <1>4, <1>e DEF InstallResolved, Resolving, Resolutions
  <2>2. TypeStore'
    BY <1>4, <1>b, <2>1 DEF InstallResolved, TypeStore, Step
  <2> QED
    BY <1>4, <1>d, <1>e, <2>2 DEF InstallResolved, Resolving
<1>5. CASE Finish(p)
  BY <1>5, <1>b, <1>c DEF Finish, TypeStore, Leave, files
<1>6. CASE FailResolution(p)
  <2>1. job[p] \in Resolutions
    BY <1>6, <1>e DEF FailResolution, Resolving
  <2>2. UNCHANGED files \/ Undo(p)
    BY <1>6 DEF FailResolution
  <2>3. /\ pending' \in [Trees -> [Packets -> {"none", "torn"} \cup Readable]]
        /\ resolved' \in [Trees -> [Packets -> {"none", "applied", "rejected"}]]
        /\ record' \in [Trees -> [Records -> Statuses]]
    <3>1. CASE UNCHANGED files
      BY <1>b, <3>1 DEF TypeStore, files
    <3>2. CASE Undo(p)
      <4>1. job[p].prior \in [Records -> Statuses] /\ job[p].seen \in Readable
        BY <2>1 DEF Resolutions
      <4>2. record' \in [Trees -> [Records -> Statuses]]
        BY <1>b, <3>2, <4>1 DEF Undo, TypeStore
      <4>3. pending' \in [Trees -> [Packets -> {"none", "torn"} \cup Readable]]
        BY <1>b, <3>2, <4>1 DEF Undo, TypeStore
      <4>4. resolved' \in [Trees -> [Packets -> {"none", "applied", "rejected"}]]
        BY <1>b, <3>2 DEF Undo, TypeStore
      <4> QED
        BY <4>2, <4>3, <4>4
    <3> QED
      BY <2>2, <3>1, <3>2
  <2>4. lock' \in Procs \cup {NoProc} /\ mishaps' \in Nat /\ UNCHANGED cut
    BY <1>6, <1>b DEF FailResolution, Mishap, TypeStore, Leave
  <2>5. TypeStore'
    BY <1>b, <2>3, <2>4 DEF TypeStore
  <2> QED
    BY <1>6, <1>c, <2>5 DEF FailResolution
<1>7. CASE CrashInResolution(p)
  <2>1. job[p] \in Resolutions
    BY <1>7, <1>e DEF CrashInResolution, Resolving
  <2>2. TypeStore'
    BY <1>7, <1>0, <1>b, <2>1 DEF CrashInResolution, Mishap, TypeStore, Leave, files, Resolutions
  <2> QED
    BY <1>7, <1>c, <2>2 DEF CrashInResolution
<1> QED
  BY <1>1, <1>2, <1>3, <1>4, <1>5, <1>6, <1>7 DEF Resolution

(* Jobs of the origin routes.                                              *)
LEMMA OriginatingFits ==
  ASSUME NEW p \in Procs, NEW j \in Operation, job'[p] = j, at'[p] \in Originating,
         route' \in {"import", "session_end"}, at'[p] = "create" => j.k \in Creates(j.acts)
  PROVE  JobFits(p)'
BY DEF JobFits, Resolving, Originating, Judging, Reviewing, Settling, InHand

LEMMA JudgingFits ==
  ASSUME NEW p \in Procs, job'[p] \in Judged,
         \/ at'[p] = "drop" /\ route' = "import"
         \/ at'[p] \in Judging /\ route' = "session_end"
  PROVE  JobFits(p)'
BY DEF JobFits, Resolving, Originating, Judging, Reviewing, Settling, InHand

LEMMA ImportFits ==
  ASSUME NEW p \in Procs, at'[p] = "recover", route' = "import"
  PROVE  JobFits(p)'
BY DEF JobFits, Resolving, Originating, Judging, Reviewing, Settling, InHand

LEMMA ActsArePlans ==
  ASSUME NEW batch \in Batches \cup {Items}, NEW acts \in [batch -> Acts]
  PROVE  acts \in Plans
BY BatchesAssumption DEF Plans

LEMMA PlanCreates ==
  ASSUME NEW acts \in Plans
  PROVE  /\ DOMAIN acts \subseteq Items /\ Creates(acts) \subseteq Items
         /\ \A i \in DOMAIN acts : acts[i] \in Acts
         /\ \A i \in Creates(acts) : acts[i] \in Copies
         /\ PacketsOf(acts) \subseteq Packets
BY DEF Plans, Creates, PacketsOf, Packets

LEMMA JournalTyped ==
  ASSUME NEW j \in Operation
  PROVE  JournalOf(j) \in Journal
BY DEF Operation, JournalOf, Journal

LEMMA RecordedTyped ==
  ASSUME TypeOrigins, NEW acts \in Plans, NEW time \in 0..MaxAttempts
  PROVE  Recorded(acts, time) \in [Items -> [kind : {"unseen", "created", "duplicate"},
                                             copy : {0} \cup Copies, at : 0..MaxAttempts]]
<1> SUFFICES ASSUME NEW i \in Items
             PROVE  Recorded(acts, time)[i] \in [kind : {"unseen", "created", "duplicate"},
                                               copy : {0} \cup Copies, at : 0..MaxAttempts]
  BY DEF Recorded
<1>1. CASE i \notin DOMAIN acts \/ acts[i] = Replayed
  <2>1. Recorded(acts, time)[i] = outcome[i]
    BY <1>1 DEF Recorded, Duplicate, Replayed
  <2> QED
    BY <2>1 DEF TypeOrigins
<1>2. CASE i \in DOMAIN acts /\ acts[i] = Duplicate
  BY <1>2 DEF Recorded, NoWrite, Duplicate, Replayed
<1>3. CASE i \in DOMAIN acts /\ acts[i] \notin {Replayed, Duplicate}
  <2>1. acts[i] \in Copies
    BY <1>3, PlanCreates DEF Acts
  <2>2. Recorded(acts, time)[i] = Created(acts[i], time)
    BY <1>3 DEF Recorded
  <2> QED
    BY <2>1, <2>2 DEF Created
<1> QED
  BY <1>1, <1>2, <1>3

LEMMA RemovedTyped ==
  ASSUME TypeStore, NEW t \in Trees, NEW pks, pending' = Removed(t, pks)
  PROVE  pending' \in [Trees -> [Packets -> {"none", "torn"} \cup Readable]]
BY DEF TypeStore, Removed

LEMMA TypeOriginStart ==
  ASSUME Typed, NEW p \in Procs, NEW batch \in Batches \cup {Items}, NEW acts \in [batch -> Acts],
         StartImport(p, acts) \/ StartPromotion(p, acts), UNCHANGED capture
  PROVE  Typed'
<1>0. TypeOK /\ Frame /\ attempts \in 0..MaxAttempts /\ checkpoint.version \in 1..MaxVersion
  BY DEF Typed, TypeOK, TypeOrigins
<1> DEFINE j == Begin(acts)
<1>1. j \in Operation
  BY <1>0, AttemptsAssumption, ActsArePlans DEF Begin, Operation, StartImport, StartPromotion
<1> HIDE DEF j
<1>2. PICK label \in {"journal", "commit"} : Enter(p, j, label)
  BY DEF StartImport, StartPromotion, j
<1>3. at' \in [Procs -> Labels] /\ JobFits(p)'
  BY <1>0, <1>1, <1>2, EnterMoves, OriginatingFits
     DEF Labels, Originating, StartImport, StartPromotion, setting
<1>4. TypeStore'
  BY <1>0, <1>2 DEF TypeOK, TypeStore, Enter, StartImport, StartPromotion, files
<1>5. TypeOrigins' /\ TypeCapture'
  BY <1>0, AttemptsAssumption, CaptureSame DEF TypeOK, TypeOrigins, StartImport, StartPromotion
<1>6. label \in Labels
  BY DEF Labels, Originating
<1> QED
  BY <1>0, <1>2, <1>3, <1>4, <1>5, <1>6, EnterMoves, ActTyped
     DEF TypeOK, StartImport, StartPromotion

(* A step of an operation that goes on.                                    *)
LEMMA OperationSteps ==
  ASSUME Typed, NEW p \in Procs, NEW k \in Nat, NEW label \in Originating, Step(p, k, label),
         at[p] \in Originating, label = "create" => k \in Creates(job[p].acts),
         UNCHANGED setting, TypeOK'
  PROVE  Typed'
<1>0. Frame /\ job[p] \in Operation /\ route \in {"import", "session_end"} /\ label \in Labels
  BY DEF Typed, JobFits, Labels
<1>1. /\ at' \in [Procs -> Labels] /\ at'[p] = label
      /\ job' = [q \in Procs |-> job'[q]] /\ job'[p] = [job[p] EXCEPT !.k = k]
      /\ \A q \in Procs \ {p} : at'[q] = at[q] /\ job'[q] = job[q]
  BY <1>0, StepMoves
<1>2. job'[p] \in Operation /\ job'[p].k = k /\ job'[p].acts = job[p].acts
  BY <1>0, <1>1, StepOperation, StepFields
<1>3. JobFits(p)'
  BY <1>0, <1>1, <1>2, OriginatingFits DEF setting
<1> QED
  BY <1>1, <1>3, ActTyped

LEMMA OperationStepsAfter ==
  ASSUME Typed, NEW p \in Procs, NEW k, NEW label \in Originating, StepAfter(p, k, label),
         at[p] \in Originating, UNCHANGED setting, TypeOK'
  PROVE  Typed'
BY OperationSteps, ItemsAreNumbers DEF StepAfter, IsNext

LEMMA TypeOrigination ==
  ASSUME Typed, NEW p \in Procs, UNCHANGED capture,
         WriteJournal(p) \/ CreatePacket(p) \/ Commit(p) \/ RemoveJournal(p) \/ MoveCheckpoint(p)
  PROVE  Typed'
<1>0. /\ Frame /\ TypeStore /\ TypeOrigins /\ TypeCapture' /\ home[p] \in Trees
      /\ at[p] \in Originating => job[p] \in Operation
      /\ Items \subseteq Nat
  BY CaptureSame, ItemsAreNumbers DEF Typed, TypeOK, Frame, JobFits
<1>1. CASE WriteJournal(p)
  <2>1. at[p] = "journal" /\ at[p] \in Originating
    BY <1>1 DEF WriteJournal, Originating
  <2>2. JournalOf(job[p]) \in Journal
    BY <1>0, <2>1, JournalTyped
  <2>3. TypeOrigins'
    BY <1>0, <1>1, <2>2 DEF WriteJournal, TypeOrigins
  <2>4. TypeOK'
    BY <1>0, <1>1, <2>3 DEF TypeOK, WriteJournal, TypeStore, files, StepAfter, Step, Leave
  <2> QED
    BY <1>0, <1>1, <2>1, <2>4, LeaveTyped, OperationStepsAfter DEF WriteJournal, Originating
<1>2. CASE CreatePacket(p)
  <2>1. at[p] \in Originating
    BY <1>2 DEF CreatePacket, Originating
  <2>2. TypeOK'
    BY <1>0, <1>2, OriginsSame DEF TypeOK, CreatePacket, TypeStore, StepAfter, Step, Readable
  <2> QED
    BY <1>0, <1>2, <2>1, <2>2, OperationSteps, OperationStepsAfter DEF CreatePacket, Originating
<1>3. CASE Commit(p)
  <2>1. at[p] \in Originating /\ job[p].acts \in Plans /\ job[p].at \in 0..MaxAttempts
    BY <1>0, <1>3 DEF Commit, Originating, Operation
  <2>2. TypeOrigins'
    <3>1. /\ outcome' = Recorded(job[p].acts, job[p].at)
          /\ checkpoint' = [checkpoint EXCEPT !.open = @ /\ route # "session_end"]
          /\ UNCHANGED <<journals, attempts, raced>>
      BY <1>3 DEF Commit
    <3>2. checkpoint' \in [open : BOOLEAN, version : 1..MaxVersion]
      BY <1>0, <3>1 DEF TypeOrigins
    <3> QED
      BY <1>0, <2>1, <3>1, <3>2, RecordedTyped DEF TypeOrigins
  <2>3. TypeOK'
    BY <1>0, <1>3, <2>2 DEF TypeOK, Commit, TypeStore, files, Step, Leave
  <2> QED
    BY <1>3, <2>1, <2>3, LeaveTyped, OperationSteps DEF Commit, Originating
<1>4. CASE RemoveJournal(p)
  <2>1. TypeOrigins'
    BY <1>0, <1>4 DEF RemoveJournal, TypeOrigins
  <2>2. TypeOK'
    BY <1>0, <1>4, <2>1 DEF TypeOK, RemoveJournal, TypeStore, files, Leave
  <2> QED
    BY <1>4, <2>2, LeaveTyped DEF RemoveJournal
<1>5. CASE MoveCheckpoint(p)
  <2>1. TypeOrigins'
    BY <1>0, <1>5, AttemptsAssumption DEF MoveCheckpoint, TypeOrigins
  <2>2. TypeOK'
    BY <1>0, <1>5, <2>1 DEF TypeOK, MoveCheckpoint, Mishap, TypeStore, files, procs
  <2>3. JobFits(p)'
    BY <1>5, IdleFits DEF MoveCheckpoint, procs
  <2> QED
    BY <1>0, <1>5, <2>2, <2>3, ActTyped DEF MoveCheckpoint, procs, Frame
<1> QED
  BY <1>1, <1>2, <1>3, <1>4, <1>5

LEMMA MishapTyped == TypeStore /\ Mishap => mishaps' \in Nat
BY DEF TypeStore, Mishap

LEMMA LockTyped ==
  ASSUME TypeStore, NEW p \in Procs, NEW label, Leave(p, label)
  PROVE  lock' \in Procs \cup {NoProc}
BY DEF TypeStore, Leave

LEMMA TypeOriginFailure ==
  ASSUME Typed, NEW p \in Procs, UNCHANGED capture,
         FailOperation(p) \/ FailLate(p) \/ CrashInOperation(p)
  PROVE  Typed'
<1>0. /\ Frame /\ TypeStore /\ TypeOrigins /\ TypeCapture' /\ home[p] \in Trees
  BY CaptureSame DEF Typed, TypeOK, Frame
<1>1. CASE FailOperation(p)
  <2>1. TypeOrigins'
    <3>1. journals' = journals \/ journals' = [journals EXCEPT ![home[p]] = @ \ {JournalOf(job[p])}]
      BY <1>1 DEF FailOperation
    <3> QED
      BY <1>0, <1>1, <3>1 DEF FailOperation, TypeOrigins
  <2>2. TypeStore'
    <3>1. PICK made : pending' = Removed(home[p], made)
      BY <1>1 DEF FailOperation
    <3>2. pending' \in [Trees -> [Packets -> {"none", "torn"} \cup Readable]]
      BY <1>0, <3>1, RemovedTyped
    <3> QED
      BY <1>0, <1>1, <3>2, MishapTyped, LockTyped DEF FailOperation, TypeStore
  <2> QED
    BY <1>0, <1>1, <2>1, <2>2, LeaveTyped DEF FailOperation, TypeOK
<1>2. CASE FailLate(p)
  <2>1. TypeOK'
    BY <1>0, <1>2, OriginsSame DEF TypeOK, FailLate, TypeStore, Mishap, Leave, files
  <2> QED
    BY <1>2, <2>1, LeaveTyped DEF FailLate
<1>3. CASE CrashInOperation(p)
  <2>1. TypeStore'
    <3>1. pending' \in [Trees -> [Packets -> {"none", "torn"} \cup Readable]]
      <4>1. CASE UNCHANGED pending
        BY <1>0, <4>1 DEF TypeStore
      <4>2. ASSUME NEW pk, pending' = [pending EXCEPT ![home[p]][pk] = "torn"]
            PROVE  pending' \in [Trees -> [Packets -> {"none", "torn"} \cup Readable]]
        BY <1>0, <4>2 DEF TypeStore
      <4> QED
        BY <1>3, <4>1, <4>2 DEF CrashInOperation
    <3> QED
      BY <1>0, <1>3, <3>1, MishapTyped, LockTyped DEF CrashInOperation, TypeStore
  <2>2. TypeOK'
    BY <1>0, <1>3, <2>1, OriginsSame DEF TypeOK, CrashInOperation
  <2> QED
    BY <1>3, <2>2, LeaveTyped DEF CrashInOperation
<1> QED
  BY <1>1, <1>2, <1>3

LEMMA TypeOriginRecovery ==
  ASSUME Typed, NEW p \in Procs, UNCHANGED capture,
         OriginRecovery(p) \/ OpenImport(p) \/ OpenSession(p)
  PROVE  Typed'
<1>0. /\ Frame /\ TypeStore /\ TypeOrigins /\ TypeCapture' /\ home[p] \in Trees
      /\ at[p] \in Judging \cup {"drop"} => job[p] \in Judged
  BY CaptureSame DEF Typed, TypeOK, Frame, JobFits
<1>a. ASSUME UNCHANGED <<setting, files, cut, mishaps, origins>>,
             lock' \in Procs \cup {NoProc}
      PROVE  TypeOK'
  BY <1>0, <1>a, OriginsSame DEF TypeOK, TypeStore, files
<1>b. ASSUME NEW j \in Journal, job' = [job EXCEPT ![p] = [j |-> j]], NEW label \in Labels,
             Goto(p, label), UNCHANGED setting, TypeOK',
             (label = "drop" /\ route = "import") \/ (label \in Judging /\ route = "session_end")
      PROVE  Typed'
  <2>1. [j |-> j] \in Judged
    BY DEF Judged
  <2>2. JobFits(p)'
    BY <1>0, <1>b, <2>1, GotoMoves, JobMoves, JudgingFits DEF setting
  <2> QED
    BY <1>0, <1>b, <2>2, GotoMoves, JobMoves, ActTyped
<1>c. ASSUME NEW label \in {"open", "opening"}, Goto(p, label), UNCHANGED <<setting, job>>, TypeOK'
      PROVE  Typed'
  <2>1. label \in Labels
    BY DEF Labels
  <2> QED
    BY <1>0, <1>c, <2>1, GotoMoves, IdleFits, ActTyped DEF Frame
<1>1. CASE OpenImport(p)
  <2>1. TypeOK'
    BY <1>0, <1>1, <1>a DEF OpenImport, TypeStore
  <2> QED
    BY <1>1, <1>c, <2>1 DEF OpenImport
<1>2. CASE AcquireToRecover(p)
  <2>1. TypeOK'
    BY <1>0, <1>2, <1>a DEF AcquireToRecover, Enter
  <2>2. Enter(p, NoJob, "recover") /\ UNCHANGED setting /\ route = "import" /\ "recover" \in Labels
    BY <1>2 DEF AcquireToRecover, Labels
  <2>3. JobFits(p)'
    BY <1>0, <2>2, EnterMoves, ImportFits DEF setting
  <2> QED
    BY <1>0, <2>1, <2>2, <2>3, EnterMoves, ActTyped
<1>3. CASE Recover(p)
  <2>1. CASE Leave(p, "open") /\ UNCHANGED outcome
    <3>1. TypeOK'
      BY <1>0, <1>3, <2>1, <1>a, LockTyped DEF Recover, origins
    <3> QED
      BY <1>3, <2>1, <3>1, LeaveTyped DEF Recover
  <2>2. CASE Leave(p, "closed") /\ UNCHANGED outcome
    <3>1. TypeOK'
      BY <1>0, <1>3, <2>2, <1>a, LockTyped DEF Recover, origins
    <3> QED
      BY <1>3, <2>2, <3>1, LeaveTyped DEF Recover
  <2>3. ASSUME NEW j \in journals[home[p]],
               outcome' = [i \in Items |-> IF \E pk \in Installed(home[p], j) : pk[1] = i
                                           THEN Created(j.acts[i], j.at) ELSE outcome[i]],
               job' = [job EXCEPT ![p] = [j |-> j]], Goto(p, "drop"), UNCHANGED lock
        PROVE  Typed'
    <3>1. j \in Journal /\ j.acts \in Plans /\ j.at \in 0..MaxAttempts
      BY <1>0 DEF TypeOrigins, Journal
    <3>2. \A pk \in Installed(home[p], j) : pk[1] \in Creates(j.acts)
      BY DEF Installed, PacketsOf
    <3>3. \A i \in Items : outcome'[i] \in [kind : {"unseen", "created", "duplicate"},
                                            copy : {0} \cup Copies, at : 0..MaxAttempts]
      BY <1>0, <2>3, <3>1, <3>2, PlanCreates DEF TypeOrigins, Created
    <3>4. TypeOrigins'
      BY <1>0, <1>3, <2>3, <3>3 DEF Recover, TypeOrigins
    <3>5. TypeStore'
      BY <1>0, <1>3, <2>3, StoreSame DEF Recover
    <3>6. route = "import" /\ UNCHANGED setting /\ "drop" \in Labels
      BY <1>3 DEF Recover, Labels
    <3> QED
      BY <1>0, <1>b, <2>3, <3>1, <3>4, <3>5, <3>6 DEF TypeOK
  <2> QED
    BY <1>3, <2>1, <2>2, <2>3 DEF Recover
<1>4. CASE DropJournal(p)
  <2>1. at[p] = "drop" /\ route = "import"
    BY <1>4 DEF DropJournal, Typed, JobFits
  <2>2. TypeOrigins'
    BY <1>0, <1>4 DEF DropJournal, TypeOrigins
  <2>3. TypeStore'
    BY <1>0, <1>4, StoreSame DEF DropJournal
  <2>4. Goto(p, "recover") /\ job' = [job EXCEPT ![p] = NoJob] /\ UNCHANGED setting
    BY <1>4 DEF DropJournal
  <2>5. JobFits(p)'
    BY <1>0, <2>1, <2>4, GotoMoves, ImportFits DEF Labels, setting
  <2> QED
    BY <1>0, <2>2, <2>3, <2>4, <2>5, GotoMoves, JobMoves, ActTyped DEF Labels, TypeOK
<1>5. CASE OpenSession(p)
  <2>1. TypeOK'
    BY <1>0, <1>5, <1>a DEF OpenSession, TypeStore
  <2>2. \A j \in journals[home[p]] : j \in Journal
    BY <1>0 DEF TypeOrigins
  <2> QED
    BY <1>5, <1>b, <1>c, <2>1, <2>2 DEF OpenSession, Judging, Labels
<1>6. CASE JudgeJournal(p)
  <2>0. at[p] \in Judging /\ job[p] \in Judged /\ route = "session_end"
    BY <1>6 DEF JudgeJournal, Judging, Typed, JobFits
  <2>1. CASE Leave(p, "closed")
    <3>1. TypeOK'
      BY <1>0, <1>6, <2>1, <1>a, LockTyped DEF JudgeJournal
    <3> QED
      BY <1>6, <2>1, <3>1, LeaveTyped DEF JudgeJournal
  <2>2. CASE ~ Leave(p, "closed")
    <3>1. PICK label \in Judging : Goto(p, label) /\ UNCHANGED <<lock, job>>
      BY <1>6, <2>2 DEF JudgeJournal, Verdict, Judging
    <3>2. TypeOK'
      BY <1>0, <1>6, <3>1, <1>a DEF JudgeJournal, TypeStore
    <3>3. at' \in [Procs -> Labels] /\ at'[p] = label /\ \A q \in Procs \ {p} : at'[q] = at[q]
      BY <1>0, <3>1, GotoMoves DEF Labels
    <3>4. JobFits(p)'
      BY <1>6, <2>0, <3>1, <3>3, JudgingFits DEF JudgeJournal, setting
    <3> QED
      BY <1>0, <1>6, <3>1, <3>2, <3>3, <3>4, ActTyped DEF JudgeJournal, Frame
  <2> QED
    BY <2>1, <2>2
<1>7. CASE DiscardJournal(p)
  <2>1. TypeOrigins'
    BY <1>0, <1>7 DEF DiscardJournal, TypeOrigins
  <2>2. TypeStore'
    BY <1>0, <1>7, LockTyped DEF DiscardJournal, TypeStore, files
  <2> QED
    BY <1>0, <1>7, <2>1, <2>2, LeaveTyped DEF DiscardJournal, TypeOK
<1>8. CASE RepeatPromotion(p)
  <2> DEFINE j == job[p].j
             promotion == [acts |-> j.acts, at |-> j.at, version |-> j.version, k |-> 1,
                           recovering |-> TRUE]
  <2>0. at[p] \in Judging /\ j \in Journal /\ route = "session_end" /\ UNCHANGED setting
    BY <1>0, <1>8 DEF RepeatPromotion, Judging, Judged, Typed, JobFits
  <2>1. CASE Leave(p, "closed")
    <3>1. TypeOK'
      BY <1>0, <1>8, <2>1, <1>a, LockTyped DEF RepeatPromotion
    <3> QED
      BY <2>0, <2>1, <3>1, LeaveTyped
  <2>2. CASE Enter(p, promotion, "commit")
    <3>1. promotion \in Operation
      BY <2>0 DEF Operation, Journal
    <3> HIDE DEF promotion
    <3>2. TypeOK'
      BY <1>0, <1>8, <2>2, <1>a DEF RepeatPromotion, Enter
    <3>3. at' \in [Procs -> Labels] /\ JobFits(p)'
      BY <1>0, <2>0, <2>2, <3>1, EnterMoves, OriginatingFits DEF Labels, Originating, setting
    <3> QED
      BY <1>0, <2>0, <2>2, <3>2, <3>3, EnterMoves, ActTyped DEF Labels, Originating
  <2> QED
    BY <1>8, <2>1, <2>2 DEF RepeatPromotion
<1> QED
  BY <1>1, <1>2, <1>3, <1>4, <1>5, <1>6, <1>7, <1>8 DEF OriginRecovery

LEMMA TypeServices ==
  ASSUME Typed, NEW p \in Procs, OpenManual(p) \/ GiveUp(p) \/ Close(p)
  PROVE  Typed'
<1>0. /\ Frame /\ TypeStore /\ TypeOrigins' /\ TypeCapture'
  BY OriginsSame, CaptureSame DEF Typed, TypeOK, OpenManual, GiveUp, Close
<1>1. TypeStore'
  BY <1>0, LockTyped, MishapTyped DEF OpenManual, GiveUp, Close, TypeStore, files
<1>2. CASE OpenManual(p)
  BY <1>0, <1>1, <1>2, GotoMoves, IdleFits, ActTyped DEF OpenManual, Labels, Frame, TypeOK
<1> QED
  BY <1>0, <1>1, <1>2, LeaveTyped DEF GiveUp, Close, TypeOK

LEMMA TypeEdit ==
  ASSUME Typed, NEW t \in Trees, NEW pk \in Packets, Edit(t, pk), UNCHANGED <<origins, capture>>
  PROVE  Typed'
<1>1. TypeOK'
  BY OriginsSame, CaptureSame, MishapTyped DEF Typed, TypeOK, TypeStore, Edit, Readable, procs
<1>2. \A p \in Procs : JobFits(p)'
  BY WritesStay DEF Typed, Edit, JobFits, procs, setting
<1> QED
  BY <1>1, <1>2 DEF Typed, Frame, Edit, procs, setting

(* The moves of the capture route.                                         *)
Capturing == {"plan", "recover"} \cup Reviewing \cup Settling

LEMMA AttemptFits ==
  ASSUME NEW p \in Procs, NEW j \in Attempt, job'[p] = j, route' = "capture", at'[p] \in Capturing,
         at'[p] \in {"plan"} \cup Reviewing => j.at # 0,
         at'[p] \in {"recover"} \cup Settling => (j.next = "plan" => j.at # 0),
         at'[p] \in InHand => j.k \in Creates(j.acts)
  PROVE  JobFits(p)'
BY DEF JobFits, Capturing, Resolving, Originating, Judging, Reviewing, Settling, InHand

LEMMA CapturingJob ==
  ASSUME Typed, NEW p \in Procs, route = "capture", at[p] \in Capturing
  PROVE  /\ job[p] \in Attempt /\ home[p] \in Trees
         /\ at[p] \in {"plan"} \cup Reviewing => job[p].at # 0
         /\ at[p] \in {"recover"} \cup Settling => (job[p].next = "plan" => job[p].at # 0)
         /\ at[p] \in InHand => job[p].k \in Creates(job[p].acts) /\ job[p].k \in Items
BY PlanCreates DEF Typed, Frame, JobFits, Capturing, Attempt

LEMMA AttemptSteps ==
  ASSUME Typed, NEW p \in Procs, route = "capture", at[p] \in Capturing, UNCHANGED setting, TypeOK',
         NEW k \in Nat, NEW label, Step(p, k, label),
         \/ at[p] \in {"plan"} \cup Reviewing /\ label \in Reviewing
         \/ at[p] \in {"recover"} \cup Settling /\ label \in Settling,
         label \in InHand => k \in Creates(job[p].acts)
  PROVE  Typed'
<1>0. Frame /\ job[p] \in Attempt /\ label \in Labels
  BY CapturingJob DEF Typed, Labels
<1>1. /\ at' \in [Procs -> Labels] /\ at'[p] = label
      /\ job' = [q \in Procs |-> job'[q]] /\ job'[p] = [job[p] EXCEPT !.k = k]
      /\ \A q \in Procs \ {p} : at'[q] = at[q] /\ job'[q] = job[q]
  BY <1>0, StepMoves
<1>2. /\ job'[p] \in Attempt /\ job'[p].k = k /\ job'[p].at = job[p].at /\ job'[p].acts = job[p].acts
      /\ job'[p].next = job[p].next
  BY <1>0, <1>1, StepAttempt, StepFields
<1>3. JobFits(p)'
  BY <1>1, <1>2, CapturingJob, AttemptFits DEF setting, Capturing, Reviewing, Settling
<1> QED
  BY <1>1, <1>3, ActTyped

LEMMA ToRecoveryTyped ==
  ASSUME Typed, NEW p \in Procs, route = "capture", at[p] \in Capturing, UNCHANGED setting, TypeOK',
         NEW again \in BOOLEAN, ToRecovery(p, again)
  PROVE  Typed'
<1>0. Frame /\ job[p] \in Attempt
  BY CapturingJob DEF Typed
<1> DEFINE j == [job[p] EXCEPT !.next = "open", !.again = again, !.k = 1]
<1>1. j \in Attempt /\ j.next = "open"
  BY <1>0 DEF Attempt
<1>2. job' = [job EXCEPT ![p] = j] /\ Goto(p, "recover")
  BY DEF ToRecovery
<1> HIDE DEF j
<1>3. at'[p] = "recover" /\ job'[p] = j
  BY <1>0, <1>2, GotoMoves, JobMoves DEF Labels
<1>4. JobFits(p)'
  BY <1>1, <1>3, AttemptFits DEF Capturing, setting, Reviewing, Settling, InHand
<1> QED
  BY <1>0, <1>2, <1>4, GotoMoves, JobMoves, ActTyped DEF Labels

LEMMA RefuseTyped ==
  ASSUME Typed, NEW p \in Procs, route = "capture", at[p] \in Capturing, UNCHANGED setting, TypeOK',
         Refuse(p)
  PROVE  Typed'
<1>0. job[p] \in Attempt
  BY CapturingJob
<1> QED
  BY <1>0, ToRecoveryTyped, LeaveTyped DEF Refuse, Attempt

LEMMA SettledTyped ==
  ASSUME Typed, NEW p \in Procs, route = "capture", at[p] \in {"recover"} \cup Settling,
         UNCHANGED setting, TypeOK', Settled(p)
  PROVE  Typed'
<1>0. /\ Frame /\ job[p] \in Attempt /\ at[p] \in Capturing
      /\ job[p].next = "plan" => job[p].at # 0
  BY CapturingJob DEF Typed, Capturing
<1>1. CASE job[p].next = "plan"
  <2> DEFINE j == [job[p] EXCEPT !.acts = job[p].plan, !.k = 1]
  <2>1. j \in Attempt /\ j.at = job[p].at
    BY <1>0 DEF Attempt
  <2>2. job' = [job EXCEPT ![p] = j] /\ Goto(p, "plan")
    BY <1>1 DEF Settled
  <2> HIDE DEF j
  <2>3. JobFits(p)'
    BY <1>0, <1>1, <2>1, <2>2, GotoMoves, JobMoves, AttemptFits
       DEF Labels, Capturing, setting, Reviewing, Settling, InHand
  <2> QED
    BY <1>0, <2>2, <2>3, GotoMoves, JobMoves, ActTyped DEF Labels
<1>2. CASE job[p].next # "plan"
  BY <1>0, <1>2, LeaveTyped DEF Settled, Attempt
<1> QED
  BY <1>1, <1>2

(* What these moves do to the lock.                                        *)
LEMMA CaptureLock ==
  ASSUME TypeStore, NEW p \in Procs, NEW k, NEW label,
         \/ Step(p, k, label) \/ StepAfter(p, k, label) \/ NextItem(p, label)
         \/ ToRecovery(p, k) \/ Refuse(p) \/ Settled(p) \/ Leave(p, label)
  PROVE  lock' \in Procs \cup {NoProc}
BY LockTyped DEF TypeStore, Step, StepAfter, NextItem, ToRecovery, Refuse, Settled

LEMMA FileTyped ==
  ASSUME TypeStore, NEW t \in Trees, NEW pk, NEW file \in {"none", "torn"} \cup Readable,
         pending' = [pending EXCEPT ![t][pk] = file]
  PROVE  pending' \in [Trees -> [Packets -> {"none", "torn"} \cup Readable]]
BY DEF TypeStore

LEMMA SetFileTyped ==
  ASSUME TypeStore, NEW t \in Trees, NEW p, NEW file \in {"none", "torn", "whole"},
         SetFile(t, p, file)
  PROVE  pending' \in [Trees -> [Packets -> {"none", "torn"} \cup Readable]]
BY FileTyped DEF SetFile, Readable

LEMMA SetStageTyped ==
  ASSUME TypeCapture, NEW t \in Trees, NEW p, NEW file \in {"none", "torn", "whole"},
         SetStage(t, p, file)
  PROVE  stage' \in [Trees -> [Items -> {"none", "torn", "whole"}]]
BY DEF SetStage, TypeCapture

LEMMA StepAfterTyped ==
  ASSUME Typed, NEW p \in Procs, route = "capture", at[p] \in Capturing, UNCHANGED setting, TypeOK',
         NEW k, NEW label, StepAfter(p, k, label),
         \/ at[p] \in {"plan"} \cup Reviewing /\ label \in Reviewing
         \/ at[p] \in {"recover"} \cup Settling /\ label \in Settling
  PROVE  Typed'
BY AttemptSteps, ItemsAreNumbers DEF StepAfter, IsNext

LEMMA NextItemTyped ==
  ASSUME Typed, NEW p \in Procs, route = "capture", UNCHANGED setting, TypeOK',
         NEW label, NextItem(p, label),
         \/ at[p] \in Reviewing /\ label \in Reviewing
         \/ at[p] \in Settling /\ label \in Settling
  PROVE  Typed'
BY StepAfterTyped DEF NextItem, Capturing

LEMMA TypeCaptureSteps ==
  ASSUME Typed, NEW p \in Procs,
         CheckPlan(p) \/ Announce(p) \/ StageOne(p) \/ Place(p) \/ Own(p) \/ Record(p)
  PROVE  Typed'
<1>0. /\ at[p] \in {"plan"} \cup Reviewing /\ at[p] \in Capturing
      /\ UNCHANGED setting
  BY DEF CheckPlan, Announce, StageOne, Place, Own, Record, Reviewing, Capturing
<1>1. /\ route = "capture" /\ job[p] \in Attempt /\ job[p].at # 0 /\ home[p] \in Trees
      /\ TypeStore /\ TypeOrigins /\ TypeCapture
      /\ at[p] \in InHand => job[p].k \in Creates(job[p].acts) /\ job[p].k \in Items
      /\ 1 \in Nat /\ job[p].k \in Nat
  BY <1>0, CapturingJob DEF Typed, JobFits, TypeOK, Attempt
<1>2. CASE CheckPlan(p)
  <2>1. TypeOK'
    BY <1>1, <1>2, StoreSame, OriginsSame, CaptureSame, CaptureLock DEF TypeOK, CheckPlan, TypeStore, files
  <2> QED
    BY <1>0, <1>1, <1>2, <2>1, LeaveTyped, AttemptSteps DEF CheckPlan, Reviewing, InHand
<1>3. CASE Announce(p)
  <2>1. JournalOf(job[p]) \in Journal
    BY <1>1 DEF JournalOf, Journal, Attempt
  <2>2. TypeOrigins'
    <3>1. journals' = journals \/ journals' = [journals EXCEPT ![home[p]] = {JournalOf(job[p])}]
      BY <1>3 DEF Announce
    <3> QED
      BY <1>1, <1>3, <2>1, <3>1 DEF Announce, TypeOrigins
  <2>3. TypeOK'
    BY <1>1, <1>3, <2>2, CaptureSame, CaptureLock DEF TypeOK, Announce, TypeStore, files
  <2> QED
    BY <1>0, <1>1, <1>3, <2>3, ToRecoveryTyped, StepAfterTyped DEF Announce, Reviewing
<1>4. CASE StageOne(p)
  <2>1. TypeCapture'
    BY <1>1, <1>4, SetStageTyped DEF StageOne, TypeCapture
  <2>2. TypeOK'
    BY <1>1, <1>4, <2>1, OriginsSame, CaptureLock DEF TypeOK, StageOne, TypeStore, files
  <2> QED
    BY <1>0, <1>1, <1>4, <2>2, NextItemTyped DEF StageOne, Reviewing
<1>5. CASE Place(p)
  <2>1. pending' \in [Trees -> [Packets -> {"none", "torn"} \cup Readable]]
    BY <1>1, <1>5, SetFileTyped DEF Place, TypeStore
  <2>2. TypeOK'
    BY <1>1, <1>5, <2>1, OriginsSame, CaptureSame, CaptureLock DEF TypeOK, Place, TypeStore
  <2> QED
    BY <1>0, <1>1, <1>5, <2>2, ToRecoveryTyped, AttemptSteps DEF Place, Reviewing, InHand
<1>6. CASE Own(p)
  <2>1. TypeCapture'
    BY <1>1, <1>6 DEF Own, Creating, TypeCapture, InHand
  <2>2. TypeOK'
    BY <1>1, <1>6, <2>1, OriginsSame, CaptureLock DEF TypeOK, Own, TypeStore, files
  <2> QED
    BY <1>0, <1>1, <1>6, <2>2, AttemptSteps, StepAfterTyped DEF Own, Reviewing, InHand
<1>7. CASE Record(p)
  <2>1. job[p].at \in 0..MaxAttempts /\ job[p].acts \in Plans
    BY <1>1 DEF Attempt
  <2>2. TypeOrigins'
    BY <1>1, <1>7, <2>1, RecordedTyped DEF Record, TypeOrigins
  <2>3. TypeCapture'
    BY <1>1, <1>7, <2>1 DEF Record, TypeCapture
  <2>4. TypeOK'
    BY <1>1, <1>7, <2>2, <2>3, CaptureLock DEF TypeOK, Record, TypeStore, files
  <2> QED
    BY <1>0, <1>1, <1>7, <2>4, ToRecoveryTyped, LeaveTyped DEF Record
<1> QED
  BY <1>2, <1>3, <1>4, <1>5, <1>6, <1>7

LEMMA TypeCaptureStart ==
  ASSUME Typed, NEW p \in Procs, NEW batch \in Batches, NEW acts \in [batch -> Acts],
         StartCapture(p, acts)
  PROVE  Typed'
<1>0. Frame /\ TypeOK /\ attempts \in 0..MaxAttempts /\ route = "capture" /\ UNCHANGED setting
  BY DEF Typed, TypeOK, TypeOrigins, StartCapture
<1> DEFINE j == Recovery(acts, attempts + 1, "open", "plan")
<1>1. j \in Attempt /\ j.at # 0 /\ attempts' \in 0..MaxAttempts
  BY <1>0, AttemptsAssumption, ActsArePlans DEF Recovery, Attempt, StartCapture
<1>2. Enter(p, j, "recover") \/ (job' = [job EXCEPT ![p] = j] /\ Goto(p, "recover") /\ UNCHANGED lock)
  BY DEF StartCapture
<1> HIDE DEF j
<1>3. /\ at' \in [Procs -> Labels] /\ at'[p] = "recover"
      /\ job' = [q \in Procs |-> job'[q]] /\ job'[p] = j
      /\ \A q \in Procs \ {p} : at'[q] = at[q] /\ job'[q] = job[q]
      /\ lock' \in Procs \cup {NoProc}
  BY <1>0, <1>2, EnterMoves, GotoMoves, JobMoves DEF Labels, TypeOK, TypeStore
<1>4. JobFits(p)'
  BY <1>0, <1>1, <1>3, AttemptFits DEF Capturing, Reviewing, Settling, InHand, setting
<1>5. TypeOK'
  BY <1>0, <1>1, <1>3, CaptureSame DEF TypeOK, TypeStore, TypeOrigins, StartCapture, files
<1> QED
  BY <1>0, <1>3, <1>4, <1>5, ActTyped

LEMMA TypeCaptureOpen ==
  ASSUME Typed, NEW p \in Procs, OpenCapture(p) \/ AcquireCapture(p)
  PROVE  Typed'
<1>0. /\ Frame /\ TypeStore /\ TypeOrigins' /\ TypeCapture' /\ UNCHANGED setting
      /\ route = "capture"
  BY OriginsSame, CaptureSame DEF Typed, TypeOK, OpenCapture, AcquireCapture
<1>1. CASE OpenCapture(p)
  <2>1. PICK label \in {"open", "opening"} : Goto(p, label)
    BY <1>1 DEF OpenCapture
  <2>2. TypeStore' /\ UNCHANGED job
    BY <1>0, <1>1, StoreSame DEF OpenCapture
  <2> QED
    BY <1>0, <2>1, <2>2, GotoMoves, IdleFits, ActTyped DEF Frame, Labels, TypeOK
<1>2. CASE AcquireCapture(p)
  <2> DEFINE j == Recovery(<<>>, 0, "closed", "open")
  <2>1. j \in Attempt /\ j.next = "open"
    BY EmptyPlan, AttemptsAssumption DEF Recovery, Attempt
  <2>2. Enter(p, j, "recover")
    BY <1>2 DEF AcquireCapture
  <2> HIDE DEF j
  <2>3. TypeStore'
    BY <1>0, <1>2, <2>2 DEF AcquireCapture, Enter, TypeStore, files
  <2>4. JobFits(p)'
    BY <1>0, <2>1, <2>2, EnterMoves, AttemptFits
       DEF Labels, Capturing, Reviewing, Settling, InHand, setting
  <2> QED
    BY <1>0, <2>2, <2>3, <2>4, EnterMoves, ActTyped DEF Labels, TypeOK
<1> QED
  BY <1>1, <1>2

LEMMA TypeRecoverCapture ==
  ASSUME Typed, NEW p \in Procs, RecoverCapture(p)
  PROVE  Typed'
<1>0. /\ Frame /\ TypeStore /\ TypeOrigins /\ TypeOrigins' /\ TypeCapture /\ TypeCapture'
      /\ UNCHANGED setting /\ route = "capture" /\ at[p] = "recover" /\ at[p] \in Capturing
      /\ UNCHANGED <<files, cut, mishaps>> /\ home[p] \in Trees
  BY OriginsSame, CaptureSame DEF Typed, TypeOK, Frame, RecoverCapture, Capturing
<1>1. job[p] \in Attempt /\ (job[p].next = "plan" => job[p].at # 0)
  BY <1>0, CapturingJob
<1>a. ASSUME lock' \in Procs \cup {NoProc} PROVE TypeOK'
  BY <1>0, <1>a DEF TypeOK, TypeStore, files
<1>2. CASE Refuse(p)
  BY <1>0, <1>2, <1>a, CaptureLock, RefuseTyped
<1>3. CASE Settled(p)
  BY <1>0, <1>3, <1>a, CaptureLock, SettledTyped
<1>4. ASSUME NEW j \in journals[home[p]], NEW i \in Items, IsNext(j.acts, 0, i),
             job' = [job EXCEPT ![p].acts = j.acts, ![p].loaded = j.at,
                                ![p].mine = owned[home[p]], ![p].k = i],
             NEW label \in {"complete", "undo"}, Goto(p, label), UNCHANGED lock
      PROVE  Typed'
  <2> DEFINE b == [job[p] EXCEPT !.acts = j.acts, !.loaded = j.at, !.mine = owned[home[p]], !.k = i]
  <2>0. j \in Journal
    BY <1>0 DEF TypeOrigins
  <2>1. /\ b \in Attempt /\ b.k = i /\ b.acts = j.acts /\ b.next = job[p].next /\ b.at = job[p].at
    <3>1. /\ j.acts \in Plans /\ j.at \in 0..MaxAttempts /\ owned[home[p]] \in SUBSET Items
          /\ i \in Nat
      BY <1>0, <2>0, ItemsAreNumbers, AttemptsAssumption DEF Journal, TypeCapture
    <3> QED
      BY <1>1, <3>1 DEF Attempt
  <2>2. job' = [job EXCEPT ![p] = b]
    BY <1>4
  <2> HIDE DEF b
  <2>3. label \in Labels /\ label \in Settling
    BY DEF Labels, Settling
  <2>4. at'[p] = label /\ job'[p] = b /\ route' = route
    BY <1>0, <1>4, <2>2, <2>3, GotoMoves, JobMoves DEF setting
  <2>5. i \in Creates(b.acts)
    BY <1>4, <2>1 DEF IsNext
  <2>6. JobFits(p)'
    BY <1>0, <1>1, <2>1, <2>3, <2>4, <2>5, AttemptFits DEF Capturing, Reviewing, Settling
  <2> QED
    BY <1>0, <1>4, <1>a, <2>2, <2>3, <2>6, GotoMoves, JobMoves, ActTyped DEF TypeStore
<1> QED
  BY <1>2, <1>3, <1>4 DEF RecoverCapture

LEMMA TypeSettling ==
  ASSUME Typed, NEW p \in Procs,
         Complete(p) \/ Clear(p) \/ UndoInstall(p) \/ Disown(p) \/ Retire(p)
  PROVE  Typed'
<1>0. at[p] \in Settling /\ at[p] \in Capturing /\ UNCHANGED setting
  BY DEF Complete, Clear, UndoInstall, Disown, Retire, Settling, Capturing
<1>1. /\ route = "capture" /\ job[p] \in Attempt /\ home[p] \in Trees /\ job[p].loaded \in 0..MaxAttempts
      /\ TypeStore /\ TypeOrigins /\ TypeCapture /\ 1 \in Nat
  BY <1>0, CapturingJob DEF Typed, JobFits, TypeOK, Attempt
<1>a. ASSUME TypeOK', Refuse(p) PROVE Typed'
  BY <1>0, <1>1, <1>a, RefuseTyped
<1>b. ASSUME TypeOK', NEW label \in Settling, NextItem(p, label) PROVE Typed'
  BY <1>0, <1>1, <1>b, NextItemTyped
<1>2. CASE Complete(p)
  <2>1. pending' \in [Trees -> [Packets -> {"none", "torn"} \cup Readable]]
    <3>1. UNCHANGED pending \/ SetFile(home[p], p, "whole")
      BY <1>2 DEF Complete
    <3> QED
      BY <1>1, <3>1, SetFileTyped DEF TypeStore
  <2>2. Refuse(p) \/ NextItem(p, "clear")
    BY <1>2 DEF Complete
  <2>3. TypeOK'
    BY <1>1, <1>2, <2>1, <2>2, OriginsSame, CaptureSame, CaptureLock DEF TypeOK, Complete, TypeStore
  <2> QED
    BY <1>a, <1>b, <2>2, <2>3 DEF Settling
<1>3. CASE Clear(p)
  <2>1. stage' \in [Trees -> [Items -> {"none", "torn", "whole"}]]
    BY <1>1, <1>3, SetStageTyped DEF Clear, TypeCapture
  <2>2. Refuse(p) \/ NextItem(p, "disown")
    BY <1>3 DEF Clear
  <2>3. TypeOK'
    BY <1>1, <1>3, <2>1, <2>2, OriginsSame, CaptureLock DEF TypeOK, Clear, TypeStore, TypeCapture, files
  <2> QED
    BY <1>a, <1>b, <2>2, <2>3 DEF Settling
<1>4. CASE UndoInstall(p)
  <2>1. stage' \in [Trees -> [Items -> {"none", "torn", "whole"}]]
    BY <1>1, <1>4, SetStageTyped DEF UndoInstall, TypeCapture
  <2>2. Refuse(p) \/ NextItem(p, "disown")
    BY <1>4 DEF UndoInstall
  <2>3. pending' \in [Trees -> [Packets -> {"none", "torn"} \cup Readable]]
    <3>1. UNCHANGED pending \/ SetFile(home[p], p, "none")
      BY <1>4 DEF UndoInstall, SetFile
    <3> QED
      BY <1>1, <3>1, SetFileTyped DEF TypeStore
  <2>4. TypeOK'
    BY <1>1, <1>4, <2>1, <2>2, <2>3, OriginsSame, CaptureLock DEF TypeOK, UndoInstall, TypeStore, TypeCapture
  <2> QED
    BY <1>a, <1>b, <2>2, <2>4 DEF Settling
<1>5. CASE Disown(p)
  <2>1. TypeCapture'
    BY <1>1, <1>5 DEF Disown, TypeCapture
  <2>2. TypeOK'
    BY <1>1, <1>5, <2>1, OriginsSame, CaptureLock DEF TypeOK, Disown, TypeStore, files
  <2> QED
    BY <1>0, <1>1, <1>5, <1>a, <2>2, AttemptSteps DEF Disown, Settling, InHand
<1>6. CASE Retire(p)
  <2>1. TypeOrigins'
    <3>1. UNCHANGED journals \/ journals' = [journals EXCEPT ![home[p]] = {}]
      BY <1>6 DEF Retire
    <3> QED
      BY <1>1, <1>6, <3>1 DEF Retire, TypeOrigins
  <2>2. TypeCapture'
    <3>1. UNCHANGED marker \/ \E m \in {0, marker[home[p]]} : marker' = [marker EXCEPT ![home[p]] = m]
      BY <1>6 DEF Retire
    <3>2. {0, marker[home[p]]} \subseteq 0..MaxAttempts
      BY <1>1, AttemptsAssumption DEF TypeCapture
    <3> QED
      BY <1>1, <1>6, <3>1, <3>2 DEF Retire, TypeCapture
  <2>3. TypeOK'
    BY <1>1, <1>6, <2>1, <2>2, CaptureLock DEF TypeOK, Retire, TypeStore, files
  <2> QED
    BY <1>0, <1>1, <1>6, <1>a, <2>3, SettledTyped DEF Retire
<1> QED
  BY <1>2, <1>3, <1>4, <1>5, <1>6

LEMMA TypeCaptureFailure ==
  ASSUME Typed, NEW p \in Procs, FailCapture(p) \/ CrashInCapture(p)
  PROVE  Typed'
<1>0. /\ TypeStore /\ TypeOrigins /\ TypeOrigins' /\ TypeCapture /\ UNCHANGED setting
      /\ home[p] \in Trees
  BY OriginsSame DEF Typed, TypeOK, Frame, FailCapture, CrashInCapture
<1>1. CASE FailCapture(p)
  <2>1. route = "capture" /\ at[p] \in Capturing
    BY <1>1 DEF FailCapture, Typed, JobFits, Capturing, Reviewing, Settling
  <2>2. ToRecovery(p, FALSE) \/ Refuse(p)
    BY <1>1 DEF FailCapture
  <2>3. TypeOK'
    BY <1>0, <1>1, <2>2, CaptureSame, CaptureLock, MishapTyped DEF FailCapture, TypeOK, TypeStore, files
  <2> QED
    BY <1>0, <2>1, <2>2, <2>3, ToRecoveryTyped, RefuseTyped
<1>2. CASE CrashInCapture(p)
  <2>1. pending' \in [Trees -> [Packets -> {"none", "torn"} \cup Readable]]
    <3>1. UNCHANGED pending \/ SetFile(home[p], p, "torn")
      BY <1>2 DEF CrashInCapture
    <3> QED
      BY <1>0, <3>1, SetFileTyped DEF TypeStore
  <2>2. stage' \in [Trees -> [Items -> {"none", "torn", "whole"}]]
    <3>1. UNCHANGED stage \/ SetStage(home[p], p, "torn")
      BY <1>2 DEF CrashInCapture
    <3> QED
      BY <1>0, <3>1, SetStageTyped DEF TypeCapture
  <2>3. TypeOK'
    BY <1>0, <1>2, <2>1, <2>2, LockTyped, MishapTyped DEF CrashInCapture, TypeOK, TypeStore, TypeCapture
  <2> QED
    BY <1>0, <1>2, <2>3, LeaveTyped DEF CrashInCapture
<1> QED
  BY <1>1, <1>2

(* Which step a step is: one process's, or an edit.                        *)
Store(p) ==
    (Resolution(p) \/ FailResolution(p) \/ CrashInResolution(p)) /\ UNCHANGED <<origins, capture>>
Originate(p) ==
    /\ OpenImport(p) \/ OpenSession(p) \/ OriginRecovery(p) \/ Origination(p)
       \/ FailOperation(p) \/ FailLate(p) \/ CrashInOperation(p)
    /\ UNCHANGED capture
Captures(p) ==
    OpenCapture(p) \/ CaptureRecovery(p) \/ Capture(p) \/ FailCapture(p) \/ CrashInCapture(p)
Serve(p) == OpenManual(p) \/ Close(p) \/ GiveUp(p)

LEMMA NextIs ==
  ASSUME [Next]_vars
  PROVE  \/ \E p \in Procs : Store(p) \/ Originate(p) \/ Captures(p) \/ Serve(p)
         \/ \E t \in Trees, pk \in Packets : Edit(t, pk) /\ UNCHANGED <<origins, capture>>
         \/ UNCHANGED vars
BY DEF Next, Open, Recovering, Store, Originate, Captures, Serve

LEMMA TypedStep == Typed /\ [Next]_vars => Typed'
<1> SUFFICES ASSUME Typed, [Next]_vars PROVE Typed'
  OBVIOUS
<1>1. ASSUME NEW p \in Procs, Store(p) PROVE Typed'
  BY <1>1, TypeResolution DEF Store
<1>2. ASSUME NEW p \in Procs, Originate(p) PROVE Typed'
  BY <1>2, TypeOriginStart, TypeOrigination, TypeOriginFailure, TypeOriginRecovery
     DEF Originate, Origination
<1>3. ASSUME NEW p \in Procs, Captures(p) PROVE Typed'
  BY <1>3, TypeCaptureStart, TypeCaptureSteps, TypeCaptureOpen, TypeRecoverCapture, TypeSettling,
     TypeCaptureFailure DEF Captures, Capture, CaptureRecovery
<1>4. ASSUME NEW p \in Procs, Serve(p) PROVE Typed'
  BY <1>4, TypeServices DEF Serve
<1>5. CASE UNCHANGED vars
  BY <1>5, WritesStay, StoreSame, OriginsSame, CaptureSame
     DEF vars, procs, Typed, TypeOK, Frame, JobFits, setting
<1> QED
  BY <1>1, <1>2, <1>3, <1>4, <1>5, TypeEdit, NextIs

LEMMA TypedInit == Init => Typed
<1> SUFFICES ASSUME Init PROVE Typed
  OBVIOUS
<1> USE DEF Init, InitStore, InitOrigins, InitCapture
<1>1. /\ route \in {"manual", "import", "session_end", "capture"} /\ home \in [Procs -> Trees]
      /\ mishaps \in Nat
  BY CasesAssumption
<1>2. TypeStore
  BY <1>1 DEF TypeStore, Readable, Statuses, Records
<1>3. TypeOrigins
  BY AttemptsAssumption DEF TypeOrigins, Unseen
<1>4. TypeCapture
  BY AttemptsAssumption DEF TypeCapture
<1>5. \A p \in Procs : JobFits(p)
  BY DEF JobFits, Resolving, Originating, Judging, Reviewing, Settling, InHand
<1> QED
  BY <1>1, <1>2, <1>3, <1>4, <1>5 DEF Typed, TypeOK, Frame, Labels

LEMMA TypedAlways == Spec => []Typed
BY TypedInit, TypedStep, PTL DEF Spec

(* Type correctness of the packet store and of every route, with the local *)
(* variables each process has at each step.                                *)
THEOREM PacketTypeCorrect == Spec => []TypeOK
BY TypedAlways, PTL DEF Typed

-------------------------------------------------------------------------------
(* Resolutions and records: the inductive invariant.  In a worktree where  *)
(* nobody resolves a packet the story is that of its records; while one is *)
(* resolved it is that of the records the resolver keeps to roll back to,  *)
(* and the records differ from those by the writes made so far.            *)

changes == [i \in Items |-> ChangeOf(i)]

ChangeMaps == [Items -> {"create", "supersede", "tombstone"}]

(* What the records R show once a packet of candidate i is applied.        *)
Shown(change, R, i) ==
    /\ change[i] # "tombstone" => R[i] # "none"
    /\ change[i] = "supersede" => R[Target] = "superseded"
    /\ change[i] = "tombstone" => R[Target] = "tombstoned"

(* Two packets that may both have been applied.                            *)
Compatible(change, pk1, pk2) ==
    /\ pk1[1] # pk2[1]
    /\ change[pk1[1]] = "create" \/ change[pk2[1]] = "create"

(* The records R come from the packets done, which are applied, and those  *)
(* begun, of which some writes may be missing.                             *)
Story(change, R, done, begun) ==
    /\ \A pk \in done : Shown(change, R, pk[1])
    /\ \A i \in Items : R[i] # "none" => \E pk \in done \cup begun : pk[1] = i
    /\ R[Target] # "active" => \E pk \in done \cup begun : change[pk[1]] # "create"
    /\ \A pk1, pk2 \in done : pk1 # pk2 => Compatible(change, pk1, pk2)

Untouched(change, R, i) ==
    /\ change[i] # "tombstone" => R[i] = "none"
    /\ change[i] # "create" => R[Target] = "active"

(* R differs from prior at most where a packet of candidate i writes.      *)
Overwrites(change, prior, R, i) ==
    \A r \in Records :
        \/ R[r] = prior[r]
        \/ r = i /\ change[i] # "tombstone"
        \/ r = Target /\ change[i] # "create"

(* A resolution j at that label, over the records R of its worktree and    *)
(* the status its packet has there.                                        *)
Midway(change, label, j, R, status, done, begun) ==
    LET i == j.pk[1]
        applies == j.outcome = "applied"
    IN /\ Story(change, j.prior, done \ {j.pk}, begun)
       /\ status = IF label = "finish" THEN j.outcome ELSE "none"
       /\ applies => Untouched(change, j.prior, i)
       /\ IF applies /\ label # "move" THEN Overwrites(change, j.prior, R, i) ELSE R = j.prior
       /\ label = "write" =>
            applies /\ (change[i] = "supersede" /\ j.k = 3 => R[Target] = "superseded")
       /\ label \in {"install", "finish"} /\ applies => Shown(change, R, i)

AppliedIn(t) == {pk \in Packets : resolved[t][pk] = "applied"}
CutIn(t) == {pk \in Packets : <<t, pk>> \in cut}

InFlight(p) ==
    Midway(changes, at[p], job[p], record[home[p]], resolved[home[p]][job[p].pk],
           AppliedIn(home[p]), CutIn(home[p]))

IsTold(t) == Story(changes, record[t], AppliedIn(t), CutIn(t))
IsQuiet(t) == \A p \in Procs : at[p] \in Resolving => home[p] # t

Resolutive ==
    /\ \A p \in Procs : at[p] \in Resolving => lock = p /\ InFlight(p)
    /\ \A t \in Trees : IsQuiet(t) => IsTold(t)

LEMMA ChangesTyped == Frame => changes \in ChangeMaps
BY SomeChange DEF changes, ChangeMaps

LEMMA ChangesStay == UNCHANGED setting => changes' = changes
BY DEF changes, ChangeOf, setting

LEMMA StoryGoesOn ==
  ASSUME NEW change, NEW R, NEW done, NEW begun, NEW more,
         Story(change, R, done, begun), begun \subseteq more
  PROVE  Story(change, R, done, more)
BY DEF Story

(* Writing for a packet whose records were untouched harms no other.       *)
LEMMA StoryOverwritten ==
  ASSUME NEW change \in ChangeMaps, NEW prior, NEW R,
         NEW done \in SUBSET Packets, NEW begun \in SUBSET Packets, NEW pk \in Packets,
         Story(change, prior, done, begun), Untouched(change, prior, pk[1]),
         Overwrites(change, prior, R, pk[1])
  PROVE  /\ Story(change, R, done, begun \cup {pk})
         /\ Shown(change, R, pk[1]) => Story(change, R, done \cup {pk}, begun)
<1> DEFINE i == pk[1]
<1>0. i \in Items /\ Target \notin Items /\ \A p2 \in Packets : p2[1] \in Items
  BY TargetAssumption DEF Packets
<1>1. ASSUME NEW p2 \in done
      PROVE  Shown(change, R, p2[1]) /\ Compatible(change, p2, pk) /\ Compatible(change, pk, p2)
  <2>1. p2[1] \in Items /\ Shown(change, prior, p2[1])
    BY <1>0, <1>1 DEF Story
  <2>2. p2[1] # i
    BY <2>1, <1>0 DEF Shown, Untouched, ChangeMaps
  <2>3. change[p2[1]] = "create" \/ change[i] = "create"
    BY <2>1, <1>0 DEF Shown, Untouched, ChangeMaps
  <2>4. R[p2[1]] = prior[p2[1]]
    BY <1>0, <2>1, <2>2 DEF Overwrites, Records
  <2>5. change[p2[1]] # "create" => R[Target] = prior[Target]
    BY <1>0, <2>3 DEF Overwrites, Records
  <2> QED
    BY <2>1, <2>2, <2>3, <2>4, <2>5 DEF Shown, Compatible
<1>2. ASSUME NEW n \in Items, R[n] # "none"
      PROVE  \E p2 \in done \cup begun \cup {pk} : p2[1] = n
  <2>1. CASE n = i
    BY <2>1
  <2>2. CASE n # i
    BY <1>0, <1>2, <2>2 DEF Overwrites, Records, Story
  <2> QED
    BY <2>1, <2>2
<1>3. ASSUME R[Target] # "active"
      PROVE  \E p2 \in done \cup begun \cup {pk} : change[p2[1]] # "create"
  <2>1. CASE change[i] # "create"
    BY <2>1
  <2>2. CASE change[i] = "create"
    BY <1>0, <1>3, <2>2 DEF Overwrites, Records, Story
  <2> QED
    BY <2>1, <2>2
<1>4. \A p1, p2 \in done : p1 # p2 => Compatible(change, p1, p2)
  BY DEF Story
<1>5. Story(change, R, done, begun \cup {pk})
  BY <1>1, <1>2, <1>3, <1>4 DEF Story
<1>6. ASSUME Shown(change, R, pk[1]) PROVE Story(change, R, done \cup {pk}, begun)
  <2>1. \A p2 \in done \cup {pk} : Shown(change, R, p2[1])
    BY <1>1, <1>6
  <2>2. \A p1, p2 \in done \cup {pk} : p1 # p2 => Compatible(change, p1, p2)
    BY <1>1, <1>4
  <2> QED
    BY <2>1, <2>2, <1>2, <1>3 DEF Story
<1> QED
  BY <1>5, <1>6

(* What a resolution shows at any point of it.                             *)
LEMMA MidwayTells ==
  ASSUME NEW change \in ChangeMaps, NEW label \in Resolving, NEW j \in Resolutions, NEW R,
         NEW status, NEW done \in SUBSET Packets, NEW begun \in SUBSET Packets,
         Midway(change, label, j, R, status, done, begun), j.pk \in done <=> status = "applied"
  PROVE  /\ Story(change, R, done \ {j.pk}, begun \cup {j.pk})
         /\ label \in {"move", "finish"} => Story(change, R, done, begun)
<1>0. /\ Story(change, j.prior, done \ {j.pk}, begun) /\ j.pk \in Packets
      /\ done \ {j.pk} \in SUBSET Packets /\ j.outcome \in {"applied", "rejected"}
  BY DEF Midway, Resolutions
<1>1. CASE j.outcome # "applied" \/ label = "move"
  <2>1. R = j.prior /\ status # "applied" /\ done \ {j.pk} = done
    BY <1>0, <1>1 DEF Midway
  <2> QED
    BY <1>0, <2>1, StoryGoesOn
<1>2. CASE j.outcome = "applied" /\ label # "move"
  <2>1. Untouched(change, j.prior, j.pk[1]) /\ Overwrites(change, j.prior, R, j.pk[1])
    BY <1>2 DEF Midway
  <2>2. Story(change, R, done \ {j.pk}, begun \cup {j.pk})
    BY <1>0, <2>1, StoryOverwritten
  <2>3. ASSUME label = "finish" PROVE Story(change, R, done, begun)
    <3>1. Shown(change, R, j.pk[1]) /\ (done \ {j.pk}) \cup {j.pk} = done
      BY <1>2, <2>3 DEF Midway
    <3>2. Story(change, R, (done \ {j.pk}) \cup {j.pk}, begun)
      BY <1>0, <2>1, <3>1, StoryOverwritten
    <3> QED
      BY <3>1, <3>2
  <2> QED
    BY <1>2, <2>2, <2>3
<1> QED
  BY <1>1, <1>2

(* A step of the process that resolves, or is about to.                    *)
LEMMA ResolverMoves ==
  ASSUME Typed, Resolutive, NEW p \in Procs, lock \in {p, NoProc}, UNCHANGED setting,
         \A q \in Procs \ {p} : at'[q] = at[q] /\ job'[q] = job[q],
         \A t \in Trees \ {home[p]} :
            record'[t] = record[t] /\ AppliedIn(t)' = AppliedIn(t) /\ CutIn(t)' = CutIn(t),
         at'[p] \in Resolving => lock' = p /\ InFlight(p)',
         at'[p] \notin Resolving => IsTold(home[p])'
  PROVE  Resolutive'
<1>0. home \in [Procs -> Trees] /\ home' = home /\ changes' = changes /\ NoProc \notin Procs
  BY ChangesStay, CasesAssumption DEF Typed, Frame, setting
<1>1. \A q \in Procs \ {p} : at[q] \notin Resolving /\ at'[q] \notin Resolving
  BY <1>0 DEF Resolutive
<1>2. ASSUME NEW t \in Trees, IsQuiet(t)' PROVE IsTold(t)'
  <2>1. CASE t = home[p]
    BY <1>0, <1>2, <2>1 DEF IsQuiet
  <2>2. CASE t # home[p]
    <3>1. IsQuiet(t)
      BY <1>1, <2>2 DEF IsQuiet
    <3>2. IsTold(t)
      BY <3>1 DEF Resolutive
    <3> QED
      BY <1>0, <2>2, <3>2 DEF IsTold
  <2> QED
    BY <2>1, <2>2
<1> QED
  BY <1>1, <1>2 DEF Resolutive

(* A step of a process that does not resolve.                              *)
IsElsewhere(p) ==
    /\ at[p] \notin Resolving /\ at'[p] \notin Resolving
    /\ \A q \in Procs \ {p} : at'[q] = at[q] /\ job'[q] = job[q]
    /\ lock' = lock \/ lock \in {p, NoProc}

LEMMA ElsewhereMoves ==
  ASSUME Typed, Resolutive, NEW p \in Procs, IsElsewhere(p),
         UNCHANGED <<setting, resolved, record, cut>>
  PROVE  Resolutive'
<1>0. changes' = changes /\ home' = home /\ NoProc \notin Procs
      /\ \A t : AppliedIn(t)' = AppliedIn(t) /\ CutIn(t)' = CutIn(t)
  BY ChangesStay, CasesAssumption DEF setting, AppliedIn, CutIn
<1>1. ASSUME NEW q \in Procs, at'[q] \in Resolving PROVE lock' = q /\ InFlight(q)'
  <2>1. q # p /\ at'[q] = at[q] /\ job'[q] = job[q]
    BY <1>1 DEF IsElsewhere
  <2>2. lock = q /\ InFlight(q)
    BY <1>1, <2>1 DEF Resolutive
  <2>3. lock' = q
    BY <1>0, <2>1, <2>2 DEF IsElsewhere
  <2> QED
    BY <1>0, <2>1, <2>2, <2>3 DEF InFlight
<1>2. ASSUME NEW t \in Trees, IsQuiet(t)' PROVE IsTold(t)'
  <2>1. IsQuiet(t)
    BY <1>0, <1>2 DEF IsQuiet, IsElsewhere
  <2> QED
    BY <1>0, <2>1 DEF Resolutive, IsTold
<1> QED
  BY <1>1, <1>2 DEF Resolutive

(* What the process at such a label knows.                                 *)
LEMMA ResolverKnows ==
  ASSUME Typed, Resolutive, NEW p \in Procs, at[p] \in Resolving
  PROVE  /\ lock = p /\ InFlight(p) /\ job[p] \in Resolutions /\ home[p] \in Trees
         /\ job[p].pk \in Packets /\ job[p].pk[1] \in Items /\ changes \in ChangeMaps
         /\ job[p].outcome \in {"applied", "rejected"}
         /\ resolved[home[p]][job[p].pk] \in {"none", "applied", "rejected"}
         /\ AppliedIn(home[p]) \in SUBSET Packets /\ CutIn(home[p]) \in SUBSET Packets
         /\ job[p].pk \in AppliedIn(home[p]) <=> resolved[home[p]][job[p].pk] = "applied"
BY ChangesTyped DEF Typed, TypeOK, TypeStore, Frame, JobFits, Resolutive, Resolutions, Packets,
   AppliedIn, CutIn

LEMMA ElsewhereTree ==
  ASSUME NEW t, resolved'[t] = resolved[t], NEW h, t # h,
         \/ UNCHANGED cut
         \/ \E pk : cut' = cut \cup {<<h, pk>>}
  PROVE  AppliedIn(t)' = AppliedIn(t) /\ CutIn(t)' = CutIn(t)
BY DEF AppliedIn, CutIn

LEMMA ResolveTells ==
  ASSUME Typed, Resolutive, NEW p \in Procs, NEW pk \in Packets,
         NEW outcome_ \in {"applied", "rejected"}, Resolve(p, pk, outcome_)
  PROVE  Resolutive'
<1> DEFINE t == home[p]
           j == [pk |-> pk, outcome |-> outcome_, seen |-> pending[t][pk],
                 prior |-> record[t], k |-> 1]
<1>0. Frame /\ t \in Trees /\ lock = NoProc /\ NoProc \notin Procs
      /\ UNCHANGED <<setting, files, cut>>
  BY CasesAssumption DEF Typed, Frame, Resolve, Enter
<1>1. at'[p] = "move" /\ lock' = p /\ job'[p] = j
      /\ \A q \in Procs \ {p} : at'[q] = at[q] /\ job'[q] = job[q]
  BY <1>0, EnterMoves DEF Resolve, Labels, Resolving
<1>2. resolved[t][pk] = "none" /\ pk \notin AppliedIn(t)
  BY DEF Resolve, InventoryIsClean, Readable, AppliedIn
<1>3. IsTold(t)
  BY <1>0 DEF Resolutive, IsQuiet
<1>4. outcome_ = "applied" => Untouched(changes, record[t], pk[1])
  BY DEF Resolve, IsApplicable, TargetIsCurrent, Untouched, changes, Packets
<1>5. j.pk = pk /\ j.outcome = outcome_ /\ j.prior = record[t]
  OBVIOUS
<1> HIDE DEF j
<1>6. AppliedIn(t) \ {j.pk} = AppliedIn(t)
  BY <1>2, <1>5
<1>7. Midway(changes, "move", j, record[t], "none", AppliedIn(t), CutIn(t))
  BY <1>3, <1>4, <1>5, <1>6 DEF Midway, IsTold
<1>8. /\ \A s : AppliedIn(s)' = AppliedIn(s) /\ CutIn(s)' = CutIn(s)
      /\ record' = record /\ resolved' = resolved /\ home' = home /\ changes' = changes
  BY <1>0, ChangesStay DEF AppliedIn, CutIn, files, setting
<1>9. InFlight(p)'
  BY <1>1, <1>2, <1>5, <1>7, <1>8 DEF InFlight
<1> QED
  BY <1>0, <1>1, <1>8, <1>9, ResolverMoves DEF Resolving

(* The pending packet is taken away; the records are still what they were. *)
LEMMA MoveTells ==
  ASSUME Typed, Resolutive, NEW p \in Procs, MovePending(p)
  PROVE  Resolutive'
<1> DEFINE t == home[p]  j == job[p]
<1>0. at[p] = "move" /\ Frame /\ UNCHANGED <<setting, resolved, record, cut>>
  BY DEF MovePending, Typed
<1>1. /\ lock = p /\ InFlight(p) /\ j \in Resolutions /\ t \in Trees
      /\ j.outcome \in {"applied", "rejected"} /\ changes \in ChangeMaps
      /\ AppliedIn(t) \in SUBSET Packets /\ CutIn(t) \in SUBSET Packets
      /\ j.pk \in AppliedIn(t) <=> resolved[t][j.pk] = "applied"
  BY <1>0, ResolverKnows DEF Resolving
<1>2. /\ changes' = changes /\ home' = home
      /\ \A s : AppliedIn(s)' = AppliedIn(s) /\ CutIn(s)' = CutIn(s)
  BY <1>0, ChangesStay DEF setting, AppliedIn, CutIn
<1>3. Midway(changes, "move", j, record[t], resolved[t][j.pk], AppliedIn(t), CutIn(t))
  BY <1>0, <1>1 DEF InFlight
<1>4. CASE Leave(p, "open")
  <2>1. /\ at'[p] = "open" /\ \A q \in Procs \ {p} : at'[q] = at[q] /\ job'[q] = job[q]
    BY <1>0, <1>4, LeaveMoves DEF Labels
  <2>2. IsTold(t)
    BY <1>1, <1>3, MidwayTells DEF Resolving, IsTold
  <2>3. IsTold(t)'
    BY <1>0, <1>2, <2>2 DEF IsTold
  <2> QED
    BY <1>0, <1>1, <1>2, <2>1, <2>3, ResolverMoves DEF Resolving
<1>5. CASE Step(p, 1, IF j.outcome = "applied" THEN "write" ELSE "install")
  <2>1. PICK label \in {"write", "install"} :
            Step(p, 1, label) /\ label = IF j.outcome = "applied" THEN "write" ELSE "install"
    BY <1>5
  <2>2. /\ at'[p] = label /\ job'[p] = [j EXCEPT !.k = 1] /\ lock' = lock
        /\ \A q \in Procs \ {p} : at'[q] = at[q] /\ job'[q] = job[q]
    BY <1>0, <2>1, StepMoves DEF Labels, Resolving
  <2>3. /\ job'[p].pk = j.pk /\ job'[p].outcome = j.outcome /\ job'[p].prior = j.prior
        /\ job'[p].k = 1
    BY <1>1, <2>2, StepFields
  <2>4. ASSUME NEW i, i.pk = j.pk, i.outcome = j.outcome, i.prior = j.prior, i.k = 1
        PROVE  Midway(changes, label, i, record[t], resolved[t][j.pk], AppliedIn(t), CutIn(t))
    BY <1>3, <2>1, <2>4 DEF Midway, Overwrites
  <2>5. InFlight(p)'
    BY <1>0, <1>2, <2>2, <2>3, <2>4 DEF InFlight
  <2> QED
    BY <1>0, <1>1, <1>2, <2>2, <2>5, ResolverMoves DEF Resolving
<1> QED
  BY <1>4, <1>5 DEF MovePending

(* The records once the first n writes of a packet are made.               *)
Written(prior, R, i, n) ==
    /\ Overwrites(changes, prior, R, i)
    /\ n = Len(Writes(i)) => Shown(changes, R, i)
    /\ changes[i] = "supersede" /\ n = 2 => R[Target] = "superseded"

(* One write more differs from the records only where the packet writes.   *)
LEMMA WriteGoesOn ==
  ASSUME Frame, NEW i \in Items, NEW prior, NEW R, NEW S,
         NEW k \in 1..Len(Writes(i)), NEW status \in Statuses,
         S[Writes(i)[k][1]] = status, \A r \in Records \ {Writes(i)[k][1]} : S[r] = R[r],
         status = Writes(i)[k][2] \/ (status = "amended" /\ Writes(i)[k][2] = "active"),
         Overwrites(changes, prior, R, i),
         changes[i] = "supersede" /\ k = 3 => R[Target] = "superseded"
  PROVE  Written(prior, S, i, k)
<1>0. changes[i] = ChangeOf(i) /\ i \in Records /\ Target \in Records /\ i # Target
  BY TargetAssumption DEF changes, Records
<1>1. CASE ChangeOf(i) = "create"
  <2>1. k = 1 /\ Len(Writes(i)) = 1 /\ Writes(i)[k] = <<i, "active">>
    BY <1>1 DEF Writes
  <2>2. S[i] \in {"active", "amended"} /\ \A r \in Records \ {i} : S[r] = R[r]
    BY <1>0, <2>1
  <2> QED
    BY <1>0, <1>1, <2>1, <2>2 DEF Overwrites, Shown, Written
<1>2. CASE ChangeOf(i) = "supersede"
  <2>1. /\ Len(Writes(i)) = 3 /\ k \in 1..3
        /\ k = 1 => Writes(i)[k] = <<Target, "none">>
        /\ k = 2 => Writes(i)[k] = <<Target, "superseded">>
        /\ k = 3 => Writes(i)[k] = <<i, "active">>
    BY <1>2 DEF Writes
  <2>2. CASE k = 3
    <3>1. S[i] \in {"active", "amended"} /\ \A r \in Records \ {i} : S[r] = R[r]
      BY <1>0, <2>1, <2>2
    <3> QED
      BY <1>0, <1>2, <2>1, <2>2, <3>1 DEF Overwrites, Shown, Written
  <2>3. CASE k # 3
    <3>1. (k = 2 => S[Target] = "superseded") /\ \A r \in Records \ {Target} : S[r] = R[r]
      BY <1>0, <2>1, <2>3
    <3> QED
      BY <1>0, <1>2, <2>1, <2>3, <3>1 DEF Overwrites, Shown, Written
  <2> QED
    BY <2>2, <2>3
<1>3. CASE ChangeOf(i) = "tombstone"
  <2>1. /\ Len(Writes(i)) = 2 /\ k \in 1..2
        /\ k = 1 => Writes(i)[k] = <<Target, "none">>
        /\ k = 2 => Writes(i)[k] = <<Target, "tombstoned">>
    BY <1>3 DEF Writes
  <2>2. (k = 2 => S[Target] = "tombstoned") /\ \A r \in Records \ {Target} : S[r] = R[r]
    BY <1>0, <2>1
  <2> QED
    BY <1>0, <1>3, <2>1, <2>2 DEF Overwrites, Shown, Written
<1> QED
  BY <1>1, <1>2, <1>3, SomeChange

LEMMA WriteTells ==
  ASSUME Typed, Resolutive, NEW p \in Procs, WriteRecord(p)
  PROVE  Resolutive'
<1> DEFINE t == home[p]  j == job[p]  i == j.pk[1]  k == j.k
           status == IF Writes(i)[k][2] = "active" /\ j.seen = "edited" THEN "amended"
                     ELSE Writes(i)[k][2]
           S == [record[t] EXCEPT ![Writes(i)[k][1]] = status]
<1>0. /\ at[p] = "write" /\ Frame /\ UNCHANGED <<setting, resolved, cut>>
      /\ record \in [Trees -> [Records -> Statuses]]
  BY DEF WriteRecord, Typed, TypeOK, TypeStore
<1>1. /\ lock = p /\ InFlight(p) /\ j \in Resolutions /\ t \in Trees /\ i \in Items
      /\ k \in 1..Len(Writes(i)) /\ Len(Writes(i)) \in Nat /\ k \in Nat
  BY <1>0, ResolverKnows, WritesTyped DEF Resolving, Typed, JobFits
<1>2. /\ changes' = changes /\ home' = home
      /\ \A s : AppliedIn(s)' = AppliedIn(s) /\ CutIn(s)' = CutIn(s)
  BY <1>0, ChangesStay DEF setting, AppliedIn, CutIn
<1>3. Midway(changes, "write", j, record[t], resolved[t][j.pk], AppliedIn(t), CutIn(t))
  BY <1>0, <1>1 DEF InFlight
<1>4. /\ j.outcome = "applied" /\ Overwrites(changes, j.prior, record[t], i)
      /\ changes[i] = "supersede" /\ k = 3 => record[t][Target] = "superseded"
  BY <1>3 DEF Midway
<1>5. /\ status \in Statuses /\ S \in [Records -> Statuses]
      /\ status = Writes(i)[k][2] \/ (status = "amended" /\ Writes(i)[k][2] = "active")
  BY <1>0, <1>1, WritesTyped DEF Statuses
<1>6. record'[t] = S /\ \A s \in Trees \ {t} : record'[s] = record[s]
  BY <1>0, <1>1 DEF WriteRecord
<1>7. PICK label \in {"write", "install"} :
          Step(p, k + 1, label) /\ label = IF k < Len(Writes(i)) THEN "write" ELSE "install"
  BY DEF WriteRecord
<1>8. /\ at'[p] = label /\ job'[p] = [j EXCEPT !.k = k + 1] /\ lock' = lock
      /\ \A q \in Procs \ {p} : at'[q] = at[q] /\ job'[q] = job[q]
  BY <1>0, <1>7, StepMoves DEF Labels, Resolving
<1>9. /\ job'[p].pk = j.pk /\ job'[p].outcome = j.outcome /\ job'[p].prior = j.prior
      /\ job'[p].k = k + 1
  BY <1>1, <1>8, StepFields
<1>a. S = [record[t] EXCEPT ![Writes(i)[k][1]] = status] /\ record[t] \in [Records -> Statuses]
  BY <1>0, <1>1
<1> HIDE DEF status, S
<1>10. Written(j.prior, S, i, k)
  <2>1. /\ Frame /\ i \in Items /\ k \in 1..Len(Writes(i)) /\ status \in Statuses
        /\ S[Writes(i)[k][1]] = status
        /\ \A r \in Records \ {Writes(i)[k][1]} : S[r] = record[t][r]
    BY <1>0, <1>1, <1>5, <1>a, WritesTyped
  <2> QED
    BY <2>1, <1>4, <1>5, WriteGoesOn
<1>11. ASSUME NEW m, m.pk = j.pk, m.outcome = j.outcome, m.prior = j.prior, m.k = k + 1
       PROVE  Midway(changes, label, m, S, resolved[t][j.pk], AppliedIn(t), CutIn(t))
  BY <1>1, <1>3, <1>4, <1>7, <1>10, <1>11 DEF Midway, Written
<1>12. InFlight(p)'
  BY <1>0, <1>2, <1>6, <1>8, <1>9, <1>11 DEF InFlight
<1> QED
  BY <1>0, <1>1, <1>2, <1>6, <1>8, <1>12, ResolverMoves DEF Resolving

LEMMA CutGrows ==
  ASSUME NEW t, NEW pk \in Packets, NEW h, cut' = cut \cup {<<h, pk>>}
  PROVE  CutIn(t)' = IF t = h THEN CutIn(t) \cup {pk} ELSE CutIn(t)
<1> SUFFICES ASSUME NEW q PROVE q \in CutIn(t)' <=> q \in (IF t = h THEN CutIn(t) \cup {pk} ELSE CutIn(t))
  BY DEF CutIn
<1> QED
  BY DEF CutIn

(* Only the resolution of packet pk of worktree t moves.                   *)
OneMoves(t, pk) ==
    /\ \A s \in Trees \ {t} : resolved'[s] = resolved[s]
    /\ \A q \in Packets \ {pk} : resolved'[t][q] = resolved[t][q]

LEMMA AppliedMoves ==
  ASSUME NEW t \in Trees, NEW pk \in Packets, OneMoves(t, pk)
  PROVE  /\ AppliedIn(t)' \ {pk} = AppliedIn(t) \ {pk}
         /\ resolved'[t][pk] # "applied" => AppliedIn(t)' = AppliedIn(t) \ {pk}
         /\ \A s \in Trees \ {t} : AppliedIn(s)' = AppliedIn(s)
BY DEF AppliedIn, OneMoves

LEMMA InstallTells ==
  ASSUME Typed, Resolutive, NEW p \in Procs, InstallResolved(p)
  PROVE  Resolutive'
<1> DEFINE t == home[p]  j == job[p]
<1>0. /\ at[p] = "install" /\ Frame /\ UNCHANGED <<setting, record, cut>> /\ TypeStore
      /\ resolved' = [resolved EXCEPT ![t][j.pk] = j.outcome] /\ Step(p, 1, "finish")
  BY DEF InstallResolved, Typed, TypeOK
<1>1. /\ lock = p /\ InFlight(p) /\ j \in Resolutions /\ t \in Trees /\ j.pk \in Packets
  BY <1>0, ResolverKnows DEF Resolving
<1>3. /\ changes' = changes /\ home' = home /\ \A s : CutIn(s)' = CutIn(s)
  BY <1>0, ChangesStay DEF setting, CutIn
<1>4. /\ resolved'[t][j.pk] = j.outcome /\ AppliedIn(t)' \ {j.pk} = AppliedIn(t) \ {j.pk}
      /\ \A s \in Trees \ {t} : AppliedIn(s)' = AppliedIn(s)
  <2> SUFFICES ASSUME NEW h \in Trees, h = t, NEW pk \in Packets, pk = j.pk,
                      NEW o, o = j.outcome
               PROVE  /\ resolved'[h][pk] = o /\ AppliedIn(h)' \ {pk} = AppliedIn(h) \ {pk}
                      /\ \A s \in Trees \ {h} : AppliedIn(s)' = AppliedIn(s)
    BY <1>1, <1>3
  <2>1. OneMoves(h, pk) /\ resolved'[h][pk] = o
    BY <1>0 DEF OneMoves, TypeStore
  <2> QED
    BY <2>1, AppliedMoves
<1>5. Midway(changes, "install", j, record[t], resolved[t][j.pk], AppliedIn(t), CutIn(t))
  BY <1>0, <1>1 DEF InFlight
<1>6. /\ at'[p] = "finish" /\ job'[p] = [j EXCEPT !.k = 1] /\ lock' = lock
      /\ \A q \in Procs \ {p} : at'[q] = at[q] /\ job'[q] = job[q]
  BY <1>0, StepMoves DEF Labels, Resolving
<1>7. job'[p].pk = j.pk /\ job'[p].outcome = j.outcome /\ job'[p].prior = j.prior
  BY <1>1, <1>6, StepFields
<1>8. ASSUME NEW m, m.pk = j.pk, m.outcome = j.outcome, m.prior = j.prior,
             NEW done, done \ {j.pk} = AppliedIn(t) \ {j.pk}
      PROVE  Midway(changes, "finish", m, record[t], j.outcome, done, CutIn(t))
  BY <1>5, <1>8 DEF Midway
<1>9. InFlight(p)'
  <2>1. Midway(changes, "finish", job'[p], record[t], j.outcome, AppliedIn(t)', CutIn(t))
    BY <1>4, <1>7, <1>8
  <2> QED
    BY <1>0, <1>3, <1>4, <1>6, <1>7, <2>1 DEF InFlight
<1> QED
  BY <1>0, <1>1, <1>3, <1>4, <1>6, <1>9, ResolverMoves DEF Resolving

LEMMA FinishTells ==
  ASSUME Typed, Resolutive, NEW p \in Procs, Finish(p)
  PROVE  Resolutive'
<1> DEFINE t == home[p]  j == job[p]
<1>0. at[p] = "finish" /\ Frame /\ UNCHANGED <<setting, files, cut>> /\ Leave(p, "open")
  BY DEF Finish, Typed
<1>1. /\ lock = p /\ InFlight(p) /\ j \in Resolutions /\ t \in Trees /\ changes \in ChangeMaps
      /\ AppliedIn(t) \in SUBSET Packets /\ CutIn(t) \in SUBSET Packets
      /\ j.pk \in AppliedIn(t) <=> resolved[t][j.pk] = "applied"
  BY <1>0, ResolverKnows DEF Resolving
<1>2. /\ changes' = changes /\ home' = home /\ record' = record
      /\ \A s : AppliedIn(s)' = AppliedIn(s) /\ CutIn(s)' = CutIn(s)
  BY <1>0, ChangesStay DEF setting, AppliedIn, CutIn, files
<1>3. Midway(changes, "finish", j, record[t], resolved[t][j.pk], AppliedIn(t), CutIn(t))
  BY <1>0, <1>1 DEF InFlight
<1>4. IsTold(t)
  BY <1>1, <1>3, MidwayTells DEF Resolving, IsTold
<1>5. IsTold(t)'
  BY <1>0, <1>2, <1>4 DEF IsTold
<1>6. at'[p] = "open" /\ \A q \in Procs \ {p} : at'[q] = at[q] /\ job'[q] = job[q]
  BY <1>0, LeaveMoves DEF Labels
<1> QED
  BY <1>0, <1>1, <1>2, <1>5, <1>6, ResolverMoves DEF Resolving

(* The rollback brings back the records the resolution started from.       *)
LEMMA RollbackTells ==
  ASSUME Typed, Resolutive, NEW p \in Procs, FailResolution(p)
  PROVE  Resolutive'
<1> DEFINE t == home[p]  j == job[p]
<1>0. at[p] \in Resolving /\ Frame /\ UNCHANGED <<setting, cut>> /\ Leave(p, "open") /\ TypeStore
  BY DEF FailResolution, Typed, Resolving, TypeOK
<1>1. /\ lock = p /\ InFlight(p) /\ j \in Resolutions /\ t \in Trees /\ changes \in ChangeMaps
      /\ AppliedIn(t) \in SUBSET Packets /\ CutIn(t) \in SUBSET Packets /\ j.pk \in Packets
      /\ j.pk \in AppliedIn(t) <=> resolved[t][j.pk] = "applied"
  BY <1>0, ResolverKnows
<1>2. Midway(changes, at[p], j, record[t], resolved[t][j.pk], AppliedIn(t), CutIn(t))
  BY <1>1 DEF InFlight
<1>3. at'[p] = "open" /\ \A q \in Procs \ {p} : at'[q] = at[q] /\ job'[q] = job[q]
  BY <1>0, LeaveMoves DEF Labels
<1>4. changes' = changes /\ home' = home /\ \A s : CutIn(s)' = CutIn(s)
  BY <1>0, ChangesStay DEF setting, CutIn
<1>5. CASE at[p] = "move" /\ UNCHANGED files
  <2>1. IsTold(t)
    BY <1>1, <1>2, <1>5, MidwayTells DEF IsTold, Resolving
  <2>2. record' = record /\ \A s : AppliedIn(s)' = AppliedIn(s)
    BY <1>5 DEF files, AppliedIn
  <2>3. IsTold(t)'
    BY <1>4, <2>1, <2>2 DEF IsTold
  <2> QED
    BY <1>0, <1>1, <1>3, <1>4, <2>2, <2>3, ResolverMoves DEF Resolving
<1>6. CASE Undo(p)
  <2>1. /\ record'[t] = j.prior /\ \A s \in Trees \ {t} : record'[s] = record[s]
    BY <1>0, <1>1, <1>6 DEF Undo, TypeStore
  <2>2. /\ AppliedIn(t)' = AppliedIn(t) \ {j.pk}
        /\ \A s \in Trees \ {t} : AppliedIn(s)' = AppliedIn(s)
    <3> SUFFICES ASSUME NEW h \in Trees, h = t, NEW pk \in Packets, pk = j.pk
                 PROVE  /\ AppliedIn(h)' = AppliedIn(h) \ {pk}
                        /\ \A s \in Trees \ {h} : AppliedIn(s)' = AppliedIn(s)
      BY <1>1, <1>4
    <3>1. OneMoves(h, pk) /\ resolved'[h][pk] = "none"
      BY <1>0, <1>6 DEF Undo, OneMoves, TypeStore
    <3> QED
      BY <3>1, AppliedMoves
  <2>4. Story(changes, j.prior, AppliedIn(t) \ {j.pk}, CutIn(t))
    BY <1>2 DEF Midway
  <2>5. IsTold(t)'
    BY <1>4, <2>1, <2>2, <2>4 DEF IsTold
  <2> QED
    BY <1>0, <1>1, <1>3, <1>4, <2>1, <2>2, <2>5, ResolverMoves DEF Resolving
<1> QED
  BY <1>5, <1>6 DEF FailResolution

(* A crash leaves what is there; the packet is one of those cut.           *)
LEMMA CrashTells ==
  ASSUME Typed, Resolutive, NEW p \in Procs, CrashInResolution(p)
  PROVE  Resolutive'
<1> DEFINE t == home[p]  j == job[p]
<1>0. at[p] \in Resolving /\ Frame /\ UNCHANGED <<setting, files>> /\ Leave(p, "closed")
  BY DEF CrashInResolution, Typed, Resolving
<1>1. /\ lock = p /\ InFlight(p) /\ j \in Resolutions /\ t \in Trees /\ changes \in ChangeMaps
      /\ AppliedIn(t) \in SUBSET Packets /\ CutIn(t) \in SUBSET Packets /\ j.pk \in Packets
      /\ j.pk \in AppliedIn(t) <=> resolved[t][j.pk] = "applied"
      /\ resolved[t][j.pk] \in {"none", "applied", "rejected"}
  BY <1>0, ResolverKnows
<1>2. Midway(changes, at[p], j, record[t], resolved[t][j.pk], AppliedIn(t), CutIn(t))
  BY <1>1 DEF InFlight
<1>3. at'[p] = "closed" /\ \A q \in Procs \ {p} : at'[q] = at[q] /\ job'[q] = job[q]
  BY <1>0, LeaveMoves DEF Labels
<1>4. changes' = changes /\ home' = home /\ record' = record /\ \A s : AppliedIn(s)' = AppliedIn(s)
  BY <1>0, ChangesStay DEF setting, AppliedIn, files
<1>5. CASE at[p] \in {"move", "finish"} /\ UNCHANGED cut
  <2>1. \A s : CutIn(s)' = CutIn(s)
    BY <1>5 DEF CutIn
  <2>2. IsTold(t)
    BY <1>1, <1>2, <1>5, MidwayTells DEF IsTold, Resolving
  <2>3. IsTold(t)'
    BY <1>4, <2>1, <2>2 DEF IsTold
  <2> QED
    BY <1>0, <1>1, <1>3, <1>4, <2>1, <2>3, ResolverMoves DEF Resolving
<1>6. CASE at[p] \in {"write", "install"} /\ cut' = cut \cup {<<t, j.pk>>}
  <2>1. CutIn(t)' = CutIn(t) \cup {j.pk} /\ \A s \in Trees \ {t} : CutIn(s)' = CutIn(s)
    <3> SUFFICES ASSUME NEW h, h = t, NEW pk, pk = j.pk
                 PROVE  CutIn(h)' = CutIn(h) \cup {pk} /\ \A s \in Trees \ {h} : CutIn(s)' = CutIn(s)
      BY <1>4
    <3> QED
      BY <1>1, <1>6, CutGrows
  <2>2. AppliedIn(t) \ {j.pk} = AppliedIn(t)
    BY <1>1, <1>2, <1>6 DEF Midway
  <2>3. Story(changes, record[t], AppliedIn(t) \ {j.pk}, CutIn(t) \cup {j.pk})
    BY <1>1, <1>2, <1>6, MidwayTells DEF Resolving
  <2>4. IsTold(t)'
    BY <1>4, <2>1, <2>2, <2>3 DEF IsTold
  <2> QED
    BY <1>0, <1>1, <1>3, <1>4, <2>1, <2>4, ResolverMoves DEF Resolving
<1> QED
  BY <1>0, <1>5, <1>6 DEF CrashInResolution, Resolving

(* A process that does not resolve and goes where it does not.             *)
Idles == Labels \ Resolving

LEMMA ElsewhereIs ==
  ASSUME Frame, NEW p \in Procs, at[p] \notin Resolving, NEW label \in Idles,
         \/ Leave(p, label)
         \/ \E j : Enter(p, j, label)
         \/ \E k : Step(p, k, label)
         \/ Goto(p, label) /\ UNCHANGED <<lock, job>>
         \/ Goto(p, label) /\ UNCHANGED lock /\ \E j : job' = [job EXCEPT ![p] = j]
  PROVE  IsElsewhere(p)
<1>0. label \in Labels /\ label \notin Resolving
  BY DEF Idles
<1>1. CASE Leave(p, label)
  BY <1>0, <1>1, LeaveMoves DEF IsElsewhere
<1>2. ASSUME NEW j, Enter(p, j, label) PROVE IsElsewhere(p)
  BY <1>0, <1>2, EnterMoves DEF IsElsewhere
<1>3. ASSUME NEW k, Step(p, k, label) PROVE IsElsewhere(p)
  BY <1>0, <1>3, StepMoves DEF IsElsewhere
<1>4. CASE Goto(p, label) /\ UNCHANGED <<lock, job>>
  BY <1>0, <1>4, GotoMoves DEF IsElsewhere
<1>5. ASSUME NEW j, Goto(p, label), UNCHANGED lock, job' = [job EXCEPT ![p] = j]
      PROVE  IsElsewhere(p)
  BY <1>0, <1>5, GotoMoves, JobMoves DEF IsElsewhere
<1> QED
  BY <1>1, <1>2, <1>3, <1>4, <1>5

LEMMA IdleLabels ==
  Idles = {"closed", "open", "opening", "recover", "drop", "plan"}
            \cup Originating \cup Judging \cup Reviewing \cup Settling
BY DEF Idles, Labels, Resolving, Originating, Judging, Reviewing, Settling

LEMMA ServeElsewhere ==
  ASSUME Frame, NEW p \in Procs, Serve(p)
  PROVE  IsElsewhere(p) /\ UNCHANGED <<setting, resolved, record, cut>>
<1>1. CASE OpenManual(p)
  <2>1. at[p] \notin Resolving /\ "open" \in Idles
    BY <1>1, IdleLabels DEF OpenManual, Resolving
  <2> QED
    BY <1>1, <2>1, ElsewhereIs DEF OpenManual, files
<1>2. CASE Close(p) \/ GiveUp(p)
  <2>1. at[p] \notin Resolving /\ "closed" \in Idles
    BY <1>2, IdleLabels DEF Close, GiveUp, Resolving
  <2> QED
    BY <1>2, <2>1, ElsewhereIs DEF Close, GiveUp, files
<1> QED
  BY <1>1, <1>2 DEF Serve

LEMMA OriginateElsewhere ==
  ASSUME Frame, NEW p \in Procs, Originate(p)
  PROVE  IsElsewhere(p) /\ UNCHANGED <<setting, resolved, record, cut>>
<1>0. {"closed", "open", "opening", "recover", "drop", "journal", "create", "commit", "unjournal",
       "judge", "discard", "promote"} \subseteq Idles
  BY IdleLabels DEF Originating, Judging
<1>1. ASSUME NEW batch \in Batches \cup {Items}, NEW acts \in [batch -> Acts],
             StartImport(p, acts) \/ StartPromotion(p, acts)
      PROVE  IsElsewhere(p) /\ UNCHANGED <<setting, resolved, record, cut>>
  <2>1. at[p] \notin Resolving /\ \E label \in {"journal", "commit"} : Enter(p, Begin(acts), label)
    BY <1>1 DEF StartImport, StartPromotion, Resolving
  <2> QED
    BY <1>0, <1>1, <2>1, ElsewhereIs DEF StartImport, StartPromotion, files
<1>2. CASE WriteJournal(p)
  <2>1. at[p] \notin Resolving /\ (Leave(p, "open") \/ \E k : Step(p, k, "create"))
    BY <1>2 DEF WriteJournal, StepAfter, Resolving
  <2> QED
    BY <1>0, <1>2, <2>1, ElsewhereIs DEF WriteJournal, files
<1>3. CASE CreatePacket(p)
  <2>1. at[p] \notin Resolving /\ \E label \in {"commit", "create"} : \E k : Step(p, k, label)
    BY <1>3 DEF CreatePacket, StepAfter, Resolving
  <2> QED
    BY <1>0, <1>3, <2>1, ElsewhereIs DEF CreatePacket
<1>4. CASE Commit(p)
  <2>1. at[p] \notin Resolving /\ (Leave(p, "open") \/ \E k : Step(p, k, "unjournal"))
    BY <1>4 DEF Commit, Resolving
  <2> QED
    BY <1>0, <1>4, <2>1, ElsewhereIs DEF Commit, files
<1>5. CASE RemoveJournal(p)
  <2>1. at[p] \notin Resolving /\ Leave(p, "open")
    BY <1>5 DEF RemoveJournal, Resolving
  <2> QED
    BY <1>0, <1>5, <2>1, ElsewhereIs DEF RemoveJournal, files
<1>6. CASE MoveCheckpoint(p)
  BY <1>6 DEF MoveCheckpoint, IsElsewhere, Resolving, procs, files
<1>7. CASE FailOperation(p) \/ FailLate(p) \/ CrashInOperation(p)
  <2>1. at[p] \notin Resolving /\ \E label \in {"open", "closed"} : Leave(p, label)
    BY <1>7 DEF FailOperation, FailLate, CrashInOperation, Resolving
  <2> QED
    BY <1>0, <1>7, <2>1, ElsewhereIs DEF FailOperation, FailLate, CrashInOperation, files
<1>8. CASE OpenImport(p)
  <2>1. at[p] \notin Resolving /\ \E label \in {"open", "opening"} : Goto(p, label)
    BY <1>8 DEF OpenImport, Resolving
  <2> QED
    BY <1>0, <1>8, <2>1, ElsewhereIs DEF OpenImport, files
<1>9. CASE OpenSession(p)
  <2>1. at[p] \notin Resolving /\ UNCHANGED lock
        /\ \/ Goto(p, "open") /\ UNCHANGED job
           \/ Goto(p, "judge") /\ \E j : job' = [job EXCEPT ![p] = j]
    BY <1>9 DEF OpenSession, Resolving
  <2> QED
    BY <1>0, <1>9, <2>1, ElsewhereIs DEF OpenSession, files
<1>10. CASE AcquireToRecover(p)
  <2>1. at[p] \notin Resolving /\ Enter(p, NoJob, "recover")
    BY <1>10 DEF AcquireToRecover, Resolving
  <2> QED
    BY <1>0, <1>10, <2>1, ElsewhereIs DEF AcquireToRecover, files
<1>11. CASE Recover(p)
  <2>1. at[p] \notin Resolving
        /\ \/ \E label \in {"open", "closed"} : Leave(p, label)
           \/ Goto(p, "drop") /\ UNCHANGED lock /\ \E j : job' = [job EXCEPT ![p] = j]
    BY <1>11 DEF Recover, Resolving
  <2> QED
    BY <1>0, <1>11, <2>1, ElsewhereIs DEF Recover, files
<1>12. CASE DropJournal(p)
  <2>1. at[p] \notin Resolving /\ Goto(p, "recover") /\ UNCHANGED lock
        /\ job' = [job EXCEPT ![p] = NoJob]
    BY <1>12 DEF DropJournal, Resolving
  <2> QED
    BY <1>0, <1>12, <2>1, ElsewhereIs DEF DropJournal, files
<1>13. CASE JudgeJournal(p)
  <2>1. at[p] \notin Resolving
        /\ \/ Leave(p, "closed")
           \/ \E label \in {"discard", "promote"} : Goto(p, label) /\ UNCHANGED <<lock, job>>
    BY <1>13 DEF JudgeJournal, Verdict, Resolving
  <2> QED
    BY <1>0, <1>13, <2>1, ElsewhereIs DEF JudgeJournal, files
<1>14. CASE DiscardJournal(p)
  <2>1. at[p] \notin Resolving /\ Leave(p, "open")
    BY <1>14 DEF DiscardJournal, Resolving
  <2> QED
    BY <1>0, <1>14, <2>1, ElsewhereIs DEF DiscardJournal, files
<1>15. CASE RepeatPromotion(p)
  <2>1. at[p] \notin Resolving /\ (Leave(p, "closed") \/ \E j : Enter(p, j, "commit"))
    BY <1>15 DEF RepeatPromotion, Resolving
  <2> QED
    BY <1>0, <1>15, <2>1, ElsewhereIs DEF RepeatPromotion, files
<1> QED
  BY <1>1, <1>2, <1>3, <1>4, <1>5, <1>6, <1>7, <1>8, <1>9, <1>10, <1>11, <1>12, <1>13, <1>14, <1>15
     DEF Originate, Origination, OriginRecovery

(* The ways on of the capture route.                                       *)
GoesOn(p) ==
    \/ \E again \in BOOLEAN : ToRecovery(p, again)
    \/ Refuse(p)
    \/ Settled(p)
    \/ \E label \in {"closed", "open"} : Leave(p, label)
    \/ \E label \in Reviewing \cup Settling : \E k : Step(p, k, label)

LEMMA CaptureGoesOn ==
  ASSUME Typed, NEW p \in Procs, GoesOn(p),
         at[p] \in {"plan"} \cup Reviewing \cup Settling \/ (at[p] = "recover" /\ route = "capture")
  PROVE  IsElsewhere(p)
<1>0. /\ Frame /\ job[p] \in Attempt /\ at[p] \notin Resolving
      /\ {"closed", "open", "recover", "plan"} \cup Reviewing \cup Settling \subseteq Idles
  BY IdleLabels DEF Typed, JobFits, Reviewing, Settling, Resolving
<1>1. job[p].back \in {"closed", "open"} /\ job[p].next \in {"open", "plan"}
  BY <1>0 DEF Attempt
<1>2. ASSUME NEW again \in BOOLEAN, ToRecovery(p, again) PROVE IsElsewhere(p)
  <2>1. /\ Goto(p, "recover") /\ UNCHANGED lock
        /\ job' = [job EXCEPT ![p] = [job[p] EXCEPT !.next = "open", !.again = again, !.k = 1]]
    BY <1>2 DEF ToRecovery
  <2> QED
    BY <1>0, <2>1, ElsewhereIs
<1>3. ASSUME NEW label \in {"closed", "open"}, Leave(p, label) PROVE IsElsewhere(p)
  BY <1>0, <1>3, ElsewhereIs
<1>4. CASE Refuse(p)
  BY <1>1, <1>2, <1>3, <1>4 DEF Refuse
<1>5. CASE Settled(p)
  <2>1. CASE job[p].next = "plan"
    <3>1. /\ Goto(p, "plan") /\ UNCHANGED lock
          /\ job' = [job EXCEPT ![p] = [job[p] EXCEPT !.acts = job[p].plan, !.k = 1]]
      BY <1>5, <2>1 DEF Settled
    <3> QED
      BY <1>0, <3>1, ElsewhereIs
  <2>2. CASE job[p].next # "plan"
    BY <1>1, <1>3, <1>5, <2>2 DEF Settled
  <2> QED
    BY <2>1, <2>2
<1>6. ASSUME NEW label \in Reviewing \cup Settling, NEW k, Step(p, k, label) PROVE IsElsewhere(p)
  BY <1>0, <1>6, ElsewhereIs
<1> QED
  BY <1>2, <1>3, <1>4, <1>5, <1>6 DEF GoesOn

LEMMA NextItemGoesOn ==
  ASSUME NEW p \in Procs, NEW label \in Reviewing \cup Settling, NextItem(p, label),
         at[p] \in Reviewing \cup Settling
  PROVE  GoesOn(p)
BY DEF NextItem, StepAfter, GoesOn

LEMMA CapturesElsewhere ==
  ASSUME Typed, NEW p \in Procs, Captures(p)
  PROVE  IsElsewhere(p) /\ UNCHANGED <<setting, resolved, record, cut>>
<1>1. CASE OpenCapture(p) \/ AcquireCapture(p)
  <2>1. /\ at[p] \notin Resolving /\ {"open", "opening", "recover"} \subseteq Idles /\ Frame
        /\ \/ \E label \in {"open", "opening"} : Goto(p, label) /\ UNCHANGED <<lock, job>>
           \/ \E j : Enter(p, j, "recover")
    BY <1>1, IdleLabels DEF OpenCapture, AcquireCapture, Resolving, Typed
  <2> QED
    BY <1>1, <2>1, ElsewhereIs DEF OpenCapture, AcquireCapture, files
<1>2. ASSUME NEW batch \in Batches, NEW acts \in [batch -> Acts], StartCapture(p, acts)
      PROVE  IsElsewhere(p) /\ UNCHANGED <<setting, resolved, record, cut>>
  <2> DEFINE j == Recovery(acts, attempts + 1, "open", "plan")
  <2>1. /\ at[p] \notin Resolving /\ "recover" \in Idles /\ Frame
        /\ \/ Enter(p, j, "recover")
           \/ job' = [job EXCEPT ![p] = j] /\ Goto(p, "recover") /\ UNCHANGED lock
    BY <1>2, IdleLabels DEF StartCapture, Resolving, Typed
  <2> HIDE DEF j
  <2> QED
    BY <1>2, <2>1, ElsewhereIs DEF StartCapture, files
<1>3. CASE CheckPlan(p)
  <2>1. at[p] \in {"plan"} \cup Reviewing \cup Settling /\ GoesOn(p)
    BY <1>3 DEF CheckPlan, Reviewing, Settling, GoesOn
  <2> QED
    BY <1>3, <2>1, CaptureGoesOn DEF CheckPlan, files
<1>4. CASE Announce(p)
  <2>1. at[p] \in {"plan"} \cup Reviewing \cup Settling /\ GoesOn(p)
    BY <1>4 DEF Announce, StepAfter, Reviewing, Settling, GoesOn
  <2> QED
    BY <1>4, <2>1, CaptureGoesOn DEF Announce, files
<1>5. CASE StageOne(p)
  <2>1. at[p] \in {"plan"} \cup Reviewing \cup Settling /\ GoesOn(p)
    BY <1>5, NextItemGoesOn DEF StageOne, Reviewing, Settling, GoesOn
  <2> QED
    BY <1>5, <2>1, CaptureGoesOn DEF StageOne, files
<1>6. CASE Place(p)
  <2>1. at[p] \in {"plan"} \cup Reviewing \cup Settling /\ GoesOn(p)
    BY <1>6 DEF Place, Reviewing, Settling, GoesOn
  <2> QED
    BY <1>6, <2>1, CaptureGoesOn DEF Place
<1>7. CASE Own(p)
  <2>1. at[p] \in {"plan"} \cup Reviewing \cup Settling /\ GoesOn(p)
    BY <1>7 DEF Own, StepAfter, Reviewing, Settling, GoesOn
  <2> QED
    BY <1>7, <2>1, CaptureGoesOn DEF Own, files
<1>8. CASE Record(p)
  <2>1. at[p] \in {"plan"} \cup Reviewing \cup Settling /\ GoesOn(p)
    BY <1>8 DEF Record, Reviewing, Settling, GoesOn
  <2> QED
    BY <1>8, <2>1, CaptureGoesOn DEF Record, files
<1>9. CASE RecoverCapture(p)
  <2>1. /\ at[p] = "recover" /\ route = "capture" /\ Frame /\ at[p] \in Capturing
        /\ at[p] \notin Resolving /\ {"complete", "undo"} \subseteq Idles
    BY <1>9, IdleLabels DEF RecoverCapture, Capturing, Typed, Resolving, Settling
  <2>2. \/ Refuse(p) \/ Settled(p)
        \/ \E label \in {"complete", "undo"} :
              /\ Goto(p, label) /\ UNCHANGED lock
              /\ \E j : job' = [job EXCEPT ![p] = j]
    <3>1. ASSUME NEW j, NEW i, job' = [job EXCEPT ![p].acts = j.acts, ![p].loaded = j.at,
                                       ![p].mine = owned[home[p]], ![p].k = i]
          PROVE  \E b : job' = [job EXCEPT ![p] = b]
      <4>1. job' = [job EXCEPT ![p] = [job[p] EXCEPT !.acts = j.acts, !.loaded = j.at,
                                       !.mine = owned[home[p]], !.k = i]]
        BY <3>1
      <4> QED
        BY <4>1
    <3> QED
      BY <1>9, <3>1 DEF RecoverCapture
  <2>3. ASSUME Refuse(p) \/ Settled(p) PROVE IsElsewhere(p)
    <3>1. GoesOn(p)
      BY <2>3 DEF GoesOn
    <3> QED
      BY <2>1, <3>1, CaptureGoesOn
  <2>4. ASSUME NEW label \in {"complete", "undo"}, Goto(p, label), UNCHANGED lock,
               \E j : job' = [job EXCEPT ![p] = j]
        PROVE  IsElsewhere(p)
    BY <2>1, <2>4, ElsewhereIs
  <2> QED
    BY <1>9, <2>2, <2>3, <2>4 DEF RecoverCapture, files
<1>10. CASE Complete(p)
  <2>1. at[p] \in {"plan"} \cup Reviewing \cup Settling /\ GoesOn(p)
    BY <1>10, NextItemGoesOn DEF Complete, Reviewing, Settling, GoesOn
  <2> QED
    BY <1>10, <2>1, CaptureGoesOn DEF Complete
<1>11. CASE Clear(p)
  <2>1. at[p] \in {"plan"} \cup Reviewing \cup Settling /\ GoesOn(p)
    BY <1>11, NextItemGoesOn DEF Clear, Reviewing, Settling, GoesOn
  <2> QED
    BY <1>11, <2>1, CaptureGoesOn DEF Clear, files
<1>12. CASE UndoInstall(p)
  <2>1. at[p] \in {"plan"} \cup Reviewing \cup Settling /\ GoesOn(p)
    BY <1>12, NextItemGoesOn DEF UndoInstall, Reviewing, Settling, GoesOn
  <2> QED
    BY <1>12, <2>1, CaptureGoesOn DEF UndoInstall
<1>13. CASE Disown(p)
  <2>1. at[p] \in {"plan"} \cup Reviewing \cup Settling /\ GoesOn(p)
    BY <1>13 DEF Disown, Reviewing, Settling, GoesOn
  <2> QED
    BY <1>13, <2>1, CaptureGoesOn DEF Disown, files
<1>14. CASE Retire(p)
  <2>1. at[p] \in {"plan"} \cup Reviewing \cup Settling /\ GoesOn(p)
    BY <1>14 DEF Retire, Reviewing, Settling, GoesOn
  <2> QED
    BY <1>14, <2>1, CaptureGoesOn DEF Retire, files
<1>15. CASE FailCapture(p)
  <2>1. at[p] \in {"plan"} \cup Reviewing \cup Settling /\ GoesOn(p)
    BY <1>15 DEF FailCapture, Reviewing, Settling, GoesOn
  <2> QED
    BY <1>15, <2>1, CaptureGoesOn DEF FailCapture, files
<1>16. CASE CrashInCapture(p)
  <2>1. at[p] \in {"plan"} \cup Reviewing \cup Settling /\ GoesOn(p)
    BY <1>16 DEF CrashInCapture, Reviewing, Settling, GoesOn
  <2> QED
    BY <1>16, <2>1, CaptureGoesOn DEF CrashInCapture
<1> QED
  BY <1>1, <1>2, <1>3, <1>4, <1>5, <1>6, <1>7, <1>8, <1>9, <1>10, <1>11, <1>12, <1>13, <1>14, <1>15,
     <1>16 DEF Captures, Capture, CaptureRecovery

LEMMA ResolutiveStep == Typed /\ Resolutive /\ [Next]_vars => Resolutive'
<1> SUFFICES ASSUME Typed, Resolutive, [Next]_vars PROVE Resolutive'
  OBVIOUS
<1>0. Frame
  BY DEF Typed
<1>1. ASSUME NEW p \in Procs, Store(p) PROVE Resolutive'
  BY <1>1, ResolveTells, MoveTells, WriteTells, InstallTells, FinishTells, RollbackTells, CrashTells
     DEF Store, Resolution
<1>2. ASSUME NEW p \in Procs, Originate(p) \/ Captures(p) \/ Serve(p) PROVE Resolutive'
  BY <1>0, <1>2, OriginateElsewhere, CapturesElsewhere, ServeElsewhere, ElsewhereMoves
<1>3. ASSUME UNCHANGED <<setting, resolved, record, procs, cut>> PROVE Resolutive'
  <2>1. changes' = changes /\ \A t : AppliedIn(t)' = AppliedIn(t) /\ CutIn(t)' = CutIn(t)
    BY <1>3, ChangesStay DEF AppliedIn, CutIn, setting
  <2> QED
    BY <1>3, <2>1 DEF Resolutive, InFlight, IsTold, IsQuiet, setting, procs
<1>4. ASSUME NEW t \in Trees, NEW pk \in Packets, Edit(t, pk) PROVE Resolutive'
  BY <1>3, <1>4 DEF Edit
<1>5. CASE UNCHANGED vars
  BY <1>3, <1>5 DEF vars, files
<1> QED
  BY <1>1, <1>2, <1>4, <1>5, NextIs

LEMMA ResolutiveInit == Init => Resolutive
<1> SUFFICES ASSUME Init PROVE Resolutive
  OBVIOUS
<1>1. ASSUME NEW t \in Trees PROVE IsTold(t)
  <2>1. AppliedIn(t) = {} /\ \A i \in Items : record[t][i] = "none"
    BY TargetAssumption DEF AppliedIn, Init, InitStore, Records
  <2>2. record[t][Target] = "active"
    BY DEF Init, InitStore, Records
  <2> QED
    BY <2>1, <2>2 DEF IsTold, Story
<1> QED
  BY <1>1 DEF Resolutive, Init, InitStore, Resolving

LEMMA ResolutiveAlways == Spec => []Resolutive
BY TypedAlways, TypedInit, TypedStep, ResolutiveInit, ResolutiveStep, PTL DEF Spec

(* What the invariant says of the packets applied and in the middle.       *)
LEMMA ResolutiveTells ==
  ASSUME Typed, Resolutive, NEW t \in Trees
  PROVE  Story(changes, record[t], Applied(t), InTheMiddle(t))
<1>1. CASE \A p \in Procs : at[p] \in {"write", "install", "finish"} => home[p] # t
  <2>1. \A pk : ~IsHeld(t, pk)
    BY <1>1 DEF IsHeld, Held
  <2>2. Applied(t) = AppliedIn(t) /\ InTheMiddle(t) = CutIn(t)
    BY <2>1 DEF Applied, InTheMiddle, AppliedIn, CutIn
  <2>3. CASE IsQuiet(t)
    BY <2>2, <2>3 DEF Resolutive, IsTold
  <2>4. ASSUME NEW p \in Procs, at[p] \in Resolving, home[p] = t
        PROVE  Story(changes, record[t], AppliedIn(t), CutIn(t))
    <3>1. at[p] = "move"
      BY <1>1, <2>4 DEF Resolving
    <3>2. /\ job[p] \in Resolutions /\ changes \in ChangeMaps
          /\ AppliedIn(t) \in SUBSET Packets /\ CutIn(t) \in SUBSET Packets
          /\ job[p].pk \in AppliedIn(t) <=> resolved[t][job[p].pk] = "applied"
          /\ Midway(changes, "move", job[p], record[t], resolved[t][job[p].pk],
                    AppliedIn(t), CutIn(t))
      BY <2>4, <3>1, ResolverKnows DEF InFlight
    <3> QED
      BY <3>2, MidwayTells DEF Resolving
  <2> QED
    BY <2>2, <2>3, <2>4 DEF IsQuiet
<1>2. ASSUME NEW p \in Procs, at[p] \in {"write", "install", "finish"}, home[p] = t
      PROVE  Story(changes, record[t], Applied(t), InTheMiddle(t))
  <2>0. at[p] \in Resolving
    BY <1>2 DEF Resolving
  <2>1. \A q \in Procs : at[q] \in Resolving => q = p
    BY <2>0 DEF Resolutive
  <2>2. \A pk : IsHeld(t, pk) <=> pk = job[p].pk
    BY <1>2, <2>1 DEF IsHeld, Held, Resolving
  <2>3. Applied(t) = AppliedIn(t) \ {job[p].pk} /\ InTheMiddle(t) = CutIn(t) \cup {job[p].pk}
    BY <2>0, <2>2, ResolverKnows DEF Applied, InTheMiddle, AppliedIn, CutIn
  <2> QED
    BY <1>2, <2>0, <2>3, ResolverKnows, MidwayTells DEF InFlight
<1> QED
  BY <1>1, <1>2

LEMMA ChangesAre == \A pk \in Packets : changes[pk[1]] = ChangeOf(pk[1])
BY DEF changes, Packets

(* Whatever is applied shows in the records, and whatever the records show *)
(* comes from a packet that was applied, is being resolved or was cut off  *)
(* in its resolution by a crash: for any mixture of the routes' processes, *)
(* rollbacks and crashes (apply_file_proposal, rollback_file_resolution).  *)
THEOREM RecordsAlwaysMatch == Spec => []ResolutionMatchesRecords
<1>1. Typed /\ Resolutive => ResolutionMatchesRecords
  <2> SUFFICES ASSUME Typed, Resolutive, NEW t \in Trees
               PROVE  /\ \A pk \in Applied(t) :
                            /\ ChangeOf(pk[1]) # "tombstone" => record[t][pk[1]] # "none"
                            /\ ChangeOf(pk[1]) = "supersede" => record[t][Target] = "superseded"
                            /\ ChangeOf(pk[1]) = "tombstone" => record[t][Target] = "tombstoned"
                      /\ \A i \in Items : record[t][i] # "none" =>
                            \E pk \in Applied(t) \cup InTheMiddle(t) : pk[1] = i
                      /\ record[t][Target] # "active" =>
                            \E pk \in Applied(t) \cup InTheMiddle(t) : ChangeOf(pk[1]) # "create"
    BY DEF ResolutionMatchesRecords
  <2>1. Story(changes, record[t], Applied(t), InTheMiddle(t))
    BY ResolutiveTells
  <2>2. Applied(t) \subseteq Packets /\ InTheMiddle(t) \subseteq Packets
    BY DEF Applied, InTheMiddle
  <2> QED
    BY <2>1, <2>2, ChangesAre DEF Story, Shown
<1> QED
  BY <1>1, TypedAlways, ResolutiveAlways, PTL

(* No record is created twice and none is changed by two packets: the      *)
(* check under the lock that the target is still current, and that nothing *)
(* has the candidate's name, is never out of date when the writes begin.   *)
THEOREM OneDecisionAlways == Spec => []OneDecisionPerRecord
<1>1. Typed /\ Resolutive => OneDecisionPerRecord
  <2> SUFFICES ASSUME Typed, Resolutive, NEW t \in Trees, NEW pk1 \in Applied(t),
                      NEW pk2 \in Applied(t), pk1 # pk2
               PROVE  /\ pk1[1] # pk2[1]
                      /\ ChangeOf(pk1[1]) = "create" \/ ChangeOf(pk2[1]) = "create"
    BY DEF OneDecisionPerRecord
  <2>1. Story(changes, record[t], Applied(t), InTheMiddle(t))
    BY ResolutiveTells
  <2>2. Applied(t) \subseteq Packets
    BY DEF Applied
  <2> QED
    BY <2>1, <2>2, ChangesAre DEF Story, Compatible
<1> QED
  BY <1>1, TypedAlways, ResolutiveAlways, PTL
===============================================================================
