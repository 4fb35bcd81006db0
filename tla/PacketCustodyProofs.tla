-------------------------- MODULE PacketCustodyProofs --------------------------
(***************************************************************************)
(* Theorems about what becomes of a packet between the files, the journals *)
(* and the recorded outcomes of PacketRoutes, and its whole life as        *)
(* PacketLife has it.                                                      *)
(***************************************************************************)
EXTENDS PacketProofs

(* No worktree in which captures are applied has two processes.  Where one *)
(* has, a capture that writes nothing recovers without the lock and may    *)
(* take another one's batch away before it commits.                        *)
Unshared ==
    \A case \in Cases : case.route = "capture" =>
        \A p, q \in Procs : case.home[p] = case.home[q] => p = q

-------------------------------------------------------------------------------
(* The files.                                                              *)

(* Packets a resolver took away and would bring back as they were made.    *)
Takers == {p \in Procs : at[p] \in {"write", "install", "finish"} /\ job[p].seen = "whole"}
Taken == {<<home[p], job[p].pk>> : p \in Takers}

IsWhole(t, pk) == pending[t][pk] = "whole" \/ <<t, pk>> \in Taken
IsLoose(t, pk) == pending[t][pk] \in {"whole", "torn"} \/ <<t, pk>> \in Taken
IsKept(t, pk)  == IsKnown(t, pk) \/ IsHeld(t, pk) \/ <<t, pk>> \in cut

(* No other copy of its candidate is there unchanged.                      *)
IsAlone(t, pk) == \A c \in Copies : c # pk[2] => ~IsWhole(t, <<pk[1], c>>)

(* A recorded packet is kept in a worktree whose journal will not undo it. *)
IsSafe(t, pk) ==
    /\ IsKept(t, pk)
    /\ route = "capture" =>
         \A j \in journals[t] : pk \in PacketsOf(j.acts) => IsCommitted(t, j)

IsJournaledIn(t, pk) == \E j \in journals[t] : pk \in PacketsOf(j.acts)

Accounted ==
    route # "manual" =>
        \A t \in Trees \ raced, pk \in Packets :
            IsLoose(t, pk) /\ ~IsSeen(pk[1]) => IsJournaledIn(t, pk)
Backed ==
    \A i \in Items : outcome[i].kind = "created" =>
        outcome[i].copy \in Copies /\ \E t \in Trees : IsSafe(t, <<i, outcome[i].copy>>)
Twinless == \A t \in Trees \ raced, pk \in Packets : IsWhole(t, pk) => IsAlone(t, pk)

-------------------------------------------------------------------------------
(* The journals.                                                           *)

(* What is planned to be replayed is recorded and nothing else is.         *)
Fits(acts) == \A i \in DOMAIN acts : IsSeen(i) <=> acts[i] = Replayed
IsWholeBatch(acts) == Creates(acts) = Items

(* A capture journal is alone in its worktree, and committed only when its *)
(* outcomes are recorded.                                                  *)
Batched ==
    route = "capture" =>
        \A t \in Trees :
            /\ marker[t] <= attempts
            /\ \A j, k \in journals[t] : j = k
            /\ \A j \in journals[t] :
                 /\ IsCommitted(t, j) => \A i \in DOMAIN j.acts : IsSeen(i)
                 /\ \A pk \in PacketsOf(j.acts) : IsAlone(t, pk)

Promoted ==
    route = "session_end" =>
        /\ \A i, n \in Items : IsSeen(i) => IsSeen(n)
        /\ \A t \in Trees : \A j \in journals[t] : IsWholeBatch(j.acts)

-------------------------------------------------------------------------------
(* The processes.                                                          *)

Locked(p) ==
    /\ at[p] \in Originating \cup Reviewing => lock = p
    /\ at[p] \in {"recover", "drop"} /\ route = "import" => lock = p
    /\ at[p] \in {"recover", "plan"} \cup Settling /\ route = "capture" =>
         (TakesLock(job[p].plan) => lock = p)

(* Of the packets of acts, the files before candidate k are there, and     *)
(* those from it on are not.                                               *)
IsUpTo(t, acts, k) ==
    \A pk \in PacketsOf(acts) :
        IF pk[1] < k THEN pending[t][pk] \in Readable ELSE pending[t][pk] = "none"
IsMade(t, acts) == \A pk \in PacketsOf(acts) : pending[t][pk] \in Readable
IsGone(t, acts) == \A pk \in PacketsOf(acts) : pending[t][pk] = "none"
AllAlone(t, acts) == \A pk \in PacketsOf(acts) : IsAlone(t, pk)

(* An import or a promotion.                                               *)
Originates(p) ==
    LET t == home[p]  j == job[p]
    IN /\ at[p] \in {"journal", "create"} => ~j.recovering
       /\ at[p] \in {"journal", "create", "commit"} /\ ~j.recovering => Fits(j.acts)
       /\ at[p] = "journal" => IsGone(t, j.acts) /\ (route = "import" => AllAlone(t, j.acts))
       /\ at[p] = "create" =>
            /\ IsUpTo(t, j.acts, j.k)
            /\ t \notin raced => JournalOf(j) \in journals[t] /\ AllAlone(t, j.acts)
       /\ at[p] = "commit" => IsMade(t, j.acts)
       /\ at[p] = "unjournal" => \A i \in Creates(j.acts) : IsSeen(i)
       /\ at[p] = "drop" =>
            \A pk \in PacketsOf(j.j.acts) : pending[t][pk] = "none" \/ IsSeen(pk[1])
       /\ route = "session_end" =>
            /\ at[p] \in Originating => IsWholeBatch(j.acts)
            /\ at[p] \in Judging => IsWholeBatch(j.j.acts)

(* A capture that is applied, before its commit.                           *)
IsAhead(p) ==
    \/ at[p] \in {"plan"} \cup Reviewing
    \/ at[p] \in {"recover"} \cup Settling /\ job[p].next = "plan"

Reviews(p) ==
    LET t == home[p]  j == job[p]
    IN /\ at[p] = "plan" => j.acts = j.plan
       /\ at[p] \in Reviewing => Fits(j.acts)
       /\ IsAhead(p) => marker[t] < j.at /\ j.at <= attempts
       /\ at[p] \in {"announce", "stage"} => IsGone(t, j.acts)
       /\ at[p] = "announce" => AllAlone(t, j.acts)
       /\ at[p] \in {"stage", "place", "own"} => journals[t] = {JournalOf(j)}
       /\ at[p] = "place" => IsUpTo(t, j.acts, j.k)
       /\ at[p] = "own" => IsUpTo(t, j.acts, j.k + 1)
       /\ at[p] = "record" =>
            IsMade(t, j.acts) /\ (Creates(j.acts) # {} => journals[t] = {JournalOf(j)})

(* The recovery of a capture.                                              *)
Settles(p) ==
    LET t == home[p]  j == job[p]
    IN at[p] \in Settling =>
       /\ \E b \in journals[t] : b.acts = j.acts /\ b.at = j.loaded
       /\ at[p] \in {"complete", "clear"} => marker[t] = j.loaded
       /\ at[p] = "undo" =>
            /\ marker[t] # j.loaded
            /\ \A pk \in PacketsOf(j.acts) :
                 /\ pending[t][pk] # "none" => pk[1] \in j.mine
                 /\ pk[1] < j.k => pending[t][pk] \in {"none", "edited"}
       /\ at[p] \in {"disown", "retire"} =>
            \A pk \in PacketsOf(j.acts) :
                IsSeen(pk[1]) \/ pending[t][pk] \in {"none", "edited"}

IsAtWork(p) == Originates(p) /\ (route = "capture" => Reviews(p) /\ Settles(p))

Orderly == \A p \in Procs : Locked(p)

OwnTrees == route = "capture" => \A p, q \in Procs : home[p] = home[q] => p = q

Books == OwnTrees /\ Accounted /\ Backed /\ Twinless /\ Batched /\ Promoted
Custody == Books /\ \A p \in Procs : IsAtWork(p)

-------------------------------------------------------------------------------
(* The lock.                                                               *)

(* What a process does next with its capture.                              *)
CaptureGoes(p) ==
    \/ \E label \in {"closed", "open"} : Leave(p, label)
    \/ /\ UNCHANGED lock /\ job'[p].plan = job[p].plan
       /\ \/ at'[p] \in {"recover", "plan"} \cup Settling
          \/ at'[p] \in Reviewing /\ lock = p

LEMMA RefuseGoes ==
  ASSUME Frame, NEW p \in Procs, job[p] \in Attempt, NEW again \in BOOLEAN,
         ToRecovery(p, again) \/ Refuse(p)
  PROVE  CaptureGoes(p)
<1>1. ASSUME NEW b \in BOOLEAN, ToRecovery(p, b) PROVE CaptureGoes(p)
  <2>1. /\ UNCHANGED lock /\ Goto(p, "recover") /\ "recover" \in Labels
        /\ job' = [job EXCEPT ![p] = [job[p] EXCEPT !.next = "open", !.again = b, !.k = 1]]
    BY <1>1 DEF ToRecovery, Labels
  <2>2. at'[p] = "recover" /\ job'[p].plan = job[p].plan
    BY <2>1, GotoMoves, JobMoves DEF Attempt
  <2> QED
    BY <2>1, <2>2 DEF CaptureGoes
<1> QED
  BY <1>1 DEF Refuse, CaptureGoes, Attempt

LEMMA SettledGoes ==
  ASSUME Frame, NEW p \in Procs, job[p] \in Attempt, Settled(p)
  PROVE  CaptureGoes(p)
<1>1. CASE job[p].next = "plan"
  <2>1. /\ UNCHANGED lock /\ Goto(p, "plan") /\ "plan" \in Labels
        /\ job' = [job EXCEPT ![p] = [job[p] EXCEPT !.acts = job[p].plan, !.k = 1]]
    BY <1>1 DEF Settled, Labels
  <2>2. at'[p] = "plan" /\ job'[p].plan = job[p].plan
    BY <2>1, GotoMoves, JobMoves DEF Attempt
  <2> QED
    BY <2>1, <2>2 DEF CaptureGoes
<1>2. CASE job[p].next # "plan"
  BY <1>2 DEF Settled, Attempt, CaptureGoes
<1> QED
  BY <1>1, <1>2

Advances(p, k, label) == Step(p, k, label) \/ StepAfter(p, k, label) \/ NextItem(p, label)

LEMMA StepGoes ==
  ASSUME Frame, NEW p \in Procs, job[p] \in Attempt, NEW label, NEW k, Advances(p, k, label),
         label \in Reviewing \cup Settling, at[p] \in Reviewing \cup Settling,
         label \in Settling \/ lock = p, at[p] \in Settling \/ lock = p
  PROVE  CaptureGoes(p)
<1>1. ASSUME NEW l \in {label, at[p]}, NEW i, Step(p, i, l) PROVE CaptureGoes(p)
  <2>1. l \in Labels /\ (l \in Settling \/ (l \in Reviewing /\ lock = p))
    BY DEF Labels
  <2>2. at'[p] = l /\ job'[p] = [job[p] EXCEPT !.k = i] /\ lock' = lock
    BY <1>1, <2>1, StepMoves
  <2>3. job'[p].plan = job[p].plan
    BY <2>2 DEF Attempt
  <2> QED
    BY <2>1, <2>2, <2>3 DEF CaptureGoes
<1> QED
  BY <1>1 DEF Advances, StepAfter, NextItem

LEMMA LockedGoes ==
  ASSUME Typed, NEW p \in Procs, Locked(p), route = "capture", UNCHANGED setting, CaptureGoes(p),
         at[p] \in {"recover", "plan"} \cup Reviewing \cup Settling
  PROVE  Locked(p)'
<1>1. ASSUME NEW label \in {"closed", "open"}, Leave(p, label) PROVE Locked(p)'
  <2>1. at'[p] = label
    BY <1>1, LeaveMoves DEF Typed, Labels
  <2> QED
    BY <2>1 DEF Locked, Originating, Reviewing, Settling
<1>2. CASE /\ UNCHANGED lock /\ job'[p].plan = job[p].plan
           /\ at'[p] \in {"recover", "plan"} \cup Settling
  BY <1>2 DEF Locked, setting, Originating, Reviewing, Settling, TakesLock
<1>3. CASE UNCHANGED lock /\ at'[p] \in Reviewing /\ lock = p
  BY <1>3 DEF Locked
<1> QED
  BY <1>1, <1>2, <1>3 DEF CaptureGoes

LEMMA LockedOriginate ==
  ASSUME Typed, Typed', NEW p \in Procs, Locked(p), Originate(p)
  PROVE  Locked(p)'
<1>0. Frame /\ UNCHANGED setting /\ NoProc \notin Procs
  BY OriginateElsewhere, CasesAssumption DEF Typed
<1>1. ASSUME NEW label \in {"closed", "open"}, Leave(p, label) PROVE Locked(p)'
  <2>1. at'[p] = label
    BY <1>0, <1>1, LeaveMoves DEF Labels
  <2> QED
    BY <2>1 DEF Locked, Originating, Reviewing, Settling
<1>2. ASSUME NEW label \in {"opening", "open"}, Goto(p, label) PROVE Locked(p)'
  <2>1. at'[p] = label
    BY <1>0, <1>2, GotoMoves DEF Labels
  <2> QED
    BY <2>1 DEF Locked, Originating, Reviewing, Settling
<1>3. ASSUME NEW j, NEW label \in Labels, Enter(p, j, label), route # "capture" PROVE Locked(p)'
  BY <1>0, <1>3, EnterMoves DEF Locked, setting
<1>4. ASSUME NEW k, NEW label \in Originating, Step(p, k, label), at[p] \in Originating PROVE Locked(p)'
  <2>1. at'[p] = label /\ lock' = lock
    BY <1>0, <1>4, StepMoves DEF Labels
  <2> QED
    BY <1>4, <2>1 DEF Locked, Originating, Reviewing, Settling
<1>5. ASSUME NEW label \in Judging, Goto(p, label) PROVE Locked(p)'
  <2>1. at'[p] = label
    BY <1>0, <1>5, GotoMoves DEF Labels
  <2> QED
    BY <2>1 DEF Locked, Originating, Reviewing, Settling, Judging
<1>6. ASSUME NEW label \in {"recover", "drop"}, Goto(p, label), UNCHANGED lock, route = "import",
             at[p] \in {"recover", "drop"}
      PROVE Locked(p)'
  <2>1. at'[p] = label
    BY <1>0, <1>6, GotoMoves DEF Labels
  <2> QED
    BY <1>0, <1>6, <2>1 DEF Locked, Originating, Reviewing, Settling, setting
<1>7. ASSUME NEW batch \in Batches \cup {Items}, NEW acts \in [batch -> Acts],
             StartImport(p, acts) \/ StartPromotion(p, acts)
      PROVE  Locked(p)'
  <2>1. PICK label \in {"journal", "commit"} : Enter(p, Begin(acts), label)
    BY <1>7 DEF StartImport, StartPromotion
  <2>2. label \in Labels /\ route # "capture"
    BY <1>7 DEF Labels, Originating, StartImport, StartPromotion
  <2> QED
    BY <1>3, <2>1, <2>2
<1>8. CASE WriteJournal(p) \/ CreatePacket(p) \/ Commit(p) \/ RemoveJournal(p)
  BY <1>8, <1>1, <1>4 DEF WriteJournal, CreatePacket, Commit, RemoveJournal, StepAfter, Originating
<1>9. CASE FailOperation(p) \/ FailLate(p) \/ CrashInOperation(p)
  BY <1>9, <1>1 DEF FailOperation, FailLate, CrashInOperation
<1>10. CASE OpenImport(p) \/ AcquireToRecover(p)
  BY <1>10, <1>2, <1>3 DEF OpenImport, AcquireToRecover, Labels
<1>11. CASE Recover(p)
  BY <1>11, <1>1, <1>6 DEF Recover
<1>12. CASE DropJournal(p)
  <2>1. route = "import"
    BY <1>12 DEF DropJournal, Typed, JobFits
  <2> QED
    BY <1>12, <1>6, <2>1 DEF DropJournal
<1>13. CASE OpenSession(p) \/ JudgeJournal(p) \/ DiscardJournal(p)
  BY <1>13, <1>1, <1>2, <1>5 DEF OpenSession, JudgeJournal, DiscardJournal, Verdict, Judging
<1>14. CASE RepeatPromotion(p)
  <2>1. route = "session_end" /\ "commit" \in Labels
    BY <1>14 DEF RepeatPromotion, Typed, JobFits, Judging, Labels, Originating
  <2> QED
    BY <1>14, <1>1, <1>3, <2>1 DEF RepeatPromotion
<1>15. CASE MoveCheckpoint(p)
  BY <1>15 DEF MoveCheckpoint, Locked, setting, procs, TakesLock
<1> QED
  BY <1>7, <1>8, <1>9, <1>10, <1>11, <1>12, <1>13, <1>14, <1>15
     DEF Originate, Origination, OriginRecovery

LEMMA LockedCaptures ==
  ASSUME Typed, NEW p \in Procs, Locked(p), Captures(p)
  PROVE  Locked(p)'
<1>0. Frame /\ UNCHANGED setting
  BY CapturesElsewhere DEF Typed
<1>1. ASSUME NEW label \in {"closed", "open", "opening"}, Goto(p, label) PROVE Locked(p)'
  <2>1. at'[p] = label
    BY <1>0, <1>1, GotoMoves DEF Labels
  <2> QED
    BY <2>1 DEF Locked, Originating, Reviewing, Settling
<1>2. CASE OpenCapture(p)
  BY <1>1, <1>2 DEF OpenCapture
<1>3. CASE AcquireCapture(p)
  <2>1. at'[p] = "recover" /\ lock' = p
    BY <1>0, <1>3, EnterMoves DEF AcquireCapture, Labels
  <2> QED
    BY <2>1 DEF Locked
<1>4. ASSUME NEW batch \in Batches, NEW acts \in [batch -> Acts], StartCapture(p, acts)
      PROVE  Locked(p)'
  <2> DEFINE j == Recovery(acts, attempts + 1, "open", "plan")
  <2>0. j.plan = acts /\ "recover" \in Labels /\ route = "capture"
    BY <1>4 DEF Recovery, Labels, StartCapture
  <2>1. IF TakesLock(acts) THEN Enter(p, j, "recover")
        ELSE job' = [job EXCEPT ![p] = j] /\ Goto(p, "recover") /\ UNCHANGED lock
    BY <1>4 DEF StartCapture
  <2> HIDE DEF j
  <2>2. at'[p] = "recover" /\ job'[p] = j /\ (TakesLock(acts) => lock' = p)
    BY <1>0, <2>0, <2>1, GotoMoves, JobMoves, EnterMoves
  <2>3. \A b : TakesLock(b) <=> \E i \in DOMAIN b : b[i] # Replayed
    BY DEF TakesLock
  <2> QED
    BY <1>0, <2>0, <2>2, <2>3 DEF Locked, Originating, Reviewing, Settling, setting
<1>5. ASSUME at[p] \in {"plan", "recover"} \cup Reviewing \cup Settling, route = "capture",
             CaptureGoes(p)
      PROVE  Locked(p)'
  BY <1>0, <1>5, LockedGoes
<1>a. ASSUME at[p] \in {"plan"} \cup Reviewing \cup Settling \/ (at[p] = "recover" /\ route = "capture")
      PROVE  route = "capture" /\ job[p] \in Attempt /\ (at[p] \in Reviewing => lock = p)
  BY <1>a, CapturingJob DEF Typed, JobFits, Capturing, Locked
<1>6. CASE CheckPlan(p)
  <2>0. route = "capture" /\ job[p] \in Attempt /\ at[p] = "plan"
    BY <1>a, <1>6 DEF CheckPlan
  <2>1. CASE Leave(p, "open")
    BY <2>0, <2>1, <1>5 DEF CaptureGoes
  <2>2. CASE TakesLock(job[p].plan) /\ \E label \in {"record", "announce"} : Step(p, 1, label)
    <3>1. PICK label \in {"record", "announce"} : Step(p, 1, label)
      BY <2>2
    <3>2. label \in Labels /\ label \in Reviewing
      BY DEF Labels, Reviewing
    <3>3. at'[p] = label /\ lock' = lock
      BY <1>0, <3>1, <3>2, StepMoves
    <3> QED
      BY <2>0, <2>2, <3>2, <3>3 DEF Locked, Originating, Reviewing, Settling
  <2> QED
    BY <1>6, <2>1, <2>2 DEF CheckPlan
<1>7. CASE Announce(p) \/ StageOne(p) \/ Place(p) \/ Own(p) \/ Record(p)
  <2>0. route = "capture" /\ job[p] \in Attempt /\ at[p] \in Reviewing /\ lock = p
    BY <1>a, <1>7 DEF Announce, StageOne, Place, Own, Record, Reviewing
  <2>1. {"announce", "stage", "place", "own", "record"} \subseteq Reviewing
    BY DEF Reviewing
  <2>2. \/ \E again \in BOOLEAN : ToRecovery(p, again)
        \/ \E k : \E label \in {"stage", "place", "own", "record"} :
              Advances(p, k, label)
        \/ Leave(p, "open")
    BY <1>7 DEF Announce, StageOne, Place, Own, Record, Advances
  <2>3. CaptureGoes(p)
    <3>1. ASSUME NEW again \in BOOLEAN, ToRecovery(p, again) PROVE CaptureGoes(p)
      BY <1>0, <2>0, <3>1, RefuseGoes
    <3>2. ASSUME NEW k, NEW label \in {"stage", "place", "own", "record"},
                 Advances(p, k, label)
          PROVE  CaptureGoes(p)
      <4>1. label \in Reviewing
        BY <2>1
      <4> QED
        BY <1>0, <2>0, <3>2, <4>1, StepGoes
    <3> QED
      BY <2>2, <3>1, <3>2 DEF CaptureGoes
  <2> QED
    BY <1>5, <2>0, <2>3
<1>8. CASE Complete(p) \/ Clear(p) \/ UndoInstall(p) \/ Disown(p) \/ Retire(p)
  <2>0. at[p] \in Settling
    BY <1>8 DEF Complete, Clear, UndoInstall, Disown, Retire, Settling
  <2>1. route = "capture" /\ job[p] \in Attempt
    BY <1>a, <2>0
  <2>2. {"complete", "clear", "undo", "disown", "retire"} \subseteq Settling
    BY DEF Settling
  <2>3. \/ Refuse(p) \/ Settled(p)
        \/ \E k : \E label \in {"complete", "clear", "undo", "disown", "retire"} :
              Advances(p, k, label)
    BY <1>8 DEF Advances, Complete, Clear, UndoInstall, Disown, Retire
  <2>4. CaptureGoes(p)
    BY <1>0, <2>0, <2>1, <2>2, <2>3, RefuseGoes, SettledGoes, StepGoes
  <2> QED
    BY <1>5, <2>0, <2>1, <2>4
<1>9. CASE RecoverCapture(p)
  <2>0. route = "capture" /\ job[p] \in Attempt /\ at[p] = "recover"
    BY <1>a, <1>9 DEF RecoverCapture
  <2>1. ASSUME NEW j, NEW i, NEW label \in {"complete", "undo"},
               job' = [job EXCEPT ![p].acts = j.acts, ![p].loaded = j.at,
                                  ![p].mine = owned[home[p]], ![p].k = i],
               Goto(p, label), UNCHANGED lock
        PROVE  CaptureGoes(p)
    <3>1. job' = [job EXCEPT ![p] = [job[p] EXCEPT !.acts = j.acts, !.loaded = j.at,
                                     !.mine = owned[home[p]], !.k = i]]
      BY <2>1
    <3>2. job'[p].plan = job[p].plan
      BY <1>0, <2>0, <3>1, JobMoves DEF Attempt
    <3>3. at'[p] = label /\ label \in Settling
      BY <1>0, <2>1, GotoMoves DEF Labels, Settling
    <3> QED
      BY <2>1, <3>2, <3>3 DEF CaptureGoes
  <2>2. CaptureGoes(p)
    BY <1>0, <1>9, <2>0, <2>1, RefuseGoes, SettledGoes DEF RecoverCapture
  <2> QED
    BY <1>5, <2>0, <2>2
<1>10. CASE FailCapture(p) \/ CrashInCapture(p)
  <2>1. at[p] \in {"plan"} \cup Reviewing \cup Settling
    BY <1>10 DEF FailCapture, CrashInCapture, Reviewing, Settling
  <2>2. route = "capture" /\ job[p] \in Attempt
    BY <1>a, <2>1
  <2>3. CaptureGoes(p)
    BY <1>0, <1>10, <2>2, RefuseGoes DEF FailCapture, CrashInCapture, CaptureGoes
  <2> QED
    BY <1>5, <2>1, <2>2, <2>3
<1> QED
  BY <1>2, <1>3, <1>4, <1>6, <1>7, <1>8, <1>9, <1>10 DEF Captures, Capture, CaptureRecovery

(* A process whose label calls for it has the lock.                        *)
LEMMA OrderlyStep == Typed /\ Resolutive /\ Orderly /\ [Next]_vars => Orderly'
<1> SUFFICES ASSUME Typed, Resolutive, Orderly, [Next]_vars PROVE Orderly'
  OBVIOUS
<1>0. Typed' /\ Resolutive' /\ Frame /\ NoProc \notin Procs
  BY TypedStep, ResolutiveStep, CasesAssumption DEF Typed
<1>1. ASSUME NEW p \in Procs, UNCHANGED setting, lock' = lock \/ lock \in {p, NoProc},
             \A q \in Procs \ {p} : at'[q] = at[q] /\ job'[q] = job[q], Locked(p)'
      PROVE  Orderly'
  <2> SUFFICES ASSUME NEW q \in Procs \ {p} PROVE Locked(q)'
    BY <1>1 DEF Orderly
  <2>1. Locked(q) /\ UNCHANGED <<route, at[q], job[q]>> /\ (lock = q => lock' = q)
    BY <1>0, <1>1 DEF Orderly, setting
  <2> QED
    BY <2>1 DEF Locked, TakesLock
<1>2. ASSUME NEW p \in Procs, Store(p) PROVE Orderly'
  <2>1. /\ UNCHANGED setting /\ at[p] \in {"open"} \cup Resolving
        /\ \/ \E j : Enter(p, j, "move")
           \/ \E label \in {"open", "closed"} : Leave(p, label)
           \/ \E k : \E label \in Resolving : Step(p, k, label)
    BY <1>2 DEF Store, Resolution, Resolve, MovePending, WriteRecord, InstallResolved, Finish,
                FailResolution, CrashInResolution, Resolving
  <2>2. /\ \A q \in Procs \ {p} : at'[q] = at[q] /\ job'[q] = job[q]
        /\ lock' = lock \/ lock \in {p, NoProc}
        /\ at'[p] \in {"open", "closed"} \cup Resolving
    BY <1>0, <2>1, EnterMoves, LeaveMoves, StepMoves DEF Labels, Resolving
  <2>3. Locked(p)'
    BY <2>2 DEF Locked, Resolving, Originating, Reviewing, Settling
  <2> QED
    BY <1>1, <2>1, <2>2, <2>3
<1>3. ASSUME NEW p \in Procs, Originate(p) \/ Captures(p) \/ Serve(p) PROVE Orderly'
  <2>1. IsElsewhere(p) /\ UNCHANGED setting
    BY <1>0, <1>3, OriginateElsewhere, CapturesElsewhere, ServeElsewhere
  <2>2. ASSUME Serve(p) PROVE Locked(p)'
    <3>1. at'[p] \in {"open", "closed"}
      BY <1>0, <2>2, GotoMoves, LeaveMoves DEF Serve, OpenManual, Close, GiveUp, Labels
    <3> QED
      BY <3>1 DEF Locked, Originating, Reviewing, Settling
  <2> QED
    BY <1>0, <1>1, <1>3, <2>1, <2>2, LockedOriginate, LockedCaptures DEF IsElsewhere, Orderly
<1>4. CASE UNCHANGED <<setting, procs>>
  BY <1>4 DEF Orderly, Locked, TakesLock, setting, procs
<1> QED
  BY <1>2, <1>3, <1>4, NextIs DEF Edit, vars

-------------------------------------------------------------------------------
(* What a step of one process leaves to the others.                        *)

SeenStay == \A i \in Items : IsSeen(i) => IsSeen(i)'
FilesStay ==
    /\ UNCHANGED <<pending, resolved, cut>>
    /\ Held' = Held /\ Taken' = Taken

LEMMA ElsewhereHeld ==
  ASSUME Frame, NEW p \in Procs, IsElsewhere(p), UNCHANGED setting
  PROVE  Held' = Held /\ Taken' = Taken
<1>1. home' = home /\ {"write", "install", "finish"} \subseteq Resolving
  BY DEF setting, Resolving
<1>2. \A q \in Procs :
         /\ at'[q] \in {"write", "install", "finish"} <=> at[q] \in {"write", "install", "finish"}
         /\ at[q] \in {"write", "install", "finish"} => job'[q] = job[q]
  BY <1>1 DEF IsElsewhere
<1>3. {q \in Procs : at[q] \in {"write", "install", "finish"}}'
        = {q \in Procs : at[q] \in {"write", "install", "finish"}}
  BY <1>2
<1>4. Takers' = Takers
  BY <1>2 DEF Takers
<1>5. Held' = Held
  BY <1>1, <1>2, <1>3 DEF Held
<1>6. Taken' = Taken
  BY <1>1, <1>2, <1>4 DEF Taken, Takers
<1> QED
  BY <1>5, <1>6

LEMMA SameFiles ==
  ASSUME FilesStay
  PROVE  \A t, pk : /\ IsWhole(t, pk)' <=> IsWhole(t, pk)
                    /\ IsLoose(t, pk)' <=> IsLoose(t, pk)
                    /\ IsKept(t, pk)' <=> IsKept(t, pk)
                    /\ IsAlone(t, pk)' <=> IsAlone(t, pk)
BY DEF FilesStay, IsWhole, IsLoose, IsKept, IsAlone, IsKnown, IsHeld

(* The books do not change where files, journals and outcomes do not.      *)
LEMMA SameBooks ==
  ASSUME Books, FilesStay, UNCHANGED <<setting, outcome, journals, marker, raced>>,
         TypeOrigins, TypeCapture, attempts' \in Nat, attempts <= attempts'
  PROVE  Books'
<1>1. UNCHANGED <<route, home, outcome, journals, marker, raced>>
  BY DEF setting
<1>2. \A i : IsSeen(i)' <=> IsSeen(i)
  BY <1>1 DEF IsSeen
<1>3. \A t \in Trees : marker[t] \in Nat /\ attempts \in Nat
  BY AttemptsAssumption DEF TypeCapture, TypeOrigins
<1>4. OwnTrees' /\ Promoted'
  BY <1>1, <1>2 DEF Books, OwnTrees, Promoted
<1>5. Accounted'
  BY <1>1, <1>2, SameFiles DEF Books, Accounted, IsJournaledIn
<1>6. Backed'
  BY <1>1, SameFiles DEF Books, Backed, IsSafe, IsCommitted
<1>7. Twinless'
  BY <1>1, SameFiles DEF Books, Twinless
<1>8. Batched'
  <2> SUFFICES ASSUME route = "capture", NEW t \in Trees
               PROVE  /\ marker[t] <= attempts'
                      /\ \A j, k \in journals[t] : j = k
                      /\ \A j \in journals[t] :
                           /\ IsCommitted(t, j) => \A i \in DOMAIN j.acts : IsSeen(i)
                           /\ \A pk \in PacketsOf(j.acts) : IsAlone(t, pk)
    BY <1>1, <1>2, SameFiles DEF Batched, IsCommitted
  <2> QED
    BY <1>3 DEF Books, Batched
<1> QED
  BY <1>4, <1>5, <1>6, <1>7, <1>8 DEF Books

(* A step that leaves process q what it works on.                          *)
Spares(q) ==
    LET t == home[q]
    IN /\ UNCHANGED <<at[q], job[q]>>
       /\ lock = q \/ route = "capture" =>
            /\ UNCHANGED <<pending[t], marker[t]>>
            /\ \A pk : IsWhole(t, pk)' => IsWhole(t, pk)
            /\ journals'[t] = journals[t] \/ (route # "capture" /\ t \in raced')
       /\ lock = q => outcome' = outcome

LEMMA SparedWorks ==
  ASSUME Frame, NEW q \in Procs, Locked(q), IsAtWork(q), Spares(q), SeenStay,
         JobFits(q), UNCHANGED setting, raced \subseteq raced',
         TypeOrigins, TypeCapture, attempts' \in Nat, attempts <= attempts'
  PROVE  IsAtWork(q)'
<1> DEFINE t == home[q]  j == job[q]
<1>0. /\ UNCHANGED <<route, home, at[q], job[q]>> /\ Originates(q) /\ t \in Trees
      /\ outcome' = outcome => \A i : IsSeen(i)' <=> IsSeen(i)
  BY DEF setting, Spares, IsAtWork, IsSeen, Frame
<1>1. ASSUME lock = q
      PROVE  /\ UNCHANGED <<pending[t], marker[t]>>
             /\ \A pk : IsAlone(t, pk) => IsAlone(t, pk)'
             /\ journals'[t] = journals[t] \/ t \in raced'
             /\ \A i : IsSeen(i)' <=> IsSeen(i)
  BY <1>0, <1>1 DEF Spares, IsAlone
<1>2. CASE at[q] \in Originating \/ (at[q] = "drop" /\ route = "import")
  <2>1. lock = q
    BY <1>2 DEF Locked
  <2>2. route # "capture" \/ at[q] \notin {"plan", "recover"} \cup Reviewing \cup Settling
    BY <1>2 DEF Originating, Reviewing, Settling
  <2>3. Originates(q)'
    BY <1>0, <1>1, <2>1 DEF Originates, Fits, IsGone, IsUpTo, IsMade, AllAlone, IsWholeBatch
  <2>4. route = "capture" => Reviews(q)' /\ Settles(q)'
    BY <1>0, <2>2 DEF Reviews, Settles, Reviewing, IsAhead
  <2> QED
    BY <1>0, <2>3, <2>4 DEF IsAtWork
<1>3. CASE at[q] \notin Originating /\ at[q] # "drop"
  <2>1. Originates(q)'
    BY <1>0, <1>3 DEF Originates, Originating, IsWholeBatch
  <2>2. ASSUME route = "capture" PROVE Reviews(q)' /\ Settles(q)'
    <3>0. Reviews(q) /\ Settles(q) /\ marker[t] \in Nat /\ attempts \in Nat
      BY <2>2, AttemptsAssumption, <1>0 DEF IsAtWork, TypeOrigins, TypeCapture
    <3>1. UNCHANGED <<pending[t], marker[t], journals[t]>> /\ \A pk : IsAlone(t, pk) => IsAlone(t, pk)'
      BY <1>0, <2>2 DEF Spares, IsAlone
    <3>2. Settles(q)'
      <4>1. ASSUME NEW pk \in PacketsOf(j.acts), j \in Attempt PROVE pk[1] \in Items
        BY <4>1, PlanCreates DEF Attempt, PacketsOf
      <4>2. at[q] \in Settling => j \in Attempt
        BY DEF JobFits
      <4>3. at[q] \in {"disown", "retire"} => at[q] \in Settling
        BY DEF Settling
      <4> QED
        BY <1>0, <3>0, <3>1, <4>1, <4>2, <4>3 DEF Settles, SeenStay
    <3>3. Reviews(q)'
      <4>1. CASE at[q] \in Reviewing
        <5>1. lock = q
          BY <4>1 DEF Locked
        <5>2. j.at \in Nat
          BY <4>1, AttemptsAssumption DEF JobFits, Attempt
        <5> QED
          BY <1>0, <1>1, <3>0, <3>1, <5>1, <5>2
             DEF Reviews, IsAhead, Fits, IsGone, IsUpTo, IsMade, AllAlone
      <4>2. CASE at[q] \notin Reviewing
        <5>1. IsAhead(q) => j.at \in Nat
          BY <2>2, AttemptsAssumption DEF JobFits, Attempt, IsAhead
        <5> QED
          BY <1>0, <3>0, <3>1, <4>2, <5>1 DEF Reviews, IsAhead, Reviewing
      <4> QED
        BY <4>1, <4>2
    <3> QED
      BY <3>2, <3>3
  <2> QED
    BY <1>0, <2>1, <2>2 DEF IsAtWork
<1> QED
  BY <1>2, <1>3 DEF JobFits

(* What a step of p may change outside its own worktree, and what without  *)
(* the lock.                                                               *)
Footprint(p) ==
    /\ \A t \in Trees \ {home[p]} : UNCHANGED <<pending[t], journals[t], marker[t]>>
    /\ \/ lock \in {p, NoProc}
       \/ /\ outcome' = outcome
          /\ route # "capture" =>
               /\ UNCHANGED <<pending, marker>>
               /\ lock # NoProc /\ home[lock] = home[p] =>
                    journals'[home[p]] = journals[home[p]] \/ home[p] \in raced'

LEMMA OthersSpared ==
  ASSUME Frame, OwnTrees, NEW p \in Procs, NEW q \in Procs \ {p}, UNCHANGED setting,
         UNCHANGED <<at[q], job[q]>>, Footprint(p),
         \A t, pk : <<t, pk>> \in Taken' => <<t, pk>> \in Taken \/ t = home[p],
         lock \in {p, NoProc} \/ Taken' = Taken
  PROVE  Spares(q)
<1> DEFINE t == home[q]
<1>0. t \in Trees /\ home' = home /\ NoProc \notin Procs
  BY CasesAssumption DEF Frame, setting
<1>1. lock = q => outcome' = outcome
  BY <1>0 DEF Footprint
<1>2. CASE t # home[p]
  <2>1. UNCHANGED <<pending[t], marker[t]>> /\ journals'[t] = journals[t]
    BY <1>0, <1>2 DEF Footprint
  <2>2. \A pk : IsWhole(t, pk)' => IsWhole(t, pk)
    BY <1>0, <1>2, <2>1 DEF IsWhole
  <2> QED
    BY <1>0, <1>1, <2>1, <2>2 DEF Spares
<1>3. CASE t = home[p] /\ route # "capture"
  <2>1. SUFFICES ASSUME lock = q
                 PROVE  /\ UNCHANGED <<pending[t], marker[t]>>
                        /\ \A pk : IsWhole(t, pk)' => IsWhole(t, pk)
                        /\ journals'[t] = journals[t] \/ t \in raced'
    BY <1>1, <1>3 DEF Spares
  <2>2. /\ UNCHANGED <<pending, marker>> /\ Taken' = Taken
        /\ journals'[t] = journals[t] \/ t \in raced'
    BY <1>0, <1>3, <2>1 DEF Footprint
  <2> QED
    BY <1>0, <2>2 DEF IsWhole
<1>4. t = home[p] => route # "capture"
  BY DEF OwnTrees
<1> QED
  BY <1>2, <1>3, <1>4

(* A step of a process that does not resolve, its books and its own work.  *)
LEMMA StepKeeps ==
  ASSUME Typed, Typed', Orderly, Custody, NEW p \in Procs, IsElsewhere(p), UNCHANGED setting,
         Footprint(p), SeenStay, raced \subseteq raced', attempts <= attempts',
         Books', IsAtWork(p)'
  PROVE  Custody'
<1>1. /\ Frame /\ TypeOrigins /\ TypeCapture /\ OwnTrees /\ attempts' \in Nat
      /\ Taken' = Taken
  BY ElsewhereHeld, AttemptsAssumption DEF Typed, TypeOK, Custody, Books, TypeOrigins
<1>2. ASSUME NEW q \in Procs \ {p} PROVE IsAtWork(q)'
  <2>1. UNCHANGED <<at[q], job[q]>> /\ Locked(q) /\ IsAtWork(q) /\ JobFits(q)
    BY DEF IsElsewhere, Orderly, Custody, Typed
  <2>2. Spares(q)
    BY <1>1, <2>1, OthersSpared
  <2> QED
    BY <1>1, <2>1, <2>2, SparedWorks
<1> QED
  BY <1>2 DEF Custody

(* A step of a process that does not touch the books.                      *)
LEMMA QuietKeeps ==
  ASSUME Typed, Typed', Orderly, Custody, NEW p \in Procs, IsElsewhere(p),
         UNCHANGED <<setting, pending, resolved, cut, outcome, journals, marker, raced>>,
         attempts <= attempts', IsAtWork(p)'
  PROVE  Custody'
<1>1. /\ Frame /\ TypeOrigins /\ TypeCapture /\ attempts' \in Nat /\ FilesStay
  BY ElsewhereHeld, AttemptsAssumption DEF Typed, TypeOK, TypeOrigins, FilesStay
<1>2. Books'
  BY <1>1, SameBooks DEF Custody
<1>3. Footprint(p) /\ SeenStay
  BY DEF Footprint, SeenStay, IsSeen
<1> QED
  BY <1>2, <1>3, StepKeeps

-------------------------------------------------------------------------------
(* Resolution and edits.                                                   *)

(* A resolver has one packet of its worktree in hand.                      *)
LEMMA HeldByOne ==
  ASSUME Typed, Resolutive, NEW p \in Procs, lock = p
  PROVE  /\ \A q \in Procs : at[q] \in Resolving => q = p
         /\ \A t, pk : IsHeld(t, pk) <=>
              at[p] \in {"write", "install", "finish"} /\ t = home[p] /\ pk = job[p].pk
         /\ \A t, pk : <<t, pk>> \in Taken <=>
              /\ at[p] \in {"write", "install", "finish"} /\ job[p].seen = "whole"
              /\ t = home[p] /\ pk = job[p].pk
<1>1. \A q \in Procs : at[q] \in Resolving => q = p
  BY DEF Resolutive
<1>2. \A q \in Procs : at[q] \in {"write", "install", "finish"} => q = p
  BY <1>1 DEF Resolving
<1> QED
  BY <1>1, <1>2 DEF IsHeld, Held, Taken, Takers
LEMMA HeldByNone ==
  ASSUME Typed, Resolutive, lock \notin Procs \/ (\A q \in Procs : at[q] \notin Resolving)
  PROVE  \A t, pk : ~IsHeld(t, pk) /\ <<t, pk>> \notin Taken
<1>1. \A q \in Procs : at[q] \notin {"write", "install", "finish"}
  BY DEF Resolutive, Resolving
<1> QED
  BY <1>1 DEF IsHeld, Held, Taken, Takers

LEMMA HeldAfter ==
  ASSUME Typed, Resolutive, NEW p \in Procs, lock \in {p, NoProc}, UNCHANGED setting,
         \A q \in Procs \ {p} : at'[q] = at[q] /\ job'[q] = job[q]
  PROVE  /\ \A t, pk : IsHeld(t, pk)' <=>
              at'[p] \in {"write", "install", "finish"} /\ t = home[p] /\ pk = job'[p].pk
         /\ \A t, pk : <<t, pk>> \in Taken' <=>
              /\ at'[p] \in {"write", "install", "finish"} /\ job'[p].seen = "whole"
              /\ t = home[p] /\ pk = job'[p].pk
<1>1. \A q \in Procs \ {p} : at'[q] \notin {"write", "install", "finish"}
  BY CasesAssumption DEF Resolutive, Resolving
<1>2. home' = home
  BY DEF setting
<1> QED
  BY <1>1, <1>2 DEF IsHeld, Held, Taken, Takers

(* What a step of a resolution does to the files.                          *)
Resolves(p) ==
    /\ \A q \in Procs \ {p} : at'[q] = at[q] /\ job'[q] = job[q]
    /\ lock \in {p, NoProc}
    /\ \A t \in Trees \ {home[p]} : pending'[t] = pending[t]
    /\ \A t \in Trees, pk \in Packets :
         /\ IsWhole(t, pk)' => IsWhole(t, pk)
         /\ IsLoose(t, pk)' => IsLoose(t, pk)
         /\ IsKept(t, pk) => IsKept(t, pk)'
    /\ \A t, pk : <<t, pk>> \in Taken' => <<t, pk>> \in Taken \/ t = home[p]

LEMMA StoreResolves ==
  ASSUME Typed, Resolutive, NEW p \in Procs, Store(p)
  PROVE  Resolves(p)
<1> DEFINE t == home[p]  j == job[p]
<1>0. /\ Frame /\ TypeStore /\ t \in Trees /\ UNCHANGED setting /\ home' = home
      /\ at[p] \in Resolving =>
            /\ lock = p /\ j \in Resolutions /\ j.pk \in Packets /\ j.seen \in Readable
            /\ j.outcome \in {"applied", "rejected"}
            /\ at[p] = "finish" => resolved[t][j.pk] = j.outcome
  <2>1. Frame /\ TypeStore /\ t \in Trees /\ UNCHANGED setting
    BY DEF Typed, TypeOK, Frame, Store, Resolution, Resolve, MovePending, WriteRecord,
           InstallResolved, Finish, FailResolution, CrashInResolution
  <2>2. ASSUME at[p] \in Resolving
        PROVE  /\ lock = p /\ j \in Resolutions /\ j.pk \in Packets /\ j.seen \in Readable
               /\ j.outcome \in {"applied", "rejected"}
               /\ at[p] = "finish" => resolved[t][j.pk] = j.outcome
    BY <2>2, ResolverKnows DEF InFlight, Midway, Resolutions
  <2> QED
    BY <2>1, <2>2 DEF setting
<1>1. ASSUME NEW pk \in Packets, NEW outcome_ \in {"applied", "rejected"}, Resolve(p, pk, outcome_)
      PROVE  Resolves(p)
  <2> DEFINE i == [pk |-> pk, outcome |-> outcome_, seen |-> pending[t][pk],
                   prior |-> record[t], k |-> 1]
  <2>1. Enter(p, i, "move") /\ UNCHANGED <<pending, resolved, cut>> /\ "move" \in Labels
    BY <1>1 DEF Resolve, files, Labels, Resolving
  <2> HIDE DEF i
  <2>2. /\ at'[p] = "move" /\ lock = NoProc
        /\ \A q \in Procs \ {p} : at'[q] = at[q] /\ job'[q] = job[q]
    BY <1>0, <2>1, EnterMoves
  <2>3. \A s, k : ~IsHeld(s, k) /\ <<s, k>> \notin Taken
    BY <2>2, HeldByNone, CasesAssumption
  <2>4. \A s, k : ~IsHeld(s, k)' /\ <<s, k>> \notin Taken'
    BY <1>0, <2>2, HeldAfter
  <2> QED
    BY <2>1, <2>2, <2>3, <2>4 DEF Resolves, IsWhole, IsLoose, IsKept, IsKnown
<1>a. ASSUME NEW k \in Nat, NEW label \in {"write", "install", "finish"}, Step(p, k, label),
             at[p] \in Resolving
      PROVE  /\ at'[p] = label /\ \A q \in Procs \ {p} : at'[q] = at[q] /\ job'[q] = job[q]
             /\ \A s, pk : IsHeld(s, pk)' <=> s = t /\ pk = j.pk
             /\ \A s, pk : <<s, pk>> \in Taken' <=> j.seen = "whole" /\ s = t /\ pk = j.pk
  <2>1. label \in Labels
    BY DEF Labels, Resolving
  <2>2. /\ at'[p] = label /\ job'[p] = [j EXCEPT !.k = k]
        /\ \A q \in Procs \ {p} : at'[q] = at[q] /\ job'[q] = job[q]
    BY <1>0, <1>a, <2>1, StepMoves
  <2>3. job'[p].pk = j.pk /\ job'[p].seen = j.seen
    BY <1>0, <1>a, <2>2, StepFields
  <2> QED
    <3>1. lock \in {p, NoProc} /\ at'[p] \in {"write", "install", "finish"}
      BY <1>0, <1>a, <2>2
    <3>2. /\ \A s, pk : IsHeld(s, pk)' <=> s = t /\ pk = job'[p].pk
          /\ \A s, pk : <<s, pk>> \in Taken' <=> job'[p].seen = "whole" /\ s = t /\ pk = job'[p].pk
      <4>1. /\ \A s, pk : IsHeld(s, pk)' <=>
                   at'[p] \in {"write", "install", "finish"} /\ s = home[p] /\ pk = job'[p].pk
            /\ \A s, pk : <<s, pk>> \in Taken' <=>
                   /\ at'[p] \in {"write", "install", "finish"} /\ job'[p].seen = "whole"
                   /\ s = home[p] /\ pk = job'[p].pk
        BY <1>0, <2>2, <3>1, HeldAfter
      <4> QED
        BY <3>1, <4>1
    <3> QED
      BY <2>2, <2>3, <3>2
<1>b. ASSUME NEW label \in {"open", "closed"}, Leave(p, label), at[p] \in Resolving
      PROVE  /\ \A q \in Procs \ {p} : at'[q] = at[q] /\ job'[q] = job[q]
             /\ \A s, pk : ~IsHeld(s, pk)' /\ <<s, pk>> \notin Taken'
  <2>1. at'[p] = label /\ \A q \in Procs \ {p} : at'[q] = at[q] /\ job'[q] = job[q]
    BY <1>0, <1>b, LeaveMoves DEF Labels
  <2> QED
    BY <1>0, <1>b, <2>1, HeldAfter
<1>c. ASSUME at[p] \in Resolving
      PROVE  /\ \A s, pk : IsHeld(s, pk) <=> at[p] # "move" /\ s = t /\ pk = j.pk
             /\ \A s, pk : <<s, pk>> \in Taken <=>
                   at[p] # "move" /\ j.seen = "whole" /\ s = t /\ pk = j.pk
  BY <1>0, <1>c, HeldByOne DEF Resolving
<1>2. CASE MovePending(p)
  <2>0. at[p] = "move" /\ at[p] \in Resolving /\ UNCHANGED <<resolved, cut>>
    BY <1>2 DEF MovePending, Resolving
  <2>1. CASE Leave(p, "open") /\ UNCHANGED pending
    BY <1>0, <1>b, <1>c, <2>0, <2>1 DEF Resolves, IsWhole, IsLoose, IsKept, IsKnown
  <2>2. CASE /\ pending[t][j.pk] = j.seen
             /\ pending' = [pending EXCEPT ![t][j.pk] = "none"]
             /\ Step(p, 1, IF j.outcome = "applied" THEN "write" ELSE "install")
    <3>1. /\ \A q \in Procs \ {p} : at'[q] = at[q] /\ job'[q] = job[q]
          /\ \A s, pk : IsHeld(s, pk)' <=> s = t /\ pk = j.pk
          /\ \A s, pk : <<s, pk>> \in Taken' <=> j.seen = "whole" /\ s = t /\ pk = j.pk
      BY <1>a, <2>0, <2>2
    <3>2. \A s \in Trees, pk \in Packets :
             pending'[s][pk] = IF s = t /\ pk = j.pk THEN "none" ELSE pending[s][pk]
      BY <1>0, <2>2 DEF TypeStore
    <3>3. \A s \in Trees \ {t} : pending'[s] = pending[s]
      BY <1>0, <2>2 DEF TypeStore
    <3>4. \A s, pk : ~IsHeld(s, pk) /\ <<s, pk>> \notin Taken
      BY <1>c, <2>0
    <3> QED
      BY <1>0, <2>0, <2>2, <3>1, <3>2, <3>3, <3>4 DEF Resolves, IsWhole, IsLoose, IsKept, IsKnown
  <2> QED
    BY <1>2, <2>1, <2>2 DEF MovePending
<1>3. CASE WriteRecord(p)
  <2>0. /\ at[p] = "write" /\ at[p] \in Resolving /\ UNCHANGED <<pending, resolved, cut>>
        /\ \E label \in {"write", "install"} : Step(p, j.k + 1, label)
    BY <1>3 DEF WriteRecord, Resolving
  <2>1. j.k + 1 \in Nat
    BY <1>0, <2>0 DEF Resolutions
  <2> QED
    BY <1>0, <1>a, <1>c, <2>0, <2>1 DEF Resolves, IsWhole, IsLoose, IsKept, IsKnown
<1>4. CASE InstallResolved(p)
  <2>0. /\ at[p] = "install" /\ at[p] \in Resolving /\ UNCHANGED <<pending, cut>>
        /\ resolved' = [resolved EXCEPT ![t][j.pk] = j.outcome] /\ Step(p, 1, "finish")
    BY <1>4 DEF InstallResolved, Resolving
  <2>1. \A s \in Trees, pk \in Packets :
           resolved'[s][pk] = IF s = t /\ pk = j.pk THEN j.outcome ELSE resolved[s][pk]
    BY <1>0, <2>0 DEF TypeStore
  <2> QED
    BY <1>0, <1>a, <1>c, <2>0, <2>1 DEF Resolves, IsWhole, IsLoose, IsKept, IsKnown
<1>5. CASE Finish(p)
  <2>0. /\ at[p] = "finish" /\ at[p] \in Resolving /\ UNCHANGED <<pending, resolved, cut>>
        /\ Leave(p, "open")
    BY <1>5 DEF Finish, files, Resolving
  <2> QED
    BY <1>0, <1>b, <1>c, <2>0 DEF Resolves, IsWhole, IsLoose, IsKept, IsKnown
<1>6. CASE FailResolution(p)
  <2>0. at[p] \in Resolving /\ UNCHANGED cut /\ Leave(p, "open")
    BY <1>6 DEF FailResolution, Resolving
  <2>1. CASE at[p] = "move" /\ UNCHANGED files
    BY <1>0, <1>b, <1>c, <2>0, <2>1 DEF Resolves, IsWhole, IsLoose, IsKept, IsKnown, files
  <2>2. CASE at[p] # "move" /\ Undo(p)
    <3>1. /\ \A s \in Trees, pk \in Packets :
                pending'[s][pk] = IF s = t /\ pk = j.pk THEN j.seen ELSE pending[s][pk]
          /\ \A s \in Trees \ {t} : pending'[s] = pending[s]
      BY <1>0, <2>0, <2>2 DEF TypeStore, Undo
    <3>2. \A s \in Trees, pk \in Packets :
             resolved'[s][pk] = IF s = t /\ pk = j.pk THEN "none" ELSE resolved[s][pk]
      BY <1>0, <2>0, <2>2 DEF TypeStore, Undo
    <3>3. /\ \A q \in Procs \ {p} : at'[q] = at[q] /\ job'[q] = job[q]
          /\ \A s, pk : ~IsHeld(s, pk)' /\ <<s, pk>> \notin Taken'
      BY <1>b, <2>0
    <3>4. /\ \A s, pk : IsHeld(s, pk) <=> s = t /\ pk = j.pk
          /\ \A s, pk : <<s, pk>> \in Taken <=> j.seen = "whole" /\ s = t /\ pk = j.pk
      BY <1>c, <2>0, <2>2
    <3> QED
      BY <1>0, <2>0, <3>1, <3>2, <3>3, <3>4
         DEF Resolves, IsWhole, IsLoose, IsKept, IsKnown, Readable
  <2> QED
    BY <1>6, <2>1, <2>2 DEF FailResolution
<1>7. CASE CrashInResolution(p)
  <2>0. /\ at[p] \in Resolving /\ UNCHANGED <<pending, resolved>> /\ Leave(p, "closed")
        /\ cut' = IF at[p] \in {"write", "install"} THEN cut \cup {<<t, j.pk>>} ELSE cut
    BY <1>7 DEF CrashInResolution, files, Resolving
  <2> QED
    BY <1>0, <1>b, <1>c, <2>0 DEF Resolves, IsWhole, IsLoose, IsKept, IsKnown, Resolving
<1> QED
  BY <1>1, <1>2, <1>3, <1>4, <1>5, <1>6, <1>7 DEF Store, Resolution

(* The books when nothing but files goes, and no file that is counted on.  *)
LEMMA FewerBooks ==
  ASSUME Typed, Books, UNCHANGED <<setting, outcome, journals, marker, raced, attempts>>,
         \A t \in Trees, pk \in Packets :
            /\ IsWhole(t, pk)' => IsWhole(t, pk)
            /\ IsLoose(t, pk)' => IsLoose(t, pk)
            /\ IsKept(t, pk) => IsKept(t, pk)'
  PROVE  Books'
<1>1. UNCHANGED <<route, home, outcome, journals, marker, raced, attempts>>
  BY DEF setting
<1>2. \A i : IsSeen(i)' <=> IsSeen(i)
  BY <1>1 DEF IsSeen
<1>3. \A t \in Trees, pk \in Packets : IsAlone(t, pk) => IsAlone(t, pk)'
  BY DEF IsAlone, Packets
<1>4. OwnTrees' /\ Promoted'
  BY <1>1, <1>2 DEF Books, OwnTrees, Promoted
<1>5. Accounted'
  BY <1>1, <1>2 DEF Books, Accounted, IsJournaledIn
<1>6. Backed'
  <2> SUFFICES ASSUME NEW i \in Items, outcome[i].kind = "created"
               PROVE  /\ outcome[i].copy \in Copies
                      /\ \E t \in Trees : IsSafe(t, <<i, outcome[i].copy>>)'
    BY <1>1 DEF Backed
  <2>1. PICK t \in Trees : outcome[i].copy \in Copies /\ IsSafe(t, <<i, outcome[i].copy>>)
    BY DEF Books, Backed
  <2> DEFINE pk == <<i, outcome[i].copy>>
  <2>2. pk \in Packets
    BY <2>1 DEF Packets
  <2>3. pk' = pk
    BY <1>1
  <2> HIDE DEF pk
  <2>4. IsSafe(t, pk) => IsSafe(t, pk)'
    BY <1>1, <2>2, <2>3 DEF IsSafe, IsCommitted
  <2> QED
    BY <2>1, <2>4 DEF pk
<1>7. Twinless'
  BY <1>1, <1>3 DEF Books, Twinless
<1>8. Batched'
  <2> SUFFICES ASSUME route = "capture", NEW t \in Trees
               PROVE  /\ marker[t] <= attempts
                      /\ \A j, k \in journals[t] : j = k
                      /\ \A j \in journals[t] :
                           /\ IsCommitted(t, j) => \A i \in DOMAIN j.acts : IsSeen(i)
                           /\ \A pk \in PacketsOf(j.acts) : IsAlone(t, pk)'
    BY <1>1, <1>2 DEF Batched, IsCommitted
  <2>1. \A j \in journals[t] : PacketsOf(j.acts) \subseteq Packets
    BY PlanCreates DEF Typed, TypeOK, TypeOrigins, Journal
  <2> QED
    BY <1>3, <2>1 DEF Books, Batched
<1> QED
  BY <1>4, <1>5, <1>6, <1>7, <1>8 DEF Books

AtRest == {"closed", "open", "opening"} \cup Resolving

LEMMA RestWorks ==
  ASSUME NEW p \in Procs, at'[p] \in AtRest
  PROVE  IsAtWork(p)'
BY DEF AtRest, IsAtWork, Originates, Reviews, Settles, IsAhead, Resolving, Originating, Judging,
       Reviewing, Settling

LEMMA StoreKeeps ==
  ASSUME Typed, Typed', Resolutive, Orderly, Custody, NEW p \in Procs, Store(p)
  PROVE  Custody'
<1>0. Frame /\ UNCHANGED setting /\ UNCHANGED <<outcome, journals, marker, raced, attempts>>
  BY DEF Typed, Store, Resolution, Resolve, MovePending, WriteRecord, InstallResolved, Finish,
         FailResolution, CrashInResolution, origins, capture
<1>1. Resolves(p)
  BY StoreResolves
<1>2. Books'
  BY <1>0, <1>1, FewerBooks DEF Resolves, Custody
<1>3. Footprint(p) /\ SeenStay /\ OwnTrees /\ TypeOrigins /\ TypeCapture /\ attempts \in Nat
  BY <1>0, <1>1, AttemptsAssumption
     DEF Footprint, Resolves, SeenStay, IsSeen, Custody, Books, Typed, TypeOK, TypeOrigins
<1>4. at'[p] \in AtRest
  <2>1. \/ \E j : Enter(p, j, "move")
        \/ \E label \in {"open", "closed"} : Leave(p, label)
        \/ \E k : \E label \in Resolving : Step(p, k, label)
    BY DEF Store, Resolution, Resolve, MovePending, WriteRecord, InstallResolved, Finish,
           FailResolution, CrashInResolution, Resolving
  <2> QED
    <3>1. ASSUME NEW j, Enter(p, j, "move") PROVE at'[p] \in AtRest
      BY <1>0, <3>1, EnterMoves DEF AtRest, Labels, Resolving
    <3>2. ASSUME NEW label \in {"open", "closed"}, Leave(p, label) PROVE at'[p] \in AtRest
      BY <1>0, <3>2, LeaveMoves DEF AtRest, Labels
    <3>3. ASSUME NEW k, NEW label \in Resolving, Step(p, k, label) PROVE at'[p] \in AtRest
      BY <1>0, <3>3, StepMoves DEF AtRest, Labels
    <3> QED
      BY <2>1, <3>1, <3>2, <3>3
<1>5. ASSUME NEW q \in Procs \ {p} PROVE IsAtWork(q)'
  <2>1. UNCHANGED <<at[q], job[q]>> /\ Locked(q) /\ IsAtWork(q) /\ JobFits(q)
    BY <1>1 DEF Resolves, Orderly, Custody, Typed
  <2>2. Spares(q)
    BY <1>0, <1>1, <1>3, <2>1, OthersSpared DEF Resolves
  <2> QED
    BY <1>0, <1>3, <2>1, <2>2, SparedWorks
<1> QED
  BY <1>2, <1>4, <1>5, RestWorks DEF Custody

LEMMA EditKeeps ==
  ASSUME Typed, Resolutive, Orderly, Custody, NEW h \in Trees, NEW e \in Packets, Edit(h, e),
         UNCHANGED <<origins, capture>>
  PROVE  Custody'
<1>0. /\ UNCHANGED <<route, home, outcome, journals, marker, raced, attempts>>
      /\ UNCHANGED <<at, job, lock, resolved, cut>> /\ UNCHANGED setting
      /\ \A i : IsSeen(i)' <=> IsSeen(i)
  BY DEF Edit, setting, procs, origins, capture, IsSeen
<1>1. \A t \in Trees, pk \in Packets :
         pending'[t][pk] = IF t = h /\ pk = e THEN "edited" ELSE pending[t][pk]
  BY DEF Edit, Typed, TypeOK, TypeStore
<1>2. pending[h][e] = "whole"
  BY DEF Edit
<1>3. Held' = Held /\ Taken' = Taken
  BY <1>0 DEF Held, Taken, Takers
<1>4. \A t \in Trees, pk \in Packets :
         /\ IsWhole(t, pk)' => IsWhole(t, pk)
         /\ IsLoose(t, pk)' => IsLoose(t, pk)
         /\ IsKept(t, pk) => IsKept(t, pk)'
  BY <1>0, <1>1, <1>2, <1>3 DEF IsWhole, IsLoose, IsKept, IsKnown, IsHeld
<1>5. Books'
  BY <1>0, <1>4, FewerBooks DEF Custody
<1>6. \A t \in Trees, pk \in Packets : IsAlone(t, pk) => IsAlone(t, pk)'
  BY <1>4 DEF IsAlone, Packets
<1>7. ASSUME NEW t \in Trees, NEW acts \in Plans
      PROVE  /\ IsGone(t, acts) => IsGone(t, acts)'
             /\ IsMade(t, acts) => IsMade(t, acts)'
             /\ \A k : IsUpTo(t, acts, k) => IsUpTo(t, acts, k)'
             /\ AllAlone(t, acts) => AllAlone(t, acts)'
             /\ \A pk \in PacketsOf(acts) :
                  /\ pending'[t][pk] # "none" <=> pending[t][pk] # "none"
                  /\ pending[t][pk] \in {"none", "edited"} => pending'[t][pk] \in {"none", "edited"}
  <2>1. PacketsOf(acts) \subseteq Packets
    BY PlanCreates
  <2> QED
    BY <1>1, <1>2, <1>6, <2>1 DEF IsGone, IsMade, IsUpTo, AllAlone, Readable
<1>8. ASSUME NEW p \in Procs PROVE IsAtWork(p)'
  <2>0. IsAtWork(p) /\ home[p] \in Trees /\ JobFits(p)
    BY DEF Custody, Typed, Frame
  <2>1. Originates(p)'
    <3>1. CASE at[p] \in {"journal", "create", "commit"}
      <4>1. job[p].acts \in Plans
        BY <2>0, <3>1 DEF JobFits, Originating, Operation
      <4> QED
        BY <1>0, <1>7, <2>0, <3>1, <4>1
           DEF IsAtWork, Originates, Fits, IsWholeBatch, Originating, Judging
    <3>2. CASE at[p] = "drop"
      <4>1. job[p].j.acts \in Plans
        BY <2>0, <3>2 DEF JobFits, Judged, Journal
      <4> QED
        BY <1>0, <1>7, <2>0, <3>2, <4>1 DEF IsAtWork, Originates, Originating, Judging
    <3>3. CASE at[p] \notin {"journal", "create", "commit", "drop"}
      BY <1>0, <2>0, <3>3 DEF IsAtWork, Originates, IsWholeBatch
    <3> QED
      BY <3>1, <3>2, <3>3
  <2>2. ASSUME route = "capture", at[p] \in {"plan"} \cup Reviewing \cup Settling
        PROVE  Reviews(p)' /\ Settles(p)'
    <3>1. job[p].acts \in Plans /\ Reviews(p) /\ Settles(p)
      BY <2>0, <2>2 DEF JobFits, Attempt, IsAtWork
    <3>2. Reviews(p)'
      BY <1>0, <1>7, <2>0, <3>1 DEF Reviews, IsAhead, Fits
    <3>3. Settles(p)'
      BY <1>0, <1>7, <2>0, <3>1 DEF Settles
    <3> QED
      BY <3>2, <3>3
  <2>3. ASSUME route = "capture", at[p] \notin {"plan"} \cup Reviewing \cup Settling
        PROVE  Reviews(p)' /\ Settles(p)'
    BY <1>0, <2>0, <2>3 DEF IsAtWork, Reviews, Settles, IsAhead, Reviewing, Settling
  <2> QED
    BY <1>0, <2>1, <2>2, <2>3 DEF IsAtWork
<1> QED
  BY <1>5, <1>8 DEF Custody

-------------------------------------------------------------------------------
(* Imports and promotions: the steps that leave files and journals alone.  *)

LEMMA PlanTells ==
  ASSUME NEW t \in Trees, NEW acts \in Plans, IsPlan(t, acts)
  PROVE  /\ IsGone(t, acts)
         /\ route # "session_end" => Fits(acts)
         /\ route # "session_end" => \A pk \in PacketsOf(acts) : \A c \in Copies :
                                        pending[t][<<pk[1], c>>] # "whole"
         /\ route = "session_end" => Creates(acts) = DOMAIN acts
<1>0. /\ \A i \in DOMAIN acts : IsPlanned(t, i, acts[i])
      /\ Duplicate \notin Copies /\ Replayed \notin Copies /\ Duplicate # Replayed
  BY BoundsAssumption DEF IsPlan, Duplicate, Replayed, Copies
<1>1. ASSUME NEW i \in DOMAIN acts, acts[i] \in Copies
      PROVE  pending[t][<<i, acts[i]>>] = "none"
  BY <1>0, <1>1 DEF IsPlanned, IsFreshCopy, FreeCopies, IsKnown
<1>2. ASSUME NEW i \in DOMAIN acts, route # "session_end"
      PROVE  /\ IsSeen(i) <=> acts[i] = Replayed
             /\ acts[i] \in Copies => ~IsDuplicated(t, i)
  BY <1>0, <1>2 DEF IsPlanned
<1>3. ASSUME NEW i, ~IsDuplicated(t, i), NEW c \in Copies
      PROVE  pending[t][<<i, c>>] # "whole"
  BY <1>3 DEF IsDuplicated, Readable
<1>4. IsGone(t, acts)
  BY <1>1 DEF IsGone, PacketsOf, Creates
<1>5. route # "session_end" => \A pk \in PacketsOf(acts) : \A c \in Copies :
                                  pending[t][<<pk[1], c>>] # "whole"
  BY <1>2, <1>3 DEF PacketsOf, Creates
<1>6. route = "session_end" => Creates(acts) = DOMAIN acts
  BY <1>0 DEF Creates, IsPlanned
<1> QED
  BY <1>2, <1>4, <1>5, <1>6 DEF Fits

(* What an operation that begins without a journal has to work with.       *)
LEMMA OriginatesFirst ==
  ASSUME NEW p \in Procs, NEW j, job'[p] = j, at'[p] \in {"journal", "commit"}, ~j.recovering,
         (Fits(j.acts) /\ IsGone(home[p], j.acts))', at'[p] = "commit" => PacketsOf(j.acts) = {},
         route' = "import" => AllAlone(home[p], j.acts)',
         route' = "session_end" => IsWholeBatch(j.acts), route' # "capture"
  PROVE  IsAtWork(p)'
BY DEF IsAtWork, Originates, IsMade, Judging

LEMMA StartKeeps ==
  ASSUME Typed, Typed', Resolutive, Orderly, Custody, NEW p \in Procs, Originate(p),
         NEW batch \in Batches \cup {Items}, NEW acts \in [batch -> Acts],
         StartImport(p, acts) \/ StartPromotion(p, acts)
  PROVE  Custody'
<1> DEFINE t == home[p]  j == Begin(acts)
<1>0. /\ Frame /\ UNCHANGED setting /\ t \in Trees /\ IsElsewhere(p) /\ home' = home /\ route' = route
      /\ UNCHANGED <<pending, resolved, cut, outcome, journals, marker, raced>>
      /\ attempts' = attempts + 1 /\ attempts \in Nat
  BY OriginateElsewhere, AttemptsAssumption
     DEF Typed, Frame, TypeOK, TypeOrigins, StartImport, StartPromotion, files, Originate, capture, setting
<1>1. /\ acts \in Plans /\ IsPlan(t, acts) /\ route \in {"import", "session_end"}
      /\ lock = NoProc
  BY ActsArePlans DEF StartImport, StartPromotion, Enter
<1>2. /\ IsGone(t, acts) /\ Fits(acts)
      /\ route = "import" => AllAlone(t, acts)
      /\ route = "session_end" => IsWholeBatch(acts)
  <2>1. \A s, pk : <<s, pk>> \notin Taken
    BY <1>1, HeldByNone, CasesAssumption
  <2>2. CASE StartImport(p, acts)
    <3>1. route = "import"
      BY <2>2 DEF StartImport
    <3> QED
      BY <1>0, <1>1, <2>1, <3>1, PlanTells DEF AllAlone, IsAlone, IsWhole
  <2>3. CASE StartPromotion(p, acts)
    <3>1. route = "session_end" /\ DOMAIN acts = Items /\ \A i \in Items : ~IsSeen(i)
      BY <2>3 DEF StartPromotion
    <3>2. IsGone(t, acts) /\ Creates(acts) = DOMAIN acts
      BY <1>0, <1>1, <3>1, PlanTells
    <3>3. \A i \in DOMAIN acts : acts[i] # Replayed
      BY <3>2, BoundsAssumption DEF Creates, Replayed, Copies
    <3> QED
      BY <3>1, <3>2, <3>3 DEF Fits, IsWholeBatch
  <2> QED
    BY <2>2, <2>3
<1>3. Held' = Held /\ Taken' = Taken
  BY <1>0, ElsewhereHeld
<1>4. PICK label \in {"journal", "commit"} :
         Enter(p, j, label) /\ (label = "commit" => Creates(acts) = {})
  BY DEF StartImport, StartPromotion
<1>5. j.acts = acts /\ ~j.recovering /\ label \in Labels
  BY DEF Begin, Labels, Originating
<1> HIDE DEF j
<1>6. at'[p] = label /\ job'[p] = j
  BY <1>0, <1>4, <1>5, EnterMoves
<1>7. (Fits(acts) /\ IsGone(t, acts))' /\ (AllAlone(t, acts) => AllAlone(t, acts)')
  BY <1>0, <1>2, <1>3 DEF Fits, IsGone, IsSeen, AllAlone, IsAlone, IsWhole
<1>8. IsAtWork(p)'
  <2>1. label = "commit" => PacketsOf(acts) = {}
    BY <1>4 DEF PacketsOf
  <2> QED
    BY <1>0, <1>1, <1>2, <1>5, <1>6, <1>7, <2>1, OriginatesFirst
<1> QED
  BY <1>0, <1>8, QuietKeeps

LEMMA QuietOriginate ==
  ASSUME Typed, Typed', Resolutive, Orderly, Custody, NEW p \in Procs, Originate(p),
         \/ OpenImport(p) \/ AcquireToRecover(p) \/ OpenSession(p) \/ JudgeJournal(p)
         \/ RepeatPromotion(p) \/ MoveCheckpoint(p) \/ FailLate(p)
  PROVE  Custody'
<1> DEFINE t == home[p]
<1>0. /\ Frame /\ UNCHANGED setting /\ t \in Trees /\ IsElsewhere(p) /\ home' = home /\ route' = route
      /\ UNCHANGED <<pending, resolved, cut, outcome, journals, marker, raced, attempts>>
      /\ attempts \in Nat
  BY OriginateElsewhere, AttemptsAssumption
     DEF Typed, Frame, TypeOK, TypeOrigins, OpenImport, AcquireToRecover, OpenSession, JudgeJournal,
         RepeatPromotion, MoveCheckpoint, FailLate, files, Originate, capture, setting, origins
<1>a. ASSUME IsAtWork(p)' PROVE Custody'
  BY <1>0, <1>a, QuietKeeps
<1>b. ASSUME NEW label \in {"open", "closed"}, Leave(p, label) PROVE Custody'
  <2>1. at'[p] \in AtRest
    BY <1>0, <1>b, LeaveMoves DEF AtRest, Labels
  <2> QED
    BY <1>a, <2>1, RestWorks
<1>1. CASE OpenImport(p)
  <2>1. at'[p] \in AtRest
    BY <1>0, <1>1, GotoMoves DEF OpenImport, AtRest, Labels
  <2> QED
    BY <1>a, <2>1, RestWorks
<1>2. CASE AcquireToRecover(p)
  <2>1. at'[p] = "recover" /\ route = "import"
    BY <1>0, <1>2, EnterMoves DEF AcquireToRecover, Labels
  <2> QED
    BY <1>0, <1>a, <2>1 DEF IsAtWork, Originates
<1>3. CASE OpenSession(p)
  <2>1. CASE Goto(p, "open")
    <3>1. at'[p] \in AtRest
      BY <1>0, <2>1, GotoMoves DEF AtRest, Labels
    <3> QED
      BY <1>a, <3>1, RestWorks
  <2>2. ASSUME NEW j \in journals[t], job' = [job EXCEPT ![p] = [j |-> j]], Goto(p, "judge")
        PROVE  Custody'
    <3>1. at'[p] = "judge" /\ job'[p].j = j /\ route = "session_end"
      BY <1>0, <1>3, <2>2, GotoMoves, JobMoves DEF Labels, Judging, OpenSession
    <3>2. IsWholeBatch(j.acts)
      BY <1>0, <2>2, <3>1 DEF Custody, Books, Promoted
    <3>3. IsAtWork(p)'
      BY <1>0, <3>1, <3>2 DEF IsAtWork, Originates, Originating
    <3> QED
      BY <1>a, <3>3
  <2> QED
    BY <1>3, <2>1, <2>2 DEF OpenSession
<1>4. CASE JudgeJournal(p)
  <2>1. CASE Leave(p, "closed")
    BY <1>b, <2>1
  <2>2. ASSUME NEW label \in {"discard", "promote"}, Goto(p, label), UNCHANGED job
        PROVE  Custody'
    <3>1. at'[p] = label /\ at[p] \in Judging /\ route = "session_end"
      BY <1>0, <1>4, <2>2, GotoMoves DEF Labels, Judging, JudgeJournal, Typed, JobFits
    <3>2. IsWholeBatch(job[p].j.acts)
      BY <3>1 DEF Custody, IsAtWork, Originates
    <3>3. IsAtWork(p)'
      BY <1>0, <2>2, <3>1, <3>2 DEF IsAtWork, Originates, Originating
    <3> QED
      BY <1>a, <3>3
  <2> QED
    BY <1>4, <2>1, <2>2 DEF JudgeJournal, Verdict
<1>5. CASE RepeatPromotion(p)
  <2>1. CASE Leave(p, "closed")
    BY <1>b, <2>1
  <2>2. CASE /\ IsInstalled(t, job[p].j)
             /\ Enter(p, [acts |-> job[p].j.acts, at |-> job[p].j.at, version |-> job[p].j.version,
                          k |-> 1, recovering |-> TRUE], "commit")
    <3>1. /\ at'[p] = "commit" /\ job'[p].acts = job[p].j.acts /\ job'[p].recovering
          /\ at[p] \in Judging /\ route = "session_end"
      BY <1>0, <1>5, <2>2, EnterMoves
         DEF Labels, Originating, Judging, RepeatPromotion, Typed, JobFits
    <3>2. IsWholeBatch(job[p].j.acts)
      BY <3>1 DEF Custody, IsAtWork, Originates
    <3>3. IsMade(t, job[p].j.acts)
      BY <2>2 DEF IsInstalled, IsMade, Readable
    <3>4. IsAtWork(p)'
      BY <1>0, <3>1, <3>2, <3>3 DEF IsAtWork, Originates, IsMade, IsWholeBatch, Judging
    <3> QED
      BY <1>a, <3>4
  <2> QED
    BY <1>5, <2>1, <2>2 DEF RepeatPromotion
<1>6. CASE MoveCheckpoint(p)
  <2>1. at'[p] \in AtRest
    BY <1>6 DEF MoveCheckpoint, AtRest, procs
  <2> QED
    BY <1>a, <2>1, RestWorks
<1>7. CASE FailLate(p)
  BY <1>7, <1>b DEF FailLate
<1> QED
  BY <1>1, <1>2, <1>3, <1>4, <1>5, <1>6, <1>7

-------------------------------------------------------------------------------
(* Imports and promotions: the steps that write files, journals, outcomes. *)

(* A step of an import or a promotion, from what it makes of the books.    *)
LEMMA OriginKeeps ==
  ASSUME Typed, Typed', Resolutive, Orderly, Custody, NEW p \in Procs, Originate(p),
         route # "capture", lock \in {p, NoProc},
         \A t \in Trees \ {home[p]} : UNCHANGED <<pending[t], journals[t]>>,
         UNCHANGED <<raced, attempts>>, SeenStay,
         Accounted', Backed', Twinless', Promoted', Originates(p)'
  PROVE  Custody'
<1>1. IsElsewhere(p) /\ UNCHANGED setting /\ route' = route /\ marker' = marker /\ attempts \in Nat
  BY OriginateElsewhere, AttemptsAssumption
     DEF Typed, TypeOK, TypeOrigins, setting, Originate, capture
<1>2. Books' /\ IsAtWork(p)'
  BY <1>1 DEF Books, OwnTrees, Batched, IsAtWork
<1>3. Footprint(p) /\ attempts <= attempts'
  BY <1>1 DEF Footprint
<1> QED
  BY <1>1, <1>2, <1>3, StepKeeps

(* What the process at the labels of an operation knows.                   *)
LEMMA OriginKnows ==
  ASSUME Typed, Resolutive, Orderly, Custody, NEW p \in Procs, Originate(p),
         at[p] \in Originating
  PROVE  /\ route \in {"import", "session_end"} /\ lock = p /\ Originates(p) /\ Frame
         /\ job[p] \in Operation /\ job[p].acts \in Plans /\ home[p] \in Trees
         /\ PacketsOf(job[p].acts) \subseteq Packets /\ Creates(job[p].acts) \subseteq Items
         /\ UNCHANGED <<route, home, resolved, cut>> /\ Held' = Held /\ Taken' = Taken
         /\ \A t, pk : <<t, pk>> \notin Taken
<1>1. /\ route \in {"import", "session_end"} /\ lock = p /\ Originates(p) /\ Frame
      /\ job[p] \in Operation /\ home[p] \in Trees
  BY DEF Typed, Frame, JobFits, Orderly, Locked, Custody, IsAtWork
<1>2. job[p].acts \in Plans
  BY <1>1 DEF Operation
<1>3. UNCHANGED <<route, home, resolved, cut>> /\ IsElsewhere(p) /\ UNCHANGED setting
  BY <1>1, OriginateElsewhere DEF setting
<1>4. Held' = Held /\ Taken' = Taken
  BY <1>1, <1>3, ElsewhereHeld
<1>5. \A t, pk : <<t, pk>> \notin Taken
  BY <1>1, HeldByOne DEF Originating
<1> QED
  BY <1>1, <1>2, <1>3, <1>4, <1>5, PlanCreates

LEMMA LeaveRests ==
  ASSUME Frame, NEW p \in Procs, NEW label \in {"open", "closed"}, Leave(p, label)
  PROVE  Originates(p)' /\ at'[p] \in AtRest
<1>1. at'[p] = label
  BY LeaveMoves DEF Labels
<1> QED
  BY <1>1 DEF AtRest, Originates, Originating, Judging

(* The next label of an operation.                                         *)
LEMMA OperationMoves ==
  ASSUME Frame, NEW p \in Procs, job[p] \in Operation, NEW k, NEW label \in Originating,
         Step(p, k, label)
  PROVE  /\ at'[p] = label /\ job'[p].k = k /\ job'[p].acts = job[p].acts
         /\ JournalOf(job'[p]) = JournalOf(job[p]) /\ job'[p].recovering = job[p].recovering
<1>1. at'[p] = label /\ job'[p] = [job[p] EXCEPT !.k = k]
  BY StepMoves DEF Labels
<1> QED
  BY <1>1 DEF Operation, JournalOf

LEMMA WriteJournalKeeps ==
  ASSUME Typed, Typed', Resolutive, Orderly, Custody, NEW p \in Procs, Originate(p),
         WriteJournal(p)
  PROVE  Custody'
<1> DEFINE t == home[p]  j == job[p]
<1>0. /\ at[p] = "journal" /\ at[p] \in Originating
      /\ UNCHANGED <<pending, outcome, attempts, raced, marker>>
  BY DEF WriteJournal, Originating, files, Originate, capture
<1>1. /\ route \in {"import", "session_end"} /\ lock = p /\ Originates(p) /\ Frame
      /\ j \in Operation /\ j.acts \in Plans /\ t \in Trees
      /\ PacketsOf(j.acts) \subseteq Packets /\ Creates(j.acts) \subseteq Items
      /\ UNCHANGED <<route, home, resolved, cut>> /\ FilesStay
  BY <1>0, OriginKnows DEF FilesStay
<1>2. /\ \A s, pk : /\ IsWhole(s, pk)' <=> IsWhole(s, pk)
                    /\ IsLoose(s, pk)' <=> IsLoose(s, pk)
                    /\ IsKept(s, pk)' <=> IsKept(s, pk)
                    /\ IsAlone(s, pk)' <=> IsAlone(s, pk)
      /\ \A i : IsSeen(i)' <=> IsSeen(i)
  BY <1>0, <1>1, SameFiles DEF IsSeen
<1>3. CASE Leave(p, "open") /\ UNCHANGED journals
  <2>1. IsElsewhere(p) /\ UNCHANGED setting /\ attempts <= attempts'
    BY <1>0, <1>1, OriginateElsewhere, AttemptsAssumption DEF Typed, TypeOK, TypeOrigins
  <2>2. IsAtWork(p)'
    BY <1>1, <1>3, LeaveRests, RestWorks
  <2> QED
    BY <1>0, <1>1, <1>3, <2>1, <2>2, QuietKeeps
<1>4. ASSUME ~IsJournaled(t, j), journals' = [journals EXCEPT ![t] = @ \cup {JournalOf(j)}],
             NEW i \in Items, IsNext(j.acts, 0, i), Step(p, i, "create")
      PROVE  Custody'
  <2>1. /\ \A s \in Trees : journals[s] \subseteq journals'[s]
        /\ \A s \in Trees \ {t} : journals'[s] = journals[s]
        /\ journals'[t] = journals[t] \cup {JournalOf(j)}
    BY <1>1, <1>4 DEF Typed, TypeOK, TypeOrigins
  <2>2. /\ at'[p] = "create" /\ job'[p].k = i /\ job'[p].acts = j.acts
        /\ JournalOf(job'[p]) = JournalOf(j) /\ job'[p].recovering = j.recovering
    BY <1>1, <1>4, OperationMoves DEF Originating
  <2>3. Accounted'
    BY <1>0, <1>1, <1>2, <2>1 DEF Custody, Books, Accounted, IsJournaledIn
  <2>4. Backed'
    BY <1>0, <1>1, <1>2 DEF Custody, Books, Backed, IsSafe
  <2>5. Twinless'
    BY <1>0, <1>1, <1>2 DEF Custody, Books, Twinless
  <2>6. Promoted'
    <3> SUFFICES ASSUME route = "session_end"
                 PROVE  \A s \in Trees : \A k \in journals'[s] : IsWholeBatch(k.acts)
      BY <1>1, <1>2 DEF Custody, Books, Promoted
    <3>1. IsWholeBatch(JournalOf(j).acts)
      BY <1>0, <1>1 DEF Originates, JournalOf
    <3> QED
      BY <1>1, <2>1, <3>1 DEF Custody, Books, Promoted
  <2>7. ASSUME t \notin raced PROVE AllAlone(t, j.acts)
    <3>1. CASE route = "import"
      BY <1>0, <1>1, <3>1 DEF Originates
    <3>2. CASE route = "session_end"
      <4>1. journals[t] = {}
        BY <1>4, <3>2 DEF IsJournaled
      <4>2. ASSUME NEW pk \in PacketsOf(j.acts), NEW c \in Copies PROVE ~IsWhole(t, <<pk[1], c>>)
        <5>1. <<pk[1], c>> \in Packets /\ pk[1] \in Creates(j.acts)
          BY <1>1, <4>2 DEF PacketsOf, Packets
        <5>2. ~IsSeen(pk[1])
          BY <1>0, <1>1, <5>1, BoundsAssumption DEF Originates, Fits, Creates, Copies, Replayed
        <5>3. ~IsLoose(t, <<pk[1], c>>)
          BY <1>1, <2>7, <3>2, <4>1, <5>1, <5>2 DEF Custody, Books, Accounted, IsJournaledIn
        <5> QED
          BY <5>3 DEF IsLoose, IsWhole
      <4> QED
        BY <4>2 DEF AllAlone, IsAlone
    <3> QED
      BY <1>1, <3>1, <3>2
  <2>8. Originates(p)'
    <3>1. IsUpTo(t, j.acts, i)
      <4>1. \A pk \in PacketsOf(j.acts) : pk[1] \in Creates(j.acts) /\ pk[1] \in Nat \ {0} /\ i \in Nat
        BY <1>1, ItemsAreNumbers DEF PacketsOf
      <4>2. \A pk \in PacketsOf(j.acts) : ~(pk[1] < i)
        BY <1>4, <4>1 DEF IsNext
      <4> QED
        BY <1>0, <1>1, <4>2 DEF Originates, IsGone, IsUpTo
    <3>2. (IsUpTo(t, j.acts, i) /\ Fits(j.acts))' /\ (AllAlone(t, j.acts) => AllAlone(t, j.acts)')
      BY <1>0, <1>1, <1>2, <2>2, <3>1 DEF IsUpTo, Fits, AllAlone, Originates
    <3>3. /\ ~j.recovering
          /\ route = "session_end" => IsWholeBatch(j.acts)
      BY <1>0, <1>1 DEF Originates
    <3> QED
      BY <1>0, <1>1, <2>1, <2>2, <2>7, <3>2, <3>3 DEF Originates, Judging
  <2> QED
    BY <1>0, <1>1, <1>2, <2>1, <2>3, <2>4, <2>5, <2>6, <2>8, OriginKeeps DEF SeenStay
<1> QED
  BY <1>3, <1>4 DEF WriteJournal, StepAfter

(* Creating a packet: the file before and after.                           *)
LEMMA NewFile ==
  ASSUME TypeStore, NEW t \in Trees, NEW pk \in Packets, NEW f,
         pending' = [pending EXCEPT ![t][pk] = f]
  PROVE  /\ \A s \in Trees, k \in Packets :
              pending'[s][k] = IF s = t /\ k = pk THEN f ELSE pending[s][k]
         /\ \A s \in Trees \ {t} : pending'[s] = pending[s]
BY DEF TypeStore

LEMMA CreateKeeps ==
  ASSUME Typed, Typed', Resolutive, Orderly, Custody, NEW p \in Procs, Originate(p),
         CreatePacket(p)
  PROVE  Custody'
<1> DEFINE t == home[p]
<1>a. PICK j, i, acts : j = job[p] /\ i = j.k /\ acts = j.acts
  OBVIOUS
<1> DEFINE new == <<i, acts[i]>>
<1>0. /\ at[p] = "create" /\ at[p] \in Originating
      /\ UNCHANGED <<outcome, journals, attempts, raced, marker>>
  BY DEF CreatePacket, Originating, Originate, capture, origins
<1>1. /\ route \in {"import", "session_end"} /\ lock = p /\ Originates(p) /\ Frame
      /\ j \in Operation /\ acts \in Plans /\ t \in Trees
      /\ PacketsOf(acts) \subseteq Packets /\ Creates(acts) \subseteq Items
      /\ UNCHANGED <<route, home, resolved, cut>> /\ Held' = Held /\ Taken' = Taken
  BY <1>0, <1>a, OriginKnows
<1>2. i \in Creates(acts) /\ new \in PacketsOf(acts) /\ new \in Packets /\ i \in Items
  BY <1>0, <1>1, <1>a DEF Typed, JobFits, InHand, PacketsOf
<1>3. /\ \A s \in Trees, k \in Packets :
            pending'[s][k] = IF s = t /\ k = new THEN "whole" ELSE pending[s][k]
      /\ \A s \in Trees \ {t} : pending'[s] = pending[s]
  <2>1. pending' = [pending EXCEPT ![t][new] = "whole"] /\ TypeStore
    BY <1>a DEF CreatePacket, Creating, Typed, TypeOK
  <2> HIDE DEF new
  <2> QED
    BY <1>1, <1>2, <2>1, NewFile
<1>4. /\ \A s \in Trees, pk \in Packets :
            /\ IsWhole(s, pk)' => IsWhole(s, pk) \/ (s = t /\ pk = new)
            /\ IsLoose(s, pk)' => IsLoose(s, pk) \/ (s = t /\ pk = new)
            /\ IsKept(s, pk) => IsKept(s, pk)'
      /\ \A k : IsSeen(k)' <=> IsSeen(k)
  BY <1>0, <1>1, <1>3 DEF IsWhole, IsLoose, IsKept, IsKnown, IsHeld, IsSeen
<1>5. \A pk \in PacketsOf(acts) : pk[1] = i => pk = new
  BY DEF PacketsOf
<1>6. ASSUME t \notin raced
      PROVE  /\ JournalOf(j) \in journals[t] /\ IsJournaledIn(t, new)
             /\ AllAlone(t, acts) /\ AllAlone(t, acts)'
  <2>1. JournalOf(j) \in journals[t] /\ AllAlone(t, acts)
    BY <1>0, <1>1, <1>a, <1>6 DEF Originates
  <2>2. ASSUME NEW pk \in PacketsOf(acts), NEW c \in Copies, c # pk[2]
        PROVE  ~IsWhole(t, <<pk[1], c>>)'
    <3>1. <<pk[1], c>> \in Packets
      BY <1>1, <2>2 DEF Packets
    <3>2. <<pk[1], c>> # new
      BY <1>5, <2>2
    <3>3. ~IsWhole(t, <<pk[1], c>>)
      BY <2>1, <2>2 DEF AllAlone, IsAlone
    <3> QED
      BY <1>1, <1>4, <3>1, <3>2, <3>3
  <2>3. AllAlone(t, acts)'
    BY <1>1, <2>2 DEF AllAlone, IsAlone
  <2>4. JournalOf(j).acts = acts
    BY <1>a DEF JournalOf
  <2> QED
    BY <1>2, <2>1, <2>3, <2>4 DEF IsJournaledIn
<1>7. Accounted'
  <2> SUFFICES ASSUME NEW s \in Trees \ raced, NEW pk \in Packets, IsLoose(s, pk)', ~IsSeen(pk[1])
               PROVE  IsJournaledIn(s, pk)
    BY <1>0, <1>1, <1>4 DEF Accounted, IsJournaledIn
  <2>1. CASE IsLoose(s, pk)
    BY <1>1, <2>1 DEF Custody, Books, Accounted
  <2>2. CASE s = t /\ pk = new
    BY <1>6, <2>2
  <2> QED
    BY <1>4, <2>1, <2>2
<1>8. Backed'
  <2> SUFFICES ASSUME NEW n \in Items, outcome[n].kind = "created"
               PROVE  /\ outcome[n].copy \in Copies
                      /\ \E s \in Trees : IsKept(s, <<n, outcome[n].copy>>)'
    BY <1>0, <1>1 DEF Backed, IsSafe
  <2>1. PICK s \in Trees : outcome[n].copy \in Copies /\ IsKept(s, <<n, outcome[n].copy>>)
    BY DEF Custody, Books, Backed, IsSafe
  <2>2. <<n, outcome[n].copy>> \in Packets
    BY <2>1 DEF Packets
  <2> QED
    BY <1>0, <1>4, <2>1, <2>2
<1>9. Twinless'
  <2> SUFFICES ASSUME NEW s \in Trees \ raced, NEW pk \in Packets, IsWhole(s, pk)',
                      NEW c \in Copies, c # pk[2], IsWhole(s, <<pk[1], c>>)'
               PROVE  FALSE
    BY <1>0 DEF Twinless, IsAlone
  <2>1. <<pk[1], c>> \in Packets /\ pk[1] \in Items /\ pk[2] \in Copies /\ pk = <<pk[1], pk[2]>>
    BY DEF Packets
  <2>2. CASE IsWhole(s, pk) /\ IsWhole(s, <<pk[1], c>>)
    BY <2>2 DEF Custody, Books, Twinless, IsAlone
  <2>3. CASE s = t /\ pk = new
    <3>1. ~IsWhole(t, <<pk[1], c>>)'
      BY <1>2, <1>6, <2>3, <1>1 DEF AllAlone, IsAlone
    <3> QED
      BY <2>3, <3>1, <1>1
  <2>4. CASE s = t /\ <<pk[1], c>> = new
    <3>1. ~IsWhole(t, <<new[1], pk[2]>>)'
      BY <1>2, <1>6, <2>4, <2>1, <1>1 DEF AllAlone, IsAlone
    <3>2. new[1] = pk[1]
      BY <2>4
    <3> QED
      BY <2>1, <2>4, <3>1, <3>2, <1>1
  <2> QED
    BY <1>4, <2>1, <2>2, <2>3, <2>4
<1>10. Promoted'
  BY <1>0, <1>1, <1>4 DEF Custody, Books, Promoted
<1>11. Originates(p)'
  <2>0. /\ IsUpTo(t, acts, i) /\ Fits(acts) /\ ~j.recovering
        /\ route = "session_end" => IsWholeBatch(acts)
    BY <1>0, <1>1, <1>a DEF Originates
  <2>1. \A pk \in PacketsOf(acts) : /\ pk[1] \in Creates(acts) /\ pk[1] \in Nat /\ i \in Nat
                                      /\ pk \in Packets
    BY <1>1, <1>2, ItemsAreNumbers DEF PacketsOf
  <2>2. \A pk \in PacketsOf(acts) :
           /\ pk[1] <= i => pending'[t][pk] \in Readable
           /\ i < pk[1] => pending'[t][pk] = "none"
    BY <1>1, <1>3, <1>5, <2>0, <2>1 DEF IsUpTo, Readable
  <2>3. Fits(acts)' /\ (t \notin raced => JournalOf(j) \in journals[t] /\ AllAlone(t, acts)')
    BY <1>4, <1>6, <2>0 DEF Fits
  <2>4. CASE IsLast(p) /\ Step(p, 1, "commit")
    <3>1. /\ at'[p] = "commit" /\ job'[p].acts = acts /\ job'[p].recovering = j.recovering
      BY <1>1, <1>a, <2>4, OperationMoves DEF Originating
    <3>2. IsMade(t, acts)'
      BY <1>1, <2>1, <2>2, <2>4, <1>a DEF IsLast, Creating, IsMade
    <3>3. (IsMade(t, job[p].acts) /\ Fits(job[p].acts))'
      BY <2>3, <3>1, <3>2 DEF IsMade, Fits
    <3> QED
      BY <1>1, <2>0, <3>1, <3>3 DEF Originates, Judging
  <2>5. ASSUME NEW n \in Items, IsNext(acts, i, n), Step(p, n, "create") PROVE Originates(p)'
    <3>1. /\ at'[p] = "create" /\ job'[p].k = n /\ job'[p].acts = acts
          /\ JournalOf(job'[p]) = JournalOf(j) /\ job'[p].recovering = j.recovering
      BY <1>1, <1>a, <2>5, OperationMoves DEF Originating
    <3>2. IsUpTo(t, acts, n)'
      <4>1. n \in Nat /\ i < n
        BY <2>5, ItemsAreNumbers DEF IsNext
      <4>2. \A pk \in PacketsOf(acts) : IF pk[1] < n THEN pk[1] <= i ELSE i < pk[1]
        BY <2>1, <2>5, <4>1 DEF IsNext
      <4> QED
        BY <1>1, <2>1, <2>2, <4>2 DEF IsUpTo
    <3>3. /\ (IsUpTo(t, job[p].acts, job[p].k) /\ Fits(job[p].acts))'
          /\ t \notin raced => AllAlone(t, job[p].acts)'
      BY <2>3, <3>1, <3>2 DEF IsUpTo, Fits, AllAlone
    <3> QED
      BY <1>0, <1>1, <2>0, <2>3, <3>1, <3>3 DEF Originates, Judging
  <2> QED
    BY <1>a, <2>4, <2>5 DEF CreatePacket, StepAfter, Creating
<1> QED
  BY <1>0, <1>1, <1>3, <1>4, <1>7, <1>8, <1>9, <1>10, <1>11, OriginKeeps DEF SeenStay

(* What the transaction makes of each candidate.                           *)
LEMMA RecordedTells ==
  ASSUME TypeOrigins, NEW acts \in Plans, NEW time, NEW i \in Items,
         outcome' = Recorded(acts, time)
  PROVE  /\ i \notin DOMAIN acts \/ acts[i] = Replayed => outcome'[i] = outcome[i]
         /\ i \in DOMAIN acts /\ acts[i] # Replayed => IsSeen(i)'
         /\ outcome'[i].kind = "created" =>
              \/ outcome'[i] = outcome[i]
              \/ i \in Creates(acts) /\ outcome'[i].copy = acts[i] /\ acts[i] \in Copies
<1>0. Duplicate \notin Copies /\ Replayed \notin Copies /\ Duplicate # Replayed
  BY BoundsAssumption DEF Duplicate, Replayed, Copies
<1>1. CASE i \notin DOMAIN acts \/ acts[i] = Replayed
  BY <1>0, <1>1 DEF Recorded
<1>2. CASE i \in DOMAIN acts /\ acts[i] = Duplicate
  <2>1. outcome'[i] = NoWrite(time)
    BY <1>0, <1>2 DEF Recorded
  <2> QED
    BY <1>0, <1>2, <2>1 DEF NoWrite, IsSeen
<1>3. CASE i \in DOMAIN acts /\ acts[i] \notin {Duplicate, Replayed}
  <2>1. outcome'[i] = Created(acts[i], time)
    BY <1>0, <1>3 DEF Recorded
  <2>2. acts[i] \in Copies
    BY <1>3, PlanCreates DEF Acts
  <2> QED
    BY <1>0, <1>3, <2>1, <2>2 DEF Created, IsSeen, Creates
<1> QED
  BY <1>1, <1>2, <1>3

(* A transaction over packets that are made.                               *)
LEMMA RecordedBacks ==
  ASSUME Typed, NEW t \in Trees, NEW acts \in Plans, NEW time, outcome' = Recorded(acts, time),
         IsMade(t, acts), UNCHANGED <<route, pending, resolved, cut>>, Held' = Held, Backed,
         route # "capture",
         \A i \in DOMAIN acts : acts[i] # Replayed => ~IsSeen(i)
  PROVE  Backed' /\ SeenStay
<1>1. ASSUME NEW i \in Items, outcome'[i].kind = "created"
      PROVE  outcome'[i].copy \in Copies /\ \E s \in Trees : IsKept(s, <<i, outcome[i].copy>>)'
  <2>1. CASE outcome'[i] = outcome[i]
    BY <1>1, <2>1 DEF Backed, IsSafe, IsKept, IsKnown, IsHeld
  <2>2. CASE i \in Creates(acts) /\ outcome'[i].copy = acts[i] /\ acts[i] \in Copies
    <3>1. <<i, acts[i]>> \in PacketsOf(acts)
      BY <2>2 DEF PacketsOf
    <3>2. pending'[t][<<i, acts[i]>>] # "none"
      BY <3>1 DEF IsMade, Readable
    <3> QED
      BY <2>2, <3>2 DEF IsKept, IsKnown, Typed, Frame
  <2> QED
    BY <1>1, <2>1, <2>2, RecordedTells DEF Typed, TypeOK
<1>2. SeenStay
  BY RecordedTells DEF Typed, TypeOK, SeenStay, IsSeen
<1>3. Backed'
  BY <1>1 DEF Backed, IsSafe
<1> QED
  BY <1>2, <1>3

LEMMA CommitKeeps ==
  ASSUME Typed, Typed', Resolutive, Orderly, Custody, NEW p \in Procs, Originate(p), Commit(p)
  PROVE  Custody'
<1> DEFINE t == home[p]
<1>a. PICK j, acts : j = job[p] /\ acts = j.acts
  OBVIOUS
<1>0. /\ at[p] = "commit" /\ at[p] \in Originating /\ outcome' = Recorded(acts, j.at)
      /\ UNCHANGED <<pending, journals, attempts, raced, marker>>
  BY <1>a DEF Commit, Originating, Originate, capture, files
<1>1. /\ route \in {"import", "session_end"} /\ lock = p /\ Originates(p) /\ Frame
      /\ j \in Operation /\ acts \in Plans /\ t \in Trees
      /\ UNCHANGED <<route, home, resolved, cut>> /\ FilesStay /\ Held' = Held
      /\ Creates(acts) \subseteq Items
  BY <1>0, <1>a, OriginKnows DEF FilesStay
<1>2. \A s, pk : /\ IsWhole(s, pk)' <=> IsWhole(s, pk)
                 /\ IsLoose(s, pk)' <=> IsLoose(s, pk)
                 /\ IsAlone(s, pk)' <=> IsAlone(s, pk)
  BY <1>1, SameFiles
<1>3. /\ IsMade(t, acts) /\ \A i \in DOMAIN acts : acts[i] # Replayed => ~IsSeen(i)
      /\ route = "session_end" => IsWholeBatch(acts)
  BY <1>0, <1>1, <1>a DEF Originates, Commit, CanRecord
<1>4. Backed' /\ SeenStay
  BY <1>0, <1>1, <1>3, RecordedBacks DEF Custody, Books
<1>5. Accounted'
  BY <1>0, <1>1, <1>2, <1>4 DEF Custody, Books, Accounted, IsJournaledIn, SeenStay, Packets
<1>6. Twinless'
  BY <1>0, <1>1, <1>2 DEF Custody, Books, Twinless
<1>7. \A i \in Creates(acts) : IsSeen(i)'
  <2>1. \A i \in Creates(acts) : i \in DOMAIN acts /\ acts[i] # Replayed
    BY BoundsAssumption DEF Creates, Copies, Replayed
  <2> QED
    BY <1>0, <1>1, <2>1, RecordedTells DEF Typed, TypeOK
<1>8. Promoted'
  BY <1>0, <1>1, <1>3, <1>7 DEF Custody, Books, Promoted, IsWholeBatch
<1>9. Originates(p)'
  <2>1. CASE Leave(p, "open")
    BY <1>1, <2>1, LeaveRests
  <2>2. CASE Step(p, 1, "unjournal")
    <3>1. at'[p] = "unjournal" /\ job'[p].acts = acts
      BY <1>1, <1>a, <2>2, OperationMoves DEF Originating
    <3> QED
      BY <1>1, <1>3, <1>7, <3>1 DEF Originates, Judging
  <2> QED
    BY <2>1, <2>2 DEF Commit
<1> QED
  BY <1>0, <1>1, <1>4, <1>5, <1>6, <1>8, <1>9, OriginKeeps

LEMMA RemoveKeeps ==
  ASSUME Typed, Typed', Resolutive, Orderly, Custody, NEW p \in Procs, Originate(p),
         RemoveJournal(p)
  PROVE  Custody'
<1> DEFINE t == home[p]
<1>a. PICK j, acts : j = job[p] /\ acts = j.acts
  OBVIOUS
<1>0. /\ at[p] = "unjournal" /\ at[p] \in Originating /\ Leave(p, "open")
      /\ UNCHANGED <<pending, outcome, attempts, raced, marker>>
      /\ journals' = [journals EXCEPT ![t] =
            IF route = "import" THEN {k \in @ : k.acts # acts} ELSE {}]
  BY <1>a DEF RemoveJournal, Originating, Originate, capture, files
<1>1. /\ route \in {"import", "session_end"} /\ lock = p /\ Originates(p) /\ Frame
      /\ t \in Trees
      /\ UNCHANGED <<route, home, resolved, cut>> /\ FilesStay
  BY <1>0, OriginKnows DEF FilesStay
<1>2. /\ \A s, pk : /\ IsWhole(s, pk)' <=> IsWhole(s, pk)
                    /\ IsLoose(s, pk)' <=> IsLoose(s, pk)
                    /\ IsKept(s, pk)' <=> IsKept(s, pk)
                    /\ IsAlone(s, pk)' <=> IsAlone(s, pk)
      /\ \A i : IsSeen(i)' <=> IsSeen(i)
  BY <1>0, <1>1, SameFiles DEF IsSeen
<1>3. /\ \A s \in Trees : journals'[s] \subseteq journals[s]
      /\ \A s \in Trees \ {t} : journals'[s] = journals[s]
      /\ route = "import" => \A k \in journals[t] : k.acts = acts \/ k \in journals'[t]
  BY <1>0, <1>1 DEF Typed, TypeOK, TypeOrigins
<1>4. /\ \A i \in Creates(acts) : IsSeen(i)
      /\ route = "session_end" => Creates(acts) = Items
  BY <1>0, <1>1, <1>a DEF Originates, IsWholeBatch
<1>5. Accounted'
  <2> SUFFICES ASSUME NEW s \in Trees \ raced, NEW pk \in Packets, IsLoose(s, pk), ~IsSeen(pk[1])
               PROVE  \E k \in journals'[s] : pk \in PacketsOf(k.acts)
    BY <1>0, <1>1, <1>2 DEF Accounted, IsJournaledIn
  <2>1. PICK k \in journals[s] : pk \in PacketsOf(k.acts)
    BY <1>1 DEF Custody, Books, Accounted, IsJournaledIn
  <2>2. pk[1] \in Items /\ pk[1] \in Creates(k.acts)
    BY <2>1 DEF PacketsOf, Packets
  <2>3. CASE route = "import" \/ s # t
    BY <1>3, <1>4, <2>1, <2>2, <2>3
  <2>4. CASE route = "session_end"
    BY <1>4, <2>2, <2>4
  <2> QED
    BY <1>1, <2>3, <2>4
<1>6. Backed'
  BY <1>0, <1>1, <1>2 DEF Custody, Books, Backed, IsSafe
<1>7. Twinless' /\ Promoted'
  BY <1>0, <1>1, <1>2, <1>3 DEF Custody, Books, Twinless, Promoted
<1>8. Originates(p)'
  BY <1>0, <1>1, LeaveRests
<1> QED
  BY <1>0, <1>1, <1>2, <1>3, <1>5, <1>6, <1>7, <1>8, OriginKeeps DEF SeenStay

(* The packets a failed operation takes away are its own: not recorded.    *)
LEMMA FailKeeps ==
  ASSUME Typed, Typed', Resolutive, Orderly, Custody, NEW p \in Procs, Originate(p),
         FailOperation(p)
  PROVE  Custody'
<1> DEFINE t == home[p]
<1>a. PICK j, acts : j = job[p] /\ acts = j.acts
  OBVIOUS
<1>b. PICK made : made = {pk \in PacketsOf(acts) : at[p] = "create" => pk[1] < j.k}
  OBVIOUS
<1>0. /\ at[p] \in {"create", "commit"} /\ at[p] \in Originating /\ Leave(p, "open")
      /\ ~j.recovering /\ pending' = Removed(t, made)
      /\ \/ /\ at[p] = "commit" /\ journals' = journals
         \/ /\ journals' = [journals EXCEPT ![t] = @ \ {JournalOf(j)}]
            /\ at[p] = "commit" => \A pk \in made : pending[t][pk] = "whole"
      /\ UNCHANGED <<outcome, attempts, raced, marker>>
  BY <1>a, <1>b DEF FailOperation, Creating, Originating, Originate, capture
<1>1. /\ route \in {"import", "session_end"} /\ lock = p /\ Originates(p) /\ Frame
      /\ t \in Trees /\ acts \in Plans /\ PacketsOf(acts) \subseteq Packets
      /\ UNCHANGED <<route, home, resolved, cut>> /\ Held' = Held /\ Taken' = Taken
      /\ \A s, pk : <<s, pk>> \notin Taken
  BY <1>0, <1>a, OriginKnows
<1>2. /\ \A s \in Trees, pk \in Packets :
            pending'[s][pk] = IF s = t /\ pk \in made /\ pending[t][pk] = "whole"
                              THEN "none" ELSE pending[s][pk]
      /\ \A s \in Trees \ {t} : pending'[s] = pending[s]
      /\ \A i : IsSeen(i)' <=> IsSeen(i)
  BY <1>0, <1>1 DEF Removed, Typed, TypeOK, TypeStore, IsSeen
<1>3. \A s \in Trees, pk \in Packets :
         /\ IsWhole(s, pk)' => IsWhole(s, pk)
         /\ IsLoose(s, pk)' => IsLoose(s, pk) /\ pending'[s][pk] \in {"whole", "torn"}
  BY <1>1, <1>2 DEF IsWhole, IsLoose
<1>4. Fits(acts) /\ (at[p] = "create" => IsUpTo(t, acts, j.k))
  BY <1>0, <1>1, <1>a DEF Originates
<1>5. Accounted'
  <2> SUFFICES ASSUME NEW s \in Trees \ raced, NEW pk \in Packets, IsLoose(s, pk)', ~IsSeen(pk[1])
               PROVE  \E k \in journals'[s] : pk \in PacketsOf(k.acts)
    BY <1>0, <1>1, <1>2 DEF Accounted, IsJournaledIn
  <2>1. PICK k \in journals[s] : pk \in PacketsOf(k.acts)
    BY <1>1, <1>3 DEF Custody, Books, Accounted, IsJournaledIn
  <2>2. CASE s # t \/ k # JournalOf(j) \/ journals' = journals
    BY <1>0, <2>1, <2>2 DEF Typed, TypeOK, TypeOrigins
  <2>3. CASE /\ s = t /\ k = JournalOf(j)
             /\ at[p] = "commit" => \A e \in made : pending[t][e] = "whole"
    <3>1. pk \in PacketsOf(acts)
      BY <1>a, <2>1, <2>3 DEF JournalOf
    <3>2. CASE at[p] = "create"
      <4>1. pending'[t][pk] \in {"whole", "torn"}
        BY <1>3, <2>3
      <4>2. pk[1] < j.k => pk \in made
        BY <1>b, <3>1
      <4> QED
        BY <1>1, <1>2, <1>4, <3>1, <3>2, <4>1, <4>2 DEF IsUpTo, Readable
    <3>3. CASE at[p] = "commit"
      <4>1. pk \in made /\ pending[t][pk] = "whole"
        BY <1>b, <2>3, <3>1, <3>3
      <4> QED
        BY <1>1, <1>2, <1>3, <2>3, <4>1
    <3> QED
      BY <1>0, <3>2, <3>3
  <2> QED
    BY <1>0, <2>2, <2>3
<1>6. Backed'
  <2> SUFFICES ASSUME NEW i \in Items, outcome[i].kind = "created"
               PROVE  /\ outcome[i].copy \in Copies
                      /\ \E s \in Trees : IsKept(s, <<i, outcome[i].copy>>)'
    BY <1>0, <1>1 DEF Backed, IsSafe
  <2>1. PICK s \in Trees : outcome[i].copy \in Copies /\ IsKept(s, <<i, outcome[i].copy>>)
    BY DEF Custody, Books, Backed, IsSafe
  <2>2. <<i, outcome[i].copy>> \in Packets /\ IsSeen(i)
    BY <2>1 DEF Packets, IsSeen
  <2>3. <<i, outcome[i].copy>> \notin made
    <3>1. i \notin Creates(acts)
      BY <1>4, <2>2, BoundsAssumption DEF Fits, Creates, Copies, Replayed
    <3> QED
      BY <1>b, <3>1 DEF PacketsOf
  <2> QED
    BY <1>0, <1>1, <1>2, <2>1, <2>2, <2>3 DEF IsKept, IsKnown, IsHeld
<1>7. Twinless'
  <2> SUFFICES ASSUME NEW s \in Trees \ raced, NEW pk \in Packets, IsWhole(s, pk)',
                      NEW c \in Copies, c # pk[2], IsWhole(s, <<pk[1], c>>)'
               PROVE  FALSE
    BY <1>0 DEF Twinless, IsAlone
  <2>1. <<pk[1], c>> \in Packets
    BY DEF Packets
  <2> QED
    BY <1>3, <2>1 DEF Custody, Books, Twinless, IsAlone
<1>8. Promoted'
  <2>1. \A s \in Trees : journals'[s] \subseteq journals[s]
    BY <1>0, <1>1 DEF Typed, TypeOK, TypeOrigins
  <2> QED
    BY <1>1, <1>2, <2>1 DEF Custody, Books, Promoted
<1>9. Originates(p)' /\ \A s \in Trees \ {t} : UNCHANGED <<pending[s], journals[s]>>
  BY <1>0, <1>1, <1>2, LeaveRests DEF Typed, TypeOK, TypeOrigins
<1> QED
  BY <1>0, <1>1, <1>2, <1>5, <1>6, <1>7, <1>8, <1>9, OriginKeeps DEF SeenStay

(* The recovery of an import records what is installed.                    *)
LEMMA RecoverKeeps ==
  ASSUME Typed, Typed', Resolutive, Orderly, Custody, NEW p \in Procs, Originate(p), Recover(p)
  PROVE  Custody'
<1> DEFINE t == home[p]
<1>0. /\ at[p] = "recover" /\ route = "import" /\ lock = p /\ Frame /\ t \in Trees
      /\ UNCHANGED <<route, home, pending, resolved, cut, journals, attempts, raced, marker>>
      /\ UNCHANGED setting /\ IsElsewhere(p) /\ attempts \in Nat
  BY OriginateElsewhere, AttemptsAssumption
     DEF Recover, Originate, capture, files, setting, Orderly, Locked, Typed, Frame, TypeOK, TypeOrigins
<1>1. FilesStay
  BY <1>0, ElsewhereHeld DEF FilesStay
<1>2. \A s, pk : /\ IsWhole(s, pk)' <=> IsWhole(s, pk)
                 /\ IsLoose(s, pk)' <=> IsLoose(s, pk)
                 /\ IsKept(s, pk)' <=> IsKept(s, pk)
                 /\ IsAlone(s, pk)' <=> IsAlone(s, pk)
  BY <1>1, SameFiles
<1>3. ASSUME NEW label \in {"open", "closed"}, Leave(p, label), UNCHANGED outcome PROVE Custody'
  <2>1. IsAtWork(p)'
    BY <1>0, <1>3, LeaveRests, RestWorks
  <2> QED
    BY <1>0, <1>3, <2>1, QuietKeeps
<1>4. ASSUME NEW j \in journals[t], CanFinalize(t, j),
             outcome' = [i \in Items |-> IF \E pk \in Installed(t, j) : pk[1] = i
                                         THEN Created(j.acts[i], j.at) ELSE outcome[i]],
             job' = [job EXCEPT ![p] = [j |-> j]], Goto(p, "drop")
      PROVE  Custody'
  <2>0. j.acts \in Plans /\ PacketsOf(j.acts) \subseteq Packets
    BY <1>0, <1>4, PlanCreates DEF Typed, TypeOK, TypeOrigins, Journal
  <2>1. ASSUME NEW pk \in Installed(t, j)
        PROVE  /\ pk[1] \in Items /\ outcome'[pk[1]].kind = "created"
               /\ pk = <<pk[1], j.acts[pk[1]]>>
               /\ outcome'[pk[1]].copy = pk[2] /\ pk[2] \in Copies /\ pending[t][pk] # "none"
    <3>1. /\ pk \in PacketsOf(j.acts) /\ pk \in Packets /\ pending[t][pk] # "none"
          /\ pk = <<pk[1], j.acts[pk[1]]>>
      BY <2>0, <2>1 DEF Installed, PacketsOf
    <3>2. pk[1] \in Items /\ pk[2] \in Copies
      BY <3>1 DEF Packets
    <3>3. outcome'[pk[1]] = Created(j.acts[pk[1]], j.at)
      BY <1>4, <2>1, <3>2
    <3>4. j.acts[pk[1]] = pk[2]
      BY <3>1
    <3> QED
      BY <3>1, <3>2, <3>3, <3>4 DEF Created
  <2>2. ASSUME NEW i \in Items, ~\E pk \in Installed(t, j) : pk[1] = i
        PROVE  outcome'[i] = outcome[i]
    BY <1>4, <2>2
  <2>3. SeenStay
    BY <2>1, <2>2 DEF SeenStay, IsSeen
  <2>4. Accounted'
    BY <1>0, <1>2, <2>3 DEF Custody, Books, Accounted, IsJournaledIn, SeenStay, Packets
  <2>5. Backed'
    <3>1. ASSUME NEW i \in Items, outcome'[i].kind = "created"
          PROVE  outcome'[i].copy \in Copies /\ \E s \in Trees : IsKept(s, <<i, outcome[i].copy>>)'
      <4>1. CASE \E pk \in Installed(t, j) : pk[1] = i
        <5>1. PICK pk \in Installed(t, j) : pk[1] = i
          BY <4>1
        <5>2. /\ outcome'[i].copy = pk[2] /\ pk = <<i, pk[2]>> /\ pk[2] \in Copies
              /\ pending'[t][pk] # "none"
          BY <1>0, <2>1, <5>1
        <5>3. pending'[t][<<i, outcome'[i].copy>>] # "none"
          BY <5>2
        <5> QED
          BY <1>0, <5>2, <5>3 DEF IsKept, IsKnown
      <4>2. CASE ~\E pk \in Installed(t, j) : pk[1] = i
        <5>1. outcome'[i] = outcome[i]
          BY <2>2, <4>2
        <5> QED
          BY <1>0, <1>2, <3>1, <5>1 DEF Custody, Books, Backed, IsSafe, IsKept, IsKnown, IsHeld
      <4> QED
        BY <4>1, <4>2
    <3> QED
      BY <1>0, <3>1 DEF Backed, IsSafe
  <2>6. Twinless' /\ Promoted'
    BY <1>0, <1>2 DEF Custody, Books, Twinless, Promoted
  <2>7. at'[p] = "drop" /\ job'[p].j = j
    BY <1>0, <1>4, GotoMoves, JobMoves DEF Labels
  <2>8. \A pk \in PacketsOf(j.acts) : pending'[t][pk] = "none" \/ IsSeen(pk[1])'
    BY <1>0, <2>1 DEF Installed, IsSeen
  <2>9. Originates(p)'
    BY <1>0, <2>7, <2>8 DEF Originates
  <2> QED
    BY <1>0, <2>3, <2>4, <2>5, <2>6, <2>9, OriginKeeps
<1> QED
  BY <1>3, <1>4 DEF Recover

LEMMA DropKeeps ==
  ASSUME Typed, Typed', Resolutive, Orderly, Custody, NEW p \in Procs, Originate(p),
         DropJournal(p)
  PROVE  Custody'
<1> DEFINE t == home[p]
<1>a. PICK j : j = job[p].j
  OBVIOUS
<1>0. /\ at[p] = "drop" /\ route = "import" /\ lock = p /\ Frame /\ t \in Trees
      /\ UNCHANGED <<route, home, pending, resolved, cut, outcome, attempts, raced, marker>>
      /\ UNCHANGED setting /\ IsElsewhere(p) /\ IsAtWork(p)
      /\ journals' = [journals EXCEPT ![t] = @ \ {j}] /\ Goto(p, "recover")
  BY <1>a, OriginateElsewhere
     DEF DropJournal, Originate, capture, files, setting, Orderly, Locked, Typed, Frame, JobFits, Custody
<1>1. FilesStay
  BY <1>0, ElsewhereHeld DEF FilesStay
<1>2. /\ \A s, pk : /\ IsWhole(s, pk)' <=> IsWhole(s, pk)
                    /\ IsLoose(s, pk)' <=> IsLoose(s, pk)
                    /\ IsKept(s, pk)' <=> IsKept(s, pk)
                    /\ IsAlone(s, pk)' <=> IsAlone(s, pk)
      /\ \A i : IsSeen(i)' <=> IsSeen(i)
  BY <1>0, <1>1, SameFiles DEF IsSeen
<1>3. /\ \A s \in Trees : journals'[s] \subseteq journals[s]
      /\ \A s \in Trees \ {t} : journals'[s] = journals[s]
      /\ \A k \in journals[t] : k = j \/ k \in journals'[t]
  BY <1>0 DEF Typed, TypeOK, TypeOrigins
<1>4. \A pk \in PacketsOf(j.acts) : IsSeen(pk[1]) \/ ~IsLoose(t, pk)
  <2>1. \A pk : <<t, pk>> \notin Taken
    BY <1>0, HeldByOne
  <2>2. \A pk \in PacketsOf(j.acts) : pending[t][pk] = "none" \/ IsSeen(pk[1])
    BY <1>0, <1>a DEF IsAtWork, Originates
  <2> QED
    BY <2>1, <2>2 DEF IsLoose
<1>5. Accounted'
  <2> SUFFICES ASSUME NEW s \in Trees \ raced, NEW pk \in Packets, IsLoose(s, pk), ~IsSeen(pk[1])
               PROVE  \E k \in journals'[s] : pk \in PacketsOf(k.acts)
    BY <1>0, <1>2 DEF Accounted, IsJournaledIn
  <2>1. PICK k \in journals[s] : pk \in PacketsOf(k.acts)
    BY <1>0 DEF Custody, Books, Accounted, IsJournaledIn
  <2> QED
    BY <1>3, <1>4, <2>1
<1>6. Backed' /\ Twinless' /\ Promoted'
  BY <1>0, <1>2 DEF Custody, Books, Backed, IsSafe, Twinless, Promoted
<1>7. at'[p] = "recover"
  BY <1>0, GotoMoves DEF Labels
<1>8. Originates(p)'
  BY <1>0, <1>7 DEF Originates, Originating, Judging
<1> QED
  BY <1>0, <1>2, <1>3, <1>5, <1>6, <1>8, OriginKeeps DEF SeenStay

(* The journal of a promotion, discarded without the lock.                 *)
LEMMA DiscardKeeps ==
  ASSUME Typed, Typed', Resolutive, Orderly, Custody, NEW p \in Procs, Originate(p),
         DiscardJournal(p)
  PROVE  Custody'
<1> DEFINE t == home[p]
<1>0. /\ route = "session_end" /\ Frame /\ t \in Trees
      /\ UNCHANGED <<route, home, pending, resolved, cut, outcome, attempts, marker>>
      /\ UNCHANGED setting /\ IsElsewhere(p) /\ attempts \in Nat
      /\ journals' = [journals EXCEPT ![t] = {}] /\ Leave(p, "open")
      /\ raced' = IF (lock # NoProc /\ home[lock] = t) \/ \E j \in journals[t] : Verdict(t, j) # "discard"
                  THEN raced \cup {t} ELSE raced
  BY OriginateElsewhere, AttemptsAssumption
     DEF DiscardJournal, Originate, capture, files, setting, Typed, Frame, JobFits, Judging,
         TypeOK, TypeOrigins
<1>1. FilesStay
  BY <1>0, ElsewhereHeld DEF FilesStay
<1>2. /\ \A s, pk : /\ IsWhole(s, pk)' <=> IsWhole(s, pk)
                    /\ IsLoose(s, pk)' <=> IsLoose(s, pk)
                    /\ IsKept(s, pk)' <=> IsKept(s, pk)
                    /\ IsAlone(s, pk)' <=> IsAlone(s, pk)
      /\ \A i : IsSeen(i)' <=> IsSeen(i)
  BY <1>0, <1>1, SameFiles DEF IsSeen
<1>3. /\ \A s \in Trees : journals'[s] \subseteq journals[s]
      /\ \A s \in Trees \ {t} : journals'[s] = journals[s]
      /\ raced \subseteq raced'
  BY <1>0 DEF Typed, TypeOK, TypeOrigins
<1>4. Accounted'
  <2> SUFFICES ASSUME NEW s \in Trees \ raced', NEW pk \in Packets, IsLoose(s, pk), ~IsSeen(pk[1])
               PROVE  \E k \in journals'[s] : pk \in PacketsOf(k.acts)
    BY <1>0, <1>2 DEF Accounted, IsJournaledIn
  <2>1. PICK k \in journals[s] : pk \in PacketsOf(k.acts)
    BY <1>0, <1>3 DEF Custody, Books, Accounted, IsJournaledIn
  <2>2. CASE s # t
    BY <1>3, <2>1, <2>2
  <2>3. CASE s = t
    <3>1. Verdict(t, k) = "discard" /\ ~(lock # NoProc /\ home[lock] = t)
      BY <1>0, <2>1, <2>3
    <3>2. \A i \in Items : ~IsSeen(i)
      BY <1>0 DEF Custody, Books, Promoted, Packets
    <3>3. Installed(t, k) = {}
      BY <3>1, <3>2 DEF Verdict
    <3>4. pending[t][pk] = "none"
      BY <2>1, <2>3, <3>3 DEF Installed
    <3>5. <<t, pk>> \notin Taken
      <4>1. SUFFICES ASSUME NEW q \in Procs, at[q] \in {"write", "install", "finish"}, home[q] = t
                     PROVE  FALSE
        BY DEF Taken, Takers
      <4>2. lock = q
        BY <4>1 DEF Resolutive, Resolving
      <4> QED
        BY <3>1, <4>1, <4>2, CasesAssumption
    <3> QED
      BY <2>3, <3>4, <3>5 DEF IsLoose
  <2> QED
    BY <2>2, <2>3
<1>5. Books'
  BY <1>0, <1>2, <1>3, <1>4
     DEF Custody, Books, OwnTrees, Backed, IsSafe, Twinless, Promoted, Batched
<1>6. IsAtWork(p)'
  BY <1>0, LeaveRests, RestWorks
<1>7. Footprint(p) /\ SeenStay
  BY <1>0, <1>2, <1>3 DEF Footprint, SeenStay
<1> QED
  BY <1>0, <1>3, <1>5, <1>6, <1>7, StepKeeps

LEMMA CrashKeeps ==
  ASSUME Typed, Typed', Resolutive, Orderly, Custody, NEW p \in Procs, Originate(p),
         CrashInOperation(p)
  PROVE  Custody'
<1> DEFINE t == home[p]
<1>a. PICK j, acts : j = job[p] /\ acts = j.acts
  OBVIOUS
<1> DEFINE new == <<j.k, acts[j.k]>>
<1>0. /\ Leave(p, "closed") /\ UNCHANGED <<outcome, journals, attempts, raced, marker>>
      /\ pending' = pending \/ (at[p] = "create" /\ pending' = [pending EXCEPT ![t][new] = "torn"])
  BY <1>a DEF CrashInOperation, Creating, Originate, capture, origins
<1>1. CASE pending' = pending
  <2>1. /\ Frame /\ IsElsewhere(p) /\ attempts <= attempts'
        /\ UNCHANGED <<setting, resolved, cut>>
    BY <1>0, OriginateElsewhere, AttemptsAssumption DEF Typed, TypeOK, TypeOrigins
  <2>2. IsAtWork(p)'
    BY <1>0, <2>1, LeaveRests, RestWorks
  <2> QED
    BY <1>0, <1>1, <2>1, <2>2, QuietKeeps
<1>2. CASE at[p] = "create" /\ pending' = [pending EXCEPT ![t][new] = "torn"]
  <2>1. /\ route \in {"import", "session_end"} /\ lock = p /\ Originates(p) /\ Frame
        /\ j \in Operation /\ acts \in Plans /\ t \in Trees
        /\ PacketsOf(acts) \subseteq Packets
        /\ UNCHANGED <<route, home, resolved, cut>> /\ Held' = Held /\ Taken' = Taken
    BY <1>2, <1>a, OriginKnows DEF Originating
  <2>2. new \in PacketsOf(acts) /\ new \in Packets
    BY <1>2, <1>a, <2>1 DEF Typed, JobFits, InHand, PacketsOf
  <2> HIDE DEF new
  <2>3. /\ \A s \in Trees, k \in Packets :
              pending'[s][k] = IF s = t /\ k = new THEN "torn" ELSE pending[s][k]
        /\ \A s \in Trees \ {t} : pending'[s] = pending[s]
    BY <1>2, <2>1, <2>2, NewFile DEF Typed, TypeOK
  <2>4. /\ \A s \in Trees, pk \in Packets :
              /\ IsWhole(s, pk)' => IsWhole(s, pk)
              /\ IsLoose(s, pk)' => IsLoose(s, pk) \/ (s = t /\ pk = new)
              /\ IsKept(s, pk) => IsKept(s, pk)'
        /\ \A k : IsSeen(k)' <=> IsSeen(k)
    BY <1>0, <2>1, <2>3 DEF IsWhole, IsLoose, IsKept, IsKnown, IsHeld, IsSeen
  <2>5. t \notin raced => IsJournaledIn(t, new)
    <3>1. t \notin raced => JournalOf(j) \in journals[t]
      BY <1>2, <1>a, <2>1 DEF Originates
    <3>2. JournalOf(j).acts = acts
      BY <1>a DEF JournalOf
    <3> QED
      BY <2>2, <3>1, <3>2 DEF IsJournaledIn
  <2>6. Accounted'
    BY <1>0, <2>1, <2>4, <2>5 DEF Custody, Books, Accounted, IsJournaledIn
  <2>7. Backed'
    <3> SUFFICES ASSUME NEW n \in Items, outcome[n].kind = "created"
                 PROVE  /\ outcome[n].copy \in Copies
                        /\ \E s \in Trees : IsKept(s, <<n, outcome[n].copy>>)'
      BY <1>0, <2>1 DEF Backed, IsSafe
    <3>1. PICK s \in Trees : outcome[n].copy \in Copies /\ IsKept(s, <<n, outcome[n].copy>>)
      BY DEF Custody, Books, Backed, IsSafe
    <3>2. <<n, outcome[n].copy>> \in Packets
      BY <3>1 DEF Packets
    <3> QED
      BY <1>0, <2>4, <3>1, <3>2
  <2>8. Twinless'
    <3> SUFFICES ASSUME NEW s \in Trees \ raced, NEW pk \in Packets, IsWhole(s, pk)',
                        NEW c \in Copies, c # pk[2], IsWhole(s, <<pk[1], c>>)'
                 PROVE  FALSE
      BY <1>0 DEF Twinless, IsAlone
    <3>1. <<pk[1], c>> \in Packets
      BY DEF Packets
    <3> QED
      BY <2>4, <3>1 DEF Custody, Books, Twinless, IsAlone
  <2>9. Promoted' /\ Originates(p)'
    BY <1>0, <2>1, <2>4, LeaveRests DEF Custody, Books, Promoted
  <2> QED
    BY <1>0, <2>1, <2>3, <2>4, <2>6, <2>7, <2>8, <2>9, OriginKeeps DEF SeenStay
<1> QED
  BY <1>0, <1>1, <1>2

LEMMA OriginateKeeps ==
  ASSUME Typed, Typed', Resolutive, Orderly, Custody, NEW p \in Procs, Originate(p)
  PROVE  Custody'
BY StartKeeps, QuietOriginate, WriteJournalKeeps, CreateKeeps, CommitKeeps, RemoveKeeps,
   FailKeeps, RecoverKeeps, DropKeeps, DiscardKeeps, CrashKeeps
   DEF Originate, Origination, OriginRecovery

(* Services that open and close.                                           *)
LEMMA ServeKeeps ==
  ASSUME Typed, Typed', Resolutive, Orderly, Custody, NEW p \in Procs, Serve(p)
  PROVE  Custody'
<1>1. /\ Frame /\ IsElsewhere(p) /\ attempts <= attempts'
      /\ UNCHANGED <<setting, pending, resolved, cut, outcome, journals, marker, raced>>
  BY ServeElsewhere, AttemptsAssumption
     DEF Serve, OpenManual, Close, GiveUp, origins, capture, files, Typed, TypeOK, TypeOrigins
<1>2. at'[p] \in AtRest
  BY <1>1, GotoMoves, LeaveMoves DEF Serve, OpenManual, Close, GiveUp, Labels, AtRest
<1> QED
  BY <1>1, <1>2, RestWorks, QuietKeeps

-------------------------------------------------------------------------------
(* Captures: the ways on, and the steps that leave the books alone.        *)

LEMMA CaptureKnows ==
  ASSUME Typed, Resolutive, Orderly, Custody, NEW p \in Procs, Captures(p)
  PROVE  /\ route = "capture" /\ home[p] \in Trees /\ Frame /\ JobFits(p)
         /\ IsElsewhere(p) /\ UNCHANGED <<setting, route, home, resolved, cut>>
         /\ Held' = Held /\ Taken' = Taken /\ \A pk : <<home[p], pk>> \notin Taken
         /\ Reviews(p) /\ Settles(p) /\ attempts \in Nat /\ marker[home[p]] \in Nat
         /\ at[p] \in {"recover", "plan"} \cup Reviewing \cup Settling =>
              /\ job[p] \in Attempt /\ job[p].acts \in Plans
              /\ PacketsOf(job[p].acts) \subseteq Packets /\ Creates(job[p].acts) \subseteq Items
<1>1. route = "capture"
  BY DEF Captures, OpenCapture, CaptureRecovery, Capture, FailCapture, CrashInCapture, AcquireCapture,
         RecoverCapture, Complete, Clear, UndoInstall, Disown, Retire, StartCapture, CheckPlan,
         Announce, StageOne, Place, Own, Record, Typed, JobFits, Reviewing, Settling
<1>2. /\ home[p] \in Trees /\ Frame /\ JobFits(p) /\ IsElsewhere(p)
      /\ UNCHANGED <<setting, route, home, resolved, cut>>
  BY CapturesElsewhere DEF Typed, Frame, setting
<1>3. Held' = Held /\ Taken' = Taken
  BY <1>2, ElsewhereHeld
<1>4. \A pk : <<home[p], pk>> \notin Taken
  <2>1. at[p] \notin {"write", "install", "finish"}
    BY <1>2 DEF IsElsewhere, Resolving
  <2> QED
    BY <1>1, <2>1 DEF Taken, Takers, Custody, Books, OwnTrees
<1>5. attempts \in Nat /\ marker[home[p]] \in Nat
  BY <1>2, AttemptsAssumption DEF Typed, TypeOK, TypeOrigins, TypeCapture
<1>6. Reviews(p) /\ Settles(p)
  BY <1>1 DEF Custody, IsAtWork
<1>7. ASSUME at[p] \in {"recover", "plan"} \cup Reviewing \cup Settling
      PROVE  /\ job[p] \in Attempt /\ job[p].acts \in Plans
             /\ PacketsOf(job[p].acts) \subseteq Packets /\ Creates(job[p].acts) \subseteq Items
  <2>1. job[p] \in Attempt
    BY <1>1, <1>2, <1>7 DEF JobFits
  <2> QED
    BY <2>1, PlanCreates DEF Attempt
<1> QED
  BY <1>1, <1>2, <1>3, <1>4, <1>5, <1>6, <1>7

(* A step of a capture, from what it makes of the books.                   *)
LEMMA CaptureKeeps ==
  ASSUME Typed, Typed', Resolutive, Orderly, Custody, NEW p \in Procs, Captures(p),
         \A t \in Trees \ {home[p]} : UNCHANGED <<pending[t], journals[t], marker[t]>>,
         lock = p \/ outcome' = outcome,
         UNCHANGED <<raced, attempts>>, SeenStay,
         Accounted', Backed', Twinless', Batched', IsAtWork(p)'
  PROVE  Custody'
<1>1. /\ route' = "capture" /\ route = "capture" /\ home' = home /\ IsElsewhere(p) /\ UNCHANGED setting
      /\ attempts \in Nat
  BY CaptureKnows
<1>2. Books'
  BY <1>1 DEF Custody, Books, OwnTrees, Promoted
<1>3. Footprint(p) /\ attempts <= attempts'
  BY <1>1 DEF Footprint
<1> QED
  BY <1>1, <1>2, <1>3, StepKeeps

LEMMA ToRecoveryWorks ==
  ASSUME Frame, NEW p \in Procs, route' = "capture", job[p] \in Attempt, NEW again \in BOOLEAN,
         ToRecovery(p, again)
  PROVE  IsAtWork(p)'
<1>1. /\ Goto(p, "recover") /\ "recover" \in Labels
      /\ job' = [job EXCEPT ![p] = [job[p] EXCEPT !.next = "open", !.again = again, !.k = 1]]
  BY DEF ToRecovery, Labels
<1>2. at'[p] = "recover"
  BY <1>1, GotoMoves
<1>3. job'[p] = [job[p] EXCEPT !.next = "open", !.again = again, !.k = 1]
  BY <1>1, JobMoves
<1>4. job'[p].next = "open"
  BY <1>3 DEF Attempt
<1> QED
  BY <1>2, <1>4
     DEF IsAtWork, Originates, Originating, Judging, Reviews, IsAhead, Reviewing, Settles, Settling

LEMMA LeaveWorks ==
  ASSUME Frame, NEW p \in Procs, NEW label \in {"open", "closed"}, Leave(p, label)
  PROVE  IsAtWork(p)'
BY LeaveRests, RestWorks

LEMMA RefuseWorks ==
  ASSUME Frame, NEW p \in Procs, route' = "capture", job[p] \in Attempt, Refuse(p)
  PROVE  IsAtWork(p)'
<1>1. job[p].back \in {"open", "closed"}
  BY DEF Attempt
<1> QED
  BY <1>1, ToRecoveryWorks, LeaveWorks DEF Refuse

(* A capture that reaches a label of its own.                              *)
LEMMA CaptureWorks ==
  ASSUME NEW p \in Procs, at'[p] \in {"recover", "plan"} \cup Reviewing \cup Settling,
         route' = "capture", Reviews(p)', Settles(p)'
  PROVE  IsAtWork(p)'
BY DEF IsAtWork, Originates, Originating, Judging, Reviewing, Settling

LEMMA SettledWorks ==
  ASSUME Typed, NEW p \in Procs, route = "capture", route' = "capture", home' = home,
         job[p] \in Attempt, at[p] \in {"recover"} \cup Settling, Reviews(p),
         attempts' = attempts, marker[home[p]] \in Nat, marker'[home[p]] \in {marker[home[p]], 0},
         Settled(p)
  PROVE  IsAtWork(p)'
<1>0. Frame
  BY DEF Typed
<1>1. CASE job[p].next = "plan"
  <2>1. /\ Goto(p, "plan") /\ "plan" \in Labels
        /\ job' = [job EXCEPT ![p] = [job[p] EXCEPT !.acts = job[p].plan, !.k = 1]]
    BY <1>1 DEF Settled, Labels
  <2>2. /\ at'[p] = "plan" /\ job'[p].acts = job[p].plan /\ job'[p].plan = job[p].plan
        /\ job'[p].at = job[p].at
    BY <1>0, <2>1, GotoMoves, JobMoves DEF Attempt
  <2>3. job[p].at \in Nat /\ job[p].at # 0
    BY <1>1, AttemptsAssumption DEF Typed, JobFits, Attempt
  <2>4. marker[home[p]] < job[p].at /\ job[p].at <= attempts
    BY <1>1 DEF Reviews, IsAhead
  <2>5. Reviews(p)' /\ Settles(p)'
    BY <2>2, <2>3, <2>4 DEF Reviews, Settles, Reviewing, Settling
  <2> QED
    BY <2>2, <2>5, CaptureWorks
<1>2. CASE job[p].next # "plan"
  BY <1>0, <1>2, LeaveWorks DEF Settled, Attempt
<1> QED
  BY <1>1, <1>2

(* The next label of a capture or of its recovery.                         *)
LEMMA AttemptMoves ==
  ASSUME Frame, NEW p \in Procs, job[p] \in Attempt, NEW k, NEW label \in Reviewing \cup Settling,
         Step(p, k, label)
  PROVE  /\ at'[p] = label /\ job'[p].k = k /\ job'[p].acts = job[p].acts
         /\ JournalOf(job'[p]) = JournalOf(job[p]) /\ job'[p].at = job[p].at
         /\ job'[p].next = job[p].next /\ job'[p].loaded = job[p].loaded
         /\ job'[p].mine = job[p].mine
<1>1. at'[p] = label /\ job'[p] = [job[p] EXCEPT !.k = k]
  BY StepMoves DEF Labels
<1> QED
  BY <1>1 DEF Attempt, JournalOf

(* A recovery that goes on, with the journal it loaded.                    *)
LEMMA SettlingWorks ==
  ASSUME NEW p \in Procs, route' = "capture", home' = home, at[p] \in {"recover"} \cup Settling,
         at'[p] \in Settling, Reviews(p), job'[p].at = job[p].at, job'[p].next = job[p].next,
         attempts' = attempts, marker' = marker, Settles(p)'
  PROVE  IsAtWork(p)'
<1>1. Reviews(p)'
  BY DEF Reviews, IsAhead, Reviewing, Settling
<1> QED
  BY <1>1, CaptureWorks

(* The candidates of a batch, one after the other.                         *)
LEMMA BatchNumbers ==
  ASSUME NEW acts \in Plans, NEW pk \in PacketsOf(acts)
  PROVE  pk[1] \in Creates(acts) /\ pk[1] \in Nat \ {0} /\ pk = <<pk[1], acts[pk[1]]>>
<1>1. Creates(acts) \subseteq Items
  BY PlanCreates
<1> QED
  BY <1>1, ItemsAreNumbers DEF PacketsOf

LEMMA FirstNext ==
  ASSUME NEW acts \in Plans, NEW i \in Items, IsNext(acts, 0, i), NEW pk \in PacketsOf(acts)
  PROVE  ~(pk[1] < i)
<1>1. pk[1] \in Creates(acts) /\ pk[1] \in Nat \ {0} /\ i \in Nat
  BY BatchNumbers, ItemsAreNumbers
<1> QED
  BY <1>1 DEF IsNext

LEMMA ThenNext ==
  ASSUME NEW acts \in Plans, NEW k \in Items, NEW i \in Items, IsNext(acts, k, i),
         NEW pk \in PacketsOf(acts)
  PROVE  pk[1] < i <=> pk[1] <= k
<1>1. pk[1] \in Creates(acts) /\ pk[1] \in Nat \ {0} /\ i \in Nat /\ k \in Nat
  BY BatchNumbers, ItemsAreNumbers
<1> QED
  BY <1>1 DEF IsNext

LEMMA LastOne ==
  ASSUME NEW p \in Procs, NEW acts \in Plans, acts = job[p].acts, job[p].k \in Items, IsLast(p),
         NEW pk \in PacketsOf(acts)
  PROVE  pk[1] <= job[p].k /\ pk[1] \in Nat /\ job[p].k \in Nat
BY BatchNumbers, ItemsAreNumbers DEF IsLast, Creating

LEMMA CaptureQuiet ==
  ASSUME Typed, Typed', Resolutive, Orderly, Custody, NEW p \in Procs, Captures(p),
         UNCHANGED <<pending, outcome, journals, marker, raced>>, attempts <= attempts',
         IsAtWork(p)'
  PROVE  Custody'
BY CaptureKnows, QuietKeeps

LEMMA OpenKeeps ==
  ASSUME Typed, Typed', Resolutive, Orderly, Custody, NEW p \in Procs, Captures(p),
         OpenCapture(p) \/ AcquireCapture(p)
  PROVE  Custody'
<1>0. /\ UNCHANGED <<pending, outcome, journals, marker, raced>> /\ attempts <= attempts' /\ Frame
      /\ route' = "capture"
  BY CaptureKnows DEF OpenCapture, AcquireCapture, files, origins, capture
<1>1. CASE OpenCapture(p)
  <2>1. at'[p] \in AtRest
    BY <1>0, <1>1, GotoMoves DEF OpenCapture, AtRest, Labels
  <2> QED
    BY <1>0, <2>1, RestWorks, CaptureQuiet
<1>2. CASE AcquireCapture(p)
  <2>1. at'[p] = "recover" /\ job'[p] = Recovery(<<>>, 0, "closed", "open")
    BY <1>0, <1>2, EnterMoves DEF AcquireCapture, Labels
  <2>2. job'[p].next = "open"
    BY <2>1 DEF Recovery
  <2>3. IsAtWork(p)'
    BY <1>0, <2>1, <2>2 DEF IsAtWork, Originates, Originating, Judging, Reviews, IsAhead, Reviewing,
                          Settles, Settling
  <2> QED
    BY <1>0, <2>3, CaptureQuiet
<1> QED
  BY <1>1, <1>2

LEMMA CaptureStarts ==
  ASSUME Typed, Typed', Resolutive, Orderly, Custody, NEW p \in Procs, Captures(p),
         NEW acts, StartCapture(p, acts)
  PROVE  Custody'
<1> DEFINE t == home[p]  j == Recovery(acts, attempts + 1, "open", "plan")
<1>0. /\ UNCHANGED <<pending, outcome, journals, marker, raced>> /\ attempts' = attempts + 1
      /\ Frame /\ route = "capture" /\ route' = "capture" /\ home' = home /\ t \in Trees
      /\ attempts \in Nat /\ marker[t] \in Nat
  BY CaptureKnows DEF StartCapture, files, capture
<1>1. j.at = attempts + 1
  BY DEF Recovery
<1>2. IF TakesLock(acts) THEN Enter(p, j, "recover")
      ELSE job' = [job EXCEPT ![p] = j] /\ Goto(p, "recover") /\ UNCHANGED lock
  BY DEF StartCapture
<1> HIDE DEF j
<1>3. at'[p] = "recover" /\ job'[p] = j
  BY <1>0, <1>2, GotoMoves, JobMoves, EnterMoves DEF Labels
<1>4. marker[t] <= attempts
  BY <1>0 DEF Custody, Books, Batched
<1>5. Reviews(p)' /\ Settles(p)'
  BY <1>0, <1>1, <1>3, <1>4 DEF Reviews, IsAhead, Reviewing, Settles, Settling
<1>6. IsAtWork(p)'
  BY <1>0, <1>3, <1>5, CaptureWorks
<1> QED
  BY <1>0, <1>6, CaptureQuiet

LEMMA CheckKeeps ==
  ASSUME Typed, Typed', Resolutive, Orderly, Custody, NEW p \in Procs, Captures(p), CheckPlan(p)
  PROVE  Custody'
<1> DEFINE t == home[p]
<1>a. PICK j, acts : j = job[p] /\ acts = j.acts
  OBVIOUS
<1>0. /\ UNCHANGED <<pending, outcome, journals, marker, raced>> /\ attempts <= attempts'
      /\ Frame /\ route = "capture" /\ route' = "capture" /\ home' = home /\ t \in Trees
      /\ at[p] = "plan" /\ j \in Attempt /\ acts \in Plans /\ PacketsOf(acts) \subseteq Packets
      /\ Reviews(p) /\ Taken' = Taken /\ (\A pk : <<t, pk>> \notin Taken) /\ attempts' = attempts
  BY <1>a, CaptureKnows DEF CheckPlan, files, origins, capture
<1>1. acts = j.plan /\ marker[t] < j.at /\ j.at <= attempts
  BY <1>0, <1>a DEF Reviews, IsAhead
<1>2. CASE Leave(p, "open")
  BY <1>0, <1>2, LeaveWorks, CaptureQuiet
<1>3. ASSUME IsPlan(t, acts), NEW label \in {"record", "announce"}, Step(p, 1, label),
             label = "record" => Creates(acts) = {}
      PROVE  Custody'
  <2>1. /\ at'[p] = label /\ job'[p].acts = acts /\ job'[p].at = j.at
    BY <1>0, <1>a, <1>3, AttemptMoves DEF Reviewing
  <2>2. IsGone(t, acts) /\ Fits(acts) /\ \A pk \in PacketsOf(acts) : \A c \in Copies :
                                            pending[t][<<pk[1], c>>] # "whole"
    BY <1>0, <1>3, PlanTells
  <2>3. (IsGone(t, job[p].acts) /\ Fits(job[p].acts) /\ AllAlone(t, job[p].acts))'
    BY <1>0, <2>1, <2>2 DEF IsGone, Fits, AllAlone, IsAlone, IsWhole, IsSeen
  <2>4. label = "record" => IsMade(t, job[p].acts)'
    BY <1>3, <2>1 DEF IsMade, PacketsOf
  <2>5. Reviews(p)' /\ Settles(p)'
    BY <1>0, <1>1, <1>3, <2>1, <2>3, <2>4 DEF Reviews, Settles, Settling, IsAhead
  <2>6. IsAtWork(p)'
    BY <1>0, <2>1, <2>5, CaptureWorks DEF Reviewing
  <2> QED
    BY <1>0, <2>6, CaptureQuiet
<1> QED
  BY <1>a, <1>1, <1>2, <1>3 DEF CheckPlan

LEMMA StageKeeps ==
  ASSUME Typed, Typed', Resolutive, Orderly, Custody, NEW p \in Procs, Captures(p), StageOne(p)
  PROVE  Custody'
<1> DEFINE t == home[p]
<1>a. PICK j, k, acts : j = job[p] /\ acts = j.acts /\ k = j.k
  OBVIOUS
<1>0. /\ UNCHANGED <<pending, outcome, journals, marker, raced>> /\ attempts' = attempts
      /\ Frame /\ route = "capture" /\ route' = "capture" /\ home' = home /\ t \in Trees
      /\ at[p] = "stage" /\ j \in Attempt /\ acts \in Plans
      /\ Reviews(p) /\ NextItem(p, "place") /\ attempts \in Nat
  BY <1>a, CaptureKnows DEF StageOne, files, origins, Reviewing
<1>1. /\ Fits(acts) /\ marker[t] < j.at /\ j.at <= attempts /\ IsGone(t, acts)
      /\ journals[t] = {JournalOf(j)}
  BY <1>0, <1>a DEF Reviews, IsAhead, Reviewing
<1>2. PICK i \in Items, label \in {"stage", "place"} :
         Step(p, i, label) /\ (label = "place" => IsNext(acts, 0, i))
  BY <1>0, <1>a DEF NextItem, StepAfter
<1>3. /\ at'[p] = label /\ job'[p].acts = acts /\ job'[p].at = j.at /\ job'[p].k = i
      /\ JournalOf(job'[p]) = JournalOf(j)
  BY <1>0, <1>a, <1>2, AttemptMoves DEF Reviewing
<1>4. label = "place" => IsUpTo(t, acts, i)
  BY <1>0, <1>1, <1>2, FirstNext DEF IsUpTo, IsGone
<1>5. /\ (IsGone(t, job[p].acts) /\ Fits(job[p].acts))'
      /\ label = "place" => IsUpTo(t, job[p].acts, job[p].k)'
  BY <1>0, <1>1, <1>3, <1>4 DEF IsGone, Fits, IsSeen, IsUpTo
<1>6. Reviews(p)' /\ Settles(p)'
  BY <1>0, <1>1, <1>3, <1>5 DEF Reviews, Settles, Settling, IsAhead
<1>7. IsAtWork(p)'
  BY <1>0, <1>3, <1>6, CaptureWorks DEF Reviewing
<1> QED
  BY <1>0, <1>7, CaptureQuiet

LEMMA OwnKeeps ==
  ASSUME Typed, Typed', Resolutive, Orderly, Custody, NEW p \in Procs, Captures(p), Own(p)
  PROVE  Custody'
<1> DEFINE t == home[p]
<1>a. PICK j, k, acts : j = job[p] /\ acts = j.acts /\ k = j.k
  OBVIOUS
<1>0. /\ UNCHANGED <<pending, outcome, journals, marker, raced>> /\ attempts' = attempts
      /\ Frame /\ route = "capture" /\ route' = "capture" /\ home' = home /\ t \in Trees
      /\ at[p] = "own" /\ j \in Attempt /\ acts \in Plans
      /\ Reviews(p) /\ attempts \in Nat /\ k \in Items /\ k \in Nat
  <2>1. k \in Creates(acts)
    BY <1>a DEF Own, Typed, JobFits, InHand
  <2> QED
    BY <1>a, <2>1, CaptureKnows, PlanCreates, ItemsAreNumbers DEF Own, files, origins, Reviewing
<1>1. /\ Fits(acts) /\ marker[t] < j.at /\ j.at <= attempts /\ IsUpTo(t, acts, k + 1)
      /\ journals[t] = {JournalOf(j)}
  BY <1>0, <1>a DEF Reviews, IsAhead, Reviewing
<1>2. PICK i : \E label \in {"record", "place"} :
         /\ Step(p, i, label)
         /\ label = "place" => i \in Items /\ IsNext(acts, k, i)
         /\ label = "record" => IsLast(p)
  <2>1. CASE IsLast(p) /\ Step(p, 1, "record")
    BY <2>1
  <2>2. ASSUME NEW m \in Items, IsNext(acts, k, m), Step(p, m, "place")
        PROVE  \E n : \E label \in {"record", "place"} :
                  /\ Step(p, n, label)
                  /\ label = "place" => n \in Items /\ IsNext(acts, k, n)
                  /\ label = "record" => IsLast(p)
    BY <2>2
  <2> QED
    BY <1>a, <2>1, <2>2 DEF Own, StepAfter, Creating
<1>c. PICK label \in {"record", "place"} :
         /\ Step(p, i, label)
         /\ label = "place" => i \in Items /\ IsNext(acts, k, i)
         /\ label = "record" => IsLast(p)
  BY <1>2
<1>3. /\ at'[p] = label /\ job'[p].acts = acts /\ job'[p].at = j.at /\ job'[p].k = i
      /\ JournalOf(job'[p]) = JournalOf(j)
  BY <1>0, <1>a, <1>c, AttemptMoves DEF Reviewing
<1>4. label = "place" => IsUpTo(t, acts, i)
  <2>1. SUFFICES ASSUME label = "place", NEW pk \in PacketsOf(acts)
                 PROVE  IF pk[1] < i THEN pending[t][pk] \in Readable ELSE pending[t][pk] = "none"
    BY DEF IsUpTo
  <2>2. pk[1] < i <=> pk[1] <= k
    BY <1>0, <1>c, <2>1, ThenNext
  <2>3. pk[1] < k + 1 <=> pk[1] <= k
    BY <1>0, BatchNumbers
  <2> QED
    BY <1>1, <2>2, <2>3 DEF IsUpTo
<1>5. label = "record" => IsMade(t, acts)
  <2>1. SUFFICES ASSUME label = "record", NEW pk \in PacketsOf(acts)
                 PROVE  pending[t][pk] \in Readable
    BY DEF IsMade
  <2>2. pk[1] <= k /\ pk[1] \in Nat
    BY <1>0, <1>a, <1>c, <2>1, LastOne
  <2> QED
    BY <1>0, <1>1, <2>2 DEF IsUpTo
<1>6. /\ Fits(job[p].acts)'
      /\ label = "place" => IsUpTo(t, job[p].acts, job[p].k)'
      /\ label = "record" => IsMade(t, job[p].acts)'
  BY <1>0, <1>1, <1>3, <1>4, <1>5 DEF Fits, IsSeen, IsUpTo, IsMade
<1>7. Reviews(p)' /\ Settles(p)'
  BY <1>0, <1>1, <1>3, <1>6 DEF Reviews, Settles, Settling, IsAhead
<1>8. IsAtWork(p)'
  BY <1>0, <1>3, <1>7, CaptureWorks DEF Reviewing
<1> QED
  BY <1>0, <1>8, CaptureQuiet

(* The steps of a recovery that leave the files alone.                     *)
LEMMA RecoverCaptureKeeps ==
  ASSUME Typed, Typed', Resolutive, Orderly, Custody, NEW p \in Procs, Captures(p),
         RecoverCapture(p)
  PROVE  Custody'
<1> DEFINE t == home[p]
<1>0. /\ UNCHANGED <<pending, outcome, journals, marker, raced>> /\ attempts' = attempts
      /\ Frame /\ route = "capture" /\ route' = "capture" /\ home' = home /\ t \in Trees
      /\ at[p] = "recover" /\ job[p] \in Attempt /\ Reviews(p)
      /\ attempts \in Nat /\ marker[t] \in Nat
  BY CaptureKnows DEF RecoverCapture, files, origins, capture
<1>1. CASE Refuse(p)
  BY <1>0, <1>1, RefuseWorks, CaptureQuiet
<1>2. CASE Settled(p)
  <2>1. IsAtWork(p)'
    BY <1>0, <1>2, SettledWorks
  <2> QED
    BY <1>0, <2>1, CaptureQuiet
<1>3. ASSUME NEW b \in journals[t], IF IsCommitted(t, b) THEN CanComplete(t, b) ELSE CanUndo(t, b),
             NEW i \in Items, IsNext(b.acts, 0, i),
             job' = [job EXCEPT ![p].acts = b.acts, ![p].loaded = b.at,
                                ![p].mine = owned[t], ![p].k = i],
             Goto(p, IF IsCommitted(t, b) THEN "complete" ELSE "undo")
      PROVE  Custody'
  <2>0. b.acts \in Plans
    BY <1>0, <1>3 DEF Typed, TypeOK, TypeOrigins, Journal
  <2>1. job' = [job EXCEPT ![p] = [job[p] EXCEPT !.acts = b.acts, !.loaded = b.at,
                                                 !.mine = owned[t], !.k = i]]
    BY <1>3
  <2>2. /\ job'[p].acts = b.acts /\ job'[p].loaded = b.at /\ job'[p].mine = owned[t]
        /\ job'[p].k = i /\ job'[p].at = job[p].at /\ job'[p].next = job[p].next
    BY <1>0, <2>1, JobMoves DEF Attempt
  <2>3. at'[p] = IF IsCommitted(t, b) THEN "complete" ELSE "undo"
    BY <1>0, <1>3, GotoMoves DEF Labels, Settling
  <2>4. Settles(p)'
    <3>1. \E c \in journals'[t] : c.acts = job'[p].acts /\ c.at = job'[p].loaded
      BY <1>0, <1>3, <2>2
    <3>2. CASE IsCommitted(t, b)
      BY <1>0, <2>2, <2>3, <3>1, <3>2 DEF Settles, Settling, IsCommitted
    <3>3. CASE ~IsCommitted(t, b)
      <4>1. ASSUME NEW pk \in PacketsOf(b.acts)
            PROVE  (pending[t][pk] # "none" => pk[1] \in owned[t]) /\ ~(pk[1] < i)
        <5>1. ~(pk[1] < i)
          BY <1>3, <2>0, <4>1, FirstNext
        <5> QED
          BY <1>3, <3>3, <4>1, <5>1 DEF CanUndo
      <4> QED
        BY <1>0, <2>2, <2>3, <3>1, <3>3, <4>1 DEF Settles, Settling, IsCommitted
    <3> QED
      BY <3>2, <3>3
  <2>5. IsAtWork(p)'
    BY <1>0, <2>2, <2>3, <2>4, SettlingWorks DEF Settling
  <2> QED
    BY <1>0, <2>5, CaptureQuiet
<1> QED
  BY <1>1, <1>2, <1>3 DEF RecoverCapture

LEMMA ClearKeeps ==
  ASSUME Typed, Typed', Resolutive, Orderly, Custody, NEW p \in Procs, Captures(p), Clear(p)
  PROVE  Custody'
<1> DEFINE t == home[p]
<1>a. PICK j, acts : j = job[p] /\ acts = j.acts
  OBVIOUS
<1>0. /\ UNCHANGED <<pending, outcome, journals, marker, raced>> /\ attempts' = attempts
      /\ Frame /\ route = "capture" /\ route' = "capture" /\ home' = home /\ t \in Trees
      /\ at[p] = "clear" /\ j \in Attempt /\ acts \in Plans /\ Reviews(p) /\ Settles(p)
      /\ attempts \in Nat
  BY <1>a, CaptureKnows DEF Clear, files, origins, Settling
<1>1. CASE Refuse(p)
  BY <1>0, <1>a, <1>1, RefuseWorks, CaptureQuiet
<1>2. ASSUME NEW i \in Items, NEW label \in {"clear", "disown"}, Step(p, i, label)
      PROVE  Custody'
  <2>1. /\ at'[p] = label /\ job'[p].acts = acts /\ job'[p].loaded = j.loaded
        /\ job'[p].at = j.at /\ job'[p].next = j.next
    BY <1>0, <1>a, <1>2, AttemptMoves DEF Settling
  <2>2. PICK b \in journals[t] : b.acts = acts /\ b.at = j.loaded /\ marker[t] = j.loaded
    BY <1>0, <1>a DEF Settles, Settling
  <2>3. \A n \in DOMAIN acts : IsSeen(n)
    BY <1>0, <2>2 DEF Custody, Books, Batched, IsCommitted
  <2>4. \A pk \in PacketsOf(acts) : IsSeen(pk[1])'
    BY <1>0, <2>3 DEF PacketsOf, Creates, IsSeen
  <2>5. Settles(p)'
    BY <1>0, <1>a, <2>1, <2>2, <2>4 DEF Settles, Settling
  <2>6. IsAtWork(p)'
    BY <1>0, <1>a, <2>1, <2>5, SettlingWorks DEF Settling
  <2> QED
    BY <1>0, <2>6, CaptureQuiet
<1> QED
  BY <1>0, <1>1, <1>2 DEF Clear, NextItem, StepAfter

LEMMA DisownKeeps ==
  ASSUME Typed, Typed', Resolutive, Orderly, Custody, NEW p \in Procs, Captures(p), Disown(p)
  PROVE  Custody'
<1> DEFINE t == home[p]
<1>a. PICK j, acts : j = job[p] /\ acts = j.acts
  OBVIOUS
<1>0. /\ UNCHANGED <<pending, outcome, journals, marker, raced>> /\ attempts' = attempts
      /\ Frame /\ route = "capture" /\ route' = "capture" /\ home' = home /\ t \in Trees
      /\ at[p] = "disown" /\ j \in Attempt /\ acts \in Plans /\ Reviews(p) /\ Settles(p)
      /\ attempts \in Nat
  BY <1>a, CaptureKnows DEF Disown, files, origins, Settling
<1>1. CASE Refuse(p)
  BY <1>0, <1>a, <1>1, RefuseWorks, CaptureQuiet
<1>2. CASE Step(p, 1, "retire")
  <2>1. /\ at'[p] = "retire" /\ job'[p].acts = acts /\ job'[p].loaded = j.loaded
        /\ job'[p].at = j.at /\ job'[p].next = j.next
    BY <1>0, <1>a, <1>2, AttemptMoves DEF Settling
  <2>2. /\ \E b \in journals[t] : b.acts = acts /\ b.at = j.loaded
        /\ \A pk \in PacketsOf(acts) : IsSeen(pk[1]) \/ pending[t][pk] \in {"none", "edited"}
    BY <1>0, <1>a DEF Settles, Settling
  <2>3. \A pk \in PacketsOf(acts) : IsSeen(pk[1])' \/ pending'[t][pk] \in {"none", "edited"}
    BY <1>0, <2>2 DEF IsSeen
  <2>4. Settles(p)'
    BY <1>0, <1>a, <2>1, <2>2, <2>3 DEF Settles, Settling
  <2>5. IsAtWork(p)'
    BY <1>0, <1>a, <2>1, <2>4, SettlingWorks DEF Settling
  <2> QED
    BY <1>0, <2>5, CaptureQuiet
<1> QED
  BY <1>1, <1>2 DEF Disown

LEMMA FailCaptureKeeps ==
  ASSUME Typed, Typed', Resolutive, Orderly, Custody, NEW p \in Procs, Captures(p), FailCapture(p)
  PROVE  Custody'
<1>0. /\ UNCHANGED <<pending, outcome, journals, marker, raced>> /\ attempts <= attempts'
      /\ Frame /\ route' = "capture" /\ job[p] \in Attempt
  <2>1. /\ UNCHANGED <<files, origins, capture>> /\ at[p] \in Reviewing \cup Settling
    BY DEF FailCapture, Reviewing, Settling
  <2>2. UNCHANGED <<pending, outcome, journals, marker, raced, attempts>>
    BY <2>1 DEF files, origins, capture
  <2> QED
    BY <2>1, <2>2, CaptureKnows
<1>1. IsAtWork(p)'
  BY <1>0, ToRecoveryWorks, RefuseWorks DEF FailCapture
<1> QED
  BY <1>0, <1>1, CaptureQuiet

-------------------------------------------------------------------------------
(* Captures: the steps that write files, journals and outcomes.            *)

(* A file that a journal of the worktree announces appears.                *)
LEMMA FillBooks ==
  ASSUME Typed, Resolutive, Orderly, Custody, NEW p \in Procs, Captures(p),
         NEW b \in journals[home[p]], NEW new \in PacketsOf(b.acts), NEW f \in {"whole", "torn"},
         pending' = [pending EXCEPT ![home[p]][new] = f],
         UNCHANGED <<outcome, journals, marker, raced, attempts>>
  PROVE  /\ Accounted' /\ Backed' /\ Twinless' /\ Batched' /\ SeenStay
         /\ \A s \in Trees \ {home[p]} : UNCHANGED <<pending[s], journals[s], marker[s]>>
         /\ \A k \in Packets : pending'[home[p]][k] = IF k = new THEN f ELSE pending[home[p]][k]
<1> DEFINE t == home[p]
<1>0. /\ route = "capture" /\ t \in Trees /\ Frame /\ UNCHANGED <<route, home, resolved, cut>>
      /\ Held' = Held /\ Taken' = Taken /\ TypeStore
  BY CaptureKnows DEF Typed, TypeOK
<1>1. b.acts \in Plans /\ new \in Packets
  BY <1>0, PlanCreates DEF Typed, TypeOK, TypeOrigins, Journal
<1>2. /\ \A s \in Trees, k \in Packets :
            pending'[s][k] = IF s = t /\ k = new THEN f ELSE pending[s][k]
      /\ \A s \in Trees \ {t} : pending'[s] = pending[s]
  BY <1>0, <1>1, NewFile
<1>3. /\ \A s \in Trees, pk \in Packets :
            /\ IsWhole(s, pk)' => IsWhole(s, pk) \/ (s = t /\ pk = new)
            /\ IsLoose(s, pk)' => IsLoose(s, pk) \/ (s = t /\ pk = new)
            /\ IsKept(s, pk) => IsKept(s, pk)'
      /\ \A k : IsSeen(k)' <=> IsSeen(k)
  BY <1>0, <1>2 DEF IsWhole, IsLoose, IsKept, IsKnown, IsHeld, IsSeen
<1>4. IsJournaledIn(t, new)
  BY DEF IsJournaledIn
<1>5. Accounted'
  BY <1>0, <1>3, <1>4 DEF Custody, Books, Accounted, IsJournaledIn
<1>6. Backed'
  <2> SUFFICES ASSUME NEW n \in Items, outcome[n].kind = "created"
               PROVE  /\ outcome[n].copy \in Copies
                      /\ \E s \in Trees : IsSafe(s, <<n, outcome[n].copy>>)'
    BY <1>0 DEF Backed
  <2>1. PICK s \in Trees : outcome[n].copy \in Copies /\ IsSafe(s, <<n, outcome[n].copy>>)
    BY DEF Custody, Books, Backed
  <2>2. <<n, outcome[n].copy>> \in Packets
    BY <2>1 DEF Packets
  <2>3. IsSafe(s, <<n, outcome[n].copy>>)'
    BY <1>0, <1>3, <2>1, <2>2 DEF IsSafe, IsCommitted
  <2> QED
    BY <2>1, <2>3
(* The other copies of the announced packets stay away. *)
<1>7. ASSUME NEW pk \in PacketsOf(b.acts), NEW c \in Copies, c # pk[2]
      PROVE  ~IsWhole(t, <<pk[1], c>>)'
  <2>1. ~IsWhole(t, <<pk[1], c>>)
    BY <1>0, <1>7 DEF Custody, Books, Batched, IsAlone
  <2>2. <<pk[1], c>> \in Packets
    BY <1>1, <1>7, PlanCreates DEF Packets
  <2>3. <<pk[1], c>> # new
    BY <1>7 DEF PacketsOf
  <2> QED
    BY <1>0, <1>3, <2>1, <2>2, <2>3
<1>8. Twinless'
  <2> SUFFICES ASSUME NEW s \in Trees \ raced, NEW pk \in Packets, IsWhole(s, pk)',
                      NEW c \in Copies, c # pk[2], IsWhole(s, <<pk[1], c>>)'
               PROVE  FALSE
    BY DEF Twinless, IsAlone
  <2>1. <<pk[1], c>> \in Packets /\ pk[1] \in Items /\ pk[2] \in Copies /\ pk = <<pk[1], pk[2]>>
    BY DEF Packets
  <2>2. CASE IsWhole(s, pk) /\ IsWhole(s, <<pk[1], c>>)
    BY <2>2 DEF Custody, Books, Twinless, IsAlone
  <2>3. CASE s = t /\ pk = new
    BY <1>0, <1>7, <2>3
  <2>4. CASE s = t /\ <<pk[1], c>> = new
    <3>1. new[1] = pk[1] /\ new[2] = c /\ pk = <<new[1], pk[2]>>
      BY <2>1, <2>4
    <3>2. ~IsWhole(t, <<new[1], pk[2]>>)'
      BY <1>7, <2>1, <3>1
    <3> QED
      BY <1>0, <2>4, <3>1, <3>2
  <2> QED
    BY <1>3, <2>1, <2>2, <2>3, <2>4
<1>9. Batched'
  <2> SUFFICES ASSUME NEW s \in Trees
               PROVE  /\ marker[s] <= attempts
                      /\ \A j, k \in journals[s] : j = k
                      /\ \A j \in journals[s] :
                           /\ IsCommitted(s, j) => \A i \in DOMAIN j.acts : IsSeen(i)
                           /\ \A pk \in PacketsOf(j.acts) : IsAlone(s, pk)'
    BY <1>0, <1>3 DEF Batched, IsCommitted
  <2>1. ASSUME NEW j \in journals[s], NEW pk \in PacketsOf(j.acts) PROVE IsAlone(s, pk)'
    <3>1. CASE s = t
      <4>1. j = b
        BY <1>0, <2>1, <3>1 DEF Custody, Books, Batched
      <4> QED
        BY <1>0, <1>7, <2>1, <3>1, <4>1 DEF IsAlone
    <3>2. CASE s # t
      <4>1. j.acts \in Plans
        BY <2>1 DEF Typed, TypeOK, TypeOrigins, Journal
      <4>2. pk[1] \in Items
        BY <2>1, <4>1, PlanCreates DEF Packets
      <4>3. IsAlone(s, pk)
        BY <1>0, <2>1 DEF Custody, Books, Batched
      <4> QED
        BY <1>3, <3>2, <4>2, <4>3 DEF IsAlone, Packets
    <3> QED
      BY <3>1, <3>2
  <2> QED
    BY <1>0, <2>1 DEF Custody, Books, Batched
<1> QED
  BY <1>0, <1>2, <1>3, <1>5, <1>6, <1>8, <1>9 DEF SeenStay

LEMMA PlaceKeeps ==
  ASSUME Typed, Typed', Resolutive, Orderly, Custody, NEW p \in Procs, Captures(p), Place(p)
  PROVE  Custody'
<1> DEFINE t == home[p]
<1>a. PICK j, k, acts : j = job[p] /\ acts = j.acts /\ k = j.k
  OBVIOUS
<1> DEFINE new == <<k, acts[k]>>
<1>0. /\ UNCHANGED <<outcome, journals, marker, raced>> /\ attempts' = attempts
      /\ Frame /\ route = "capture" /\ route' = "capture" /\ home' = home /\ t \in Trees
      /\ at[p] = "place" /\ j \in Attempt /\ acts \in Plans /\ Reviews(p) /\ attempts \in Nat
  BY <1>a, CaptureKnows DEF Place, origins, capture, Reviewing
<1>1. k \in Creates(acts) /\ new \in PacketsOf(acts) /\ k \in Items /\ k \in Nat
  <2>1. k \in Creates(acts)
    BY <1>0, <1>a DEF Typed, JobFits, InHand
  <2> QED
    BY <1>0, <2>1, PlanCreates, ItemsAreNumbers DEF PacketsOf
<1>2. /\ Fits(acts) /\ marker[t] < j.at /\ j.at <= attempts /\ IsUpTo(t, acts, k)
      /\ journals[t] = {JournalOf(j)}
  BY <1>0, <1>a DEF Reviews, IsAhead, Reviewing
<1> HIDE DEF new
<1>3. CASE ToRecovery(p, FALSE) /\ UNCHANGED pending
  <2>1. IsAtWork(p)'
    BY <1>0, <1>a, <1>3, ToRecoveryWorks
  <2> QED
    BY <1>0, <1>3, <2>1, CaptureQuiet
<1>4. CASE pending' = [pending EXCEPT ![t][new] = "whole"] /\ Step(p, k, "own")
  <2>1. JournalOf(j) \in journals[t] /\ JournalOf(j).acts = acts
    BY <1>2, <1>a DEF JournalOf
  <2>2. /\ Accounted' /\ Backed' /\ Twinless' /\ Batched' /\ SeenStay
        /\ \A s \in Trees \ {t} : UNCHANGED <<pending[s], journals[s], marker[s]>>
        /\ \A e \in Packets : pending'[t][e] = IF e = new THEN "whole" ELSE pending[t][e]
    BY <1>0, <1>1, <1>4, <2>1, FillBooks
  <2>3. /\ at'[p] = "own" /\ job'[p].acts = acts /\ job'[p].at = j.at /\ job'[p].k = k
        /\ JournalOf(job'[p]) = JournalOf(j)
    BY <1>0, <1>a, <1>4, AttemptMoves DEF Reviewing
  <2>4. IsUpTo(t, acts, k + 1)'
    <3>1. SUFFICES ASSUME NEW pk \in PacketsOf(acts)
                   PROVE  IF pk[1] < k + 1 THEN pending'[t][pk] \in Readable
                                           ELSE pending'[t][pk] = "none"
      BY <1>0 DEF IsUpTo
    <3>2. /\ pk[1] \in Nat /\ pk \in Packets /\ pk = <<pk[1], acts[pk[1]]>>
          /\ pk[1] < k + 1 <=> pk[1] < k \/ pk[1] = k
      BY <1>0, <1>1, <3>1, BatchNumbers, PlanCreates
    <3>3. pk = new <=> pk[1] = k
      BY <3>2 DEF new
    <3> QED
      BY <1>2, <2>2, <3>1, <3>2, <3>3 DEF IsUpTo, Readable
  <2>5. (IsUpTo(t, job[p].acts, job[p].k + 1) /\ Fits(job[p].acts))'
    BY <1>0, <1>2, <2>3, <2>4 DEF Fits, IsSeen, IsUpTo
  <2>6. Reviews(p)' /\ Settles(p)'
    BY <1>0, <1>2, <2>3, <2>5 DEF Reviews, Settles, Settling, IsAhead
  <2>7. IsAtWork(p)'
    BY <1>0, <2>3, <2>6, CaptureWorks DEF Reviewing
  <2> QED
    BY <1>0, <2>2, <2>7, CaptureKeeps
<1> QED
  BY <1>a, <1>3, <1>4 DEF Place, SetFile, Creating, new

LEMMA CompleteKeeps ==
  ASSUME Typed, Typed', Resolutive, Orderly, Custody, NEW p \in Procs, Captures(p), Complete(p)
  PROVE  Custody'
<1> DEFINE t == home[p]
<1>a. PICK j, k, acts : j = job[p] /\ acts = j.acts /\ k = j.k
  OBVIOUS
<1> DEFINE new == <<k, acts[k]>>
<1>0. /\ UNCHANGED <<outcome, journals, marker, raced>> /\ attempts' = attempts
      /\ Frame /\ route = "capture" /\ route' = "capture" /\ home' = home /\ t \in Trees
      /\ at[p] = "complete" /\ j \in Attempt /\ acts \in Plans /\ Reviews(p) /\ Settles(p)
      /\ attempts \in Nat
  BY <1>a, CaptureKnows DEF Complete, origins, capture, Settling
<1>1. new \in PacketsOf(acts)
  BY <1>0, <1>a DEF Typed, JobFits, InHand, PacketsOf
<1>2. PICK b \in journals[t] : b.acts = acts /\ b.at = j.loaded /\ marker[t] = j.loaded
  BY <1>0, <1>a DEF Settles, Settling
<1> HIDE DEF new
<1>3. CASE Refuse(p) /\ UNCHANGED pending
  BY <1>0, <1>a, <1>3, RefuseWorks, CaptureQuiet
<1>4. ASSUME NEW i \in Items, NEW label \in {"complete", "clear"}, Step(p, i, label)
      PROVE  IsAtWork(p)'
  <2>1. /\ at'[p] = label /\ job'[p].acts = acts /\ job'[p].loaded = j.loaded
        /\ job'[p].at = j.at /\ job'[p].next = j.next
    BY <1>0, <1>a, <1>4, AttemptMoves DEF Settling
  <2>2. Settles(p)'
    BY <1>0, <1>a, <1>2, <2>1 DEF Settles, Settling
  <2> QED
    BY <1>0, <1>a, <2>1, <2>2, SettlingWorks DEF Settling
<1>5. CASE NextItem(p, "clear")
  <2>1. IsAtWork(p)'
    BY <1>0, <1>4, <1>5 DEF NextItem, StepAfter
  <2>2. CASE UNCHANGED pending
    BY <1>0, <2>1, <2>2, CaptureQuiet
  <2>3. CASE pending' = [pending EXCEPT ![t][new] = "whole"]
    <3>1. /\ Accounted' /\ Backed' /\ Twinless' /\ Batched' /\ SeenStay
          /\ \A s \in Trees \ {t} : UNCHANGED <<pending[s], journals[s], marker[s]>>
      BY <1>0, <1>1, <1>2, <2>3, FillBooks
    <3> QED
      BY <1>0, <2>1, <3>1, CaptureKeeps
  <2> QED
    BY <1>a, <1>5, <2>2, <2>3, <1>3 DEF Complete, SetFile, Creating, new
<1> QED
  BY <1>3, <1>5 DEF Complete

LEMMA CrashCaptureKeeps ==
  ASSUME Typed, Typed', Resolutive, Orderly, Custody, NEW p \in Procs, Captures(p),
         CrashInCapture(p)
  PROVE  Custody'
<1> DEFINE t == home[p]
<1>a. PICK j, k, acts : j = job[p] /\ acts = j.acts /\ k = j.k
  OBVIOUS
<1> DEFINE new == <<k, acts[k]>>
<1>0. /\ UNCHANGED <<outcome, journals, marker, raced>> /\ attempts' = attempts
      /\ Frame /\ route = "capture" /\ IsAtWork(p)' /\ attempts \in Nat
  BY LeaveWorks, CaptureKnows DEF CrashInCapture, origins
<1>1. CASE UNCHANGED pending
  BY <1>0, <1>1, CaptureQuiet
<1>2. CASE at[p] \in {"place", "complete"} /\ pending' = [pending EXCEPT ![t][new] = "torn"]
  <2>1. Reviews(p) /\ Settles(p)
    BY CaptureKnows
  <2>2. new \in PacketsOf(acts)
    BY <1>2, <1>a DEF Typed, JobFits, InHand, PacketsOf
  <2>3. PICK b \in journals[t] : b.acts = acts
    <3>1. CASE at[p] = "place"
      BY <1>a, <2>1, <3>1 DEF Reviews, JournalOf
    <3>2. CASE at[p] = "complete"
      BY <1>a, <2>1, <3>2 DEF Settles, Settling
    <3> QED
      BY <1>2, <3>1, <3>2
  <2> HIDE DEF new
  <2>4. /\ Accounted' /\ Backed' /\ Twinless' /\ Batched' /\ SeenStay
        /\ \A s \in Trees \ {t} : UNCHANGED <<pending[s], journals[s], marker[s]>>
    BY <1>0, <1>2, <2>2, <2>3, FillBooks
  <2> QED
    BY <1>0, <2>4, CaptureKeeps
<1> QED
  BY <1>a, <1>1, <1>2 DEF CrashInCapture, SetFile, Creating

LEMMA AnnounceKeeps ==
  ASSUME Typed, Typed', Resolutive, Orderly, Custody, NEW p \in Procs, Captures(p), Announce(p)
  PROVE  Custody'
<1> DEFINE t == home[p]
<1>a. PICK j, acts : j = job[p] /\ acts = j.acts
  OBVIOUS
<1>0. /\ UNCHANGED <<pending, outcome, marker, raced>> /\ attempts' = attempts
      /\ Frame /\ route = "capture" /\ route' = "capture" /\ home' = home /\ t \in Trees
      /\ at[p] = "announce" /\ j \in Attempt /\ acts \in Plans /\ Reviews(p)
      /\ FilesStay /\ attempts \in Nat /\ marker[t] \in Nat
  BY <1>a, CaptureKnows DEF Announce, files, capture, Reviewing, FilesStay
<1>1. /\ Fits(acts) /\ marker[t] < j.at /\ j.at <= attempts /\ IsGone(t, acts) /\ AllAlone(t, acts)
  BY <1>0, <1>a DEF Reviews, IsAhead, Reviewing
<1>2. CASE ToRecovery(p, FALSE) /\ UNCHANGED journals
  <2>1. IsAtWork(p)'
    BY <1>0, <1>a, <1>2, ToRecoveryWorks
  <2> QED
    BY <1>0, <1>2, <2>1, CaptureQuiet
<1>3. ASSUME journals[t] = {}, journals' = [journals EXCEPT ![t] = {JournalOf(j)}],
             NEW i \in Items, Step(p, i, "stage")
      PROVE  Custody'
  <2>a. JournalOf(j).acts = acts /\ JournalOf(j).at = j.at
    BY <1>a DEF JournalOf
  <2>0. PICK b : b = JournalOf(j) /\ b.acts = acts /\ b.at = j.at
    BY <2>a
  <2>1. journals'[t] = {b} /\ \A s \in Trees \ {t} : journals'[s] = journals[s]
    BY <1>0, <1>3, <2>0 DEF Typed, TypeOK, TypeOrigins
  <2>2. /\ \A s, pk : /\ IsWhole(s, pk)' <=> IsWhole(s, pk)
                      /\ IsLoose(s, pk)' <=> IsLoose(s, pk)
                      /\ IsKept(s, pk)' <=> IsKept(s, pk)
                      /\ IsAlone(s, pk)' <=> IsAlone(s, pk)
        /\ \A n : IsSeen(n)' <=> IsSeen(n)
    BY <1>0, SameFiles DEF IsSeen
  <2>3. Accounted'
    <3> SUFFICES ASSUME NEW s \in Trees \ raced, NEW pk \in Packets, IsLoose(s, pk), ~IsSeen(pk[1])
                 PROVE  \E k \in journals'[s] : pk \in PacketsOf(k.acts)
      BY <1>0, <2>2 DEF Accounted, IsJournaledIn
    <3>1. PICK k \in journals[s] : pk \in PacketsOf(k.acts)
      BY <1>0 DEF Custody, Books, Accounted, IsJournaledIn
    <3> QED
      BY <1>3, <2>1, <3>1
  <2>4. Backed'
    <3> SUFFICES ASSUME NEW n \in Items, outcome[n].kind = "created"
                 PROVE  /\ outcome[n].copy \in Copies
                        /\ \E s \in Trees : IsSafe(s, <<n, outcome[n].copy>>)'
      BY <1>0 DEF Backed
    <3>1. PICK s \in Trees : outcome[n].copy \in Copies /\ IsSafe(s, <<n, outcome[n].copy>>)
      BY DEF Custody, Books, Backed
    <3>2. <<n, outcome[n].copy>> \notin PacketsOf(acts)
      BY <1>1, BoundsAssumption DEF PacketsOf, Creates, Fits, IsSeen, Copies, Replayed
    <3>3. IsSafe(s, <<n, outcome[n].copy>>)'
      BY <1>0, <2>0, <2>1, <2>2, <3>1, <3>2 DEF IsSafe, IsCommitted
    <3> QED
      BY <3>1, <3>3
  <2>5. Twinless'
    BY <1>0, <2>2 DEF Custody, Books, Twinless
  <2>6. Batched'
    <3> SUFFICES ASSUME NEW s \in Trees
                 PROVE  /\ marker[s] <= attempts
                        /\ \A c, k \in journals'[s] : c = k
                        /\ \A k \in journals'[s] :
                             /\ IsCommitted(s, k) => \A n \in DOMAIN k.acts : IsSeen(n)
                             /\ \A pk \in PacketsOf(k.acts) : IsAlone(s, pk)
      BY <1>0, <2>2 DEF Batched, IsCommitted
    <3>1. CASE s # t
      BY <1>0, <2>1, <3>1 DEF Custody, Books, Batched
    <3>2. CASE s = t
      <4>1. ~IsCommitted(t, b)
        <5>1. j.at \in Nat
          BY <1>0, AttemptsAssumption DEF Attempt
        <5> QED
          BY <1>0, <1>1, <2>0, <5>1 DEF IsCommitted
      <4>2. \A pk \in PacketsOf(b.acts) : IsAlone(t, pk)
        BY <1>1, <2>0 DEF AllAlone
      <4> QED
        BY <1>0, <2>1, <3>2, <4>1, <4>2 DEF Custody, Books, Batched
    <3> QED
      BY <3>1, <3>2
  <2>7. /\ at'[p] = "stage" /\ job'[p].acts = acts /\ job'[p].at = j.at
        /\ JournalOf(job'[p]) = JournalOf(j)
    BY <1>0, <1>a, <1>3, AttemptMoves DEF Reviewing
  <2>8. (Fits(job[p].acts) /\ IsGone(t, job[p].acts))'
    BY <1>0, <1>1, <2>2, <2>7 DEF Fits, IsGone
  <2>9. Reviews(p)' /\ Settles(p)'
    BY <1>0, <1>1, <2>0, <2>1, <2>7, <2>8 DEF Reviews, Settles, Settling, IsAhead
  <2>10. IsAtWork(p)' /\ SeenStay /\ \A s \in Trees \ {t} : UNCHANGED <<pending[s], journals[s], marker[s]>>
    BY <1>0, <2>1, <2>2, <2>7, <2>9, CaptureWorks DEF Reviewing, SeenStay
  <2> QED
    BY <1>0, <2>3, <2>4, <2>5, <2>6, <2>10, CaptureKeeps
<1> QED
  BY <1>a, <1>2, <1>3 DEF Announce, StepAfter

(* The transaction of a capture: outcomes and marker.                      *)
LEMMA RecordKeeps ==
  ASSUME Typed, Typed', Resolutive, Orderly, Custody, NEW p \in Procs, Captures(p), Record(p)
  PROVE  Custody'
<1> DEFINE t == home[p]
<1>a. PICK j, acts : j = job[p] /\ acts = j.acts
  OBVIOUS
<1>0. /\ UNCHANGED <<pending, journals, raced>> /\ attempts' = attempts
      /\ Frame /\ route = "capture" /\ route' = "capture" /\ home' = home /\ t \in Trees
      /\ at[p] = "record" /\ j \in Attempt /\ acts \in Plans /\ Reviews(p) /\ lock = p
      /\ FilesStay /\ attempts \in Nat /\ marker[t] \in Nat /\ TypeOrigins
      /\ outcome' = Recorded(acts, j.at)
      /\ \A n \in Items : \A c \in Copies : <<n, c>> \in Packets
  BY <1>a, CaptureKnows
     DEF Record, files, Reviewing, FilesStay, Orderly, Locked, Typed, TypeOK, Packets
<1>1. /\ Fits(acts) /\ marker[t] < j.at /\ j.at <= attempts /\ IsMade(t, acts)
      /\ Creates(acts) # {} => journals[t] = {JournalOf(j)}
  BY <1>0, <1>a DEF Reviews, IsAhead, Reviewing
<1>2. \A s, pk : /\ IsWhole(s, pk)' <=> IsWhole(s, pk)
                 /\ IsLoose(s, pk)' <=> IsLoose(s, pk)
                 /\ IsKept(s, pk)' <=> IsKept(s, pk)
                 /\ IsAlone(s, pk)' <=> IsAlone(s, pk)
  BY <1>0, SameFiles
<1>3. /\ \A s \in Trees \ {t} : marker'[s] = marker[s]
      /\ IF Creates(acts) = {} THEN marker' = marker ELSE marker'[t] = j.at
  BY <1>0, <1>a DEF Record, Typed, TypeOK, TypeCapture
<1>4. /\ SeenStay /\ \A i \in DOMAIN acts : IsSeen(i)'
      /\ \A i \in Items : outcome'[i].kind = "created" =>
            \/ outcome'[i] = outcome[i] /\ i \notin Creates(acts)
            \/ i \in Creates(acts) /\ outcome'[i].copy = acts[i] /\ acts[i] \in Copies
  <2>1. SeenStay
    BY <1>0, <1>1, RecordedTells DEF SeenStay, Fits, IsSeen
  <2>2. \A i \in DOMAIN acts : IsSeen(i)'
    BY <1>0, <1>1, <2>1, RecordedTells, PlanCreates DEF SeenStay, Fits
  <2>3. ASSUME NEW i \in Items, outcome'[i].kind = "created"
        PROVE  \/ outcome'[i] = outcome[i] /\ i \notin Creates(acts)
               \/ i \in Creates(acts) /\ outcome'[i].copy = acts[i] /\ acts[i] \in Copies
    <3>1. CASE outcome'[i] = outcome[i]
      <4>1. IsSeen(i)
        BY <2>3, <3>1 DEF IsSeen
      <4> QED
        BY <1>1, <3>1, <4>1, BoundsAssumption DEF Fits, Creates, Copies, Replayed
    <3> QED
      BY <1>0, <2>3, <3>1, RecordedTells
  <2> QED
    BY <2>1, <2>2, <2>3
<1>5. Accounted'
  BY <1>0, <1>2, <1>4 DEF Custody, Books, Accounted, IsJournaledIn, SeenStay, Packets
<1>6. Backed'
  <2>1. ASSUME NEW i \in Items, outcome'[i].kind = "created"
        PROVE  outcome'[i].copy \in Copies /\ \E s \in Trees : IsSafe(s, <<i, outcome[i].copy>>)'
    <3>1. CASE outcome'[i] = outcome[i] /\ i \notin Creates(acts)
      <4>1. PICK s \in Trees : outcome[i].copy \in Copies /\ IsSafe(s, <<i, outcome[i].copy>>)
        BY <2>1, <3>1 DEF Custody, Books, Backed
      <4>a. <<i, outcome[i].copy>> \notin PacketsOf(acts) /\ outcome'[i].copy = outcome[i].copy
        BY <3>1 DEF PacketsOf
      <4>2. PICK pk : /\ pk = <<i, outcome[i].copy>> /\ pk = <<i, outcome'[i].copy>>
                      /\ pk \notin PacketsOf(acts)
        BY <4>a
      <4>3. \A k \in journals[s] : pk \in PacketsOf(k.acts) => (IsCommitted(s, k) /\ (s # t \/ Creates(acts) = {}))
        BY <1>0, <1>1, <1>a, <4>1, <4>2 DEF IsSafe, JournalOf
      <4>4. \A k \in journals[s] : pk \in PacketsOf(k.acts) => IsCommitted(s, k)'
        BY <1>3, <4>3 DEF IsCommitted
      <4>5. IsKept(s, pk)'
        BY <1>2, <4>1, <4>2 DEF IsSafe
      <4>6. IsSafe(s, <<i, outcome[i].copy>>)'
        BY <1>0, <4>2, <4>4, <4>5 DEF IsSafe
      <4> QED
        BY <3>1, <4>1, <4>6
    <3>2. CASE i \in Creates(acts) /\ outcome'[i].copy = acts[i] /\ acts[i] \in Copies
      <4>1. PICK pk : pk = <<i, outcome'[i].copy>> /\ pk \in PacketsOf(acts)
        BY <3>2 DEF PacketsOf
      <4>2. IsKept(t, pk)'
        BY <1>0, <1>1, <4>1 DEF IsMade, Readable, IsKept, IsKnown
      <4>3. \A k \in journals[t] : IsCommitted(t, k)'
        BY <1>0, <1>1, <1>3, <3>2 DEF IsCommitted, JournalOf
      <4>4. IsSafe(t, <<i, outcome[i].copy>>)'
        BY <1>0, <4>1, <4>2, <4>3 DEF IsSafe
      <4> QED
        BY <1>0, <3>2, <4>4
    <3> QED
      BY <1>4, <2>1, <3>1, <3>2
  <2> QED
    BY <2>1, <1>0 DEF Backed
<1>7. Twinless'
  BY <1>0, <1>2 DEF Custody, Books, Twinless
<1>8. Batched'
  <2> SUFFICES ASSUME NEW s \in Trees
               PROVE  /\ marker'[s] <= attempts
                      /\ \A c, k \in journals[s] : c = k
                      /\ \A k \in journals[s] :
                           /\ IsCommitted(s, k)' => \A n \in DOMAIN k.acts : IsSeen(n)'
                           /\ \A pk \in PacketsOf(k.acts) : IsAlone(s, pk)
    BY <1>0, <1>2 DEF Batched
  <2>0. \A k \in journals[s] : DOMAIN k.acts \subseteq Items
    BY PlanCreates DEF Typed, TypeOK, TypeOrigins, Journal
  <2>1. CASE marker'[s] = marker[s]
    BY <1>0, <1>4, <2>0, <2>1 DEF Custody, Books, Batched, IsCommitted, SeenStay
  <2>2. CASE s = t /\ Creates(acts) # {}
    <3>1. \A k \in journals[s] : k.acts = acts
      BY <1>1, <1>a, <2>2 DEF JournalOf
    <3> QED
      BY <1>0, <1>1, <1>3, <1>4, <2>2, <3>1 DEF Custody, Books, Batched
  <2> QED
    BY <1>3, <2>1, <2>2
<1>9. IsAtWork(p)'
  BY <1>0, <1>a, ToRecoveryWorks, LeaveWorks DEF Record
<1> QED
  BY <1>0, <1>3, <1>4, <1>5, <1>6, <1>7, <1>8, <1>9, CaptureKeeps

(* Undoing takes away what nobody recorded.                                *)
LEMMA UndoKeeps ==
  ASSUME Typed, Typed', Resolutive, Orderly, Custody, NEW p \in Procs, Captures(p),
         UndoInstall(p)
  PROVE  Custody'
<1> DEFINE t == home[p]
<1>a. PICK j, k, acts : j = job[p] /\ acts = j.acts /\ k = j.k
  OBVIOUS
<1>b. PICK new : new = <<k, acts[k]>>
  OBVIOUS
<1>0. /\ UNCHANGED <<outcome, journals, marker, raced>> /\ attempts' = attempts
      /\ Frame /\ route = "capture" /\ route' = "capture" /\ home' = home /\ t \in Trees
      /\ at[p] = "undo" /\ j \in Attempt /\ acts \in Plans /\ Reviews(p) /\ Settles(p)
      /\ attempts \in Nat /\ UNCHANGED <<resolved, cut>> /\ Held' = Held /\ Taken' = Taken
      /\ TypeStore
  BY <1>a, CaptureKnows DEF UndoInstall, origins, Settling, Typed, TypeOK
<1>1. /\ k \in Creates(acts) /\ k \in Items /\ k \in Nat /\ new \in PacketsOf(acts)
      /\ PacketsOf(acts) \subseteq Packets
  <2>1. k \in Creates(acts)
    BY <1>0, <1>a DEF Typed, JobFits, InHand
  <2> QED
    BY <1>0, <1>b, <2>1, PlanCreates, ItemsAreNumbers DEF PacketsOf
<1>2. PICK b \in journals[t] : b.acts = acts /\ b.at = j.loaded
  BY <1>0, <1>a DEF Settles, Settling
<1>3. /\ marker[t] # j.loaded /\ ~IsCommitted(t, b)
      /\ \A pk \in PacketsOf(acts) :
           /\ pending[t][pk] # "none" => pk[1] \in j.mine
           /\ pk[1] < k => pending[t][pk] \in {"none", "edited"}
  BY <1>0, <1>2, <1>a DEF Settles, Settling, IsCommitted
<1>4. /\ \A s \in Trees, pk \in Packets :
            pending'[s][pk] = IF s = t /\ pk = new /\ k \in j.mine /\ pending[t][new] = "whole"
                              THEN "none" ELSE pending[s][pk]
      /\ \A s \in Trees \ {t} : pending'[s] = pending[s]
  <2>1. pending' = IF k \in j.mine /\ pending[t][new] = "whole"
                   THEN [pending EXCEPT ![t][new] = "none"] ELSE pending
    BY <1>a, <1>b DEF UndoInstall, Creating, File
  <2>2. new \in Packets /\ TypeStore
    BY <1>0, <1>1
  <2>3. CASE k \in j.mine /\ pending[t][new] = "whole"
    <3>1. pending' = [pending EXCEPT ![t][new] = "none"]
      BY <2>1, <2>3
    <3>2. /\ \A s \in Trees, pk \in Packets :
                pending'[s][pk] = IF s = t /\ pk = new THEN "none" ELSE pending[s][pk]
          /\ \A s \in Trees \ {t} : pending'[s] = pending[s]
      BY <1>0, <2>2, <3>1, NewFile
    <3> QED
      BY <2>3, <3>2
  <2>4. CASE ~(k \in j.mine /\ pending[t][new] = "whole")
    BY <2>1, <2>4
  <2> QED
    BY <2>3, <2>4
<1>5. /\ \A s \in Trees, pk \in Packets :
            /\ IsWhole(s, pk)' => IsWhole(s, pk)
            /\ IsLoose(s, pk)' => IsLoose(s, pk)
            /\ s # t \/ pk # new => (IsKept(s, pk) => IsKept(s, pk)')
      /\ \A i : IsSeen(i)' <=> IsSeen(i)
  BY <1>0, <1>4 DEF IsWhole, IsLoose, IsKept, IsKnown, IsHeld, IsSeen
<1>6. \A s \in Trees, pk \in Packets : IsAlone(s, pk) => IsAlone(s, pk)'
  BY <1>5 DEF IsAlone, Packets
<1>7. Accounted'
  BY <1>0, <1>5 DEF Custody, Books, Accounted, IsJournaledIn
<1>8. Backed'
  <2> SUFFICES ASSUME NEW n \in Items, outcome[n].kind = "created"
               PROVE  /\ outcome[n].copy \in Copies
                      /\ \E s \in Trees : IsSafe(s, <<n, outcome[n].copy>>)'
    BY <1>0 DEF Backed
  <2>1. PICK s \in Trees : outcome[n].copy \in Copies /\ IsSafe(s, <<n, outcome[n].copy>>)
    BY DEF Custody, Books, Backed
  <2>2. PICK pk : pk = <<n, outcome[n].copy>> /\ pk \in Packets
    BY <2>1 DEF Packets
  <2>3. s # t \/ pk # new
    BY <1>0, <1>1, <1>2, <1>3, <2>1, <2>2 DEF IsSafe
  <2>4. IsSafe(s, <<n, outcome[n].copy>>)'
    BY <1>0, <1>5, <2>1, <2>2, <2>3 DEF IsSafe, IsCommitted
  <2> QED
    BY <2>1, <2>4
<1>9. Twinless'
  BY <1>0, <1>5, <1>6 DEF Custody, Books, Twinless
<1>10. Batched'
  <2> SUFFICES ASSUME NEW s \in Trees
               PROVE  /\ marker[s] <= attempts
                      /\ \A c, i \in journals[s] : c = i
                      /\ \A c \in journals[s] :
                           /\ IsCommitted(s, c) => \A n \in DOMAIN c.acts : IsSeen(n)
                           /\ \A pk \in PacketsOf(c.acts) : IsAlone(s, pk)'
    BY <1>0, <1>5 DEF Batched, IsCommitted
  <2>1. \A c \in journals[s] : PacketsOf(c.acts) \subseteq Packets
    BY PlanCreates DEF Typed, TypeOK, TypeOrigins, Journal
  <2> QED
    BY <1>0, <1>6, <2>1 DEF Custody, Books, Batched
<1>11. CASE Refuse(p)
  <2>1. IsAtWork(p)'
    BY <1>0, <1>a, <1>11, RefuseWorks
  <2> QED
    BY <1>0, <1>4, <1>5, <1>7, <1>8, <1>9, <1>10, <2>1, CaptureKeeps DEF SeenStay
<1>12. CASE /\ ~(k \in j.mine /\ pending[t][new] \notin {"none", "whole"})
            /\ NextItem(p, "disown")
  <2>1. ASSUME NEW pk \in PacketsOf(acts)
        PROVE  /\ pending'[t][pk] # "none" => pk[1] \in j.mine
               /\ pk[1] <= k => pending'[t][pk] \in {"none", "edited"}
    <3>1. /\ pk[1] \in Nat /\ (pk[1] = k => pk = new) /\ pk \in Packets
          /\ pk[1] <= k => pk[1] < k \/ pk[1] = k
      BY <1>0, <1>1, <1>b, <2>1, BatchNumbers
    <3>2. pending[t][new] # "none" => k \in j.mine
      BY <1>1, <1>3, <1>b
    <3>3. pk[1] = k => pending'[t][pk] = "none"
      BY <1>0, <1>1, <1>4, <1>12, <3>1, <3>2
    <3> QED
      BY <1>0, <1>3, <1>4, <3>1, <3>3
  <2>2. ASSUME NEW i \in Items, NEW label \in {"undo", "disown"}, Step(p, i, label),
               label = "undo" => IsNext(acts, k, i), label = "disown" => IsLast(p)
        PROVE  IsAtWork(p)'
    <3>1. /\ at'[p] = label /\ job'[p].acts = acts /\ job'[p].loaded = j.loaded
          /\ job'[p].at = j.at /\ job'[p].next = j.next /\ job'[p].k = i /\ job'[p].mine = j.mine
      BY <1>0, <1>a, <2>2, AttemptMoves DEF Settling
    <3>2. \E c \in journals'[t] : c.acts = job'[p].acts /\ c.at = job'[p].loaded
      BY <1>0, <1>2, <3>1
    <3>3. ASSUME label = "undo" PROVE Settles(p)'
      <4>1. \A pk \in PacketsOf(acts) : pk[1] < i <=> pk[1] <= k
        BY <1>0, <1>1, <2>2, <3>3, ThenNext
      <4>2. \A pk \in PacketsOf(acts) :
               /\ pending'[t][pk] # "none" => pk[1] \in j.mine
               /\ pk[1] < i => pending'[t][pk] \in {"none", "edited"}
        BY <2>1, <4>1
      <4>3. \A pk \in PacketsOf(job'[p].acts) :
               /\ pending'[t][pk] # "none" => pk[1] \in job'[p].mine
               /\ pk[1] < job'[p].k => pending'[t][pk] \in {"none", "edited"}
        BY <3>1, <4>2
      <4>4. marker'[t] # job'[p].loaded /\ at'[p] = "undo"
        BY <1>0, <1>3, <3>1, <3>3
      <4> QED
        BY <1>0, <3>2, <4>3, <4>4 DEF Settles
    <3>4. ASSUME label = "disown" PROVE Settles(p)'
      <4>1. \A pk \in PacketsOf(acts) : pk[1] <= k
        BY <1>0, <1>1, <1>a, <2>2, <3>4, LastOne
      <4>2. \A pk \in PacketsOf(job'[p].acts) : pending'[t][pk] \in {"none", "edited"}
        BY <2>1, <3>1, <4>1
      <4>3. at'[p] = "disown"
        BY <3>1, <3>4
      <4> QED
        BY <1>0, <3>2, <4>2, <4>3 DEF Settles
    <3>5. Settles(p)'
      BY <2>2, <3>3, <3>4
    <3> QED
      BY <1>0, <1>a, <3>1, <3>5, SettlingWorks DEF Settling
  <2>3. IsAtWork(p)'
    BY <1>0, <1>12, <1>a, <2>2 DEF NextItem, StepAfter, Creating
  <2> QED
    BY <1>0, <1>4, <1>5, <1>7, <1>8, <1>9, <1>10, <2>3, CaptureKeeps DEF SeenStay
<1> QED
  BY <1>11, <1>12, <1>a, <1>b DEF UndoInstall, Creating, File

(* The journal goes when its packets are recorded or gone.                 *)
LEMMA RetireKeeps ==
  ASSUME Typed, Typed', Resolutive, Orderly, Custody, NEW p \in Procs, Captures(p), Retire(p)
  PROVE  Custody'
<1> DEFINE t == home[p]
<1>a. PICK j, acts : j = job[p] /\ acts = j.acts
  OBVIOUS
<1>0. /\ UNCHANGED <<pending, outcome, raced>> /\ attempts' = attempts
      /\ Frame /\ route = "capture" /\ route' = "capture" /\ home' = home /\ t \in Trees
      /\ at[p] = "retire" /\ j \in Attempt /\ acts \in Plans /\ Reviews(p) /\ Settles(p)
      /\ FilesStay /\ attempts \in Nat /\ marker[t] \in Nat /\ (\A pk : <<t, pk>> \notin Taken)
  BY <1>a, CaptureKnows DEF Retire, files, capture, Settling, FilesStay
<1>1. CASE Refuse(p) /\ UNCHANGED <<journals, marker>>
  BY <1>0, <1>a, <1>1, RefuseWorks, CaptureQuiet
<1>2. CASE /\ journals' = [journals EXCEPT ![t] = {}] /\ Settled(p)
           /\ marker' = [marker EXCEPT ![t] = IF @ = j.loaded THEN 0 ELSE @]
  <2>1. /\ journals'[t] = {} /\ \A s \in Trees \ {t} : journals'[s] = journals[s] /\ marker'[s] = marker[s]
        /\ marker'[t] \in {marker[t], 0}
    BY <1>0, <1>2 DEF Typed, TypeOK, TypeOrigins, TypeCapture
  <2>2. /\ \A s, pk : /\ IsWhole(s, pk)' <=> IsWhole(s, pk)
                      /\ IsLoose(s, pk)' <=> IsLoose(s, pk)
                      /\ IsKept(s, pk)' <=> IsKept(s, pk)
                      /\ IsAlone(s, pk)' <=> IsAlone(s, pk)
        /\ \A n : IsSeen(n)' <=> IsSeen(n)
    BY <1>0, SameFiles DEF IsSeen
  <2>3. PICK b \in journals[t] : b.acts = acts
    BY <1>0, <1>a DEF Settles, Settling
  <2>4. \A pk \in PacketsOf(acts) : IsSeen(pk[1]) \/ ~IsLoose(t, pk)
    BY <1>0, <1>a DEF Settles, Settling, IsLoose
  <2>5. Accounted'
    <3> SUFFICES ASSUME NEW s \in Trees \ raced, NEW pk \in Packets, IsLoose(s, pk), ~IsSeen(pk[1])
                 PROVE  \E k \in journals'[s] : pk \in PacketsOf(k.acts)
      BY <1>0, <2>2 DEF Accounted, IsJournaledIn
    <3>1. PICK k \in journals[s] : pk \in PacketsOf(k.acts)
      BY <1>0 DEF Custody, Books, Accounted, IsJournaledIn
    <3>2. s # t
      BY <1>0, <2>3, <2>4, <3>1 DEF Custody, Books, Batched
    <3> QED
      BY <2>1, <3>1, <3>2
  <2>6. Backed'
    <3> SUFFICES ASSUME NEW n \in Items, outcome[n].kind = "created"
                 PROVE  /\ outcome[n].copy \in Copies
                        /\ \E s \in Trees : IsSafe(s, <<n, outcome[n].copy>>)'
      BY <1>0 DEF Backed
    <3>1. PICK s \in Trees : outcome[n].copy \in Copies /\ IsSafe(s, <<n, outcome[n].copy>>)
      BY DEF Custody, Books, Backed
    <3>2. IsSafe(s, <<n, outcome[n].copy>>)'
      BY <1>0, <2>1, <2>2, <3>1 DEF IsSafe, IsCommitted
    <3> QED
      BY <3>1, <3>2
  <2>7. Twinless'
    BY <1>0, <2>2 DEF Custody, Books, Twinless
  <2>8. Batched'
    <3> SUFFICES ASSUME NEW s \in Trees
                 PROVE  /\ marker'[s] <= attempts
                        /\ \A c, k \in journals'[s] : c = k
                        /\ \A k \in journals'[s] :
                             /\ IsCommitted(s, k)' => \A n \in DOMAIN k.acts : IsSeen(n)
                             /\ \A pk \in PacketsOf(k.acts) : IsAlone(s, pk)
      BY <1>0, <2>2 DEF Batched
    <3>1. CASE s # t
      BY <1>0, <2>1, <3>1 DEF Custody, Books, Batched, IsCommitted
    <3>2. CASE s = t
      BY <1>0, <2>1, <3>2 DEF Custody, Books, Batched
    <3> QED
      BY <3>1, <3>2
  <2>9. IsAtWork(p)'
    BY <1>0, <1>2, <1>a, <2>1, SettledWorks DEF Settling
  <2>10. SeenStay /\ \A s \in Trees \ {t} : UNCHANGED <<pending[s], journals[s], marker[s]>>
    BY <1>0, <2>1, <2>2 DEF SeenStay
  <2> QED
    BY <1>0, <2>5, <2>6, <2>7, <2>8, <2>9, <2>10, CaptureKeeps
<1> QED
  BY <1>a, <1>1, <1>2 DEF Retire

LEMMA CapturesKeep ==
  ASSUME Typed, Typed', Resolutive, Orderly, Custody, NEW p \in Procs, Captures(p)
  PROVE  Custody'
BY OpenKeeps, CaptureStarts, CheckKeeps, AnnounceKeeps, StageKeeps, PlaceKeeps, OwnKeeps, RecordKeeps,
   RecoverCaptureKeeps, CompleteKeeps, ClearKeeps, UndoKeeps, DisownKeeps, RetireKeeps,
   FailCaptureKeeps, CrashCaptureKeeps
   DEF Captures, Capture, CaptureRecovery

-------------------------------------------------------------------------------
(* The theorems.                                                           *)

LEMMA StutterKeeps ==
  ASSUME Typed, Custody, UNCHANGED vars
  PROVE  Custody'
<1>1. /\ UNCHANGED <<setting, route, home, at, job, pending, resolved, cut, outcome, journals>>
      /\ UNCHANGED <<marker, raced, attempts>> /\ attempts \in Nat
      /\ Frame /\ TypeOrigins /\ TypeCapture
  BY AttemptsAssumption
     DEF vars, setting, procs, files, origins, capture, Typed, TypeOK, TypeOrigins
<1>2. FilesStay
  BY <1>1 DEF FilesStay, Held, Taken, Takers
<1>3. Books'
  BY <1>1, <1>2, SameBooks DEF Custody
<1>4. /\ \A i : IsSeen(i)' <=> IsSeen(i)
      /\ \A t, pk : IsAlone(t, pk)' <=> IsAlone(t, pk)
  BY <1>1, <1>2, SameFiles DEF IsSeen
<1>5. ASSUME NEW p \in Procs PROVE IsAtWork(p)'
  <2>0. IsAtWork(p)
    BY DEF Custody
  <2>1. Originates(p)'
    BY <1>1, <1>4, <2>0 DEF IsAtWork, Originates, Fits, IsGone, IsUpTo, IsMade, AllAlone, IsWholeBatch
  <2>2. route = "capture" => Reviews(p)' /\ Settles(p)'
    BY <1>1, <1>4, <2>0
       DEF IsAtWork, Reviews, Settles, IsAhead, Fits, IsGone, IsUpTo, IsMade, AllAlone
  <2> QED
    BY <1>1, <2>1, <2>2 DEF IsAtWork
<1> QED
  BY <1>3, <1>5 DEF Custody

LEMMA CustodyStep == Typed /\ Resolutive /\ Orderly /\ Custody /\ [Next]_vars => Custody'
<1> SUFFICES ASSUME Typed, Resolutive, Orderly, Custody, [Next]_vars PROVE Custody'
  OBVIOUS
<1>1. Typed'
  BY TypedStep
<1> QED
  BY <1>1, NextIs, StoreKeeps, OriginateKeeps, CapturesKeep, ServeKeeps, EditKeeps, StutterKeeps

LEMMA CustodyInit == Init /\ Unshared => Orderly /\ Custody
<1> SUFFICES ASSUME Init, Unshared PROVE Orderly /\ Custody
  OBVIOUS
<1>1. OwnTrees
  BY DEF Init, InitStore, OwnTrees, Unshared
<1>2. /\ \A p \in Procs : at[p] = "closed"
      /\ \A i \in Items : outcome[i] = Unseen
      /\ \A t \in Trees : journals[t] = {} /\ marker[t] = 0
      /\ \A t \in Trees, pk \in Packets :
           pending[t][pk] = IF route = "manual" /\ pk[2] = 1 THEN "whole" ELSE "none"
      /\ attempts = 0
  BY DEF Init, InitStore, InitOrigins, InitCapture
<1>3. \A t, pk : <<t, pk>> \notin Taken
  BY <1>2 DEF Taken, Takers
<1>4. Accounted
  BY <1>2, <1>3 DEF Accounted, IsLoose
<1>5. Backed
  BY <1>2 DEF Backed, Unseen
<1>6. Twinless
  <2> SUFFICES ASSUME NEW t \in Trees, NEW pk \in Packets, IsWhole(t, pk), NEW c \in Copies,
                      c # pk[2]
               PROVE  ~IsWhole(t, <<pk[1], c>>)
    BY DEF Twinless, IsAlone
  <2>1. <<pk[1], c>> \in Packets
    BY DEF Packets
  <2> QED
    BY <1>2, <1>3, <2>1 DEF IsWhole
<1>7. Batched /\ Promoted
  BY <1>2 DEF Batched, Promoted, IsSeen, Unseen
<1>8. \A p \in Procs : Locked(p) /\ IsAtWork(p)
  BY <1>2 DEF Locked, IsAtWork, Originates, Reviews, Settles, IsAhead, Originating, Judging,
              Reviewing, Settling
<1> QED
  BY <1>1, <1>4, <1>5, <1>6, <1>7, <1>8 DEF Orderly, Custody, Books

LEMMA CustodyAlways == Unshared => (Spec => []Custody)
<1>1. Init /\ Unshared => Orderly /\ Custody
  BY CustodyInit
<1>2. Typed /\ Resolutive /\ Orderly /\ Custody /\ [Next]_vars => Orderly' /\ Custody'
  BY OrderlyStep, CustodyStep
<1> SUFFICES ASSUME Unshared PROVE Spec => []Custody
  OBVIOUS
<1>3. Init => Orderly /\ Custody
  BY <1>1
<1> QED
  BY <1>2, <1>3, TypedAlways, ResolutiveAlways, PTL DEF Spec

(* A packet nobody edited is recorded or announced: whatever an import, a  *)
(* promotion or a capture leaves behind when it fails or crashes between   *)
(* two files, a journal of the worktree names it, so that the next service *)
(* completes it or takes it away.                                          *)
THEOREM PacketsAlwaysAccounted == Unshared => (Spec => []PacketsAreAccountedFor)
<1>1. Custody => PacketsAreAccountedFor
  BY DEF Custody, Books, Accounted, IsLoose, IsJournaledIn, PacketsAreAccountedFor
<1> SUFFICES ASSUME Unshared PROVE Spec => []PacketsAreAccountedFor
  OBVIOUS
<1>2. Spec => []Custody
  BY CustodyAlways
<1> QED
  BY <1>1, <1>2, PTL

(* No outcome names a packet that is not there: what a retry is answered   *)
(* with is pending or resolved in some worktree, or in the middle of its   *)
(* resolution, and no recovery undoes it, whatever the order of files,     *)
(* journal, commit and clean-up a crash interrupts.                        *)
THEOREM OutcomesAlwaysBacked == Unshared => (Spec => []OutcomesAreBacked)
<1>1. Custody => OutcomesAreBacked
  BY DEF Custody, Books, Backed, IsSafe, IsKept, OutcomesAreBacked
<1> SUFFICES ASSUME Unshared PROVE Spec => []OutcomesAreBacked
  OBVIOUS
<1>2. Spec => []Custody
  BY CustodyAlways
<1> QED
  BY <1>1, <1>2, PTL

(* A candidate has at most one unedited packet in a worktree: no retry, no *)
(* second command and no recovery makes another beside one whose outcome   *)
(* is not recorded yet, is being resolved or is about to be put back.      *)
THEOREM NeverTwins == Unshared => (Spec => []NoTwins)
<1>1. Custody => NoTwins
  <2> SUFFICES ASSUME Custody, NEW t \in Trees \ raced, NEW i \in Items
               PROVE  Cardinality({c \in Copies : pending[t][<<i, c>>] = "whole"}) =< 1
    BY DEF NoTwins
  <2> DEFINE Wholes == {c \in Copies : pending[t][<<i, c>>] = "whole"}
  <2>1. ASSUME NEW c \in Wholes, NEW d \in Wholes PROVE c = d
    <3>1. /\ IsWhole(t, <<i, c>>) /\ IsWhole(t, <<i, d>>) /\ d \in Copies
          /\ <<i, c>> \in Packets /\ <<i, c>>[1] = i /\ <<i, c>>[2] = c
      BY DEF IsWhole, Packets
    <3>2. IsAlone(t, <<i, c>>)
      BY <3>1 DEF Custody, Books, Twinless
    <3> QED
      BY <3>1, <3>2 DEF IsAlone
  <2> HIDE DEF Wholes
  <2>2. ASSUME NEW c \in Wholes PROVE Cardinality(Wholes) = 1
    <3>1. Wholes = {c}
      BY <2>1, <2>2
    <3>2. Cardinality({c}) = 1
      BY FS_Singleton
    <3> QED
      BY <3>1, <3>2
  <2>3. Wholes = {} => Cardinality(Wholes) = 0
    BY FS_EmptySet
  <2>4. Cardinality(Wholes) \in {0, 1}
    BY <2>2, <2>3
  <2>5. Cardinality(Wholes) =< 1
    BY <2>4
  <2> QED
    BY <2>5 DEF Wholes
<1> SUFFICES ASSUME Unshared PROVE Spec => []NoTwins
  OBVIOUS
<1>2. Spec => []Custody
  BY CustodyAlways
<1> QED
  BY <1>1, <1>2, PTL

-------------------------------------------------------------------------------
(* The refinement of PacketLife.                                           *)

(* What a step may make of the life of a packet.                           *)
MayBecome(l, m) == m = l \/ Life!Create(l, m) \/ Life!Decide(l, m) \/ Life!Vanish(l, m)

LivesGoOn == \A t \in Trees, pk \in Packets : MayBecome(LifeOf(t, pk), LifeOf(t, pk)')

(* Steps that resolve nothing only make packets and take them away.        *)
LEMMA OthersLive ==
  ASSUME TypeStore, resolved' = resolved, Held' = Held
  PROVE  LivesGoOn
<1>1. ASSUME NEW t \in Trees, NEW pk \in Packets PROVE MayBecome(LifeOf(t, pk), LifeOf(t, pk)')
  <2>1. resolved'[t][pk] = resolved[t][pk] /\ (IsHeld(t, pk)' <=> IsHeld(t, pk))
    BY DEF IsHeld
  <2> QED
    BY <2>1 DEF LifeOf, MayBecome, Life!Create, Life!Vanish
<1> QED
  BY <1>1 DEF LivesGoOn

(* A packet that is resolved is pending until the resolver has finished.   *)
LEMMA ResolverLives ==
  ASSUME Typed, Typed', Resolutive, NEW p \in Procs, Store(p)
  PROVE  LivesGoOn /\ cut \subseteq cut'
<1> DEFINE t == home[p]
<1>a. PICK j : j = job[p]
  OBVIOUS
<1>0. /\ Frame /\ TypeStore /\ t \in Trees /\ UNCHANGED setting /\ home' = home
      /\ at[p] \in Resolving =>
            /\ lock = p /\ j \in Resolutions /\ j.pk \in Packets /\ j.seen \in Readable
            /\ j.outcome \in {"applied", "rejected"}
            /\ resolved[t][j.pk] = IF at[p] = "finish" THEN j.outcome ELSE "none"
  <2>1. Frame /\ TypeStore /\ t \in Trees /\ UNCHANGED setting
    BY DEF Typed, TypeOK, Frame, Store, Resolution, Resolve, MovePending, WriteRecord,
           InstallResolved, Finish, FailResolution, CrashInResolution
  <2>2. ASSUME at[p] \in Resolving
        PROVE  /\ lock = p /\ j \in Resolutions /\ j.pk \in Packets /\ j.seen \in Readable
               /\ j.outcome \in {"applied", "rejected"}
               /\ resolved[t][j.pk] = IF at[p] = "finish" THEN j.outcome ELSE "none"
    BY <1>a, <2>2, ResolverKnows DEF InFlight, Midway, Resolutions
  <2> QED
    BY <2>1, <2>2 DEF setting
<1>b. ASSUME at[p] \in Resolving
      PROVE  \A s, pk : IsHeld(s, pk) <=> at[p] # "move" /\ s = t /\ pk = j.pk
  BY <1>0, <1>a, <1>b, HeldByOne DEF Resolving
<1>c. ASSUME NEW k, NEW label \in {"write", "install", "finish"}, Step(p, k, label),
             at[p] \in Resolving
      PROVE  \A s, pk : IsHeld(s, pk)' <=> s = t /\ pk = j.pk
  <2>1. label \in Labels
    BY DEF Labels, Resolving
  <2>2. /\ at'[p] = label /\ job'[p] = [j EXCEPT !.k = k]
        /\ \A q \in Procs \ {p} : at'[q] = at[q] /\ job'[q] = job[q]
    BY <1>0, <1>a, <1>c, <2>1, StepMoves
  <2>3. job'[p].pk = j.pk
    BY <1>0, <1>c, <2>2 DEF Resolutions
  <2>4. \A s, pk : IsHeld(s, pk)' <=>
              at'[p] \in {"write", "install", "finish"} /\ s = home[p] /\ pk = job'[p].pk
    BY <1>0, <1>c, <2>2, HeldAfter
  <2> QED
    BY <2>2, <2>3, <2>4
<1>d. ASSUME NEW label \in {"open", "closed"}, Leave(p, label), at[p] \in Resolving
      PROVE  \A s, pk : ~IsHeld(s, pk)'
  <2>1. at'[p] = label /\ \A q \in Procs \ {p} : at'[q] = at[q] /\ job'[q] = job[q]
    BY <1>0, <1>d, LeaveMoves DEF Labels
  <2> QED
    BY <1>0, <1>d, <2>1, HeldAfter
<1> USE DEF LivesGoOn, LifeOf, MayBecome, Life!Create, Life!Decide, Life!Vanish
<1>1. ASSUME NEW pk \in Packets, NEW outcome_ \in {"applied", "rejected"}, Resolve(p, pk, outcome_)
      PROVE  LivesGoOn /\ cut \subseteq cut'
  <2> DEFINE i == [pk |-> pk, outcome |-> outcome_, seen |-> pending[t][pk],
                   prior |-> record[t], k |-> 1]
  <2>1. Enter(p, i, "move") /\ UNCHANGED <<pending, resolved, cut>> /\ "move" \in Labels
    BY <1>1 DEF Resolve, files, Labels, Resolving
  <2> HIDE DEF i
  <2>2. /\ at'[p] = "move" /\ lock = NoProc
        /\ \A q \in Procs \ {p} : at'[q] = at[q] /\ job'[q] = job[q]
    BY <1>0, <2>1, EnterMoves
  <2>3. \A s, k : ~IsHeld(s, k)
    BY <2>2, HeldByNone, CasesAssumption
  <2>4. \A s, k : ~IsHeld(s, k)'
    BY <1>0, <2>2, HeldAfter
  <2> QED
    BY <2>1, <2>3, <2>4
<1>2. CASE MovePending(p)
  <2>0. at[p] = "move" /\ at[p] \in Resolving /\ UNCHANGED <<resolved, cut>>
    BY <1>2 DEF MovePending, Resolving
  <2>1. CASE Leave(p, "open") /\ UNCHANGED pending
    BY <1>0, <1>b, <1>d, <2>0, <2>1
  <2>2. CASE /\ pending[t][j.pk] = j.seen
             /\ pending' = [pending EXCEPT ![t][j.pk] = "none"]
             /\ Step(p, 1, IF j.outcome = "applied" THEN "write" ELSE "install")
    <3>1. \A s, pk : IsHeld(s, pk)' <=> s = t /\ pk = j.pk
      BY <1>c, <2>0, <2>2
    <3>2. \A s \in Trees, pk \in Packets :
             pending'[s][pk] = IF s = t /\ pk = j.pk THEN "none" ELSE pending[s][pk]
      BY <1>0, <2>0, <2>2 DEF TypeStore
    <3>3. \A s, pk : ~IsHeld(s, pk)
      BY <1>b, <2>0
    <3>4. pending[t][j.pk] # "none" /\ resolved[t][j.pk] = "none"
      BY <1>0, <2>0, <2>2 DEF Readable
    <3> QED
      BY <2>0, <3>1, <3>2, <3>3, <3>4
  <2> QED
    BY <1>2, <1>a, <2>1, <2>2 DEF MovePending
<1>3. CASE WriteRecord(p)
  <2>0. /\ at[p] = "write" /\ at[p] \in Resolving /\ UNCHANGED <<pending, resolved, cut>>
        /\ \E k : \E label \in {"write", "install"} : Step(p, k, label)
    BY <1>3 DEF WriteRecord, Resolving
  <2> QED
    BY <1>0, <1>b, <1>c, <2>0
<1>4. CASE InstallResolved(p)
  <2>0. /\ at[p] = "install" /\ at[p] \in Resolving /\ UNCHANGED <<pending, cut>>
        /\ resolved' = [resolved EXCEPT ![t][j.pk] = j.outcome] /\ Step(p, 1, "finish")
    BY <1>4, <1>a DEF InstallResolved, Resolving
  <2>1. \A s \in Trees, pk \in Packets :
           resolved'[s][pk] = IF s = t /\ pk = j.pk THEN j.outcome ELSE resolved[s][pk]
    BY <1>0, <2>0 DEF TypeStore
  <2> QED
    BY <1>0, <1>b, <1>c, <2>0, <2>1
<1>5. CASE Finish(p)
  <2>0. /\ at[p] = "finish" /\ at[p] \in Resolving /\ UNCHANGED <<pending, resolved, cut>>
        /\ Leave(p, "open")
    BY <1>5 DEF Finish, files, Resolving
  <2>1. \A s, pk : ~IsHeld(s, pk)'
    BY <1>d, <2>0
  <2>2. \A s, pk : IsHeld(s, pk) <=> s = t /\ pk = j.pk
    BY <1>b, <2>0
  <2>3. resolved[t][j.pk] \in {"applied", "rejected"}
    BY <1>0, <2>0
  <2> QED
    BY <2>0, <2>1, <2>2, <2>3
<1>6. CASE FailResolution(p)
  <2>0. at[p] \in Resolving /\ UNCHANGED cut /\ Leave(p, "open")
    BY <1>6 DEF FailResolution, Resolving
  <2>1. CASE at[p] = "move" /\ UNCHANGED files
    BY <1>0, <1>b, <1>d, <2>0, <2>1 DEF files
  <2>2. CASE at[p] # "move" /\ Undo(p)
    <3>1. \A s \in Trees, pk \in Packets :
             pending'[s][pk] = IF s = t /\ pk = j.pk THEN j.seen ELSE pending[s][pk]
      BY <1>0, <1>a, <2>0, <2>2 DEF TypeStore, Undo
    <3>2. \A s \in Trees, pk \in Packets :
             resolved'[s][pk] = IF s = t /\ pk = j.pk THEN "none" ELSE resolved[s][pk]
      BY <1>0, <1>a, <2>0, <2>2 DEF TypeStore, Undo
    <3>3. \A s, pk : ~IsHeld(s, pk)'
      BY <1>d, <2>0
    <3>4. \A s, pk : IsHeld(s, pk) <=> s = t /\ pk = j.pk
      BY <1>b, <2>0, <2>2
    <3>5. j.seen # "none"
      BY <1>0, <2>0 DEF Readable
    <3> QED
      BY <2>0, <3>1, <3>2, <3>3, <3>4, <3>5
  <2> QED
    BY <1>6, <2>1, <2>2 DEF FailResolution
<1>7. CASE CrashInResolution(p)
  <2>0. /\ at[p] \in Resolving /\ UNCHANGED <<pending, resolved>> /\ Leave(p, "closed")
        /\ cut \subseteq cut'
    BY <1>7 DEF CrashInResolution, files, Resolving
  <2>1. \A s, pk : ~IsHeld(s, pk)'
    BY <1>d, <2>0
  <2>2. \A s, pk : IsHeld(s, pk) => s = t /\ pk = j.pk
    BY <1>b, <2>0
  <2>3. resolved[t][j.pk] \in {"none", "applied", "rejected"}
    BY <1>0, <2>0
  <2> QED
    BY <2>0, <2>1, <2>2, <2>3
<1> QED
  BY <1>1, <1>2, <1>3, <1>4, <1>5, <1>6, <1>7 DEF Store, Resolution

(* A recorded creation is never recorded again: by a command it is to be   *)
(* replayed, by a recovery it must be the very one its journal announces.  *)
OutcomesStay ==
    \A i \in Items : outcome[i].kind = "created" =>
        outcome'[i].kind = "created" /\ outcome'[i].copy = outcome[i].copy

LEMMA OutcomesAreFinal ==
  ASSUME Typed, Resolutive, Orderly, Custody, [Next]_vars
  PROVE  OutcomesStay
<1>0. TypeOrigins
  BY DEF Typed, TypeOK
<1>1. ASSUME outcome' = outcome PROVE OutcomesStay
  BY <1>1 DEF OutcomesStay
<1>2. ASSUME NEW acts \in Plans, NEW time, outcome' = Recorded(acts, time),
             \A i \in DOMAIN acts : acts[i] # Replayed => ~IsSeen(i)
      PROVE  OutcomesStay
  <2> SUFFICES ASSUME NEW i \in Items, outcome[i].kind = "created" PROVE outcome'[i] = outcome[i]
    BY DEF OutcomesStay
  <2>1. i \notin DOMAIN acts \/ acts[i] = Replayed
    BY <1>2 DEF IsSeen
  <2> QED
    BY <1>0, <1>2, <2>1, RecordedTells
<1>3. ASSUME NEW p \in Procs, Originate(p), Commit(p) PROVE OutcomesStay
  <2>1. job[p].acts \in Plans
    BY <1>3 DEF Commit, Typed, JobFits, Originating, Operation
  <2>2. /\ outcome' = Recorded(job[p].acts, job[p].at)
        /\ \A i \in DOMAIN job[p].acts : job[p].acts[i] # Replayed => ~IsSeen(i)
    BY <1>3 DEF Commit, CanRecord
  <2> QED
    BY <1>2, <2>1, <2>2
<1>4. ASSUME NEW p \in Procs, Captures(p), Record(p) PROVE OutcomesStay
  <2>1. job[p].acts \in Plans /\ Reviews(p) /\ at[p] \in Reviewing
    BY <1>4, CaptureKnows DEF Record, Reviewing
  <2>2. \A i \in DOMAIN job[p].acts : job[p].acts[i] # Replayed => ~IsSeen(i)
    BY <2>1 DEF Reviews, Fits
  <2>3. outcome' = Recorded(job[p].acts, job[p].at)
    BY <1>4 DEF Record
  <2> QED
    BY <1>2, <2>1, <2>2, <2>3
<1>5. ASSUME NEW p \in Procs, Recover(p) PROVE OutcomesStay
  <2> DEFINE t == home[p]
  <2>1. ASSUME NEW j \in journals[t], CanFinalize(t, j),
               outcome' = [i \in Items |-> IF \E pk \in Installed(t, j) : pk[1] = i
                                           THEN Created(j.acts[i], j.at) ELSE outcome[i]]
        PROVE  OutcomesStay
    <3> SUFFICES ASSUME NEW i \in Items, outcome[i].kind = "created" PROVE outcome'[i] = outcome[i]
      BY DEF OutcomesStay
    <3>1. CASE ~\E pk \in Installed(t, j) : pk[1] = i
      BY <2>1, <3>1
    <3>2. ASSUME NEW pk \in Installed(t, j), pk[1] = i PROVE outcome'[i] = outcome[i]
      <4>1. pk[2] = j.acts[i]
        BY <3>2 DEF Installed, PacketsOf
      <4>2. outcome[i] = Created(pk[2], j.at)
        BY <2>1, <3>2 DEF CanFinalize, Unseen
      <4>3. outcome'[i] = Created(j.acts[i], j.at)
        BY <2>1, <3>2
      <4> QED
        BY <4>1, <4>2, <4>3
    <3> QED
      BY <3>1, <3>2
  <2> QED
    BY <1>1, <1>5, <2>1 DEF Recover
<1>6. ASSUME NEW p \in Procs, Originate(p), ~Commit(p), ~Recover(p) PROVE outcome' = outcome
  BY <1>6 DEF Originate, Origination, OriginRecovery, StartImport, StartPromotion, WriteJournal,
              CreatePacket, RemoveJournal, FailOperation, FailLate, CrashInOperation, OpenImport,
              AcquireToRecover, DropJournal, OpenSession, JudgeJournal, DiscardJournal,
              RepeatPromotion, MoveCheckpoint, origins
<1>7. ASSUME NEW p \in Procs, Captures(p), ~Record(p) PROVE outcome' = outcome
  BY <1>7 DEF Captures, OpenCapture, CaptureRecovery, Capture, FailCapture, CrashInCapture,
              AcquireCapture, RecoverCapture, Complete, Clear, UndoInstall, Disown, Retire,
              StartCapture, CheckPlan, Announce, StageOne, Place, Own, origins
<1>8. ASSUME NEW p \in Procs, Store(p) \/ Serve(p) PROVE outcome' = outcome
  BY <1>8 DEF Store, Serve, OpenManual, Close, GiveUp, origins
<1>9. CASE UNCHANGED origins \/ UNCHANGED vars
  BY <1>1, <1>9 DEF origins, vars
<1> QED
  BY <1>1, <1>3, <1>4, <1>5, <1>6, <1>7, <1>8, <1>9, NextIs

LEMMA StepLives ==
  ASSUME Typed, Typed', Resolutive, [Next]_vars
  PROVE  LivesGoOn /\ cut \subseteq cut'
<1>0. Frame /\ TypeStore
  BY DEF Typed, TypeOK
<1>1. ASSUME NEW p \in Procs, Originate(p) \/ Captures(p) \/ Serve(p)
      PROVE  LivesGoOn /\ cut \subseteq cut'
  <2>1. IsElsewhere(p) /\ UNCHANGED <<setting, resolved, cut>>
    BY <1>0, <1>1, OriginateElsewhere, CapturesElsewhere, ServeElsewhere
  <2>2. Held' = Held
    BY <1>0, <2>1, ElsewhereHeld
  <2> QED
    BY <1>0, <2>1, <2>2, OthersLive
<1>2. ASSUME NEW t \in Trees, NEW pk \in Packets, Edit(t, pk)
      PROVE  LivesGoOn /\ cut \subseteq cut'
  <2>1. UNCHANGED <<home, at, job, resolved, cut>>
    BY <1>2 DEF Edit, setting, procs
  <2>2. Held' = Held
    BY <2>1 DEF Held
  <2> QED
    BY <1>0, <2>1, <2>2, OthersLive
<1>3. CASE UNCHANGED vars
  <2>1. UNCHANGED <<home, at, job, resolved, cut>>
    BY <1>3 DEF vars, setting, procs, files
  <2>2. Held' = Held
    BY <2>1 DEF Held
  <2> QED
    BY <1>0, <2>1, <2>2, OthersLive
<1> QED
  BY <1>1, <1>2, <1>3, ResolverLives, NextIs

(* After a step, what a recorded outcome refers to is not absent.          *)
LEMMA StaysBacked ==
  ASSUME OutcomesAreBacked', TypeStore', NEW i \in Items, NEW c \in Copies,
         outcome'[i].kind = "created", outcome'[i].copy = c
  PROVE  \E t \in Trees : LifeOf(t, <<i, c>>)' # "absent" \/ <<t, <<i, c>>>> \in cut'
<1>1. PICK t \in Trees : (IsKnown(t, <<i, c>>) \/ IsHeld(t, <<i, c>>) \/ <<t, <<i, c>>>> \in cut)'
  BY DEF OutcomesAreBacked
<1>2. <<i, c>> \in Packets
  BY DEF Packets
<1>3. resolved'[t][<<i, c>>] \in {"none", "applied", "rejected"}
  BY <1>2 DEF TypeStore
<1>4. IsKnown(t, <<i, c>>)' => LifeOf(t, <<i, c>>)' # "absent"
  BY <1>3 DEF LifeOf, IsKnown
<1>5. IsHeld(t, <<i, c>>)' => LifeOf(t, <<i, c>>)' # "absent"
  BY <1>3 DEF LifeOf
<1> QED
  BY <1>1, <1>4, <1>5

LEMMA StepOfALife ==
  ASSUME Typed, Typed', Resolutive, Orderly, Custody, Custody', OutcomesAreBacked', [Next]_vars
  PROVE  Life!Next
<1> DEFINE places == Trees \X Packets
           names == {<<i, outcome[i].copy>> : i \in {n \in Items : outcome[n].kind = "created"}}
<1>1. LivesGoOn /\ cut \subseteq cut' /\ OutcomesStay
  BY StepLives, OutcomesAreFinal
<1>2. \A place \in places : MayBecome(lives[place], lives'[place])
  BY <1>1 DEF LivesGoOn, lives
<1>3. names \subseteq names'
  BY <1>1 DEF OutcomesStay
<1>4. ASSUME NEW name \in names'
      PROVE  \E place \in places :
                NameOfPacket(place) = name /\ (lives'[place] # "absent" \/ place \in cut')
  <2>1. PICK i \in Items : outcome'[i].kind = "created" /\ name = <<i, outcome'[i].copy>>
    BY <1>4
  <2>2. outcome'[i].copy \in Copies
    BY <2>1 DEF Custody, Books, Backed
  <2>3. PICK c \in Copies : c = outcome'[i].copy /\ name = <<i, c>>
    BY <2>1, <2>2
  <2>4. TypeStore'
    BY DEF Typed, TypeOK
  <2>5. PICK t \in Trees : LifeOf(t, <<i, c>>)' # "absent" \/ <<t, <<i, c>>>> \in cut'
    BY <2>1, <2>3, <2>4, StaysBacked
  <2>6. <<i, c>> \in Packets
    BY DEF Packets
  <2>7. <<t, <<i, c>>>> \in places /\ NameOfPacket(<<t, <<i, c>>>>) = name
    BY <2>3, <2>6 DEF NameOfPacket
  <2>8. lives'[<<t, <<i, c>>>>] = LifeOf(t, <<i, c>>)'
    BY <2>6 DEF lives
  <2> QED
    BY <2>5, <2>7, <2>8
<1> QED
  BY <1>1, <1>2, <1>3, <1>4 DEF Life!Next, Life!IsBacked, MayBecome

(* The routes and the resolution implement the life of a packet: whatever  *)
(* the interleaving of imports, promotions, captures, resolutions, edits,  *)
(* crashes and recoveries, a packet is decided at most once and for good,  *)
(* never decided before it is pending, and the last packet an outcome      *)
(* names disappears only in a crash in the middle of its resolution.       *)
THEOREM LifeAlwaysImplemented == Unshared => (Spec => ImplementsPacketLife)
<1> SUFFICES ASSUME Unshared PROVE Spec => ImplementsPacketLife
  OBVIOUS
<1>1. Init => Life!Init
  <2> SUFFICES ASSUME Init PROVE Life!Init
    OBVIOUS
  <2>1. \A t \in Trees, pk \in Packets : LifeOf(t, pk) \in {"absent", "pending"}
    BY DEF Init, InitStore, LifeOf
  <2>2. lives \in [Trees \X Packets -> {"absent", "pending"}]
    BY <2>1 DEF lives
  <2>3. \A i \in Items : outcome[i].kind # "created"
    BY DEF Init, InitOrigins, Unseen
  <2>4. cut = {}
    BY DEF Init, InitStore
  <2> QED
    BY <2>2, <2>3, <2>4 DEF Life!Init
<1>2. Typed /\ Typed' /\ Resolutive /\ Orderly /\ Custody /\ Custody' /\ OutcomesAreBacked'
        /\ [Next]_vars => Life!Next
  BY StepOfALife
<1>3. Spec => []Orderly
  <2>1. Init => Orderly
    BY DEF Init, InitStore, Orderly, Locked, Originating, Reviewing, Settling
  <2> QED
    BY <2>1, OrderlyStep, TypedAlways, ResolutiveAlways, PTL DEF Spec
<1>4. Spec => []Custody /\ []OutcomesAreBacked
  BY CustodyAlways, OutcomesAlwaysBacked
<1> QED
  BY <1>1, <1>2, <1>3, <1>4, TypedAlways, ResolutiveAlways, PTL
     DEF Spec, ImplementsPacketLife, Life!Spec
===============================================================================
