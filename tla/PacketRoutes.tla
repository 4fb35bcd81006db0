----------------------------- MODULE PacketRoutes -----------------------------
(***************************************************************************)
(* The routes and the resolution of packets together: several processes in *)
(* linked worktrees open services, run operations and stop at any point.   *)
(***************************************************************************)
EXTENDS CaptureRoute

vars == <<setting, files, procs, cut, mishaps, origins, capture>>

Init == InitStore /\ InitOrigins /\ InitCapture

(* Packets written by hand need no recovery when a service opens. *)
OpenManual(p) ==
    /\ route = "manual" /\ at[p] = "closed"
    /\ Goto(p, "open")
    /\ UNCHANGED <<setting, files, lock, job, cut, mishaps, origins, capture>>

(* RepoLifecycleLock::acquire gives up after its deadline. *)
GiveUp(p) ==
    /\ at[p] \in {"opening", "promote"} /\ lock # NoProc
    /\ Mishap
    /\ Leave(p, "closed")
    /\ UNCHANGED <<setting, files, cut, origins, capture>>

Close(p) ==
    /\ at[p] = "open"
    /\ Leave(p, "closed")
    /\ UNCHANGED <<setting, files, cut, mishaps, origins, capture>>

Open(p) ==
    \/ (OpenImport(p) \/ OpenSession(p)) /\ UNCHANGED capture
    \/ OpenCapture(p) \/ OpenManual(p)

Recovering(p) == (OriginRecovery(p) /\ UNCHANGED capture) \/ CaptureRecovery(p)

(* Steps of an operation that has begun. *)
Continue(p) ==
    \/ ((MovePending(p) \/ WriteRecord(p) \/ InstallResolved(p) \/ Finish(p))
        /\ UNCHANGED <<origins, capture>>)
    \/ (WriteJournal(p) \/ CreatePacket(p) \/ Commit(p) \/ RemoveJournal(p)) /\ UNCHANGED capture
    \/ CheckPlan(p) \/ Announce(p) \/ StageOne(p) \/ Place(p) \/ Own(p) \/ Record(p)

Next ==
    \/ \E p \in Procs :
          \/ Open(p) \/ Close(p) \/ GiveUp(p) \/ Recovering(p)
          \/ Resolution(p) /\ UNCHANGED <<origins, capture>>
          \/ Origination(p) /\ UNCHANGED capture
          \/ Capture(p)
          \/ (FailResolution(p) \/ CrashInResolution(p)) /\ UNCHANGED <<origins, capture>>
          \/ (FailOperation(p) \/ FailLate(p) \/ CrashInOperation(p)) /\ UNCHANGED capture
          \/ FailCapture(p) \/ CrashInCapture(p)
    \/ \E t \in Trees, pk \in Packets : Edit(t, pk) /\ UNCHANGED <<origins, capture>>

(* Waiting for the lock to recover the journals of a worktree. *)
Acquire(p) == (AcquireToRecover(p) /\ UNCHANGED capture) \/ AcquireCapture(p)

(* Commands that run go on, end, and new ones are started; one that finds  *)
(* the lock free again and again gets it before its deadline.              *)
Fairness ==
    \A p \in Procs :
        /\ WF_vars(Open(p) \/ Close(p) \/ Recovering(p) \/ Continue(p))
        /\ SF_vars(Acquire(p))

Spec == Init /\ [][Next]_vars
FairSpec == Spec /\ Fairness

-------------------------------------------------------------------------------
TypeOK == TypeStore /\ TypeOrigins /\ TypeCapture

(* A resolver that has taken a packet away and not finished with it. *)
Held == {<<home[p], job[p].pk>> : p \in {q \in Procs : at[q] \in {"write", "install", "finish"}}}
IsHeld(t, pk) == <<t, pk>> \in Held

(* Every recorded creation is backed: the packet it names is pending,      *)
(* resolved, in the hands of a resolver or was lost in its resolution, in  *)
(* some worktree.  The outcome is what every later retry is answered with. *)
OutcomesAreBacked ==
    \A i \in Items : outcome[i].kind = "created" =>
        \E t \in Trees :
            LET pk == <<i, outcome[i].copy>>
            IN IsKnown(t, pk) \/ IsHeld(t, pk) \/ <<t, pk>> \in cut

(* A pending packet nobody edited and without an outcome is announced by a *)
(* journal of its worktree, so that the next service there records it or   *)
(* takes it away; except where a recovery removed the journal of a         *)
(* promotion that was still running.                                       *)
PacketsAreAccountedFor ==
    route # "manual" =>
        \A t \in Trees \ raced, pk \in Packets :
            pending[t][pk] \in {"whole", "torn"} /\ ~IsSeen(pk[1]) =>
                \E j \in journals[t] : pk \in PacketsOf(j.acts)

(* Resolutions and records tell the same story: what was applied is        *)
(* written, and a record is written only by a packet that was applied.     *)
Applied(t) == {pk \in Packets : resolved[t][pk] = "applied" /\ ~IsHeld(t, pk)}
InTheMiddle(t) == {pk \in Packets : IsHeld(t, pk) \/ <<t, pk>> \in cut}

ResolutionMatchesRecords ==
    \A t \in Trees :
        /\ \A pk \in Applied(t) :
              LET change == ChangeOf(pk[1])
              IN /\ change # "tombstone" => record[t][pk[1]] # "none"
                 /\ change = "supersede" => record[t][Target] = "superseded"
                 /\ change = "tombstone" => record[t][Target] = "tombstoned"
        /\ \A i \in Items : record[t][i] # "none" =>
              \E pk \in Applied(t) \cup InTheMiddle(t) : pk[1] = i
        /\ record[t][Target] # "active" =>
              \E pk \in Applied(t) \cup InTheMiddle(t) : ChangeOf(pk[1]) # "create"

(* Two packets never both change the same record, or create it twice. *)
OneDecisionPerRecord ==
    \A t \in Trees : \A pk1, pk2 \in Applied(t) :
        pk1 # pk2 =>
            /\ pk1[1] # pk2[1]
            /\ ChangeOf(pk1[1]) = "create" \/ ChangeOf(pk2[1]) = "create"

(* A worktree never holds the same candidate twice, both unresolved and    *)
(* unchanged; except where two promotions got past each other.             *)
NoTwins ==
    \A t \in Trees \ raced, i \in Items :
        Cardinality({c \in Copies : pending[t][<<i, c>>] = "whole"}) =< 1

(* Of a packet, one of pending and resolved: a decision is terminal. *)
ResolvedIsTerminal ==
    \A t \in Trees, pk \in Packets :
        resolved[t][pk] # "none" => pending[t][pk] = "none"

-------------------------------------------------------------------------------
(* The life of a packet, seen from outside: while it is being resolved it  *)
(* is still pending, and what is resolved stays so.                        *)
LifeOf(t, pk) ==
    IF resolved[t][pk] # "none" THEN IF IsHeld(t, pk) THEN "pending" ELSE resolved[t][pk]
    ELSE IF pending[t][pk] # "none" \/ IsHeld(t, pk) THEN "pending"
    ELSE "absent"

NameOfPacket(place) == place[2]

lives == [place \in Trees \X Packets |-> LifeOf(place[1], place[2])]

Life == INSTANCE PacketLife WITH
    Packets <- Trees \X Packets,
    NameOf <- NameOfPacket,
    life <- lives,
    recorded <- {<<i, outcome[i].copy>> : i \in {n \in Items : outcome[n].kind = "created"}},
    lost <- cut

(* The routes and the resolution implement PacketLife. *)
ImplementsPacketLife == Life!Spec

-------------------------------------------------------------------------------
(* Worktrees whose journals no command will settle: somebody has to look.  *)
Torn(t, j) == \E pk \in PacketsOf(j.acts) : pending[t][pk] \in {"torn", "edited"}

IsStuck(t) ==
    \E j \in journals[t] :
        CASE route = "import"      -> ~CanFinalize(t, j)
          [] route = "session_end" -> Verdict(t, j) = "closed"
          [] route = "capture"     ->
                IF IsCommitted(t, j) THEN ~CanComplete(t, j) \/ Torn(t, j)
                ELSE ~CanUndo(t, j) \/ \E i \in Items : stage[t][i] = "torn"
          [] OTHER -> FALSE

(* Journals do not stay behind: a journal is removed, or names a state the *)
(* recovery refuses for good.                                              *)
JournalsSettle == \A t \in Trees : []<>(journals[t] = {} \/ IsStuck(t))
===============================================================================
