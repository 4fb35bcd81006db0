----------------------------- MODULE OriginRoutes -----------------------------
(***************************************************************************)
(* Two routes that turn candidates into pending packets: a reviewed import *)
(* (service/import_lifecycle) and the promotion of a session checkpoint    *)
(* (service/session_end_route_apply).  Both write a journal, create the    *)
(* packets without replacement, record what became of each candidate in    *)
(* shared.db and remove the journal; the next service opened in the same   *)
(* worktree finishes what a crash left.  A promotion records one outcome   *)
(* for its whole batch: here it is repeated for every candidate.           *)
(***************************************************************************)
EXTENDS PacketStore

CONSTANTS
    Batches,      \* the sets of candidates that arrive together
    MaxAttempts,  \* bound: operations started
    MaxVersion    \* bound: versions of the checkpoint

ASSUME BatchesAssumption == Batches \subseteq SUBSET Items /\ {} \notin Batches
ASSUME AttemptsAssumption == {MaxAttempts, MaxVersion} \subseteq Nat \ {0}

VARIABLES
    outcome,     \* shared.db: what became of each candidate
    checkpoint,  \* shared.db: the checkpoint that is promoted
    journals,    \* origin journals under each worktree's runtime directory
    attempts,    \* operations started; names the time one records
    raced        \* history: worktrees where a recovery dropped the journal
                 \* of an operation that was still running

origins == <<outcome, checkpoint, journals, attempts, raced>>

(* What a plan does with a candidate: create that copy, or one of these. *)
Duplicate == 0
Replayed  == -1
Acts == {Duplicate, Replayed} \cup Copies

Plans == UNION {[batch -> Acts] : batch \in SUBSET Items}
Journal == [acts : Plans, at : 1..MaxAttempts, version : 1..MaxVersion]

Unseen == [kind |-> "unseen", copy |-> 0, at |-> 0]
Created(c, t) == [kind |-> "created", copy |-> c, at |-> t]
NoWrite(t) == [kind |-> "duplicate", copy |-> 0, at |-> t]
IsSeen(i) == outcome[i].kind # "unseen"

TypeOrigins ==
    /\ outcome \in [Items -> [kind : {"unseen", "created", "duplicate"},
                              copy : {0} \cup Copies, at : 0..MaxAttempts]]
    /\ checkpoint \in [open : BOOLEAN, version : 1..MaxVersion]
    /\ DOMAIN journals = Trees /\ \A t \in Trees : journals[t] \subseteq Journal
    /\ attempts \in 0..MaxAttempts
    /\ raced \subseteq Trees

InitOrigins ==
    /\ outcome = [i \in Items |-> Unseen]
    /\ checkpoint = [open |-> TRUE, version |-> 1]
    /\ journals = [t \in Trees |-> {}]
    /\ attempts = 0
    /\ raced = {}

-------------------------------------------------------------------------------
(* Faulty variant: only the records are searched for a duplicate. *)
IsRecorded(t, i) == record[t][i] = "active"

(* Plans.  An import looks for the same body among pending packets and     *)
(* active records (an edit changes the body); a capture for the same       *)
(* title, which is a duplicate or a conflict; a promotion always creates.  *)
IsDuplicated(t, i) ==
    LET ofTitle == route = "capture"
    IN \/ \E c \in Copies : pending[t][<<i, c>>] \in IF ofTitle THEN Readable ELSE {"whole"}
       \/ record[t][i] \in IF ofTitle THEN {"active", "amended"} ELSE {"active"}

IsPlanned(t, i, act) ==
    LET looks == route # "session_end"
    IN CASE looks /\ IsSeen(i)          -> act = Replayed
         [] looks /\ ~IsSeen(i) /\ IsDuplicated(t, i) -> act = Duplicate
         [] OTHER -> act \in Copies /\ IsFreshCopy(t, i, act)

IsPlan(t, acts) == InventoryIsClean(t) /\ \A i \in DOMAIN acts : IsPlanned(t, i, acts[i])

(* The candidates a plan creates packets for, taken in order. *)
Creates(acts) == {i \in DOMAIN acts : acts[i] \in Copies}
IsNext(acts, k, i) == i \in Creates(acts) /\ k < i /\ \A n \in Creates(acts) : k < n => i <= n
PacketsOf(acts) == {<<i, acts[i]>> : i \in Creates(acts)}

(* finalize_origin, for every candidate that is not replayed. *)
Recorded(acts, at_) ==
    [i \in Items |->
        IF i \notin DOMAIN acts THEN outcome[i]
        ELSE CASE acts[i] = Replayed  -> outcome[i]
               [] acts[i] = Duplicate -> NoWrite(at_)
               [] OTHER               -> Created(acts[i], at_)]

Begin(acts) ==
    [acts |-> acts, at |-> attempts + 1, version |-> checkpoint.version, k |-> 1,
     recovering |-> FALSE]
JournalOf(j) == [acts |-> j.acts, at |-> j.at, version |-> j.version]

(* Faulty variant: the files of a failed batch stay. *)
NoneRemoved(t, pks) == [pending EXCEPT ![t] = [pk \in Packets |-> @[pk]]]

(* Takes the files of a batch away again, the ones somebody edited aside. *)
Removed(t, pks) ==
    [pending EXCEPT ![t] = [pk \in Packets |->
        IF pk \in pks /\ @[pk] = "whole" THEN "none" ELSE @[pk]]]

-------------------------------------------------------------------------------
(* import_apply and session_end_from_checkpoint: the plan is recomputed    *)
(* under the lock.  Without a packet to create there is no journal.        *)
StartImport(p, acts) ==
    /\ route = "import" /\ at[p] = "open" /\ attempts < MaxAttempts
    /\ DOMAIN acts \in Batches /\ IsPlan(home[p], acts)
    /\ \E i \in DOMAIN acts : acts[i] # Replayed
    /\ Enter(p, Begin(acts), IF Creates(acts) # {} THEN "journal" ELSE "commit")
    /\ attempts' = attempts + 1
    /\ UNCHANGED <<setting, files, cut, mishaps, outcome, checkpoint, journals, raced>>

StartPromotion(p, acts) ==
    /\ route = "session_end" /\ at[p] = "open" /\ attempts < MaxAttempts
    /\ DOMAIN acts = Items /\ IsPlan(home[p], acts)
    /\ checkpoint.open /\ \A i \in Items : ~IsSeen(i)
    /\ Enter(p, Begin(acts), "journal")
    /\ attempts' = attempts + 1
    /\ UNCHANGED <<setting, files, cut, mishaps, outcome, checkpoint, journals, raced>>

(* Journals are named by the plan of an import and by the operation of a   *)
(* promotion; one that is there already is not replaced.                   *)
IsJournaled(t, j) ==
    IF route = "import" THEN \E k \in journals[t] : k.acts = j.acts ELSE journals[t] # {}

(* The candidate in hand, and the steps from one to the next. *)
Creating(p) == job[p].k
IsLast(p) == \A i \in Creates(job[p].acts) : i <= Creating(p)
StepAfter(p, k, label) == \E i \in Items : IsNext(job[p].acts, k, i) /\ Step(p, i, label)

WriteJournal(p) ==
    LET t == home[p]
    IN /\ at[p] = "journal"
       /\ IF IsJournaled(t, job[p])
          THEN Leave(p, "open") /\ UNCHANGED journals
          ELSE /\ journals' = [journals EXCEPT ![t] = @ \cup {JournalOf(job[p])}]
               /\ StepAfter(p, 0, "create")
       /\ UNCHANGED <<setting, files, cut, mishaps, outcome, checkpoint, attempts, raced>>


(* create_repository_batch: one file after the other, never over another. *)
CreatePacket(p) ==
    LET i == Creating(p)
    IN /\ at[p] = "create"
       /\ pending' = [pending EXCEPT ![home[p]][<<i, job[p].acts[i]>>] = "whole"]
       /\ IF IsLast(p) THEN Step(p, 1, "commit") ELSE StepAfter(p, i, "create")
       /\ UNCHANGED <<setting, resolved, record, cut, mishaps, origins>>

(* The transaction on shared.db.  A promotion also closes its checkpoint.  *)
CanRecord(j) ==
    /\ \A i \in DOMAIN j.acts : j.acts[i] # Replayed => ~IsSeen(i)
    /\ route = "session_end" => checkpoint = [open |-> TRUE, version |-> j.version]

Commit(p) ==
    /\ at[p] = "commit"
    /\ CanRecord(job[p])
    /\ outcome' = Recorded(job[p].acts, job[p].at)
    /\ checkpoint' = [checkpoint EXCEPT !.open = @ /\ route # "session_end"]
    /\ IF Creates(job[p].acts) = {} THEN Leave(p, "open") ELSE Step(p, 1, "unjournal")
    /\ UNCHANGED <<setting, files, cut, mishaps, journals, attempts, raced>>

RemoveJournal(p) ==
    /\ at[p] = "unjournal"
    /\ journals' = [journals EXCEPT ![home[p]] =
            IF route = "import" THEN {k \in @ : k.acts # job[p].acts} ELSE {}]
    /\ Leave(p, "open")
    /\ UNCHANGED <<setting, files, cut, mishaps, outcome, checkpoint, attempts, raced>>

(* An error the command reports.  A batch that was being created takes its *)
(* own files back, a finished one is cleaned up by the command, which      *)
(* keeps the journal when a file is no longer what it wrote.               *)
FailOperation(p) ==
    LET t == home[p]  j == job[p]
        made == {pk \in PacketsOf(j.acts) : at[p] = "create" => pk[1] < Creating(p)}
        keeps == at[p] = "commit" /\ \E pk \in made : pending[t][pk] # "whole"
    IN /\ at[p] \in {"create", "commit"} /\ ~j.recovering
       /\ Mishap
       /\ pending' = Removed(t, made)
       /\ journals' = IF keeps THEN journals
                      ELSE [journals EXCEPT ![t] = @ \ {JournalOf(j)}]
       /\ Leave(p, "open")
       /\ UNCHANGED <<setting, resolved, record, cut,
                      outcome, checkpoint, attempts, raced>>

(* The command fails after its commit, or a recovery fails: nothing is undone. *)
FailLate(p) ==
    /\ at[p] \in {"unjournal", "recover", "drop"} \/ (at[p] = "commit" /\ job[p].recovering)
    /\ Mishap
    /\ Leave(p, IF at[p] = "unjournal" /\ ~job[p].recovering THEN "open" ELSE "closed")
    /\ UNCHANGED <<setting, files, cut, origins>>

-------------------------------------------------------------------------------
(* Faulty variant: a service opens without looking for journals. *)
OpenAtOnce(p) ==
    /\ route = "import" /\ at[p] = "closed"
    /\ Goto(p, "open")
    /\ UNCHANGED <<setting, files, lock, job, cut, mishaps, origins>>

(* Opening a service: the journals are looked for before the lock is       *)
(* taken.  import_origin_journal::recover_on_open.                         *)
OpenImport(p) ==
    /\ route = "import" /\ at[p] = "closed"
    /\ Goto(p, IF journals[home[p]] = {} THEN "open" ELSE "opening")
    /\ UNCHANGED <<setting, files, lock, job, cut, mishaps, origins>>

AcquireToRecover(p) ==
    /\ route = "import" /\ at[p] = "opening"
    /\ Enter(p, NoJob, "recover")
    /\ UNCHANGED <<setting, files, cut, mishaps, origins>>

(* A file that is still the one the journal announced is recorded as       *)
(* created; an outcome that is recorded already must be that very one.     *)
Installed(t, j) == {pk \in PacketsOf(j.acts) : pending[t][pk] # "none"}
CanFinalize(t, j) ==
    \A pk \in Installed(t, j) :
        /\ pending[t][pk] = "whole"
        /\ outcome[pk[1]] \in {Unseen, Created(pk[2], j.at)}

Recover(p) ==
    LET t == home[p]
    IN /\ at[p] = "recover" /\ route = "import"
       /\ \/ /\ journals[t] = {}
             /\ Leave(p, "open") /\ UNCHANGED outcome
          \/ \E j \in journals[t] :
                /\ CanFinalize(t, j)
                /\ outcome' = [i \in Items |->
                      IF \E pk \in Installed(t, j) : pk[1] = i
                      THEN Created(j.acts[i], j.at) ELSE outcome[i]]
                /\ job' = [job EXCEPT ![p] = [j |-> j]]
                /\ Goto(p, "drop") /\ UNCHANGED lock
          \/ \E j \in journals[t] :
                /\ ~CanFinalize(t, j)
                /\ Leave(p, "closed") /\ UNCHANGED outcome
       /\ UNCHANGED <<setting, files, cut, mishaps, checkpoint, journals, attempts, raced>>

DropJournal(p) ==
    /\ at[p] = "drop"
    /\ journals' = [journals EXCEPT ![home[p]] = @ \ {job[p].j}]
    /\ job' = [job EXCEPT ![p] = NoJob]
    /\ Goto(p, "recover") /\ UNCHANGED lock
    /\ UNCHANGED <<setting, files, cut, mishaps, outcome, checkpoint, attempts, raced>>

-------------------------------------------------------------------------------
(* SessionEndRouteApply::recover_on_open holds no lock while it decides    *)
(* what to do with a journal, which may belong to a running promotion.     *)
OpenSession(p) ==
    LET t == home[p]
    IN /\ route = "session_end" /\ at[p] = "closed"
       /\ \/ /\ journals[t] = {}
             /\ Goto(p, "open") /\ UNCHANGED job
          \/ \E j \in journals[t] :
                /\ job' = [job EXCEPT ![p] = [j |-> j]]
                /\ Goto(p, "judge")
       /\ UNCHANGED <<setting, files, lock, cut, mishaps, origins>>

(* Faulty variant: a packet that is missing counts as installed. *)
IsWhereThere(t, j) == \A pk \in PacketsOf(j.acts) : pending[t][pk] \in {"none", "whole"}

IsInstalled(t, j) == \A pk \in PacketsOf(j.acts) : pending[t][pk] = "whole"
IsEligible(j) == checkpoint = [open |-> TRUE, version |-> j.version]

(* What recovery does with a journal whose outcome it looked up. *)
Verdict(t, j) ==
    LET seen == \E i \in Items : IsSeen(i)
    IN CASE seen /\ IsInstalled(t, j)         -> "discard"
         [] ~seen /\ Installed(t, j) = {}     -> "discard"
         [] ~seen /\ IsInstalled(t, j) /\ IsEligible(j) -> "promote"
         [] OTHER                             -> "closed"

JudgeJournal(p) ==
    /\ at[p] = "judge"
    /\ LET verdict == Verdict(home[p], job[p].j)
       IN IF verdict = "closed" THEN Leave(p, "closed")
          ELSE Goto(p, verdict) /\ UNCHANGED <<lock, job>>
    /\ UNCHANGED <<setting, files, cut, mishaps, origins>>

(* Removed by its path: the journal may be that of a promotion that is     *)
(* running, or another one since the verdict, and its packets may be       *)
(* missing only because a resolver holds them.                             *)
DiscardJournal(p) ==
    LET t == home[p]
        busy == lock # NoProc /\ home[lock] = t
    IN /\ at[p] = "discard"
       /\ journals' = [journals EXCEPT ![t] = {}]
       /\ raced' = IF busy \/ \E j \in journals[t] : Verdict(t, j) # "discard"
                   THEN raced \cup {t} ELSE raced
       /\ Leave(p, "open")
       /\ UNCHANGED <<setting, files, cut, mishaps, outcome, checkpoint, attempts>>

(* promote_internal over the packets of the journal: checked again under   *)
(* the lock, then committed like a new promotion.                          *)
RepeatPromotion(p) ==
    LET t == home[p]  j == job[p].j
    IN /\ at[p] = "promote" /\ lock = NoProc
       /\ IF IsEligible(j) /\ InventoryIsClean(t) /\ IsInstalled(t, j)
          THEN Enter(p, [acts |-> j.acts, at |-> j.at, version |-> j.version, k |-> 1,
                         recovering |-> TRUE], "commit")
          ELSE Leave(p, "closed")
       /\ UNCHANGED <<setting, files, cut, mishaps, origins>>

(* The checkpoint is continued or closed by another command. *)
MoveCheckpoint(p) ==
    /\ route = "session_end" /\ at[p] = "open" /\ lock = NoProc
    /\ checkpoint.open /\ checkpoint.version < MaxVersion /\ Mishap
    /\ \E open \in BOOLEAN :
            checkpoint' = [open |-> open, version |-> checkpoint.version + 1]
    /\ UNCHANGED <<setting, files, procs, cut, outcome, journals, attempts, raced>>

(* A crash; a file that was being created may be incomplete. *)
CrashInOperation(p) ==
    /\ at[p] \in {"journal", "create", "commit", "unjournal", "recover", "drop"}
    /\ Mishap
    /\ \/ UNCHANGED pending
       \/ /\ TornWrites /\ at[p] = "create"
          /\ pending' = [pending EXCEPT
                ![home[p]][<<Creating(p), job[p].acts[Creating(p)]>>] = "torn"]
    /\ Leave(p, "closed")
    /\ UNCHANGED <<setting, resolved, record, cut, origins>>

Origination(p) ==
    \/ \E batch \in Batches \cup {Items} : \E acts \in [batch -> Acts] :
            StartImport(p, acts) \/ StartPromotion(p, acts)
    \/ WriteJournal(p) \/ CreatePacket(p) \/ Commit(p) \/ RemoveJournal(p)
    \/ MoveCheckpoint(p)

OriginRecovery(p) ==
    \/ AcquireToRecover(p) \/ Recover(p) \/ DropJournal(p)
    \/ JudgeJournal(p) \/ DiscardJournal(p) \/ RepeatPromotion(p)
===============================================================================
