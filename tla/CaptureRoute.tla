----------------------------- MODULE CaptureRoute -----------------------------
(***************************************************************************)
(* The third route: a reviewed capture (service/capture_route_apply).  The *)
(* journal of a worktree names the batch; every packet is staged, then     *)
(* installed from its stage, then recorded as owned by the batch.  The     *)
(* commit writes a marker next to the outcomes, and the recovery that      *)
(* follows, or that of a later command, completes or undoes the batch by   *)
(* that marker.  The hand-over of the outcomes to shared.db is the subject *)
(* of SharedRuntime: here they are seen at the commit.                     *)
(***************************************************************************)
EXTENDS OriginRoutes

VARIABLES
    stage,   \* staged packets, by worktree and candidate
    owned,   \* the ownership record: candidates whose file the batch installed
    marker   \* the index holds the commit marker of the batch of that attempt

capture == <<stage, owned, marker>>

TypeCapture ==
    /\ stage \in [Trees -> [Items -> {"none", "torn", "whole"}]]
    /\ owned \in [Trees -> SUBSET Items]
    /\ marker \in [Trees -> 0..MaxAttempts]

InitCapture ==
    /\ stage = [t \in Trees |-> [i \in Items |-> "none"]]
    /\ owned = [t \in Trees |-> {}]
    /\ marker = [t \in Trees |-> 0]

(* "plan" is what the command set out to do, "acts" the batch in hand.  A  *)
(* recovery goes on to label "next", or returns to "back" when it refuses; *)
(* "again" marks the one a command runs over its own committed batch.      *)
Recovery(plan, time, back, next) ==
    [plan |-> plan, acts |-> plan, at |-> time, version |-> 1, k |-> 1,
     back |-> back, next |-> next, again |-> FALSE, loaded |-> 0, mine |-> {}]

File(t, p) == pending[t][<<Creating(p), job[p].acts[Creating(p)]>>]
SetFile(t, p, f) == pending' = [pending EXCEPT ![t][<<Creating(p), job[p].acts[Creating(p)]>>] = f]
Stage(t, p) == stage[t][Creating(p)]
SetStage(t, p, f) == stage' = [stage EXCEPT ![t][Creating(p)] = f]
(* One candidate of the batch after the other, then the next label. *)
NextItem(p, label) ==
    IF IsLast(p) THEN StepAfter(p, 0, label) ELSE StepAfter(p, Creating(p), at[p])

-------------------------------------------------------------------------------
(* capture_apply.  Whether the lock is needed is decided by what the plan  *)
(* writes: a capture whose candidates are all replayed runs the recovery   *)
(* without it.                                                             *)
TakesLock(acts) == \E i \in DOMAIN acts : acts[i] # Replayed

StartCapture(p, acts) ==
    /\ route = "capture" /\ at[p] = "open" /\ attempts < MaxAttempts
    /\ DOMAIN acts \in Batches /\ IsPlan(home[p], acts)
    /\ attempts' = attempts + 1
    /\ LET j == Recovery(acts, attempts + 1, "open", "plan")
       IN IF TakesLock(acts) THEN Enter(p, j, "recover")
          ELSE /\ job' = [job EXCEPT ![p] = j]
               /\ Goto(p, "recover") /\ UNCHANGED lock
    /\ UNCHANGED <<setting, files, cut, mishaps, outcome, checkpoint, journals, raced, capture>>

(* After an error, or its commit, a command recovers its own batch. *)
ToRecovery(p, again) ==
    /\ job' = [job EXCEPT ![p].next = "open", ![p].again = again, ![p].k = 1]
    /\ Goto(p, "recover") /\ UNCHANGED lock

(* The reviewed plan must still be the plan after the recovery. *)
CheckPlan(p) ==
    LET acts == job[p].plan
    IN /\ at[p] = "plan"
       /\ IF IsPlan(home[p], acts) /\ TakesLock(acts)
          THEN Step(p, 1, IF Creates(acts) = {} THEN "record" ELSE "announce")
          ELSE Leave(p, "open")
       /\ UNCHANGED <<setting, files, cut, mishaps, origins, capture>>

(* write_capture_apply_journal *)
Announce(p) ==
    LET t == home[p]
    IN /\ at[p] = "announce"
       /\ IF journals[t] # {} \/ owned[t] # {}
          THEN ToRecovery(p, FALSE) /\ UNCHANGED journals
          ELSE /\ journals' = [journals EXCEPT ![t] = {JournalOf(job[p])}]
               /\ StepAfter(p, 0, "stage")
       /\ UNCHANGED <<setting, files, cut, mishaps, outcome, checkpoint, attempts, raced, capture>>

StageOne(p) ==
    /\ at[p] = "stage"
    /\ SetStage(home[p], p, "whole")
    /\ NextItem(p, "place")
    /\ UNCHANGED <<setting, files, cut, mishaps, origins, owned, marker>>

(* install_verified_staged_file_no_replace, then the ownership record. *)
Place(p) ==
    /\ at[p] = "place"
    /\ IF Stage(home[p], p) = "whole" /\ File(home[p], p) = "none"
       THEN SetFile(home[p], p, "whole") /\ Step(p, job[p].k, "own")
       ELSE ToRecovery(p, FALSE) /\ UNCHANGED pending
    /\ UNCHANGED <<setting, resolved, record, cut, mishaps, origins, capture>>

Own(p) ==
    /\ at[p] = "own"
    /\ owned' = [owned EXCEPT ![home[p]] = @ \cup {Creating(p)}]
    /\ IF IsLast(p) THEN Step(p, 1, "record") ELSE StepAfter(p, Creating(p), "place")
    /\ UNCHANGED <<setting, files, cut, mishaps, origins, stage, marker>>

(* The transaction: outcomes and marker.  The command then recovers its    *)
(* own batch, as committed.                                                *)
Record(p) ==
    /\ at[p] = "record"
    /\ outcome' = Recorded(job[p].acts, job[p].at)
    /\ IF Creates(job[p].acts) = {}
       THEN Leave(p, "open") /\ UNCHANGED marker
       ELSE /\ marker' = [marker EXCEPT ![home[p]] = job[p].at]
            /\ ToRecovery(p, TRUE)
    /\ UNCHANGED <<setting, files, cut, mishaps, checkpoint, journals, attempts, raced,
                   stage, owned>>

-------------------------------------------------------------------------------
(* recover_capture_apply.  A committed batch needs a readable copy of      *)
(* every packet, staged or installed; an uncommitted one is undone only    *)
(* when every installed file is known to be its own, unchanged.            *)
(* Faulty variant: the marker is compared with the wrong operation. *)
IsOutdated(t, j) == marker[t] > j.at

IsCommitted(t, j) == marker[t] = j.at

CanComplete(t, j) ==
    \A pk \in PacketsOf(j.acts) :
        \/ stage[t][pk[1]] = "whole"
        \/ stage[t][pk[1]] = "none" /\ pending[t][pk] = "whole"

CanUndo(t, j) ==
    \A pk \in PacketsOf(j.acts) :
        pending[t][pk] = "none" \/ (pending[t][pk] = "whole" /\ pk[1] \in owned[t])

Refuse(p) == IF job[p].again THEN ToRecovery(p, FALSE) ELSE Leave(p, job[p].back)

Settled(p) ==
    IF job[p].next = "plan"
    THEN job' = [job EXCEPT ![p].acts = job[p].plan, ![p].k = 1] /\ Goto(p, "plan") /\ UNCHANGED lock
    ELSE Leave(p, job[p].next)

RecoverCapture(p) ==
    LET t == home[p]
    IN /\ at[p] = "recover" /\ route = "capture"
       /\ \/ /\ journals[t] = {}
             /\ IF owned[t] # {} \/ job[p].again THEN Refuse(p) ELSE Settled(p)
          \/ \E j \in journals[t] :
                IF IF IsCommitted(t, j) THEN CanComplete(t, j) ELSE CanUndo(t, j)
                THEN /\ \E i \in Items :
                            /\ IsNext(j.acts, 0, i)
                            /\ job' = [job EXCEPT ![p].acts = j.acts, ![p].loaded = j.at,
                                                  ![p].mine = owned[t], ![p].k = i]
                     /\ Goto(p, IF IsCommitted(t, j) THEN "complete" ELSE "undo")
                     /\ UNCHANGED lock
                ELSE Refuse(p)
       /\ UNCHANGED <<setting, files, cut, mishaps, origins, capture>>

(* A committed packet that is missing is installed again from its stage. *)
Complete(p) ==
    LET t == home[p]
    IN /\ at[p] = "complete"
       /\ CASE File(t, p) = "whole" -> NextItem(p, "clear") /\ UNCHANGED pending
            [] File(t, p) = "none" /\ Stage(t, p) = "whole" ->
                    SetFile(t, p, "whole") /\ NextItem(p, "clear")
            [] OTHER -> Refuse(p) /\ UNCHANGED pending
       /\ UNCHANGED <<setting, resolved, record, cut, mishaps, origins, capture>>

Clear(p) ==
    LET t == home[p]
    IN /\ at[p] = "clear"
       /\ IF File(t, p) = "whole"
          THEN SetStage(t, p, "none") /\ NextItem(p, "disown")
          ELSE Refuse(p) /\ UNCHANGED stage
       /\ UNCHANGED <<setting, files, cut, mishaps, origins, owned, marker>>

(* Undoing removes the files that were owned when the recovery looked. *)
UndoInstall(p) ==
    LET t == home[p]
        mine == Creating(p) \in job[p].mine
    IN /\ at[p] = "undo"
       /\ pending' = IF mine /\ File(t, p) = "whole"
                     THEN [pending EXCEPT ![t][<<Creating(p), job[p].acts[Creating(p)]>>] = "none"]
                     ELSE pending
       /\ IF (mine /\ File(t, p) \notin {"none", "whole"}) \/ Stage(t, p) = "torn"
          THEN Refuse(p) /\ UNCHANGED stage
          ELSE SetStage(t, p, "none") /\ NextItem(p, "disown")
       /\ UNCHANGED <<setting, resolved, record, cut, mishaps, origins, owned, marker>>

Disown(p) ==
    LET t == home[p]
    IN /\ at[p] = "disown"
       /\ IF job[p].mine # {} /\ owned[t] \notin {{}, job[p].mine}
          THEN Refuse(p) /\ UNCHANGED owned
          ELSE /\ owned' = IF job[p].mine = {} THEN owned ELSE [owned EXCEPT ![t] = {}]
               /\ Step(p, 1, "retire")
       /\ UNCHANGED <<setting, files, cut, mishaps, origins, stage, marker>>

Retire(p) ==
    LET t == home[p]
    IN /\ at[p] = "retire"
       /\ IF \E j \in journals[t] : j.at # job[p].loaded
          THEN Refuse(p) /\ UNCHANGED <<journals, marker>>
          ELSE /\ journals' = [journals EXCEPT ![t] = {}]
               /\ marker' = [marker EXCEPT ![t] = IF @ = job[p].loaded THEN 0 ELSE @]
               /\ Settled(p)
       /\ UNCHANGED <<setting, files, cut, mishaps, outcome, checkpoint, attempts, raced,
                      stage, owned>>

(* capture_route_apply::recover_on_open *)
OpenCapture(p) ==
    /\ route = "capture" /\ at[p] = "closed"
    /\ Goto(p, IF journals[home[p]] = {} THEN "open" ELSE "opening")
    /\ UNCHANGED <<setting, files, lock, job, cut, mishaps, origins, capture>>

AcquireCapture(p) ==
    /\ route = "capture" /\ at[p] = "opening"
    /\ Enter(p, Recovery(<<>>, 0, "closed", "open"), "recover")
    /\ UNCHANGED <<setting, files, cut, mishaps, origins, capture>>

-------------------------------------------------------------------------------
(* An I/O error: before the commit the command recovers, which undoes. *)
FailCapture(p) ==
    /\ Mishap
    /\ \/ at[p] \in {"stage", "place", "own", "record"} /\ ToRecovery(p, FALSE)
       \/ at[p] \in {"complete", "clear", "undo", "disown", "retire"} /\ Refuse(p)
    /\ UNCHANGED <<setting, files, cut, origins, capture>>

CrashInCapture(p) ==
    /\ at[p] \in {"plan", "announce", "stage", "place", "own", "record",
                  "complete", "clear", "undo", "disown", "retire"}
    /\ Mishap
    /\ \/ UNCHANGED <<pending, stage>>
       \/ /\ TornWrites /\ at[p] = "stage"
          /\ SetStage(home[p], p, "torn") /\ UNCHANGED pending
       \/ /\ TornWrites /\ at[p] \in {"place", "complete"} /\ File(home[p], p) = "none"
          /\ SetFile(home[p], p, "torn") /\ UNCHANGED stage
    /\ Leave(p, "closed")
    /\ UNCHANGED <<setting, resolved, record, cut, origins, owned, marker>>

Capture(p) ==
    \/ \E batch \in Batches : \E acts \in [batch -> Acts] : StartCapture(p, acts)
    \/ CheckPlan(p) \/ Announce(p) \/ StageOne(p) \/ Place(p) \/ Own(p) \/ Record(p)

CaptureRecovery(p) ==
    \/ AcquireCapture(p) \/ RecoverCapture(p)
    \/ Complete(p) \/ Clear(p) \/ UndoInstall(p) \/ Disown(p) \/ Retire(p)
===============================================================================
