----------------------------- MODULE PacketStore -----------------------------
(***************************************************************************)
(* Proposal packets: the files under .memzoi/proposals of each worktree,   *)
(* and their explicit resolution.  An applied packet changes the canonical *)
(* records and moves to resolved/applied, a rejected one moves to          *)
(* resolved/rejected (service/proposal_packets).  How packets come to be   *)
(* pending is the business of the modules that extend this one.            *)
(*                                                                         *)
(* A packet <<i, c>> is the c-th packet made of candidate i: identities    *)
(* are a slug of the title with the first free suffix.  The canonical      *)
(* record of a candidate is named by its title alone.                      *)
(***************************************************************************)
EXTENDS Integers, Sequences, FiniteSets

CONSTANTS
    Trees,      \* linked worktrees of one repository
    Procs,      \* processes
    NoProc,     \* the lifecycle lock is free
    Items,      \* the candidates of the batch, in order: 1..n
    Target,     \* a canonical record that is there from the start
    Changes,    \* what a packet written by hand does
    Cases,      \* what is explored: a way packets come to be, the worktree
                \* each process works in, how many mishaps there may be
    MaxCopies,  \* bound: packets made of one candidate in a worktree
    TornWrites  \* a crash may leave the file being created incomplete

ASSUME CasesAssumption ==
    /\ Cases \subseteq [route : {"manual", "import", "session_end", "capture"},
                       home : [Procs -> Trees], mishaps : Nat]
    /\ NoProc \notin Procs
ASSUME ItemsAssumption == Items # {} /\ IsFiniteSet(Items) /\ Items = 1..Cardinality(Items)
ASSUME TargetAssumption == Target \notin Items
ASSUME ChangesAssumption == Changes \in [Items -> {"create", "supersede", "tombstone"}]
ASSUME BoundsAssumption == MaxCopies \in Nat \ {0} /\ TornWrites \in BOOLEAN

VARIABLES
    route,     \* how the packets of this behaviour come to be
    home,      \* the worktree each process works in
    pending,   \* files under proposals/pending, by worktree and packet
    resolved,  \* packets under proposals/resolved
    record,    \* canonical records
    lock,      \* holder of the repository lifecycle lock
    at, job,   \* each process's control and local variables
    cut,       \* history: resolutions that a crash interrupted
    mishaps    \* bound: crashes, errors, timeouts and edits that may still come

setting == <<route, home>>
files  == <<pending, resolved, record>>
procs  == <<lock, at, job>>

Copies  == 1..MaxCopies
Packets == Items \X Copies
Records == Items \cup {Target}
Readable == {"whole", "edited"}
(* "amended": active, from a packet that was edited before it was applied. *)
Statuses == {"none", "active", "amended", "superseded", "tombstoned"}

NoJob == [k |-> 0]
Resolutions ==
    [pk : Packets, outcome : {"applied", "rejected"}, seen : Readable,
     prior : [Records -> Statuses], k : Nat]

TypeStore ==
    /\ pending \in [Trees -> [Packets -> {"none", "torn"} \cup Readable]]
    /\ resolved \in [Trees -> [Packets -> {"none", "applied", "rejected"}]]
    /\ record \in [Trees -> [Records -> Statuses]]
    /\ lock \in Procs \cup {NoProc}
    /\ cut \subseteq Trees \X Packets
    /\ mishaps \in Nat

(* Packets written by hand are there from the start, in every worktree. *)
InitStore ==
    /\ \E case \in Cases : route = case.route /\ home = case.home /\ mishaps = case.mishaps
    /\ pending = [t \in Trees |-> [pk \in Packets |->
                    IF route = "manual" /\ pk[2] = 1 THEN "whole" ELSE "none"]]
    /\ resolved = [t \in Trees |-> [pk \in Packets |-> "none"]]
    /\ record = [t \in Trees |-> [r \in Records |-> IF r = Target THEN "active" ELSE "none"]]
    /\ lock = NoProc
    /\ at = [p \in Procs |-> "closed"]
    /\ job = [p \in Procs |-> NoJob]
    /\ cut = {}

-------------------------------------------------------------------------------
(* The inventory: an unreadable packet, or an identity that is pending and *)
(* resolved at once, stops every operation on packets in its worktree.     *)
IsKnown(t, pk) == pending[t][pk] # "none" \/ resolved[t][pk] # "none"

InventoryIsClean(t) ==
    \A pk \in Packets :
        /\ pending[t][pk] # "torn"
        /\ pending[t][pk] = "none" \/ resolved[t][pk] = "none"

(* The identity a new packet of a candidate gets. *)
FreeCopies(t, i) == {c \in Copies : ~IsKnown(t, <<i, c>>)}
IsFreshCopy(t, i, c) == c \in FreeCopies(t, i) /\ \A d \in FreeCopies(t, i) : c <= d

Mishap == mishaps > 0 /\ mishaps' = mishaps - 1

Goto(p, label) == at' = [at EXCEPT ![p] = label]
Step(p, k, label) == job' = [job EXCEPT ![p].k = k] /\ Goto(p, label) /\ UNCHANGED lock
Enter(p, j, label) ==
    /\ lock = NoProc /\ lock' = p
    /\ job' = [job EXCEPT ![p] = j]
    /\ Goto(p, label)
Leave(p, label) ==
    /\ lock' = IF lock = p THEN NoProc ELSE lock
    /\ job' = [job EXCEPT ![p] = NoJob]
    /\ Goto(p, label)

-------------------------------------------------------------------------------
(* Resolution.  The writes of a packet, in the order they are installed: a *)
(* record that is overwritten is first moved to its backup.                *)
ChangeOf(i) == IF route = "manual" THEN Changes[i] ELSE "create"

Writes(i) ==
    CASE ChangeOf(i) = "create"    -> <<<<i, "active">>>>
      [] ChangeOf(i) = "supersede" ->
            <<<<Target, "none">>, <<Target, "superseded">>, <<i, "active">>>>
      [] ChangeOf(i) = "tombstone" -> <<<<Target, "none">>, <<Target, "tombstoned">>>>

(* Faulty variant: a target that is no longer current is changed again. *)
TargetExists(t) == record[t][Target] # "none"
TargetIsCurrent(t) == record[t][Target] = "active"

IsApplicable(t, i) ==
    /\ ChangeOf(i) # "tombstone" => record[t][i] = "none"
    /\ ChangeOf(i) # "create" => TargetIsCurrent(t)

(* apply_file_proposal and reject_file_proposal: lock, snapshot, validation. *)
Resolve(p, pk, outcome) ==
    LET t == home[p]
    IN /\ at[p] = "open"
       /\ InventoryIsClean(t) /\ pending[t][pk] \in Readable
       /\ outcome = "applied" => IsApplicable(t, pk[1])
       /\ Enter(p, [pk |-> pk, outcome |-> outcome, seen |-> pending[t][pk],
                    prior |-> record[t], k |-> 1], "move")
       /\ UNCHANGED <<setting, files, cut, mishaps>>

(* The pending file is copied to a backup and removed if it is still what  *)
(* was validated.                                                          *)
MovePending(p) ==
    LET t == home[p]  pk == job[p].pk
    IN /\ at[p] = "move"
       /\ IF pending[t][pk] = job[p].seen
          THEN /\ pending' = [pending EXCEPT ![t][pk] = "none"]
               /\ Step(p, 1, IF job[p].outcome = "applied" THEN "write" ELSE "install")
          ELSE Leave(p, "open") /\ UNCHANGED pending
       /\ UNCHANGED <<setting, resolved, record, cut, mishaps>>

WriteRecord(p) ==
    LET writes == Writes(job[p].pk[1])  k == job[p].k
        amends == writes[k][2] = "active" /\ job[p].seen = "edited"
    IN /\ at[p] = "write"
       /\ record' = [record EXCEPT ![home[p]][writes[k][1]] =
                        IF amends THEN "amended" ELSE writes[k][2]]
       /\ Step(p, k + 1, IF k < Len(writes) THEN "write" ELSE "install")
       /\ UNCHANGED <<setting, pending, resolved, cut, mishaps>>

InstallResolved(p) ==
    /\ at[p] = "install"
    /\ resolved' = [resolved EXCEPT ![home[p]][job[p].pk] = job[p].outcome]
    /\ Step(p, 1, "finish")
    /\ UNCHANGED <<setting, pending, record, cut, mishaps>>

(* COMMIT of the index rows of an applied packet, removal of the backup. *)
Finish(p) ==
    /\ at[p] = "finish"
    /\ Leave(p, "open")
    /\ UNCHANGED <<setting, files, cut, mishaps>>

(* Faulty variants: the rollback keeps the resolved packet; it brings the  *)
(* packet back as what it was resolved to.                                 *)
UndoRecords(p) ==
    /\ record' = [record EXCEPT ![home[p]] = job[p].prior]
    /\ pending' = [pending EXCEPT ![home[p]][job[p].pk] = job[p].seen]
    /\ UNCHANGED resolved
UndoAsResolved(p) ==
    /\ record' = [record EXCEPT ![home[p]] = job[p].prior]
    /\ pending' = [pending EXCEPT ![home[p]][job[p].pk] = job[p].outcome]
    /\ resolved' = [resolved EXCEPT ![home[p]][job[p].pk] = "none"]

(* rollback_file_resolution: resolved packet, records, pending packet.     *)
Undo(p) ==
    /\ record' = [record EXCEPT ![home[p]] = job[p].prior]
    /\ pending' = [pending EXCEPT ![home[p]][job[p].pk] = job[p].seen]
    /\ resolved' = [resolved EXCEPT ![home[p]][job[p].pk] = "none"]

(* An I/O error, or a failed COMMIT, that the command reports. *)
FailResolution(p) ==
    /\ at[p] \in {"move", "write", "install", "finish"}
    /\ Mishap
    /\ IF at[p] = "move" THEN UNCHANGED files ELSE Undo(p)
    /\ Leave(p, "open")
    /\ UNCHANGED <<setting, cut>>

(* Nothing resumes a resolution that a crash interrupts: the command makes *)
(* no claim of crash-atomicity.                                            *)
CrashInResolution(p) ==
    /\ at[p] \in {"move", "write", "install", "finish"}
    /\ Mishap
    /\ cut' = IF at[p] \in {"write", "install"} THEN cut \cup {<<home[p], job[p].pk>>} ELSE cut
    /\ Leave(p, "closed")
    /\ UNCHANGED <<setting, files>>

(* Somebody edits a pending packet, which stays readable. *)
Edit(t, pk) ==
    /\ Mishap
    /\ pending[t][pk] = "whole"
    /\ pending' = [pending EXCEPT ![t][pk] = "edited"]
    /\ UNCHANGED <<setting, resolved, record, procs, cut>>

Resolution(p) ==
    \/ \E pk \in Packets, outcome \in {"applied", "rejected"} : Resolve(p, pk, outcome)
    \/ MovePending(p) \/ WriteRecord(p) \/ InstallResolved(p) \/ Finish(p)
===============================================================================
