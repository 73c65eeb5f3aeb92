----------------------------- MODULE PosixStore -----------------------------
(***************************************************************************)
(* The durable store of the execution control plane                        *)
(* (packages/clodex-control-plane-node/src/posix-control-plane-store.ts):  *)
(* one snapshot file for all records, replaced as a whole.  The ledger     *)
(* store (packages/clodex-ledger-node/src/posix-ledger-store.ts) is the    *)
(* same protocol line for line, without the pre-commit fence.              *)
(*                                                                         *)
(* A call (read or compareAndSwap) runs in a store instance, that is in a  *)
(* process; the calls of one instance interleave at every await, those of  *)
(* different instances at every system call.  Every filesystem step may    *)
(* fail, an instance may die at any point, and the machine may lose power. *)
(* A record is its revision and the call that wrote it: that is all the    *)
(* store itself tells apart (validity of records is ControlPlane's).       *)
(***************************************************************************)
EXTENDS PosixDirectory, Naturals, FiniteSets

CONSTANTS Calls,       \* calls, each made once
          Instances,   \* store instances (processes)
          InstanceOf,  \* the instance a call is made on
          Txns,        \* transaction identifiers
          Identities,  \* the identity keys of each transaction's record
          MaxRecords,  \* POSIX_CONTROL_PLANE_MAX_RECORDS
          MaxRevision, \* bound: revisions of a record
          None

ASSUME StoreAssumption ==
  /\ InstanceOf \in [Calls -> Instances]
  /\ MaxRevision \in Nat \ {0}
  /\ None \notin Calls
  /\ NoFile \notin Contents /\ Torn \notin Contents /\ NoFile # Torn

Record == [revision : 1 .. MaxRevision, by : Calls]
Absent == [revision |-> 0, by |-> None]
Snapshots == [Txns -> Record \cup {Absent}]
EmptySnapshot == [t \in Txns |-> Absent]

(* A complete file holds a snapshot. *)
ASSUME ContentsAssumption == Contents = Snapshots

VARIABLES pc,        \* where each call stands
          request,   \* the mutation (or read) of a call
          next,      \* the snapshot a mutation is writing
          outcome,   \* what a call returned or threw
          view,      \* the snapshot a read returned
          blocked,   \* #postCommitCleanupFailure of each instance
          applied,   \* history: the greatest revision reported APPLIED
          floor      \* history: applied when the call began

callVars == <<pc, request, next, outcome, view, blocked>>
history == <<applied, floor>>
storeVars == <<dirVars, callVars, history>>

Writing == {"open", "fsync", "rename", "sync", "resync"}
Holding == Writing \cup {"check", "release"}
InFlight == Holding \cup {"ensure", "load", "acquire", "releaseSync"}

(* what operation() threw; the rest are the results it returned *)
Errors == {"filesystem-failure", "orphan-temporary-file", "fence-refused",
           "store-invalid", "store-limit-exceeded", "lock-unavailable",
           "mutation-blocked"}
Results == {"APPLIED", "REVISION_CONFLICT", "IDENTITY_CONFLICT", "READ"}

ASSUME NoneAssumption == None \notin Errors \cup Results

Requests == [kind : {"read"}]  \* read() and scan(): the snapshot is loaded whole
            \cup [kind : {"cas"}, txn : Txns, expected : 0 .. MaxRevision - 1]

StoreInit ==
  /\ DirInit(EmptySnapshot)
  /\ pc = [c \in Calls |-> "new"]
  /\ request = [c \in Calls |-> None]
  /\ next = [c \in Calls |-> EmptySnapshot]
  /\ outcome = [c \in Calls |-> None]
  /\ view = [c \in Calls |-> EmptySnapshot]
  /\ blocked = [i \in Instances |-> FALSE]
  /\ applied = [t \in Txns |-> 0]
  /\ floor = [c \in Calls |-> applied]

GoTo(c, from, to) ==
  /\ pc[c] = from
  /\ pc' = [pc EXCEPT ![c] = to]

(* The call leaves with result o; a failure that may leave an entry behind is dirt. *)
Return(c, from, o) ==
  /\ GoTo(c, from, "done")
  /\ outcome' = [outcome EXCEPT ![c] = o]

(* operation() ended with o: its lock is released next. *)
EndOperation(c, from, o) ==
  /\ GoTo(c, from, "release")
  /\ outcome' = [outcome EXCEPT ![c] = o]

---------------------------------------------------------------------------
(* read() and compareAndSwap() *)

Begin(c, q) ==
  /\ pc[c] = "new"
  /\ request' = [request EXCEPT ![c] = q]
  /\ floor' = [floor EXCEPT ![c] = applied]
  /\ IF q.kind = "cas" /\ blocked[InstanceOf[c]]
     THEN Return(c, "new", "mutation-blocked")
     ELSE GoTo(c, "new", "ensure") /\ UNCHANGED outcome
  /\ UNCHANGED <<dirVars, next, view, blocked, applied>>

(* The base directory is synchronised before every read and every mutation. *)
EnsureBaseDirectory(c) ==
  /\ GoTo(c, "ensure", IF request[c].kind = "read" THEN "load" ELSE "acquire")
  /\ SyncDirectory
  /\ UNCHANGED <<request, next, outcome, view, blocked, history>>

EnsureFails(c) ==
  /\ Return(c, "ensure", "filesystem-failure")
  /\ UNCHANGED <<dirVars, request, next, view, blocked, history>>

(* A read takes no lock: it may see a snapshot whose rename is not yet stable. *)
LoadForRead(c) ==
  /\ IF files.snapshot = Torn
     THEN Return(c, "load", "store-invalid") /\ UNCHANGED view
     ELSE /\ Return(c, "load", "READ")
          /\ view' = [view EXCEPT ![c] = files.snapshot]
  /\ UNCHANGED <<dirVars, request, next, blocked, history>>

LoadFails(c) ==
  /\ Return(c, "load", "filesystem-failure")
  /\ UNCHANGED <<dirVars, request, next, view, blocked, history>>

---------------------------------------------------------------------------
(* The mutation lock *)

AcquireLock(c) ==
  /\ ~lock
  /\ GoTo(c, "acquire", "check")
  /\ SetLock(TRUE)
  /\ UNCHANGED <<request, next, outcome, view, blocked, history>>

(* mkdir succeeded and a check after it threw: nobody removes the lock. *)
AcquireFailsAfterMkdir(c) ==
  /\ ~lock
  /\ Return(c, "acquire", "filesystem-failure")
  /\ SetLock(TRUE)
  /\ UNCHANGED <<request, next, view, blocked, applied, floor>>

\* Mutant: a lock that outlives the deadline is taken for stale and taken over.
LockUnavailable_Breaks(c) ==
  /\ lock
  /\ GoTo(c, "acquire", "check")
  /\ UNCHANGED <<dirVars, request, next, outcome, view, blocked, history>>

(* The deadline passes while the lock is present; it is never broken. *)
LockUnavailable(c) ==
  /\ lock
  /\ Return(c, "acquire", "lock-unavailable")
  /\ UNCHANGED <<dirVars, request, next, view, blocked, history>>

---------------------------------------------------------------------------
(* The operation under the lock *)

NumberOf(s) == Cardinality({t \in Txns : s[t] # Absent})

IdentityOwned(s, t) ==
  \E u \in Txns \ {t} : s[u] # Absent /\ Identities[u] \cap Identities[t] # {}

WithRecord(s, c) ==
  [s EXCEPT ![request[c].txn] = [revision |-> request[c].expected + 1, by |-> c]]

Check(c) ==
  LET s == files.snapshot
      q == request[c]
  IN
  /\ pc[c] = "check"
  /\ \/ s = Torn /\ EndOperation(c, "check", "store-invalid") /\ UNCHANGED next
     \/ /\ s # Torn
        /\ s[q.txn].revision # q.expected
        /\ EndOperation(c, "check", "REVISION_CONFLICT")
        /\ UNCHANGED next
     \/ /\ s # Torn
        /\ s[q.txn].revision = q.expected
        /\ IdentityOwned(s, q.txn)
        /\ EndOperation(c, "check", "IDENTITY_CONFLICT")
        /\ UNCHANGED next
     \/ /\ s # Torn
        /\ s[q.txn].revision = q.expected
        /\ ~IdentityOwned(s, q.txn)
        /\ \/ EndOperation(c, "check", "fence-refused") /\ UNCHANGED next
           \/ /\ NumberOf(WithRecord(s, c)) > MaxRecords
              /\ EndOperation(c, "check", "store-limit-exceeded")
              /\ UNCHANGED next
           \/ /\ NumberOf(WithRecord(s, c)) <= MaxRecords
              /\ GoTo(c, "check", "open")
              /\ next' = [next EXCEPT ![c] = WithRecord(s, c)]
              /\ UNCHANGED outcome
  /\ UNCHANGED <<dirVars, request, view, blocked, history>>

(* A fault before the staging file exists, or an injected one. *)
OperationFails(c) ==
  /\ \E from \in {"check", "open"} : EndOperation(c, from, "filesystem-failure")
  /\ UNCHANGED <<dirVars, request, next, view, blocked, history>>

\* Mutant: an orphaned staging file is promoted.
OrphanStaging_Promotes(c) ==
  /\ files.staging # NoFile
  /\ EndOperation(c, "open", "orphan-temporary-file")
  /\ RenameStaging
  /\ UNCHANGED <<request, next, view, blocked, history>>

OrphanStaging(c) ==
  /\ files.staging # NoFile
  /\ EndOperation(c, "open", "orphan-temporary-file")
  /\ UNCHANGED <<dirVars, request, next, view, blocked, history>>

\* Mutant: the old snapshot is unlinked before the new one is put in its place.
OpenStaging_Unlinks(c) ==
  /\ files.staging = NoFile
  /\ GoTo(c, "open", "fsync")
  /\ SetFiles([snapshot |-> EmptySnapshot, staging |-> next[c]])
  /\ dirty' = dirty \cup {next[c]}
  /\ UNCHANGED <<lock, mayLock, request, next, outcome, view, blocked, history>>

OpenStaging(c) ==
  /\ files.staging = NoFile
  /\ GoTo(c, "open", "fsync")
  /\ CreateStaging(next[c])
  /\ UNCHANGED <<request, next, outcome, view, blocked, history>>

FsyncStaging(c) ==
  /\ GoTo(c, "fsync", "rename")
  /\ SyncStaging
  /\ UNCHANGED <<request, next, outcome, view, blocked, history>>

(* Write, fsync, close or rename threw: the staging file stays behind. *)
StagingFails(c) ==
  /\ \E from \in {"fsync", "rename"} : EndOperation(c, from, "filesystem-failure")
  /\ UNCHANGED <<dirVars, request, next, view, blocked, applied, floor>>

Rename(c) ==
  /\ GoTo(c, "rename", "sync")
  /\ RenameStaging
  /\ UNCHANGED <<request, next, outcome, view, blocked, history>>

SyncAfterRename(c) ==
  /\ EndOperation(c, "sync", "APPLIED")
  /\ SyncDirectory
  /\ UNCHANGED <<request, next, view, blocked, history>>

(* A fault after the rename, before or after the directory was synchronised. *)
SyncFails(c) ==
  /\ GoTo(c, "sync", "resync")
  /\ SyncDirectory \/ UNCHANGED dirVars
  /\ UNCHANGED <<request, next, outcome, view, blocked, history>>

\* Mutant: a snapshot that is there when read back counts as a conflict.
Reconcile_Conflicts(c) ==
  /\ SyncDirectory
  /\ EndOperation(c, "resync", "REVISION_CONFLICT")
  /\ UNCHANGED <<request, next, view, blocked, history>>

(* The second attempt succeeds only when the snapshot read back is the one written. *)
Reconcile(c) ==
  /\ SyncDirectory
  /\ EndOperation(c, "resync", IF files.snapshot = next[c] THEN "APPLIED"
                               ELSE "filesystem-failure")
  /\ UNCHANGED <<request, next, view, blocked, history>>

ReconcileFails(c) ==
  /\ EndOperation(c, "resync", "filesystem-failure")
  /\ SyncDirectory \/ UNCHANGED dirVars
  /\ UNCHANGED <<request, next, view, blocked, history>>

---------------------------------------------------------------------------
(* Release: rmdir, then the directory is synchronised *)

RemoveLock(c) ==
  /\ GoTo(c, "release", "releaseSync")
  /\ SetLock(FALSE)
  /\ UNCHANGED <<request, next, outcome, view, blocked, history>>

(* The call returns its outcome; APPLIED is reported to the caller. *)
Report(c) ==
  /\ pc' = [pc EXCEPT ![c] = "done"]
  /\ applied' = IF outcome[c] = "APPLIED" /\ applied[request[c].txn] <= request[c].expected
                THEN [applied EXCEPT ![request[c].txn] = request[c].expected + 1]
                ELSE applied
  /\ UNCHANGED <<request, next, outcome, view, floor>>

Released(c) ==
  /\ pc[c] = "releaseSync"
  /\ SyncDirectory
  /\ Report(c)
  /\ UNCHANGED blocked

(* A failed release blocks the instance if operation() returned, and is *)
(* swallowed if it threw.  The lock may still be there.                 *)
ReleaseFails(c) ==
  /\ pc[c] \in {"release", "releaseSync"}
  /\ Report(c)
  /\ blocked' = [blocked EXCEPT ![InstanceOf[c]] = @ \/ outcome[c] \in Results]
  /\ UNCHANGED dirVars

---------------------------------------------------------------------------
(* Deaths, and the operator *)

Die(dying) ==
  /\ pc' = [c \in Calls |-> IF c \in dying /\ pc[c] \in InFlight THEN "dead" ELSE pc[c]]
  /\ UNCHANGED <<request, next, outcome, view, applied, floor>>

(* A process dies; the instance that replaces it starts unblocked. *)
Crash(i) ==
  /\ \E c \in Calls : InstanceOf[c] = i /\ pc[c] \in InFlight
  /\ Die({c \in Calls : InstanceOf[c] = i})
  /\ blocked' = [blocked EXCEPT ![i] = FALSE]
  /\ UNCHANGED dirVars

PowerLoss ==
  /\ Die(Calls)
  /\ blocked' = [i \in Instances |-> FALSE]
  /\ DiskAfterPowerLoss

(* "mutations fail closed until an operator investigates": the operator removes *)
(* what no running call owns.                                                   *)
Investigate ==
  /\ lock \/ files.staging # NoFile
  /\ \A c \in Calls : pc[c] \notin Holding
  /\ DiskCleanedByHand
  /\ UNCHANGED <<callVars, history>>

---------------------------------------------------------------------------
CallStep(c) ==
  \/ EnsureBaseDirectory(c) \/ EnsureFails(c)
  \/ LoadForRead(c) \/ LoadFails(c)
  \/ AcquireLock(c) \/ AcquireFailsAfterMkdir(c) \/ LockUnavailable(c)
  \/ Check(c) \/ OperationFails(c)
  \/ OrphanStaging(c) \/ OpenStaging(c) \/ FsyncStaging(c) \/ StagingFails(c)
  \/ Rename(c) \/ SyncAfterRename(c) \/ SyncFails(c)
  \/ Reconcile(c) \/ ReconcileFails(c)
  \/ RemoveLock(c) \/ Released(c) \/ ReleaseFails(c)

StoreNext ==
  \/ \E c \in Calls : CallStep(c) \/ \E q \in Requests : Begin(c, q)
  \/ \E i \in Instances : Crash(i)
  \/ PowerLoss
  \/ Investigate

StoreSpec == StoreInit /\ [][StoreNext]_storeVars

---------------------------------------------------------------------------
(* Types of the directory, the calls and the history. *)
StoreTypeOK ==
  /\ DirTypeOK
  /\ pc \in [Calls -> {"new", "done", "dead"} \cup InFlight]
  /\ request \in [Calls -> Requests \cup {None}]
  /\ next \in [Calls -> Snapshots]
  /\ outcome \in [Calls -> Errors \cup Results \cup {None}]
  /\ view \in [Calls -> Snapshots]
  /\ blocked \in [Instances -> BOOLEAN]
  /\ applied \in [Txns -> 0 .. MaxRevision]
  /\ floor \in [Calls -> [Txns -> 0 .. MaxRevision]]

(***************************************************************************)
(* The inductive invariant: who may hold the lock, what the disk may show, *)
(* and what each call knows of both at each of its steps.                  *)
(***************************************************************************)
LockHeldOnce ==
  \A c \in Calls : pc[c] \in Holding =>
    lock /\ \A d \in Calls : pc[d] \in Holding => d = c

(* No power loss can show a torn snapshot: only the staging file is dirty. *)
SnapshotsAreWhole ==
  /\ dirty \subseteq {files.staging}
  /\ \A f \in mayFiles : f.snapshot \in Snapshots /\ f.snapshot \notin dirty

(* What the disk may show lies between what was reported and what is visible. *)
NothingReportedIsLost ==
  \A f \in mayFiles, t \in Txns :
    /\ applied[t] <= f.snapshot[t].revision
    /\ f.snapshot[t].revision <= files.snapshot[t].revision

NotWritten(c) == \A f \in mayFiles, t \in Txns : f.snapshot[t].by # c

Unanswered == {"new", "ensure", "load", "acquire", "check"} \cup Writing
BeforeRename == Unanswered \ {"sync", "resync"}
Refusals == (Errors \cup Results) \ {"APPLIED", "filesystem-failure"}

Wrote(c, f) == f.snapshot[request[c].txn].revision >= request[c].expected + 1

CallKnows(c) ==
  /\ pc[c] # "new" => request[c] \in Requests
  /\ pc[c] \in Holding \cup {"acquire", "releaseSync"} => request[c].kind = "cas"
  /\ pc[c] \in Unanswered => outcome[c] = None
  /\ pc[c] \in BeforeRename \/ outcome[c] \in Refusals => NotWritten(c)
  /\ pc[c] \in {"open", "fsync", "rename"} =>
        /\ next[c] = WithRecord(files.snapshot, c)
        /\ files.snapshot[request[c].txn].revision = request[c].expected
  /\ pc[c] \in {"fsync", "rename"} => files.staging = next[c]
  /\ pc[c] = "rename" => dirty = {}
  /\ pc[c] \in {"sync", "resync"} => files.snapshot = next[c] /\ Wrote(c, files)
  /\ pc[c] \in {"release", "releaseSync"} /\ outcome[c] = "APPLIED" =>
        \A f \in mayFiles : Wrote(c, f)
  /\ \A t \in Txns : floor[c][t] <= applied[t]
  /\ outcome[c] = "READ" => \A t \in Txns : floor[c][t] <= view[c][t].revision

StoreInv ==
  /\ StoreTypeOK /\ LockHeldOnce /\ SnapshotsAreWhole /\ NothingReportedIsLost
  /\ \A c \in Calls : CallKnows(c)

(* A caller that was refused (conflict, lock, orphan, fence, limit, blocked) *)
(* may retry: its record is nowhere and will not appear after a power loss.  *)
(* Only a filesystem failure leaves the mutation undecided.                  *)
RefusedIsNotWritten ==
  \A c \in Calls :
    outcome[c] \in (Errors \cup Results) \ {"APPLIED", "filesystem-failure"}
      => \A f \in mayFiles, t \in Txns :
           f.snapshot # Torn => f.snapshot[t].by # c

(* A read takes no lock and still misses nothing that was reported APPLIED   *)
(* before it began, power losses in between included.                        *)
ReadsSeeApplied ==
  \A c \in Calls : outcome[c] = "READ" =>
    \A t \in Txns : floor[c][t] <= view[c][t].revision

(* "A surviving lock [...] is never broken": while the lock is there and     *)
(* nobody holds it, nobody enters and no record advances.                    *)
SurvivingLockBlocks ==
  [][(lock /\ \A c \in Calls : pc[c] \notin Holding) =>
       /\ \A c \in Calls : pc'[c] \notin Holding
       /\ \A t \in Txns : files'.snapshot[t].revision <= files.snapshot[t].revision]_storeVars

RevisionOf(s) == [t \in Txns |-> IF s = Torn THEN 0 ELSE s[t].revision]

Cas == INSTANCE DurableCas
         WITH Keys <- Txns, revision <- RevisionOf(files.snapshot), reported <- applied

(* The store is the durable compare-and-swap store ControlPlane assumes:     *)
(* each visible change is one successor of one record, success is reported   *)
(* only for what is there, and power losses undo only what was not reported. *)
ImplementsDurableCas == Cas!CasSpec

=============================================================================
