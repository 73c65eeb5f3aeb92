-------------------------- MODULE PosixStoreProofs --------------------------
(***************************************************************************)
(* Proofs about PosixStore, for any number of calls, store instances and   *)
(* transactions.                                                           *)
(***************************************************************************)
EXTENDS PosixStore, TLAPS

---------------------------------------------------------------------------
\* Snapshots and requests.

\* The mutation of a compareAndSwap request names a transaction and a revision.
LEMMA CasRequest ==
  ASSUME NEW q \in Requests, q.kind = "cas"
  PROVE  q.txn \in Txns /\ q.expected \in 0 .. MaxRevision - 1 /\ q.expected + 1 \in 1 .. MaxRevision
<1>1. q \in [kind : {"cas"}, txn : Txns, expected : 0 .. MaxRevision - 1]
  BY DEF Requests
<1>2. q.txn \in Txns /\ q.expected \in 0 .. MaxRevision - 1
  BY <1>1
<1> QED
  BY <1>2, StoreAssumption

\* Revisions of a snapshot are numbers.
LEMMA SnapshotType ==
  ASSUME NEW s \in Snapshots, NEW t \in Txns
  PROVE  s[t].revision \in 0 .. MaxRevision /\ s[t].revision \in Nat /\ MaxRevision \in Nat
<1>1. s[t] \in Record \cup {Absent}
  BY DEF Snapshots
<1> QED
  BY <1>1, StoreAssumption DEF Record, Absent

\* The record of a call is its transaction's next revision; the others stay.
LEMMA WithRecordType ==
  ASSUME NEW s \in Snapshots, NEW c \in Calls, request[c] \in Requests, request[c].kind = "cas"
  PROVE  /\ WithRecord(s, c) \in Snapshots
         /\ WithRecord(s, c)[request[c].txn].revision = request[c].expected + 1
         /\ WithRecord(s, c)[request[c].txn].by = c
         /\ \A t \in Txns : t # request[c].txn => WithRecord(s, c)[t] = s[t]
<1> DEFINE x == request[c].txn
           r == [revision |-> request[c].expected + 1, by |-> c]
<1>1. x \in Txns /\ request[c].expected + 1 \in 1 .. MaxRevision
  BY CasRequest
<1>2. r \in Record
  BY <1>1 DEF Record
<1>3. WithRecord(s, c) = [s EXCEPT ![x] = r]
  BY DEF WithRecord
<1>4. r.revision = request[c].expected + 1 /\ r.by = c
  OBVIOUS
<1> HIDE DEF r, x
<1>5. WithRecord(s, c) \in Snapshots
  BY <1>1, <1>2, <1>3 DEF Snapshots
<1>6. WithRecord(s, c)[x] = r /\ \A t \in Txns : t # x => WithRecord(s, c)[t] = s[t]
  BY <1>1, <1>3 DEF Snapshots
<1> QED
  BY <1>4, <1>5, <1>6 DEF x

---------------------------------------------------------------------------
\* Calls that a step does not move.

CallSame(d) ==
  /\ pc'[d] = pc[d] /\ request'[d] = request[d] /\ next'[d] = next[d]
  /\ outcome'[d] = outcome[d] /\ view'[d] = view[d] /\ floor'[d] = floor[d]

\* Whatever the disk may show after the step is at least as recent as
\* something it could show before, and holds no new record of d.
Covers(d) ==
  \A f \in mayFiles' : \E g \in mayFiles : \A t \in Txns :
    /\ g.snapshot[t].revision <= f.snapshot[t].revision
    /\ f.snapshot[t].by = d => g.snapshot[t].by = d

AppliedGrows == \A t \in Txns : applied[t] <= applied'[t]

LEMMA OtherCall ==
  ASSUME StoreInv, StoreTypeOK', SnapshotsAreWhole', NEW d \in Calls, CallSame(d), AppliedGrows,
         Covers(d), pc[d] \in Holding => files' = files /\ dirty' = dirty
  PROVE  CallKnows(d)'
<1>1. CallKnows(d)
  BY DEF StoreInv
<1>2. NotWritten(d) => NotWritten(d)'
  BY DEF Covers, NotWritten
<1>3. pc[d] \in {"release", "releaseSync"} /\ (\A f \in mayFiles : Wrote(d, f))
        => \A f \in mayFiles' : Wrote(d, f)'
  <2> SUFFICES ASSUME pc[d] \in {"release", "releaseSync"}, \A f \in mayFiles : Wrote(d, f),
                      NEW f \in mayFiles'
               PROVE  Wrote(d, f)'
    OBVIOUS
  <2>1. request[d] \in Requests /\ request[d].kind = "cas" /\ request'[d] = request[d]
    BY <1>1 DEF CallKnows, CallSame, Holding
  <2> DEFINE x == request[d].txn
  <2>2. x \in Txns /\ request[d].expected + 1 \in Nat
    BY <2>1, CasRequest, StoreAssumption
  <2>3. PICK g \in mayFiles : g.snapshot[x].revision <= f.snapshot[x].revision
    BY <2>2 DEF Covers
  <2>4. g.snapshot[x].revision \in Nat /\ f.snapshot[x].revision \in Nat
    BY <2>2, SnapshotType DEF StoreInv, SnapshotsAreWhole
  <2>5. g.snapshot[x].revision >= request[d].expected + 1
    BY DEF Wrote
  <2>6. f.snapshot[x].revision >= request[d].expected + 1
    BY <2>2, <2>3, <2>4, <2>5
  <2> QED
    BY <2>1, <2>6 DEF Wrote
<1>4. \A t \in Txns : floor'[d][t] <= applied'[t]
  <2>1. \A t \in Txns : /\ floor[d][t] \in Nat /\ applied[t] \in Nat /\ applied'[t] \in Nat
                        /\ floor[d][t] <= applied[t] /\ applied[t] <= applied'[t]
    BY <1>1, StoreAssumption DEF StoreInv, StoreTypeOK, AppliedGrows, CallKnows
  <2> QED
    BY <2>1 DEF CallSame
<1>5. outcome'[d] = "READ" => \A t \in Txns : floor'[d][t] <= view'[d][t].revision
  BY <1>1 DEF CallKnows, CallSame
<1>6. /\ pc'[d] \in {"open", "fsync", "rename"} =>
            /\ next'[d] = WithRecord(files.snapshot, d)'
            /\ files'.snapshot[request'[d].txn].revision = request'[d].expected
      /\ pc'[d] \in {"fsync", "rename"} => files'.staging = next'[d]
      /\ pc'[d] = "rename" => dirty' = {}
      /\ pc'[d] \in {"sync", "resync"} => files'.snapshot = next'[d] /\ Wrote(d, files)'
  BY <1>1 DEF CallKnows, CallSame, Holding, Writing, WithRecord, Wrote
<1>7. /\ pc'[d] # "new" => request'[d] \in Requests
      /\ pc'[d] \in Holding \cup {"acquire", "releaseSync"} => request'[d].kind = "cas"
      /\ pc'[d] \in Unanswered => outcome'[d] = None
      /\ pc'[d] \in BeforeRename \/ outcome'[d] \in Refusals => NotWritten(d)'
  BY <1>1, <1>2 DEF CallKnows, CallSame
<1>8. pc'[d] \in {"release", "releaseSync"} /\ outcome'[d] = "APPLIED" =>
        \A f \in mayFiles' : Wrote(d, f)'
  BY <1>1, <1>3 DEF CallKnows, CallSame
<1> QED
  BY <1>4, <1>5, <1>6, <1>7, <1>8 DEF CallKnows

---------------------------------------------------------------------------
\* Steps that leave the visible files alone.

\* At most the directory is synchronised or the lock made or removed.
Steady == files' = files /\ dirty' = dirty /\ mayFiles' \subseteq mayFiles

LEMMA SteadyDirectory ==
  ASSUME StoreInv, Steady
  PROVE  /\ SnapshotsAreWhole'
         /\ applied' = applied => NothingReportedIsLost'
         /\ \A d : Covers(d)
<1>1. SnapshotsAreWhole'
  BY DEF StoreInv, SnapshotsAreWhole, Steady
<1>2. applied' = applied => NothingReportedIsLost'
  BY DEF StoreInv, NothingReportedIsLost, Steady
<1>3. ASSUME NEW d, NEW f \in mayFiles'
      PROVE  \E g \in mayFiles : \A t \in Txns :
               /\ g.snapshot[t].revision <= f.snapshot[t].revision
               /\ f.snapshot[t].by = d => g.snapshot[t].by = d
  <2>1. f \in mayFiles /\ f.snapshot \in Snapshots
    BY DEF Steady, StoreInv, SnapshotsAreWhole
  <2>2. \A t \in Txns : f.snapshot[t].revision \in Nat
    BY <2>1, SnapshotType
  <2>3. \A t \in Txns : f.snapshot[t].revision <= f.snapshot[t].revision
    BY <2>2
  <2> QED
    BY <2>1, <2>3
<1> QED
  BY <1>1, <1>2, <1>3 DEF Covers

\* Making and removing the lock, and synchronising, keep the directory's types.
LEMMA DirectorySteps ==
  ASSUME DirTypeOK, NEW p \in BOOLEAN
  PROVE  /\ UNCHANGED dirVars => DirTypeOK' /\ Steady /\ lock' = lock
         /\ SyncDirectory => DirTypeOK' /\ Steady /\ lock' = lock
         /\ SetLock(p) => DirTypeOK' /\ Steady /\ lock' = p
<1>1. UNCHANGED dirVars => DirTypeOK' /\ Steady /\ lock' = lock
  BY DEF dirVars, DirTypeOK, Steady
<1>2. SyncDirectory => DirTypeOK' /\ Steady /\ lock' = lock
  BY DEF SyncDirectory, DirTypeOK, Steady
<1>3. SetLock(p) => DirTypeOK' /\ Steady /\ lock' = p
  BY DEF SetLock, DirTypeOK, Steady
<1> QED
  BY <1>1, <1>2, <1>3

\* The invariant after a step of c, from its parts.
LEMMA StepOfCall ==
  ASSUME StoreInv, StoreTypeOK', LockHeldOnce', SnapshotsAreWhole', NothingReportedIsLost',
         NEW c \in Calls, CallKnows(c)', AppliedGrows,
         \A d \in Calls \ {c} :
           CallSame(d) /\ Covers(d) /\ (pc[d] \in Holding => files' = files /\ dirty' = dirty)
  PROVE  StoreInv'
<1>1. \A d \in Calls : CallKnows(d)'
  BY OtherCall
<1> QED
  BY <1>1 DEF StoreInv

\* The same for a step that is steady and reports nothing.
LEMMA SteadyStep ==
  ASSUME StoreInv, StoreTypeOK', Steady, applied' = applied, LockHeldOnce',
         NEW c \in Calls, CallKnows(c)', \A d \in Calls \ {c} : CallSame(d)
  PROVE  StoreInv'
<1>1. SnapshotsAreWhole' /\ NothingReportedIsLost' /\ \A d : Covers(d)
  BY SteadyDirectory
<1>2. AppliedGrows
  BY StoreAssumption DEF AppliedGrows, StoreInv, StoreTypeOK
<1>3. files' = files /\ dirty' = dirty
  BY DEF Steady
<1> QED
  BY <1>1, <1>2, <1>3, StepOfCall

\* Who holds the lock after a call moved without touching it.
LEMMA LockKept ==
  ASSUME StoreInv, NEW c \in Calls, lock' = lock,
         pc'[c] \in Holding => pc[c] \in Holding,
         \A d \in Calls \ {c} : pc'[d] = pc[d]
  PROVE  LockHeldOnce'
  BY DEF StoreInv, LockHeldOnce

\* A call that answers: refused before it wrote anything, read, applied and
\* synchronised, or failed.
LEMMA AnswerKnows ==
  ASSUME StoreInv, NEW c \in Calls, Steady, applied' = applied, pc[c] \in InFlight,
         pc'[c] \in {"done", "release"}, pc'[c] = "release" => pc[c] \in Holding,
         request'[c] = request[c], floor'[c] = floor[c],
         outcome'[c] = "filesystem-failure"
         \/ (outcome'[c] \in Refusals /\ pc[c] \in BeforeRename)
         \/ (outcome'[c] = "APPLIED" /\ \A f \in mayFiles' : Wrote(c, f)),
         outcome'[c] = "READ" => \A t \in Txns : floor[c][t] <= view'[c][t].revision
  PROVE  CallKnows(c)'
<1>1. CallKnows(c) /\ pc[c] # "new"
  BY DEF StoreInv, InFlight, Holding, Writing
<1>2. NotWritten(c) => NotWritten(c)'
  BY DEF NotWritten, Steady
<1>3. "filesystem-failure" \notin Refusals /\ "APPLIED" \notin Refusals
  BY DEF Refusals
<1>4. outcome'[c] \in Refusals => NotWritten(c)'
  BY <1>1, <1>2, <1>3 DEF CallKnows
<1>5. /\ pc'[c] \notin Unanswered /\ pc'[c] \notin BeforeRename /\ pc'[c] # "new"
      /\ pc'[c] \notin {"open", "fsync", "rename", "sync", "resync"}
  BY DEF Unanswered, BeforeRename, Writing
<1>6. pc'[c] \in Holding \cup {"acquire", "releaseSync"} => request'[c].kind = "cas"
  BY <1>1 DEF CallKnows, Holding, Writing
<1>7. outcome'[c] = "APPLIED" => \A f \in mayFiles' : Wrote(c, f)'
  BY <1>3 DEF Wrote, Refusals, Errors, Results
<1>8. \A t \in Txns : floor'[c][t] <= applied'[t]
  BY <1>1 DEF CallKnows
<1> QED
  BY <1>1, <1>4, <1>5, <1>6, <1>7, <1>8 DEF CallKnows

---------------------------------------------------------------------------
\* Every answer of a call keeps the invariant.
LEMMA AnswerStep ==
  ASSUME StoreInv, NEW c \in Calls, NEW p \in {"done", "release"}, NEW o \in Errors \cup Results,
         pc[c] \in InFlight, p = "release" => pc[c] \in Holding,
         pc' = [pc EXCEPT ![c] = p], outcome' = [outcome EXCEPT ![c] = o],
         UNCHANGED <<request, next, blocked, history>>,
         view' \in [Calls -> Snapshots], \A d \in Calls \ {c} : view'[d] = view[d],
         DirTypeOK', Steady, LockHeldOnce',
         o = "filesystem-failure"
         \/ (o \in Refusals /\ pc[c] \in BeforeRename)
         \/ (o = "APPLIED" /\ \A f \in mayFiles' : Wrote(c, f)),
         o = "READ" => \A t \in Txns : floor[c][t] <= view'[c][t].revision
  PROVE  StoreInv'
<1>1. StoreTypeOK
  BY DEF StoreInv
<1>2. StoreTypeOK'
  BY <1>1 DEF StoreTypeOK, history, InFlight, Holding
<1>3. pc'[c] = p /\ outcome'[c] = o
  BY <1>1 DEF StoreTypeOK
<1>4. CallKnows(c)'
  BY <1>3, AnswerKnows DEF history
<1>5. \A d \in Calls \ {c} : CallSame(d)
  BY <1>1 DEF StoreTypeOK, CallSame, history
<1> QED
  BY <1>2, <1>4, <1>5, SteadyStep DEF history

\* Where the lock is present or absent, who can hold it.
LEMMA LockFacts ==
  ASSUME StoreInv
  PROVE  /\ ~lock => \A c \in Calls : pc[c] \notin Holding
         /\ \A c \in Calls : pc[c] \in Holding => \A d \in Calls \ {c} : pc[d] \notin Holding
  BY DEF StoreInv, LockHeldOnce

\* The answers that leave the directory as it is.
LEMMA QuietAnswers ==
  ASSUME StoreInv, NEW c \in Calls, NEW p \in {"done", "release"}, NEW o \in Errors \cup Results,
         pc[c] \in InFlight, p = "release" => pc[c] \in Holding,
         GoTo(c, pc[c], p), outcome' = [outcome EXCEPT ![c] = o],
         UNCHANGED <<request, next, view, blocked, history>>,
         UNCHANGED dirVars \/ SyncDirectory,
         o = "filesystem-failure"
         \/ (o \in Refusals \ {"READ"} /\ pc[c] \in BeforeRename)
         \/ (o = "APPLIED" /\ \A f \in mayFiles' : Wrote(c, f))
  PROVE  StoreInv'
<1>1. StoreTypeOK /\ DirTypeOK
  BY DEF StoreInv, StoreTypeOK
<1>2. DirTypeOK' /\ Steady /\ lock' = lock
  BY <1>1, DirectorySteps
<1>3. pc' = [pc EXCEPT ![c] = p] /\ pc'[c] = p /\ \A d \in Calls \ {c} : pc'[d] = pc[d]
  BY <1>1 DEF GoTo, StoreTypeOK
<1>4. LockHeldOnce'
  BY <1>2, <1>3, LockKept DEF Holding, Writing
<1>5. view' \in [Calls -> Snapshots] /\ \A d \in Calls \ {c} : view'[d] = view[d]
  BY <1>1 DEF StoreTypeOK
<1>6. "READ" # "filesystem-failure" /\ "READ" # "APPLIED" /\ (o \in Refusals \ {"READ"} => o # "READ")
  OBVIOUS
<1>7. o = "filesystem-failure"
         \/ (o \in Refusals /\ pc[c] \in BeforeRename)
         \/ (o = "APPLIED" /\ \A f \in mayFiles' : Wrote(c, f))
  OBVIOUS
<1>8. o # "READ"
  BY <1>6
<1> QED
  BY <1>2, <1>3, <1>4, <1>5, <1>7, <1>8, AnswerStep

\* Failures and refusals that touch no file.
LEMMA PlainFailures ==
  ASSUME StoreInv, NEW c \in Calls,
         EnsureFails(c) \/ LoadFails(c) \/ LockUnavailable(c) \/ OperationFails(c)
         \/ OrphanStaging(c) \/ StagingFails(c) \/ ReconcileFails(c)
  PROVE  StoreInv'
<1> USE DEF Return, EndOperation, Errors, Results, InFlight, Holding, Writing, Refusals,
            BeforeRename, Unanswered
<1>1. CASE EnsureFails(c)
  BY <1>1, QuietAnswers DEF EnsureFails, GoTo
<1>2. CASE LoadFails(c)
  BY <1>2, QuietAnswers DEF LoadFails, GoTo
<1>3. CASE LockUnavailable(c)
  BY <1>3, QuietAnswers DEF LockUnavailable, GoTo
<1>4. CASE OperationFails(c)
  BY <1>4, QuietAnswers DEF OperationFails, GoTo
<1>5. CASE OrphanStaging(c)
  BY <1>5, QuietAnswers DEF OrphanStaging, GoTo
<1>6. CASE StagingFails(c)
  BY <1>6, QuietAnswers DEF StagingFails, GoTo, history
<1>7. CASE ReconcileFails(c)
  BY <1>7, QuietAnswers DEF ReconcileFails, GoTo
<1> QED
  BY <1>1, <1>2, <1>3, <1>4, <1>5, <1>6, <1>7

\* A read returns the visible snapshot, which no reported mutation is missing from.
LEMMA LoadForReadKeeps ==
  ASSUME StoreInv, NEW c \in Calls, LoadForRead(c)
  PROVE  StoreInv'
<1>1. /\ StoreTypeOK /\ DirTypeOK /\ CallKnows(c) /\ SnapshotsAreWhole /\ NothingReportedIsLost
      /\ files \in mayFiles
  BY DEF StoreInv, StoreTypeOK, DirTypeOK
<1>2. files.snapshot \in Snapshots /\ files.snapshot # Torn
  BY <1>1, StoreAssumption, ContentsAssumption DEF SnapshotsAreWhole
<1>3. /\ pc[c] = "load" /\ pc' = [pc EXCEPT ![c] = "done"]
      /\ outcome' = [outcome EXCEPT ![c] = "READ"]
      /\ view' = [view EXCEPT ![c] = files.snapshot]
      /\ UNCHANGED <<dirVars, request, next, blocked, history>>
  BY <1>2 DEF LoadForRead, Return, GoTo
<1>4. DirTypeOK' /\ Steady /\ lock' = lock
  BY <1>1, <1>3, DirectorySteps
<1>5. pc'[c] = "done" /\ \A d \in Calls \ {c} : pc'[d] = pc[d]
  BY <1>1, <1>3 DEF StoreTypeOK
<1>6. LockHeldOnce'
  BY <1>4, <1>5, LockKept DEF Holding, Writing
<1>7. /\ view' \in [Calls -> Snapshots] /\ view'[c] = files.snapshot
      /\ \A d \in Calls \ {c} : view'[d] = view[d]
  BY <1>1, <1>2, <1>3 DEF StoreTypeOK
<1>8. ASSUME NEW t \in Txns PROVE floor[c][t] <= files.snapshot[t].revision
  <2>1. floor[c][t] <= applied[t] /\ applied[t] <= files.snapshot[t].revision
    BY <1>1 DEF CallKnows, NothingReportedIsLost
  <2>2. floor[c][t] \in Nat /\ applied[t] \in Nat /\ files.snapshot[t].revision \in Nat
    BY <1>1, <1>2, SnapshotType, StoreAssumption DEF StoreTypeOK
  <2> QED
    BY <2>1, <2>2
<1>9. "READ" \in Refusals /\ "READ" \in Errors \cup Results /\ "load" \in BeforeRename
      /\ "load" \in InFlight
  BY DEF Refusals, Errors, Results, BeforeRename, Unanswered, InFlight
<1> QED
  BY <1>3, <1>4, <1>6, <1>7, <1>8, <1>9, AnswerStep

\* mkdir succeeded and the call throws: the lock stays with nobody holding it.
LEMMA AcquireFailsKeeps ==
  ASSUME StoreInv, NEW c \in Calls, AcquireFailsAfterMkdir(c)
  PROVE  StoreInv'
<1>1. StoreTypeOK /\ DirTypeOK
  BY DEF StoreInv, StoreTypeOK
<1>2. /\ ~lock /\ pc[c] = "acquire" /\ pc' = [pc EXCEPT ![c] = "done"]
      /\ outcome' = [outcome EXCEPT ![c] = "filesystem-failure"] /\ SetLock(TRUE)
      /\ UNCHANGED <<request, next, view, blocked, history>>
  BY DEF AcquireFailsAfterMkdir, Return, GoTo, history
<1>3. DirTypeOK' /\ Steady
  BY <1>1, <1>2, DirectorySteps
<1>4. \A d \in Calls : pc'[d] \notin Holding
  BY <1>1, <1>2, LockFacts DEF StoreTypeOK, Holding, Writing
<1>5. LockHeldOnce'
  BY <1>4 DEF LockHeldOnce
<1>6. view' \in [Calls -> Snapshots] /\ \A d \in Calls \ {c} : view'[d] = view[d]
  BY <1>1, <1>2 DEF StoreTypeOK
<1>7. "acquire" \in InFlight /\ "filesystem-failure" \in Errors \cup Results
  BY DEF InFlight, Errors
<1> QED
  BY <1>2, <1>3, <1>5, <1>6, <1>7, AnswerStep

\* The directory is synchronised after the rename: what was written is stable.
LEMMA SyncedKeeps ==
  ASSUME StoreInv, NEW c \in Calls, SyncAfterRename(c) \/ Reconcile(c)
  PROVE  StoreInv'
<1>1. CallKnows(c)
  BY DEF StoreInv
<1>2. /\ pc[c] \in {"sync", "resync"} /\ GoTo(c, pc[c], "release") /\ SyncDirectory
      /\ UNCHANGED <<request, next, view, blocked, history>>
      /\ \E o \in {"APPLIED", "filesystem-failure"} : outcome' = [outcome EXCEPT ![c] = o]
  BY DEF SyncAfterRename, Reconcile, EndOperation, GoTo
<1>3. PICK o \in {"APPLIED", "filesystem-failure"} : outcome' = [outcome EXCEPT ![c] = o]
  BY <1>2
<1>4. \A f \in mayFiles' : Wrote(c, f)
  BY <1>1, <1>2 DEF CallKnows, SyncDirectory
<1>5. pc[c] \in InFlight /\ pc[c] \in Holding /\ o \in Errors \cup Results
  BY <1>2 DEF InFlight, Holding, Writing, Errors, Results
<1> QED
  BY <1>2, <1>3, <1>4, <1>5, QuietAnswers

---------------------------------------------------------------------------
\* Steps of a call that answer nothing.

\* A call moves and its files stay as they are.
LEMMA MoveStep ==
  ASSUME StoreInv, NEW c \in Calls, NEW p \in InFlight,
         pc' = [pc EXCEPT ![c] = p], UNCHANGED <<request, outcome, view, blocked, history>>,
         next' \in [Calls -> Snapshots], \A d \in Calls \ {c} : next'[d] = next[d],
         DirTypeOK', Steady, LockHeldOnce', CallKnows(c)'
  PROVE  StoreInv'
<1>1. StoreTypeOK
  BY DEF StoreInv
<1>2. StoreTypeOK'
  BY <1>1 DEF StoreTypeOK, history
<1>3. \A d \in Calls \ {c} : CallSame(d)
  BY <1>1 DEF StoreTypeOK, CallSame, history
<1> QED
  BY <1>2, <1>3, SteadyStep DEF history

\* The lock directory is made where there was none.
LEMMA AcquireLockKeeps ==
  ASSUME StoreInv, NEW c \in Calls, AcquireLock(c)
  PROVE  StoreInv'
<1>1. StoreTypeOK /\ DirTypeOK /\ CallKnows(c)
  BY DEF StoreInv, StoreTypeOK
<1>2. /\ ~lock /\ pc[c] = "acquire" /\ pc' = [pc EXCEPT ![c] = "check"] /\ SetLock(TRUE)
      /\ UNCHANGED <<request, next, outcome, view, blocked, history>>
  BY DEF AcquireLock, GoTo
<1>3. DirTypeOK' /\ Steady /\ lock' = TRUE
  BY <1>1, <1>2, DirectorySteps
<1>4. pc'[c] = "check" /\ \A d \in Calls \ {c} : pc'[d] = pc[d]
  BY <1>1, <1>2 DEF StoreTypeOK
<1>5. LockHeldOnce'
  BY <1>2, <1>3, <1>4, LockFacts DEF LockHeldOnce
<1>6. NotWritten(c) => NotWritten(c)'
  BY <1>3 DEF NotWritten, Steady
<1>7. CallKnows(c)'
  BY <1>1, <1>2, <1>4, <1>6
  DEF CallKnows, history, Unanswered, BeforeRename, Writing
<1>8. next' \in [Calls -> Snapshots] /\ "check" \in InFlight
  BY <1>1, <1>2 DEF StoreTypeOK, InFlight, Holding
<1> QED
  BY <1>2, <1>3, <1>5, <1>7, <1>8, MoveStep

\* rmdir gives the lock up: nobody holds it afterwards.
LEMMA RemoveLockKeeps ==
  ASSUME StoreInv, NEW c \in Calls, RemoveLock(c)
  PROVE  StoreInv'
<1>1. StoreTypeOK /\ DirTypeOK /\ CallKnows(c)
  BY DEF StoreInv, StoreTypeOK
<1>2. /\ pc[c] = "release" /\ pc' = [pc EXCEPT ![c] = "releaseSync"] /\ SetLock(FALSE)
      /\ UNCHANGED <<request, next, outcome, view, blocked, history>>
  BY DEF RemoveLock, GoTo
<1>3. DirTypeOK' /\ Steady /\ lock' = FALSE
  BY <1>1, <1>2, DirectorySteps
<1>4. pc'[c] = "releaseSync" /\ \A d \in Calls \ {c} : pc'[d] = pc[d]
  BY <1>1, <1>2 DEF StoreTypeOK
<1>5. pc[c] \in Holding /\ pc'[c] \notin Holding
  BY <1>2, <1>4 DEF Holding, Writing
<1>6. LockHeldOnce'
  BY <1>4, <1>5, LockFacts DEF LockHeldOnce
<1>7. NotWritten(c) => NotWritten(c)'
  BY <1>3 DEF NotWritten, Steady
<1>8. (\A f \in mayFiles : Wrote(c, f)) => \A f \in mayFiles' : Wrote(c, f)'
  BY <1>2, <1>3 DEF Wrote, Steady
<1>9. CallKnows(c)'
  BY <1>1, <1>2, <1>4, <1>7, <1>8
  DEF CallKnows, history, Unanswered, BeforeRename, Writing, Holding
<1>10. next' \in [Calls -> Snapshots] /\ "releaseSync" \in InFlight
  BY <1>1, <1>2 DEF StoreTypeOK, InFlight
<1> QED
  BY <1>2, <1>3, <1>6, <1>9, <1>10, MoveStep

\* The base directory is synchronised, and so it may be after a failed synchronisation.
LEMMA EnsureOrRetryKeeps ==
  ASSUME StoreInv, NEW c \in Calls, EnsureBaseDirectory(c) \/ SyncFails(c)
  PROVE  StoreInv'
<1>1. StoreTypeOK /\ DirTypeOK /\ CallKnows(c)
  BY DEF StoreInv, StoreTypeOK
<1>2. PICK p \in {"load", "acquire", "resync"} :
        /\ pc' = [pc EXCEPT ![c] = p]
        /\ pc[c] = (IF p = "resync" THEN "sync" ELSE "ensure")
        /\ p = "acquire" => request[c].kind # "read"
        /\ SyncDirectory \/ UNCHANGED dirVars
        /\ UNCHANGED <<request, next, outcome, view, blocked, history>>
  <2>1. CASE EnsureBaseDirectory(c)
    BY <2>1 DEF EnsureBaseDirectory, GoTo
  <2>2. CASE SyncFails(c)
    BY <2>2 DEF SyncFails, GoTo
  <2> QED
    BY <2>1, <2>2
<1>3. DirTypeOK' /\ Steady /\ lock' = lock
  BY <1>1, <1>2, DirectorySteps
<1>4. pc'[c] = p /\ \A d \in Calls \ {c} : pc'[d] = pc[d]
  BY <1>1, <1>2 DEF StoreTypeOK
<1>5. LockHeldOnce'
  BY <1>2, <1>3, <1>4, LockKept DEF Holding, Writing
<1>6. NotWritten(c) => NotWritten(c)'
  BY <1>3 DEF NotWritten, Steady
<1>7. p = "acquire" => request[c].kind = "cas"
  BY <1>1, <1>2 DEF CallKnows, Requests
<1>8. pc'[c] = "resync" => files'.snapshot = next'[c] /\ Wrote(c, files)'
  BY <1>1, <1>2, <1>3, <1>4 DEF CallKnows, Wrote, Steady
<1>9. CallKnows(c)'
  BY <1>1, <1>2, <1>4, <1>6, <1>7, <1>8
  DEF CallKnows, history, Unanswered, BeforeRename, Writing, Holding
<1>10. next' \in [Calls -> Snapshots] /\ p \in InFlight
  BY <1>1, <1>2 DEF StoreTypeOK, InFlight, Holding, Writing
<1> QED
  BY <1>2, <1>3, <1>5, <1>9, <1>10, MoveStep

\* A call begins: it is blocked or it ensures the base directory.
LEMMA BeginKeeps ==
  ASSUME StoreInv, NEW c \in Calls, NEW q \in Requests, Begin(c, q)
  PROVE  StoreInv'
<1>1. StoreTypeOK /\ DirTypeOK /\ CallKnows(c)
  BY DEF StoreInv, StoreTypeOK
<1>2. PICK p \in {"done", "ensure"} :
        /\ pc[c] = "new" /\ pc' = [pc EXCEPT ![c] = p]
        /\ outcome' = IF p = "done" THEN [outcome EXCEPT ![c] = "mutation-blocked"] ELSE outcome
  BY DEF Begin, Return, GoTo
<1>3. /\ request' = [request EXCEPT ![c] = q] /\ floor' = [floor EXCEPT ![c] = applied]
      /\ UNCHANGED <<dirVars, next, view, blocked, applied>>
  BY DEF Begin
<1>4. DirTypeOK' /\ Steady /\ lock' = lock
  BY <1>1, <1>3, DirectorySteps
<1>5. StoreTypeOK'
  BY <1>1, <1>2, <1>3, <1>4 DEF StoreTypeOK, InFlight, Errors
<1>6. /\ pc'[c] = p /\ request'[c] = q /\ floor'[c] = applied
      /\ outcome'[c] = IF p = "done" THEN "mutation-blocked" ELSE outcome[c]
  BY <1>1, <1>2, <1>3 DEF StoreTypeOK
<1>7. \A d \in Calls \ {c} : CallSame(d)
  BY <1>1, <1>2, <1>3 DEF StoreTypeOK, CallSame
<1>8. LockHeldOnce'
  BY <1>4, <1>6, <1>7, LockKept DEF CallSame, Holding, Writing
<1>9. NotWritten(c) /\ outcome[c] = None
  BY <1>1, <1>2 DEF CallKnows, BeforeRename, Unanswered, Writing
<1>10. NotWritten(c)'
  BY <1>4, <1>9 DEF NotWritten, Steady
<1>11. \A t \in Txns : floor'[c][t] <= applied'[t]
  BY <1>1, <1>3, <1>6, StoreAssumption DEF StoreTypeOK
<1>12. outcome'[c] # "READ" /\ outcome'[c] # "APPLIED"
  BY <1>6, <1>9, NoneAssumption DEF Results
<1>13. CallKnows(c)'
  BY <1>6, <1>9, <1>10, <1>11, <1>12 DEF CallKnows, Holding, Writing, Unanswered, BeforeRename
<1> QED
  BY <1>3, <1>4, <1>5, <1>7, <1>8, <1>13, SteadyStep

\* Under the lock the snapshot is compared, and refused or taken as the base of the next one.
LEMMA CheckKeeps ==
  ASSUME StoreInv, NEW c \in Calls, Check(c)
  PROVE  StoreInv'
<1>1. /\ StoreTypeOK /\ DirTypeOK /\ CallKnows(c) /\ SnapshotsAreWhole
      /\ files \in mayFiles
  BY DEF StoreInv, StoreTypeOK, DirTypeOK
<1>2. files.snapshot \in Snapshots /\ files.snapshot # Torn
  BY <1>1, StoreAssumption, ContentsAssumption DEF SnapshotsAreWhole
<1>3. /\ pc[c] = "check" /\ "check" \in InFlight /\ "check" \in Holding
      /\ UNCHANGED <<dirVars, request, view, blocked, history>>
  BY DEF Check, InFlight, Holding
<1>4. request[c] \in Requests /\ request[c].kind = "cas"
  BY <1>1, <1>3 DEF CallKnows
<1>5. CASE \E o \in {"REVISION_CONFLICT", "IDENTITY_CONFLICT", "fence-refused", "store-limit-exceeded"} :
             EndOperation(c, "check", o) /\ UNCHANGED next
  BY <1>3, <1>5, QuietAnswers
  DEF EndOperation, Errors, Results, Refusals, BeforeRename, Unanswered, Writing
<1>6. CASE /\ files.snapshot[request[c].txn].revision = request[c].expected
           /\ GoTo(c, "check", "open")
           /\ next' = [next EXCEPT ![c] = WithRecord(files.snapshot, c)]
           /\ UNCHANGED outcome
  <2>1. pc' = [pc EXCEPT ![c] = "open"]
    BY <1>6 DEF GoTo
  <2>2. DirTypeOK' /\ Steady /\ lock' = lock
    BY <1>1, <1>3, DirectorySteps
  <2>3. pc'[c] = "open" /\ \A d \in Calls \ {c} : pc'[d] = pc[d]
    BY <1>1, <2>1 DEF StoreTypeOK
  <2>4. LockHeldOnce'
    BY <1>3, <2>2, <2>3, LockKept
  <2>5. WithRecord(files.snapshot, c) \in Snapshots
    BY <1>2, <1>4, WithRecordType
  <2>6. /\ next' \in [Calls -> Snapshots] /\ next'[c] = WithRecord(files.snapshot, c)
        /\ \A d \in Calls \ {c} : next'[d] = next[d]
    BY <1>1, <1>6, <2>5 DEF StoreTypeOK
  <2>7. NotWritten(c)' /\ outcome[c] = None
    BY <1>1, <1>3, <2>2 DEF CallKnows, NotWritten, Steady, BeforeRename, Unanswered, Writing
  <2>8. WithRecord(files.snapshot, c)' = WithRecord(files.snapshot, c)
    BY <1>3, <2>2 DEF WithRecord, Steady
  <2>9. CallKnows(c)'
    BY <1>1, <1>3, <1>4, <1>6, <2>2, <2>3, <2>6, <2>7, <2>8, NoneAssumption
    DEF CallKnows, Steady, history, Results
  <2>10. "open" \in InFlight
    BY DEF InFlight, Holding, Writing
  <2> QED
    BY <1>3, <1>6, <2>1, <2>2, <2>4, <2>6, <2>9, <2>10, MoveStep
<1> QED
  BY <1>2, <1>5, <1>6 DEF Check

---------------------------------------------------------------------------
\* The staging file.

\* What the disk may show after one more state of the files.
LEMMA MoreFiles ==
  ASSUME StoreInv, NEW f, mayFiles' = mayFiles \cup {f}, files' = f, NEW d, applied' = applied,
         f.snapshot \in Snapshots,
         \A t \in Txns : /\ files.snapshot[t].revision <= f.snapshot[t].revision
                         /\ f.snapshot[t].by = d => files.snapshot[t].by = d
  PROVE  NothingReportedIsLost' /\ Covers(d)
<1>1. /\ StoreTypeOK /\ SnapshotsAreWhole /\ NothingReportedIsLost
      /\ files \in mayFiles
  BY DEF StoreInv, StoreTypeOK, DirTypeOK
<1>2. ASSUME NEW g \in mayFiles', NEW t \in Txns
      PROVE  applied[t] <= g.snapshot[t].revision /\ g.snapshot[t].revision <= f.snapshot[t].revision
  <2>1. /\ applied[t] \in Nat /\ files.snapshot[t].revision \in Nat
        /\ f.snapshot[t].revision \in Nat /\ g.snapshot[t].revision \in Nat
    BY <1>1, SnapshotType, StoreAssumption DEF StoreTypeOK, SnapshotsAreWhole
  <2>2. applied[t] <= files.snapshot[t].revision
    BY <1>1 DEF NothingReportedIsLost
  <2>3. CASE g = f
    BY <2>1, <2>2, <2>3
  <2>4. CASE g \in mayFiles
    BY <1>1, <2>1, <2>2, <2>4 DEF NothingReportedIsLost
  <2> QED
    BY <2>3, <2>4
<1>3. NothingReportedIsLost'
  BY <1>2 DEF NothingReportedIsLost
<1>4. \A g \in mayFiles, t \in Txns : g.snapshot[t].revision <= g.snapshot[t].revision
  BY <1>1, SnapshotType DEF SnapshotsAreWhole
<1>5. Covers(d)
  BY <1>1, <1>4 DEF Covers
<1> QED
  BY <1>3, <1>5

\* The staging file is created: its content is in no snapshot yet, and it alone is dirty.
LEMMA OpenStagingKeeps ==
  ASSUME StoreInv, NEW c \in Calls, OpenStaging(c)
  PROVE  StoreInv'
<1> DEFINE f == [files EXCEPT !.staging = next[c]]
<1>1. /\ StoreTypeOK /\ DirTypeOK /\ CallKnows(c) /\ SnapshotsAreWhole /\ NothingReportedIsLost
      /\ files \in mayFiles /\ files \in Files /\ next[c] \in Snapshots
  BY DEF StoreInv, StoreTypeOK, DirTypeOK
<1>2. /\ files.staging = NoFile /\ pc[c] = "open" /\ pc' = [pc EXCEPT ![c] = "fsync"]
      /\ files' = f /\ mayFiles' = mayFiles \cup {f} /\ dirty' = dirty \cup {next[c]}
      /\ UNCHANGED <<lock, mayLock, request, next, outcome, view, blocked, applied, floor>>
  BY DEF OpenStaging, GoTo, CreateStaging, SetFiles, history
<1>3. f \in Files /\ f.snapshot = files.snapshot /\ f.staging = next[c]
  BY <1>1, ContentsAssumption DEF Files
<1> HIDE DEF f
<1>4. files.snapshot \in Snapshots
  BY <1>1 DEF SnapshotsAreWhole
<1>5. request[c] \in Requests /\ request[c].kind = "cas" /\ NotWritten(c) /\ outcome[c] = None
      /\ next[c] = WithRecord(files.snapshot, c)
  BY <1>1, <1>2 DEF CallKnows, Holding, Writing, BeforeRename, Unanswered
<1>6. request[c].txn \in Txns /\ next[c][request[c].txn].by = c
  BY <1>4, <1>5, WithRecordType, CasRequest
<1>7. \A g \in mayFiles : g.snapshot # next[c]
  BY <1>5, <1>6 DEF NotWritten
<1>8. dirty = {}
  BY <1>1, <1>2, StoreAssumption DEF SnapshotsAreWhole, DirTypeOK
<1>9. SnapshotsAreWhole'
  BY <1>1, <1>2, <1>3, <1>4, <1>7, <1>8 DEF SnapshotsAreWhole
<1>10. DirTypeOK'
  BY <1>1, <1>2, <1>3, ContentsAssumption DEF DirTypeOK
<1>11. StoreTypeOK'
  BY <1>1, <1>2, <1>10 DEF StoreTypeOK, InFlight, Holding, Writing
<1>12. \A t \in Txns : files.snapshot[t].revision <= files.snapshot[t].revision
  BY <1>4, SnapshotType
<1>13. NothingReportedIsLost' /\ \A d \in Calls : Covers(d)
  BY <1>2, <1>3, <1>4, <1>12, MoreFiles
<1>14. pc'[c] = "fsync" /\ \A d \in Calls \ {c} : CallSame(d) /\ pc[d] \notin Holding
  BY <1>1, <1>2, LockFacts DEF StoreTypeOK, CallSame, Holding, Writing
<1>15. LockHeldOnce'
  BY <1>2, <1>14, LockKept DEF CallSame, Holding, Writing
<1>16. NotWritten(c)'
  BY <1>1, <1>2, <1>3, <1>5 DEF NotWritten
<1>17. WithRecord(files.snapshot, c)' = WithRecord(files.snapshot, c)
  BY <1>2, <1>3 DEF WithRecord
<1>18. CallKnows(c)'
  BY <1>1, <1>2, <1>3, <1>5, <1>14, <1>16, <1>17, NoneAssumption DEF CallKnows, Results
<1>19. AppliedGrows
  BY <1>1, <1>2, StoreAssumption DEF AppliedGrows, StoreTypeOK
<1> QED
  BY <1>9, <1>11, <1>13, <1>14, <1>15, <1>18, <1>19, StepOfCall

\* The staging file is synchronised: nothing is dirty any more.
LEMMA FsyncStagingKeeps ==
  ASSUME StoreInv, NEW c \in Calls, FsyncStaging(c)
  PROVE  StoreInv'
<1>1. /\ StoreTypeOK /\ DirTypeOK /\ CallKnows(c) /\ SnapshotsAreWhole /\ NothingReportedIsLost
      /\ files \in mayFiles
  BY DEF StoreInv, StoreTypeOK, DirTypeOK
<1>2. /\ pc[c] = "fsync" /\ pc' = [pc EXCEPT ![c] = "rename"] /\ dirty' = dirty \ {files.staging}
      /\ UNCHANGED <<files, mayFiles, lock, mayLock, request, next, outcome, view, blocked,
                     applied, floor>>
  BY DEF FsyncStaging, GoTo, SyncStaging, history
<1>3. dirty' = {}
  BY <1>1, <1>2 DEF SnapshotsAreWhole
<1>4. SnapshotsAreWhole' /\ NothingReportedIsLost'
  BY <1>1, <1>2, <1>3 DEF SnapshotsAreWhole, NothingReportedIsLost
<1>5. StoreTypeOK'
  BY <1>1, <1>2 DEF StoreTypeOK, DirTypeOK, InFlight, Holding, Writing
<1>6. pc'[c] = "rename" /\ \A d \in Calls \ {c} : CallSame(d) /\ pc[d] \notin Holding
  BY <1>1, <1>2, LockFacts DEF StoreTypeOK, CallSame, Holding, Writing
<1>7. LockHeldOnce'
  BY <1>2, <1>6, LockKept DEF CallSame, Holding, Writing
<1>8. \A g \in mayFiles, t \in Txns : g.snapshot[t].revision <= g.snapshot[t].revision
  BY <1>1, SnapshotType DEF SnapshotsAreWhole
<1>9. \A d \in Calls : Covers(d)
  BY <1>2, <1>8 DEF Covers
<1>10. NotWritten(c)' /\ outcome[c] = None
  BY <1>1, <1>2 DEF CallKnows, NotWritten, BeforeRename, Unanswered, Writing
<1>11. WithRecord(files.snapshot, c)' = WithRecord(files.snapshot, c)
  BY <1>2 DEF WithRecord
<1>12. CallKnows(c)'
  BY <1>1, <1>2, <1>3, <1>6, <1>10, <1>11, NoneAssumption
  DEF CallKnows, Results, Holding, Writing
<1>13. AppliedGrows
  BY <1>1, <1>2, StoreAssumption DEF AppliedGrows, StoreTypeOK
<1> QED
  BY <1>4, <1>5, <1>6, <1>7, <1>9, <1>12, <1>13, StepOfCall

\* The rename: one record moves to its next revision, and no other call's record appears.
LEMMA RenameKeeps ==
  ASSUME StoreInv, NEW c \in Calls, Rename(c)
  PROVE  StoreInv'
<1> DEFINE f == [snapshot |-> files.staging, staging |-> NoFile]
           x == request[c].txn
<1>1. /\ StoreTypeOK /\ DirTypeOK /\ CallKnows(c) /\ SnapshotsAreWhole
      /\ files \in mayFiles /\ files \in Files /\ next[c] \in Snapshots
  BY DEF StoreInv, StoreTypeOK, DirTypeOK
<1>2. /\ pc[c] = "rename" /\ pc' = [pc EXCEPT ![c] = "sync"]
      /\ files' = f /\ mayFiles' = mayFiles \cup {f}
      /\ UNCHANGED <<lock, mayLock, dirty, request, next, outcome, view, blocked, applied, floor>>
  BY DEF Rename, GoTo, RenameStaging, SetFiles, history
<1>3. /\ request[c] \in Requests /\ request[c].kind = "cas" /\ outcome[c] = None
      /\ next[c] = WithRecord(files.snapshot, c) /\ files.staging = next[c] /\ dirty = {}
      /\ files.snapshot[x].revision = request[c].expected
  BY <1>1, <1>2 DEF CallKnows, Holding, Writing, Unanswered
<1>4. f \in Files /\ f.snapshot = next[c]
  BY <1>1, <1>3, ContentsAssumption DEF Files
<1> HIDE DEF f
<1>5. files.snapshot \in Snapshots
  BY <1>1 DEF SnapshotsAreWhole
<1>6. /\ x \in Txns /\ next[c][x].by = c /\ next[c][x].revision = request[c].expected + 1
      /\ request[c].expected \in Nat
      /\ \A t \in Txns : t # x => next[c][t] = files.snapshot[t]
  BY <1>3, <1>5, WithRecordType, CasRequest
<1> HIDE DEF x
<1>7. \A t \in Txns : files.snapshot[t].revision \in Nat
  BY <1>5, SnapshotType
<1>8. \A t \in Txns : files.snapshot[t].revision <= next[c][t].revision
  BY <1>3, <1>6, <1>7
<1>9. \A d \in Calls \ {c}, t \in Txns : next[c][t].by = d => files.snapshot[t].by = d
  BY <1>6
<1>10. \A d \in Calls \ {c} : NothingReportedIsLost' /\ Covers(d)
  BY <1>1, <1>2, <1>4, <1>8, <1>9, MoreFiles
<1>11. NothingReportedIsLost'
  <2>1. NothingReportedIsLost' /\ Covers(None)
    BY <1>1, <1>2, <1>4, <1>6, <1>8, StoreAssumption, MoreFiles
  <2> QED
    BY <2>1
<1>12. SnapshotsAreWhole'
  BY <1>1, <1>2, <1>3, <1>4 DEF SnapshotsAreWhole
<1>13. DirTypeOK'
  BY <1>1, <1>2, <1>4 DEF DirTypeOK
<1>14. StoreTypeOK'
  BY <1>1, <1>2, <1>13 DEF StoreTypeOK, InFlight, Holding, Writing
<1>15. pc'[c] = "sync" /\ \A d \in Calls \ {c} : CallSame(d) /\ pc[d] \notin Holding
  BY <1>1, <1>2, LockFacts DEF StoreTypeOK, CallSame, Holding, Writing
<1>16. LockHeldOnce'
  BY <1>2, <1>15, LockKept DEF CallSame, Holding, Writing
<1>17. Wrote(c, files)'
  BY <1>2, <1>4, <1>6 DEF Wrote, x
<1>18. CallKnows(c)'
  BY <1>1, <1>2, <1>3, <1>4, <1>15, <1>17, NoneAssumption
  DEF CallKnows, Results, Refusals, Errors, Holding, Writing, BeforeRename
<1>19. AppliedGrows
  BY <1>1, <1>2, StoreAssumption DEF AppliedGrows, StoreTypeOK
<1> QED
  BY <1>10, <1>11, <1>12, <1>14, <1>15, <1>16, <1>18, <1>19, StepOfCall

---------------------------------------------------------------------------
\* The report.

\* What Report adds to the greatest revision reported: a mutation that every
\* state the disk may show contains.
LEMMA ReportIsStable ==
  ASSUME StoreInv, NEW c \in Calls, pc[c] \in {"release", "releaseSync"}, Report(c)
  PROVE  /\ applied' \in [Txns -> 0 .. MaxRevision] /\ AppliedGrows
         /\ \A f \in mayFiles, t \in Txns : applied'[t] <= f.snapshot[t].revision
<1>1. StoreTypeOK /\ CallKnows(c) /\ SnapshotsAreWhole /\ NothingReportedIsLost
  BY DEF StoreInv
<1>2. request[c] \in Requests /\ request[c].kind = "cas"
  BY <1>1 DEF CallKnows, Holding
<1> DEFINE x == request[c].txn
           e == request[c].expected
<1>3. x \in Txns /\ e \in Nat /\ e + 1 \in 0 .. MaxRevision
  BY <1>2, CasRequest, StoreAssumption
<1>4. \A t \in Txns : applied[t] \in Nat
  BY <1>1, StoreAssumption DEF StoreTypeOK
<1>5. CASE applied' = applied
  BY <1>1, <1>4, <1>5 DEF StoreTypeOK, AppliedGrows, NothingReportedIsLost
<1>6. CASE outcome[c] = "APPLIED" /\ applied[x] <= e /\ applied' = [applied EXCEPT ![x] = e + 1]
  <2>1. applied' \in [Txns -> 0 .. MaxRevision]
    BY <1>1, <1>3, <1>6 DEF StoreTypeOK
  <2>2. applied'[x] = e + 1 /\ \A t \in Txns : t # x => applied'[t] = applied[t]
    BY <1>1, <1>3, <1>6 DEF StoreTypeOK
  <2>3. AppliedGrows
    BY <1>3, <1>4, <1>6, <2>2 DEF AppliedGrows
  <2>4. \A f \in mayFiles : f.snapshot[x].revision >= e + 1 /\ f.snapshot[x].revision \in Nat
    BY <1>1, <1>3, <1>6, SnapshotType DEF CallKnows, Wrote, SnapshotsAreWhole
  <2>5. \A f \in mayFiles : applied'[x] <= f.snapshot[x].revision
    BY <1>3, <2>2, <2>4
  <2>6. \A f \in mayFiles, t \in Txns : t # x => applied'[t] <= f.snapshot[t].revision
    BY <1>1, <2>2 DEF NothingReportedIsLost
  <2> QED
    BY <2>1, <2>3, <2>5, <2>6
<1> QED
  BY <1>5, <1>6 DEF Report

\* The call returns: its lock is gone, or it is left behind.
LEMMA ReleaseKeeps ==
  ASSUME StoreInv, NEW c \in Calls, Released(c) \/ ReleaseFails(c)
  PROVE  StoreInv'
<1>1. StoreTypeOK /\ DirTypeOK /\ CallKnows(c) /\ NothingReportedIsLost
  BY DEF StoreInv, StoreTypeOK
<1>2. pc[c] \in {"release", "releaseSync"} /\ Report(c) /\ (SyncDirectory \/ UNCHANGED dirVars)
      /\ blocked' \in [Instances -> BOOLEAN]
  BY <1>1 DEF Released, ReleaseFails, StoreTypeOK
<1>3. /\ pc' = [pc EXCEPT ![c] = "done"] /\ UNCHANGED <<request, next, outcome, view, floor>>
  BY <1>2 DEF Report
<1>4. DirTypeOK' /\ Steady /\ lock' = lock
  BY <1>1, <1>2, DirectorySteps
<1>5. /\ applied' \in [Txns -> 0 .. MaxRevision] /\ AppliedGrows
      /\ \A f \in mayFiles, t \in Txns : applied'[t] <= f.snapshot[t].revision
  BY <1>2, ReportIsStable
<1>6. StoreTypeOK'
  BY <1>1, <1>2, <1>3, <1>4, <1>5 DEF StoreTypeOK
<1>7. NothingReportedIsLost'
  BY <1>1, <1>4, <1>5 DEF NothingReportedIsLost, Steady
<1>8. SnapshotsAreWhole' /\ (\A d : Covers(d)) /\ files' = files /\ dirty' = dirty
  BY <1>4, SteadyDirectory DEF Steady
<1>9. pc'[c] = "done" /\ \A d \in Calls \ {c} : CallSame(d)
  BY <1>1, <1>3 DEF StoreTypeOK, CallSame
<1>10. LockHeldOnce'
  BY <1>4, <1>9, LockKept DEF CallSame, Holding, Writing
<1>11. NotWritten(c) => NotWritten(c)'
  BY <1>4 DEF NotWritten, Steady
<1>12. \A t \in Txns : floor'[c][t] <= applied'[t]
  <2>1. \A t \in Txns : /\ floor[c][t] \in Nat /\ applied[t] \in Nat /\ applied'[t] \in Nat
                        /\ floor[c][t] <= applied[t] /\ applied[t] <= applied'[t]
    BY <1>1, <1>5, StoreAssumption DEF StoreTypeOK, AppliedGrows, CallKnows
  <2> QED
    BY <1>3, <2>1
<1>13. CallKnows(c)'
  BY <1>1, <1>2, <1>3, <1>9, <1>11, <1>12
  DEF CallKnows, Holding, Writing, Unanswered, BeforeRename
<1> QED
  BY <1>5, <1>6, <1>7, <1>8, <1>9, <1>10, <1>13, StepOfCall

---------------------------------------------------------------------------
\* Deaths and the operator.

\* A call that died keeps its promise about what is not on the disk.
LEMMA DeadCall ==
  ASSUME StoreInv, NEW d \in Calls, pc[d] \in InFlight, pc'[d] = "dead",
         request'[d] = request[d], outcome'[d] = outcome[d], view'[d] = view[d],
         floor'[d] = floor[d], applied' = applied, Covers(d)
  PROVE  CallKnows(d)'
<1>1. CallKnows(d) /\ pc[d] # "new"
  BY DEF StoreInv, InFlight, Holding, Writing
<1>2. NotWritten(d) => NotWritten(d)'
  BY DEF Covers, NotWritten
<1> QED
  BY <1>1, <1>2 DEF CallKnows, Holding, Writing, Unanswered, BeforeRename

\* Calls after some of them died, from what the disk shows.
LEMMA DeathsKeep ==
  ASSUME StoreInv, NEW dying \in SUBSET Calls, Die(dying), blocked' \in [Instances -> BOOLEAN],
         DirTypeOK', LockHeldOnce', SnapshotsAreWhole', NothingReportedIsLost',
         \A d \in Calls : Covers(d),
         \A d \in Calls \ dying : pc[d] \in Holding => files' = files /\ dirty' = dirty
  PROVE  StoreInv'
<1>1. StoreTypeOK
  BY DEF StoreInv
<1>2. /\ pc' = [c \in Calls |-> IF c \in dying /\ pc[c] \in InFlight THEN "dead" ELSE pc[c]]
      /\ UNCHANGED <<request, next, outcome, view, applied, floor>>
  BY DEF Die
<1>3. pc' \in [Calls -> {"new", "done", "dead"} \cup InFlight]
  BY <1>1, <1>2 DEF StoreTypeOK
<1>4. StoreTypeOK'
  BY <1>1, <1>2, <1>3 DEF StoreTypeOK
<1>5. AppliedGrows
  BY <1>1, <1>2, StoreAssumption DEF AppliedGrows, StoreTypeOK
<1>6. ASSUME NEW d \in Calls PROVE CallKnows(d)'
  <2>1. CASE d \in dying /\ pc[d] \in InFlight
    BY <1>2, <2>1, DeadCall
  <2>2. CASE ~(d \in dying /\ pc[d] \in InFlight)
    <3>1. CallSame(d)
      BY <1>2, <2>2 DEF CallSame
    <3>2. pc[d] \in Holding => files' = files /\ dirty' = dirty
      BY <2>2 DEF InFlight
    <3> QED
      BY <1>4, <1>5, <3>1, <3>2, OtherCall
  <2> QED
    BY <2>1, <2>2
<1> QED
  BY <1>4, <1>6 DEF StoreInv

\* A process dies: the directory is as it was.
LEMMA CrashKeeps ==
  ASSUME StoreInv, NEW i \in Instances, Crash(i)
  PROVE  StoreInv'
<1> DEFINE dying == {c \in Calls : InstanceOf[c] = i}
<1>1. StoreTypeOK /\ DirTypeOK /\ NothingReportedIsLost /\ LockHeldOnce
  BY DEF StoreInv, StoreTypeOK
<1>2. Die(dying) /\ blocked' = [blocked EXCEPT ![i] = FALSE] /\ UNCHANGED dirVars
  BY DEF Crash
<1>3. blocked' \in [Instances -> BOOLEAN]
  BY <1>1, <1>2 DEF StoreTypeOK
<1>4. DirTypeOK' /\ Steady /\ lock' = lock
  BY <1>1, <1>2, DirectorySteps
<1>5. applied' = applied
  BY <1>2 DEF Die
<1>6. SnapshotsAreWhole' /\ NothingReportedIsLost' /\ (\A d : Covers(d)) /\ files' = files
      /\ dirty' = dirty
  BY <1>4, <1>5, SteadyDirectory DEF Steady
<1>7. \A c \in Calls : pc'[c] \in Holding => pc[c] \in Holding
  BY <1>2 DEF Die, Holding, Writing
<1>8. LockHeldOnce'
  BY <1>1, <1>4, <1>7 DEF LockHeldOnce
<1> HIDE DEF dying
<1>9. dying \in SUBSET Calls
  BY DEF dying
<1> QED
  BY <1>2, <1>3, <1>4, <1>6, <1>8, <1>9, DeathsKeep

\* What a power loss shows: a snapshot the disk may show, read back whole.
LEMMA AfterPowerLoss ==
  ASSUME StoreInv, DiskAfterPowerLoss
  PROVE  /\ DirTypeOK' /\ mayFiles' = {files'} /\ dirty' = {}
         /\ \E f \in mayFiles : files'.snapshot = f.snapshot
<1>1. DirTypeOK /\ SnapshotsAreWhole
  BY DEF StoreInv, StoreTypeOK
<1>2. PICK f \in mayFiles, l \in mayLock :
        /\ files' = [snapshot |-> Reread(f.snapshot), staging |-> Reread(f.staging)]
        /\ lock' = l
  BY DEF DiskAfterPowerLoss
<1>3. mayFiles' = {files'} /\ mayLock' = {lock'} /\ dirty' = {}
  BY DEF DiskAfterPowerLoss
<1>4. Reread(f.snapshot) = f.snapshot
  BY <1>1, <1>2 DEF Reread, SnapshotsAreWhole
<1>5. f.snapshot \in Contents \cup {Torn} /\ Reread(f.staging) \in Contents \cup {NoFile, Torn}
  BY <1>1, <1>2 DEF DirTypeOK, Files, Reread
<1>6. files' \in Files /\ files'.snapshot = f.snapshot
  BY <1>2, <1>4, <1>5 DEF Files
<1>7. lock' \in BOOLEAN
  BY <1>1, <1>2 DEF DirTypeOK
<1>8. DirTypeOK'
  BY <1>3, <1>6, <1>7 DEF DirTypeOK
<1> QED
  BY <1>2, <1>3, <1>6, <1>8

\* The machine loses power: every call in flight dies, and the disk shows
\* nothing that was not there and loses nothing that was reported.
LEMMA PowerLossKeeps ==
  ASSUME StoreInv, PowerLoss
  PROVE  StoreInv'
<1>1. StoreTypeOK /\ DirTypeOK /\ SnapshotsAreWhole /\ NothingReportedIsLost
  BY DEF StoreInv, StoreTypeOK
<1>2. Die(Calls) /\ blocked' \in [Instances -> BOOLEAN] /\ DiskAfterPowerLoss
  BY DEF PowerLoss
<1>3. PICK f \in mayFiles : files'.snapshot = f.snapshot
  BY <1>2, AfterPowerLoss
<1>4. DirTypeOK' /\ mayFiles' = {files'} /\ dirty' = {}
  BY <1>2, AfterPowerLoss
<1>5. applied' = applied
  BY <1>2 DEF Die
<1>6. f.snapshot \in Snapshots /\ \A t \in Txns : f.snapshot[t].revision <= f.snapshot[t].revision
  BY <1>1, SnapshotType DEF SnapshotsAreWhole
<1>7. SnapshotsAreWhole'
  BY <1>3, <1>4, <1>6 DEF SnapshotsAreWhole
<1>8. NothingReportedIsLost'
  BY <1>1, <1>3, <1>4, <1>5, <1>6 DEF NothingReportedIsLost
<1>9. \A d \in Calls : Covers(d)
  BY <1>3, <1>4, <1>6 DEF Covers
<1>10. \A c \in Calls : pc'[c] \notin Holding
  BY <1>2 DEF Die, InFlight, Holding, Writing
<1>11. LockHeldOnce'
  BY <1>10 DEF LockHeldOnce
<1> QED
  BY <1>2, <1>4, <1>7, <1>8, <1>9, <1>11, DeathsKeep

\* The operator removes what nobody owns.
LEMMA InvestigateKeeps ==
  ASSUME StoreInv, Investigate
  PROVE  StoreInv'
<1> DEFINE f == [files EXCEPT !.staging = NoFile]
<1>1. /\ StoreTypeOK /\ DirTypeOK /\ SnapshotsAreWhole
      /\ files \in mayFiles /\ files \in Files
  BY DEF StoreInv, StoreTypeOK, DirTypeOK
<1>2. /\ \A c \in Calls : pc[c] \notin Holding
      /\ files' = f /\ mayFiles' = mayFiles \cup {f} /\ lock' = FALSE
      /\ mayLock' = mayLock \cup {FALSE} /\ dirty' = dirty \ {files.staging}
      /\ UNCHANGED <<pc, request, next, outcome, view, blocked, applied, floor>>
  BY DEF Investigate, DiskCleanedByHand, SetFiles, callVars, history
<1>3. f \in Files /\ f.snapshot = files.snapshot
  BY <1>1 DEF Files
<1> HIDE DEF f
<1>4. dirty' = {}
  BY <1>1, <1>2 DEF SnapshotsAreWhole
<1>5. files.snapshot \in Snapshots
  BY <1>1 DEF SnapshotsAreWhole
<1>6. SnapshotsAreWhole'
  BY <1>1, <1>2, <1>3, <1>4, <1>5 DEF SnapshotsAreWhole
<1>7. DirTypeOK'
  BY <1>1, <1>2, <1>3, <1>4 DEF DirTypeOK
<1>8. StoreTypeOK'
  BY <1>1, <1>2, <1>7 DEF StoreTypeOK
<1>9. \A t \in Txns : files.snapshot[t].revision <= f.snapshot[t].revision
  BY <1>3, <1>5, SnapshotType
<1>10. NothingReportedIsLost' /\ \A d \in Calls : Covers(d)
  <2>1. NothingReportedIsLost' /\ Covers(None)
    BY <1>2, <1>3, <1>5, <1>9, MoreFiles
  <2>2. \A d \in Calls : Covers(d)
    BY <1>2, <1>3, <1>5, <1>9, MoreFiles
  <2> QED
    BY <2>1, <2>2
<1>11. LockHeldOnce'
  BY <1>2 DEF LockHeldOnce
<1>12. AppliedGrows
  BY <1>1, <1>2, StoreAssumption DEF AppliedGrows, StoreTypeOK
<1>13. \A d \in Calls : CallSame(d)
  BY <1>2 DEF CallSame
<1>14. \A d \in Calls : CallKnows(d)'
  BY <1>2, <1>6, <1>8, <1>10, <1>12, <1>13, OtherCall
<1> QED
  BY <1>6, <1>8, <1>10, <1>11, <1>14 DEF StoreInv

---------------------------------------------------------------------------
\* The invariant of the specification.

\* The store starts empty and unlocked, with every call still to be made.
LEMMA StoreInitInv ==
  ASSUME StoreInit
  PROVE  StoreInv
<1> DEFINE f == [snapshot |-> EmptySnapshot, staging |-> NoFile]
<1>1. /\ files = f /\ mayFiles = {f} /\ lock = FALSE /\ mayLock = {FALSE} /\ dirty = {}
  BY DEF StoreInit, DirInit
<1>2. /\ EmptySnapshot \in Snapshots
      /\ \A t \in Txns : EmptySnapshot[t].revision = 0 /\ EmptySnapshot[t].by = None
  BY DEF EmptySnapshot, Snapshots, Absent
<1>3. f \in Files /\ f.snapshot = EmptySnapshot
  BY <1>2, ContentsAssumption DEF Files
<1> HIDE DEF f
<1>4. DirTypeOK
  BY <1>1, <1>3 DEF DirTypeOK
<1>5. /\ \A c \in Calls : pc[c] = "new" /\ outcome[c] = None /\ floor[c] = applied
      /\ \A t \in Txns : applied[t] = 0
  BY DEF StoreInit
<1>6. applied \in [Txns -> 0 .. MaxRevision]
  BY StoreAssumption DEF StoreInit
<1>7. StoreTypeOK
  BY <1>2, <1>4, <1>6 DEF StoreInit, StoreTypeOK
<1>8. LockHeldOnce
  BY <1>5 DEF LockHeldOnce, Holding, Writing
<1>9. SnapshotsAreWhole
  BY <1>1, <1>2, <1>3 DEF SnapshotsAreWhole
<1>10. NothingReportedIsLost
  BY <1>1, <1>2, <1>3, <1>5 DEF NothingReportedIsLost
<1>11. ASSUME NEW c \in Calls PROVE CallKnows(c)
  <2>1. NotWritten(c)
    BY <1>1, <1>2, <1>3, StoreAssumption DEF NotWritten
  <2> QED
    BY <1>5, <2>1, NoneAssumption DEF CallKnows, Holding, Writing, Results
<1> QED
  BY <1>7, <1>8, <1>9, <1>10, <1>11 DEF StoreInv

\* Every step of the store keeps the invariant.
LEMMA StoreNextInv ==
  ASSUME StoreInv, [StoreNext]_storeVars
  PROVE  StoreInv'
<1>1. ASSUME NEW c \in Calls, CallStep(c) PROVE StoreInv'
  <2>1. CASE EnsureFails(c) \/ LoadFails(c) \/ LockUnavailable(c) \/ OperationFails(c)
             \/ OrphanStaging(c) \/ StagingFails(c) \/ ReconcileFails(c)
    BY <2>1, PlainFailures
  <2>2. CASE EnsureBaseDirectory(c) \/ SyncFails(c)
    BY <2>2, EnsureOrRetryKeeps
  <2>3. CASE LoadForRead(c)
    BY <2>3, LoadForReadKeeps
  <2>4. CASE AcquireLock(c)
    BY <2>4, AcquireLockKeeps
  <2>5. CASE AcquireFailsAfterMkdir(c)
    BY <2>5, AcquireFailsKeeps
  <2>6. CASE Check(c)
    BY <2>6, CheckKeeps
  <2>7. CASE OpenStaging(c)
    BY <2>7, OpenStagingKeeps
  <2>8. CASE FsyncStaging(c)
    BY <2>8, FsyncStagingKeeps
  <2>9. CASE Rename(c)
    BY <2>9, RenameKeeps
  <2>10. CASE SyncAfterRename(c) \/ Reconcile(c)
    BY <2>10, SyncedKeeps
  <2>11. CASE RemoveLock(c)
    BY <2>11, RemoveLockKeeps
  <2>12. CASE Released(c) \/ ReleaseFails(c)
    BY <2>12, ReleaseKeeps
  <2> QED
    BY <1>1, <2>1, <2>2, <2>3, <2>4, <2>5, <2>6, <2>7, <2>8, <2>9, <2>10, <2>11, <2>12 DEF CallStep
<1>2. CASE UNCHANGED storeVars
  <2>1. /\ UNCHANGED <<files, lock, mayFiles, mayLock, dirty>>
        /\ UNCHANGED <<pc, request, next, outcome, view, blocked, applied, floor>>
    BY <1>2 DEF storeVars, dirVars, callVars, history
  <2>2. StoreTypeOK' /\ LockHeldOnce' /\ SnapshotsAreWhole' /\ NothingReportedIsLost'
    BY <2>1 DEF StoreInv, StoreTypeOK, DirTypeOK, LockHeldOnce, SnapshotsAreWhole, NothingReportedIsLost
  <2>3. \A c \in Calls : CallKnows(c)'
    BY <2>1 DEF StoreInv, CallKnows, NotWritten, Wrote, WithRecord
  <2> QED
    BY <2>2, <2>3 DEF StoreInv
<1> QED
  BY <1>1, <1>2, BeginKeeps, CrashKeeps, PowerLossKeeps, InvestigateKeeps DEF StoreNext

\* The inductive invariant holds whatever the calls do, fail at and die of.
THEOREM StoreInvariant == StoreSpec => []StoreInv
<1>1. StoreInit => StoreInv
  BY StoreInitInv
<1>2. StoreInv /\ [StoreNext]_storeVars => StoreInv'
  BY StoreNextInv
<1> QED
  BY <1>1, <1>2, PTL DEF StoreSpec

\* Types: the directory, the calls and what was reported stay well formed.
THEOREM StoreTypeCorrect == StoreSpec => []StoreTypeOK
<1>1. StoreInv => StoreTypeOK
  BY DEF StoreInv
<1> QED
  BY <1>1, StoreInvariant, PTL

\* withMutationLock: at most one call of any process is between mkdir and
\* rmdir of the lock, and the lock is there as long as it is.
THEOREM MutualExclusion == StoreSpec => []LockHeldOnce
<1>1. StoreInv => LockHeldOnce
  BY DEF StoreInv
<1> QED
  BY <1>1, StoreInvariant, PTL

\* Durability: whatever the disk shows after a power loss is a complete
\* snapshot, and contains every mutation that was reported APPLIED.
THEOREM ReportedSurvives == StoreSpec => [](SnapshotsAreWhole /\ NothingReportedIsLost)
<1>1. StoreInv => SnapshotsAreWhole /\ NothingReportedIsLost
  BY DEF StoreInv
<1> QED
  BY <1>1, StoreInvariant, PTL

\* A caller that was refused may retry: its record is nowhere and no power
\* loss can make it appear.
THEOREM RefusalsAreFinal == StoreSpec => []RefusedIsNotWritten
<1>1. StoreInv => RefusedIsNotWritten
  BY DEF StoreInv, CallKnows, NotWritten, RefusedIsNotWritten, Refusals
<1> QED
  BY <1>1, StoreInvariant, PTL

\* A lock-free read misses nothing reported APPLIED before it began.
THEOREM ReadsAreCurrent == StoreSpec => []ReadsSeeApplied
<1>1. StoreInv => ReadsSeeApplied
  BY DEF StoreInv, CallKnows, ReadsSeeApplied
<1> QED
  BY <1>1, StoreInvariant, PTL

---------------------------------------------------------------------------
\* What a step can do to the visible snapshot and to what was reported.

\* Only a rename and a power loss change the snapshot, only a returning call reports.
LEMMA VisibleStep ==
  ASSUME StoreInv, [StoreNext]_storeVars
  PROVE  \/ files'.snapshot = files.snapshot /\ applied' = applied
         \/ \E c \in Calls : Rename(c)
         \/ \E c \in Calls : /\ pc[c] \in {"release", "releaseSync"} /\ Report(c)
                             /\ files' = files
         \/ PowerLoss
<1>0. files \in Files
  BY DEF StoreInv, StoreTypeOK, DirTypeOK
<1>1. ASSUME NEW c \in Calls, CallStep(c)
      PROVE  \/ files'.snapshot = files.snapshot /\ applied' = applied
             \/ Rename(c)
             \/ /\ pc[c] \in {"release", "releaseSync"} /\ Report(c) /\ files' = files
  <2>1. CASE EnsureFails(c) \/ LoadFails(c) \/ LockUnavailable(c) \/ OperationFails(c)
             \/ OrphanStaging(c) \/ StagingFails(c) \/ LoadForRead(c) \/ Check(c)
    BY <2>1 DEF EnsureFails, LoadFails, LockUnavailable, OperationFails, OrphanStaging,
                StagingFails, LoadForRead, Check, dirVars, history
  <2>2. CASE EnsureBaseDirectory(c) \/ SyncFails(c) \/ SyncAfterRename(c) \/ Reconcile(c)
             \/ ReconcileFails(c)
    BY <2>2 DEF EnsureBaseDirectory, SyncFails, SyncAfterRename, Reconcile, ReconcileFails,
                SyncDirectory, dirVars, history
  <2>3. CASE AcquireLock(c) \/ AcquireFailsAfterMkdir(c) \/ RemoveLock(c)
    BY <2>3 DEF AcquireLock, AcquireFailsAfterMkdir, RemoveLock, SetLock, history
  <2>4. CASE OpenStaging(c)
    BY <1>0, <2>4 DEF OpenStaging, CreateStaging, SetFiles, history, Files
  <2>5. CASE FsyncStaging(c)
    BY <2>5 DEF FsyncStaging, SyncStaging, history
  <2>6. CASE Released(c) \/ ReleaseFails(c)
    BY <2>6 DEF Released, ReleaseFails, SyncDirectory, dirVars
  <2> QED
    BY <1>1, <2>1, <2>2, <2>3, <2>4, <2>5, <2>6 DEF CallStep
<1>2. ASSUME NEW c \in Calls, NEW q \in Requests, Begin(c, q)
      PROVE  files'.snapshot = files.snapshot /\ applied' = applied
  BY <1>2 DEF Begin, dirVars
<1>3. ASSUME NEW i \in Instances, Crash(i)
      PROVE  files'.snapshot = files.snapshot /\ applied' = applied
  BY <1>3 DEF Crash, Die, dirVars
<1>4. Investigate => files'.snapshot = files.snapshot /\ applied' = applied
  BY <1>0 DEF Investigate, DiskCleanedByHand, SetFiles, history, Files
<1>5. UNCHANGED storeVars => files'.snapshot = files.snapshot /\ applied' = applied
  BY DEF storeVars, dirVars, history
<1> QED
  BY <1>1, <1>2, <1>3, <1>4, <1>5 DEF StoreNext

\* A power loss shows no revision beyond the visible one and none before the reported one.
LEMMA PowerLossBounds ==
  ASSUME StoreInv, PowerLoss
  PROVE  /\ files'.snapshot \in Snapshots /\ applied' = applied
         /\ \A t \in Txns : /\ applied[t] <= files'.snapshot[t].revision
                            /\ files'.snapshot[t].revision <= files.snapshot[t].revision
<1>1. PICK f \in mayFiles : files'.snapshot = f.snapshot
  BY AfterPowerLoss DEF PowerLoss
<1>2. applied' = applied
  BY DEF PowerLoss, Die
<1> QED
  BY <1>1, <1>2 DEF StoreInv, SnapshotsAreWhole, NothingReportedIsLost

\* Nobody enters past a lock that nobody holds.
LEMMA NobodyEnters ==
  ASSUME StoreInv, [StoreNext]_storeVars, lock, \A c \in Calls : pc[c] \notin Holding
  PROVE  \A c \in Calls : pc'[c] \notin Holding
<1>1. StoreTypeOK
  BY DEF StoreInv
<1> USE DEF Holding, Writing
<1>2. ASSUME NEW c \in Calls, CallStep(c)
      PROVE  \E p \in {"load", "acquire", "releaseSync", "done"} : pc' = [pc EXCEPT ![c] = p]
  <2>1. CASE EnsureBaseDirectory(c)
    BY <2>1 DEF EnsureBaseDirectory, GoTo
  <2>2. CASE EnsureFails(c) \/ LoadForRead(c) \/ LoadFails(c) \/ AcquireFailsAfterMkdir(c)
             \/ LockUnavailable(c)
    BY <2>2 DEF EnsureFails, LoadForRead, LoadFails, AcquireFailsAfterMkdir, LockUnavailable,
                Return, GoTo
  <2>3. CASE AcquireLock(c)
    BY <2>3 DEF AcquireLock
  <2>4. CASE Check(c) \/ OperationFails(c) \/ OrphanStaging(c) \/ OpenStaging(c) \/ FsyncStaging(c)
             \/ StagingFails(c) \/ Rename(c) \/ SyncAfterRename(c) \/ SyncFails(c) \/ Reconcile(c)
             \/ ReconcileFails(c) \/ RemoveLock(c)
    <3>1. pc[c] \in Holding
      BY <2>4 DEF Check, OperationFails, OrphanStaging, OpenStaging, FsyncStaging, StagingFails,
                  Rename, SyncAfterRename, SyncFails, Reconcile, ReconcileFails, RemoveLock,
                  EndOperation, GoTo
    <3> QED
      BY <3>1
  <2>5. CASE Released(c) \/ ReleaseFails(c)
    BY <2>5 DEF Released, ReleaseFails, Report
  <2> QED
    BY <1>2, <2>1, <2>2, <2>3, <2>4, <2>5 DEF CallStep
<1>3. ASSUME NEW c \in Calls, NEW q \in Requests, Begin(c, q)
      PROVE  \E p \in {"ensure", "done"} : pc' = [pc EXCEPT ![c] = p]
  BY <1>3 DEF Begin, Return, GoTo
<1>4. ASSUME NEW S, Die(S) PROVE \A c \in Calls : pc'[c] \in {"dead", pc[c]}
  BY <1>4 DEF Die
<1>5. CASE \E c \in Calls : CallStep(c) \/ \E q \in Requests : Begin(c, q)
  BY <1>1, <1>2, <1>3, <1>5 DEF StoreTypeOK
<1>6. CASE (\E i \in Instances : Crash(i)) \/ PowerLoss
  BY <1>4, <1>6 DEF Crash, PowerLoss
<1>7. CASE Investigate \/ UNCHANGED storeVars
  BY <1>7 DEF Investigate, storeVars, callVars
<1> QED
  BY <1>5, <1>6, <1>7 DEF StoreNext

\* "A surviving lock is never broken": with a lock that nobody holds, nobody
\* enters and no record advances, power losses included.
THEOREM SurvivingLockHolds == StoreSpec => SurvivingLockBlocks
<1> DEFINE Blocks == (lock /\ \A c \in Calls : pc[c] \notin Holding) =>
       /\ \A c \in Calls : pc'[c] \notin Holding
       /\ \A t \in Txns : files'.snapshot[t].revision <= files.snapshot[t].revision
<1>1. StoreInv /\ [StoreNext]_storeVars => [Blocks]_storeVars
  <2> SUFFICES ASSUME StoreInv, [StoreNext]_storeVars, lock, \A c \in Calls : pc[c] \notin Holding
               PROVE  /\ \A c \in Calls : pc'[c] \notin Holding
                      /\ \A t \in Txns : files'.snapshot[t].revision <= files.snapshot[t].revision
    OBVIOUS
  <2>1. \A c \in Calls : pc'[c] \notin Holding
    BY NobodyEnters
  <2>2. \A t \in Txns : files.snapshot[t].revision \in Nat
    BY SnapshotType DEF StoreInv, StoreTypeOK, DirTypeOK, SnapshotsAreWhole
  <2>3. \A c \in Calls : ~Rename(c)
    BY DEF Rename, GoTo, Holding, Writing
  <2>4. CASE files'.snapshot = files.snapshot
    BY <2>1, <2>2, <2>4
  <2>5. CASE PowerLoss
    BY <2>1, <2>5, PowerLossBounds
  <2> QED
    BY <2>3, <2>4, <2>5, VisibleStep
<1>2. StoreSpec => [][Blocks]_storeVars
  BY <1>1, StoreInvariant, PTL DEF StoreSpec
<1> QED
  BY <1>2 DEF SurvivingLockBlocks

---------------------------------------------------------------------------
\* The refinement of the durable compare-and-swap store.

\* The revisions of a complete snapshot.
LEMMA RevisionsOfSnapshot ==
  ASSUME NEW s \in Snapshots
  PROVE  RevisionOf(s) \in [Txns -> Nat] /\ \A t \in Txns : RevisionOf(s)[t] = s[t].revision
<1>1. s # Torn
  BY StoreAssumption, ContentsAssumption
<1>2. \A t \in Txns : s[t].revision \in Nat
  BY SnapshotType
<1> QED
  BY <1>1, <1>2 DEF RevisionOf

\* The rename moves the record of its transaction to the next revision.
LEMMA RenameSwaps ==
  ASSUME StoreInv, NEW c \in Calls, Rename(c)
  PROVE  /\ request[c].txn \in Txns /\ applied' = applied
         /\ RevisionOf(files'.snapshot) =
              [RevisionOf(files.snapshot) EXCEPT ![request[c].txn] = @ + 1]
<1> DEFINE s == files.snapshot
           x == request[c].txn
           n == next[c]
<1>1. CallKnows(c) /\ s \in Snapshots /\ n \in Snapshots
  BY DEF StoreInv, StoreTypeOK, DirTypeOK, SnapshotsAreWhole
<1>2. pc[c] = "rename" /\ files' = [snapshot |-> files.staging, staging |-> NoFile] /\ applied' = applied
  BY DEF Rename, GoTo, RenameStaging, SetFiles, history
<1>3. /\ request[c] \in Requests /\ request[c].kind = "cas"
      /\ n = WithRecord(s, c) /\ files.staging = n /\ s[x].revision = request[c].expected
  BY <1>1, <1>2 DEF CallKnows, Holding, Writing
<1>4. files'.snapshot = n
  BY <1>2, <1>3
<1>5. /\ x \in Txns /\ n[x].revision = request[c].expected + 1
      /\ \A t \in Txns : t # x => n[t] = s[t]
  BY <1>1, <1>3, WithRecordType, CasRequest
<1>6. /\ RevisionOf(s) \in [Txns -> Nat] /\ \A t \in Txns : RevisionOf(s)[t] = s[t].revision
      /\ RevisionOf(n) \in [Txns -> Nat] /\ \A t \in Txns : RevisionOf(n)[t] = n[t].revision
  BY <1>1, RevisionsOfSnapshot
<1>7. RevisionOf(n)[x] = RevisionOf(s)[x] + 1 /\ \A t \in Txns : t # x => RevisionOf(n)[t] = RevisionOf(s)[t]
  BY <1>3, <1>5, <1>6
<1> HIDE DEF s, x, n
<1>8. RevisionOf(n) = [RevisionOf(s) EXCEPT ![x] = @ + 1]
  BY <1>5, <1>6, <1>7
<1> QED
  BY <1>2, <1>4, <1>5, <1>8 DEF s, x, n

\* A returning call reports a revision that is in the store, or nothing new.
LEMMA ReportIsCas ==
  ASSUME StoreInv, NEW c \in Calls, pc[c] \in {"release", "releaseSync"}, Report(c), files' = files
  PROVE  \/ applied' = applied
         \/ \E t \in Txns, r \in Nat : /\ r \in (applied[t] + 1) .. RevisionOf(files.snapshot)[t]
                                       /\ applied' = [applied EXCEPT ![t] = r]
<1> DEFINE x == request[c].txn
           e == request[c].expected
<1> SUFFICES ASSUME applied' # applied
             PROVE  \E t \in Txns, r \in Nat :
                      /\ r \in (applied[t] + 1) .. RevisionOf(files.snapshot)[t]
                      /\ applied' = [applied EXCEPT ![t] = r]
  OBVIOUS
<1>1. StoreTypeOK /\ CallKnows(c) /\ SnapshotsAreWhole /\ files \in mayFiles
  BY DEF StoreInv, StoreTypeOK, DirTypeOK
<1>2. outcome[c] = "APPLIED" /\ applied[x] <= e /\ applied' = [applied EXCEPT ![x] = e + 1]
  BY DEF Report
<1>3. request[c] \in Requests /\ request[c].kind = "cas"
  BY <1>1 DEF CallKnows, Holding
<1>4. x \in Txns /\ e \in Nat
  BY <1>3, CasRequest
<1>5. applied[x] \in Nat
  BY <1>1, <1>4, StoreAssumption DEF StoreTypeOK
<1>6. files.snapshot[x].revision >= e + 1
  BY <1>1, <1>2 DEF CallKnows, Wrote
<1>7. RevisionOf(files.snapshot)[x] = files.snapshot[x].revision /\ RevisionOf(files.snapshot)[x] \in Nat
  BY <1>1, <1>4, RevisionsOfSnapshot DEF SnapshotsAreWhole
<1>8. e + 1 \in (applied[x] + 1) .. RevisionOf(files.snapshot)[x] /\ e + 1 \in Nat
  BY <1>2, <1>4, <1>5, <1>6, <1>7
<1> QED
  BY <1>2, <1>4, <1>8

\* Every step is a swap, a report, a loss of what was not reported, or a stutter.
LEMMA StoreStepIsCas ==
  ASSUME StoreInv, StoreInv', [StoreNext]_storeVars
  PROVE  [Cas!CasNext]_(Cas!casVars)
<1>1. files.snapshot \in Snapshots /\ files'.snapshot \in Snapshots
  BY DEF StoreInv, StoreTypeOK, DirTypeOK, SnapshotsAreWhole
<1>2. RevisionOf(files.snapshot)' = RevisionOf(files'.snapshot)
  BY DEF RevisionOf
<1>3. CASE files'.snapshot = files.snapshot /\ applied' = applied
  BY <1>2, <1>3 DEF Cas!casVars
<1>4. CASE \E c \in Calls : Rename(c)
  BY <1>2, <1>4, RenameSwaps DEF Cas!CasNext, Cas!Swap
<1>5. CASE \E c \in Calls : pc[c] \in {"release", "releaseSync"} /\ Report(c) /\ files' = files
  <2>1. RevisionOf(files.snapshot)' = RevisionOf(files.snapshot)
    BY <1>2, <1>5
  <2>2. \/ applied' = applied
        \/ \E t \in Txns, r \in Nat : /\ r \in (applied[t] + 1) .. RevisionOf(files.snapshot)[t]
                                      /\ applied' = [applied EXCEPT ![t] = r]
    BY <1>5, ReportIsCas
  <2> QED
    BY <2>1, <2>2 DEF Cas!CasNext, Cas!Report, Cas!casVars
<1>6. CASE PowerLoss
  <2>1. /\ applied' = applied
        /\ \A t \in Txns : /\ applied[t] <= files'.snapshot[t].revision
                           /\ files'.snapshot[t].revision <= files.snapshot[t].revision
    BY <1>6, PowerLossBounds
  <2>2. /\ RevisionOf(files'.snapshot) \in [Txns -> Nat]
        /\ \A t \in Txns : RevisionOf(files'.snapshot)[t] = files'.snapshot[t].revision
        /\ \A t \in Txns : RevisionOf(files.snapshot)[t] = files.snapshot[t].revision
    BY <1>1, RevisionsOfSnapshot
  <2>3. Cas!Forget
    BY <1>2, <2>1, <2>2 DEF Cas!Forget
  <2> QED
    BY <2>3 DEF Cas!CasNext
<1> QED
  BY <1>3, <1>4, <1>5, <1>6, VisibleStep

\* The protocol of lock, staging file, fsync, rename and directory fsync
\* implements the durable compare-and-swap store the control plane assumes.
THEOREM StoreIsDurableCas == StoreSpec => ImplementsDurableCas
<1>1. StoreInit => Cas!CasInit
  <2> SUFFICES ASSUME StoreInit PROVE Cas!CasInit
    OBVIOUS
  <2>1. EmptySnapshot \in Snapshots /\ \A t \in Txns : EmptySnapshot[t].revision = 0
    BY DEF EmptySnapshot, Snapshots, Absent
  <2>2. files.snapshot = EmptySnapshot
    BY DEF StoreInit, DirInit
  <2>3. EmptySnapshot # Torn
    BY <2>1, StoreAssumption, ContentsAssumption
  <2>4. RevisionOf(files.snapshot) = [t \in Txns |-> 0]
    BY <2>1, <2>2, <2>3 DEF RevisionOf
  <2> QED
    BY <2>4 DEF Cas!CasInit, StoreInit
<1>2. StoreInv /\ StoreInv' /\ [StoreNext]_storeVars => [Cas!CasNext]_(Cas!casVars)
  BY StoreStepIsCas
<1> QED
  BY <1>1, <1>2, StoreInvariant, PTL DEF StoreSpec, ImplementsDurableCas, Cas!CasSpec
=============================================================================
