# CLODEx: verification of the safe-coding execution path

CLODEx is a local-first agentic IDE. Most of the repository is the desktop
application and its agent runtime; the part that decides whether an agent's
action may take effect, how often, and what is recorded about it is a group of
small packages named `packages/clodex-*`. They are this project's first subject: a
mistake there is silent, depends on interleavings and failures, and is hard to
reach with a test. Its second are two protocols of the application on which
everything it shows and runs depends: Karton, which keeps the pages' copies of the
state, and the supervisor of the agent host, which keeps the process that runs
agent turns alive.

## 1. Inventory

### The execution path

| Part | State | Operations | What must hold |
| --- | --- | --- | --- |
| **Kernel** (`clodex-kernel`) | contract lineages, tickets, consumed request and reservation ids, lineage budgets | activate, revoke, register a ticket, commit permit, fail before commit, settle | one live authority per lineage; a ticket is used once and only under the authority it binds; ids and budget are never given back |
| **Guardian** (`clodex-guardian`) | none of its own; reads the kernel and the clock | issue a ticket (several awaits), revalidate it | what it issued is still what the kernel considers active when it is used |
| **Runtime** (`clodex-runtime`) | one call of `execute` and its closing | Guardian, PREPARE, fence and permit, effect, attestation, settlement, and the failure path of each | an effect at most once per request, truthful attestations, every execution closed |
| **Control plane** (`clodex-control-plane`) | one durable record per transaction in a compare-and-swap store | prepare, consume permit, execute once, abort, recover, recover all, deliver evidence | the record is ahead of the effect; racing executors and recoverers cannot both win; no phase claims more than is known |
| **POSIX stores** (`clodex-control-plane-node`, `clodex-ledger-node`, `clodex-registry-node`) | snapshot file, staging file, lock directory | read, scan, compare-and-swap | a linearizable, durable store over crashes and power loss |
| **Effect ledger** (`clodex-ledger`) | one record per ticket, verified receipts not yet used | prepare, record the permit, close, scan and recover, acknowledge evidence | one effect per replay identity; an outcome is final; evidence is acknowledged only for the outcome the record has |
| **Approval** (`clodex-approval`) | pending reviews, consumed reviews and approvals | prepare a review, issue an approval, verify and consume it | one approval per review, accepted once and only while everything it rests on is live |
| **Evidence** (`clodex-evidence`) | local chain of attestations, shared checkpoint | append, restore | all instances hold prefixes of one history; records are committed only under trust |
| **Trust registry** (`clodex-registry`) | signed manifests and a head | publish, verify, advance the head | heads only advance |
| **Contracts** (`clodex-contracts`) | none | canonical JSON, validators, hashes | data formats |
| **Adapters** (`clodex-adapters`, `clodex-adapters-node`) | file system, git, test containers | prepare and execute one effect | one attempt per call, honest results |
| **Promotion, production** (`clodex-promotion`, `clodex-production`) | none | assessment, wiring | - |

### Around it

| Part | State | Operations | What must hold |
| --- | --- | --- | --- |
| **Karton** (`packages/karton`) | server state, connections, clients and pending calls at both ends | change the state, connect, reload, call, answer, close | pages converge to the server's state; an answer settles its own call; nothing waits on a closed connection |
| **Agent host** (`apps/browser/src/backend/agent-host`) | the worker process, its turns and calls, restart budget | spawn, ready, run or cancel a turn, serve a call, exit, restart, teardown | no turn is replayed; a settled turn holds no call; every turn settles; lost workers are replaced |

The rest is `packages/agent-core` (agents, pending edits, checkpoints), `packages/agent-shell`,
`packages/mcp-runtime`, `packages/runner-sdk`, `packages/stage-ui`, the Electron
application `apps/browser`, `apps/clodex-cli`, `apps/update-server`, `apps/website`.

### Interaction

The runtime calls the Guardian, which reads the kernel's active contract,
awaits adapters and policies, and registers a ticket. The runtime then prepares
the effect, revalidates, and asks the kernel for the commit permit
synchronously; only then does it call the adapter. It attests the result to the
evidence sink and settles the ticket. Operators activate, supersede and revoke
contracts at any time in between. The control plane does the same across
processes: every step is a read followed, after an await, by a compare-and-swap
on the record's revision with a synchronous fence inside it. Its store is a directory
that several processes share. The ledger keeps its own record of each ticket in the
same style and is acknowledged by the evidence ledger, whose instances share only a
checkpoint. Approvals are issued and consumed by concurrent calls in one isolate.

### What is hard

Authority that ends between a check and its use; a permit or a settlement that
is applied and whose answer is lost; a second call for a request whose effect
may have happened; an executor and a recoverer closing the same record; a crash
between the durable mark and the effect, or between the effect and its record; a
wall clock that steps back; a failing step among the several that close an
execution; a power loss between a rename and the fsync of its directory; a page that
is replaced while its calls are being served; a worker that dies with messages under
way. `PROJECT.json` lists these under `hazards`, each at its line.

## 2. Modules

| Module | What it is |
| --- | --- |
| `Kernel` | the kernel; every transition of `transitions.ts` that changes state is an action |
| `EffectOnce` | abstract specification: what is promised about one requested effect |
| `Runtime` | Guardian and runtime over `Kernel`; implements `EffectOnce` |
| `ControlPlane` | control plane over its store; implements `EffectOnce` |
| `EffectLedger` | effect ledger over its store; implements `EffectOnce` |
| `DurableCas` | abstract specification: what a durable compare-and-swap store promises |
| `PosixDirectory` | the directory of a snapshot store: entries, what is synchronised, power loss (external) |
| `PosixStore` | the control plane's durable store over `PosixDirectory`; implements `DurableCas` |
| `Approval` | approval service with its replay registry |
| `EvidenceChain` | evidence ledgers over one checkpoint |
| `KartonPorts` | Karton over Electron message ports |
| `AgentHost` | supervisor and worker of the agent host |
| `RuntimeProofs` | inductive invariants and theorems of `Kernel` and, over them, of `Runtime` |
| `ControlPlaneProofs`, `PosixStoreProofs`, `EffectLedgerProofs`, `ApprovalProofs`, `EvidenceProofs`, `KartonProofs`, `AgentHostProofs` | inductive invariants and theorems of the module each is named after |
| `MC...` | small instances for TLC |

### Kernel

`lineages`, `tickets`, `requestIds` and `reservationIds` are the fields of
`SafeCodingKernelState`. A transition that throws leaves the state alone and is
no action. A denied `commitPermit` is one (`DenyPermit`), because it consumes
the ticket. The time of every operation is an input, since the kernel never
compares one reading of the clock with an earlier one. Hashes are names, and
`Kernel` assumes what the validators establish: a contract's window is not
empty, revision 1 and only revision 1 has no predecessor, two verified contracts
with one hash are the same contract. `MaxSafeInteger` keeps the overflow check of
the budget.

### EffectOnce, Runtime

`EffectOnce` knows requests, a decision about each, and how often its effect took
place. Authority is refused or granted once (a supersession or revocation refuses it to several
requests in one step); the effect happens at most once and under granted authority; success is claimed only for an effect that
happened, its absence only if there is none and never will be; "uncertain"
claims nothing.

`Runtime` runs several `execute` calls in one event loop. An action is what
happens between two awaits at which another call or an operator may get in
between. The actions of an execution follow the code's order: `Begin`,
`GuardianAdmit`, `GuardianClock`, `GuardianSnapshot`, `GuardianRegister`, `Prepare`,
`revalidateExecutionTicket`, `PermitAndExecute`, `EffectHappens`,
`ExecuteReturns`, `AttestCommitted`, `SettleCommitted`, and the failure branches
of each (`GuardianDenies`, `PermitDenied`, `PermitLost`, `FenceFailed`,
`ExecuteThrows`, `CommittedSinkFails`, `SettleThrows`, `FailBeforeRead`, ...). The
kernel is the one of module `Kernel`, its actions used as they stand. `Faults` says what
may fail: the clock steps back, a call of the kernel port throws before or after it was
applied, the evidence sink rejects what it refused or what it has admitted. After
a lost answer of the sink, evidence of success stands beside a ticket that the runtime
settles as `result-unavailable` or `uncertain`; `AttestationsAreTruthful` allows that, since the effect
took place, and forbids every other combination. `closing` holds what the ticket will
be settled as, which is also the `terminalStatus` of the error that `execute` ends with
(place `failed`); an error without one, because the closing itself threw, is the place `escaped`.
`ReportsAreTruthful` compares that status with the ticket's, at the error and ever after.

### ControlPlane

`store` maps a transaction to its durable record: revision, phase, whether the
permit was consumed and the effect started, outbox and `updatedAt`. Everything
else in the record is fixed per transaction or a projection of the phase, which
`validateControlPlaneTransactionRecord` enforces. An operation is two steps:
it reads the record and builds its successor (`prepare`, `permit`, `executeOnce`,
`abortPrepared`, `recover`, `deliverEvidence`), and then the store applies or
refuses it (`CasApplied`, `CasRefused`) or fails without an answer
(`CasUnanswered`). After the applied in-flight mark, `executeOnce` goes on with
`CallEffect` and `ObserveEffect`. The effect itself (`EffectHappens`) is a step of
the outside world, which may come after the caller died. `recover` stands for one
record of `recoverAll` too; a pass that stops at a conflict is a recoverer
that comes back. The store keeps its contents over `Crash`: that is the contract
of a durable adapter (`adapter-declared-durable` in `storage.ts`), not of the
in-memory reference store, whose compare-and-swap is the one translated. As
the package's README says, a trust registry elsewhere is not atomic with the store: the
model's `Distrust` is the authority's own decision as its fence reports it.

### PosixDirectory, DurableCas, PosixStore

`ControlPlane` takes its store for granted; `PosixStore` is where it comes from.
`PosixDirectory` holds what the operating system keeps: the two files and the lock, what each
looks like now, and what the disk may show after a power loss, which is everything
since the last fsync of the directory. A file whose data was not synchronised may come back
torn. A call of the store goes through `Begin`, `EnsureBaseDirectory`, `LoadForRead` for a
read, and `AcquireLock`, `Check`, `OpenStaging`, `FsyncStaging`, `Rename`, `SyncAfterRename`,
`RemoveLock`, `Report` for a swap; every step has its failure, with `Reconcile` after a failed
fsync and the process-wide block after a failed release. `Crash` takes a process, `PowerLoss`
the machine, and `Investigate` is the operator whom the code asks to look at a lock or a
staging file that survived. `DurableCas` is the promise of
`POSIX_LOCAL_CONTROL_PLANE_DURABILITY`: revisions move one at a time, and what was
reported applied is never lost. The ledger's store is the same protocol without the
pre-commit fence.

### EffectLedger

The operations of `SafeCodingEffectLedger`, each a read followed by a compare-and-swap. The
effect itself is run by whoever called `recordCommitPermit`. Recovery scans, decides, and acts
on the decision later. The evidence service issues receipts for attestations, before the close
too ("early"), and may withdraw its trust in one; a receipt is verified and used once per
process. An executor that lost the race against a recoverer may therefore hold a valid receipt
for an outcome that the record does not have, which is what `AdmissionsAreBound` is about.

### Approval

A call of `CanonicalApprovalService` is a sequence of actions, one per stretch between awaits.
In between the clock advances, another reviewer signs in, a key is revoked, commitments
change. The user interface may answer with a challenge that differs from the one it was shown;
`consumeReview` takes the review out of the registry before it compares.
Signatures and parsing are external; an id stands for an id with its nonce.

### EvidenceChain

`append` await by await: verify the local chain, compare the checkpoint, verify the incoming
attestation, publish by compare-and-swap, read back, fence the trust, commit locally. The hash
of a record commits to everything before it, so a head hash is the chain itself. A ledger
may be restored from an older snapshot of its own chain, a compare-and-swap answer may be
lost, a signer may be revoked.

### KartonPorts

A connection is the n-th port under an id and the page at its other end. `state` counts
changes; the initial message carries the whole state and every later one a patch, in order, per
port. Both ends number their calls from 1, so that the answer of a handler that outlived its
page carries a number that its successor uses as well. The transport's map and the server's
map of clients are separate, as in the code. A post that throws closes its connection: `setPort` and
`setState` contain the case, where it changes what the others get; for a call or an answer of the main
process it is that action followed by `closeConnection`.

### AgentHost

The supervisor in the main process and its workers, numbered by launch, with a message
queue in each direction. Killing a worker does not stop the messages it has already sent. Model and
tool calls take the same path through the supervisor and are one kind of call; a turn may have several
under way, as adjacent file edits do. A call outside the contract of its turn is refused (`allowed`), and a
result that cannot be cloned is not posted and nobody told (`unposted`). Heartbeats
are abstracted to the choice of the health check to kill. The restart window slides: `windowPasses` may forget
any number of the restarts so far. A ready message with another protocol version is not modelled: the version
is one constant compiled into both processes.

## 3. Runs

| Run | Instance | Shows |
| --- | --- | --- |
| `kernel` | lineage C with revision 1 and two candidates for revision 2, lineage D; four tickets that collide on ids and objects; times 0..2 | chains, permittability, single use of ids, budgets; permits only under live authority; tickets one-shot |
| `runtime_faults` | two calls for one request, two revisions, times 0..1, all faults | the runtime implements `EffectOnce`, starts effects under live authority, attests truthfully although answers of sink and kernel are lost, reports in every error the status the ticket has, and success only when everything is in place |
| `runtime_closes` | the same, attestable results, only the sink fails | every execution ends with a terminal ticket |
| `runtime_manifest` | one execution, results that cannot be attested included | violated, see Findings |
| `control_plane_races` | two callers and a recoverer on one transaction, one crash, times 0..2 with the permit valid at 1 only, all faults | valid records and successors, calls recorded first, frozen terminal records, live permits, `EffectOnce` |
| `control_plane_closes` | three transactions, of which one shares a permit and a receipt with the second and a nonce with the third; a caller and a recoverer, one crash | one effect per permit and nonce; every prepared transaction is closed |
| `posix_store` | three calls of two processes, two transactions in a store with room for one record, two revisions; failures, crashes and power losses without bound | a refused swap is nowhere on disk, reads without the lock miss nothing acknowledged, a surviving lock blocks, `DurableCas` |
| `effect_ledger` | two executors, a recoverer and a deliverer on one ticket, one crash, times 0..1, lost answers, withdrawn trust, early receipts | bound admissions, frozen outcomes, `EffectOnce` |
| `approval` | two calls at a time, two contracts, reviewers and review ids, one approval id that may be drawn twice, times 0..2 | one approval per review; acceptance only while everything is live |
| `evidence_chain` | two ledgers, two appends at a time, four attestations of which two share a ticket, two signers, room for two records, two restores | one history; commits under trust |
| `karton_ports` | one id, two successive pages, one call at each end of each connection, two changes, one post that throws | convergence, answers to their calls, nothing waits on a closed connection, a late close never takes the replacement away |
| `agent_host` | one turn with two calls, one restart per window, two windows, one crash, one change of the summaries; workers may hang while they start, forks may throw, results may not be posted | no replay, no call outlives its turn, the worker's ledger follows, turns settle unless a result was not posted, workers recover |

Bounds. Three clock readings put a time before, inside and after a window of one
instant; two readings suffice where expiry alone matters. `MaxSafeInteger = 3` lets the budget
reach it. Two executions of one request are the replay; what a third could do, the
second can. In the control plane no record has more than five revisions, and a race
for one record needs a writer and a rival; the recoverer is a third. One crash can
fall on any step of any process. In the store, the second call of one process shows the
interleavings at awaits, the third call those between processes, and `MaxRecords = 1` makes the
limit bite; each call is made once, so that a run is at most three operations long but its
failures and power losses are not limited. A page that is replaced and its replacement are all
that Karton's maps can confuse. A review that lives for two instants can be used at two times, so that two
artifacts of it would differ. Two calls of one turn are what can be under way together. `MaxRestarts = 1` exhausts the restart budget within the run and
`MaxWindows = 1` replenishes it once. Every `Max...` constant and the finite sets `Time` are
the bounds in guards.

Symmetry is used only in runs without liveness, over processes, calls or transactions that the
constants treat alike.

Deadlock is checked for the control plane and for approvals. The other instances have finitely
many tickets, executions, calls or launches, and stop when these are used up.

Fairness. `runtime_closes` assumes that the event loop runs each execution on and that
what it awaits answers (weak fairness of `Step`); operators and the clock need not
move. `control_plane_closes` assumes that a process in the middle of an operation
goes on and that recoverers come back to open records, as a host that calls
`recoverAll` at start does; callers need never continue, and the effect need never
take place. It does not hold with a clock that steps back for good, since a record
cannot be closed at a time before its last update, nor with a store that never answers.
`agent_host` assumes that armed timers fire, that queued messages and exit events are
delivered in the main process, that a killed process exits, that a handler ends, and that a worker which has
reported ready takes its messages and ends a turn whose calls are all answered. It assumes nothing about a worker
that starts, which may hang until the ready timeout kills it, nor about crashes, forks that throw, aborts, teardown
or the health check; a ready worker that stops answering is one the health check kills. That a turn or a
handler ends is an assumption about what it runs (a model, a tool), which the supervisor itself does not enforce.

## 4. Findings

`runtime_manifest`: `docs/security/SECURITY_GUARANTEE_MANIFEST.md:341` says that post-permit
failures close `UNCERTAIN` or `RESULT_UNAVAILABLE`. An adapter result that
`validateAdapterResultObservation` accepts but that cannot be attested as committed makes
`createAttestation` throw outside every handler of `execute`; the effect has happened, the
ticket stays at its commit permit and nothing is attested.

Observations that no run states, met while modelling:

* Agent host, `supervisor.ts:383`. The ready timeout kills a child that is not ready and rejects
  `create()`, but leaves the child in place. A ready message that was already queued is still
  handled and makes the supervisor ready, so that the exit that follows is treated as the loss of a
  working host and schedules a restart, although the caller was told that the start
  failed. `AgentHost` contains this race and its properties hold with it.
* Agent host, `supervisor.ts:663`. `safeSend` logs a `postMessage` that throws and returns false, which the
  handlers of model and tool calls ignore (`supervisor.ts:798, 861`). A result that cannot be cloned
  is therefore never answered, and the turn stays pending until its caller aborts it or the worker
  goes. `AgentHost` contains the case, and `TurnsSettle` excepts exactly these turns.
* Runtime, `reference-runtime.ts:569`. When the settlement as committed was applied and its answer lost,
  the error reports `uncertain` although the ticket is committed: on the safe side, and the
  one difference that `ReportsAreTruthful` allows.
* Karton, `karton-server.ts:138`. A first post of the full state that throws closes the connection
  before the server's close handler is registered, so that the client stays listed;
  `SPEC.md:121` says that it is removed. Until the next page under the id replaces it, calls of
  the main process to that client are not rejected but wait for their timeout. `KartonPorts` contains the
  case, and `NothingWaitsOnClosed` excepts exactly these connections.
* Karton, `karton-server.ts:151`. Patches go only to transports that report themselves open; a
  websocket that is still connecting when the state changes has the full state queued and
  misses the patch. (`websocket/utils.ts:39` reports it open one tick after the start.) The application uses message ports, which are open from the start, and the
  websocket transport is not modelled.

## 5. Proofs

Eight modules hold theorems, for every value of the constants and without a bound on processes,
transactions or crashes other than those the module assumes. Every inductive invariant was
checked by TLC on the module's instance before it was proved.

### Kernel

`RuntimeProofs` proves in its first part, for every set of contracts, registrations and clock readings:

* `KernelInvariant`: every reachable state satisfies `KernelInv`.
* `TypeCorrect`: the state keeps its type.
* `ChainCorrect`: every lineage is one chain of revisions of which only the last can be active.
* `SnapshotCorrect`: `getActiveContract` and the transitions agree on the current revision.
* `PermittableCorrect`: a registered, unexpired ticket is always permittable, so that no stale
  ticket is left behind by a supersession or revocation.
* `PermitCorrect`: a permit is granted only under live authority and inside both windows.
* `OneShotCorrect`: a ticket is never dropped, rebound, reopened or permitted twice.
* `RevocationCorrect`: a revoked lineage is frozen and none of its tickets is permitted.
* `IdentitiesCorrect`: no two tickets ever share a request or reservation id, and no id is released.
* `BudgetCorrect`: the budget of a lineage is at every moment exactly what its tickets reserved, and
  the totals recorded with a ticket respected the limits of the revision that authorised it (the
  second half is `LimitsCorrect`).

The properties are not inductive. That a registered ticket can be permitted needs to
know that it binds the last revision of its lineage, that this revision is active and
that the ticket's window lies in the contract's; and that the record with the current
hash is the last one needs the chain. The inductive invariant is

    KernelInv == TypeOK /\ FiniteBudgets /\ LineageChain /\ RegisteredBound

where `LineageChain` says that the revisions of a lineage are numbered 1..n, all but the last
superseded, and that the epoch counts the authorities that ended; `RegisteredBound` that
every ticket belongs to a lineage on record and a registered one is bound to the last,
active revision; `FiniteBudgets` that the set of charged objects is finite, so that its
cardinality is a number. `CurrentIsLast` (searching by hash from either end finds the last revision) and
`EndAuthorityInv` (what supersession and revocation have in common) carry most of the argument; one
lemma per action gives `NextInv`. `BudgetCorrect` states a sum
over a set of tickets without a sum: the tickets of a lineage can be put in an order in which
the total recorded with each is the total before it plus what it reserved, and the last total is the
budget (`AccountFor`). A registration appends its ticket to the order, every other step keeps the
tickets, their totals and their reservations (`KeepsBudgets`), and `UsageCharged` shows that the new
budget is the old one plus the reservation, an object that was charged before counting for
nothing; for that and for the length of the order the sets must be finite. The three action properties rest on `NextTickets`: in every
step a ticket on record stays as it is, is closed, or is permitted, and a new one is
registered with an active lineage. The assumptions are those `Kernel` states about its
constants, and TLC evaluates them in every run of `kernel` and of the runtime.

### Runtime

`RuntimeProofs` proves, over these lemmas about the kernel, `RuntimeTypeCorrect`, `EvidenceTruthful` (with
lost answers of sink and kernel), `ReportsTruthful` (an error's terminal status is the
ticket's), `SuccessComplete`, `EffectsUnderLiveAuthority` and `RuntimeOneShotPromise`, the refinement of `EffectOnce`. The invariant is

    RuntimeInv == KernelInv /\ IdentitiesConsumedOnce /\ RuntimeTypeOK
                  /\ (every execution satisfies ExecutionInv)

`ExecutionInv` ties the place of an execution to four things that others change: `GuardianKnows` (what
it read from the clock and the kernel is still what its ticket would bind), `StageOf` (at each place,
the status its ticket may have by now, whether its effect may have happened, what is attested, how it
will close and, once it has failed, what it reported), `StatusIsTruthful` (the ticket never says more than happened) and `EvidenceIsTruthful` (neither do
the attestations). None of the properties is inductive alone: that an attested commit is
truthful depends on the permit, the permit on the registration, and all of them on no other
execution holding the same ticket, which is what `IdentitiesConsumedOnce` contributes. The refinement shows
for each action which decision of `EffectOnce` it is. Its proof refuted an earlier form
of `EffectOnce` in which authority was refused to one request at a time: one revocation
closes every registered ticket of the lineage, and those may belong to several requests, which an
instance with one request cannot show. The assumptions are those of `Kernel` and that time 0 is a
clock reading, that every execution runs under a verified contract, and that what the Guardian issues
inside the contract's window is a registration the kernel's validator accepts.

### Control plane

`ControlPlaneProofs` proves `TypeCorrect`, `ValidRecords`, `RecordedFirst`, `OneEffect`,
`TerminalFrozen`, `LivePermit`, and `OneShotPromise`, the refinement of `EffectOnce`. The invariant
is

    CPInv == CPTypeOK /\ (every record is a ValidRecord) /\ (every process is OpConsistent)
             /\ (every transaction is EffectConsistent) /\ IdentitiesDisjoint

None of the properties is inductive without what a process holds in its hands:
`OpConsistent` says that a mutation under way was built on a record that the store had at
that revision, so that if the revision still matches, the record does too; and that a
process between the in-flight mark and its answer owns the only call of its
transaction. `EffectConsistent` counts calls and effects against the phase of the record, and
`IdentitiesDisjoint` says that no two records share a permit, receipt or nonce. One lemma per
action shows that it preserves `CPInv`; the refinement maps each action to a step of `EffectOnce`
or to a stutter.

### POSIX store

`PosixStoreProofs` proves `StoreTypeCorrect`, `MutualExclusion`, `ReportedSurvives`, `RefusalsAreFinal`,
`ReadsAreCurrent`, `SurvivingLockHolds` and `StoreIsDurableCas`, the refinement of `DurableCas`, for any number
of processes, calls, records, failures and power losses. The invariant is

    StoreInv == StoreTypeOK /\ LockHeldOnce /\ SnapshotsAreWhole /\ NothingReportedIsLost
                /\ (every call satisfies CallKnows)

`LockHeldOnce` says that at most one call is in the section between `mkdir` and `rmdir` of the lock, and that
the lock is then there. `SnapshotsAreWhole` and `NothingReportedIsLost` speak of every state that the disk may
show after a power loss, not only of the present one: none has a torn snapshot, and each has what was
reported applied. `CallKnows` is what the code of a call relies on at each place: the snapshot it
builds on is still the one in the directory, the staging file is what it wrote and is synchronised before the
rename, and nothing of it can come to light until then. Only with the last does `RefusedIsNotWritten`
become inductive; that the staging file is synchronised before the rename is what keeps `SnapshotsAreWhole`. The
assumptions name the contents a file may have and keep the marks for "no file", "torn" and "no
answer" apart from them.

### Effect ledger

`EffectLedgerProofs` proves `TypeCorrect`, `ValidRecords`, `OneEffect`, `BoundAdmissions`,
`OutcomeFrozen` and `OneShotPromise`. `LedgerInv` has the shape of `CPInv`, with two additions:
`MayPerform` says which process may still run the effect of a permitted record, a right that
ends with a crash or with the close, and `ReceiptFor` that an acknowledgement under way holds a
receipt for the record it was built on. The second is what makes `AdmissionsAreBound` inductive.

### Approval

`ApprovalProofs` proves `TypeCorrect`, `OneApproval`, `TamperedIssueNothing`, `ConsumedOnce`,
`EndsWithContract` and `AcceptedLive`. `ApprovalInv` ties each call to what it holds:
a call that has taken a review out of the registry is the only one that holds it, an
artifact under way ends with its contract and within its own time to live (not with its
review, which it may outlive), and an issued artifact's review is
consumed.

### Evidence

`EvidenceProofs` proves `TypeCorrect`, `OneHistory`, `AdmittedStays`, `UniqueEvidence`,
`PublishedOwnsHead` and `CommitsTrusted`. `EvidenceInv` says that every local chain is a prefix of
the published head, that an append past its publication extends exactly the chain it verified
(`AppendIsConsistent`), and that what was admitted stays below the head.

### Karton

`KartonProofs` proves `KartonTypeCorrect`, `AnswersAreTheirs`, `OpenAreCurrent`, `NoneWaitsOnClosed` and
`PagesAreCurrent`, for any finite set of ids and any bounds on ports, calls and changes. The invariant is

    KartonInv == KartonPortsTypeOK /\ PortsInOrder /\ MapsAgree /\ AnswersNameTheirCall /\ CopiesInStep
                 /\ AnswersReachTheirCall /\ OpenConnectionsAreCurrent /\ NothingWaitsOnClosed

`PortsInOrder` says that the ports under an id were set one after the other and that those not yet set are
untouched; `MapsAgree` that the transport's and the server's map name the last of them or nothing;
`AnswersNameTheirCall` that an answer under way on a connection belongs to the call of that connection whose number it carries. `PagesConverge`
says that for the page of an open connection there is a function `g` that gives the revision its copy will have
after each of the messages under way, such that every patch finds its predecessor and the last
value is the server's revision. `CopiesInStep` says the same, but for the end, of pages behind connections that
closed, which still take what was sent to them. A message that is posted extends `g`, one that arrives
shifts it. `PagesAreCurrent` states `PagesConverge` and `QuietPagesAreCurrent`: a page that has taken everything
is exactly current. That
there are finitely many ids is needed to count the posts of a broadcast that throw.

### Agent host

`AgentHostProofs` proves `AgentHostTypeCorrect`, `TurnsNeverReplayed`, `SettledHoldNoCalls` and `LedgersFollow`,
for any finite set of turns and any bounds on calls, restarts, windows, crashes and revisions. The
invariant is

    AgentHostInv == AgentHostTypeOK /\ LaunchesArePaid /\ WorkersSpeakLate
                    /\ (every turn satisfies TurnStartsOnce) /\ (every call satisfies CallIsMadeOnce)
                    /\ SettledTurnsHoldNoCalls /\ LedgerFollowsStore

That a turn is not replayed depends on the queues, which outlive the workers at their ends.
`TurnStartsOnce` says that an execute message is in one inbox at most, once, and only before any worker
began the turn, and that only a worker that began it has it active. `CallIsMadeOnce` says the
same of a call request: it is under way once at most, only for a call that its turn has made and that
was not served. `LaunchesArePaid` bounds the launches by what the restart budgets of the windows
allow, so that a restart that is due has a launch number left. `WorkersSpeakLate` says that a worker sends nothing
before it runs and that a supervisor that is ready has heard its child; with it the
acknowledgement that makes the supervisor ready is never that of a child which was not launched.
`LedgerFollowsStore` reads the inbox directly (`Learns`): the last summary in it, or the ledger if there is
none, has the latest revision. The lemmas about the queues (a message posted to one worker, a list of
messages appended, the first one taken) say what each step does to "under way" and "at most once", and one
lemma per handler of the supervisor and per step of a worker combines them. That there are finitely many
turns is assumed because the teardown sends one cancellation per pending turn, as a sequence.

### Only model-checked

Liveness: `ExecutionsClose`, `PreparedTransactionsClose`, `TurnsSettle` and `WorkersRecover` are checked by TLC
under the fairness of section 3, since liveness under fairness and ENABLED are out of the proof
system's reach. Every invariant, action property and refinement that a passing run checks is stated by a theorem.

## 6. Not modelled

* Trust registry and its head store: a compare-and-swap of a chain of signed heads, of which
  `EvidenceChain` is the richer case, over a store with the protocol of `PosixStore`.
* Promotion and production: assessment of fixed evidence and wiring; they own no state that
  two parties change.
* Contracts: canonical JSON, schemas, hashes, signatures; byte, depth and count limits of inputs and
  scans; the wording of errors. Their semantic rules are in the assumptions and guards of `Kernel` and
  `Runtime`.
* Adapters: what an adapter may do and report is in `Runtime` (`Observations`); what the single file,
  git and container adapters do to a workspace is not.
* Agent core: `base-agent.ts` interleaves steps, queued messages, approvals and interruptions, and is the
  largest state machine left. Its steps mostly assemble prompts, run tools and update user interface
  state, and its control is spread over the class and its store. A module of its step continuation
  (`settleStepContinuation`, `canRunStep`, the queue and the approval pauses) is possible.
* The desktop application beyond the agent host, MCP runtime, agent shell, runner SDK, CLI, update server,
  website and UI kit: rendering, platform services, process plumbing, packaging.

The models therefore cover a small share of the repository's lines. Most of the rest is user interface,
prompts, scripts and I/O whose correctness is not a matter of states and steps.

## 7. Plan

1. `RecoverAll` as a pass over a scan that stops at the first conflict, in `ControlPlane`.
2. The trust registry's head under concurrent publication and agent core's step continuation, in place of
   a run that a theorem has made redundant.
