---------------------------- MODULE EffectLedger ----------------------------
(***************************************************************************)
(* SafeCodingEffectLedger of packages/clodex-ledger: the durable record of *)
(* an execution ticket, its effect attempt and the evidence intent that is *)
(* closed with it.  Callers build a successor of the record they read and  *)
(* submit it by compare-and-swap; nothing is retried.  The executor of the *)
(* effect is outside the package: it runs the effect after                 *)
(* recordCommitPermit returned, and closes the record with what it saw.    *)
(* Recovery decides from a scan and acts on that decision later.  An       *)
(* admission of evidence needs a receipt that the process has verified and *)
(* not used before.                                                        *)
(*                                                                         *)
(* A record keeps what its validator tells apart: null or not for the      *)
(* consumption, the observed completion and the result, and the latest     *)
(* time.  Time is whatever the callers pass as now.                        *)
(***************************************************************************)
EXTENDS Naturals, FiniteSets

CONSTANTS
    Executors,      \* processes that prepare, permit, run and close
    Recoverers,     \* processes that scan and close what is open
    Deliverers,     \* processes that verify receipts and acknowledge evidence
    Transactions,   \* ticket ids
    Identities,     \* transaction -> the replay identities its record reserves
    ExpiresAt,      \* transaction -> expiresAt of its ticket
    Time,           \* what callers pass as now
    MaxCrashes,     \* bound on crashes
    Faults          \* "storage" answers are lost, "trust" in receipts is lost,
                    \* "early" attestations reach the evidence service before the close

VARIABLES
    store,          \* transaction -> durable record
    pc,             \* where each process stands
    op,             \* the mutation or the recovery decision each process holds
    usable,         \* process -> verified receipts it has not used yet
    receipts,       \* receipts the evidence service has issued
    revoked,        \* those it no longer stands by
    inFlight,       \* effects that were started and may still take place
    performed,      \* transaction -> how often its effect took place
    crashes

vars == <<store, pc, op, usable, receipts, revoked, inFlight, performed, crashes>>

All == Executors \cup Recoverers \cup Deliverers

ASSUME LedgerTimeAssumption ==
    Time \subseteq Nat /\ ExpiresAt \in [Transactions -> Nat]

ASSUME LedgerBoundAssumption == MaxCrashes \in Nat

PostPermit == {"COMMITTED", "RESULT_UNAVAILABLE", "UNCERTAIN"}
Terminal == PostPermit \cup {"FAILED_PRE_EFFECT"}

NoOp == [kind |-> "none"]

\* What an attestation of record r says; a receipt names it exactly.
Attestation(r) == [status |-> r.state, observed |-> r.observed, result |-> r.result]

Attestations == [status : Terminal, observed : BOOLEAN, result : BOOLEAN]

Receipts == [transaction : Transactions, attestation : Attestations, admittedAt : Time]

-----------------------------------------------------------------------------
\* transitions.ts: the successors of a record.

preparedRecord(now) ==
    [revision |-> 1, state |-> "PREPARED", consumed |-> FALSE, observed |-> FALSE,
     result |-> FALSE, evidence |-> "RESERVED", updatedAt |-> now]

permittedRecord(r, now) ==
    [r EXCEPT !.revision = @ + 1, !.state = "COMMIT_PERMIT", !.consumed = TRUE,
              !.updatedAt = now]

closedRecord(r, a, now) ==
    [r EXCEPT !.revision = @ + 1, !.state = a.status, !.observed = a.observed,
              !.result = a.result, !.evidence = "PENDING", !.updatedAt = now]

admittedRecord(r, now) ==
    [r EXCEPT !.revision = @ + 1, !.evidence = "ADMITTED", !.updatedAt = now]

\* The outcomes a close may attest: which fields each status requires.
AttestationAllowed(a) ==
    CASE a.status = "COMMITTED" -> a.observed /\ a.result
      [] a.status = "RESULT_UNAVAILABLE" -> a.observed
      [] a.status = "UNCERTAIN" -> a.result => a.observed
      [] a.status = "FAILED_PRE_EFFECT" -> ~a.observed /\ ~a.result

\* classifySafeCodingLedgerRecovery, for a record that is still open.
recoveryTarget(state) == IF state = "PREPARED" THEN "FAILED_PRE_EFFECT" ELSE "UNCERTAIN"

\* Mutant: a receipt is matched by the identities of the intent alone.
ReceiptBinds_Identity(receipt, t, r) ==
    receipt.transaction = t /\ r.updatedAt <= receipt.admittedAt

\* A receipt belongs to the pending evidence of the record: identities, the
\* attestation (checked when the successor is validated), and its time.
ReceiptBinds(receipt, t, r) ==
    /\ receipt.transaction = t
    /\ receipt.attestation = Attestation(r)
    /\ r.updatedAt <= receipt.admittedAt

-----------------------------------------------------------------------------
\* The persistence port: compareAndSwap of the reference store.

RevisionMatches(m) ==
    IF m.expected = 0 THEN m.transaction \notin DOMAIN store
    ELSE m.transaction \in DOMAIN store /\ store[m.transaction].revision = m.expected

\* assertSafeCodingLedgerSuccessor: record n may replace record r.
Successor(r, n) ==
    /\ n.revision = r.revision + 1
    /\ r.updatedAt <= n.updatedAt
    /\ \/ r.state = "PREPARED" /\ n.state \in {"COMMIT_PERMIT", "FAILED_PRE_EFFECT"}
       \/ r.state = "COMMIT_PERMIT" /\ n.state \in PostPermit
       \/ /\ r.state \in Terminal
          /\ r.evidence = "PENDING" /\ n.evidence = "ADMITTED"
          /\ Attestation(n) = Attestation(r) /\ n.consumed = r.consumed

MutationValid(m) ==
    IF m.expected = 0 THEN m.next.revision = 1 /\ m.next.state = "PREPARED"
    ELSE Successor(store[m.transaction], m.next)

\* safeCodingLedgerIdentityKeys: no other transaction owns one of them.
IdentitiesFree(m) ==
    \A t \in DOMAIN store \ {m.transaction} :
        Identities[t] \cap Identities[m.transaction] = {}

\* Mutant: the last writer wins.
CasAdmits_Blind(m) == IdentitiesFree(m)

CasAdmits(m) == RevisionMatches(m) /\ MutationValid(m) /\ IdentitiesFree(m)

Written(m) ==
    [t \in DOMAIN store \cup {m.transaction} |->
        IF t = m.transaction THEN m.next ELSE store[t]]

-----------------------------------------------------------------------------
Init ==
    /\ store = <<>>
    /\ pc = [p \in All |-> "idle"]
    /\ op = [p \in All |-> NoOp]
    /\ usable = [p \in All |-> {}]
    /\ receipts = {}
    /\ revoked = {}
    /\ inFlight = {}
    /\ performed = [t \in Transactions |-> 0]
    /\ crashes = 0

world == <<receipts, revoked, inFlight, performed, crashes>>

\* apply, up to the await of the compare-and-swap.
Submit(p, kind, t, expected, next) ==
    /\ pc' = [pc EXCEPT ![p] = "cas"]
    /\ op' = [op EXCEPT ![p] =
          [kind |-> kind, transaction |-> t, expected |-> expected, next |-> next]]

Finish(p) ==
    /\ pc' = [pc EXCEPT ![p] = "idle"]
    /\ op' = [op EXCEPT ![p] = NoOp]

\* mutate: read the record, compare its revision with the caller's, and build
\* the successor, which may not be older than the record.
Reads(t, expected, now) ==
    /\ t \in DOMAIN store
    /\ store[t].revision = expected
    /\ store[t].updatedAt <= now

createPrepared(p, t, now) ==
    /\ pc[p] = "idle" /\ now < ExpiresAt[t]
    /\ Submit(p, "prepare", t, 0, preparedRecord(now))
    /\ UNCHANGED <<store, usable, world>>

recordCommitPermit(p, t, now) ==
    /\ pc[p] = "idle" /\ t \in DOMAIN store /\ store[t].state = "PREPARED"
    /\ Reads(t, store[t].revision, now) /\ now < ExpiresAt[t]
    /\ Submit(p, "permit", t, store[t].revision, permittedRecord(store[t], now))
    /\ UNCHANGED <<store, usable, world>>

NoEffect == [status |-> "FAILED_PRE_EFFECT", observed |-> FALSE, result |-> FALSE]

closeFailedPreEffect(p, t, now) ==
    /\ pc[p] = "idle" /\ t \in DOMAIN store /\ store[t].state = "PREPARED"
    /\ Reads(t, store[t].revision, now)
    /\ Submit(p, "close", t, store[t].revision, closedRecord(store[t], NoEffect, now))
    /\ UNCHANGED <<store, usable, world>>

\* The executor acts on a returned permit, and only on that.
StartEffect(p) ==
    /\ pc[p] = "permitted"
    /\ pc' = [pc EXCEPT ![p] = "running"]
    /\ inFlight' = inFlight \cup {<<p, op[p].transaction>>}
    /\ UNCHANGED <<store, op, usable, receipts, revoked, performed, crashes>>

\* The effect takes place, whether or not its executor still waits for it.
EffectHappens(p, t) ==
    /\ <<p, t>> \in inFlight
    /\ inFlight' = inFlight \ {<<p, t>>}
    /\ performed' = [performed EXCEPT ![t] = @ + 1]
    /\ UNCHANGED <<store, pc, op, usable, receipts, revoked, crashes>>

\* What a truthful executor may attest: a completion only if it took place.
Truthful(p, a) ==
    a.observed => pc[p] = "running" /\ <<p, op[p].transaction>> \notin inFlight

\* closeCommitted, closeResultUnavailable and closeUncertain of the executor,
\* with the revision that its permit returned.
close(p, a, now) ==
    LET t == op[p].transaction
        expected == op[p].next.revision
    IN
    /\ pc[p] \in {"permitted", "running"}
    /\ a.status \in PostPermit /\ AttestationAllowed(a) /\ Truthful(p, a)
    /\ IF Reads(t, expected, now)
       THEN Submit(p, "close", t, expected, closedRecord(store[t], a, now))
       ELSE Finish(p)
    /\ UNCHANGED <<store, usable, world>>

\* scanRecovery: a decision about one open record, with its revision.  A closed
\* record is only ever given evidence work.
scanRecovery(p, t) ==
    /\ pc[p] = "idle" /\ t \in DOMAIN store /\ store[t].state \notin Terminal
    /\ pc' = [pc EXCEPT ![p] = "decided"]
    /\ op' = [op EXCEPT ![p] =
          [kind |-> "decision", transaction |-> t, expected |-> store[t].revision,
           target |-> recoveryTarget(store[t].state)]]
    /\ UNCHANGED <<store, usable, world>>

\* Acting on the decision, any time later.
actOnDecision(p, now) ==
    LET t == op[p].transaction
        a == [status |-> op[p].target, observed |-> FALSE, result |-> FALSE]
    IN
    /\ pc[p] = "decided"
    /\ IF Reads(t, op[p].expected, now)
       THEN Submit(p, "close", t, op[p].expected, closedRecord(store[t], a, now))
       ELSE Finish(p)
    /\ UNCHANGED <<store, usable, world>>

\* The attestations the evidence service may have been given: the outbox of the
\* ledger, and ahead of it what a caller sent before its close was applied.
Presented(t) ==
    {Attestation(store[u]) : u \in {v \in DOMAIN store : v = t /\ store[v].state \in Terminal}}
    \cup {Attestation(op[p].next) :
            p \in {q \in All : /\ "early" \in Faults /\ pc[q] = "cas"
                               /\ op[q].kind = "close" /\ op[q].transaction = t}}

\* The evidence service admits one attestation under its reserved id.
AdmitEvidence(t, admittedAt) ==
    /\ \E a \in Presented(t) :
          receipts' = receipts \cup
              {[transaction |-> t, attestation |-> a, admittedAt |-> admittedAt]}
    /\ \A r \in receipts : r.transaction # t
    /\ UNCHANGED <<store, pc, op, usable, revoked, inFlight, performed, crashes>>

\* Its checkpoint is rolled back or its key revoked.
Distrust(receipt) ==
    /\ "trust" \in Faults
    /\ receipt \in receipts \ revoked
    /\ revoked' = revoked \cup {receipt}
    /\ UNCHANGED <<store, pc, op, usable, receipts, inFlight, performed, crashes>>

\* verifySafeCodingEvidenceAdmissionReceipt: the verifier's answer, then its
\* synchronous fence; the object returned is good for one use.
verifyReceipt(p, receipt) ==
    /\ pc[p] = "idle" /\ receipt \in receipts \ revoked
    /\ usable' = [usable EXCEPT ![p] = @ \cup {receipt}]
    /\ UNCHANGED <<store, pc, op, world>>

\* markEvidenceAdmitted: the receipt is used up by the attempt, be it stale,
\* foreign, too old, or refused by the store afterwards.
markEvidenceAdmitted(p, receipt, t) ==
    /\ pc[p] = "idle" /\ t \in DOMAIN store
    /\ store[t].state \in Terminal /\ store[t].evidence = "PENDING"
    /\ receipt \in usable[p]
    /\ usable' = [usable EXCEPT ![p] = @ \ {receipt}]
    /\ IF receipt \notin revoked /\ ReceiptBinds(receipt, t, store[t])
       THEN Submit(p, "admit", t, store[t].revision,
                   admittedRecord(store[t], receipt.admittedAt))
       ELSE UNCHANGED <<pc, op>>
    /\ UNCHANGED <<store, world>>

\* apply, after the await.
CasApplied(p) ==
    /\ pc[p] = "cas" /\ CasAdmits(op[p])
    /\ store' = Written(op[p])
    /\ IF op[p].kind = "permit"
       THEN pc' = [pc EXCEPT ![p] = "permitted"] /\ UNCHANGED op
       ELSE Finish(p)
    /\ UNCHANGED <<usable, world>>

CasRefused(p) ==
    /\ pc[p] = "cas" /\ ~CasAdmits(op[p])
    /\ Finish(p)
    /\ UNCHANGED <<store, usable, world>>

\* Mutant: an unanswered permit is taken for granted.
CasUnanswered_Proceeds(p) ==
    /\ "storage" \in Faults
    /\ pc[p] = "cas"
    /\ \/ CasAdmits(op[p]) /\ store' = Written(op[p])
       \/ UNCHANGED store
    /\ IF op[p].kind = "permit"
       THEN pc' = [pc EXCEPT ![p] = "permitted"] /\ UNCHANGED op
       ELSE Finish(p)
    /\ UNCHANGED <<usable, world>>

\* persistence-unavailable: the mutation was applied, or it was not.
CasUnanswered(p) ==
    /\ "storage" \in Faults
    /\ pc[p] = "cas"
    /\ \/ CasAdmits(op[p]) /\ store' = Written(op[p])
       \/ UNCHANGED store
    /\ Finish(p)
    /\ UNCHANGED <<usable, world>>

\* A process dies with what it held, its verified receipts included.
Crash(p) ==
    /\ crashes < MaxCrashes /\ (pc[p] # "idle" \/ usable[p] # {})
    /\ Finish(p)
    /\ usable' = [usable EXCEPT ![p] = {}]
    /\ crashes' = crashes + 1
    /\ UNCHANGED <<store, receipts, revoked, inFlight, performed>>

Continue(p) ==
    \/ CasApplied(p) \/ CasRefused(p) \/ CasUnanswered(p)
    \/ StartEffect(p)
    \/ \E now \in Time : actOnDecision(p, now) \/ \E a \in Attestations : close(p, a, now)

Next ==
    \/ \E p \in Executors, t \in Transactions, now \in Time :
          createPrepared(p, t, now) \/ recordCommitPermit(p, t, now)
          \/ closeFailedPreEffect(p, t, now)
    \/ \E p \in Recoverers, t \in Transactions : scanRecovery(p, t)
    \/ \E p \in Deliverers : \E receipt \in receipts :
          verifyReceipt(p, receipt)
          \/ \E t \in Transactions : markEvidenceAdmitted(p, receipt, t)
    \/ \E p \in All : Continue(p) \/ Crash(p)
    \/ \E p \in Executors, t \in Transactions : EffectHappens(p, t)
    \/ \E t \in Transactions, at \in Time : AdmitEvidence(t, at)
    \/ \E receipt \in receipts : Distrust(receipt)

LedgerSpec == Init /\ [][Next]_vars

-----------------------------------------------------------------------------
Records ==
    [revision : 1..4, state : {"PREPARED", "COMMIT_PERMIT"} \cup Terminal,
     consumed : BOOLEAN, observed : BOOLEAN, result : BOOLEAN,
     evidence : {"RESERVED", "PENDING", "ADMITTED"}, updatedAt : Time]

Mutations ==
    [kind : {"prepare", "permit", "close", "admit"}, transaction : Transactions,
     expected : 0..3, next : Records]

Decisions ==
    [kind : {"decision"}, transaction : Transactions, expected : 1..4, target : Terminal]

\* The state has its types, and a process holds what its position needs.
LedgerTypeOK ==
    /\ DOMAIN store \subseteq Transactions
    /\ \A t \in DOMAIN store : store[t] \in Records
    /\ pc \in [All -> {"idle", "cas", "permitted", "running", "decided"}]
    /\ op \in [All -> Mutations \cup Decisions \cup {NoOp}]
    /\ \A p \in All :
          \/ pc[p] = "idle" /\ op[p] = NoOp
          \/ pc[p] = "cas" /\ op[p] \in Mutations
          \/ pc[p] \in {"permitted", "running"} /\ op[p] \in Mutations /\ op[p].kind = "permit"
          \/ pc[p] = "decided" /\ op[p] \in Decisions
    /\ receipts \subseteq Receipts /\ revoked \subseteq receipts
    /\ usable \in [All -> SUBSET Receipts]
    /\ inFlight \subseteq All \X Transactions
    /\ performed \in [Transactions -> Nat]
    /\ crashes \in 0..MaxCrashes

\* assertReachableRevision.
ReachableRevision(r) ==
    CASE r.state = "PREPARED" -> 1
      [] r.state = "COMMIT_PERMIT" -> 2
      [] r.state = "FAILED_PRE_EFFECT" -> IF r.evidence = "PENDING" THEN 2 ELSE 3
      [] r.state \in PostPermit -> IF r.evidence = "PENDING" THEN 3 ELSE 4

\* assertStateShape and assertTerminalShape.
ValidShape(r) ==
    /\ r.evidence = "RESERVED" <=> r.state \notin Terminal
    /\ r.consumed <=> r.state \in {"COMMIT_PERMIT"} \cup PostPermit
    /\ IF r.state \in Terminal THEN AttestationAllowed(Attestation(r))
       ELSE ~r.observed /\ ~r.result

\* Whoever reads the ledger next, after any race or crash, reads records that
\* validateSafeCodingLedgerRecord accepts: one invalid record would make every
\* scan, and with it every recovery, fail with persistence-invalid.  And a
\* mutation whose revision still matches is one the store's own check of the
\* successor accepts: a caller loses to a race or a replay, never to that check.
LedgerRecordsStayValid ==
    /\ \A t \in DOMAIN store :
          ValidShape(store[t]) /\ store[t].revision = ReachableRevision(store[t])
    /\ \A p \in All :
          pc[p] = "cas" /\ RevisionMatches(op[p]) => MutationValid(op[p])

\* Two tickets that share a nonce, a request, a reservation, an attempt or an
\* idempotency key lead to one effect, whatever races to prepare them.
OneEffectPerIdentity ==
    \A t, u \in Transactions :
        t # u /\ Identities[t] \cap Identities[u] # {} => performed[t] + performed[u] <= 1

\* The outcome of a closed record never changes: a late executor, a recoverer
\* with an old scan, or a deliverer adds at most the acknowledgement of the
\* evidence that was closed with it.
OutcomeIsFrozen ==
    [][\A t \in DOMAIN store :
          store[t].state \in Terminal /\ store'[t] # store[t] =>
              /\ store[t].evidence = "PENDING"
              /\ \E at \in Time : store[t].updatedAt <= at
                                  /\ store'[t] = admittedRecord(store[t], at)]_vars

\* Evidence is acknowledged only under a receipt for the very outcome that the
\* record was closed with, although an executor that lost the race may have
\* had another outcome admitted first: no admitted evidence contradicts the ledger.
AdmissionsAreBound ==
    \A t \in DOMAIN store :
        store[t].evidence = "ADMITTED" =>
            [transaction |-> t, attestation |-> Attestation(store[t]),
             admittedAt |-> store[t].updatedAt] \in receipts

-----------------------------------------------------------------------------
\* The inductive invariant.

ValidRecord(r) == ValidShape(r) /\ r.revision = ReachableRevision(r)

\* Mutation m was built on record r, by the operation that its kind names.
BuiltOn(m, r) ==
    LET now == m.next.updatedAt IN
    /\ r.updatedAt <= now
    /\ \/ m.kind = "permit" /\ r.state = "PREPARED" /\ m.next = permittedRecord(r, now)
       \/ /\ m.kind = "close"
          /\ \E a \in Attestations :
                /\ AttestationAllowed(a) /\ m.next = closedRecord(r, a, now)
                /\ \/ r.state = "PREPARED" /\ a.status = "FAILED_PRE_EFFECT"
                   \/ r.state = "COMMIT_PERMIT" /\ a.status \in PostPermit
       \/ m.kind = "admit" /\ r.state \in Terminal /\ r.evidence = "PENDING"
              /\ m.next = admittedRecord(r, now)

ReceiptFor(t, r) ==
    [transaction |-> t, attestation |-> Attestation(r), admittedAt |-> r.updatedAt]

\* A mutation or a decision is behind its record or was built on it; a process
\* with a permit has the permitted record in hand; what a process is about to
\* claim is true, and what it is about to acknowledge is admitted.
OpConsistent(p) ==
    LET m == op[p]
        t == m.transaction
    IN
    /\ pc[p] = "cas" =>
          \/ m.kind = "prepare" /\ m.expected = 0 /\ m.next = preparedRecord(m.next.updatedAt)
          \/ /\ m.kind # "prepare" /\ m.expected > 0
             /\ t \in DOMAIN store /\ m.expected <= store[t].revision
             /\ m.expected = store[t].revision => BuiltOn(m, store[t])
    /\ pc[p] = "cas" /\ m.kind = "close" => m.next.state \in Terminal
    /\ pc[p] = "cas" /\ m.next.observed => performed[t] = 1
    /\ pc[p] = "cas" /\ m.kind = "admit" => ReceiptFor(t, m.next) \in receipts
    /\ pc[p] = "decided" =>
          /\ t \in DOMAIN store /\ m.expected <= store[t].revision
          /\ m.expected = store[t].revision =>
                store[t].state \notin Terminal /\ m.target = recoveryTarget(store[t].state)
    /\ pc[p] \in {"permitted", "running"} =>
          t \in DOMAIN store /\ store[t].consumed /\ m.next.revision = 2
    /\ pc[p] = "running" /\ <<p, t>> \notin inFlight => performed[t] = 1

\* Process p may still bring about the effect of transaction t.
MayPerform(p, t) ==
    (pc[p] = "permitted" /\ op[p].transaction = t) \/ <<p, t>> \in inFlight

\* One process at most may bring about an effect, with a consumed permit and
\* before it took place; and a record claims no effect that did not.
EffectConsistent(t) ==
    /\ performed[t] <= 1
    /\ performed[t] = 1 => t \in DOMAIN store /\ store[t].consumed
    /\ \A p \in All : MayPerform(p, t) =>
          performed[t] = 0 /\ t \in DOMAIN store /\ store[t].consumed
    /\ \A p, q \in All : MayPerform(p, t) /\ MayPerform(q, t) => p = q
    /\ \A p \in All : pc[p] = "permitted" /\ op[p].transaction = t => <<p, t>> \notin inFlight
    /\ t \in DOMAIN store /\ store[t].observed => performed[t] = 1

\* No two records reserve the same identity.
IdentitiesDisjoint ==
    \A t, u \in DOMAIN store : t # u => Identities[t] \cap Identities[u] = {}

LedgerInv ==
    /\ LedgerTypeOK
    /\ \A t \in DOMAIN store : ValidRecord(store[t])
    /\ \A p \in All : OpConsistent(p)
    /\ \A t \in Transactions : EffectConsistent(t)
    /\ IdentitiesDisjoint
    /\ AdmissionsAreBound

-----------------------------------------------------------------------------
\* The ledger keeps the abstract promise: a permit is granted once, and no state
\* claims an effect that did not take place or denies one that did.
Decision(t) ==
    IF t \notin DOMAIN store THEN "open"
    ELSE CASE store[t].state = "PREPARED" -> "open"
           [] store[t].state = "COMMIT_PERMIT" -> "granted"
           [] store[t].state = "COMMITTED" -> "committed"
           [] store[t].state = "RESULT_UNAVAILABLE" -> "result-unavailable"
           [] store[t].state = "FAILED_PRE_EFFECT" -> "failed-no-effect"
           [] store[t].state = "UNCERTAIN" -> "uncertain"

Abstract == INSTANCE EffectOnce WITH
    Requests <- Transactions,
    authority <- [t \in Transactions |-> Decision(t)]

LedgerKeepsOneShotPromise == Abstract!EffectSpec

=============================================================================
