---------------------------- MODULE ControlPlane ----------------------------
(***************************************************************************)
(* ExecutionControlPlane of packages/clodex-control-plane: processes that  *)
(* prepare, permit, execute, abort, recover and deliver transactions       *)
(* through one linearizable compare-and-swap store, crash at any point and *)
(* lose every answer of the store.  An operation reads the record, builds  *)
(* its successor and submits it in a later step, so any other process may  *)
(* move in between.  The external effect is outside the store: it takes    *)
(* place, or not, some time after the effect port was called, even when    *)
(* the calling process has died.                                           *)
(*                                                                         *)
(* Left out of a record: identities, which are constants of a transaction, *)
(* and the fields the validator shows to be projections of the phase       *)
(* (ticket, ledger, terminal evidence).                                    *)
(***************************************************************************)
EXTENDS Naturals, FiniteSets

CONSTANTS
    Processes,      \* processes that may run every operation
    Recoverers,     \* processes that only run recoverAll
    Transactions,
    Nonces,         \* transaction -> identities reserved with PREPARED
    PermitIds,      \* transaction -> permitId of the COMMIT_PERMIT offered to it
    AdmittedAt,     \* transaction -> admittedAt of that permit
    ExpiresAt,      \* transaction -> expiresAt of that permit
    ReceiptIds,     \* transaction -> receiptId of its evidence receipt
    Time,           \* readings of the clock
    MaxCrashes,     \* bound on crashes
    Faults          \* "clock" steps back, "storage" answers are lost

VARIABLES
    store,          \* transaction -> durable record
    clock,
    distrusted,     \* transactions whose permit the authority has withdrawn
    pc,             \* where each process stands
    op,             \* the mutation each process has built
    inFlight,       \* effect calls whose effect may still take place
    calls,          \* transaction -> how often its effect port was called
    performed,      \* transaction -> how often its effect took place
    crashes

vars == <<store, clock, distrusted, pc, op, inFlight, calls, performed, crashes>>
effects == <<inFlight, calls, performed>>

All == Processes \cup Recoverers

ASSUME TimeAssumption == Time \subseteq Nat /\ 0 \in Time
ASSUME BoundAssumption == MaxCrashes \in Nat
ASSUME PermitAssumption ==
    /\ AdmittedAt \in [Transactions -> Nat]
    /\ ExpiresAt \in [Transactions -> Nat]
    /\ \A t \in Transactions : AdmittedAt[t] <= ExpiresAt[t]

Terminal == {"COMMITTED", "RESULT_UNAVAILABLE", "FAILED_PRE_EFFECT", "UNCERTAIN"}
Phase == {"PREPARED", "COMMIT_PERMIT", "EFFECT_IN_FLIGHT"} \cup Terminal

NoOp == [kind |-> "none"]

-----------------------------------------------------------------------------
\* transitions.ts: the successors of a record at time now.

createPrepared(now) ==
    [revision |-> 1, phase |-> "PREPARED", permitted |-> FALSE, started |-> FALSE,
     outbox |-> "RESERVED", updatedAt |-> now]

consumeCommitPermit(r, now) ==
    [r EXCEPT !.revision = @ + 1, !.phase = "COMMIT_PERMIT", !.permitted = TRUE,
              !.updatedAt = now]

\* Mutant: the start of the effect is not recorded with the phase.
markEffectInFlight_NotStarted(r, now) ==
    [r EXCEPT !.revision = @ + 1, !.phase = "EFFECT_IN_FLIGHT", !.updatedAt = now]

markEffectInFlight(r, now) ==
    [r EXCEPT !.revision = @ + 1, !.phase = "EFFECT_IN_FLIGHT", !.started = TRUE,
              !.updatedAt = now]

closeTerminal(r, phase, now) ==
    [r EXCEPT !.revision = @ + 1, !.phase = phase, !.outbox = "READY", !.updatedAt = now]

markEvidenceDelivered(r, now) ==
    [r EXCEPT !.revision = @ + 1, !.outbox = "DELIVERED", !.updatedAt = now]

\* classifyControlPlaneRecovery: the phases that recovery closes, and as what.
\* Mutant: a permit whose effect has not started is left for its executor.
Recoverable_NotPermitted == {"PREPARED", "EFFECT_IN_FLIGHT"}

Recoverable == {"PREPARED", "COMMIT_PERMIT", "EFFECT_IN_FLIGHT"}

recoveryPhase(phase) ==
    IF phase = "PREPARED" THEN "FAILED_PRE_EFFECT" ELSE "UNCERTAIN"

-----------------------------------------------------------------------------
\* The storage port: read, and compareAndSwap with its pre-commit fence.

PermitCurrent(t) == AdmittedAt[t] <= clock /\ clock <= ExpiresAt[t]

\* Mutant: the permit is checked when the mutation is built, not when it commits.
FencePasses_AtAdmission(m) == TRUE

\* permitFence: time and trust of the permit, checked inside the transaction.
FencePasses(m) ==
    m.kind \in {"permit", "arm"} =>
        PermitCurrent(m.transaction) /\ m.transaction \notin distrusted

RevisionMatches(m) ==
    IF m.expected = 0 THEN m.transaction \notin DOMAIN store
    ELSE m.transaction \in DOMAIN store /\ store[m.transaction].revision = m.expected

\* Mutant: only the identities known at PREPARED are reserved.
IdentityKeys_AtPrepared(t, r) == {<<"nonce", n>> : n \in Nonces[t]}

\* controlPlaneIdentityKeys: what record r of transaction t reserves.
IdentityKeys(t, r) ==
    UNION {{<<"nonce", n>> : n \in Nonces[t]},
           IF r.permitted THEN {<<"commit-permit", PermitIds[t]>>} ELSE {},
           IF r.outbox = "DELIVERED" THEN {<<"evidence-receipt", ReceiptIds[t]>>} ELSE {}}

IdentitiesFree(m) ==
    \A u \in DOMAIN store \ {m.transaction} :
        IdentityKeys(u, store[u]) \cap IdentityKeys(m.transaction, m.next) = {}

AllowedPhaseTransition(from, to) ==
    \/ from = "PREPARED" /\ to \in {"COMMIT_PERMIT", "FAILED_PRE_EFFECT"}
    \/ from = "COMMIT_PERMIT" /\ to \in {"EFFECT_IN_FLIGHT", "UNCERTAIN"}
    \/ from = "EFFECT_IN_FLIGHT" /\ to \in Terminal
    \/ from \in Terminal /\ from = to

\* assertControlPlaneSuccessor: record n may replace record r.
Successor(r, n) ==
    /\ n.revision = r.revision + 1
    /\ r.updatedAt <= n.updatedAt
    /\ AllowedPhaseTransition(r.phase, n.phase)
    /\ r.permitted => n.permitted
    /\ n.outbox = CASE r.outbox = "RESERVED" ->
                           IF n.phase \in Terminal THEN "READY" ELSE "RESERVED"
                    [] r.outbox # "RESERVED" -> "DELIVERED"
    /\ r.outbox # "DELIVERED"

\* What the store throws for, rather than answer with a conflict.
MutationValid(m) ==
    IF m.expected = 0 THEN m.next.revision = 1 /\ m.next.phase = "PREPARED"
    ELSE Successor(store[m.transaction], m.next)

\* Mutant: the last writer wins.
CasAdmits_Blind(m) == IdentitiesFree(m) /\ FencePasses(m)

CasAdmits(m) ==
    RevisionMatches(m) /\ MutationValid(m) /\ IdentitiesFree(m) /\ FencePasses(m)

Written(m) ==
    [t \in DOMAIN store \cup {m.transaction} |->
        IF t = m.transaction THEN m.next ELSE store[t]]

-----------------------------------------------------------------------------
Init ==
    /\ store = <<>>
    /\ clock = 0
    /\ distrusted = {}
    /\ pc = [p \in All |-> "idle"]
    /\ op = [p \in All |-> NoOp]
    /\ inFlight = {}
    /\ calls = [t \in Transactions |-> 0]
    /\ performed = [t \in Transactions |-> 0]
    /\ crashes = 0

\* Every operation builds one mutation and then submits it.
Submit(p, kind, t, expected, next) ==
    /\ pc' = [pc EXCEPT ![p] = "cas"]
    /\ op' = [op EXCEPT ![p] =
          [kind |-> kind, transaction |-> t, expected |-> expected, next |-> next]]

\* An operation reads a record of the revision and phase it expects; the
\* successor it builds at time now may not be older than the record.
Reads(p, t, phases, now) ==
    /\ pc[p] = "idle"
    /\ t \in DOMAIN store
    /\ store[t].phase \in phases
    /\ store[t].updatedAt <= now

prepare(p, t) ==
    /\ pc[p] = "idle"
    /\ Submit(p, "prepare", t, 0, createPrepared(clock))
    /\ UNCHANGED <<store, clock, distrusted, effects, crashes>>

permit(p, t) ==
    /\ Reads(p, t, {"PREPARED"}, clock)
    /\ PermitCurrent(t) /\ t \notin distrusted
    /\ Submit(p, "permit", t, store[t].revision, consumeCommitPermit(store[t], clock))
    /\ UNCHANGED <<store, clock, distrusted, effects, crashes>>

executeOnce(p, t) ==
    /\ Reads(p, t, {"COMMIT_PERMIT"}, clock)
    /\ clock <= ExpiresAt[t]
    /\ Submit(p, "arm", t, store[t].revision, markEffectInFlight(store[t], clock))
    /\ UNCHANGED <<store, clock, distrusted, effects, crashes>>

abortPrepared(p, t) ==
    /\ Reads(p, t, {"PREPARED"}, clock)
    /\ Submit(p, "abort", t, store[t].revision,
              closeTerminal(store[t], "FAILED_PRE_EFFECT", clock))
    /\ UNCHANGED <<store, clock, distrusted, effects, crashes>>

\* recover, and each record of recoverAll.
recover(p, t) ==
    /\ Reads(p, t, Recoverable, clock)
    /\ Submit(p, "recover", t, store[t].revision,
              closeTerminal(store[t], recoveryPhase(store[t].phase), clock))
    /\ UNCHANGED <<store, clock, distrusted, effects, crashes>>

\* The time is the receipt's admittedAt, which the evidence service chose.
deliverEvidence(p, t, admittedAt) ==
    /\ Reads(p, t, Terminal, admittedAt)
    /\ store[t].outbox = "READY"
    /\ Submit(p, "deliver", t, store[t].revision, markEvidenceDelivered(store[t], admittedAt))
    /\ UNCHANGED <<store, clock, distrusted, effects, crashes>>

\* apply: the store decides; only an applied in-flight mark leads on.
Finish(p) ==
    /\ pc' = [pc EXCEPT ![p] = "idle"]
    /\ op' = [op EXCEPT ![p] = NoOp]

\* Mutant: a refused arming is taken for an earlier success of the same call.
CasRefused_Proceeds(p) ==
    /\ pc[p] = "cas" /\ (~CasAdmits(op[p]) \/ op[p].kind = "deliver")
    /\ IF op[p].kind = "arm"
       THEN pc' = [pc EXCEPT ![p] = "armed"] /\ UNCHANGED op
       ELSE Finish(p)
    /\ UNCHANGED <<store, clock, distrusted, effects, crashes>>

CasApplied(p) ==
    /\ pc[p] = "cas" /\ CasAdmits(op[p])
    /\ store' = Written(op[p])
    /\ IF op[p].kind = "arm"
       THEN pc' = [pc EXCEPT ![p] = "armed"] /\ UNCHANGED op
       ELSE Finish(p)
    /\ UNCHANGED <<clock, distrusted, effects, crashes>>

\* The trust fence of the evidence receipt is external and may always refuse.
CasRefused(p) ==
    /\ pc[p] = "cas" /\ (~CasAdmits(op[p]) \/ op[p].kind = "deliver")
    /\ Finish(p)
    /\ UNCHANGED <<store, clock, distrusted, effects, crashes>>

\* Mutant: an unanswered arming is taken for applied.
CasUnanswered_Proceeds(p) ==
    /\ "storage" \in Faults
    /\ pc[p] = "cas"
    /\ \/ CasAdmits(op[p]) /\ store' = Written(op[p])
       \/ UNCHANGED store
    /\ IF op[p].kind = "arm"
       THEN pc' = [pc EXCEPT ![p] = "armed"] /\ UNCHANGED op
       ELSE Finish(p)
    /\ UNCHANGED <<clock, distrusted, effects, crashes>>

\* The store fails; whether it applied the mutation is unknown to the caller.
CasUnanswered(p) ==
    /\ "storage" \in Faults
    /\ pc[p] = "cas"
    /\ \/ CasAdmits(op[p]) /\ store' = Written(op[p])
       \/ UNCHANGED store
    /\ Finish(p)
    /\ UNCHANGED <<clock, distrusted, effects, crashes>>

\* executeOnce continues: the effect port is called, exactly here.
CallEffect(p) ==
    LET t == op[p].transaction IN
    /\ pc[p] = "armed"
    /\ pc' = [pc EXCEPT ![p] = "called"]
    /\ inFlight' = inFlight \cup {<<p, t>>}
    /\ calls' = [calls EXCEPT ![t] = @ + 1]
    /\ UNCHANGED <<store, clock, distrusted, op, performed, crashes>>

\* The effect takes place, whether or not the caller still waits for it.
EffectHappens(p, t) ==
    /\ <<p, t>> \in inFlight
    /\ inFlight' = inFlight \ {<<p, t>>}
    /\ performed' = [performed EXCEPT ![t] = @ + 1]
    /\ UNCHANGED <<store, clock, distrusted, pc, op, calls, crashes>>

\* What a truthful port may answer; a throw or an invalid answer is UNCERTAIN.
Observable(p, t) ==
    {"UNCERTAIN"} \cup
        IF <<p, t>> \in inFlight THEN {"FAILED_PRE_EFFECT"}
                                 ELSE {"COMMITTED", "RESULT_UNAVAILABLE"}

ObserveEffect(p, outcome) ==
    LET t == op[p].transaction
        armed == op[p].next
    IN
    /\ pc[p] = "called"
    /\ outcome \in Observable(p, t)
    /\ inFlight' = IF outcome = "FAILED_PRE_EFFECT" THEN inFlight \ {<<p, t>>} ELSE inFlight
    /\ IF armed.updatedAt <= clock
       THEN Submit(p, "close", t, armed.revision, closeTerminal(armed, outcome, clock))
       ELSE Finish(p)
    /\ UNCHANGED <<store, clock, distrusted, calls, performed, crashes>>

\* A process dies and restarts; the effect it called may still take place.
Crash(p) ==
    /\ crashes < MaxCrashes
    /\ pc[p] # "idle"
    /\ Finish(p)
    /\ crashes' = crashes + 1
    /\ UNCHANGED <<store, clock, distrusted, effects>>

Distrust(t) ==
    /\ t \notin distrusted
    /\ distrusted' = distrusted \cup {t}
    /\ UNCHANGED <<store, clock, pc, op, effects, crashes>>

Tick ==
    /\ \/ clock' = clock + 1
       \/ "clock" \in Faults /\ clock' = clock - 1
    /\ clock' \in Time
    /\ UNCHANGED <<store, distrusted, pc, op, effects, crashes>>

Continue(p) ==
    \/ CasApplied(p) \/ CasRefused(p) \/ CasUnanswered(p)
    \/ CallEffect(p)
    \/ \E outcome \in Terminal : ObserveEffect(p, outcome)

Next ==
    \/ \E p \in Processes, t \in Transactions :
          \/ prepare(p, t) \/ permit(p, t) \/ executeOnce(p, t)
          \/ abortPrepared(p, t) \/ \E at \in Time : deliverEvidence(p, t, at)
    \/ \E p \in All, t \in Transactions : recover(p, t) \/ EffectHappens(p, t)
    \/ \E p \in All : Continue(p) \/ Crash(p)
    \/ \E t \in Transactions : Distrust(t)
    \/ Tick

Spec == Init /\ [][Next]_vars

\* Processes that run are scheduled, the effect port answers, and at least the
\* recoverers come back to every record that is still open.
Fairness ==
    /\ \A p \in All : WF_vars(Continue(p))
    /\ \A p \in Recoverers, t \in Transactions : WF_vars(recover(p, t))

FairSpec == Spec /\ Fairness

-----------------------------------------------------------------------------
Records ==
    [revision : 1..5, phase : Phase, permitted : BOOLEAN, started : BOOLEAN,
     outbox : {"RESERVED", "READY", "DELIVERED"}, updatedAt : Time]

Mutations ==
    [kind : {"prepare", "permit", "arm", "abort", "recover", "deliver", "close"},
     transaction : Transactions, expected : 0..4, next : Records]

\* The state has its types: the store holds well-shaped records, and a process
\* that is not idle holds the mutation it is about to submit or has submitted.
CPTypeOK ==
    /\ DOMAIN store \subseteq Transactions
    /\ \A t \in DOMAIN store : store[t] \in Records
    /\ clock \in Time
    /\ distrusted \subseteq Transactions
    /\ pc \in [All -> {"idle", "cas", "armed", "called"}]
    /\ op \in [All -> Mutations \cup {NoOp}]
    /\ \A p \in All :
          \/ pc[p] = "idle" /\ op[p] = NoOp
          \/ pc[p] = "cas" /\ op[p] \in Mutations
          \/ pc[p] \in {"armed", "called"} /\ op[p] \in Mutations /\ op[p].kind = "arm"
    /\ inFlight \subseteq All \X Transactions
    /\ calls \in [Transactions -> Nat]
    /\ performed \in [Transactions -> Nat]
    /\ crashes \in 0..MaxCrashes

\* assertReachableRevision: the revision a record in this state must have.
ReachableRevision(r) ==
    LET base == CASE r.phase = "PREPARED" -> 1
                  [] r.phase = "COMMIT_PERMIT" -> 2
                  [] r.phase = "EFFECT_IN_FLIGHT" -> 3
                  [] r.phase \in {"COMMITTED", "RESULT_UNAVAILABLE"} -> 4
                  [] r.phase = "UNCERTAIN" -> IF r.started THEN 4 ELSE 3
                  [] r.phase = "FAILED_PRE_EFFECT" -> IF r.permitted THEN 4 ELSE 2
    IN IF r.outbox = "DELIVERED" THEN base + 1 ELSE base

\* assertStateProjection and assertTerminalProjection.
ValidProjection(r) ==
    /\ r.outbox = "RESERVED" <=> r.phase \notin Terminal
    /\ r.phase = "PREPARED" => ~r.permitted /\ ~r.started
    /\ r.phase = "COMMIT_PERMIT" => r.permitted /\ ~r.started
    /\ r.phase \in {"EFFECT_IN_FLIGHT", "COMMITTED", "RESULT_UNAVAILABLE"} =>
          r.permitted /\ r.started
    /\ r.phase = "FAILED_PRE_EFFECT" => (r.permitted <=> r.started)
    /\ r.phase = "UNCERTAIN" => r.permitted

\* Whatever processes race, crash or lose, the store only ever holds records
\* that validateControlPlaneTransactionRecord accepts when the next process
\* reads them: the phase, the permit, the start of the effect, the outbox and
\* the revision agree, although each operation was built on an earlier read.
\* Nor does the store's own check of a successor ever have to throw: a mutation
\* whose revision still matches was built on the record that it replaces, so
\* that a caller is refused only for a race, an identity or a withdrawn permit.
RecordsStayValid ==
    /\ \A t \in DOMAIN store :
          ValidProjection(store[t]) /\ store[t].revision = ReachableRevision(store[t])
    /\ \A p \in All :
          pc[p] = "cas" /\ RevisionMatches(op[p]) => MutationValid(op[p])

\* An effect port is called at most once per transaction over all processes,
\* crashes and recoveries, and only once the durable record says so: whoever
\* recovers a record that has not started knows that nothing was called.
CallsAreRecordedFirst ==
    \A t \in Transactions :
        /\ calls[t] <= 1
        /\ calls[t] > 0 => t \in DOMAIN store /\ store[t].started

\* One COMMIT_PERMIT and one nonce lead to one effect, however the operations
\* on transactions that share them interleave.
OneEffectPerPermit ==
    \A t, u \in Transactions :
        /\ t # u
        /\ PermitIds[t] = PermitIds[u] \/ Nonces[t] \cap Nonces[u] # {}
        => performed[t] + performed[u] <= 1

\* Mutation m was built on record r, by the operation that its kind names.
BuiltOn(m, r) ==
    LET now == m.next.updatedAt IN
    /\ r.updatedAt <= now
    /\ \/ m.kind = "permit" /\ r.phase = "PREPARED" /\ m.next = consumeCommitPermit(r, now)
       \/ m.kind = "arm" /\ r.phase = "COMMIT_PERMIT" /\ m.next = markEffectInFlight(r, now)
       \/ m.kind = "abort" /\ r.phase = "PREPARED"
              /\ m.next = closeTerminal(r, "FAILED_PRE_EFFECT", now)
       \/ m.kind = "recover" /\ r.phase \in Recoverable
              /\ m.next = closeTerminal(r, recoveryPhase(r.phase), now)
       \/ m.kind = "deliver" /\ r.phase \in Terminal /\ r.outbox = "READY"
              /\ m.next = markEvidenceDelivered(r, now)
       \/ m.kind = "close" /\ r.phase = "EFFECT_IN_FLIGHT"
              /\ \E phase \in Terminal : m.next = closeTerminal(r, phase, now)

\* Process p has armed transaction t and has not yet closed it.
Arms(p, t) ==
    /\ pc[p] \in {"armed", "called"} \/ (pc[p] = "cas" /\ op[p].kind = "close")
    /\ op[p].transaction = t

Started(t) == t \in DOMAIN store /\ store[t].started

ValidRecord(r) == ValidProjection(r) /\ r.revision = ReachableRevision(r)

\* A mutation is behind its record or was built on it; an armed process has the
\* record of the start in hand.
OpConsistent(p) ==
    LET m == op[p]
        t == m.transaction
    IN
    /\ pc[p] = "cas" =>
          \/ m.kind = "prepare" /\ m.expected = 0 /\ m.next = createPrepared(m.next.updatedAt)
          \/ /\ m.kind # "prepare" /\ m.expected > 0
             /\ t \in DOMAIN store /\ m.expected <= store[t].revision
             /\ m.expected = store[t].revision => BuiltOn(m, store[t])
    /\ pc[p] \in {"armed", "called"} =>
          /\ ValidRecord(m.next) /\ m.next.phase = "EFFECT_IN_FLIGHT"
          /\ Started(t) /\ m.next.revision <= store[t].revision
          /\ m.next.revision = store[t].revision => store[t] = m.next
    /\ pc[p] = "cas" /\ m.kind = "close" =>
          /\ Started(t) /\ calls[t] = 1
          /\ m.next.phase \in {"COMMITTED", "RESULT_UNAVAILABLE"} => performed[t] = 1
          /\ m.next.phase = "FAILED_PRE_EFFECT" =>
                performed[t] = 0 /\ \A q \in All : <<q, t>> \notin inFlight
    /\ pc[p] = "armed" => calls[t] = 0
    /\ pc[p] = "called" => calls[t] = 1 /\ (<<p, t>> \notin inFlight => performed[t] = 1)

\* One process at most arms a transaction, its effect takes place once at most,
\* and a record that claims something about the effect tells the truth.
EffectConsistent(t) ==
    /\ calls[t] <= 1 /\ performed[t] <= calls[t]
    /\ calls[t] > 0 => Started(t)
    /\ \A p \in All : <<p, t>> \in inFlight => calls[t] = 1 /\ performed[t] = 0
    /\ \A p, q \in All : <<p, t>> \in inFlight /\ <<q, t>> \in inFlight => p = q
    /\ \A p, q \in All : Arms(p, t) /\ Arms(q, t) => p = q
    /\ t \in DOMAIN store =>
          /\ store[t].phase \in {"COMMITTED", "RESULT_UNAVAILABLE"} => performed[t] = 1
          /\ store[t].phase = "FAILED_PRE_EFFECT" =>
                /\ performed[t] = 0
                /\ \A p \in All : <<p, t>> \notin inFlight /\ ~Arms(p, t)

\* No two records reserve the same identity.
IdentitiesDisjoint ==
    \A t, u \in DOMAIN store :
        t # u => IdentityKeys(t, store[t]) \cap IdentityKeys(u, store[u]) = {}

\* The inductive invariant.
CPInv ==
    /\ CPTypeOK
    /\ \A t \in DOMAIN store : ValidRecord(store[t])
    /\ \A p \in All : OpConsistent(p)
    /\ \A t \in Transactions : EffectConsistent(t)
    /\ IdentitiesDisjoint

\* A closed record is never reopened or closed again: a recoverer that lost the
\* race against the executor, or the reverse, changes nothing.  Its evidence is
\* delivered at most once, and time does not run back.
TerminalIsFrozen ==
    [][\A t \in DOMAIN store :
          store[t].phase \in Terminal /\ store'[t] # store[t] =>
              /\ store[t].outbox = "READY"
              /\ \E at \in Time :
                    /\ store[t].updatedAt <= at
                    /\ store'[t] = markEvidenceDelivered(store[t], at)]_vars

\* The record that permits or starts an effect is committed while the permit is
\* within its time and still trusted, however long before it was admitted.
StartsUnderLivePermit ==
    [][\A t \in Transactions :
          LET was(f) == t \in DOMAIN store /\ store[t][f]
              is(f) == t \in DOMAIN store' /\ store'[t][f]
          IN (is("permitted") /\ ~was("permitted")) \/ (is("started") /\ ~was("started")) =>
                 PermitCurrent(t) /\ t \notin distrusted]_vars

\* The control plane implements the abstract promise: the durable phase is what
\* has been decided about a transaction, and no phase claims an effect that did
\* not take place or the absence of one that did or still may.
Decision(t) ==
    IF t \notin DOMAIN store THEN "open"
    ELSE CASE store[t].phase = "PREPARED" -> "open"
           [] store[t].phase \in {"COMMIT_PERMIT", "EFFECT_IN_FLIGHT"} -> "granted"
           [] store[t].phase = "COMMITTED" -> "committed"
           [] store[t].phase = "RESULT_UNAVAILABLE" -> "result-unavailable"
           [] store[t].phase = "FAILED_PRE_EFFECT" -> "failed-no-effect"
           [] store[t].phase = "UNCERTAIN" -> "uncertain"

Abstract == INSTANCE EffectOnce WITH
    Requests <- Transactions,
    authority <- [t \in Transactions |-> Decision(t)]

KeepsOneShotPromise == Abstract!EffectSpec

\* Every prepared transaction is closed in the end, wherever its process died:
\* recoverAll finds it and needs no answer from anyone but the store.
PreparedTransactionsClose ==
    \A t \in Transactions :
        (t \in DOMAIN store) ~> (t \in DOMAIN store /\ store[t].phase \in Terminal)
=============================================================================
