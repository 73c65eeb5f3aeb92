------------------------------ MODULE Runtime -------------------------------
(***************************************************************************)
(* ReferenceSafeCodingRuntime.execute and the SafeCodingGuardian it calls, *)
(* composed with the kernel: several executions run concurrently in one    *)
(* event loop and operators activate, supersede and revoke contracts       *)
(* meanwhile.  An action is what runs between two awaits that can observe  *)
(* or change shared state; awaits between which nothing shared is touched  *)
(* (hashing, adapter lookup, PREPARE) are one step.  The host clock is a   *)
(* variable; it steps back when Faults allows it.                          *)
(***************************************************************************)
EXTENDS Kernel

CONSTANTS
    Executions,     \* calls of execute()
    ContractOf,     \* execution -> the contract it was called with
    RequestOf,      \* execution -> requestId of its action
    ObjectOf,       \* execution -> object PREPARE resolves
    ChargeOf,       \* execution -> budgetChargeFor(action)
    TicketTtl,      \* Guardian ticketTtlMs
    Observations,   \* results a trusted adapter may return
    Faults          \* what may fail: "clock", "kernel-port", "evidence-sink"

VARIABLES
    clock,          \* host wall clock
    pc,             \* where each execution stands
    startedAt,      \* clock at the start of execute()
    issuedAt,       \* Guardian's nowMs
    active,         \* Guardian's snapshot of the active contract
    observed,       \* the adapter's validated result
    closing,        \* how the execution is being closed
    performed,      \* executions whose effect took place
    evidence        \* attestations the sink admitted

guardianVars == <<startedAt, issuedAt, active>>
resultVars == <<observed, closing, performed, evidence>>
runtimeVars == <<clock, pc, guardianVars, resultVars>>
vars == <<kernelVars, runtimeVars>>

ASSUME TtlAssumption == TicketTtl \in Nat \ {0}

EvidenceLevels ==
    {"attempt_only", "adapter_observed", "local_state_reconciled",
     "remote_provider_attested", "independently_reconciled"}

\* A result: its shape was acceptable, it can be canonicalised and hashed, and
\* which states the adapter observed.
Observation ==
    [wellFormed: BOOLEAN, canonical: BOOLEAN, level: EvidenceLevels,
     pre: BOOLEAN, post: BOOLEAN]

ASSUME ObservationAssumption == Observations \subseteq Observation

NoObservation ==
    [wellFormed |-> TRUE, canonical |-> TRUE, level |-> "attempt_only",
     pre |-> FALSE, post |-> FALSE]

-----------------------------------------------------------------------------
\* Tickets and attestations.

ticketIdOf(e) == <<"ticket", e>>

\* The ticket the Guardian builds from its clock reading and its snapshot.
ticketFor(e, nowMs, snapshot) ==
    LET c == ContractOf[e] IN
    [ticketId |-> ticketIdOf(e), requestId |-> RequestOf[e],
     budgetReservationId |-> <<"reservation", e>>,
     contractHash |-> c.contractHash, contractRevision |-> c.revision,
     revocationEpoch |-> snapshot.revocationEpoch, bindings |-> c.bindings,
     effectClass |-> "local.reversible", resolvedObjectId |-> ObjectOf[e],
     issuedAt |-> nowMs,
     expiresAt |-> IF nowMs + TicketTtl < c.expiresAt
                   THEN nowMs + TicketTtl ELSE c.expiresAt]

registrationFor(e, nowMs, snapshot) ==
    [ticket |-> ticketFor(e, nowMs, snapshot), expectedActive |-> snapshot,
     limits |-> ContractOf[e].limits, charge |-> ChargeOf[e]]

\* The snapshot of a contract while it is active: the epoch counts the
\* authorities of the lineage that ended before it.
SnapshotOf(e) ==
    LET c == ContractOf[e] IN
    [contractId |-> c.contractId, contractHash |-> c.contractHash,
     revision |-> c.revision, revocationEpoch |-> c.revision - 1, status |-> "active"]

\* The host clock starts inside the readings considered, executions are called
\* with verified contracts, and the registrations the kernel may be given
\* include those the Guardian builds.
ASSUME ClockAssumption == 0 \in Time

ASSUME ExecutionAssumption == ContractOf \in [Executions -> VerifiedContracts]

ASSUME GuardianAssumption ==
    \A e \in Executions, t \in Time :
        t < ContractOf[e].expiresAt => registrationFor(e, t, SnapshotOf(e)) \in Registrations

Issued(e) == ticketIdOf(e) \in DOMAIN tickets
ticketOf(e) == tickets[ticketIdOf(e)].ticket
statusOf(e) == tickets[ticketIdOf(e)].status

hasCrossedCommitPermit(e) ==
    statusOf(e) \in {"commit-permit", "committed", "result-unavailable", "uncertain"}

\* validateAttestationSemantics for the statuses the runtime emits; it never
\* passes a reconciliationRef.
AttestationSemantics(status, obs, hasResult) ==
    /\ status = "failed_no_effect" => ~obs.post /\ ~hasResult
    /\ status = "committed_result_unavailable" => obs.post /\ ~hasResult
    /\ obs.level = "attempt_only" =>
          /\ ~obs.post /\ ~hasResult
          /\ status \notin {"committed", "committed_result_unavailable"}
    /\ status = "committed" => obs.post \/ hasResult
    /\ CASE obs.level = "attempt_only" -> TRUE
         [] obs.level = "adapter_observed" -> obs.pre \/ obs.post \/ hasResult
         [] obs.level = "local_state_reconciled" -> obs.pre /\ obs.post
         [] obs.level = "remote_provider_attested" -> obs.post \/ hasResult
         [] obs.level = "independently_reconciled" -> FALSE

\* createAttestation returns: neither the times nor the semantics are refused.
Attestable(e, status, obs) ==
    /\ startedAt[e] <= clock
    /\ AttestationSemantics(status, obs, status = "committed")

-----------------------------------------------------------------------------
RuntimeInit ==
    /\ Init
    /\ clock = 0
    /\ pc = [e \in Executions |-> "idle"]
    /\ startedAt = [e \in Executions |-> 0]
    /\ issuedAt = [e \in Executions |-> 0]
    /\ active = [e \in Executions |-> <<>>]
    /\ observed = [e \in Executions |-> NoObservation]
    /\ closing = [e \in Executions |-> <<>>]
    /\ performed = {}
    /\ evidence = {}

Goto(e, from, to) == pc[e] = from /\ pc' = [pc EXCEPT ![e] = to]

\* Begin closing: what the ticket will be settled as, and the error report as
\* its terminalStatus; which attestation goes with it, recorded or attached.
CloseFrom(e, from, to, settlement, attestation, record) ==
    /\ Goto(e, from, to)
    /\ closing' = [closing EXCEPT ![e] =
          [settlement |-> settlement, attestation |-> attestation, record |-> record]]

\* Settle the ticket, then attest, then reject.
CloseAs(e, from, settlement, attestation, record) ==
    CloseFrom(e, from, "settle", settlement, attestation, record)

\* Mutant: a failure after the permit is reported as having had no effect.
failAfterCommit_NoEffect(e, from) ==
    CloseAs(e, from, "failed-no-effect", "failed_no_effect", TRUE)

failAfterCommit(e, from) == CloseAs(e, from, "uncertain", "uncertain", TRUE)

\* execute() has validated the action and read the clock.
Begin(e) ==
    /\ Goto(e, "idle", "verify")
    /\ startedAt' = [startedAt EXCEPT ![e] = clock]
    /\ UNCHANGED <<kernelVars, clock, issuedAt, active, resultVars>>

ActiveContractIs(snapshot, c) ==
    /\ snapshot.status = "active"
    /\ snapshot.contractHash = c.contractHash
    /\ snapshot.revision = c.revision

\* First half of issueExecutionTicket: nothing it learns is kept.
GuardianAdmit(e) ==
    LET c == ContractOf[e] IN
    /\ Goto(e, "verify", "admitted")
    /\ ContractUsableAt(c, clock)
    /\ c.contractId \in DOMAIN lineages
    /\ ActiveContractIs(getActiveContract(c.contractId), c)
    /\ UNCHANGED <<kernelVars, clock, guardianVars, resultVars>>

GuardianClock(e) ==
    /\ Goto(e, "admitted", "timed")
    /\ ContractUsableAt(ContractOf[e], clock)
    /\ issuedAt' = [issuedAt EXCEPT ![e] = clock]
    /\ UNCHANGED <<kernelVars, clock, startedAt, active, resultVars>>

GuardianSnapshot(e) ==
    LET c == ContractOf[e] IN
    /\ Goto(e, "timed", "snapshotted")
    /\ c.contractId \in DOMAIN lineages
    /\ ActiveContractIs(getActiveContract(c.contractId), c)
    /\ active' = [active EXCEPT ![e] = getActiveContract(c.contractId)]
    /\ UNCHANGED <<kernelVars, clock, startedAt, issuedAt, resultVars>>

\* Mutant: the ticket is used without having been registered.
GuardianRegister_Unregistered(e) ==
    /\ Goto(e, "snapshotted", "prepare")
    /\ UNCHANGED <<kernelVars, clock, guardianVars, resultVars>>

GuardianRegister(e) ==
    /\ Goto(e, "snapshotted", "prepare")
    /\ RegisterTicket(registrationFor(e, issuedAt[e], active[e]), clock)
    /\ UNCHANGED <<clock, guardianVars, resultVars>>

\* Any check of the Guardian, its ports or the kernel's registration refuses.
GuardianDenies(e) ==
    /\ \E from \in {"verify", "admitted", "timed", "snapshotted"} : Goto(e, from, "denied")
    /\ UNCHANGED <<kernelVars, clock, guardianVars, resultVars>>

\* Action hash, adapter binding and adapter.prepare.
Prepare(e) ==
    /\ Goto(e, "prepare", "fence")
    /\ UNCHANGED <<kernelVars, clock, guardianVars, resultVars>>

PrepareFails(e) ==
    /\ Goto(e, "prepare", "failBefore")
    /\ UNCHANGED <<kernelVars, clock, guardianVars, resultVars>>

revalidateExecutionTicket(e) ==
    /\ Goto(e, "fence", "permit")
    /\ ticketOf(e).issuedAt <= clock /\ clock < ticketOf(e).expiresAt
    /\ UNCHANGED <<kernelVars, clock, guardianVars, resultVars>>

\* Revalidation, assertFinalAuthority or commitPermit throws and the kernel is
\* left as it was.
FenceDenies(e) ==
    /\ \E from \in {"fence", "permit"} : Goto(e, from, "fenceFailed")
    /\ UNCHANGED <<kernelVars, clock, guardianVars, resultVars>>

\* Mutant: the ticket is taken as authority without asking the kernel again.
PermitAndExecute_Unchecked(e) ==
    /\ Goto(e, "permit", "executing")
    /\ SetTicket(ticketIdOf(e), [tickets[ticketIdOf(e)] EXCEPT !.status = "commit-permit"])
    /\ UNCHANGED <<clock, guardianVars, resultVars>>

\* assertFinalAuthority, commitPermit and the call of prepared.execute() run in
\* one turn of the event loop.
PermitAndExecute(e) ==
    /\ Goto(e, "permit", "executing")
    /\ CommitPermit(ticketOf(e), clock)
    /\ UNCHANGED <<clock, guardianVars, resultVars>>

PermitDenied(e) ==
    /\ Goto(e, "permit", "fenceFailed")
    /\ DenyPermit(ticketOf(e), clock)
    /\ UNCHANGED <<clock, guardianVars, resultVars>>

\* The kernel port consumes the ticket but throws or answers with a permit
\* that is not exact.
PermitLost(e) ==
    /\ "kernel-port" \in Faults
    /\ Goto(e, "permit", "fenceFailed")
    /\ CommitPermit(ticketOf(e), clock)
    /\ UNCHANGED <<clock, guardianVars, resultVars>>

FenceFailed(e) ==
    /\ pc[e] = "fenceFailed"
    /\ \/ /\ hasCrossedCommitPermit(e)
          /\ failAfterCommit(e, "fenceFailed")
       \/ /\ ~hasCrossedCommitPermit(e)
          /\ Goto(e, "fenceFailed", "failBefore")
          /\ UNCHANGED closing
    /\ UNCHANGED <<kernelVars, clock, guardianVars, observed, performed, evidence>>

\* The adapter's effect takes place some time after execute() was called.
EffectHappens(e) ==
    /\ pc[e] = "executing" /\ e \notin performed
    /\ performed' = performed \cup {e}
    /\ UNCHANGED <<kernelVars, clock, pc, guardianVars, observed, closing, evidence>>

\* prepared.execute() rejects, before or after its effect.
ExecuteThrows(e) ==
    /\ failAfterCommit(e, "executing")
    /\ UNCHANGED <<kernelVars, clock, guardianVars, observed, performed, evidence>>

\* Mutant: a result that cannot be canonicalised is closed by its level alone.
ResultClosing_LevelOnly(obs) ==
    CASE ~obs.wellFormed -> "uncertain"
      [] ~obs.canonical /\ obs.level = "attempt_only" -> "uncertain"
      [] ~obs.canonical /\ obs.level # "attempt_only" -> "result-unavailable"
      [] OTHER -> "committed"

\* How an observed result is to be closed.
ResultClosing(obs) ==
    CASE ~obs.wellFormed -> "uncertain"
      [] obs.wellFormed /\ ~obs.canonical ->
            IF obs.level = "attempt_only" \/ ~obs.post
            THEN "uncertain" ELSE "result-unavailable"
      [] OTHER -> "committed"

ExecuteReturns(e, obs) ==
    /\ e \in performed
    /\ \/ /\ statusOf(e) # "commit-permit" \/ ResultClosing(obs) = "uncertain"
          /\ failAfterCommit(e, "executing")
          /\ UNCHANGED observed
       \/ /\ statusOf(e) = "commit-permit" /\ ResultClosing(obs) = "result-unavailable"
          /\ CloseAs(e, "executing", "result-unavailable",
                     "committed_result_unavailable", TRUE)
          /\ observed' = [observed EXCEPT ![e] = obs]
       \/ /\ statusOf(e) = "commit-permit" /\ ResultClosing(obs) = "committed"
          /\ Goto(e, "executing", "attestCommitted")
          /\ observed' = [observed EXCEPT ![e] = obs]
          /\ UNCHANGED closing
    /\ UNCHANGED <<kernelVars, clock, guardianVars, performed, evidence>>

-----------------------------------------------------------------------------
\* Success: attest, then settle as committed.

AttestCommitted(e) ==
    /\ Goto(e, "attestCommitted", "settleCommitted")
    /\ Attestable(e, "committed", observed[e])
    /\ evidence' = evidence \cup {<<e, "committed">>}
    /\ UNCHANGED <<kernelVars, clock, guardianVars, observed, closing, performed>>

\* Mutant: a refused attestation does not keep the success from being published.
CommittedSinkFails_Ignored(e) ==
    /\ "evidence-sink" \in Faults
    /\ Goto(e, "attestCommitted", "settleCommitted")
    /\ Attestable(e, "committed", observed[e])
    /\ UNCHANGED <<kernelVars, clock, guardianVars, resultVars>>

\* evidence.record rejects, having refused the attestation or having admitted
\* it and lost the answer: the ticket is closed without a success.
CommittedSinkFails(e) ==
    /\ "evidence-sink" \in Faults
    /\ Attestable(e, "committed", observed[e])
    /\ IF observed[e].level # "attempt_only" /\ observed[e].post
       THEN CloseAs(e, "attestCommitted", "result-unavailable",
                    "committed_result_unavailable", FALSE)
       ELSE CloseAs(e, "attestCommitted", "uncertain", "uncertain", FALSE)
    /\ \/ UNCHANGED evidence
       \/ evidence' = evidence \cup {<<e, "committed">>}
    /\ UNCHANGED <<kernelVars, clock, guardianVars, observed, performed>>

\* createAttestation throws outside every handler of execute().
CommittedAttestationThrows(e) ==
    /\ Goto(e, "attestCommitted", "escaped")
    /\ ~Attestable(e, "committed", observed[e])
    /\ UNCHANGED <<kernelVars, clock, guardianVars, resultVars>>

SettleCommitted(e) ==
    /\ Goto(e, "settleCommitted", "returned")
    /\ SettleTicket(ticketIdOf(e), "committed", clock)
    /\ UNCHANGED <<clock, guardianVars, resultVars>>

\* settleTicket refuses a clock behind the permit; a faulty port may also lose
\* the call or, after applying it, the answer.
SettleRefused(e) ==
    \/ clock < tickets[ticketIdOf(e)].commitPermittedAt
    \/ "kernel-port" \in Faults

\* The error will report "uncertain", with the attestation of success.
SettleCommittedThrows(e) ==
    /\ CloseFrom(e, "settleCommitted", "resettle", "uncertain", "committed", FALSE)
    /\ \/ SettleRefused(e) /\ UNCHANGED kernelVars
       \/ /\ "kernel-port" \in Faults
          /\ SettleTicket(ticketIdOf(e), "committed", clock)
    /\ UNCHANGED <<clock, guardianVars, observed, performed, evidence>>

-----------------------------------------------------------------------------
\* settleIfNeeded.

SettleIfNeeded(e, settlement) ==
    \/ statusOf(e) \in TerminalStatus /\ UNCHANGED kernelVars
    \/ SettleTicket(ticketIdOf(e), settlement, clock)

Settle(e) ==
    /\ Goto(e, "settle", "attest")
    /\ SettleIfNeeded(e, closing[e].settlement)
    /\ UNCHANGED <<clock, guardianVars, resultVars>>

Resettle(e) ==
    /\ Goto(e, "resettle", "failed")
    /\ SettleIfNeeded(e, closing[e].settlement)
    /\ UNCHANGED <<clock, guardianVars, resultVars>>

\* Mutant: a settlement that failed is taken for one that was made.
SettleThrows_Swallowed(e) ==
    /\ Goto(e, "settle", "attest") \/ Goto(e, "resettle", "failed")
    /\ statusOf(e) \notin TerminalStatus
    /\ SettleRefused(e)
    /\ UNCHANGED <<kernelVars, clock, guardianVars, resultVars>>

SettleThrows(e) ==
    \E from \in {"settle", "resettle"} :
        /\ Goto(e, from, "escaped")
        /\ statusOf(e) \notin TerminalStatus
        /\ \/ SettleRefused(e) /\ UNCHANGED kernelVars
           \/ /\ "kernel-port" \in Faults
              /\ SettleTicket(ticketIdOf(e), closing[e].settlement, clock)
        /\ UNCHANGED <<clock, guardianVars, resultVars>>

\* The tail of failBeforeEffect, failAfterCommit, failResultUnavailable and of
\* the sink failure, whose fallback attestation is only attached to the error.
ClosingObservation(e) ==
    IF closing[e].attestation = "committed_result_unavailable"
    THEN observed[e] ELSE NoObservation

Attest(e) ==
    /\ Goto(e, "attest", "failed")
    /\ Attestable(e, closing[e].attestation, ClosingObservation(e))
    /\ \/ /\ closing[e].record
          /\ evidence' = evidence \cup {<<e, closing[e].attestation>>}
       \/ /\ ~closing[e].record \/ "evidence-sink" \in Faults
          /\ UNCHANGED evidence
    /\ UNCHANGED <<kernelVars, clock, guardianVars, observed, closing, performed>>

AttestationThrows(e) ==
    /\ Goto(e, "attest", "escaped")
    /\ ~Attestable(e, closing[e].attestation, ClosingObservation(e))
    /\ UNCHANGED <<kernelVars, clock, guardianVars, resultVars>>

-----------------------------------------------------------------------------
\* failBeforeEffect.

AttestNoEffect(e, from) ==
    CloseFrom(e, from, "attest", "failed-no-effect", "failed_no_effect", TRUE)

\* The status decides, when first read and again when failBeforeCommit threw;
\* a ticket found registered is failed in a later turn, or the error rethrown.
FailBeforeRead(e) ==
    /\ \E from \in {"failBefore", "failRecheck"} :
          /\ pc[e] = from
          /\ IF statusOf(e) = "commit-permit" THEN failAfterCommit(e, from)
             ELSE IF statusOf(e) = "failed-no-effect" THEN AttestNoEffect(e, from)
             ELSE /\ Goto(e, from, IF from = "failBefore" /\ statusOf(e) = "registered"
                                   THEN "failing" ELSE "escaped")
                  /\ UNCHANGED closing
    /\ UNCHANGED <<kernelVars, clock, guardianVars, observed, performed, evidence>>

FailBeforeCall(e) ==
    /\ AttestNoEffect(e, "failing")
    /\ FailBeforeCommit(ticketIdOf(e), clock)
    /\ UNCHANGED <<clock, guardianVars, observed, performed, evidence>>

\* Meanwhile the ticket failed with its contract, the clock is behind the
\* registration, or the port fails.
FailBeforeThrows(e) ==
    /\ Goto(e, "failing", "failRecheck")
    /\ \/ /\ \/ statusOf(e) # "registered"
             \/ clock < tickets[ticketIdOf(e)].registeredAt
             \/ "kernel-port" \in Faults
          /\ UNCHANGED kernelVars
       \/ "kernel-port" \in Faults /\ FailBeforeCommit(ticketIdOf(e), clock)
    /\ UNCHANGED <<clock, guardianVars, resultVars>>

-----------------------------------------------------------------------------
\* The environment: operators of contracts, and the clock.

Operator ==
    /\ \/ \E c \in VerifiedContracts : ActivateFirst(c, clock)
       \/ \E c \in VerifiedContracts, x \in CasExpectations : ActivateNext(c, x, clock)
       \/ \E id \in ContractIds, x \in CasExpectations : RevokeContract(id, x, clock)
    /\ UNCHANGED runtimeVars

Tick ==
    /\ \/ clock' = clock + 1
       \/ "clock" \in Faults /\ clock' = clock - 1
    /\ clock' \in Time
    /\ UNCHANGED <<kernelVars, pc, guardianVars, resultVars>>

Step(e) ==
    \/ Begin(e)
    \/ GuardianAdmit(e) \/ GuardianClock(e) \/ GuardianSnapshot(e)
    \/ GuardianRegister(e) \/ GuardianDenies(e)
    \/ Prepare(e) \/ PrepareFails(e)
    \/ revalidateExecutionTicket(e) \/ FenceDenies(e)
    \/ PermitAndExecute(e) \/ PermitDenied(e) \/ PermitLost(e) \/ FenceFailed(e)
    \/ EffectHappens(e) \/ ExecuteThrows(e)
    \/ \E obs \in Observations : ExecuteReturns(e, obs)
    \/ AttestCommitted(e) \/ CommittedSinkFails(e) \/ CommittedAttestationThrows(e)
    \/ SettleCommitted(e) \/ SettleCommittedThrows(e)
    \/ Settle(e) \/ Resettle(e) \/ SettleThrows(e)
    \/ Attest(e) \/ AttestationThrows(e)
    \/ FailBeforeRead(e) \/ FailBeforeCall(e) \/ FailBeforeThrows(e)

RuntimeNext == Operator \/ Tick \/ \E e \in Executions : Step(e)

RuntimeSpec == RuntimeInit /\ [][RuntimeNext]_vars

\* The event loop runs every execution on, and the ports and adapters an
\* execution awaits eventually answer.
FairRuntimeSpec == RuntimeSpec /\ \A e \in Executions : WF_vars(Step(e))
-----------------------------------------------------------------------------
\* Properties.

Running == {"verify", "admitted", "timed", "snapshotted", "prepare", "fence", "permit",
            "fenceFailed", "executing", "attestCommitted", "settleCommitted", "resettle",
            "settle", "attest", "failBefore", "failing", "failRecheck"}
Ended == {"denied", "returned", "failed", "escaped"}

AttestationStatus ==
    {"committed", "committed_result_unavailable", "uncertain", "failed_no_effect"}

\* Type invariant: an execution's place, times and evidence.
RuntimeTypeOK ==
    /\ clock \in Time
    /\ pc \in [Executions -> {"idle"} \cup Running \cup Ended]
    /\ startedAt \in [Executions -> Time]
    /\ issuedAt \in [Executions -> Time]
    /\ active = [e \in Executions |-> active[e]]
    /\ observed \in [Executions -> Observations \cup {NoObservation}]
    /\ closing = [e \in Executions |-> closing[e]]
    /\ performed \subseteq Executions
    /\ evidence \subseteq Executions \X AttestationStatus
    /\ \A e \in Executions :
          pc[e] \in Running \ {"verify", "admitted", "timed", "snapshotted"} => Issued(e)

(***************************************************************************)
(* The inductive invariant: what is known of each execution at each of its *)
(* awaits about its ticket, its effect and its evidence.                   *)
(***************************************************************************)
BeforeTicket == {"idle", "verify", "admitted", "timed", "snapshotted", "denied"}
BeforePermit == {"prepare", "fence", "permit", "failBefore", "failing", "failRecheck"}

Attested(e, s) == <<e, s>> \in evidence
Unattested(e) == \A s \in AttestationStatus : ~Attested(e, s)

\* What the Guardian read is still what the ticket binds.
GuardianKnows(e) ==
    /\ pc[e] \in {"timed", "snapshotted"} => ContractUsableAt(ContractOf[e], issuedAt[e])
    /\ pc[e] = "snapshotted" => active[e] = SnapshotOf(e)
    /\ Issued(e) <=> pc[e] \notin BeforeTicket
    /\ Issued(e) =>
          /\ active[e] = SnapshotOf(e)
          /\ ticketOf(e) = ticketFor(e, issuedAt[e], active[e])
          /\ tickets[ticketIdOf(e)].contractId = ContractOf[e].contractId

\* How a closing settles the ticket and what it attests.
ClosingsAgree(e) ==
    \/ /\ closing[e].settlement = "uncertain"
       /\ closing[e].attestation = "uncertain"
    \/ /\ closing[e].settlement = "result-unavailable"
       /\ closing[e].attestation = "committed_result_unavailable"
       /\ e \in performed
    \/ /\ closing[e].settlement = "failed-no-effect"
       /\ closing[e].attestation = "failed_no_effect"
       /\ e \notin performed

\* The terminalStatus of the error that ended e is that of the ticket, with
\* one exception: the settlement as committed was made and its answer lost.
ReportIsTruthful(e) ==
    LET reported == closing[e].settlement IN
    /\ statusOf(e) \in TerminalStatus
    /\ \/ statusOf(e) = reported
       \/ reported = "uncertain" /\ statusOf(e) = "committed"
    /\ reported = "failed-no-effect" => e \notin performed
    /\ reported = "result-unavailable" => e \in performed

NoEffectYet(e) == e \notin performed /\ Unattested(e)

StageOf(e) ==
    /\ pc[e] \in BeforeTicket => NoEffectYet(e)
    /\ pc[e] \in BeforePermit =>
          NoEffectYet(e) /\ statusOf(e) \in {"registered", "failed-no-effect"}
    /\ pc[e] = "fenceFailed" =>
          NoEffectYet(e) /\ statusOf(e) \in {"registered", "failed-no-effect", "commit-permit"}
    /\ pc[e] \in {"executing", "attestCommitted", "settle"} => statusOf(e) = "commit-permit"
    /\ pc[e] \in {"executing", "attestCommitted"} => Unattested(e)
    /\ pc[e] \in {"attestCommitted", "settleCommitted", "resettle", "returned"} => e \in performed
    /\ pc[e] \in {"settleCommitted", "resettle", "returned"} => Attested(e, "committed")
    /\ pc[e] = "settleCommitted" => statusOf(e) = "commit-permit"
    /\ pc[e] = "resettle" =>
          statusOf(e) \in {"commit-permit", "committed"} /\ closing[e].settlement = "uncertain"
    /\ pc[e] = "returned" => statusOf(e) = "committed"
    /\ pc[e] \in {"settle", "attest"} => ClosingsAgree(e) /\ (closing[e].record => Unattested(e))
    /\ pc[e] = "settle" => closing[e].settlement # "failed-no-effect"
    /\ pc[e] = "attest" => statusOf(e) = closing[e].settlement
    /\ pc[e] = "failed" => ReportIsTruthful(e)

\* Whatever happens later, the ticket's status is true of the effect and the
\* evidence true of both.
StatusIsTruthful(e) ==
    /\ e \in performed => hasCrossedCommitPermit(e)
    /\ Issued(e) /\ statusOf(e) \in {"committed", "result-unavailable"} => e \in performed

EvidenceIsTruthful(e) ==
    /\ \A s, t \in AttestationStatus : Attested(e, s) /\ Attested(e, t) => s = t
    /\ Attested(e, "committed") => e \in performed
    /\ Issued(e) /\ statusOf(e) = "committed" => Attested(e, "committed")
    /\ Attested(e, "committed_result_unavailable") =>
          e \in performed /\ statusOf(e) = "result-unavailable"
    /\ Attested(e, "uncertain") => statusOf(e) = "uncertain"
    /\ Attested(e, "failed_no_effect") =>
          e \notin performed /\ statusOf(e) = "failed-no-effect"

ExecutionInv(e) ==
    GuardianKnows(e) /\ StageOf(e) /\ StatusIsTruthful(e) /\ EvidenceIsTruthful(e)

RuntimeInv ==
    /\ KernelInv /\ IdentitiesConsumedOnce /\ RuntimeTypeOK
    /\ \A e \in Executions : ExecutionInv(e)

\* Seen per request, the runtime keeps the one-shot promise of EffectOnce: two
\* executions of one request never both act, a ticket refused or failed before
\* its permit had no effect, success is claimed only for an effect that
\* happened, and an effect that happened is never reported as none.
AbstractAuthority(r) ==
    IF \E e \in Executions : Issued(e) /\ RequestOf[e] = r
    THEN LET status == statusOf(CHOOSE e \in Executions : Issued(e) /\ RequestOf[e] = r)
         IN CASE status = "registered" -> "open"
              [] status = "commit-permit" -> "granted"
              [] OTHER -> status
    ELSE "open"

Requests == {RequestOf[e] : e \in Executions}

Abstract == INSTANCE EffectOnce WITH
    authority <- [r \in Requests |-> AbstractAuthority(r)],
    performed <- [r \in Requests |-> Cardinality({e \in performed : RequestOf[e] = r})]

KeepsOneShotPromise == Abstract!EffectSpec

\* An effect starts only under an authority that is live at that instant: the
\* contract the execution was called with is the current, active revision, at
\* the very epoch of the snapshot the Guardian took many awaits earlier, and
\* the clock is inside the ticket's window.
EffectsStartUnderLiveAuthority ==
    [][\A e \in Executions :
         pc[e] # "executing" /\ pc'[e] = "executing" =>
            LET c == ContractOf[e] IN
            /\ ActiveContractIs(getActiveContract(c.contractId), c)
            /\ getActiveContract(c.contractId) = active[e]
            /\ issuedAt[e] <= clock /\ clock < ticketOf(e).expiresAt]_vars

\* What the sink admitted agrees with what happened and with the kernel, when
\* answers of the sink and of the kernel are lost too: at most one attestation
\* per execution; no-effect evidence never stands beside an effect; evidence of
\* success may outlive a settlement that failed, or that the runtime made as
\* something less because the sink's answer was lost, but never stands without
\* the effect; and no ticket is settled as committed without it.
AttestationsAreTruthful ==
    /\ \A a, b \in evidence : a[1] = b[1] => a = b
    /\ \A a \in evidence :
         LET e == a[1] IN
         CASE a[2] = "committed" -> e \in performed /\ hasCrossedCommitPermit(e)
           [] a[2] = "committed_result_unavailable" ->
                 e \in performed /\ statusOf(e) = "result-unavailable"
           [] a[2] = "uncertain" -> statusOf(e) = "uncertain"
           [] a[2] = "failed_no_effect" ->
                 e \notin performed /\ statusOf(e) = "failed-no-effect"
    /\ \A e \in Executions :
         Issued(e) /\ statusOf(e) = "committed" => <<e, "committed">> \in evidence

\* Whoever catches the error of execute() decides by its terminalStatus what
\* is to be done about the request.  That status is the one the kernel has,
\* now and later, whatever failed while the execution was being closed and
\* whoever closed the ticket: an error that claims "no effect" comes only after
\* an execution that had none, and a closing that could not be settled reports
\* no status at all.  The one difference is on the safe side: "uncertain" for
\* a ticket whose settlement as committed was made and its answer lost.
ReportsAreTruthful ==
    \A e \in Executions : pc[e] = "failed" => ReportIsTruthful(e)

\* execute() returns a result only when the effect took place, its attestation
\* was admitted and the kernel settled the ticket as committed.
SuccessIsComplete ==
    \A e \in Executions :
        pc[e] = "returned" =>
            e \in performed /\ <<e, "committed">> \in evidence /\ statusOf(e) = "committed"

\* With a clock that never steps back, a kernel that answers and adapters
\* whose observations can be attested, every execution ends, and its ticket,
\* if it got one, with it: no ticket is left registered or permitted.
ExecutionsClose ==
    \A e \in Executions :
        pc[e] = "verify" ~>
            /\ pc[e] \in {"denied", "returned", "failed"}
            /\ Issued(e) => statusOf(e) \in TerminalStatus

\* SECURITY_GUARANTEE_MANIFEST.md: "Post-permit failures close UNCERTAIN or
\* RESULT_UNAVAILABLE": an execution that failed after its permit has settled
\* its ticket.
PostPermitFailuresClose ==
    \A e \in Executions :
        pc[e] \in {"failed", "escaped"} /\ hasCrossedCommitPermit(e)
            => statusOf(e) \in {"uncertain", "result-unavailable"}
=============================================================================
