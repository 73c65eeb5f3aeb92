------------------------------- MODULE Kernel -------------------------------
(***************************************************************************)
(* The safe-coding kernel of packages/clodex-kernel: contract lineages,    *)
(* one-shot execution tickets, replay registries and lineage budgets, with *)
(* the pure transitions of transitions.ts as actions.                      *)
(*                                                                         *)
(* InMemorySafeCodingKernel reads a caller-supplied wall clock once per    *)
(* operation and never compares it with an earlier reading of its own, so  *)
(* `now' is an input of every action: the clock may jump either way.       *)
(* A transition that throws leaves the state as it was and is not an       *)
(* action; a denied commitPermit that consumes the ticket is one.          *)
(* Left out: endedAt, terminalAt, the reasons and the result hash, which   *)
(* no transition ever reads back.                                          *)
(***************************************************************************)
EXTENDS Naturals, Sequences, FiniteSets

CONSTANTS
    VerifiedContracts,  \* signed and verified contract revisions
    Registrations,      \* KernelTicketRegistration inputs callers may supply
    CasExpectations,    \* [contractHash, revision, revocationEpoch] inputs
    Time,               \* readings of the clock
    NoHash,             \* null previousRevisionHash / no expectation
    MaxSafeInteger      \* Number.MAX_SAFE_INTEGER

VARIABLES
    lineages,           \* contractId -> KernelContractLineage
    tickets,            \* ticketId -> KernelTicketRecord
    requestIds,         \* consumed request ids
    reservationIds      \* consumed budget reservation ids

kernelVars == <<lineages, tickets, requestIds, reservationIds>>

Limits == [maxUniqueModifiedFiles: Nat, maxMutationBytes: Nat, maxTestRuns: Nat]
Charge == [uniqueModifiedFiles: {0, 1}, mutationBytes: Nat, testRuns: Nat]
Aggregate == [uniqueModifiedFiles: Nat, mutationBytes: Nat, testRuns: Nat]

(***************************************************************************)
(* What the contract and ticket validators establish before a transition   *)
(* sees its input, and collision freedom of the contract hash: it is the   *)
(* SHA-256 digest of the whole canonical contract.                         *)
(***************************************************************************)
ASSUME TimeAssumption == Time \subseteq Nat

ASSUME MaxSafeIntegerAssumption == MaxSafeInteger \in Nat

\* validateSafeCodingIntentContract.
ValidContract(c) ==
    /\ c.revision \in Nat \ {0}
    /\ c.notBefore \in Nat /\ c.expiresAt \in Nat
    /\ c.notBefore < c.expiresAt
    /\ (c.revision = 1) <=> (c.previousRevisionHash = NoHash)
    /\ c.limits \in Limits
    /\ c.contractHash # NoHash

\* validateSafeCodingExecutionTicket and validatedCharge.
ValidRegistration(r) ==
    /\ r.charge \in Charge
    /\ r.limits \in Limits
    /\ r.ticket.issuedAt \in Nat /\ r.ticket.expiresAt \in Nat
    /\ r.ticket.issuedAt < r.ticket.expiresAt

ASSUME ContractAssumption ==
    /\ \A c \in VerifiedContracts : ValidContract(c)
    /\ \A c, d \in VerifiedContracts : c.contractHash = d.contractHash => c = d

ASSUME RegistrationAssumption == \A r \in Registrations : ValidRegistration(r)

Tickets == {r.ticket : r \in Registrations}
TicketIds == {t.ticketId : t \in Tickets}
ContractIds == {c.contractId : c \in VerifiedContracts}

TerminalStatus == {"failed-no-effect", "committed", "result-unavailable", "uncertain"}
TicketStatus == {"registered", "commit-permit"} \cup TerminalStatus

Put(f, key, value) ==
    [k \in DOMAIN f \cup {key} |-> IF k = key THEN value ELSE f[k]]

-----------------------------------------------------------------------------
\* Helpers of transitions.ts.

CurrentIndex(l) ==
    CHOOSE i \in DOMAIN l.revisions :
        /\ l.revisions[i].contract.contractHash = l.currentContractHash
        /\ \A j \in DOMAIN l.revisions :
              l.revisions[j].contract.contractHash = l.currentContractHash => j <= i

currentRevision(l) == l.revisions[CurrentIndex(l)]

LineageActive(l) == currentRevision(l).status = "active"

CasMatches(l, expected) ==
    LET current == currentRevision(l).contract IN
    /\ expected.contractHash = current.contractHash
    /\ expected.revision = current.revision
    /\ expected.revocationEpoch = l.revocationEpoch

ContractUsableAt(contract, now) ==
    contract.notBefore <= now /\ now < contract.expiresAt

TicketBindsContract(ticket, contract, epoch) ==
    /\ ticket.contractHash = contract.contractHash
    /\ ticket.contractRevision = contract.revision
    /\ ticket.revocationEpoch = epoch
    /\ ticket.bindings = contract.bindings
    /\ ticket.effectClass \in contract.allowedEffectClasses

TicketTimeWindow(ticket, contract, now) ==
    /\ contract.notBefore <= ticket.issuedAt
    /\ ticket.issuedAt <= now
    /\ ticket.expiresAt <= contract.expiresAt
    /\ now < ticket.expiresAt

TicketMatchesActiveLineage(ticket, l, now) ==
    LET current == currentRevision(l) IN
    /\ LineageActive(l)
    /\ ticket.contractHash = current.contract.contractHash
    /\ ticket.contractRevision = current.contract.revision
    /\ ticket.revocationEpoch = l.revocationEpoch
    /\ ContractUsableAt(current.contract, now)

\* Mutant: the registered tickets survive the end of their authority.
FailRegisteredTickets_None(contractId) == tickets

FailRegisteredTickets(contractId) ==
    [t \in DOMAIN tickets |->
        IF tickets[t].contractId = contractId /\ tickets[t].status = "registered"
        THEN [tickets[t] EXCEPT !.status = "failed-no-effect"]
        ELSE tickets[t]]

\* Every revision record carrying the current hash is closed.
\* Mutant: the old revision stays active.
SupersedeCurrent_Open(l) == l.revisions

SupersedeCurrent(l) ==
    [i \in DOMAIN l.revisions |->
        IF l.revisions[i].contract.contractHash = l.currentContractHash
        THEN [l.revisions[i] EXCEPT !.status = "superseded"]
        ELSE l.revisions[i]]

RevokeCurrent(l, epoch) ==
    [i \in DOMAIN l.revisions |->
        IF l.revisions[i].contract.contractHash = l.currentContractHash
        THEN [l.revisions[i] EXCEPT !.status = "revoked", !.revocationEpoch = epoch]
        ELSE l.revisions[i]]

\* getActiveContract: the FIRST revision record with the current hash.
SnapshotIndex(l) ==
    CHOOSE i \in DOMAIN l.revisions :
        /\ l.revisions[i].contract.contractHash = l.currentContractHash
        /\ \A j \in DOMAIN l.revisions :
              l.revisions[j].contract.contractHash = l.currentContractHash => i <= j

getActiveContract(contractId) ==
    LET l == lineages[contractId]
        current == l.revisions[SnapshotIndex(l)]
    IN [contractId |-> contractId,
        contractHash |-> current.contract.contractHash,
        revision |-> current.contract.revision,
        revocationEpoch |-> l.revocationEpoch,
        status |-> current.status]

-----------------------------------------------------------------------------
Init ==
    /\ lineages = <<>>
    /\ tickets = <<>>
    /\ requestIds = {}
    /\ reservationIds = {}

ActiveRevision(contract, epoch, now) ==
    [contract |-> contract, status |-> "active",
     revocationEpoch |-> epoch, activatedAt |-> now]

\* activateContractTransition for revision 1.
ActivateFirst(contract, now) ==
    /\ contract.revision = 1
    /\ contract.contractId \notin DOMAIN lineages
    /\ lineages' = Put(lineages, contract.contractId,
          [currentContractHash |-> contract.contractHash,
           revocationEpoch |-> 0,
           revisions |-> <<ActiveRevision(contract, 0, now)>>,
           budget |-> [modifiedObjectIds |-> {}, mutationBytes |-> 0, testRuns |-> 0]])
    /\ UNCHANGED <<tickets, requestIds, reservationIds>>

ExtendsActiveRevision(contract, l) ==
    LET current == currentRevision(l).contract IN
    /\ contract.revision = current.revision + 1
    /\ contract.previousRevisionHash = current.contractHash

\* activateContractTransition for a later revision.
ActivateNext(contract, expectedPrevious, now) ==
    LET id == contract.contractId
        l == lineages[id]
        epoch == l.revocationEpoch + 1
    IN
    /\ contract.revision # 1
    /\ id \in DOMAIN lineages
    /\ LineageActive(l)
    /\ CasMatches(l, expectedPrevious)
    /\ ExtendsActiveRevision(contract, l)
    /\ contract.contractHash # l.currentContractHash
    /\ currentRevision(l).activatedAt <= now
    /\ l.revocationEpoch < MaxSafeInteger
    /\ lineages' = Put(lineages, id,
          [l EXCEPT !.currentContractHash = contract.contractHash,
                    !.revocationEpoch = epoch,
                    !.revisions = Append(
                        SupersedeCurrent(l),
                        ActiveRevision(contract, epoch, now))])
    /\ tickets' = FailRegisteredTickets(id)
    /\ UNCHANGED <<requestIds, reservationIds>>

RevokeContract(contractId, expectedActive, now) ==
    LET l == lineages[contractId]
        epoch == l.revocationEpoch + 1
    IN
    /\ contractId \in DOMAIN lineages
    /\ LineageActive(l)
    /\ CasMatches(l, expectedActive)
    /\ currentRevision(l).activatedAt <= now
    /\ l.revocationEpoch < MaxSafeInteger
    /\ lineages' = Put(lineages, contractId,
          [l EXCEPT !.revocationEpoch = epoch,
                    !.revisions = RevokeCurrent(l, epoch)])
    /\ tickets' = FailRegisteredTickets(contractId)
    /\ UNCHANGED <<requestIds, reservationIds>>

\* Mutant: bytes are charged only with the first ticket of an object.
NextBudget_FirstObject(budget, ticket, charge) ==
    [modifiedObjectIds |-> budget.modifiedObjectIds \cup {ticket.resolvedObjectId},
     mutationBytes |-> IF ticket.resolvedObjectId \in budget.modifiedObjectIds
                       THEN budget.mutationBytes
                       ELSE budget.mutationBytes + charge.mutationBytes,
     testRuns |-> budget.testRuns + charge.testRuns]

NextBudget(budget, ticket, charge) ==
    [modifiedObjectIds |-> IF charge.uniqueModifiedFiles = 1
                           THEN budget.modifiedObjectIds \cup {ticket.resolvedObjectId}
                           ELSE budget.modifiedObjectIds,
     mutationBytes |-> budget.mutationBytes + charge.mutationBytes,
     testRuns |-> budget.testRuns + charge.testRuns]

WithinLimits(usage, limits) ==
    /\ usage.uniqueModifiedFiles <= limits.maxUniqueModifiedFiles
    /\ usage.mutationBytes <= limits.maxMutationBytes
    /\ usage.testRuns <= limits.maxTestRuns

\* Mutant: request ids are not checked.
ReplayFree_NoRequest(ticket) ==
    /\ ticket.ticketId \notin DOMAIN tickets
    /\ ticket.budgetReservationId \notin reservationIds

ReplayFree(ticket) ==
    /\ ticket.ticketId \notin DOMAIN tickets
    /\ ticket.requestId \notin requestIds
    /\ ticket.budgetReservationId \notin reservationIds

Usage(budget) ==
    [uniqueModifiedFiles |-> Cardinality(budget.modifiedObjectIds),
     mutationBytes |-> budget.mutationBytes,
     testRuns |-> budget.testRuns]

BudgetAdmits(old, new, limits) ==
    /\ new.mutationBytes <= MaxSafeInteger
    /\ new.testRuns <= MaxSafeInteger
    /\ WithinLimits(Usage(new), limits)

\* registerTicketTransition; r is the caller's KernelTicketRegistration.
RegisterTicket(r, now) ==
    LET id == r.expectedActive.contractId
        l == lineages[id]
        current == currentRevision(l)
        budget == NextBudget(l.budget, r.ticket, r.charge)
        added == budget.modifiedObjectIds # l.budget.modifiedObjectIds
    IN
    /\ id \in DOMAIN lineages
    /\ LineageActive(l)
    /\ CasMatches(l, r.expectedActive)
    /\ r.expectedActive.status = "active"
    /\ ContractUsableAt(current.contract, now)
    /\ TicketBindsContract(r.ticket, current.contract, l.revocationEpoch)
    /\ TicketTimeWindow(r.ticket, current.contract, now)
    /\ r.limits = current.contract.limits
    /\ ReplayFree(r.ticket)
    /\ BudgetAdmits(l.budget, budget, current.contract.limits)
    /\ lineages' = Put(lineages, id, [l EXCEPT !.budget = budget])
    /\ tickets' = Put(tickets, r.ticket.ticketId,
          [ticket |-> r.ticket,
           contractId |-> id,
           status |-> "registered",
           registeredAt |-> now,
           commitPermittedAt |-> 0,
           reservedCharge |-> [r.charge EXCEPT
                !.uniqueModifiedFiles = IF added THEN 1 ELSE 0],
           aggregateCharge |-> Usage(budget)])
    /\ requestIds' = requestIds \cup {r.ticket.requestId}
    /\ reservationIds' = reservationIds \cup {r.ticket.budgetReservationId}

SetTicket(id, record) ==
    /\ tickets' = [tickets EXCEPT ![id] = record]
    /\ UNCHANGED <<lineages, requestIds, reservationIds>>

\* The guards commitPermitTransition checks before it may consume the ticket.
PermitRequestable(ticket, now) ==
    /\ ticket.ticketId \in DOMAIN tickets
    /\ tickets[ticket.ticketId].ticket = ticket
    /\ tickets[ticket.ticketId].status = "registered"
    /\ tickets[ticket.ticketId].registeredAt <= now
    /\ ticket.issuedAt <= now

\* Mutant: the ticket's own expiry is not checked.
PermitGrantable_NoExpiry(ticket, now) ==
    /\ tickets[ticket.ticketId].contractId \in DOMAIN lineages
    /\ TicketMatchesActiveLineage(ticket, lineages[tickets[ticket.ticketId].contractId], now)

PermitGrantable(ticket, now) ==
    /\ now < ticket.expiresAt
    /\ tickets[ticket.ticketId].contractId \in DOMAIN lineages
    /\ TicketMatchesActiveLineage(ticket, lineages[tickets[ticket.ticketId].contractId], now)

CommitPermit(ticket, now) ==
    /\ PermitRequestable(ticket, now)
    /\ PermitGrantable(ticket, now)
    /\ SetTicket(ticket.ticketId,
          [tickets[ticket.ticketId] EXCEPT !.status = "commit-permit",
                                           !.commitPermittedAt = now])

\* terminalCommitFailure: the denial itself consumes the ticket.
DenyPermit(ticket, now) ==
    /\ PermitRequestable(ticket, now)
    /\ ~PermitGrantable(ticket, now)
    /\ SetTicket(ticket.ticketId,
          [tickets[ticket.ticketId] EXCEPT !.status = "failed-no-effect"])

FailBeforeCommit(id, now) ==
    /\ id \in DOMAIN tickets
    /\ tickets[id].status = "registered"
    /\ tickets[id].registeredAt <= now
    /\ SetTicket(id, [tickets[id] EXCEPT !.status = "failed-no-effect"])

\* Mutant: a ticket may be settled in any state.
SettleTicket_AnyState(id, status, now) ==
    /\ id \in DOMAIN tickets
    /\ tickets[id].commitPermittedAt <= now
    /\ SetTicket(id, [tickets[id] EXCEPT !.status = status])

SettleTicket(id, status, now) ==
    /\ id \in DOMAIN tickets
    /\ tickets[id].status = "commit-permit"
    /\ status \in TerminalStatus
    /\ tickets[id].commitPermittedAt <= now
    /\ SetTicket(id, [tickets[id] EXCEPT !.status = status])

Next ==
    \E now \in Time :
        \/ \E c \in VerifiedContracts : ActivateFirst(c, now)
        \/ \E c \in VerifiedContracts, e \in CasExpectations : ActivateNext(c, e, now)
        \/ \E id \in ContractIds, e \in CasExpectations : RevokeContract(id, e, now)
        \/ \E r \in Registrations : RegisterTicket(r, now)
        \/ \E t \in Tickets : CommitPermit(t, now)
        \/ \E t \in Tickets : DenyPermit(t, now)
        \/ \E id \in TicketIds : FailBeforeCommit(id, now)
        \/ \E id \in TicketIds, s \in TerminalStatus : SettleTicket(id, s, now)

Spec == Init /\ [][Next]_kernelVars

-----------------------------------------------------------------------------
\* Properties.

RevisionRecord ==
    [contract: VerifiedContracts, status: {"active", "superseded", "revoked"},
     revocationEpoch: Nat, activatedAt: Nat]

Lineage ==
    [currentContractHash: {c.contractHash : c \in VerifiedContracts},
     revocationEpoch: Nat,
     revisions: Seq(RevisionRecord),
     budget: [modifiedObjectIds: SUBSET {t.resolvedObjectId : t \in Tickets},
              mutationBytes: Nat, testRuns: Nat]]

TicketRecord ==
    [ticket: Tickets, contractId: ContractIds, status: TicketStatus,
     registeredAt: Nat, commitPermittedAt: Nat,
     reservedCharge: Charge, aggregateCharge: Aggregate]

\* Type invariant: the plain-data state of state.ts.
TypeOK ==
    /\ DOMAIN lineages \subseteq ContractIds
    /\ lineages \in [DOMAIN lineages -> Lineage]
    /\ DOMAIN tickets \subseteq TicketIds
    /\ tickets \in [DOMAIN tickets -> TicketRecord]
    /\ requestIds \subseteq {t.requestId : t \in Tickets}
    /\ reservationIds \subseteq {t.budgetReservationId : t \in Tickets}

\* A lineage is one chain of revisions 1, 2, ..., n, each superseded but the
\* last, whose hash is the published current hash; the revocation epoch
\* counts the authorities that ended.  This is what makes a compare-and-swap
\* on (hash, revision, epoch) in activateContract/revokeContract immune to
\* an authority that returns under an old name.
ChainOf(id, l) ==
    LET n == Len(l.revisions) IN
    /\ n > 0
    /\ l.currentContractHash = l.revisions[n].contract.contractHash
    /\ \A i \in 1..n :
          /\ l.revisions[i].contract.revision = i
          /\ l.revisions[i].contract.contractId = id
          /\ i < n => l.revisions[i].status = "superseded"
    /\ l.revisions[n].status # "superseded"
    /\ l.revisions[n].revocationEpoch = l.revocationEpoch
    /\ l.revocationEpoch = IF l.revisions[n].status = "active" THEN n - 1 ELSE n

LineageChain == \A id \in DOMAIN lineages : ChainOf(id, lineages[id])

\* getActiveContract searches the revisions from the front and the
\* transitions from the back (transitions.ts currentRevision): both must
\* answer with the same record, or a Guardian would bind tickets to an
\* authority the kernel does not consider current.
SnapshotIsCurrent ==
    \A id \in DOMAIN lineages :
        LET l == lineages[id] IN l.revisions[SnapshotIndex(l)] = currentRevision(l)

\* Supersession and revocation fail every registered ticket of the lineage in
\* the same transition, so a ticket that is still registered would be
\* permitted at any time from its registration up to its expiry: commitPermit
\* never has to deny an unexpired ticket as stale.
RegisteredTicketsPermittable ==
    \A id \in DOMAIN tickets :
        tickets[id].status = "registered" =>
            \A now \in Time :
                (tickets[id].registeredAt <= now /\ now < tickets[id].ticket.expiresAt)
                    => PermitGrantable(tickets[id].ticket, now)

\* Strengthening of RegisteredTicketsPermittable to an inductive invariant:
\* every ticket belongs to a lineage on record, and a registered one binds its
\* last, active revision and lies inside that revision's validity window.
BoundTo(record, l) ==
    LET t == record.ticket
        last == l.revisions[Len(l.revisions)]
    IN /\ last.status = "active"
       /\ TicketBindsContract(t, last.contract, l.revocationEpoch)
       /\ last.contract.notBefore <= t.issuedAt
       /\ t.issuedAt <= record.registeredAt
       /\ t.expiresAt <= last.contract.expiresAt

RegisteredBound ==
    \A id \in DOMAIN tickets :
        /\ tickets[id].ticket.ticketId = id
        /\ tickets[id].contractId \in DOMAIN lineages
        /\ tickets[id].status = "registered" =>
              BoundTo(tickets[id], lineages[tickets[id].contractId])

FiniteBudgets ==
    \A id \in DOMAIN lineages : IsFiniteSet(lineages[id].budget.modifiedObjectIds)

KernelInv == TypeOK /\ FiniteBudgets /\ LineageChain /\ RegisteredBound

\* No two tickets, of any lineage and in any state, share a request id or a
\* budget reservation id, and the replay registries hold exactly the ids of
\* the tickets on record: nothing consumed is ever released.
IdentitiesConsumedOnce ==
    /\ \A s, t \in DOMAIN tickets :
          \/ tickets[s].ticket.requestId = tickets[t].ticket.requestId
          \/ tickets[s].ticket.budgetReservationId = tickets[t].ticket.budgetReservationId
          => s = t
    /\ requestIds = {tickets[t].ticket.requestId : t \in DOMAIN tickets}
    /\ reservationIds = {tickets[t].ticket.budgetReservationId : t \in DOMAIN tickets}

\* The lineage totals recorded with a ticket respected the limits of the very
\* contract revision that authorised it, whatever earlier revisions of the
\* lineage had already reserved.
ReservedWithinLimits ==
    \A id \in DOMAIN tickets :
        \E i \in DOMAIN lineages[tickets[id].contractId].revisions :
            LET c == lineages[tickets[id].contractId].revisions[i].contract IN
            /\ c.contractHash = tickets[id].ticket.contractHash
            /\ WithinLimits(tickets[id].aggregateCharge, c.limits)

\* The tickets of a lineage, in whatever state they are.
TicketsOf(c) == {t \in DOMAIN tickets : tickets[t].contractId = c}

NoUsage == [uniqueModifiedFiles |-> 0, mutationBytes |-> 0, testRuns |-> 0]
Charged(usage, charge) ==
    [uniqueModifiedFiles |-> usage.uniqueModifiedFiles + charge.uniqueModifiedFiles,
     mutationBytes |-> usage.mutationBytes + charge.mutationBytes,
     testRuns |-> usage.testRuns + charge.testRuns]

\* The tickets ids account for the usage: in some order of them, the total
\* recorded with each is the total before it plus what it reserved, and the
\* last is the usage.
AccountFor(records, ids, usage) ==
    LET n == Cardinality(ids) IN
    \E order \in [1..n -> ids] :
        LET total(i) == IF i = 0 THEN NoUsage ELSE records[order[i]].aggregateCharge IN
        /\ \A i, j \in 1..n : order[i] = order[j] => i = j
        /\ \A i \in 1..n : total(i) = Charged(total(i - 1), records[order[i]].reservedCharge)
        /\ usage = total(n)

\* A lineage's budget is at every moment exactly what its tickets reserved:
\* nothing is refunded when a ticket fails or a revision is superseded or
\* revoked, an object shared by several tickets is charged once, and what was
\* reserved respected the limits of the revision it was reserved under.
BudgetAccountsEveryReservation ==
    /\ ReservedWithinLimits
    /\ \A c \in DOMAIN lineages : AccountFor(tickets, TicketsOf(c), Usage(lineages[c].budget))

\* A commit permit is granted only while its lineage is active at exactly the
\* hash, revision and revocation epoch the ticket binds, and only inside both
\* the ticket's and the contract's validity window.
PermitGranted(id) ==
    /\ id \in DOMAIN tickets
    /\ tickets[id].status # "commit-permit"
    /\ tickets'[id].status = "commit-permit"

PermitUnderLiveAuthority ==
    [][\A id \in DOMAIN tickets' :
         PermitGranted(id) =>
            LET t == tickets[id].ticket
                l == lineages[tickets[id].contractId]
                current == currentRevision(l)
                at == tickets'[id].commitPermittedAt
            IN /\ tickets[id].status = "registered"
               /\ current.status = "active"
               /\ t.contractHash = current.contract.contractHash
               /\ t.revocationEpoch = l.revocationEpoch
               /\ t.issuedAt <= at /\ at < t.expiresAt
               /\ ContractUsableAt(current.contract, at)]_kernelVars

\* A ticket record is never dropped, rebound or reopened: a terminal record
\* is frozen, and a permit, once granted, only settles and is never granted
\* again.
TicketsAreOneShot ==
    [][\A id \in DOMAIN tickets :
         /\ id \in DOMAIN tickets'
         /\ tickets'[id].ticket = tickets[id].ticket
         /\ tickets'[id].contractId = tickets[id].contractId
         /\ tickets[id].status \in TerminalStatus => tickets'[id] = tickets[id]
         /\ tickets[id].status = "commit-permit" =>
               /\ tickets'[id].status \in {"commit-permit"} \cup TerminalStatus
               /\ tickets'[id].commitPermittedAt = tickets[id].commitPermittedAt]_kernelVars

\* A revoked lineage is frozen for ever, budget included, and none of its
\* tickets is registered or permitted afterwards.
RevocationIsFinal ==
    [][\A c \in DOMAIN lineages :
         currentRevision(lineages[c]).status = "revoked" =>
            /\ c \in DOMAIN lineages' /\ lineages'[c] = lineages[c]
            /\ \A id \in DOMAIN tickets' :
                  tickets'[id].contractId = c =>
                    /\ id \in DOMAIN tickets
                    /\ tickets'[id].status # "registered"
                    /\ ~PermitGranted(id)]_kernelVars
=============================================================================
