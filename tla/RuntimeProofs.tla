---------------------------- MODULE RuntimeProofs ----------------------------
(***************************************************************************)
(* Proofs about Kernel, for every set of contracts, registrations and      *)
(* clock readings, and after them about Runtime, which uses the kernel     *)
(* they speak of, for any number of executions and every combination of    *)
(* faults.                                                                 *)
(***************************************************************************)
EXTENDS Runtime, FiniteSetTheorems, TLAPS

-----------------------------------------------------------------------------
\* Lemmas about the helpers.

\* Put keeps a function's values in a set.
LEMMA PutType ==
    ASSUME NEW S, NEW f, f \in [DOMAIN f -> S], NEW key, NEW value \in S
    PROVE  Put(f, key, value) \in [DOMAIN Put(f, key, value) -> S]
    BY DEF Put

\* Rewriting the elements of a sequence in place gives a sequence of the same
\* length.
LEMMA SequenceMap ==
    ASSUME NEW S, NEW s \in Seq(S), NEW t, DOMAIN t = DOMAIN s,
           t = [i \in DOMAIN t |-> t[i]],
           \A i \in DOMAIN s : t[i] \in S
    PROVE  t \in Seq(S) /\ Len(t) = Len(s)
<1>1. DOMAIN s = 1..Len(s) /\ Len(s) \in Nat
    OBVIOUS
<1>2. t \in [1..Len(s) -> S]
    BY <1>1
<1> QED
    BY <1>1, <1>2

\* The transitions' scan from the back and getActiveContract's scan from the
\* front both find the last revision of a chain.
LEMMA CurrentIsLast ==
    ASSUME NEW id, NEW l \in Lineage, ChainOf(id, l)
    PROVE  /\ Len(l.revisions) \in DOMAIN l.revisions
           /\ CurrentIndex(l) = Len(l.revisions)
           /\ SnapshotIndex(l) = Len(l.revisions)
           /\ \A i \in DOMAIN l.revisions :
                 l.revisions[i].contract.contractHash = l.currentContractHash
                     => i = Len(l.revisions)
<1> DEFINE n == Len(l.revisions)
<1>1. /\ l.revisions \in Seq(RevisionRecord)
      /\ DOMAIN l.revisions = 1..n /\ n \in Nat /\ n > 0
    BY DEF Lineage, ChainOf
<1>2. n \in DOMAIN l.revisions
    BY <1>1
<1>3. \A i \in DOMAIN l.revisions : l.revisions[i].contract \in VerifiedContracts
  <2>1. \A i \in DOMAIN l.revisions : l.revisions[i] \in RevisionRecord
    BY <1>1
  <2> QED
    BY <2>1 DEF RevisionRecord
<1>4. \A i \in DOMAIN l.revisions :
         l.revisions[i].contract.contractHash = l.currentContractHash => i = n
    BY <1>1, <1>2, <1>3, ContractAssumption DEF ChainOf
<1>5. l.revisions[n].contract.contractHash = l.currentContractHash
    BY <1>1 DEF ChainOf
<1>6. CurrentIndex(l) = n
    BY <1>1, <1>2, <1>4, <1>5 DEF CurrentIndex
<1>7. SnapshotIndex(l) = n
    BY <1>1, <1>2, <1>4, <1>5 DEF SnapshotIndex
<1> QED
    BY <1>2, <1>4, <1>6, <1>7

-----------------------------------------------------------------------------
\* Preservation of the inductive invariant, one lemma per action.

\* The empty kernel satisfies the invariant.
LEMMA InitInv == Init => KernelInv
    BY DEF Init, KernelInv, TypeOK, FiniteBudgets, LineageChain, RegisteredBound

\* Facts about a fresh revision record.
LEMMA ActiveRevisionType ==
    ASSUME NEW c \in VerifiedContracts, NEW epoch \in Nat, NEW now \in Time
    PROVE  ActiveRevision(c, epoch, now) \in RevisionRecord
    BY TimeAssumption DEF ActiveRevision, RevisionRecord

\* activateContract of a first revision founds a one-element chain.
LEMMA ActivateFirstInv ==
    ASSUME KernelInv, NEW c \in VerifiedContracts, NEW now \in Time,
           ActivateFirst(c, now)
    PROVE  KernelInv'
<1> DEFINE id == c.contractId
           fresh == [currentContractHash |-> c.contractHash,
                     revocationEpoch |-> 0,
                     revisions |-> <<ActiveRevision(c, 0, now)>>,
                     budget |-> [modifiedObjectIds |-> {}, mutationBytes |-> 0, testRuns |-> 0]]
<1>1. lineages' = Put(lineages, id, fresh) /\ id \notin DOMAIN lineages
    BY DEF ActivateFirst
<1>2. ActiveRevision(c, 0, now) \in RevisionRecord
    BY ActiveRevisionType
<1>3. fresh \in Lineage
  <2>1. <<ActiveRevision(c, 0, now)>> \in Seq(RevisionRecord)
    BY <1>2
  <2>2. c.contractHash \in {d.contractHash : d \in VerifiedContracts}
    OBVIOUS
  <2> QED
    BY <2>1, <2>2 DEF Lineage
<1> HIDE DEF fresh
<1>4. /\ DOMAIN lineages' = DOMAIN lineages \cup {id}
      /\ lineages'[id] = fresh
      /\ \A k \in DOMAIN lineages : lineages'[k] = lineages[k]
    BY <1>1 DEF Put
<1>5. tickets' = tickets /\ requestIds' = requestIds /\ reservationIds' = reservationIds
    BY DEF ActivateFirst
<1>6. TypeOK'
    BY <1>1, <1>3, <1>4, <1>5, PutType DEF KernelInv, TypeOK, ContractIds
<1>7. FiniteBudgets'
  <2>1. IsFiniteSet(fresh.budget.modifiedObjectIds)
    BY FS_EmptySet DEF fresh
  <2> QED
    BY <1>4, <2>1 DEF KernelInv, FiniteBudgets
<1>8. ChainOf(id, fresh)
    BY DEF ChainOf, ActivateFirst, ActiveRevision, fresh
<1>9. LineageChain'
    BY <1>4, <1>8 DEF KernelInv, LineageChain
<1>10. RegisteredBound'
  <2> SUFFICES ASSUME NEW k \in DOMAIN tickets
               PROVE  /\ tickets[k].ticket.ticketId = k
                      /\ tickets[k].contractId \in DOMAIN lineages'
                      /\ tickets[k].status = "registered" =>
                            BoundTo(tickets[k], lineages'[tickets[k].contractId])
    BY <1>5 DEF RegisteredBound
  <2> QED
    BY <1>4 DEF KernelInv, RegisteredBound
<1> QED
    BY <1>6, <1>7, <1>9, <1>10 DEF KernelInv

\* Supersession and revocation have this in common: the lineage is replaced
\* and its registered tickets fail, in one transition.
LEMMA EndAuthorityInv ==
    ASSUME KernelInv, NEW id \in DOMAIN lineages, NEW l \in Lineage,
           ChainOf(id, l), l.budget = lineages[id].budget,
           lineages' = Put(lineages, id, l),
           tickets' = FailRegisteredTickets(id),
           UNCHANGED <<requestIds, reservationIds>>
    PROVE  KernelInv'
<1>1. /\ DOMAIN lineages' = DOMAIN lineages
      /\ lineages'[id] = l
      /\ \A k \in DOMAIN lineages : k # id => lineages'[k] = lineages[k]
    BY DEF Put
<1>2. /\ DOMAIN tickets' = DOMAIN tickets
      /\ \A k \in DOMAIN tickets :
            tickets'[k] = IF tickets[k].contractId = id /\ tickets[k].status = "registered"
                          THEN [tickets[k] EXCEPT !.status = "failed-no-effect"]
                          ELSE tickets[k]
    BY DEF FailRegisteredTickets
<1>3. \A k \in DOMAIN tickets :
        /\ tickets[k] \in TicketRecord
        /\ tickets'[k] \in TicketRecord
        /\ tickets'[k].ticket = tickets[k].ticket
        /\ tickets'[k].contractId = tickets[k].contractId
        /\ tickets'[k].status = "registered" =>
               tickets'[k] = tickets[k] /\ tickets[k].contractId # id
  <2> SUFFICES ASSUME NEW k \in DOMAIN tickets
               PROVE  /\ tickets[k] \in TicketRecord
                      /\ tickets'[k] \in TicketRecord
                      /\ tickets'[k].ticket = tickets[k].ticket
                      /\ tickets'[k].contractId = tickets[k].contractId
                      /\ tickets'[k].status = "registered" =>
                             tickets'[k] = tickets[k] /\ tickets[k].contractId # id
    OBVIOUS
  <2>1. tickets[k] \in TicketRecord
    BY DEF KernelInv, TypeOK
  <2> QED
    BY <1>2, <2>1 DEF TicketRecord, TicketStatus, TerminalStatus
<1>4. TypeOK'
  <2>1. tickets' \in [DOMAIN tickets' -> TicketRecord]
    BY <1>2, <1>3 DEF FailRegisteredTickets
  <2>2. lineages' \in [DOMAIN lineages' -> Lineage]
    BY PutType DEF KernelInv, TypeOK
  <2> QED
    BY <1>1, <1>2, <2>1, <2>2 DEF KernelInv, TypeOK
<1>5. FiniteBudgets'
    BY <1>1 DEF KernelInv, FiniteBudgets
<1>6. LineageChain'
    BY <1>1 DEF KernelInv, LineageChain
<1>7. RegisteredBound'
    BY <1>1, <1>2, <1>3 DEF KernelInv, RegisteredBound
<1> QED
    BY <1>4, <1>5, <1>6, <1>7 DEF KernelInv

\* activateContract of a later revision extends the chain by one and fails the
\* tickets of the superseded revision.
LEMMA ActivateNextInv ==
    ASSUME KernelInv, NEW c \in VerifiedContracts, NEW e, NEW now \in Time,
           ActivateNext(c, e, now)
    PROVE  KernelInv'
<1> DEFINE id == c.contractId
           l == lineages[id]
           n == Len(l.revisions)
           epoch == l.revocationEpoch + 1
           closed == SupersedeCurrent(l)
           fresh == ActiveRevision(c, epoch, now)
           next == [l EXCEPT !.currentContractHash = c.contractHash,
                             !.revocationEpoch = epoch,
                             !.revisions = Append(closed, fresh)]
<1>1. /\ id \in DOMAIN lineages /\ l \in Lineage /\ ChainOf(id, l)
      /\ l.revisions \in Seq(RevisionRecord) /\ epoch \in Nat
      /\ n \in Nat /\ n > 0 /\ DOMAIN l.revisions = 1..n
  <2>1. id \in DOMAIN lineages
    BY DEF ActivateNext
  <2>2. l \in Lineage /\ ChainOf(id, l)
    BY <2>1 DEF KernelInv, TypeOK, LineageChain
  <2>3. l.revisions \in Seq(RevisionRecord) /\ l.revocationEpoch \in Nat
    BY <2>2 DEF Lineage
  <2>4. n > 0
    BY <2>2 DEF ChainOf
  <2> QED
    BY <2>1, <2>2, <2>3, <2>4
<1>2. /\ CurrentIndex(l) = n
      /\ \A i \in 1..n :
            l.revisions[i].contract.contractHash = l.currentContractHash => i = n
    BY <1>1, CurrentIsLast
<1>3. \A i \in 1..n : l.revisions[i] \in RevisionRecord
    BY <1>1
<1>4. /\ closed \in Seq(RevisionRecord) /\ Len(closed) = n
      /\ \A i \in 1..n : closed[i].contract = l.revisions[i].contract
      /\ \A i \in 1..n : closed[i].status = "superseded"
  <2>1. DOMAIN closed = 1..n /\ closed = [i \in DOMAIN closed |-> closed[i]]
    BY <1>1 DEF SupersedeCurrent
  <2>2. \A i \in 1..n :
          closed[i] = IF l.revisions[i].contract.contractHash = l.currentContractHash
                      THEN [l.revisions[i] EXCEPT !.status = "superseded"]
                      ELSE l.revisions[i]
    BY <1>1 DEF SupersedeCurrent
  <2>3. \A i \in 1..n : closed[i] \in RevisionRecord
    BY <1>3, <2>2 DEF RevisionRecord
  <2>4. \A i \in 1..n : closed[i].contract = l.revisions[i].contract
    BY <1>3, <2>2 DEF RevisionRecord
  <2>5. \A i \in 1..n : closed[i].status = "superseded"
    <3> SUFFICES ASSUME NEW i \in 1..n PROVE closed[i].status = "superseded"
      OBVIOUS
    <3>1. CASE i = n
      <4>1. l.revisions[n].contract.contractHash = l.currentContractHash
        BY <1>1 DEF ChainOf
      <4> QED
        BY <3>1, <4>1, <1>3, <2>2 DEF RevisionRecord
    <3>2. CASE i # n
      <4>1. i < n
        BY <3>2, <1>1
      <4>2. closed[i] = l.revisions[i]
        BY <3>2, <1>2, <2>2
      <4>3. l.revisions[i].status = "superseded"
        BY <4>1, <1>1 DEF ChainOf
      <4> QED
        BY <4>2, <4>3
    <3> QED
      BY <3>1, <3>2
  <2>6. closed \in Seq(RevisionRecord) /\ Len(closed) = n
    BY <1>1, <2>1, <2>3, SequenceMap
  <2> QED
    BY <2>4, <2>5, <2>6
<1>5. fresh \in RevisionRecord
    BY <1>1, ActiveRevisionType
<1> HIDE DEF closed
<1>6. /\ Append(closed, fresh) \in Seq(RevisionRecord)
      /\ Len(Append(closed, fresh)) = n + 1
      /\ \A i \in 1..n : Append(closed, fresh)[i] = closed[i]
      /\ Append(closed, fresh)[n + 1] = fresh
    BY <1>1, <1>4, <1>5
<1>7. c.revision = n + 1 /\ l.revisions[n].status = "active"
  <2>1. currentRevision(l) = l.revisions[n]
    BY <1>2 DEF currentRevision
  <2>2. l.revisions[n].contract.revision = n
    BY <1>1 DEF ChainOf
  <2>3. LineageActive(l) /\ ExtendsActiveRevision(c, l)
    BY DEF ActivateNext
  <2> QED
    BY <2>1, <2>2, <2>3 DEF ExtendsActiveRevision, LineageActive
<1>8. /\ fresh.contract = c /\ fresh.status = "active" /\ fresh.revocationEpoch = epoch
    BY DEF ActiveRevision
<1>9. epoch = n
    BY <1>1, <1>7 DEF ChainOf, Lineage
<1> HIDE DEF fresh
<1>10. /\ next \in Lineage
       /\ next.budget = l.budget
       /\ next.currentContractHash = c.contractHash
       /\ next.revocationEpoch = epoch
       /\ next.revisions = Append(closed, fresh)
    BY <1>1, <1>6 DEF Lineage
<1> HIDE DEF next
<1>11. ChainOf(id, next)
  <2>1. \A i \in 1..(n + 1) :
          /\ next.revisions[i].contract.revision = i
          /\ next.revisions[i].contract.contractId = id
          /\ i < n + 1 => next.revisions[i].status = "superseded"
    <3> SUFFICES ASSUME NEW i \in 1..(n + 1)
                 PROVE  /\ next.revisions[i].contract.revision = i
                        /\ next.revisions[i].contract.contractId = id
                        /\ i < n + 1 => next.revisions[i].status = "superseded"
      OBVIOUS
    <3>1. CASE i = n + 1
      BY <3>1, <1>1, <1>6, <1>7, <1>8, <1>10
    <3>2. CASE i # n + 1
      <4>1. i \in 1..n
        BY <3>2, <1>1
      <4>2. next.revisions[i] = closed[i]
        BY <4>1, <1>6, <1>10
      <4>3. /\ l.revisions[i].contract.revision = i
            /\ l.revisions[i].contract.contractId = id
        BY <4>1, <1>1 DEF ChainOf
      <4> QED
        BY <4>1, <4>2, <4>3, <1>4
    <3> QED
      BY <3>1, <3>2
  <2>2. Len(next.revisions) = n + 1 /\ next.revisions[n + 1] = fresh
    BY <1>6, <1>10
  <2>3. next.currentContractHash = fresh.contract.contractHash
    BY <1>8, <1>10
  <2>4. next.revocationEpoch = epoch /\ epoch = (n + 1) - 1 /\ n + 1 > 0
    BY <1>1, <1>9, <1>10
  <2> QED
    BY <2>1, <2>2, <2>3, <2>4, <1>8 DEF ChainOf
<1>12. /\ lineages' = Put(lineages, id, next)
       /\ tickets' = FailRegisteredTickets(id)
       /\ UNCHANGED <<requestIds, reservationIds>>
    BY DEF ActivateNext, next, closed, fresh
<1> QED
    BY <1>1, <1>10, <1>11, <1>12, EndAuthorityInv
\* revokeContract closes the last revision of the chain under the new epoch.
LEMMA RevokeContractInv ==
    ASSUME KernelInv, NEW id, NEW e, NEW now \in Time, RevokeContract(id, e, now)
    PROVE  KernelInv'
<1> DEFINE l == lineages[id]
           n == Len(l.revisions)
           epoch == l.revocationEpoch + 1
           closed == RevokeCurrent(l, epoch)
           next == [l EXCEPT !.revocationEpoch = epoch, !.revisions = closed]
<1>1. /\ id \in DOMAIN lineages /\ l \in Lineage /\ ChainOf(id, l)
      /\ l.revisions \in Seq(RevisionRecord) /\ epoch \in Nat
      /\ n \in Nat /\ n > 0 /\ DOMAIN l.revisions = 1..n
  <2>1. id \in DOMAIN lineages
    BY DEF RevokeContract
  <2>2. l \in Lineage /\ ChainOf(id, l)
    BY <2>1 DEF KernelInv, TypeOK, LineageChain
  <2>3. l.revisions \in Seq(RevisionRecord) /\ l.revocationEpoch \in Nat
    BY <2>2 DEF Lineage
  <2>4. n > 0
    BY <2>2 DEF ChainOf
  <2> QED
    BY <2>1, <2>2, <2>3, <2>4
<1>2. /\ CurrentIndex(l) = n
      /\ \A i \in 1..n :
            l.revisions[i].contract.contractHash = l.currentContractHash => i = n
    BY <1>1, CurrentIsLast
<1>3. \A i \in 1..n : l.revisions[i] \in RevisionRecord
    BY <1>1
<1>4. /\ closed \in Seq(RevisionRecord) /\ Len(closed) = n
      /\ \A i \in 1..n : closed[i].contract = l.revisions[i].contract
      /\ \A i \in 1..n : i < n => closed[i] = l.revisions[i]
      /\ closed[n].status = "revoked" /\ closed[n].revocationEpoch = epoch
  <2>1. DOMAIN closed = 1..n /\ closed = [i \in DOMAIN closed |-> closed[i]]
    BY <1>1 DEF RevokeCurrent
  <2>2. \A i \in 1..n :
          closed[i] = IF l.revisions[i].contract.contractHash = l.currentContractHash
                      THEN [l.revisions[i] EXCEPT !.status = "revoked",
                                                  !.revocationEpoch = epoch]
                      ELSE l.revisions[i]
    BY <1>1 DEF RevokeCurrent
  <2>3. \A i \in 1..n : closed[i] \in RevisionRecord
    <3> SUFFICES ASSUME NEW i \in 1..n PROVE closed[i] \in RevisionRecord
      OBVIOUS
    <3>1. l.revisions[i] \in RevisionRecord /\ epoch \in Nat
      BY <1>1, <1>3
    <3> QED
      BY <3>1, <2>2 DEF RevisionRecord
  <2>4. \A i \in 1..n : closed[i].contract = l.revisions[i].contract
    BY <1>3, <2>2 DEF RevisionRecord
  <2>5. \A i \in 1..n : i < n => closed[i] = l.revisions[i]
    <3> SUFFICES ASSUME NEW i \in 1..n, i < n PROVE closed[i] = l.revisions[i]
      OBVIOUS
    <3>1. i # n
      BY <1>1
    <3> QED
      BY <3>1, <1>2, <2>2
  <2>6. closed[n].status = "revoked" /\ closed[n].revocationEpoch = epoch
    <3>1. l.revisions[n].contract.contractHash = l.currentContractHash /\ n \in 1..n
      BY <1>1 DEF ChainOf
    <3> QED
      BY <3>1, <1>3, <2>2 DEF RevisionRecord
  <2>7. closed \in Seq(RevisionRecord) /\ Len(closed) = n
    BY <1>1, <2>1, <2>3, SequenceMap
  <2> QED
    BY <2>4, <2>5, <2>6, <2>7
<1> HIDE DEF closed
<1>5. l.revisions[n].status = "active"
    BY <1>2 DEF RevokeContract, LineageActive, currentRevision
<1>6. epoch = n
    BY <1>1, <1>5 DEF ChainOf, Lineage
<1>7. /\ next \in Lineage
      /\ next.budget = l.budget
      /\ next.currentContractHash = l.currentContractHash
      /\ next.revocationEpoch = epoch
      /\ next.revisions = closed
    BY <1>1, <1>4 DEF Lineage
<1> HIDE DEF next
<1>8. ChainOf(id, next)
  <2>1. \A i \in 1..n :
          /\ next.revisions[i].contract.revision = i
          /\ next.revisions[i].contract.contractId = id
          /\ i < n => next.revisions[i].status = "superseded"
    BY <1>1, <1>4, <1>7 DEF ChainOf
  <2>2. next.currentContractHash = next.revisions[n].contract.contractHash
    <3>1. l.currentContractHash = l.revisions[n].contract.contractHash /\ n \in 1..n
      BY <1>1 DEF ChainOf
    <3> QED
      BY <3>1, <1>4, <1>7
  <2> QED
    BY <2>1, <2>2, <1>1, <1>4, <1>6, <1>7 DEF ChainOf
<1>9. /\ lineages' = Put(lineages, id, next)
      /\ tickets' = FailRegisteredTickets(id)
      /\ UNCHANGED <<requestIds, reservationIds>>
    BY DEF RevokeContract, next, closed
<1> QED
    BY <1>1, <1>7, <1>8, <1>9, EndAuthorityInv

\* What every action that only moves one ticket on has in common: the record
\* keeps its ticket and its lineage and leaves the registered state.
LEMMA SetTicketInv ==
    ASSUME KernelInv, NEW id \in DOMAIN tickets, NEW record \in TicketRecord,
           record.ticket = tickets[id].ticket,
           record.contractId = tickets[id].contractId,
           record.status # "registered",
           SetTicket(id, record)
    PROVE  KernelInv'
<1>1. /\ DOMAIN tickets' = DOMAIN tickets
      /\ tickets'[id] = record
      /\ \A k \in DOMAIN tickets : k # id => tickets'[k] = tickets[k]
      /\ tickets' = [tickets EXCEPT ![id] = record]
      /\ lineages' = lineages /\ requestIds' = requestIds
      /\ reservationIds' = reservationIds
    BY DEF KernelInv, TypeOK, SetTicket
<1>2. TypeOK'
    BY <1>1 DEF KernelInv, TypeOK
<1>3. FiniteBudgets' /\ LineageChain'
    BY <1>1 DEF KernelInv, FiniteBudgets, LineageChain
<1>4. RegisteredBound'
  <2> SUFFICES ASSUME NEW k \in DOMAIN tickets
               PROVE  /\ tickets'[k].ticket.ticketId = k
                      /\ tickets'[k].contractId \in DOMAIN lineages
                      /\ tickets'[k].status = "registered" =>
                            BoundTo(tickets'[k], lineages[tickets'[k].contractId])
    BY <1>1 DEF RegisteredBound
  <2> QED
    BY <1>1 DEF KernelInv, RegisteredBound
<1> QED
    BY <1>2, <1>3, <1>4 DEF KernelInv

\* commitPermit, granted or denied.
LEMMA PermitInv ==
    ASSUME KernelInv, NEW t, NEW now \in Time,
           CommitPermit(t, now) \/ DenyPermit(t, now)
    PROVE  KernelInv'
<1> DEFINE id == t.ticketId
<1>1. id \in DOMAIN tickets /\ tickets[id] \in TicketRecord /\ now \in Nat
    BY TimeAssumption DEF CommitPermit, DenyPermit, PermitRequestable, KernelInv, TypeOK
<1>2. CASE CommitPermit(t, now)
  <2> DEFINE record == [tickets[id] EXCEPT !.status = "commit-permit",
                                           !.commitPermittedAt = now]
  <2>1. SetTicket(id, record)
    BY <1>2 DEF CommitPermit
  <2>2. /\ record \in TicketRecord
        /\ record.ticket = tickets[id].ticket
        /\ record.contractId = tickets[id].contractId
        /\ record.status # "registered"
    BY <1>1 DEF TicketRecord, TicketStatus
  <2> QED
    BY <1>1, <2>1, <2>2, SetTicketInv
<1>3. CASE DenyPermit(t, now)
  <2> DEFINE record == [tickets[id] EXCEPT !.status = "failed-no-effect"]
  <2>1. SetTicket(id, record)
    BY <1>3 DEF DenyPermit
  <2>2. /\ record \in TicketRecord
        /\ record.ticket = tickets[id].ticket
        /\ record.contractId = tickets[id].contractId
        /\ record.status # "registered"
    BY <1>1 DEF TicketRecord, TicketStatus, TerminalStatus
  <2> QED
    BY <1>1, <2>1, <2>2, SetTicketInv
<1> QED
    BY <1>2, <1>3

\* failBeforeCommit and settleTicket.
LEMMA CloseTicketInv ==
    ASSUME KernelInv, NEW id, NEW status, NEW now,
           FailBeforeCommit(id, now) \/ SettleTicket(id, status, now)
    PROVE  KernelInv'
<1>1. PICK s \in TerminalStatus :
        id \in DOMAIN tickets /\ SetTicket(id, [tickets[id] EXCEPT !.status = s])
    BY DEF FailBeforeCommit, SettleTicket, TerminalStatus
<1>2. tickets[id] \in TicketRecord
    BY <1>1 DEF KernelInv, TypeOK
<1> DEFINE record == [tickets[id] EXCEPT !.status = s]
<1>3. /\ record \in TicketRecord
      /\ record.ticket = tickets[id].ticket
      /\ record.contractId = tickets[id].contractId
      /\ record.status # "registered"
    BY <1>1, <1>2 DEF TicketRecord, TicketStatus, TerminalStatus
<1> QED
    BY <1>1, <1>3, SetTicketInv

\* The chain does not depend on the budget.
LEMMA SameChain ==
    ASSUME NEW id, NEW l, NEW m, ChainOf(id, l),
           m.revisions = l.revisions,
           m.currentContractHash = l.currentContractHash,
           m.revocationEpoch = l.revocationEpoch
    PROVE  ChainOf(id, m)
    BY DEF ChainOf

\* A charged budget stays well typed and finite.
LEMMA NextBudgetType ==
    ASSUME NEW l \in Lineage, IsFiniteSet(l.budget.modifiedObjectIds),
           NEW r \in Registrations
    PROVE  LET b == NextBudget(l.budget, r.ticket, r.charge) IN
           /\ [l EXCEPT !.budget = b] \in Lineage
           /\ IsFiniteSet(b.modifiedObjectIds)
           /\ Usage(b) \in Aggregate
<1> DEFINE b == NextBudget(l.budget, r.ticket, r.charge)
           objects == {t.resolvedObjectId : t \in Tickets}
<1>1. r.charge.mutationBytes \in Nat /\ r.charge.testRuns \in Nat
  <2>1. r.charge \in Charge
    BY RegistrationAssumption DEF ValidRegistration
  <2> QED
    BY <2>1 DEF Charge
<1>2. r.ticket.resolvedObjectId \in objects
    BY DEF Tickets
<1>3. /\ l.budget.modifiedObjectIds \in SUBSET objects
      /\ l.budget.mutationBytes \in Nat /\ l.budget.testRuns \in Nat
    BY DEF Lineage
<1>4. /\ b.modifiedObjectIds \in SUBSET objects
      /\ IsFiniteSet(b.modifiedObjectIds)
  <2>1. IsFiniteSet(l.budget.modifiedObjectIds \cup {r.ticket.resolvedObjectId})
    BY FS_AddElement
  <2> QED
    BY <2>1, <1>2, <1>3 DEF NextBudget
<1>5. b.mutationBytes \in Nat /\ b.testRuns \in Nat
    BY <1>1, <1>3 DEF NextBudget
<1>6. b \in [modifiedObjectIds: SUBSET objects, mutationBytes: Nat, testRuns: Nat]
    BY <1>4, <1>5 DEF NextBudget
<1>7. [l EXCEPT !.budget = b] \in Lineage
    BY <1>6 DEF Lineage
<1>8. Usage(b) \in Aggregate
  <2>1. Cardinality(b.modifiedObjectIds) \in Nat
    BY <1>4, FS_CardinalityType
  <2> QED
    BY <2>1, <1>5 DEF Usage, Aggregate
<1> QED
    BY <1>4, <1>7, <1>8

\* registerTicket leaves the chain alone, so the tickets already registered
\* stay bound, and the guards bind the new one.
LEMMA RegisterTicketInv ==
    ASSUME KernelInv, NEW r \in Registrations, NEW now \in Time,
           RegisterTicket(r, now)
    PROVE  KernelInv'
<1> DEFINE id == r.expectedActive.contractId
           tid == r.ticket.ticketId
           l == lineages[id]
           n == Len(l.revisions)
           b == NextBudget(l.budget, r.ticket, r.charge)
           next == [l EXCEPT !.budget = b]
           reserved == [r.charge EXCEPT !.uniqueModifiedFiles =
                            IF b.modifiedObjectIds # l.budget.modifiedObjectIds THEN 1 ELSE 0]
           record == [ticket |-> r.ticket, contractId |-> id, status |-> "registered",
                      registeredAt |-> now, commitPermittedAt |-> 0,
                      reservedCharge |-> reserved, aggregateCharge |-> Usage(b)]
<1>1. id \in DOMAIN lineages /\ l \in Lineage /\ ChainOf(id, l) /\ id \in ContractIds
      /\ IsFiniteSet(l.budget.modifiedObjectIds)
    BY DEF RegisterTicket, KernelInv, TypeOK, LineageChain, FiniteBudgets
<1>2. next \in Lineage /\ IsFiniteSet(b.modifiedObjectIds) /\ Usage(b) \in Aggregate
    BY <1>1, NextBudgetType
<1>3. reserved \in Charge
  <2>1. r.charge \in Charge
    BY RegistrationAssumption DEF ValidRegistration
  <2> QED
    BY <2>1 DEF Charge
<1>4. record \in TicketRecord
    BY <1>1, <1>2, <1>3, TimeAssumption DEF TicketRecord, TicketStatus, Tickets
<1>5. /\ lineages' = Put(lineages, id, next)
      /\ tickets' = Put(tickets, tid, record)
      /\ requestIds' = requestIds \cup {r.ticket.requestId}
      /\ reservationIds' = reservationIds \cup {r.ticket.budgetReservationId}
      /\ tid \notin DOMAIN tickets
    BY DEF RegisterTicket, ReplayFree
<1>6. /\ next.budget = b /\ next.revisions = l.revisions
      /\ next.currentContractHash = l.currentContractHash
      /\ next.revocationEpoch = l.revocationEpoch
    BY <1>1 DEF Lineage
<1>7. BoundTo(record, l)
  <2>1. CurrentIndex(l) = n
    BY <1>1, CurrentIsLast
  <2>2. currentRevision(l) = l.revisions[n]
    BY <2>1 DEF currentRevision
  <2>3. /\ l.revisions[n].status = "active"
        /\ TicketBindsContract(r.ticket, l.revisions[n].contract, l.revocationEpoch)
        /\ TicketTimeWindow(r.ticket, l.revisions[n].contract, now)
    BY <2>2 DEF RegisterTicket, LineageActive
  <2> QED
    BY <2>3 DEF BoundTo, TicketTimeWindow
<1>8. record.ticket.ticketId = tid /\ record.contractId = id
    OBVIOUS
<1> HIDE DEF record, next, b
<1>9. /\ DOMAIN lineages' = DOMAIN lineages
      /\ lineages'[id] = next
      /\ \A k \in DOMAIN lineages : k # id => lineages'[k] = lineages[k]
    BY <1>1, <1>5 DEF Put
<1>10. /\ DOMAIN tickets' = DOMAIN tickets \cup {tid}
       /\ tickets'[tid] = record
       /\ \A k \in DOMAIN tickets : tickets'[k] = tickets[k]
    BY <1>5 DEF Put
<1>11. TypeOK'
  <2>1. lineages' \in [DOMAIN lineages' -> Lineage]
    BY <1>2, <1>5, PutType DEF KernelInv, TypeOK
  <2>2. tickets' \in [DOMAIN tickets' -> TicketRecord]
    BY <1>4, <1>5, PutType DEF KernelInv, TypeOK
  <2>3. /\ r.ticket \in Tickets /\ tid \in TicketIds
        /\ r.ticket.requestId \in {t.requestId : t \in Tickets}
        /\ r.ticket.budgetReservationId \in {t.budgetReservationId : t \in Tickets}
    BY DEF Tickets, TicketIds
  <2>4. /\ requestIds' \subseteq {t.requestId : t \in Tickets}
        /\ reservationIds' \subseteq {t.budgetReservationId : t \in Tickets}
    BY <1>5, <2>3 DEF KernelInv, TypeOK
  <2>5. DOMAIN lineages' \subseteq ContractIds /\ DOMAIN tickets' \subseteq TicketIds
    BY <1>9, <1>10, <2>3 DEF KernelInv, TypeOK
  <2> QED
    BY <2>1, <2>2, <2>4, <2>5 DEF TypeOK
<1>12. FiniteBudgets'
    BY <1>2, <1>6, <1>9 DEF KernelInv, FiniteBudgets
<1>13. LineageChain'
  <2>1. ChainOf(id, next)
    BY <1>1, <1>6, SameChain
  <2> QED
    BY <1>9, <2>1 DEF KernelInv, LineageChain
<1>14. RegisteredBound'
  <2>1. \A q : \A k \in DOMAIN lineages :
          BoundTo(q, lineages[k]) => BoundTo(q, lineages'[k])
    BY <1>6, <1>9 DEF BoundTo
  <2> SUFFICES ASSUME NEW k \in DOMAIN tickets'
               PROVE  /\ tickets'[k].ticket.ticketId = k
                      /\ tickets'[k].contractId \in DOMAIN lineages'
                      /\ tickets'[k].status = "registered" =>
                            BoundTo(tickets'[k], lineages'[tickets'[k].contractId])
    BY DEF RegisteredBound
  <2>2. CASE k = tid
    BY <2>1, <2>2, <1>1, <1>7, <1>8, <1>9, <1>10
  <2>3. CASE k # tid
    <3>1. k \in DOMAIN tickets /\ tickets'[k] = tickets[k]
      BY <2>3, <1>10
    <3> QED
      BY <3>1, <2>1, <1>9 DEF KernelInv, RegisteredBound
  <2> QED
    BY <2>2, <2>3
<1> QED
    BY <1>11, <1>12, <1>13, <1>14 DEF KernelInv

-----------------------------------------------------------------------------
\* The theorems about Kernel.

\* KernelInv is inductive: no transition of the kernel leaves it.
LEMMA NextInv == KernelInv /\ [Next]_kernelVars => KernelInv'
<1> SUFFICES ASSUME KernelInv, [Next]_kernelVars PROVE KernelInv'
    OBVIOUS
<1>1. CASE UNCHANGED kernelVars
    BY <1>1 DEF kernelVars, KernelInv, TypeOK, FiniteBudgets, LineageChain,
                RegisteredBound
<1>2. CASE Next
  <2> PICK now \in Time :
        \/ \E c \in VerifiedContracts : ActivateFirst(c, now)
        \/ \E c \in VerifiedContracts, e \in CasExpectations : ActivateNext(c, e, now)
        \/ \E id \in ContractIds, e \in CasExpectations : RevokeContract(id, e, now)
        \/ \E r \in Registrations : RegisterTicket(r, now)
        \/ \E t \in Tickets : CommitPermit(t, now)
        \/ \E t \in Tickets : DenyPermit(t, now)
        \/ \E id \in TicketIds : FailBeforeCommit(id, now)
        \/ \E id \in TicketIds, s \in TerminalStatus : SettleTicket(id, s, now)
    BY <1>2 DEF Next
  <2>1. CASE \E c \in VerifiedContracts : ActivateFirst(c, now)
    BY <2>1, ActivateFirstInv
  <2>2. CASE \E c \in VerifiedContracts, e \in CasExpectations : ActivateNext(c, e, now)
    BY <2>2, ActivateNextInv
  <2>3. CASE \E id \in ContractIds, e \in CasExpectations : RevokeContract(id, e, now)
    BY <2>3, RevokeContractInv
  <2>4. CASE \E r \in Registrations : RegisterTicket(r, now)
    BY <2>4, RegisterTicketInv
  <2>5. CASE \E t \in Tickets : CommitPermit(t, now)
    BY <2>5, PermitInv
  <2>6. CASE \E t \in Tickets : DenyPermit(t, now)
    BY <2>6, PermitInv
  <2>7. CASE \E id \in TicketIds : FailBeforeCommit(id, now)
    BY <2>7, CloseTicketInv
  <2>8. CASE \E id \in TicketIds, s \in TerminalStatus : SettleTicket(id, s, now)
    BY <2>8, CloseTicketInv
  <2> QED
    BY <2>1, <2>2, <2>3, <2>4, <2>5, <2>6, <2>7, <2>8
<1> QED
    BY <1>1, <1>2

\* Every reachable kernel state satisfies the inductive invariant.
THEOREM KernelInvariant == Spec => []KernelInv
    BY InitInv, NextInv, PTL DEF Spec

\* The state of state.ts keeps its type.
THEOREM TypeCorrect == Spec => []TypeOK
<1>1. KernelInv => TypeOK
    BY DEF KernelInv
<1> QED
    BY <1>1, KernelInvariant, PTL

\* Every lineage is one unbroken chain of revisions, of which only the last
\* can be active, and the epoch counts the authorities that ended.
THEOREM ChainCorrect == Spec => []LineageChain
<1>1. KernelInv => LineageChain
    BY DEF KernelInv
<1> QED
    BY <1>1, KernelInvariant, PTL

\* getActiveContract answers with the record the transitions decide by.
THEOREM SnapshotCorrect == Spec => []SnapshotIsCurrent
<1>1. KernelInv => SnapshotIsCurrent
  <2> SUFFICES ASSUME KernelInv, NEW id \in DOMAIN lineages
               PROVE  lineages[id].revisions[SnapshotIndex(lineages[id])] =
                          currentRevision(lineages[id])
    BY DEF SnapshotIsCurrent
  <2>1. lineages[id] \in Lineage /\ ChainOf(id, lineages[id])
    BY DEF KernelInv, TypeOK, LineageChain
  <2> QED
    BY <2>1, CurrentIsLast DEF currentRevision
<1> QED
    BY <1>1, KernelInvariant, PTL

\* commitPermit never denies an unexpired registered ticket: its authority
\* cannot have ended without the ticket failing in the same transition.
THEOREM PermittableCorrect == Spec => []RegisteredTicketsPermittable
<1>1. KernelInv => RegisteredTicketsPermittable
  <2> SUFFICES ASSUME KernelInv, NEW id \in DOMAIN tickets,
                      tickets[id].status = "registered", NEW now \in Time,
                      tickets[id].registeredAt <= now,
                      now < tickets[id].ticket.expiresAt
               PROVE  PermitGrantable(tickets[id].ticket, now)
    BY DEF RegisteredTicketsPermittable
  <2> DEFINE t == tickets[id].ticket
             l == lineages[tickets[id].contractId]
             c == l.revisions[Len(l.revisions)].contract
  <2>1. /\ t.ticketId = id
        /\ tickets[id].contractId \in DOMAIN lineages
        /\ BoundTo(tickets[id], l)
    BY DEF KernelInv, RegisteredBound
  <2>2. /\ l \in Lineage /\ ChainOf(tickets[id].contractId, l)
        /\ tickets[id] \in TicketRecord
    BY <2>1 DEF KernelInv, TypeOK, LineageChain
  <2>3. currentRevision(l) = l.revisions[Len(l.revisions)]
        /\ Len(l.revisions) \in DOMAIN l.revisions
    BY <2>2, CurrentIsLast DEF currentRevision
  <2>4. c \in VerifiedContracts
    <3>1. l.revisions \in Seq(RevisionRecord)
      BY <2>2 DEF Lineage
    <3>2. l.revisions[Len(l.revisions)] \in RevisionRecord
      BY <3>1, <2>3
    <3> QED
      BY <3>2 DEF RevisionRecord
  <2>5. /\ c.notBefore \in Nat /\ c.expiresAt \in Nat /\ now \in Nat
        /\ t.issuedAt \in Nat /\ t.expiresAt \in Nat
        /\ tickets[id].registeredAt \in Nat
    BY <2>2, <2>4, ContractAssumption, RegistrationAssumption, TimeAssumption
       DEF TicketRecord, Tickets, ValidContract, ValidRegistration
  <2>6. /\ c.notBefore <= t.issuedAt /\ t.issuedAt <= tickets[id].registeredAt
        /\ t.expiresAt <= c.expiresAt /\ now < t.expiresAt
    BY <2>1 DEF BoundTo
  <2>7. ContractUsableAt(c, now)
    <3>1. \A from, issued, registered, end, to \in Nat :
            from <= issued /\ issued <= registered /\ registered <= now
              /\ now < end /\ end <= to => from <= now /\ now < to
      BY <2>5
    <3> HIDE DEF c, t
    <3>2. c.notBefore <= now /\ now < c.expiresAt
      BY <3>1, <2>5, <2>6
    <3> QED
      BY <3>2 DEF ContractUsableAt
  <2>8. TicketMatchesActiveLineage(t, l, now)
    BY <2>1, <2>3, <2>7 DEF BoundTo, TicketMatchesActiveLineage, LineageActive,
                            TicketBindsContract
  <2> QED
    BY <2>1, <2>8 DEF PermitGrantable
<1> QED
    BY <1>1, KernelInvariant, PTL

-----------------------------------------------------------------------------
\* What a step may do to one ticket.

Moved(id, status) ==
    /\ status \in TerminalStatus
    /\ tickets[id].status \in {"registered", "commit-permit"}
    /\ tickets[id].status = "registered" => status = "failed-no-effect"
    /\ tickets'[id] = [tickets[id] EXCEPT !.status = status]

Permitted(id, now) ==
    /\ now \in Time
    /\ tickets[id].status = "registered"
    /\ tickets[id].ticket.issuedAt <= now
    /\ PermitGrantable(tickets[id].ticket, now)
    /\ tickets'[id] = [tickets[id] EXCEPT !.status = "commit-permit",
                                          !.commitPermittedAt = now]

TicketStep(id) ==
    \/ tickets'[id] = tickets[id]
    \/ \E s \in TerminalStatus : Moved(id, s)
    \/ \E now \in Time : Permitted(id, now)

\* Every ticket on record stays, is closed or is permitted; a new one is
\* registered with an active lineage.
StepOfTickets ==
    /\ \A id \in DOMAIN tickets : id \in DOMAIN tickets' /\ TicketStep(id)
    /\ \A id \in DOMAIN tickets' \ DOMAIN tickets :
          /\ tickets'[id].status = "registered"
          /\ tickets'[id].contractId \in DOMAIN lineages
          /\ LineageActive(lineages[tickets'[id].contractId])

\* A step that replaces one ticket record moves that ticket only.
LEMMA SetTicketStep ==
    ASSUME NEW id \in DOMAIN tickets, NEW record, SetTicket(id, record),
           tickets' = [tickets EXCEPT ![id] = record] => TicketStep(id)
    PROVE  StepOfTickets
<1>1. /\ tickets' = [tickets EXCEPT ![id] = record]
      /\ DOMAIN tickets' = DOMAIN tickets
      /\ \A k \in DOMAIN tickets : k # id => tickets'[k] = tickets[k]
    BY DEF SetTicket
<1> QED
    BY <1>1 DEF StepOfTickets, TicketStep

\* The end of an authority closes the registered tickets of its lineage.
LEMMA FailRegisteredStep ==
    ASSUME NEW c, tickets' = FailRegisteredTickets(c)
    PROVE  StepOfTickets
<1>1. DOMAIN tickets' = DOMAIN tickets
    BY DEF FailRegisteredTickets
<1>2. ASSUME NEW id \in DOMAIN tickets PROVE TicketStep(id)
  <2>1. CASE tickets[id].contractId = c /\ tickets[id].status = "registered"
    <3>1. Moved(id, "failed-no-effect")
      BY <2>1 DEF FailRegisteredTickets, Moved, TerminalStatus
    <3> QED
      BY <3>1 DEF TicketStep, TerminalStatus
  <2>2. CASE ~(tickets[id].contractId = c /\ tickets[id].status = "registered")
    BY <2>2 DEF FailRegisteredTickets, TicketStep
  <2> QED
    BY <2>1, <2>2
<1> QED
    BY <1>1, <1>2 DEF StepOfTickets

\* The step relation of the tickets, for every transition of the kernel.
LEMMA NextTickets ==
    ASSUME KernelInv, [Next]_kernelVars
    PROVE  StepOfTickets
<1>1. CASE UNCHANGED kernelVars
    BY <1>1 DEF kernelVars, StepOfTickets, TicketStep
<1>2. ASSUME NEW c, NEW now, ActivateFirst(c, now) PROVE StepOfTickets
    BY <1>2 DEF ActivateFirst, StepOfTickets, TicketStep
<1>3. ASSUME NEW c, NEW e, NEW now, ActivateNext(c, e, now) PROVE StepOfTickets
    BY <1>3, FailRegisteredStep DEF ActivateNext
<1>4. ASSUME NEW c, NEW e, NEW now, RevokeContract(c, e, now) PROVE StepOfTickets
    BY <1>4, FailRegisteredStep DEF RevokeContract
<1>5. ASSUME NEW r, NEW now, RegisterTicket(r, now) PROVE StepOfTickets
  <2> DEFINE id == r.ticket.ticketId
             budget == lineages[r.expectedActive.contractId].budget
             b == NextBudget(budget, r.ticket, r.charge)
             record ==
               [ticket |-> r.ticket, contractId |-> r.expectedActive.contractId,
                status |-> "registered", registeredAt |-> now, commitPermittedAt |-> 0,
                reservedCharge |-> [r.charge EXCEPT !.uniqueModifiedFiles =
                    IF b.modifiedObjectIds # budget.modifiedObjectIds THEN 1 ELSE 0],
                aggregateCharge |-> Usage(b)]
  <2>1. tickets' = Put(tickets, id, record)
    BY <1>5 DEF RegisterTicket
  <2>2. /\ id \notin DOMAIN tickets
        /\ r.expectedActive.contractId \in DOMAIN lineages
        /\ LineageActive(lineages[r.expectedActive.contractId])
    BY <1>5 DEF RegisterTicket, ReplayFree
  <2>3. /\ DOMAIN tickets' = DOMAIN tickets \cup {id}
        /\ \A k \in DOMAIN tickets : tickets'[k] = tickets[k]
    BY <2>1, <2>2 DEF Put
  <2>4. /\ tickets'[id].status = "registered"
        /\ tickets'[id].contractId = r.expectedActive.contractId
    BY <2>1 DEF Put
  <2> HIDE DEF record
  <2> QED
    BY <2>2, <2>3, <2>4 DEF StepOfTickets, TicketStep
<1>6. ASSUME NEW t, NEW now \in Time, CommitPermit(t, now) PROVE StepOfTickets
  <2> DEFINE id == t.ticketId
             record == [tickets[id] EXCEPT !.status = "commit-permit",
                                           !.commitPermittedAt = now]
  <2>1. /\ id \in DOMAIN tickets /\ tickets[id].ticket = t
        /\ tickets[id].status = "registered"
        /\ t.issuedAt <= now /\ PermitGrantable(t, now)
        /\ SetTicket(id, record)
    BY <1>6 DEF CommitPermit, PermitRequestable
  <2>2. tickets' = [tickets EXCEPT ![id] = record] => TicketStep(id)
    BY <2>1 DEF Permitted, TicketStep
  <2> QED
    BY <2>1, <2>2, SetTicketStep
<1>7. ASSUME NEW id \in DOMAIN tickets, NEW s \in TerminalStatus,
             tickets[id].status \in {"registered", "commit-permit"},
             tickets[id].status = "registered" => s = "failed-no-effect",
             SetTicket(id, [tickets[id] EXCEPT !.status = s])
      PROVE  StepOfTickets
  <2>1. tickets' = [tickets EXCEPT ![id] = [tickets[id] EXCEPT !.status = s]]
            => TicketStep(id)
    BY <1>7 DEF Moved, TicketStep
  <2> QED
    BY <1>7, <2>1, SetTicketStep
<1>8. ASSUME NEW t, NEW now, DenyPermit(t, now) PROVE StepOfTickets
    BY <1>7, <1>8 DEF DenyPermit, PermitRequestable, TerminalStatus
<1>9. ASSUME NEW id, NEW now, FailBeforeCommit(id, now) PROVE StepOfTickets
    BY <1>7, <1>9 DEF FailBeforeCommit, TerminalStatus
<1>10. ASSUME NEW id, NEW s, NEW now, SettleTicket(id, s, now) PROVE StepOfTickets
    BY <1>7, <1>10 DEF SettleTicket
<1> QED
    BY <1>1, <1>2, <1>3, <1>4, <1>5, <1>6, <1>8, <1>9, <1>10 DEF Next

\* A permit needs a live authority at the time it is granted, whatever was
\* activated or revoked since the ticket was registered.
THEOREM PermitCorrect == Spec => PermitUnderLiveAuthority
<1> DEFINE Granted(id) ==
      PermitGranted(id) =>
          LET t == tickets[id].ticket
              l == lineages[tickets[id].contractId]
              current == currentRevision(l)
              at == tickets'[id].commitPermittedAt
          IN /\ tickets[id].status = "registered"
             /\ current.status = "active"
             /\ t.contractHash = current.contract.contractHash
             /\ t.revocationEpoch = l.revocationEpoch
             /\ t.issuedAt <= at /\ at < t.expiresAt
             /\ ContractUsableAt(current.contract, at)
<1>1. ASSUME KernelInv, [Next]_kernelVars, NEW id \in DOMAIN tickets'
      PROVE  Granted(id)
  <2> SUFFICES ASSUME PermitGranted(id) PROVE Granted(id)
    OBVIOUS
  <2>1. /\ id \in DOMAIN tickets /\ TicketStep(id)
        /\ tickets[id].status # "commit-permit"
        /\ tickets'[id].status = "commit-permit"
        /\ tickets[id] \in TicketRecord
    BY <1>1, NextTickets DEF PermitGranted, StepOfTickets, KernelInv, TypeOK
  <2>2. PICK now \in Time : Permitted(id, now)
    BY <2>1 DEF TicketStep, Moved, TerminalStatus, TicketRecord
  <2>3. tickets'[id].commitPermittedAt = now
    BY <2>1, <2>2 DEF Permitted, TicketRecord
  <2>4. tickets[id].ticket.ticketId = id
    BY <1>1, <2>1 DEF KernelInv, RegisteredBound
  <2> QED
    BY <2>2, <2>3, <2>4 DEF Permitted, PermitGrantable, TicketMatchesActiveLineage,
                            LineageActive
<1>2. KernelInv /\ [Next]_kernelVars => \A id \in DOMAIN tickets' : Granted(id)
    BY <1>1
<1> QED
    BY <1>2, KernelInvariant, PTL DEF Spec, PermitUnderLiveAuthority

\* A ticket record is never dropped, rebound or reopened.
THEOREM OneShotCorrect == Spec => TicketsAreOneShot
<1> DEFINE Kept(id) ==
      /\ id \in DOMAIN tickets'
      /\ tickets'[id].ticket = tickets[id].ticket
      /\ tickets'[id].contractId = tickets[id].contractId
      /\ tickets[id].status \in TerminalStatus => tickets'[id] = tickets[id]
      /\ tickets[id].status = "commit-permit" =>
            /\ tickets'[id].status \in {"commit-permit"} \cup TerminalStatus
            /\ tickets'[id].commitPermittedAt = tickets[id].commitPermittedAt
<1>1. ASSUME KernelInv, [Next]_kernelVars, NEW id \in DOMAIN tickets
      PROVE  Kept(id)
  <2>1. id \in DOMAIN tickets' /\ TicketStep(id) /\ tickets[id] \in TicketRecord
    BY <1>1, NextTickets DEF StepOfTickets, KernelInv, TypeOK
  <2>2. CASE tickets'[id] = tickets[id]
    BY <2>1, <2>2
  <2>3. CASE \E s \in TerminalStatus : Moved(id, s)
    BY <2>1, <2>3 DEF Moved, TerminalStatus, TicketRecord
  <2>4. CASE \E now \in Time : Permitted(id, now)
    BY <2>1, <2>4 DEF Permitted, TerminalStatus, TicketRecord
  <2> QED
    BY <2>1, <2>2, <2>3, <2>4 DEF TicketStep
<1>2. KernelInv /\ [Next]_kernelVars => \A id \in DOMAIN tickets : Kept(id)
    BY <1>1
<1> QED
    BY <1>2, KernelInvariant, PTL DEF Spec, TicketsAreOneShot

\* A revoked lineage is frozen: no transition changes it.
LEMMA RevokedLineageStep ==
    ASSUME KernelInv, [Next]_kernelVars, NEW c \in DOMAIN lineages,
           currentRevision(lineages[c]).status = "revoked"
    PROVE  c \in DOMAIN lineages' /\ lineages'[c] = lineages[c]
<1>1. ~LineageActive(lineages[c])
    BY DEF LineageActive
<1>2. ASSUME NEW id, NEW l, lineages' = Put(lineages, id, l), id # c
      PROVE  c \in DOMAIN lineages' /\ lineages'[c] = lineages[c]
    BY <1>2 DEF Put
<1>3. ASSUME NEW d, NEW now, ActivateFirst(d, now)
      PROVE  c \in DOMAIN lineages' /\ lineages'[c] = lineages[c]
    BY <1>2, <1>3 DEF ActivateFirst
<1>4. ASSUME NEW d, NEW e, NEW now, ActivateNext(d, e, now)
      PROVE  c \in DOMAIN lineages' /\ lineages'[c] = lineages[c]
    BY <1>1, <1>2, <1>4 DEF ActivateNext
<1>5. ASSUME NEW id, NEW e, NEW now, RevokeContract(id, e, now)
      PROVE  c \in DOMAIN lineages' /\ lineages'[c] = lineages[c]
    BY <1>1, <1>2, <1>5 DEF RevokeContract
<1>6. ASSUME NEW r, NEW now, RegisterTicket(r, now)
      PROVE  c \in DOMAIN lineages' /\ lineages'[c] = lineages[c]
    BY <1>1, <1>2, <1>6 DEF RegisterTicket
<1>7. CASE UNCHANGED lineages
    BY <1>7
<1>8. ASSUME NEW now,
             \/ \E t \in Tickets : CommitPermit(t, now) \/ DenyPermit(t, now)
             \/ \E id \in TicketIds : FailBeforeCommit(id, now)
             \/ \E id \in TicketIds, s \in TerminalStatus : SettleTicket(id, s, now)
      PROVE  UNCHANGED lineages
    BY <1>8 DEF CommitPermit, DenyPermit, FailBeforeCommit, SettleTicket, SetTicket
<1>9. CASE UNCHANGED kernelVars
    BY <1>7, <1>9 DEF kernelVars
<1> QED
    BY <1>3, <1>4, <1>5, <1>6, <1>7, <1>8, <1>9 DEF Next

\* Revocation is final: the lineage is frozen, budget included, and none of
\* its tickets is registered or permitted afterwards.
THEOREM RevocationCorrect == Spec => RevocationIsFinal
<1> DEFINE Final(c) ==
      currentRevision(lineages[c]).status = "revoked" =>
          /\ c \in DOMAIN lineages' /\ lineages'[c] = lineages[c]
          /\ \A id \in DOMAIN tickets' :
                tickets'[id].contractId = c =>
                  /\ id \in DOMAIN tickets
                  /\ tickets'[id].status # "registered"
                  /\ ~PermitGranted(id)
<1>1. ASSUME KernelInv, [Next]_kernelVars, NEW c \in DOMAIN lineages
      PROVE  Final(c)
  <2> SUFFICES ASSUME currentRevision(lineages[c]).status = "revoked" PROVE Final(c)
    OBVIOUS
  <2>1. c \in DOMAIN lineages' /\ lineages'[c] = lineages[c]
    BY <1>1, RevokedLineageStep
  <2>2. currentRevision(lineages[c]) =
            lineages[c].revisions[Len(lineages[c].revisions)]
    <3>1. lineages[c] \in Lineage /\ ChainOf(c, lineages[c])
      BY <1>1 DEF KernelInv, TypeOK, LineageChain
    <3> QED
      BY <3>1, CurrentIsLast DEF currentRevision
  <2>3. ASSUME NEW id \in DOMAIN tickets, tickets[id].contractId = c
        PROVE  tickets[id].status # "registered"
    BY <1>1, <2>2, <2>3 DEF KernelInv, RegisteredBound, BoundTo
  <2>4. ASSUME NEW id \in DOMAIN tickets', tickets'[id].contractId = c
        PROVE  /\ id \in DOMAIN tickets
               /\ tickets'[id].status # "registered"
               /\ ~PermitGranted(id)
    <3>1. id \in DOMAIN tickets
      BY <1>1, <2>4, NextTickets DEF StepOfTickets, LineageActive
    <3>2. TicketStep(id) /\ tickets[id] \in TicketRecord
      BY <1>1, <3>1, NextTickets DEF StepOfTickets, KernelInv, TypeOK
    <3>3. tickets[id].contractId = c
      BY <2>4, <3>2 DEF TicketStep, Moved, Permitted, TicketRecord
    <3>4. tickets[id].status # "registered"
      BY <2>3, <3>1, <3>3
    <3> QED
      BY <3>1, <3>2, <3>4 DEF TicketStep, Moved, Permitted, PermitGranted,
                              TerminalStatus, TicketRecord
  <2> QED
    BY <2>1, <2>4
<1>2. KernelInv /\ [Next]_kernelVars => \A c \in DOMAIN lineages : Final(c)
    BY <1>1
<1> QED
    BY <1>2, KernelInvariant, PTL DEF Spec, RevocationIsFinal

\* What a step leaves of the tickets on record: all but their progress.
KeepsTickets ==
    \A id \in DOMAIN tickets :
        /\ id \in DOMAIN tickets'
        /\ tickets'[id].ticket = tickets[id].ticket
        /\ tickets'[id].contractId = tickets[id].contractId
        /\ tickets'[id].aggregateCharge = tickets[id].aggregateCharge
        /\ tickets'[id].reservedCharge = tickets[id].reservedCharge

\* No step drops a ticket or changes what it is, and every step but a
\* registration leaves the set of tickets and the replay registries alone.
LEMMA NextKeepsTickets ==
    ASSUME KernelInv, [Next]_kernelVars
    PROVE  /\ KeepsTickets
           /\ \/ /\ DOMAIN tickets' = DOMAIN tickets
                 /\ UNCHANGED <<requestIds, reservationIds>>
              \/ \E r \in Registrations, now \in Time : RegisterTicket(r, now)
<1>1. KeepsTickets
  <2> SUFFICES ASSUME NEW id \in DOMAIN tickets
               PROVE  /\ id \in DOMAIN tickets'
                      /\ tickets'[id].ticket = tickets[id].ticket
                      /\ tickets'[id].contractId = tickets[id].contractId
                      /\ tickets'[id].aggregateCharge = tickets[id].aggregateCharge
                      /\ tickets'[id].reservedCharge = tickets[id].reservedCharge
    BY DEF KeepsTickets
  <2>1. id \in DOMAIN tickets' /\ TicketStep(id) /\ tickets[id] \in TicketRecord
    BY NextTickets DEF StepOfTickets, KernelInv, TypeOK
  <2> QED
    BY <2>1 DEF TicketStep, Moved, Permitted, TicketRecord
<1>2. \/ /\ DOMAIN tickets' = DOMAIN tickets
         /\ UNCHANGED <<requestIds, reservationIds>>
      \/ \E r \in Registrations, now \in Time : RegisterTicket(r, now)
  <2>1. CASE UNCHANGED kernelVars
    BY <2>1 DEF kernelVars
  <2>2. ASSUME NEW c, NEW now, ActivateFirst(c, now)
        PROVE  UNCHANGED <<tickets, requestIds, reservationIds>>
    BY <2>2 DEF ActivateFirst
  <2>3. ASSUME NEW c, NEW e, NEW now, ActivateNext(c, e, now) \/ RevokeContract(c, e, now)
        PROVE  /\ DOMAIN tickets' = DOMAIN tickets
               /\ UNCHANGED <<requestIds, reservationIds>>
    BY <2>3 DEF ActivateNext, RevokeContract, FailRegisteredTickets
  <2>4. ASSUME NEW now,
               \/ \E t \in Tickets : CommitPermit(t, now) \/ DenyPermit(t, now)
               \/ \E id \in TicketIds : FailBeforeCommit(id, now)
               \/ \E id \in TicketIds, s \in TerminalStatus : SettleTicket(id, s, now)
        PROVE  /\ DOMAIN tickets' = DOMAIN tickets
               /\ UNCHANGED <<requestIds, reservationIds>>
    BY <2>4 DEF CommitPermit, DenyPermit, FailBeforeCommit, SettleTicket, SetTicket
  <2> QED
    BY <2>1, <2>2, <2>3, <2>4 DEF Next
<1> QED
    BY <1>1, <1>2

\* Registering a ticket consumes its request id and its reservation id, which
\* no ticket on record has.
LEMMA IdentitiesStep ==
    ASSUME KernelInv, IdentitiesConsumedOnce, [Next]_kernelVars
    PROVE  IdentitiesConsumedOnce'
<1>1. KeepsTickets
    BY NextKeepsTickets
<1>2. CASE DOMAIN tickets' = DOMAIN tickets /\ UNCHANGED <<requestIds, reservationIds>>
    BY <1>1, <1>2 DEF KeepsTickets, IdentitiesConsumedOnce
<1>3. ASSUME NEW r \in Registrations, NEW now \in Time, RegisterTicket(r, now)
      PROVE  IdentitiesConsumedOnce'
  <2>1. PICK tid : tid = r.ticket.ticketId
    OBVIOUS
  <2>2. /\ tid \notin DOMAIN tickets /\ r.ticket.requestId \notin requestIds
        /\ r.ticket.budgetReservationId \notin reservationIds
        /\ requestIds' = requestIds \cup {r.ticket.requestId}
        /\ reservationIds' = reservationIds \cup {r.ticket.budgetReservationId}
    BY <1>3, <2>1 DEF RegisterTicket, ReplayFree
  <2>3. DOMAIN tickets' = DOMAIN tickets \cup {tid} /\ tickets'[tid].ticket = r.ticket
    BY <1>3, <2>1 DEF RegisterTicket, Put
  <2>4. \A t \in DOMAIN tickets :
           /\ tickets'[t].ticket = tickets[t].ticket
           /\ tickets[t].ticket.requestId \in requestIds
           /\ tickets[t].ticket.budgetReservationId \in reservationIds
    BY <1>1 DEF KeepsTickets, IdentitiesConsumedOnce
  <2>5. \A s, t \in DOMAIN tickets' :
           \/ tickets'[s].ticket.requestId = tickets'[t].ticket.requestId
           \/ tickets'[s].ticket.budgetReservationId = tickets'[t].ticket.budgetReservationId
           => s = t
    BY <2>2, <2>3, <2>4 DEF IdentitiesConsumedOnce
  <2>6. /\ requestIds' = {tickets'[t].ticket.requestId : t \in DOMAIN tickets'}
        /\ reservationIds' = {tickets'[t].ticket.budgetReservationId : t \in DOMAIN tickets'}
    BY <2>2, <2>3, <2>4 DEF IdentitiesConsumedOnce
  <2> QED
    BY <2>5, <2>6 DEF IdentitiesConsumedOnce
<1> QED
    BY <1>2, <1>3, NextKeepsTickets

\* No two tickets ever share a request id or a reservation id, and no id is
\* released: a request is authorised at most once in the life of the kernel.
THEOREM IdentitiesCorrect == Spec => []IdentitiesConsumedOnce
<1>1. Init => IdentitiesConsumedOnce
    BY DEF Init, IdentitiesConsumedOnce
<1>2. KernelInv /\ IdentitiesConsumedOnce /\ [Next]_kernelVars => IdentitiesConsumedOnce'
    BY IdentitiesStep
<1> QED
    BY <1>1, <1>2, KernelInvariant, PTL DEF Spec

\* A lineage on record keeps its revisions, in their places.
KeepsRevisions ==
    \A c \in DOMAIN lineages :
        /\ c \in DOMAIN lineages'
        /\ \A i \in DOMAIN lineages[c].revisions :
              /\ i \in DOMAIN lineages'[c].revisions
              /\ lineages'[c].revisions[i].contract = lineages[c].revisions[i].contract

\* No step removes a revision from its lineage.
LEMMA NextKeepsRevisions ==
    ASSUME KernelInv, [Next]_kernelVars
    PROVE  KeepsRevisions
<1>1. \A c \in DOMAIN lineages :
         /\ lineages[c] \in Lineage
         /\ DOMAIN lineages[c].revisions = 1..Len(lineages[c].revisions)
         /\ Len(lineages[c].revisions) \in Nat
         /\ \A i \in DOMAIN lineages[c].revisions : lineages[c].revisions[i] \in RevisionRecord
  <2> SUFFICES ASSUME NEW c \in DOMAIN lineages
               PROVE  /\ lineages[c] \in Lineage
                      /\ DOMAIN lineages[c].revisions = 1..Len(lineages[c].revisions)
                      /\ Len(lineages[c].revisions) \in Nat
                      /\ \A i \in DOMAIN lineages[c].revisions :
                            lineages[c].revisions[i] \in RevisionRecord
    OBVIOUS
  <2>1. lineages[c] \in Lineage
    BY DEF KernelInv, TypeOK
  <2>2. lineages[c].revisions \in Seq(RevisionRecord)
    BY <2>1 DEF Lineage
  <2> QED
    BY <2>1, <2>2
<1>2. ASSUME NEW d, NEW l, lineages' = Put(lineages, d, l),
             d \in DOMAIN lineages => \A i \in DOMAIN lineages[d].revisions :
                 /\ i \in DOMAIN l.revisions
                 /\ l.revisions[i].contract = lineages[d].revisions[i].contract
      PROVE  KeepsRevisions
    BY <1>2 DEF Put, KeepsRevisions
<1>3. ASSUME NEW c, NEW now, ActivateFirst(c, now) PROVE KeepsRevisions
    BY <1>2, <1>3 DEF ActivateFirst
<1>4. ASSUME NEW c, NEW e, NEW now, ActivateNext(c, e, now) PROVE KeepsRevisions
  <2> DEFINE l == lineages[c.contractId]
             n == Len(l.revisions)
             last == ActiveRevision(c, l.revocationEpoch + 1, now)
             next == [l EXCEPT !.currentContractHash = c.contractHash,
                               !.revocationEpoch = l.revocationEpoch + 1,
                               !.revisions = Append(SupersedeCurrent(l), last)]
  <2>1. c.contractId \in DOMAIN lineages /\ lineages' = Put(lineages, c.contractId, next)
    BY <1>4 DEF ActivateNext
  <2>2. /\ l \in Lineage /\ DOMAIN l.revisions = 1..n /\ n \in Nat
        /\ \A i \in 1..n : l.revisions[i] \in RevisionRecord
    BY <1>1, <2>1
  <2>3. next.revisions = Append(SupersedeCurrent(l), last)
    BY <2>2 DEF Lineage
  <2>4. /\ DOMAIN SupersedeCurrent(l) = 1..n
        /\ \A i \in 1..n : SupersedeCurrent(l)[i].contract = l.revisions[i].contract
    BY <2>2 DEF SupersedeCurrent, RevisionRecord
  <2>5. /\ DOMAIN SupersedeCurrent(l) = DOMAIN l.revisions
        /\ SupersedeCurrent(l) = [i \in DOMAIN SupersedeCurrent(l) |-> SupersedeCurrent(l)[i]]
        /\ \A i \in DOMAIN l.revisions : SupersedeCurrent(l)[i] \in RevisionRecord
    BY <2>2 DEF SupersedeCurrent, RevisionRecord
  <2>6. SupersedeCurrent(l) \in Seq(RevisionRecord) /\ Len(SupersedeCurrent(l)) = n
    <3>1. l.revisions \in Seq(RevisionRecord)
      BY <2>2 DEF Lineage
    <3> HIDE DEF l, n
    <3> QED
      BY <2>5, <3>1, SequenceMap DEF n
  <2> HIDE DEF last
  <2>7. \A i \in 1..n : /\ i \in DOMAIN Append(SupersedeCurrent(l), last)
                        /\ Append(SupersedeCurrent(l), last)[i] = SupersedeCurrent(l)[i]
    BY <2>2, <2>6
  <2>8. \A i \in DOMAIN l.revisions :
           /\ i \in DOMAIN next.revisions
           /\ next.revisions[i].contract = l.revisions[i].contract
    BY <2>2, <2>3, <2>4, <2>7
  <2> HIDE DEF next
  <2> QED
    BY <1>2, <2>1, <2>8
<1>5. ASSUME NEW c, NEW e, NEW now, RevokeContract(c, e, now) PROVE KeepsRevisions
  <2> DEFINE l == lineages[c]
             next == [l EXCEPT !.revocationEpoch = l.revocationEpoch + 1,
                               !.revisions = RevokeCurrent(l, l.revocationEpoch + 1)]
  <2>1. c \in DOMAIN lineages /\ lineages' = Put(lineages, c, next)
    BY <1>5 DEF RevokeContract
  <2>2. next.revisions = RevokeCurrent(l, l.revocationEpoch + 1)
    BY <1>1, <2>1 DEF Lineage
  <2> HIDE DEF next
  <2>3. \A i \in DOMAIN l.revisions : l.revisions[i] \in RevisionRecord
    BY <1>1, <2>1
  <2>4. ASSUME NEW epoch, NEW i \in DOMAIN l.revisions
        PROVE  /\ i \in DOMAIN RevokeCurrent(l, epoch)
               /\ RevokeCurrent(l, epoch)[i].contract = l.revisions[i].contract
    BY <2>3 DEF RevokeCurrent, RevisionRecord
  <2> QED
    BY <1>2, <2>1, <2>2, <2>4
<1>6. ASSUME NEW r, NEW now, RegisterTicket(r, now) PROVE KeepsRevisions
  <2> DEFINE l == lineages[r.expectedActive.contractId]
             next == [l EXCEPT !.budget = NextBudget(l.budget, r.ticket, r.charge)]
  <2>1. /\ r.expectedActive.contractId \in DOMAIN lineages
        /\ lineages' = Put(lineages, r.expectedActive.contractId, next)
    BY <1>6 DEF RegisterTicket
  <2>2. next.revisions = l.revisions
    BY <1>1, <2>1 DEF Lineage
  <2> HIDE DEF next
  <2> QED
    BY <1>2, <2>1, <2>2
<1>7. ASSUME UNCHANGED lineages PROVE KeepsRevisions
    BY <1>7 DEF KeepsRevisions
<1>8. ASSUME NEW now,
             \/ \E t \in Tickets : CommitPermit(t, now) \/ DenyPermit(t, now)
             \/ \E id \in TicketIds : FailBeforeCommit(id, now)
             \/ \E id \in TicketIds, s \in TerminalStatus : SettleTicket(id, s, now)
      PROVE  UNCHANGED lineages
    BY <1>8 DEF CommitPermit, DenyPermit, FailBeforeCommit, SettleTicket, SetTicket
<1>9. CASE UNCHANGED kernelVars
    BY <1>7, <1>9 DEF kernelVars
<1> QED
    BY <1>3, <1>4, <1>5, <1>6, <1>7, <1>8, <1>9 DEF Next

\* The lineage totals recorded with a ticket respected the limits of the very
\* contract revision that authorised it, and that revision stays on record.
THEOREM LimitsCorrect == Spec => []ReservedWithinLimits
<1> DEFINE Reserved(q, c) ==
      \E i \in DOMAIN c.revisions :
          /\ c.revisions[i].contract.contractHash = q.ticket.contractHash
          /\ WithinLimits(q.aggregateCharge, c.revisions[i].contract.limits)
<1>0. ReservedWithinLimits <=>
         \A id \in DOMAIN tickets : Reserved(tickets[id], lineages[tickets[id].contractId])
    BY DEF ReservedWithinLimits
<1>1. Init => ReservedWithinLimits
    BY DEF Init, ReservedWithinLimits
<1>2. ASSUME KernelInv, ReservedWithinLimits, [Next]_kernelVars
      PROVE  ReservedWithinLimits'
  <2> SUFFICES ASSUME NEW id \in DOMAIN tickets'
               PROVE  Reserved(tickets'[id], lineages'[tickets'[id].contractId])
    BY DEF ReservedWithinLimits
  <2>1. KeepsTickets /\ KeepsRevisions
    BY <1>2, NextKeepsTickets, NextKeepsRevisions
  <2>2. CASE id \in DOMAIN tickets
    <3>1. Reserved(tickets[id], lineages[tickets[id].contractId])
      BY <1>0, <1>2, <2>2
    <3>2. tickets[id].contractId \in DOMAIN lineages
      BY <1>2, <2>2 DEF KernelInv, RegisteredBound
    <3> QED
      BY <2>1, <2>2, <3>1, <3>2 DEF KeepsTickets, KeepsRevisions
  <2>3. CASE id \notin DOMAIN tickets
    <3>1. PICK r \in Registrations, now \in Time : RegisterTicket(r, now)
      BY <1>2, <2>3, NextKeepsTickets
    <3> DEFINE c == r.expectedActive.contractId
               l == lineages[c]
               b == NextBudget(l.budget, r.ticket, r.charge)
    <3>2. id = r.ticket.ticketId
      BY <2>3, <3>1 DEF RegisterTicket, Put
    <3>3. /\ tickets'[id].ticket = r.ticket /\ tickets'[id].contractId = c
          /\ tickets'[id].aggregateCharge = Usage(b)
      BY <3>1, <3>2 DEF RegisterTicket, Put
    <3>4. /\ c \in DOMAIN lineages
          /\ r.ticket.contractHash = currentRevision(l).contract.contractHash
          /\ WithinLimits(Usage(b), currentRevision(l).contract.limits)
      BY <3>1 DEF RegisterTicket, BudgetAdmits, TicketBindsContract
    <3>5. CurrentIndex(l) \in DOMAIN l.revisions
      <4>1. l \in Lineage /\ ChainOf(c, l)
        BY <1>2, <3>4 DEF KernelInv, TypeOK, LineageChain
      <4> QED
        BY <4>1, CurrentIsLast
    <3> HIDE DEF b
    <3>6. Reserved(tickets'[id], l)
      BY <3>3, <3>4, <3>5 DEF currentRevision
    <3> QED
      BY <2>1, <3>3, <3>4, <3>6 DEF KeepsRevisions
  <2> QED
    BY <2>2, <2>3
<1>3. KernelInv /\ ReservedWithinLimits /\ [Next]_kernelVars => ReservedWithinLimits'
    BY <1>2
<1> QED
    BY <1>1, <1>3, KernelInvariant, PTL DEF Spec

\* What a step leaves of the budgets of the lineages.
KeepsBudgets ==
    /\ \A c \in DOMAIN lineages :
          c \in DOMAIN lineages' /\ lineages'[c].budget = lineages[c].budget
    /\ \A c \in DOMAIN lineages' \ DOMAIN lineages :
          lineages'[c].budget = [modifiedObjectIds |-> {}, mutationBytes |-> 0, testRuns |-> 0]

\* Only a registration charges a budget; a new lineage starts with an empty one.
LEMMA NextKeepsBudgets ==
    ASSUME KernelInv, [Next]_kernelVars
    PROVE  \/ KeepsBudgets /\ DOMAIN tickets' = DOMAIN tickets
           \/ \E r \in Registrations, now \in Time : RegisterTicket(r, now)
<1>1. \A c \in DOMAIN lineages : lineages[c] \in Lineage
    BY DEF KernelInv, TypeOK
<1>2. ASSUME NEW d \in DOMAIN lineages, NEW l, lineages' = Put(lineages, d, l),
             l.budget = lineages[d].budget
      PROVE  KeepsBudgets
    BY <1>2 DEF Put, KeepsBudgets
<1>3. ASSUME NEW c, NEW now, ActivateFirst(c, now)
      PROVE  KeepsBudgets /\ DOMAIN tickets' = DOMAIN tickets
    BY <1>3 DEF ActivateFirst, Put, KeepsBudgets
<1>4. ASSUME NEW c, NEW e, NEW now, ActivateNext(c, e, now)
      PROVE  KeepsBudgets /\ DOMAIN tickets' = DOMAIN tickets
  <2> DEFINE l == lineages[c.contractId]
             next == [l EXCEPT !.currentContractHash = c.contractHash,
                               !.revocationEpoch = l.revocationEpoch + 1,
                               !.revisions = Append(SupersedeCurrent(l),
                                   ActiveRevision(c, l.revocationEpoch + 1, now))]
  <2>1. /\ c.contractId \in DOMAIN lineages /\ lineages' = Put(lineages, c.contractId, next)
        /\ DOMAIN tickets' = DOMAIN tickets
    BY <1>4 DEF ActivateNext, FailRegisteredTickets
  <2>2. next.budget = l.budget
    BY <1>1, <2>1 DEF Lineage
  <2> HIDE DEF next
  <2> QED
    BY <1>2, <2>1, <2>2
<1>5. ASSUME NEW c, NEW e, NEW now, RevokeContract(c, e, now)
      PROVE  KeepsBudgets /\ DOMAIN tickets' = DOMAIN tickets
  <2> DEFINE l == lineages[c]
             next == [l EXCEPT !.revocationEpoch = l.revocationEpoch + 1,
                               !.revisions = RevokeCurrent(l, l.revocationEpoch + 1)]
  <2>1. /\ c \in DOMAIN lineages /\ lineages' = Put(lineages, c, next)
        /\ DOMAIN tickets' = DOMAIN tickets
    BY <1>5 DEF RevokeContract, FailRegisteredTickets
  <2>2. next.budget = l.budget
    BY <1>1, <2>1 DEF Lineage
  <2> HIDE DEF next
  <2> QED
    BY <1>2, <2>1, <2>2
<1>6. ASSUME NEW now,
             \/ \E t \in Tickets : CommitPermit(t, now) \/ DenyPermit(t, now)
             \/ \E id \in TicketIds : FailBeforeCommit(id, now)
             \/ \E id \in TicketIds, s \in TerminalStatus : SettleTicket(id, s, now)
      PROVE  KeepsBudgets /\ DOMAIN tickets' = DOMAIN tickets
  <2>1. UNCHANGED lineages /\ DOMAIN tickets' = DOMAIN tickets
    BY <1>6 DEF CommitPermit, DenyPermit, FailBeforeCommit, SettleTicket, SetTicket
  <2> QED
    BY <2>1 DEF KeepsBudgets
<1>7. CASE UNCHANGED kernelVars
    BY <1>7 DEF kernelVars, KeepsBudgets
<1> QED
    BY <1>3, <1>4, <1>5, <1>6, <1>7 DEF Next

\* Charging a budget adds to the lineage's usage what the ticket reserves: the
\* object is counted only when no ticket of the lineage counted it before.
LEMMA UsageCharged ==
    ASSUME NEW l \in Lineage, IsFiniteSet(l.budget.modifiedObjectIds), NEW r \in Registrations
    PROVE  LET b == NextBudget(l.budget, r.ticket, r.charge)
               reserved == [r.charge EXCEPT !.uniqueModifiedFiles =
                              IF b.modifiedObjectIds # l.budget.modifiedObjectIds THEN 1 ELSE 0]
           IN  Usage(b) = Charged(Usage(l.budget), reserved)
<1> DEFINE b == NextBudget(l.budget, r.ticket, r.charge)
           objects == l.budget.modifiedObjectIds
           x == r.ticket.resolvedObjectId
           reserved == [r.charge EXCEPT !.uniqueModifiedFiles =
                          IF b.modifiedObjectIds # objects THEN 1 ELSE 0]
<1>1. /\ r.charge \in Charge
      /\ reserved.uniqueModifiedFiles = IF b.modifiedObjectIds # objects THEN 1 ELSE 0
      /\ reserved.mutationBytes = r.charge.mutationBytes /\ reserved.testRuns = r.charge.testRuns
  <2>1. r.charge \in Charge
    BY RegistrationAssumption DEF ValidRegistration
  <2> QED
    BY <2>1 DEF Charge
<1>2. /\ b.modifiedObjectIds = objects \/ b.modifiedObjectIds = objects \cup {x}
      /\ b.mutationBytes = l.budget.mutationBytes + r.charge.mutationBytes
      /\ b.testRuns = l.budget.testRuns + r.charge.testRuns
    BY DEF NextBudget
<1>3. Cardinality(objects) \in Nat
    BY FS_CardinalityType
<1> HIDE DEF b, reserved
<1>4. Cardinality(b.modifiedObjectIds) = Cardinality(objects) + reserved.uniqueModifiedFiles
  <2>1. CASE b.modifiedObjectIds = objects
    BY <1>1, <1>3, <2>1
  <2>2. CASE b.modifiedObjectIds # objects
    <3>1. b.modifiedObjectIds = objects \cup {x} /\ x \notin objects
      BY <1>2, <2>2
    <3>2. Cardinality(objects \cup {x}) = Cardinality(objects) + 1
      BY <3>1, FS_AddElement
    <3> QED
      BY <1>1, <2>2, <3>1, <3>2
  <2> QED
    BY <2>1, <2>2
<1>5. Usage(b) = Charged(Usage(l.budget), reserved)
    BY <1>1, <1>2, <1>4 DEF Usage, Charged
<1> QED
    BY <1>5 DEF b, reserved

\* Accounts: an empty one, one whose tickets keep what they reserved, and one
\* that a ticket is added to.
LEMMA AccountEmpty ==
    ASSUME NEW T
    PROVE  AccountFor(T, {}, NoUsage)
<1>1. Cardinality({}) = 0
    BY FS_EmptySet
<1>2. PICK order : order = [i \in 1..0 |-> i]
    OBVIOUS
<1>3. order \in [1..0 -> {}] /\ 1..0 = {}
    BY <1>2
<1> QED
    BY <1>1, <1>3 DEF AccountFor

SameCharges(T, U, ids) ==
    \A t \in ids : /\ U[t].aggregateCharge = T[t].aggregateCharge
                   /\ U[t].reservedCharge = T[t].reservedCharge

LEMMA AccountKept ==
    ASSUME NEW T, NEW U, NEW ids, IsFiniteSet(ids), NEW usage,
           AccountFor(T, ids, usage), SameCharges(T, U, ids)
    PROVE  AccountFor(U, ids, usage)
<1> DEFINE n == Cardinality(ids)
<1>1. n \in Nat
    BY FS_CardinalityType
<1> HIDE DEF n
<1>2. PICK order \in [1..n -> ids] :
         LET total(i) == IF i = 0 THEN NoUsage ELSE T[order[i]].aggregateCharge IN
         /\ \A i, j \in 1..n : order[i] = order[j] => i = j
         /\ \A i \in 1..n : total(i) = Charged(total(i - 1), T[order[i]].reservedCharge)
         /\ usage = total(n)
    BY DEF AccountFor, n
<1> DEFINE total(i) == IF i = 0 THEN NoUsage ELSE T[order[i]].aggregateCharge
           later(i) == IF i = 0 THEN NoUsage ELSE U[order[i]].aggregateCharge
<1>3. \A i \in 1..n : /\ U[order[i]].aggregateCharge = T[order[i]].aggregateCharge
                      /\ U[order[i]].reservedCharge = T[order[i]].reservedCharge
    BY <1>2 DEF SameCharges
<1>4. \A i \in 0..n : later(i) = total(i)
    BY <1>1, <1>3
<1>5. \A i \in 1..n : i \in 0..n /\ i - 1 \in 0..n
    BY <1>1
<1>6. n \in 0..n
    BY <1>1
<1>7. \A i \in 1..n : total(i) = Charged(total(i - 1), T[order[i]].reservedCharge)
    BY <1>2
<1>8. usage = later(n)
    BY <1>2, <1>4, <1>6
<1> HIDE DEF total, later
<1>9. \A i \in 1..n : later(i) = Charged(later(i - 1), U[order[i]].reservedCharge)
    BY <1>3, <1>4, <1>5, <1>7
<1> QED
    BY <1>2, <1>8, <1>9 DEF AccountFor, n, later

LEMMA AccountGrows ==
    ASSUME NEW T, NEW U, NEW ids, IsFiniteSet(ids), NEW x, x \notin ids, NEW usage,
           AccountFor(T, ids, usage), SameCharges(T, U, ids),
           U[x].aggregateCharge = Charged(usage, U[x].reservedCharge)
    PROVE  AccountFor(U, ids \cup {x}, U[x].aggregateCharge)
<1> DEFINE n == Cardinality(ids)
<1>1. n \in Nat /\ Cardinality(ids \cup {x}) = n + 1
    BY FS_CardinalityType, FS_AddElement
<1>2. AccountFor(U, ids, usage)
    BY AccountKept
<1> HIDE DEF n
<1>3. PICK order \in [1..n -> ids] :
         LET total(i) == IF i = 0 THEN NoUsage ELSE U[order[i]].aggregateCharge IN
         /\ \A i, j \in 1..n : order[i] = order[j] => i = j
         /\ \A i \in 1..n : total(i) = Charged(total(i - 1), U[order[i]].reservedCharge)
         /\ usage = total(n)
    BY <1>2 DEF AccountFor, n
<1>4. PICK longer : longer = [i \in 1..(n + 1) |-> IF i = n + 1 THEN x ELSE order[i]]
    OBVIOUS
<1>5. /\ longer \in [1..(n + 1) -> ids \cup {x}] /\ longer[n + 1] = x
      /\ \A i \in 1..n : longer[i] = order[i] /\ longer[i] \in ids
  <2>1. \A i \in 1..(n + 1) : i # n + 1 => i \in 1..n
    BY <1>1
  <2>2. n + 1 \in 1..(n + 1) /\ \A i \in 1..n : i \in 1..(n + 1) /\ i # n + 1
    BY <1>1
  <2> QED
    BY <1>3, <1>4, <2>1, <2>2
<1> DEFINE total(i) == IF i = 0 THEN NoUsage ELSE U[order[i]].aggregateCharge
           later(i) == IF i = 0 THEN NoUsage ELSE U[longer[i]].aggregateCharge
<1>6. \A i \in 0..n : later(i) = total(i)
    BY <1>1, <1>5
<1>7. later(n + 1) = U[x].aggregateCharge
    BY <1>1, <1>5
<1>8. /\ \A i \in 1..n : total(i) = Charged(total(i - 1), U[order[i]].reservedCharge)
      /\ usage = total(n)
    BY <1>3
<1> HIDE DEF total, later
<1>9. \A i \in 1..(n + 1) : later(i) = Charged(later(i - 1), U[longer[i]].reservedCharge)
  <2>1. ASSUME NEW i \in 1..n
        PROVE  later(i) = Charged(later(i - 1), U[longer[i]].reservedCharge)
    <3>1. i \in 0..n /\ i - 1 \in 0..n
      BY <1>1
    <3> QED
      BY <1>5, <1>6, <1>8, <3>1
  <2>2. later(n + 1) = Charged(later((n + 1) - 1), U[longer[n + 1]].reservedCharge)
    <3>1. n \in 0..n /\ (n + 1) - 1 = n
      BY <1>1
    <3>2. later(n) = usage
      BY <1>6, <1>8, <3>1
    <3> QED
      BY <1>5, <1>7, <3>1, <3>2
  <2>3. \A i \in 1..(n + 1) : i = n + 1 \/ i \in 1..n
    BY <1>1
  <2> QED
    BY <2>1, <2>2, <2>3
<1>10. \A i, j \in 1..(n + 1) : longer[i] = longer[j] => i = j
  <2>1. \A i \in 1..(n + 1) : i = n + 1 \/ i \in 1..n
    BY <1>1
  <2> QED
    BY <1>3, <1>5, <2>1
<1> DEFINE k == n + 1
<1>11. /\ Cardinality(ids \cup {x}) = k /\ longer \in [1..k -> ids \cup {x}]
       /\ U[x].aggregateCharge = later(k)
       /\ \A i \in 1..k : later(i) = Charged(later(i - 1), U[longer[i]].reservedCharge)
       /\ \A i, j \in 1..k : longer[i] = longer[j] => i = j
    BY <1>1, <1>5, <1>7, <1>9, <1>10
<1> HIDE DEF k
<1> QED
    BY <1>11 DEF AccountFor, later

BudgetsAccounted ==
    \A c \in DOMAIN lineages : AccountFor(tickets, TicketsOf(c), Usage(lineages[c].budget))

LEMMA BudgetsStep ==
    ASSUME KernelInv, IsFiniteSet(DOMAIN tickets), BudgetsAccounted, [Next]_kernelVars
    PROVE  IsFiniteSet(DOMAIN tickets') /\ BudgetsAccounted'
<1>1. KeepsTickets
    BY NextKeepsTickets
<1>2. \A c : IsFiniteSet(TicketsOf(c)) /\ SameCharges(tickets, tickets', TicketsOf(c))
  <2> SUFFICES ASSUME NEW c PROVE IsFiniteSet(TicketsOf(c)) /\ SameCharges(tickets, tickets', TicketsOf(c))
    OBVIOUS
  <2>1. TicketsOf(c) \subseteq DOMAIN tickets
    BY DEF TicketsOf
  <2> QED
    BY <1>1, <2>1, FS_Subset DEF SameCharges, KeepsTickets
<1>3. CASE KeepsBudgets /\ DOMAIN tickets' = DOMAIN tickets
  <2>1. \A c : TicketsOf(c)' = TicketsOf(c)
    BY <1>1, <1>3 DEF TicketsOf, KeepsTickets
  <2> SUFFICES ASSUME NEW c \in DOMAIN lineages'
               PROVE  AccountFor(tickets', TicketsOf(c), Usage(lineages'[c].budget))
    BY <1>3, <2>1 DEF BudgetsAccounted, AccountFor, Usage
  <2>2. CASE c \in DOMAIN lineages
    <3>1. AccountFor(tickets, TicketsOf(c), Usage(lineages[c].budget))
      BY <2>2 DEF BudgetsAccounted
    <3>2. lineages'[c].budget = lineages[c].budget
      BY <1>3, <2>2 DEF KeepsBudgets
    <3>3. AccountFor(tickets', TicketsOf(c), Usage(lineages[c].budget))
      BY <1>2, <3>1, AccountKept
    <3> QED
      BY <3>2, <3>3
  <2>3. CASE c \notin DOMAIN lineages
    <3>1. TicketsOf(c) = {}
      BY <2>3 DEF TicketsOf, KernelInv, RegisteredBound
    <3>2. lineages'[c].budget = [modifiedObjectIds |-> {}, mutationBytes |-> 0, testRuns |-> 0]
      BY <1>3, <2>3 DEF KeepsBudgets
    <3>3. Usage(lineages'[c].budget) = NoUsage
      BY <3>2, FS_EmptySet DEF Usage, NoUsage
    <3> QED
      BY <3>1, <3>3, AccountEmpty
  <2> QED
    BY <2>2, <2>3
<1>4. ASSUME NEW r \in Registrations, NEW now \in Time, RegisterTicket(r, now)
      PROVE  IsFiniteSet(DOMAIN tickets') /\ BudgetsAccounted'
  <2> DEFINE d == r.expectedActive.contractId
             x == r.ticket.ticketId
             l == lineages[d]
             b == NextBudget(l.budget, r.ticket, r.charge)
             reserved == [r.charge EXCEPT !.uniqueModifiedFiles =
                            IF b.modifiedObjectIds # l.budget.modifiedObjectIds THEN 1 ELSE 0]
             next == [l EXCEPT !.budget = b]
  <2>1. /\ d \in DOMAIN lineages /\ x \notin DOMAIN tickets
        /\ lineages' = Put(lineages, d, next)
        /\ DOMAIN tickets' = DOMAIN tickets \cup {x}
        /\ tickets'[x].contractId = d
        /\ tickets'[x].aggregateCharge = Usage(b) /\ tickets'[x].reservedCharge = reserved
    BY <1>4 DEF RegisterTicket, ReplayFree, Put
  <2>2. l \in Lineage /\ IsFiniteSet(l.budget.modifiedObjectIds)
    BY <2>1 DEF KernelInv, TypeOK, FiniteBudgets
  <2>3. Usage(b) = Charged(Usage(l.budget), reserved)
    BY <2>2, UsageCharged
  <2>4. next.budget = b
    BY <2>2 DEF Lineage
  <2> HIDE DEF b, reserved, next
  <2>5. /\ DOMAIN lineages' = DOMAIN lineages /\ lineages'[d] = next
        /\ \A c \in DOMAIN lineages : c # d => lineages'[c] = lineages[c]
    BY <2>1 DEF Put
  <2>6. /\ TicketsOf(d)' = TicketsOf(d) \cup {x} /\ x \notin TicketsOf(d)
        /\ \A c : c # d => TicketsOf(c)' = TicketsOf(c)
    BY <1>1, <2>1 DEF TicketsOf, KeepsTickets
  <2>7. IsFiniteSet(DOMAIN tickets')
    BY <2>1, FS_AddElement
  <2>8. AccountFor(tickets', TicketsOf(d)', Usage(lineages'[d].budget))
    <3>1. AccountFor(tickets, TicketsOf(d), Usage(l.budget))
      BY <2>1 DEF BudgetsAccounted
    <3>2. AccountFor(tickets', TicketsOf(d) \cup {x}, tickets'[x].aggregateCharge)
      BY <1>2, <2>1, <2>3, <2>6, <3>1, AccountGrows
    <3>3. Usage(lineages'[d].budget) = tickets'[x].aggregateCharge
      BY <2>1, <2>4, <2>5
    <3> QED
      BY <2>6, <3>2, <3>3
  <2>9. ASSUME NEW c \in DOMAIN lineages', c # d
        PROVE  AccountFor(tickets', TicketsOf(c)', Usage(lineages'[c].budget))
    <3>1. AccountFor(tickets, TicketsOf(c), Usage(lineages[c].budget))
      BY <2>5, <2>9 DEF BudgetsAccounted
    <3>2. AccountFor(tickets', TicketsOf(c), Usage(lineages[c].budget))
      BY <1>2, <3>1, AccountKept
    <3>3. TicketsOf(c)' = TicketsOf(c) /\ lineages'[c] = lineages[c]
      BY <2>5, <2>6, <2>9
    <3> QED
      BY <3>2, <3>3
  <2>10. \A c \in DOMAIN lineages' : AccountFor(tickets', TicketsOf(c)', Usage(lineages'[c].budget))
    BY <2>8, <2>9
  <2>11. BudgetsAccounted'
    BY <2>10 DEF BudgetsAccounted, AccountFor, Usage
  <2> QED
    BY <2>7, <2>11
<1> QED
    BY <1>3, <1>4, NextKeepsBudgets

\* A lineage's budget is exactly what its tickets reserved, in the order in
\* which they were registered, and every total respected the limits of the
\* revision it was reserved under: nothing is refunded, lost or counted twice.
THEOREM BudgetCorrect == Spec => []BudgetAccountsEveryReservation
<1>1. Init => IsFiniteSet(DOMAIN tickets) /\ BudgetsAccounted
    BY FS_EmptySet DEF Init, BudgetsAccounted
<1>2. KernelInv /\ IsFiniteSet(DOMAIN tickets) /\ BudgetsAccounted /\ [Next]_kernelVars
        => (IsFiniteSet(DOMAIN tickets) /\ BudgetsAccounted)'
  <2>1. ASSUME KernelInv, IsFiniteSet(DOMAIN tickets), BudgetsAccounted, [Next]_kernelVars
        PROVE  (IsFiniteSet(DOMAIN tickets) /\ BudgetsAccounted)'
    <3>1. IsFiniteSet(DOMAIN tickets') /\ BudgetsAccounted'
      BY <2>1, BudgetsStep
    <3> QED
      BY <3>1
  <2> QED
    BY <2>1
<1>3. ReservedWithinLimits /\ BudgetsAccounted => BudgetAccountsEveryReservation
    BY DEF BudgetAccountsEveryReservation, BudgetsAccounted
<1> QED
    BY <1>1, <1>2, <1>3, KernelInvariant, LimitsCorrect, PTL DEF Spec

-----------------------------------------------------------------------------
\* Runtime: what a step does to one execution and its ticket.

SameTicket(e) ==
    /\ Issued(e)' <=> Issued(e)
    /\ Issued(e) => tickets'[ticketIdOf(e)] = tickets[ticketIdOf(e)]

SameEvidence(e) == \A s \in AttestationStatus : Attested(e, s)' <=> Attested(e, s)

SameGuardian(e) == issuedAt'[e] = issuedAt[e] /\ active'[e] = active[e]

SameEffect(e) == e \in performed' <=> e \in performed

\* All the invariant knows of an execution, but for its place.
SameRecords(e) ==
    /\ SameTicket(e) /\ SameEvidence(e) /\ SameGuardian(e) /\ SameEffect(e)
    /\ closing'[e] = closing[e]

Untouched(e) == SameRecords(e) /\ pc'[e] = pc[e]

\* The kernel replaced the record of e's ticket and only its progress changed.
TicketMoved(e, status) ==
    /\ Issued(e) /\ Issued(e)'
    /\ ticketOf(e)' = ticketOf(e)
    /\ tickets'[ticketIdOf(e)].contractId = tickets[ticketIdOf(e)].contractId
    /\ statusOf(e)' = status
    /\ \A f \in Executions \ {e} : SameTicket(f)

\* An execution the step does not touch keeps its invariant.
LEMMA UntouchedInv ==
    ASSUME NEW e \in Executions, ExecutionInv(e), Untouched(e)
    PROVE  ExecutionInv(e)'
<1>1. GuardianKnows(e)'
    BY DEF ExecutionInv, Untouched, SameRecords, SameTicket, SameGuardian, GuardianKnows, Issued,
           ticketOf, ticketFor
<1>2. Unattested(e)' <=> Unattested(e)
    BY DEF Untouched, SameRecords, SameEvidence, Unattested
<1>3. \A s \in AttestationStatus : Attested(e, s)' <=> Attested(e, s)
    BY DEF Untouched, SameRecords, SameEvidence
<1>4. pc'[e] = pc[e] /\ (e \in performed' <=> e \in performed) /\ closing'[e] = closing[e]
    BY DEF Untouched, SameRecords, SameEffect
<1>5. CASE ~Issued(e)
  <2>1. pc[e] \in BeforeTicket /\ NoEffectYet(e) /\ ~Issued(e)'
    BY <1>5 DEF ExecutionInv, GuardianKnows, StageOf, Untouched, SameRecords, SameTicket
  <2>2. pc'[e] \in BeforeTicket /\ NoEffectYet(e)'
    BY <1>2, <1>4, <2>1 DEF NoEffectYet
  <2>3. StageOf(e)'
    BY <2>2 DEF StageOf, BeforeTicket, BeforePermit
  <2>4. StatusIsTruthful(e)' /\ EvidenceIsTruthful(e)'
    BY <2>1, <2>2 DEF StatusIsTruthful, EvidenceIsTruthful, NoEffectYet, Unattested,
                      AttestationStatus
  <2> QED
    BY <1>1, <2>3, <2>4 DEF ExecutionInv
<1>6. CASE Issued(e)
  <2>1. statusOf(e)' = statusOf(e) /\ (Issued(e)' <=> Issued(e))
    BY <1>6 DEF Untouched, SameRecords, SameTicket, statusOf
  <2>2. ClosingsAgree(e)' <=> ClosingsAgree(e)
    BY <1>4 DEF ClosingsAgree
  <2>3. NoEffectYet(e)' <=> NoEffectYet(e)
    BY <1>2, <1>4 DEF NoEffectYet
  <2>4. Attested(e, "committed")' <=> Attested(e, "committed")
    BY <1>3 DEF AttestationStatus
  <2>8. ReportIsTruthful(e)' <=> ReportIsTruthful(e)
    BY <1>4, <2>1 DEF ReportIsTruthful
  <2>5. StageOf(e)'
    BY <1>2, <1>4, <2>1, <2>2, <2>3, <2>4, <2>8 DEF ExecutionInv, StageOf
  <2>6. StatusIsTruthful(e)'
    BY <1>4, <2>1 DEF ExecutionInv, StatusIsTruthful, hasCrossedCommitPermit
  <2>7. EvidenceIsTruthful(e)'
    BY <1>3, <1>4, <2>1 DEF ExecutionInv, EvidenceIsTruthful, AttestationStatus
  <2> QED
    BY <1>1, <2>5, <2>6, <2>7 DEF ExecutionInv
<1> QED
    BY <1>5, <1>6

-----------------------------------------------------------------------------
\* The kernel operations the runtime calls are transitions of the kernel, and
\* each moves the ticket of the calling execution only.

\* The identity of an issued ticket.
LEMMA IssuedTicket ==
    ASSUME RuntimeInv, NEW e \in Executions, Issued(e)
    PROVE  /\ ticketOf(e) \in Tickets
           /\ ticketOf(e).ticketId = ticketIdOf(e)
           /\ ticketIdOf(e) \in TicketIds
           /\ tickets[ticketIdOf(e)] \in TicketRecord
<1>1. /\ tickets[ticketIdOf(e)] \in TicketRecord
      /\ tickets[ticketIdOf(e)].ticket.ticketId = ticketIdOf(e)
      /\ ticketIdOf(e) \in TicketIds
    BY DEF RuntimeInv, KernelInv, TypeOK, RegisteredBound, Issued
<1> QED
    BY <1>1 DEF ticketOf, TicketRecord

\* Different executions have different tickets.
LEMMA DistinctTickets ==
    ASSUME NEW e, NEW f, e # f
    PROVE  ticketIdOf(e) # ticketIdOf(f)
    BY DEF ticketIdOf

\* Replacing the status of e's record moves e's ticket only.
LEMMA SetTicketMoves ==
    ASSUME RuntimeInv, NEW e \in Executions, Issued(e), NEW record, NEW status,
           SetTicket(ticketIdOf(e), record),
           record.ticket = ticketOf(e),
           record.contractId = tickets[ticketIdOf(e)].contractId,
           record.status = status
    PROVE  TicketMoved(e, status)
<1>1. /\ DOMAIN tickets' = DOMAIN tickets
      /\ tickets'[ticketIdOf(e)] = record
      /\ \A id \in DOMAIN tickets : id # ticketIdOf(e) => tickets'[id] = tickets[id]
    BY DEF SetTicket, Issued
<1>2. ASSUME NEW f \in Executions \ {e} PROVE SameTicket(f)
    BY <1>1, <1>2, DistinctTickets DEF SameTicket, Issued
<1> QED
    BY <1>1, <1>2 DEF TicketMoved, Issued, ticketOf, statusOf

LEMMA PermitMoves ==
    ASSUME RuntimeInv, NEW e \in Executions, Issued(e), CommitPermit(ticketOf(e), clock)
    PROVE  Next /\ TicketMoved(e, "commit-permit") /\ statusOf(e) = "registered"
<1> DEFINE id == ticketIdOf(e)
           record == [tickets[id] EXCEPT !.status = "commit-permit",
                                         !.commitPermittedAt = clock]
<1>1. /\ ticketOf(e) \in Tickets /\ ticketOf(e).ticketId = id
      /\ tickets[id] \in TicketRecord /\ clock \in Time
    BY IssuedTicket DEF RuntimeInv, RuntimeTypeOK
<1>2. SetTicket(id, record) /\ tickets[id].status = "registered"
    BY <1>1 DEF CommitPermit, PermitRequestable
<1>3. /\ record.ticket = ticketOf(e) /\ record.contractId = tickets[id].contractId
      /\ record.status = "commit-permit"
    BY <1>1 DEF TicketRecord, ticketOf
<1>4. Next
    BY <1>1 DEF Next
<1> HIDE DEF record
<1> QED
    BY <1>2, <1>3, <1>4, SetTicketMoves DEF statusOf

LEMMA CloseMoves ==
    ASSUME RuntimeInv, NEW e \in Executions, Issued(e), NEW status,
           SetTicket(ticketIdOf(e), [tickets[ticketIdOf(e)] EXCEPT !.status = status])
    PROVE  TicketMoved(e, status)
<1> DEFINE record == [tickets[ticketIdOf(e)] EXCEPT !.status = status]
<1>1. /\ record.ticket = ticketOf(e) /\ record.status = status
      /\ record.contractId = tickets[ticketIdOf(e)].contractId
    BY IssuedTicket DEF TicketRecord, ticketOf
<1>2. SetTicket(ticketIdOf(e), record)
    OBVIOUS
<1> HIDE DEF record
<1> QED
    BY <1>1, <1>2, SetTicketMoves

LEMMA DenyMoves ==
    ASSUME RuntimeInv, NEW e \in Executions, Issued(e), DenyPermit(ticketOf(e), clock)
    PROVE  Next /\ TicketMoved(e, "failed-no-effect") /\ statusOf(e) = "registered"
<1>1. ticketOf(e) \in Tickets /\ ticketOf(e).ticketId = ticketIdOf(e) /\ clock \in Time
    BY IssuedTicket DEF RuntimeInv, RuntimeTypeOK
<1>2. /\ SetTicket(ticketIdOf(e),
            [tickets[ticketIdOf(e)] EXCEPT !.status = "failed-no-effect"])
      /\ statusOf(e) = "registered"
    BY <1>1 DEF DenyPermit, PermitRequestable, statusOf
<1>3. Next
    BY <1>1 DEF Next
<1> QED
    BY <1>2, <1>3, CloseMoves

LEMMA FailMoves ==
    ASSUME RuntimeInv, NEW e \in Executions, Issued(e), FailBeforeCommit(ticketIdOf(e), clock)
    PROVE  Next /\ TicketMoved(e, "failed-no-effect") /\ statusOf(e) = "registered"
<1>1. ticketIdOf(e) \in TicketIds /\ clock \in Time
    BY IssuedTicket DEF RuntimeInv, RuntimeTypeOK
<1>2. /\ SetTicket(ticketIdOf(e),
            [tickets[ticketIdOf(e)] EXCEPT !.status = "failed-no-effect"])
      /\ statusOf(e) = "registered"
    BY DEF FailBeforeCommit, statusOf
<1>3. Next
    BY <1>1 DEF Next
<1> QED
    BY <1>2, <1>3, CloseMoves

LEMMA SettleMoves ==
    ASSUME RuntimeInv, NEW e \in Executions, Issued(e), NEW s,
           SettleTicket(ticketIdOf(e), s, clock)
    PROVE  Next /\ TicketMoved(e, s) /\ statusOf(e) = "commit-permit"
<1>1. ticketIdOf(e) \in TicketIds /\ clock \in Time
    BY IssuedTicket DEF RuntimeInv, RuntimeTypeOK
<1>2. /\ SetTicket(ticketIdOf(e), [tickets[ticketIdOf(e)] EXCEPT !.status = s])
      /\ statusOf(e) = "commit-permit" /\ s \in TerminalStatus
    BY DEF SettleTicket, statusOf
<1>3. Next
    BY <1>1, <1>2 DEF Next
<1> QED
    BY <1>2, <1>3, CloseMoves

\* The snapshot of a contract that is active has the epoch of its revision.
LEMMA SnapshotKnown ==
    ASSUME RuntimeInv, NEW e \in Executions,
           ContractOf[e].contractId \in DOMAIN lineages,
           ActiveContractIs(getActiveContract(ContractOf[e].contractId), ContractOf[e])
    PROVE  getActiveContract(ContractOf[e].contractId) = SnapshotOf(e)
<1> DEFINE id == ContractOf[e].contractId
           l == lineages[id]
           n == Len(l.revisions)
<1>1. l \in Lineage /\ ChainOf(id, l)
    BY DEF RuntimeInv, KernelInv, TypeOK, LineageChain
<1>2. SnapshotIndex(l) = n /\ n \in DOMAIN l.revisions /\ n \in Nat /\ n \in 1..n
  <2>1. SnapshotIndex(l) = n /\ n \in DOMAIN l.revisions
    BY <1>1, CurrentIsLast
  <2>2. l.revisions \in Seq(RevisionRecord)
    BY <1>1 DEF Lineage
  <2> QED
    BY <2>1, <2>2
<1>3. l.revisions[n].contract.revision = n
    BY <1>1, <1>2 DEF ChainOf
<1>4. l.revisions[n].status = "active" => l.revocationEpoch = n - 1
    BY <1>1 DEF ChainOf
<1>5. getActiveContract(id) =
        [contractId |-> id, contractHash |-> l.revisions[n].contract.contractHash,
         revision |-> l.revisions[n].contract.revision,
         revocationEpoch |-> l.revocationEpoch, status |-> l.revisions[n].status]
    BY <1>2 DEF getActiveContract
<1>6. /\ l.revisions[n].status = "active"
      /\ l.revisions[n].contract.contractHash = ContractOf[e].contractHash
      /\ l.revisions[n].contract.revision = ContractOf[e].revision
    BY <1>5 DEF ActiveContractIs
<1>7. l.revocationEpoch = ContractOf[e].revision - 1
    BY <1>3, <1>4, <1>6
<1> HIDE DEF id, l, n
<1>8. getActiveContract(id) =
        [contractId |-> id, contractHash |-> ContractOf[e].contractHash,
         revision |-> ContractOf[e].revision,
         revocationEpoch |-> ContractOf[e].revision - 1, status |-> "active"]
    BY <1>5, <1>6, <1>7
<1> QED
    BY <1>8 DEF SnapshotOf, id

\* registerTicket is a transition of the kernel and puts the Guardian's ticket
\* on record.
LEMMA RegisterMoves ==
    ASSUME RuntimeInv, NEW e \in Executions, pc[e] = "snapshotted",
           RegisterTicket(registrationFor(e, issuedAt[e], active[e]), clock)
    PROVE  /\ Next
           /\ ~Issued(e) /\ Issued(e)'
           /\ ticketOf(e)' = ticketFor(e, issuedAt[e], active[e])
           /\ tickets'[ticketIdOf(e)].contractId = ContractOf[e].contractId
           /\ statusOf(e)' = "registered"
           /\ \A f \in Executions \ {e} : SameTicket(f)
<1> DEFINE r == registrationFor(e, issuedAt[e], active[e])
           id == ticketIdOf(e)
<1>1. /\ active[e] = SnapshotOf(e) /\ ContractUsableAt(ContractOf[e], issuedAt[e])
      /\ issuedAt[e] \in Time /\ clock \in Time
    BY DEF RuntimeInv, ExecutionInv, GuardianKnows, RuntimeTypeOK
<1>2. r \in Registrations
    BY <1>1, GuardianAssumption DEF ContractUsableAt
<1>3. Next
    BY <1>1, <1>2 DEF Next
<1>4. /\ r.ticket = ticketFor(e, issuedAt[e], active[e])
      /\ r.ticket.ticketId = id
      /\ r.expectedActive.contractId = ContractOf[e].contractId
    BY <1>1 DEF registrationFor, ticketFor, SnapshotOf
<1> HIDE DEF r
<1> DEFINE budget == lineages[r.expectedActive.contractId].budget
           b == NextBudget(budget, r.ticket, r.charge)
           record ==
             [ticket |-> r.ticket, contractId |-> r.expectedActive.contractId,
              status |-> "registered", registeredAt |-> clock, commitPermittedAt |-> 0,
              reservedCharge |-> [r.charge EXCEPT !.uniqueModifiedFiles =
                  IF b.modifiedObjectIds # budget.modifiedObjectIds THEN 1 ELSE 0],
              aggregateCharge |-> Usage(b)]
<1>a. RegisterTicket(r, clock)
    BY DEF r
<1>5. /\ tickets' = Put(tickets, r.ticket.ticketId, record)
      /\ record.ticket = r.ticket /\ record.status = "registered"
      /\ record.contractId = r.expectedActive.contractId
    BY <1>a DEF RegisterTicket
<1>6. id \notin DOMAIN tickets
    BY <1>4, <1>a DEF RegisterTicket, ReplayFree
<1> HIDE DEF record
<1>7. /\ DOMAIN tickets' = DOMAIN tickets \cup {id}
      /\ tickets'[id] = record
      /\ \A k \in DOMAIN tickets : tickets'[k] = tickets[k]
    BY <1>4, <1>5, <1>6 DEF Put
<1>8. ASSUME NEW f \in Executions \ {e} PROVE SameTicket(f)
    BY <1>7, DistinctTickets DEF SameTicket, Issued
<1> QED
    BY <1>3, <1>4, <1>5, <1>6, <1>7, <1>8 DEF Issued, ticketOf, statusOf

-----------------------------------------------------------------------------
\* Preservation of the invariant.

RuntimeTypes ==
    /\ clock \in Time
    /\ pc \in [Executions -> {"idle"} \cup Running \cup Ended]
    /\ startedAt \in [Executions -> Time]
    /\ issuedAt \in [Executions -> Time]
    /\ active = [e \in Executions |-> active[e]]
    /\ observed \in [Executions -> Observations \cup {NoObservation}]
    /\ closing = [e \in Executions |-> closing[e]]
    /\ performed \subseteq Executions
    /\ evidence \subseteq Executions \X AttestationStatus

\* What has to be shown of a step of e.
StepKeeps(e) ==
    /\ [Next]_kernelVars
    /\ RuntimeTypes'
    /\ ExecutionInv(e)'
    /\ \A f \in Executions \ {e} : Untouched(f)

LEMMA InvTypes == RuntimeInv => RuntimeTypes
    BY DEF RuntimeInv, RuntimeTypeOK, RuntimeTypes

\* A step of one execution that keeps its own invariant keeps them all.
LEMMA StepKeepsInv ==
    ASSUME RuntimeInv, NEW e \in Executions, StepKeeps(e)
    PROVE  RuntimeInv'
<1>1. KernelInv' /\ IdentitiesConsumedOnce'
    BY NextInv, IdentitiesStep DEF RuntimeInv, StepKeeps
<1>2. \A f \in Executions : ExecutionInv(f)'
    BY UntouchedInv DEF RuntimeInv, StepKeeps
<1>3. ASSUME NEW f \in Executions,
             pc'[f] \in Running \ {"verify", "admitted", "timed", "snapshotted"}
      PROVE  Issued(f)'
    BY <1>2, <1>3 DEF ExecutionInv, GuardianKnows, Running, BeforeTicket
<1>4. RuntimeTypeOK'
    BY <1>3 DEF RuntimeTypeOK, StepKeeps, RuntimeTypes
<1> QED
    BY <1>1, <1>2, <1>4 DEF RuntimeInv

\* A ticket once issued stays what the Guardian made it.
LEMMA GuardianKept ==
    ASSUME NEW e \in Executions, ExecutionInv(e),
           pc[e] \notin BeforeTicket, pc'[e] \notin BeforeTicket,
           Issued(e)', ticketOf(e)' = ticketOf(e),
           tickets'[ticketIdOf(e)].contractId = tickets[ticketIdOf(e)].contractId,
           SameGuardian(e)
    PROVE  GuardianKnows(e)'
    BY DEF ExecutionInv, GuardianKnows, SameGuardian, ticketFor, BeforeTicket

\* An execution with a ticket moves on with nothing else changed.
LEMMA MovePlace ==
    ASSUME NEW e \in Executions, ExecutionInv(e), SameRecords(e),
           pc[e] \notin BeforeTicket, pc'[e] \notin BeforeTicket, StageOf(e)'
    PROVE  ExecutionInv(e)'
<1>1. Issued(e) /\ Issued(e)' /\ tickets'[ticketIdOf(e)] = tickets[ticketIdOf(e)]
    BY DEF ExecutionInv, GuardianKnows, SameRecords, SameTicket
<1>2. GuardianKnows(e)'
    BY <1>1, GuardianKept DEF SameRecords, ticketOf
<1>3. /\ statusOf(e)' = statusOf(e) /\ SameEffect(e)
      /\ \A s \in AttestationStatus : Attested(e, s)' <=> Attested(e, s)
    BY <1>1 DEF statusOf, SameRecords, SameEvidence
<1>4. StatusIsTruthful(e)'
    BY <1>1, <1>3 DEF ExecutionInv, StatusIsTruthful, hasCrossedCommitPermit, SameEffect
<1>5. EvidenceIsTruthful(e)'
    BY <1>1, <1>3 DEF ExecutionInv, EvidenceIsTruthful, SameEffect, AttestationStatus
<1> QED
    BY <1>2, <1>4, <1>5 DEF ExecutionInv

\* Going elsewhere with nothing else changed.
LEMMA PlainMove ==
    ASSUME RuntimeInv, NEW e \in Executions, NEW from, NEW to \in Running \cup Ended,
           Goto(e, from, to), UNCHANGED <<kernelVars, clock, issuedAt, active, resultVars>>,
           startedAt' \in [Executions -> Time]
    PROVE  /\ pc[e] = from /\ pc'[e] = to
           /\ [Next]_kernelVars
           /\ RuntimeTypes'
           /\ SameRecords(e)
           /\ \A f \in Executions \ {e} : Untouched(f)
<1>1. RuntimeTypes
    BY InvTypes
<1>2. pc[e] = from /\ pc'[e] = to /\ \A f \in Executions \ {e} : pc'[f] = pc[f]
    BY <1>1 DEF Goto, RuntimeTypes
<1>3. RuntimeTypes'
    BY <1>1 DEF RuntimeTypes, Goto, resultVars
<1>4. \A f \in Executions : SameRecords(f)
    BY DEF SameRecords, SameTicket, SameEvidence, SameGuardian, SameEffect, kernelVars,
           resultVars, Issued, Attested
<1>5. UNCHANGED kernelVars
    BY DEF kernelVars
<1> QED
    BY <1>2, <1>3, <1>4, <1>5 DEF Untouched

\* Before the ticket is registered nothing but the Guardian's notes changes.
LEMMA BeforeTicketKeeps ==
    ASSUME NEW e \in Executions, ExecutionInv(e), pc[e] \in BeforeTicket,
           pc'[e] \in BeforeTicket, SameTicket(e), SameEvidence(e), SameEffect(e),
           pc'[e] \in {"timed", "snapshotted"} => ContractUsableAt(ContractOf[e], issuedAt'[e]),
           pc'[e] = "snapshotted" => active'[e] = SnapshotOf(e)
    PROVE  ExecutionInv(e)'
<1>1. ~Issued(e) /\ ~Issued(e)' /\ NoEffectYet(e)
    BY DEF ExecutionInv, GuardianKnows, SameTicket, StageOf
<1>2. GuardianKnows(e)'
    BY <1>1 DEF GuardianKnows
<1>3. NoEffectYet(e)'
    BY <1>1 DEF NoEffectYet, Unattested, SameEvidence, SameEffect
<1>4. StageOf(e)'
    BY <1>3 DEF StageOf, BeforeTicket, BeforePermit
<1>5. StatusIsTruthful(e)' /\ EvidenceIsTruthful(e)'
    BY <1>1, <1>3 DEF StatusIsTruthful, EvidenceIsTruthful, NoEffectYet, Unattested,
                      AttestationStatus
<1> QED
    BY <1>2, <1>4, <1>5 DEF ExecutionInv

LEMMA BeginKeeps ==
    ASSUME RuntimeInv, NEW e \in Executions, Begin(e)
    PROVE  StepKeeps(e)
<1>1. startedAt' \in [Executions -> Time]
    BY InvTypes DEF RuntimeTypes, Begin
<1>2. "verify" \in Running \cup Ended
    BY DEF Running
<1>3. /\ pc[e] = "idle" /\ pc'[e] = "verify" /\ [Next]_kernelVars /\ RuntimeTypes'
      /\ SameRecords(e) /\ \A f \in Executions \ {e} : Untouched(f)
    BY <1>1, <1>2, PlainMove DEF Begin
<1>4. ExecutionInv(e)'
    BY <1>3, BeforeTicketKeeps DEF RuntimeInv, SameRecords, BeforeTicket
<1> QED
    BY <1>3, <1>4 DEF StepKeeps

LEMMA GuardianPlainKeeps ==
    ASSUME RuntimeInv, NEW e \in Executions, GuardianAdmit(e) \/ GuardianDenies(e)
    PROVE  StepKeeps(e)
<1>1. PICK from \in {"verify", "admitted", "timed", "snapshotted"},
           to \in {"admitted", "denied"} :
        Goto(e, from, to) /\ UNCHANGED <<kernelVars, clock, guardianVars, resultVars>>
    BY DEF GuardianAdmit, GuardianDenies
<1>2. startedAt' \in [Executions -> Time] /\ to \in Running \cup Ended
    BY <1>1, InvTypes DEF RuntimeTypes, guardianVars, Running, Ended
<1>3. /\ pc[e] = from /\ pc'[e] = to /\ [Next]_kernelVars /\ RuntimeTypes'
      /\ SameRecords(e) /\ \A f \in Executions \ {e} : Untouched(f)
    BY <1>1, <1>2, PlainMove DEF guardianVars
<1>4. ExecutionInv(e)'
    BY <1>3, BeforeTicketKeeps DEF RuntimeInv, SameRecords, BeforeTicket
<1> QED
    BY <1>3, <1>4 DEF StepKeeps

LEMMA GuardianClockKeeps ==
    ASSUME RuntimeInv, NEW e \in Executions, GuardianClock(e)
    PROVE  StepKeeps(e)
<1>1. RuntimeTypes
    BY InvTypes
<1>2. /\ pc[e] = "admitted" /\ pc'[e] = "timed"
      /\ \A f \in Executions \ {e} : pc'[f] = pc[f] /\ issuedAt'[f] = issuedAt[f]
      /\ issuedAt'[e] = clock /\ ContractUsableAt(ContractOf[e], clock)
    BY <1>1 DEF GuardianClock, Goto, RuntimeTypes
<1>3. \A f \in Executions :
         SameTicket(f) /\ SameEvidence(f) /\ SameEffect(f) /\ active'[f] = active[f]
         /\ closing'[f] = closing[f]
    BY DEF GuardianClock, SameTicket, SameEvidence, SameEffect, kernelVars, resultVars,
           Issued, Attested
<1>4. RuntimeTypes'
    BY <1>1 DEF RuntimeTypes, GuardianClock, Goto, resultVars, Running
<1>5. UNCHANGED kernelVars
    BY DEF GuardianClock, kernelVars
<1>6. ExecutionInv(e)'
    BY <1>2, <1>3, BeforeTicketKeeps DEF RuntimeInv, BeforeTicket
<1> QED
    BY <1>2, <1>3, <1>4, <1>5, <1>6 DEF StepKeeps, Untouched, SameRecords, SameGuardian

LEMMA GuardianSnapshotKeeps ==
    ASSUME RuntimeInv, NEW e \in Executions, GuardianSnapshot(e)
    PROVE  StepKeeps(e)
<1>1. RuntimeTypes
    BY InvTypes
<1>2. getActiveContract(ContractOf[e].contractId) = SnapshotOf(e)
    BY SnapshotKnown DEF GuardianSnapshot
<1>3. /\ pc[e] = "timed" /\ pc'[e] = "snapshotted"
      /\ \A f \in Executions \ {e} : pc'[f] = pc[f]
    BY <1>1 DEF GuardianSnapshot, Goto, RuntimeTypes
<1>4. active' = [active EXCEPT ![e] = SnapshotOf(e)]
    BY <1>2 DEF GuardianSnapshot
<1>5. /\ active'[e] = SnapshotOf(e)
      /\ \A f \in Executions \ {e} : active'[f] = active[f]
    BY <1>1, <1>4 DEF RuntimeTypes
<1>6. \A f \in Executions :
         SameTicket(f) /\ SameEvidence(f) /\ SameEffect(f) /\ issuedAt'[f] = issuedAt[f]
         /\ closing'[f] = closing[f]
    BY DEF GuardianSnapshot, SameTicket, SameEvidence, SameEffect, kernelVars, resultVars,
           Issued, Attested
<1>7. RuntimeTypes'
  <2>1. active' = [f \in Executions |-> active'[f]]
    BY <1>1, <1>4 DEF RuntimeTypes
  <2> QED
    BY <1>1, <2>1 DEF RuntimeTypes, GuardianSnapshot, Goto, resultVars, Running
<1>8. UNCHANGED kernelVars
    BY DEF GuardianSnapshot, kernelVars
<1>9. ContractUsableAt(ContractOf[e], issuedAt'[e])
    BY <1>3, <1>6 DEF RuntimeInv, ExecutionInv, GuardianKnows
<1>10. ExecutionInv(e)'
    BY <1>3, <1>5, <1>6, <1>9, BeforeTicketKeeps DEF RuntimeInv, BeforeTicket
<1> QED
    BY <1>3, <1>5, <1>6, <1>7, <1>8, <1>10 DEF StepKeeps, Untouched, SameRecords, SameGuardian

LEMMA GuardianRegisterKeeps ==
    ASSUME RuntimeInv, NEW e \in Executions, GuardianRegister(e)
    PROVE  StepKeeps(e)
<1>1. RuntimeTypes
    BY InvTypes
<1>2. /\ pc[e] = "snapshotted" /\ pc'[e] = "prepare"
      /\ \A f \in Executions \ {e} : pc'[f] = pc[f]
    BY <1>1 DEF GuardianRegister, Goto, RuntimeTypes
<1>3. /\ Next /\ ~Issued(e) /\ Issued(e)'
      /\ ticketOf(e)' = ticketFor(e, issuedAt[e], active[e])
      /\ tickets'[ticketIdOf(e)].contractId = ContractOf[e].contractId
      /\ statusOf(e)' = "registered"
      /\ \A f \in Executions \ {e} : SameTicket(f)
    BY <1>2, RegisterMoves DEF GuardianRegister
<1>4. \A f \in Executions :
         SameEvidence(f) /\ SameEffect(f) /\ SameGuardian(f) /\ closing'[f] = closing[f]
    BY DEF GuardianRegister, SameEvidence, SameEffect, SameGuardian, guardianVars,
           resultVars, Attested
<1>5. RuntimeTypes'
    BY <1>1 DEF RuntimeTypes, GuardianRegister, Goto, guardianVars, resultVars, Running
<1>6. active[e] = SnapshotOf(e) /\ NoEffectYet(e)
    BY <1>2 DEF RuntimeInv, ExecutionInv, GuardianKnows, StageOf, BeforeTicket
<1>7. GuardianKnows(e)'
    BY <1>2, <1>3, <1>4, <1>6 DEF GuardianKnows, SameGuardian, BeforeTicket, ticketFor
<1>8. NoEffectYet(e)'
    BY <1>4, <1>6 DEF NoEffectYet, Unattested, SameEvidence, SameEffect
<1>9. StageOf(e)'
    BY <1>2, <1>3, <1>8 DEF StageOf, BeforeTicket, BeforePermit
<1>10. StatusIsTruthful(e)' /\ EvidenceIsTruthful(e)'
    BY <1>3, <1>8 DEF StatusIsTruthful, EvidenceIsTruthful, NoEffectYet, Unattested,
                      AttestationStatus
<1> QED
    BY <1>2, <1>3, <1>4, <1>5, <1>7, <1>9, <1>10
       DEF StepKeeps, ExecutionInv, Untouched, SameRecords

\* An execution whose ticket the kernel moved, with nothing attested of it but
\* possibly the commit.
LEMMA MoveStatus ==
    ASSUME NEW e \in Executions, ExecutionInv(e), NEW s, TicketMoved(e, s),
           SameEvidence(e), SameEffect(e), SameGuardian(e),
           pc[e] \notin BeforeTicket, pc'[e] \notin BeforeTicket,
           e \in performed => s \in {"commit-permit", "committed", "result-unavailable",
                                     "uncertain"},
           s \in {"committed", "result-unavailable"} => e \in performed,
           \/ Unattested(e) /\ s # "committed"
           \/ Attested(e, "committed") /\ s \in {"committed", "result-unavailable",
                                                "uncertain"},
           StageOf(e)'
    PROVE  ExecutionInv(e)'
<1>1. GuardianKnows(e)'
    BY GuardianKept DEF TicketMoved
<1>2. statusOf(e)' = s /\ Issued(e)'
    BY DEF TicketMoved
<1>3. StatusIsTruthful(e)'
    BY <1>2 DEF StatusIsTruthful, hasCrossedCommitPermit, SameEffect
<1>4. EvidenceIsTruthful(e)'
    BY <1>2 DEF ExecutionInv, EvidenceIsTruthful, SameEffect, SameEvidence, Unattested,
                AttestationStatus
<1> QED
    BY <1>1, <1>3, <1>4 DEF ExecutionInv

\* Going elsewhere while the kernel moves the ticket.
LEMMA KernelMove ==
    ASSUME RuntimeInv, NEW e \in Executions, NEW from, NEW to \in Running \cup Ended,
           NEW s, Goto(e, from, to), Next, TicketMoved(e, s),
           UNCHANGED <<clock, guardianVars, resultVars>>
    PROVE  /\ pc[e] = from /\ pc'[e] = to
           /\ RuntimeTypes'
           /\ statusOf(e)' = s
           /\ SameEvidence(e) /\ SameEffect(e) /\ SameGuardian(e)
           /\ closing'[e] = closing[e]
           /\ \A f \in Executions \ {e} : Untouched(f)
<1>1. RuntimeTypes
    BY InvTypes
<1>2. pc[e] = from /\ pc'[e] = to /\ \A f \in Executions \ {e} : pc'[f] = pc[f]
    BY <1>1 DEF Goto, RuntimeTypes
<1>3. RuntimeTypes'
    BY <1>1 DEF RuntimeTypes, Goto, guardianVars, resultVars
<1>4. \A f \in Executions :
         SameEvidence(f) /\ SameEffect(f) /\ SameGuardian(f) /\ closing'[f] = closing[f]
    BY DEF SameEvidence, SameEffect, SameGuardian, guardianVars, resultVars, Attested
<1>5. statusOf(e)' = s /\ \A f \in Executions \ {e} : SameTicket(f)
    BY DEF TicketMoved
<1> QED
    BY <1>2, <1>3, <1>4, <1>5 DEF Untouched, SameRecords

\* Places of an execution that holds a ticket.
LEMMA WithTicket ==
    ASSUME RuntimeInv, NEW e \in Executions, pc[e] \notin BeforeTicket
    PROVE  Issued(e) /\ ExecutionInv(e)
    BY DEF RuntimeInv, ExecutionInv, GuardianKnows

\* Preparing, revalidating and giving up before the permit.
LEMMA BeforePermitKeeps ==
    ASSUME RuntimeInv, NEW e \in Executions,
           Prepare(e) \/ PrepareFails(e) \/ revalidateExecutionTicket(e) \/ FenceDenies(e)
    PROVE  StepKeeps(e)
<1>1. PICK from \in {"prepare", "fence", "permit"},
           to \in {"fence", "failBefore", "permit", "fenceFailed"} :
        Goto(e, from, to) /\ UNCHANGED <<kernelVars, clock, guardianVars, resultVars>>
    BY DEF Prepare, PrepareFails, revalidateExecutionTicket, FenceDenies
<1>2. startedAt' \in [Executions -> Time] /\ to \in Running \cup Ended
    BY <1>1, InvTypes DEF RuntimeTypes, guardianVars, Running
<1>3. /\ pc[e] = from /\ pc'[e] = to /\ [Next]_kernelVars /\ RuntimeTypes'
      /\ SameRecords(e) /\ \A f \in Executions \ {e} : Untouched(f)
    BY <1>1, <1>2, PlainMove DEF guardianVars
<1>4. /\ ExecutionInv(e) /\ Issued(e) /\ NoEffectYet(e)
      /\ statusOf(e) \in {"registered", "failed-no-effect"}
    BY <1>3, WithTicket DEF ExecutionInv, StageOf, BeforeTicket, BeforePermit
<1>5. NoEffectYet(e)' /\ statusOf(e)' \in {"registered", "failed-no-effect"}
    BY <1>3, <1>4 DEF SameRecords, SameTicket, SameEvidence, SameEffect, NoEffectYet,
                      Unattested, statusOf
<1>6. StageOf(e)'
    BY <1>3, <1>5 DEF StageOf, BeforeTicket, BeforePermit
<1>7. ExecutionInv(e)'
    BY <1>3, <1>4, <1>6, MovePlace DEF BeforeTicket
<1> QED
    BY <1>3, <1>7 DEF StepKeeps

LEMMA PermitKeeps ==
    ASSUME RuntimeInv, NEW e \in Executions,
           PermitAndExecute(e) \/ PermitDenied(e) \/ PermitLost(e)
    PROVE  StepKeeps(e)
<1>1. pc[e] = "permit"
    BY DEF PermitAndExecute, PermitDenied, PermitLost, Goto
<1>2. ExecutionInv(e) /\ Issued(e) /\ NoEffectYet(e)
    BY <1>1, WithTicket DEF ExecutionInv, StageOf, BeforeTicket, BeforePermit
<1>3. PICK s \in {"commit-permit", "failed-no-effect"}, to \in {"executing", "fenceFailed"} :
        /\ Goto(e, "permit", to) /\ Next /\ TicketMoved(e, s)
        /\ to = "executing" => s = "commit-permit"
        /\ UNCHANGED <<clock, guardianVars, resultVars>>
    BY <1>2, PermitMoves, DenyMoves DEF PermitAndExecute, PermitDenied, PermitLost
<1>4. to \in Running \cup Ended
    BY DEF Running
<1>5. /\ pc'[e] = to /\ RuntimeTypes' /\ statusOf(e)' = s
      /\ SameEvidence(e) /\ SameEffect(e) /\ SameGuardian(e)
      /\ \A f \in Executions \ {e} : Untouched(f)
    BY <1>3, <1>4, KernelMove
<1>6. NoEffectYet(e)' /\ Unattested(e)'
    BY <1>2, <1>5 DEF NoEffectYet, Unattested, SameEvidence, SameEffect
<1>7. StageOf(e)'
    BY <1>3, <1>5, <1>6 DEF StageOf, BeforeTicket, BeforePermit
<1>8. ExecutionInv(e)'
    BY <1>1, <1>2, <1>3, <1>5, <1>7, MoveStatus DEF BeforeTicket, NoEffectYet
<1> QED
    BY <1>3, <1>5, <1>8 DEF StepKeeps

\* A new closing leaves every other execution alone.
LEMMA ClosingMove ==
    ASSUME RuntimeInv, NEW e \in Executions, NEW from, NEW to \in Running \cup Ended,
           NEW record, Goto(e, from, to), closing' = [closing EXCEPT ![e] = record],
           UNCHANGED <<clock, guardianVars, performed, evidence>>,
           observed' \in [Executions -> Observations \cup {NoObservation}]
    PROVE  /\ pc[e] = from /\ pc'[e] = to /\ closing'[e] = record
           /\ RuntimeTypes'
           /\ SameEvidence(e) /\ SameEffect(e) /\ SameGuardian(e)
           /\ \A f \in Executions \ {e} : SameTicket(f) => Untouched(f)
<1>1. RuntimeTypes
    BY InvTypes
<1>2. /\ pc[e] = from /\ pc'[e] = to /\ closing'[e] = record
      /\ \A f \in Executions \ {e} : pc'[f] = pc[f] /\ closing'[f] = closing[f]
    BY <1>1 DEF Goto, RuntimeTypes
<1>3. RuntimeTypes'
    BY <1>1 DEF RuntimeTypes, Goto, guardianVars
<1>4. \A f \in Executions : SameEvidence(f) /\ SameEffect(f) /\ SameGuardian(f)
    BY DEF SameEvidence, SameEffect, SameGuardian, guardianVars, Attested
<1> QED
    BY <1>2, <1>3, <1>4 DEF Untouched, SameRecords

\* The kernel was not called.
LEMMA QuietKernel ==
    ASSUME UNCHANGED kernelVars
    PROVE  [Next]_kernelVars /\ \A f : SameTicket(f)
    BY DEF kernelVars, SameTicket, Issued

\* Everything but the closing and the place stays, and the new stage fits.
LEMMA CloseInv ==
    ASSUME NEW e \in Executions, ExecutionInv(e), SameTicket(e), SameEvidence(e),
           SameEffect(e), SameGuardian(e),
           pc[e] \notin BeforeTicket, pc'[e] \notin BeforeTicket, StageOf(e)'
    PROVE  ExecutionInv(e)'
<1>1. Issued(e) /\ Issued(e)' /\ tickets'[ticketIdOf(e)] = tickets[ticketIdOf(e)]
    BY DEF ExecutionInv, GuardianKnows, SameTicket
<1>2. GuardianKnows(e)'
    BY <1>1, GuardianKept DEF ticketOf
<1>3. /\ statusOf(e)' = statusOf(e)
      /\ \A s \in AttestationStatus : Attested(e, s)' <=> Attested(e, s)
    BY <1>1 DEF statusOf, SameEvidence
<1>4. StatusIsTruthful(e)'
    BY <1>1, <1>3 DEF ExecutionInv, StatusIsTruthful, hasCrossedCommitPermit, SameEffect
<1>5. EvidenceIsTruthful(e)'
    BY <1>1, <1>3 DEF ExecutionInv, EvidenceIsTruthful, SameEffect, AttestationStatus
<1> QED
    BY <1>2, <1>4, <1>5 DEF ExecutionInv

\* Closing a permitted ticket whose outcome is not attested yet.
LEMMA CloseAsKeeps ==
    ASSUME RuntimeInv, NEW e \in Executions, NEW from, NEW settlement, NEW attestation,
           NEW record,
           CloseAs(e, from, settlement, attestation, record),
           UNCHANGED <<kernelVars, clock, guardianVars, performed, evidence>>,
           observed' \in [Executions -> Observations \cup {NoObservation}],
           from \notin BeforeTicket, statusOf(e) = "commit-permit", Unattested(e),
           \/ settlement = "uncertain" /\ attestation = "uncertain"
           \/ /\ settlement = "result-unavailable"
              /\ attestation = "committed_result_unavailable"
              /\ e \in performed
    PROVE  StepKeeps(e)
<1> DEFINE rec == [settlement |-> settlement, attestation |-> attestation, record |-> record]
<1>1. "settle" \in Running \cup Ended
    BY DEF Running
<1>2. /\ pc[e] = from /\ pc'[e] = "settle" /\ closing'[e] = rec
      /\ RuntimeTypes' /\ SameEvidence(e) /\ SameEffect(e) /\ SameGuardian(e)
      /\ \A f \in Executions \ {e} : SameTicket(f) => Untouched(f)
    BY <1>1, ClosingMove DEF CloseAs, CloseFrom
<1>3. [Next]_kernelVars /\ \A f : SameTicket(f)
    BY QuietKernel
<1>4. ExecutionInv(e) /\ Issued(e)
    BY <1>2, WithTicket
<1>5. Unattested(e)' /\ statusOf(e)' = "commit-permit"
    BY <1>2, <1>3, <1>4 DEF Unattested, SameEvidence, SameTicket, statusOf
<1>6. ClosingsAgree(e)' /\ closing'[e].settlement # "failed-no-effect"
    BY <1>2 DEF ClosingsAgree, SameEffect
<1>7. StageOf(e)'
    BY <1>2, <1>5, <1>6 DEF StageOf, BeforeTicket, BeforePermit
<1>8. pc'[e] \notin BeforeTicket
    BY <1>2 DEF BeforeTicket
<1>9. ExecutionInv(e)'
    BY <1>2, <1>3, <1>4, <1>7, <1>8, CloseInv
<1> QED
    BY <1>2, <1>3, <1>9 DEF StepKeeps

LEMMA FenceFailedKeeps ==
    ASSUME RuntimeInv, NEW e \in Executions, FenceFailed(e)
    PROVE  StepKeeps(e)
<1>1. /\ pc[e] = "fenceFailed"
      /\ UNCHANGED <<kernelVars, clock, guardianVars, observed, performed, evidence>>
    BY DEF FenceFailed
<1>2. /\ ExecutionInv(e) /\ Issued(e) /\ NoEffectYet(e)
      /\ statusOf(e) \in {"registered", "failed-no-effect", "commit-permit"}
    BY <1>1, WithTicket DEF ExecutionInv, StageOf, BeforeTicket, BeforePermit
<1>3. startedAt' \in [Executions -> Time]
      /\ observed' \in [Executions -> Observations \cup {NoObservation}]
    BY <1>1, InvTypes DEF RuntimeTypes, guardianVars
<1>4. CASE hasCrossedCommitPermit(e) /\ failAfterCommit(e, "fenceFailed")
  <2>1. statusOf(e) = "commit-permit" /\ Unattested(e) /\ "fenceFailed" \notin BeforeTicket
    BY <1>2, <1>4 DEF hasCrossedCommitPermit, NoEffectYet, BeforeTicket
  <2> QED
    BY <1>1, <1>3, <1>4, <2>1, CloseAsKeeps DEF failAfterCommit
<1>5. CASE /\ ~hasCrossedCommitPermit(e)
           /\ Goto(e, "fenceFailed", "failBefore")
           /\ UNCHANGED closing
  <2>1. statusOf(e) \in {"registered", "failed-no-effect"}
    BY <1>2, <1>5 DEF hasCrossedCommitPermit
  <2>2. "failBefore" \in Running \cup Ended
    BY DEF Running
  <2>3. /\ pc'[e] = "failBefore" /\ [Next]_kernelVars /\ RuntimeTypes'
        /\ SameRecords(e) /\ \A f \in Executions \ {e} : Untouched(f)
    BY <1>1, <1>3, <1>5, <2>2, PlainMove DEF guardianVars, resultVars
  <2>4. NoEffectYet(e)' /\ statusOf(e)' \in {"registered", "failed-no-effect"}
    BY <1>2, <2>1, <2>3 DEF SameRecords, SameTicket, SameEvidence, SameEffect, NoEffectYet,
                            Unattested, statusOf
  <2>5. StageOf(e)'
    BY <2>3, <2>4 DEF StageOf, BeforeTicket, BeforePermit
  <2>6. ExecutionInv(e)'
    BY <1>1, <1>2, <2>3, <2>5, MovePlace DEF BeforeTicket
  <2> QED
    BY <2>3, <2>6 DEF StepKeeps
<1> QED
    BY <1>4, <1>5 DEF FenceFailed

LEMMA EffectHappensKeeps ==
    ASSUME RuntimeInv, NEW e \in Executions, EffectHappens(e)
    PROVE  StepKeeps(e)
<1>1. /\ pc[e] = "executing" /\ pc' = pc /\ performed' = performed \cup {e}
      /\ UNCHANGED <<kernelVars, clock, guardianVars, observed, closing, evidence>>
    BY DEF EffectHappens
<1>2. ExecutionInv(e) /\ Issued(e) /\ Unattested(e) /\ statusOf(e) = "commit-permit"
    BY <1>1, WithTicket DEF ExecutionInv, StageOf, BeforeTicket
<1>3. [Next]_kernelVars /\ \A f : SameTicket(f)
    BY <1>1, QuietKernel
<1>4. RuntimeTypes'
    BY <1>1, InvTypes DEF RuntimeTypes, guardianVars
<1>5. \A f \in Executions : SameEvidence(f) /\ SameGuardian(f) /\ closing'[f] = closing[f]
    BY <1>1 DEF SameEvidence, SameGuardian, guardianVars, Attested
<1>6. \A f \in Executions \ {e} : Untouched(f)
    BY <1>1, <1>3, <1>5 DEF Untouched, SameRecords, SameEffect
<1>7. Issued(e)' /\ statusOf(e)' = "commit-permit" /\ Unattested(e)' /\ pc'[e] = "executing"
    BY <1>1, <1>2, <1>3, <1>5 DEF SameTicket, SameEvidence, statusOf, Unattested
<1>8. GuardianKnows(e)'
    BY <1>1, <1>2, <1>3, <1>5, <1>7, GuardianKept DEF BeforeTicket, SameTicket, ticketOf
<1>9. StageOf(e)'
    BY <1>7 DEF StageOf, BeforeTicket, BeforePermit
<1>10. StatusIsTruthful(e)' /\ EvidenceIsTruthful(e)'
    BY <1>7 DEF StatusIsTruthful, EvidenceIsTruthful, Unattested, hasCrossedCommitPermit,
                AttestationStatus
<1> QED
    BY <1>3, <1>4, <1>6, <1>8, <1>9, <1>10 DEF StepKeeps, ExecutionInv

LEMMA ExecuteThrowsKeeps ==
    ASSUME RuntimeInv, NEW e \in Executions, ExecuteThrows(e)
    PROVE  StepKeeps(e)
<1>1. /\ pc[e] = "executing" /\ CloseAs(e, "executing", "uncertain", "uncertain", TRUE)
      /\ UNCHANGED <<kernelVars, clock, guardianVars, observed, performed, evidence>>
    BY DEF ExecuteThrows, failAfterCommit, CloseAs, CloseFrom, Goto
<1>2. Unattested(e) /\ statusOf(e) = "commit-permit" /\ "executing" \notin BeforeTicket
    BY <1>1, WithTicket DEF ExecutionInv, StageOf, BeforeTicket
<1>3. observed' \in [Executions -> Observations \cup {NoObservation}]
    BY <1>1, InvTypes DEF RuntimeTypes
<1> QED
    BY <1>1, <1>2, <1>3, CloseAsKeeps

LEMMA ExecuteReturnsKeeps ==
    ASSUME RuntimeInv, NEW e \in Executions, NEW obs \in Observations, ExecuteReturns(e, obs)
    PROVE  StepKeeps(e)
<1>1. /\ pc[e] = "executing" /\ e \in performed
      /\ UNCHANGED <<kernelVars, clock, guardianVars, performed, evidence>>
    BY DEF ExecuteReturns, failAfterCommit, CloseAs, CloseFrom, Goto
<1>2. /\ ExecutionInv(e) /\ Issued(e) /\ Unattested(e) /\ statusOf(e) = "commit-permit"
      /\ "executing" \notin BeforeTicket
    BY <1>1, WithTicket DEF ExecutionInv, StageOf, BeforeTicket
<1>3. observed' \in [Executions -> Observations \cup {NoObservation}]
    BY InvTypes DEF RuntimeTypes, ExecuteReturns
<1>4. CASE failAfterCommit(e, "executing")
    BY <1>1, <1>2, <1>3, <1>4, CloseAsKeeps DEF failAfterCommit
<1>5. CASE CloseAs(e, "executing", "result-unavailable", "committed_result_unavailable", TRUE)
    BY <1>1, <1>2, <1>3, <1>5, CloseAsKeeps
<1>6. CASE Goto(e, "executing", "attestCommitted") /\ UNCHANGED closing
  <2>1. pc'[e] = "attestCommitted" /\ \A f \in Executions \ {e} : pc'[f] = pc[f]
    BY <1>6, InvTypes DEF Goto, RuntimeTypes
  <2>2. RuntimeTypes'
    BY <1>1, <1>3, <1>6, InvTypes DEF RuntimeTypes, Goto, guardianVars, Running
  <2>3. [Next]_kernelVars /\ \A f : SameTicket(f)
    BY <1>1, QuietKernel
  <2>4. \A f \in Executions : SameRecords(f)
    BY <1>1, <1>6, <2>3 DEF SameRecords, SameEvidence, SameGuardian, SameEffect, guardianVars,
                            Attested
  <2>5. statusOf(e)' = "commit-permit" /\ Unattested(e)' /\ e \in performed'
    BY <1>1, <1>2, <2>4 DEF SameRecords, SameTicket, SameEvidence, statusOf, Unattested
  <2>6. StageOf(e)'
    BY <2>1, <2>5 DEF StageOf, BeforeTicket, BeforePermit
  <2>7. ExecutionInv(e)'
    BY <1>1, <1>2, <2>1, <2>4, <2>6, MovePlace DEF BeforeTicket
  <2> QED
    BY <2>1, <2>2, <2>3, <2>4, <2>7 DEF StepKeeps, Untouched
<1> QED
    BY <1>4, <1>5, <1>6 DEF ExecuteReturns

\* One more attestation, of an execution that had none and may be closed by
\* the same step.
LEMMA AttestMove ==
    ASSUME RuntimeInv, NEW e \in Executions, NEW from, NEW to \in Running \cup Ended,
           NEW s \in AttestationStatus, Goto(e, from, to), Unattested(e), Issued(e),
           from \notin BeforeTicket, to \notin BeforeTicket,
           evidence' = evidence \cup {<<e, s>>},
           closing' = [f \in Executions |-> closing'[f]],
           \A f \in Executions \ {e} : closing'[f] = closing[f],
           UNCHANGED <<kernelVars, clock, guardianVars, observed, performed>>
    PROVE  /\ pc[e] = from /\ pc'[e] = to
           /\ [Next]_kernelVars /\ RuntimeTypes'
           /\ statusOf(e)' = statusOf(e) /\ (e \in performed' <=> e \in performed)
           /\ \A t \in AttestationStatus : Attested(e, t)' <=> t = s
           /\ GuardianKnows(e)' /\ StatusIsTruthful(e)'
           /\ \A f \in Executions \ {e} : Untouched(f)
<1>1. RuntimeTypes
    BY InvTypes
<1>2. pc[e] = from /\ pc'[e] = to /\ \A f \in Executions \ {e} : pc'[f] = pc[f]
    BY <1>1 DEF Goto, RuntimeTypes
<1>3. RuntimeTypes'
  <2>1. evidence' \subseteq Executions \X AttestationStatus
    BY <1>1 DEF RuntimeTypes
  <2> QED
    BY <1>1, <2>1 DEF RuntimeTypes, Goto, guardianVars
<1>4. [Next]_kernelVars /\ \A f : SameTicket(f)
    BY QuietKernel
<1>5. \A f \in Executions \ {e} : SameEvidence(f)
    BY DEF SameEvidence, Attested
<1>6. \A f \in Executions : SameEffect(f) /\ SameGuardian(f)
    BY DEF SameEffect, SameGuardian, guardianVars
<1>7. \A t \in AttestationStatus : Attested(e, t)' <=> t = s
    BY DEF Unattested, Attested
<1>8. Issued(e)' /\ tickets'[ticketIdOf(e)] = tickets[ticketIdOf(e)]
    BY <1>4 DEF SameTicket
<1>9. ExecutionInv(e)
    BY DEF RuntimeInv
<1>10. GuardianKnows(e)'
    BY <1>2, <1>6, <1>8, <1>9, GuardianKept DEF ticketOf
<1>11. StatusIsTruthful(e)' /\ statusOf(e)' = statusOf(e)
    BY <1>6, <1>8, <1>9 DEF ExecutionInv, StatusIsTruthful, hasCrossedCommitPermit, statusOf,
                            SameEffect
<1> QED
    BY <1>2, <1>3, <1>4, <1>5, <1>6, <1>7, <1>10, <1>11
       DEF Untouched, SameRecords, SameEffect

LEMMA AttestCommittedKeeps ==
    ASSUME RuntimeInv, NEW e \in Executions, AttestCommitted(e)
    PROVE  StepKeeps(e)
<1>1. /\ pc[e] = "attestCommitted" /\ Goto(e, "attestCommitted", "settleCommitted")
      /\ evidence' = evidence \cup {<<e, "committed">>}
      /\ UNCHANGED <<kernelVars, clock, guardianVars, observed, closing, performed>>
    BY DEF AttestCommitted, Goto
<1>2. Issued(e) /\ Unattested(e) /\ statusOf(e) = "commit-permit" /\ e \in performed
    BY <1>1, WithTicket DEF ExecutionInv, StageOf, BeforeTicket
<1>3. /\ "attestCommitted" \notin BeforeTicket /\ "settleCommitted" \notin BeforeTicket
      /\ "settleCommitted" \in Running \cup Ended /\ "committed" \in AttestationStatus
    BY DEF BeforeTicket, Running, AttestationStatus
<1>6. closing' = [f \in Executions |-> closing'[f]]
    BY <1>1, InvTypes DEF RuntimeTypes
<1>4. /\ pc'[e] = "settleCommitted" /\ [Next]_kernelVars /\ RuntimeTypes'
      /\ statusOf(e)' = "commit-permit" /\ e \in performed'
      /\ \A t \in AttestationStatus : Attested(e, t)' <=> t = "committed"
      /\ GuardianKnows(e)' /\ StatusIsTruthful(e)'
      /\ \A f \in Executions \ {e} : Untouched(f)
    BY <1>1, <1>2, <1>3, <1>6, AttestMove
<1>5. StageOf(e)' /\ EvidenceIsTruthful(e)'
    BY <1>3, <1>4 DEF StageOf, EvidenceIsTruthful, BeforeTicket, BeforePermit,
                      AttestationStatus
<1> QED
    BY <1>4, <1>5 DEF StepKeeps, ExecutionInv

LEMMA CommittedSinkFailsKeeps ==
    ASSUME RuntimeInv, NEW e \in Executions, CommittedSinkFails(e)
    PROVE  StepKeeps(e)
<1>1. /\ pc[e] = "attestCommitted"
      /\ UNCHANGED <<kernelVars, clock, guardianVars, observed, performed>>
    BY DEF CommittedSinkFails, CloseAs, CloseFrom, Goto
<1>2. /\ Issued(e) /\ Unattested(e) /\ statusOf(e) = "commit-permit" /\ e \in performed
      /\ "attestCommitted" \notin BeforeTicket
    BY <1>1, WithTicket DEF ExecutionInv, StageOf, BeforeTicket
<1>3. observed' \in [Executions -> Observations \cup {NoObservation}]
    BY <1>1, InvTypes DEF RuntimeTypes
<1>4. \/ CloseAs(e, "attestCommitted", "result-unavailable",
                 "committed_result_unavailable", FALSE)
      \/ CloseAs(e, "attestCommitted", "uncertain", "uncertain", FALSE)
    BY DEF CommittedSinkFails
<1>5. CASE UNCHANGED evidence
    BY <1>1, <1>2, <1>3, <1>4, <1>5, CloseAsKeeps
<1>6. CASE evidence' = evidence \cup {<<e, "committed">>}
  <2>1. PICK record :
          /\ record \in {[settlement |-> "result-unavailable",
                          attestation |-> "committed_result_unavailable", record |-> FALSE],
                         [settlement |-> "uncertain", attestation |-> "uncertain",
                          record |-> FALSE]}
          /\ Goto(e, "attestCommitted", "settle") /\ closing' = [closing EXCEPT ![e] = record]
    BY <1>4 DEF CloseAs, CloseFrom
  <2>2. /\ closing' = [f \in Executions |-> closing'[f]] /\ closing'[e] = record
        /\ \A f \in Executions \ {e} : closing'[f] = closing[f]
    BY <2>1, InvTypes DEF RuntimeTypes
  <2>3. /\ "settle" \in Running \cup Ended /\ "settle" \notin BeforeTicket
        /\ "committed" \in AttestationStatus
    BY DEF Running, BeforeTicket, AttestationStatus
  <2>4. /\ pc'[e] = "settle" /\ [Next]_kernelVars /\ RuntimeTypes'
        /\ statusOf(e)' = "commit-permit" /\ e \in performed'
        /\ \A t \in AttestationStatus : Attested(e, t)' <=> t = "committed"
        /\ GuardianKnows(e)' /\ StatusIsTruthful(e)'
        /\ \A f \in Executions \ {e} : Untouched(f)
    BY <1>1, <1>2, <1>6, <2>1, <2>2, <2>3, AttestMove
  <2>5. ClosingsAgree(e)' /\ ~closing'[e].record /\ closing'[e].settlement # "failed-no-effect"
    BY <2>1, <2>2, <2>4 DEF ClosingsAgree
  <2>6. StageOf(e)'
    BY <2>4, <2>5 DEF StageOf, BeforeTicket, BeforePermit
  <2>7. EvidenceIsTruthful(e)'
    BY <2>3, <2>4 DEF EvidenceIsTruthful, AttestationStatus
  <2> QED
    BY <2>4, <2>6, <2>7 DEF StepKeeps, ExecutionInv
<1> QED
    BY <1>5, <1>6 DEF CommittedSinkFails

\* An attestation that cannot be made leaves the execution as it is.
LEMMA AttestationThrowsKeeps ==
    ASSUME RuntimeInv, NEW e \in Executions,
           CommittedAttestationThrows(e) \/ AttestationThrows(e)
    PROVE  StepKeeps(e)
<1>1. PICK from \in {"attestCommitted", "attest"} :
        /\ Goto(e, from, "escaped")
        /\ UNCHANGED <<kernelVars, clock, guardianVars, resultVars>>
    BY DEF CommittedAttestationThrows, AttestationThrows
<1>2. startedAt' \in [Executions -> Time] /\ "escaped" \in Running \cup Ended
    BY <1>1, InvTypes DEF RuntimeTypes, guardianVars, Ended
<1>3. /\ pc[e] = from /\ pc'[e] = "escaped" /\ [Next]_kernelVars /\ RuntimeTypes'
      /\ SameRecords(e) /\ \A f \in Executions \ {e} : Untouched(f)
    BY <1>1, <1>2, PlainMove DEF guardianVars
<1>4. ExecutionInv(e) /\ pc[e] \notin BeforeTicket
    BY <1>3, WithTicket DEF BeforeTicket
<1>5. StageOf(e)' /\ pc'[e] \notin BeforeTicket
    BY <1>3 DEF StageOf, BeforeTicket, BeforePermit
<1>6. ExecutionInv(e)'
    BY <1>3, <1>4, <1>5, MovePlace
<1> QED
    BY <1>3, <1>6 DEF StepKeeps

\* A ticket at its permit has no evidence but, possibly, that of success.
LEMMA PermitEvidence ==
    ASSUME NEW e \in Executions, ExecutionInv(e), statusOf(e) = "commit-permit"
    PROVE  Unattested(e) \/ (Attested(e, "committed") /\ e \in performed)
    BY DEF ExecutionInv, EvidenceIsTruthful, Unattested, AttestationStatus

\* Settling: the attested success, or a closing that agrees with the effect.
LEMMA SettleInv ==
    ASSUME RuntimeInv, NEW e \in Executions, NEW from, NEW to \in Running \cup Ended,
           NEW s, Goto(e, from, to), SettleTicket(ticketIdOf(e), s, clock),
           UNCHANGED <<clock, guardianVars, resultVars>>,
           from \notin BeforeTicket, to \notin BeforeTicket,
           \/ s = "uncertain"
           \/ s = "result-unavailable" /\ e \in performed
           \/ s = "committed" /\ Attested(e, "committed") /\ e \in performed,
           (/\ pc'[e] = to /\ statusOf(e)' = s /\ closing'[e] = closing[e]
            /\ SameEvidence(e) /\ SameEffect(e)) => StageOf(e)'
    PROVE  StepKeeps(e)
<1>1. pc[e] = from
    BY DEF Goto
<1>2. ExecutionInv(e) /\ Issued(e)
    BY <1>1, WithTicket
<1>3. Next /\ TicketMoved(e, s) /\ statusOf(e) = "commit-permit"
    BY <1>2, SettleMoves
<1>4. /\ pc'[e] = to /\ RuntimeTypes' /\ statusOf(e)' = s /\ closing'[e] = closing[e]
      /\ SameEvidence(e) /\ SameEffect(e) /\ SameGuardian(e)
      /\ \A f \in Executions \ {e} : Untouched(f)
    BY <1>3, KernelMove
<1>6. Unattested(e) \/ (Attested(e, "committed") /\ e \in performed)
    BY <1>2, <1>3, PermitEvidence
<1>7. /\ s \in {"committed", "result-unavailable", "uncertain"}
      /\ s # "uncertain" => e \in performed
      /\ s = "committed" => Attested(e, "committed")
    OBVIOUS
<1>8. StageOf(e)'
    BY <1>4
<1>5. ExecutionInv(e)'
    BY <1>1, <1>2, <1>3, <1>4, <1>6, <1>7, <1>8, MoveStatus
<1> QED
    BY <1>3, <1>4, <1>5 DEF StepKeeps

\* A settlement that is not applied.
LEMMA UnsettledInv ==
    ASSUME RuntimeInv, NEW e \in Executions, NEW from, NEW to \in Running \cup Ended,
           Goto(e, from, to), UNCHANGED kernelVars,
           UNCHANGED <<clock, guardianVars, resultVars>>,
           from \notin BeforeTicket, to \notin BeforeTicket,
           (pc'[e] = to /\ SameRecords(e)) => StageOf(e)'
    PROVE  StepKeeps(e)
<1>1. startedAt' \in [Executions -> Time]
    BY InvTypes DEF RuntimeTypes, guardianVars
<1>2. /\ pc[e] = from /\ pc'[e] = to /\ [Next]_kernelVars /\ RuntimeTypes'
      /\ SameRecords(e) /\ \A f \in Executions \ {e} : Untouched(f)
    BY <1>1, PlainMove DEF guardianVars
<1>3. ExecutionInv(e)'
    BY <1>2, WithTicket, MovePlace
<1> QED
    BY <1>2, <1>3 DEF StepKeeps

LEMMA SettleCommittedKeeps ==
    ASSUME RuntimeInv, NEW e \in Executions, SettleCommitted(e)
    PROVE  StepKeeps(e)
<1>1. /\ pc[e] = "settleCommitted" /\ Goto(e, "settleCommitted", "returned")
      /\ SettleTicket(ticketIdOf(e), "committed", clock)
      /\ UNCHANGED <<clock, guardianVars, resultVars>>
    BY DEF SettleCommitted, Goto
<1>2. Attested(e, "committed") /\ e \in performed
    BY <1>1, WithTicket DEF ExecutionInv, StageOf, BeforeTicket
<1>3. /\ "returned" \in Running \cup Ended /\ "returned" \notin BeforeTicket
      /\ "settleCommitted" \notin BeforeTicket
    BY DEF Ended, BeforeTicket
<1>4. (/\ pc'[e] = "returned" /\ statusOf(e)' = "committed" /\ closing'[e] = closing[e]
       /\ SameEvidence(e) /\ SameEffect(e)) => StageOf(e)'
    BY <1>2 DEF SameEvidence, SameEffect, StageOf, BeforeTicket, BeforePermit,
                AttestationStatus
<1> QED
    BY <1>1, <1>2, <1>3, <1>4, SettleInv

LEMMA SettleCommittedThrowsKeeps ==
    ASSUME RuntimeInv, NEW e \in Executions, SettleCommittedThrows(e)
    PROVE  StepKeeps(e)
<1> DEFINE record == [settlement |-> "uncertain", attestation |-> "committed",
                      record |-> FALSE]
<1>1. /\ pc[e] = "settleCommitted" /\ Goto(e, "settleCommitted", "resettle")
      /\ closing' = [closing EXCEPT ![e] = record]
      /\ UNCHANGED <<clock, guardianVars, observed, performed, evidence>>
      /\ UNCHANGED kernelVars \/ SettleTicket(ticketIdOf(e), "committed", clock)
    BY DEF SettleCommittedThrows, CloseFrom, Goto
<1>2. /\ ExecutionInv(e) /\ Issued(e) /\ Attested(e, "committed") /\ e \in performed
      /\ statusOf(e) = "commit-permit" /\ pc[e] \notin BeforeTicket
    BY <1>1, WithTicket DEF ExecutionInv, StageOf, BeforeTicket
<1>3. observed' \in [Executions -> Observations \cup {NoObservation}]
      /\ "resettle" \in Running \cup Ended
    BY <1>1, InvTypes DEF RuntimeTypes, Running
<1>4. /\ pc'[e] = "resettle" /\ RuntimeTypes' /\ closing'[e] = record
      /\ SameEvidence(e) /\ SameEffect(e) /\ SameGuardian(e)
      /\ \A f \in Executions \ {e} : SameTicket(f) => Untouched(f)
    BY <1>1, <1>3, ClosingMove
<1>5. pc'[e] \notin BeforeTicket /\ Attested(e, "committed")' /\ e \in performed'
    BY <1>2, <1>4 DEF BeforeTicket, SameEvidence, SameEffect, AttestationStatus
<1>6. statusOf(e)' \in {"commit-permit", "committed"} => StageOf(e)'
    BY <1>4, <1>5 DEF StageOf, BeforeTicket, BeforePermit
<1> HIDE DEF record
<1>7. CASE UNCHANGED kernelVars
  <2>1. [Next]_kernelVars /\ \A f : SameTicket(f)
    BY <1>7, QuietKernel
  <2>2. statusOf(e)' = "commit-permit"
    BY <1>2, <2>1 DEF SameTicket, statusOf
  <2>3. ExecutionInv(e)'
    BY <1>2, <1>4, <1>5, <1>6, <2>1, <2>2, CloseInv
  <2> QED
    BY <1>4, <2>1, <2>3 DEF StepKeeps
<1>8. CASE SettleTicket(ticketIdOf(e), "committed", clock)
  <2>1. Next /\ TicketMoved(e, "committed")
    BY <1>2, <1>8, SettleMoves
  <2>2. statusOf(e)' = "committed" /\ \A f \in Executions \ {e} : SameTicket(f)
    BY <2>1 DEF TicketMoved
  <2>3. ExecutionInv(e)'
    BY <1>2, <1>4, <1>5, <1>6, <2>1, <2>2, MoveStatus
  <2> QED
    BY <1>4, <2>1, <2>2, <2>3 DEF StepKeeps
<1> QED
    BY <1>1, <1>7, <1>8

LEMMA SettleKeeps ==
    ASSUME RuntimeInv, NEW e \in Executions, Settle(e)
    PROVE  StepKeeps(e)
<1> DEFINE s == closing[e].settlement
<1>1. /\ pc[e] = "settle" /\ Goto(e, "settle", "attest") /\ SettleIfNeeded(e, s)
      /\ UNCHANGED <<clock, guardianVars, resultVars>>
    BY DEF Settle, Goto
<1>2. /\ closing[e].record => Unattested(e)
      /\ statusOf(e) = "commit-permit" /\ ClosingsAgree(e) /\ s # "failed-no-effect"
    BY <1>1, WithTicket DEF ExecutionInv, StageOf, BeforeTicket
<1>3. SettleTicket(ticketIdOf(e), s, clock)
    BY <1>1, <1>2 DEF SettleIfNeeded, TerminalStatus
<1>4. s = "uncertain" \/ (s = "result-unavailable" /\ e \in performed)
    BY <1>2 DEF ClosingsAgree
<1>5. /\ "attest" \in Running \cup Ended /\ "attest" \notin BeforeTicket
      /\ "settle" \notin BeforeTicket
    BY DEF Running, BeforeTicket
<1>6. ASSUME pc'[e] = "attest", statusOf(e)' = s, closing'[e] = closing[e],
             SameEvidence(e), SameEffect(e)
      PROVE  StageOf(e)'
  <2>1. ClosingsAgree(e)'
    BY <1>2, <1>6 DEF ClosingsAgree, SameEffect
  <2>2. closing'[e].record => Unattested(e)'
    BY <1>2, <1>6 DEF SameEvidence, Unattested
  <2> QED
    BY <1>6, <2>1, <2>2 DEF StageOf, BeforeTicket, BeforePermit
<1> HIDE DEF s
<1> QED
    BY <1>1, <1>3, <1>4, <1>5, <1>6, SettleInv

LEMMA ResettleKeeps ==
    ASSUME RuntimeInv, NEW e \in Executions, Resettle(e)
    PROVE  StepKeeps(e)
<1>1. /\ pc[e] = "resettle" /\ Goto(e, "resettle", "failed")
      /\ SettleIfNeeded(e, closing[e].settlement)
      /\ UNCHANGED <<clock, guardianVars, resultVars>>
    BY DEF Resettle, Goto
<1>2. /\ Issued(e) /\ closing[e].settlement = "uncertain"
      /\ statusOf(e) \in {"commit-permit", "committed"}
    BY <1>1, WithTicket DEF ExecutionInv, StageOf, BeforeTicket
<1>3. /\ "failed" \in Running \cup Ended /\ "failed" \notin BeforeTicket
      /\ "resettle" \notin BeforeTicket
    BY DEF Ended, BeforeTicket
<1>4. ASSUME pc'[e] = "failed", closing'[e] = closing[e],
             statusOf(e)' \in {"committed", "uncertain"}
      PROVE  StageOf(e)'
  <2>1. ReportIsTruthful(e)'
    BY <1>2, <1>4 DEF ReportIsTruthful, TerminalStatus
  <2> QED
    BY <1>4, <2>1 DEF StageOf, BeforeTicket, BeforePermit
<1>5. CASE statusOf(e) \in TerminalStatus /\ UNCHANGED kernelVars
  <2>1. (pc'[e] = "failed" /\ SameRecords(e)) => StageOf(e)'
    BY <1>2, <1>4, <1>5 DEF SameRecords, SameTicket, statusOf, TerminalStatus
  <2> QED
    BY <1>1, <1>3, <1>5, <2>1, UnsettledInv
<1>6. CASE SettleTicket(ticketIdOf(e), "uncertain", clock)
    BY <1>1, <1>3, <1>4, <1>6, SettleInv
<1> QED
    BY <1>1, <1>2, <1>5, <1>6 DEF SettleIfNeeded

LEMMA SettleThrowsKeeps ==
    ASSUME RuntimeInv, NEW e \in Executions, SettleThrows(e)
    PROVE  StepKeeps(e)
<1> DEFINE s == closing[e].settlement
<1>1. PICK from \in {"settle", "resettle"} :
        /\ Goto(e, from, "escaped")
        /\ UNCHANGED kernelVars \/ SettleTicket(ticketIdOf(e), s, clock)
        /\ UNCHANGED <<clock, guardianVars, resultVars>>
    BY DEF SettleThrows
<1>2. pc[e] = from
    BY <1>1 DEF Goto
<1>3. /\ "escaped" \in Running \cup Ended /\ "escaped" \notin BeforeTicket
      /\ from \notin BeforeTicket
    BY DEF Ended, BeforeTicket
<1>4. pc'[e] = "escaped" => StageOf(e)'
    BY DEF StageOf, BeforeTicket, BeforePermit
<1>5. CASE UNCHANGED kernelVars
    BY <1>1, <1>3, <1>4, <1>5, UnsettledInv
<1>6. CASE SettleTicket(ticketIdOf(e), s, clock)
  <2>1. s = "uncertain" \/ (s = "result-unavailable" /\ e \in performed)
    BY <1>2, WithTicket DEF ExecutionInv, StageOf, ClosingsAgree, BeforeTicket
  <2> HIDE DEF s
  <2> QED
    BY <1>1, <1>3, <1>4, <1>6, <2>1, SettleInv
<1> QED
    BY <1>1, <1>5, <1>6

LEMMA AttestKeeps ==
    ASSUME RuntimeInv, NEW e \in Executions, Attest(e)
    PROVE  StepKeeps(e)
<1> DEFINE s == closing[e].attestation
<1>1. /\ pc[e] = "attest" /\ Goto(e, "attest", "failed")
      /\ UNCHANGED <<kernelVars, clock, guardianVars, observed, closing, performed>>
    BY DEF Attest, Goto
<1>2. /\ ExecutionInv(e) /\ Issued(e) /\ ClosingsAgree(e)
      /\ closing[e].record => Unattested(e)
      /\ statusOf(e) = closing[e].settlement
    BY <1>1, WithTicket DEF ExecutionInv, StageOf, BeforeTicket
<1>3. /\ "failed" \in Running \cup Ended /\ "failed" \notin BeforeTicket
      /\ "attest" \notin BeforeTicket /\ s \in AttestationStatus
    BY <1>2 DEF Ended, BeforeTicket, ClosingsAgree, AttestationStatus
<1>4. ASSUME pc'[e] = "failed", statusOf(e)' = statusOf(e) PROVE StageOf(e)'
  <2>1. ReportIsTruthful(e)'
    BY <1>1, <1>2, <1>4 DEF ReportIsTruthful, ClosingsAgree, TerminalStatus
  <2> QED
    BY <1>4, <2>1 DEF StageOf, BeforeTicket, BeforePermit
<1>5. CASE closing[e].record /\ evidence' = evidence \cup {<<e, s>>}
  <2>1. /\ pc'[e] = "failed" /\ [Next]_kernelVars /\ RuntimeTypes'
        /\ statusOf(e)' = statusOf(e) /\ (e \in performed' <=> e \in performed)
        /\ \A t \in AttestationStatus : Attested(e, t)' <=> t = s
        /\ GuardianKnows(e)' /\ StatusIsTruthful(e)'
        /\ \A f \in Executions \ {e} : Untouched(f)
    <3>1. closing' = [f \in Executions |-> closing'[f]]
      BY <1>1, InvTypes DEF RuntimeTypes
    <3> QED
      BY <1>1, <1>2, <1>3, <1>5, <3>1, AttestMove
  <2>2. EvidenceIsTruthful(e)'
    BY <1>2, <2>1 DEF EvidenceIsTruthful, ClosingsAgree, AttestationStatus
  <2> QED
    BY <1>4, <2>1, <2>2 DEF StepKeeps, ExecutionInv
<1>6. CASE UNCHANGED evidence
  <2>1. (pc'[e] = "failed" /\ SameRecords(e)) => StageOf(e)'
    BY <1>2, <1>4 DEF SameRecords, SameTicket, statusOf
  <2> QED
    BY <1>1, <1>3, <1>6, <2>1, UnsettledInv DEF resultVars
<1> QED
    BY <1>5, <1>6 DEF Attest

\* A ticket that failed before its permit is attested as such.
LEMMA NoEffectStage ==
    ASSUME NEW e \in Executions, pc'[e] = "attest", statusOf(e)' = "failed-no-effect",
           NoEffectYet(e), SameEvidence(e), SameEffect(e),
           closing'[e] = [settlement |-> "failed-no-effect",
                          attestation |-> "failed_no_effect", record |-> TRUE]
    PROVE  StageOf(e)'
<1>1. e \notin performed' /\ Unattested(e)'
    BY DEF NoEffectYet, Unattested, SameEvidence, SameEffect
<1>2. ClosingsAgree(e)' /\ closing'[e].settlement = "failed-no-effect"
    BY <1>1 DEF ClosingsAgree
<1> QED
    BY <1>1, <1>2 DEF StageOf, BeforeTicket, BeforePermit

LEMMA FailBeforeReadKeeps ==
    ASSUME RuntimeInv, NEW e \in Executions, FailBeforeRead(e)
    PROVE  StepKeeps(e)
<1>1. PICK from \in {"failBefore", "failRecheck"} :
        /\ pc[e] = from
        /\ IF statusOf(e) = "commit-permit" THEN failAfterCommit(e, from)
           ELSE IF statusOf(e) = "failed-no-effect" THEN AttestNoEffect(e, from)
           ELSE /\ Goto(e, from, IF from = "failBefore" /\ statusOf(e) = "registered"
                                 THEN "failing" ELSE "escaped")
                /\ UNCHANGED closing
    BY DEF FailBeforeRead
<1>2. UNCHANGED <<kernelVars, clock, guardianVars, observed, performed, evidence>>
    BY DEF FailBeforeRead
<1>3. /\ ExecutionInv(e) /\ Issued(e) /\ NoEffectYet(e)
      /\ statusOf(e) \in {"registered", "failed-no-effect"} /\ from \notin BeforeTicket
    BY <1>1, WithTicket DEF ExecutionInv, StageOf, BeforeTicket, BeforePermit
<1>4. CASE AttestNoEffect(e, from) /\ statusOf(e) = "failed-no-effect"
  <2>1. observed' \in [Executions -> Observations \cup {NoObservation}]
        /\ "attest" \in Running \cup Ended
    BY <1>2, InvTypes DEF RuntimeTypes, Running
  <2>2. /\ pc'[e] = "attest" /\ RuntimeTypes'
        /\ closing'[e] = [settlement |-> "failed-no-effect",
                          attestation |-> "failed_no_effect", record |-> TRUE]
        /\ SameEvidence(e) /\ SameEffect(e) /\ SameGuardian(e)
        /\ \A f \in Executions \ {e} : SameTicket(f) => Untouched(f)
    BY <1>2, <1>4, <2>1, ClosingMove DEF AttestNoEffect, CloseFrom
  <2>3. [Next]_kernelVars /\ \A f : SameTicket(f)
    BY <1>2, QuietKernel
  <2>4. statusOf(e)' = "failed-no-effect"
    BY <1>3, <1>4, <2>3 DEF SameTicket, statusOf
  <2>5. StageOf(e)' /\ pc'[e] \notin BeforeTicket
    BY <1>3, <2>2, <2>4, NoEffectStage DEF BeforeTicket
  <2>6. ExecutionInv(e)'
    BY <1>1, <1>3, <2>2, <2>3, <2>5, CloseInv
  <2> QED
    BY <2>2, <2>3, <2>6 DEF StepKeeps
<1>5. CASE /\ statusOf(e) = "registered" /\ UNCHANGED closing
           /\ \/ Goto(e, from, "failing")
              \/ Goto(e, from, "escaped")
  <2>1. PICK to \in {"failing", "escaped"} : Goto(e, from, to)
    BY <1>5
  <2>2. to \in Running \cup Ended /\ to \notin BeforeTicket
    BY DEF Running, Ended, BeforeTicket
  <2>3. ASSUME pc'[e] = to, SameRecords(e) PROVE StageOf(e)'
    <3>1. NoEffectYet(e)' /\ statusOf(e)' = "registered"
      BY <1>3, <1>5, <2>3 DEF NoEffectYet, Unattested, SameRecords, SameEvidence, SameEffect,
                              SameTicket, statusOf
    <3> QED
      BY <2>3, <3>1 DEF StageOf, BeforeTicket, BeforePermit
  <2> QED
    BY <1>2, <1>3, <1>5, <2>1, <2>2, <2>3, UnsettledInv DEF resultVars
<1> QED
    BY <1>1, <1>3, <1>4, <1>5

LEMMA FailBeforeCallKeeps ==
    ASSUME RuntimeInv, NEW e \in Executions, FailBeforeCall(e)
    PROVE  StepKeeps(e)
<1>1. /\ pc[e] = "failing" /\ AttestNoEffect(e, "failing")
      /\ UNCHANGED <<clock, guardianVars, observed, performed, evidence>>
    BY DEF FailBeforeCall, AttestNoEffect, CloseFrom, Goto
<1>2. ExecutionInv(e) /\ Issued(e) /\ NoEffectYet(e) /\ pc[e] \notin BeforeTicket
    BY <1>1, WithTicket DEF ExecutionInv, StageOf, BeforeTicket, BeforePermit
<1>3. Next /\ TicketMoved(e, "failed-no-effect")
    BY <1>2, FailMoves DEF FailBeforeCall
<1>4. observed' \in [Executions -> Observations \cup {NoObservation}]
      /\ "attest" \in Running \cup Ended
    BY <1>1, InvTypes DEF RuntimeTypes, Running
<1>5. /\ pc'[e] = "attest" /\ RuntimeTypes'
      /\ closing'[e] = [settlement |-> "failed-no-effect",
                        attestation |-> "failed_no_effect", record |-> TRUE]
      /\ SameEvidence(e) /\ SameEffect(e) /\ SameGuardian(e)
      /\ \A f \in Executions \ {e} : SameTicket(f) => Untouched(f)
    BY <1>1, <1>4, ClosingMove DEF AttestNoEffect, CloseFrom
<1>6. StageOf(e)' /\ pc'[e] \notin BeforeTicket
    BY <1>2, <1>3, <1>5, NoEffectStage DEF BeforeTicket, TicketMoved
<1>7. ExecutionInv(e)'
    BY <1>2, <1>3, <1>5, <1>6, MoveStatus DEF NoEffectYet
<1> QED
    BY <1>3, <1>5, <1>7 DEF StepKeeps, TicketMoved

LEMMA FailBeforeThrowsKeeps ==
    ASSUME RuntimeInv, NEW e \in Executions, FailBeforeThrows(e)
    PROVE  StepKeeps(e)
<1>1. /\ pc[e] = "failing" /\ Goto(e, "failing", "failRecheck")
      /\ UNCHANGED <<clock, guardianVars, resultVars>>
      /\ UNCHANGED kernelVars \/ FailBeforeCommit(ticketIdOf(e), clock)
    BY DEF FailBeforeThrows, Goto
<1>2. /\ ExecutionInv(e) /\ Issued(e) /\ NoEffectYet(e) /\ "failing" \notin BeforeTicket
      /\ statusOf(e) \in {"registered", "failed-no-effect"}
    BY <1>1, WithTicket DEF ExecutionInv, StageOf, BeforeTicket, BeforePermit
<1>3. "failRecheck" \in Running \cup Ended /\ "failRecheck" \notin BeforeTicket
    BY DEF Running, BeforeTicket
<1>4. ASSUME pc'[e] = "failRecheck", SameEvidence(e), SameEffect(e),
             statusOf(e)' \in {"registered", "failed-no-effect"}
      PROVE  StageOf(e)'
  <2>1. NoEffectYet(e)'
    BY <1>2, <1>4 DEF NoEffectYet, Unattested, SameEvidence, SameEffect
  <2> QED
    BY <1>4, <2>1 DEF StageOf, BeforeTicket, BeforePermit
<1>5. CASE UNCHANGED kernelVars
  <2>1. (pc'[e] = "failRecheck" /\ SameRecords(e)) => StageOf(e)'
    BY <1>2, <1>4 DEF SameRecords, SameTicket, statusOf
  <2> QED
    BY <1>1, <1>2, <1>3, <1>5, <2>1, UnsettledInv
<1>6. CASE FailBeforeCommit(ticketIdOf(e), clock)
  <2>1. Next /\ TicketMoved(e, "failed-no-effect")
    BY <1>2, <1>6, FailMoves
  <2>2. /\ pc'[e] = "failRecheck" /\ RuntimeTypes' /\ statusOf(e)' = "failed-no-effect"
        /\ SameEvidence(e) /\ SameEffect(e) /\ SameGuardian(e)
        /\ \A f \in Executions \ {e} : Untouched(f)
    BY <1>1, <1>3, <2>1, KernelMove
  <2>3. ExecutionInv(e)'
    BY <1>1, <1>2, <1>3, <1>4, <2>1, <2>2, MoveStatus DEF NoEffectYet
  <2> QED
    BY <2>1, <2>2, <2>3 DEF StepKeeps
<1> QED
    BY <1>1, <1>5, <1>6

\* Every step of an execution keeps the invariant and uses the kernel as
\* specified.
LEMMA StepInv ==
    ASSUME RuntimeInv, NEW e \in Executions, Step(e)
    PROVE  StepKeeps(e)
<1>1. CASE Begin(e) \/ GuardianAdmit(e) \/ GuardianClock(e) \/ GuardianSnapshot(e)
           \/ GuardianRegister(e) \/ GuardianDenies(e)
    BY <1>1, BeginKeeps, GuardianPlainKeeps, GuardianClockKeeps, GuardianSnapshotKeeps,
       GuardianRegisterKeeps
<1>2. CASE Prepare(e) \/ PrepareFails(e) \/ revalidateExecutionTicket(e) \/ FenceDenies(e)
    BY <1>2, BeforePermitKeeps
<1>3. CASE PermitAndExecute(e) \/ PermitDenied(e) \/ PermitLost(e) \/ FenceFailed(e)
    BY <1>3, PermitKeeps, FenceFailedKeeps
<1>4. CASE EffectHappens(e) \/ ExecuteThrows(e)
           \/ \E obs \in Observations : ExecuteReturns(e, obs)
    BY <1>4, EffectHappensKeeps, ExecuteThrowsKeeps, ExecuteReturnsKeeps
<1>5. CASE AttestCommitted(e) \/ CommittedSinkFails(e) \/ CommittedAttestationThrows(e)
           \/ AttestationThrows(e) \/ Attest(e)
    BY <1>5, AttestCommittedKeeps, CommittedSinkFailsKeeps, AttestationThrowsKeeps, AttestKeeps
<1>6. CASE SettleCommitted(e) \/ SettleCommittedThrows(e) \/ Settle(e) \/ Resettle(e)
           \/ SettleThrows(e)
    BY <1>6, SettleCommittedKeeps, SettleCommittedThrowsKeeps, SettleKeeps,
       ResettleKeeps, SettleThrowsKeeps
<1>7. CASE FailBeforeRead(e) \/ FailBeforeCall(e) \/ FailBeforeThrows(e)
    BY <1>7, FailBeforeReadKeeps, FailBeforeCallKeeps, FailBeforeThrowsKeeps
<1> QED
    BY <1>1, <1>2, <1>3, <1>4, <1>5, <1>6, <1>7 DEF Step

\* What an operator does to the ticket of an execution: nothing, or the end of
\* its authority fails it.
OperatorMoved(e) ==
    /\ Issued(e)' <=> Issued(e)
    /\ Issued(e) =>
          \/ tickets'[ticketIdOf(e)] = tickets[ticketIdOf(e)]
          \/ /\ statusOf(e) = "registered" /\ statusOf(e)' = "failed-no-effect"
             /\ ticketOf(e)' = ticketOf(e)
             /\ tickets'[ticketIdOf(e)].contractId = tickets[ticketIdOf(e)].contractId

LEMMA OperatorTickets ==
    ASSUME RuntimeInv, Operator
    PROVE  Next /\ \A e \in Executions : OperatorMoved(e)
<1>1. Next
    BY DEF Operator, Next, RuntimeInv, RuntimeTypeOK
<1>2. tickets' = tickets \/ \E id : tickets' = FailRegisteredTickets(id)
    BY DEF Operator, ActivateFirst, ActivateNext, RevokeContract
<1>3. ASSUME NEW id, tickets' = FailRegisteredTickets(id), NEW e \in Executions
      PROVE  OperatorMoved(e)
  <2> DEFINE t == ticketIdOf(e)
  <2>1. DOMAIN tickets' = DOMAIN tickets
    BY <1>3 DEF FailRegisteredTickets
  <2>2. CASE t \in DOMAIN tickets
    <3>1. tickets[t] \in TicketRecord
      BY <2>2 DEF RuntimeInv, KernelInv, TypeOK
    <3>2. \/ tickets'[t] = tickets[t]
          \/ /\ tickets[t].status = "registered"
             /\ tickets'[t] = [tickets[t] EXCEPT !.status = "failed-no-effect"]
      BY <1>3, <2>2 DEF FailRegisteredTickets
    <3> QED
      BY <2>1, <2>2, <3>1, <3>2 DEF OperatorMoved, Issued, statusOf, ticketOf, TicketRecord
  <2> QED
    BY <2>1, <2>2 DEF OperatorMoved, Issued
<1>4. ASSUME tickets' = tickets, NEW e \in Executions PROVE OperatorMoved(e)
    BY <1>4 DEF OperatorMoved, Issued
<1> QED
    BY <1>1, <1>2, <1>3, <1>4

\* No execution loses what is known of it when an authority ends.
LEMMA OperatorInv ==
    ASSUME RuntimeInv, Operator
    PROVE  RuntimeInv'
<1>1. Next /\ \A e \in Executions : OperatorMoved(e)
    BY OperatorTickets
<1>2. UNCHANGED <<clock, pc, startedAt, issuedAt, active, observed, closing, performed, evidence>>
    BY DEF Operator, runtimeVars, guardianVars, resultVars
<1>3. ASSUME NEW e \in Executions PROVE ExecutionInv(e)'
  <2>1. ExecutionInv(e)
    BY DEF RuntimeInv
  <2>2. \A s : Attested(e, s)' <=> Attested(e, s)
    BY <1>2 DEF Attested
  <2>3. CASE SameTicket(e)
    <3>1. Untouched(e)
      BY <1>2, <2>2, <2>3 DEF Untouched, SameRecords, SameEvidence, SameGuardian, SameEffect
    <3> QED
      BY <2>1, <3>1, UntouchedInv
  <2>4. CASE ~SameTicket(e)
    <3>1. /\ Issued(e) /\ Issued(e)'
          /\ statusOf(e) = "registered" /\ statusOf(e)' = "failed-no-effect"
          /\ ticketOf(e)' = ticketOf(e)
          /\ tickets'[ticketIdOf(e)].contractId = tickets[ticketIdOf(e)].contractId
      BY <1>1, <2>4 DEF OperatorMoved, SameTicket
    <3>2. pc[e] \notin BeforeTicket /\ pc'[e] \notin BeforeTicket
      BY <1>2, <2>1, <3>1 DEF ExecutionInv, GuardianKnows
    <3>3. GuardianKnows(e)'
      BY <1>2, <2>1, <3>1, <3>2, GuardianKept DEF SameGuardian
    <3>4. NoEffectYet(e)
      BY <2>1, <3>1 DEF ExecutionInv, StatusIsTruthful, EvidenceIsTruthful, NoEffectYet,
                        Unattested, hasCrossedCommitPermit, AttestationStatus
    <3>5. NoEffectYet(e)' /\ Unattested(e)'
      BY <1>2, <2>2, <3>4 DEF NoEffectYet, Unattested
    <3>6. StageOf(e)'
      <4>1. pc[e] \notin {"executing", "attestCommitted", "settle", "settleCommitted",
                          "resettle", "returned"}
        BY <2>1, <3>1 DEF ExecutionInv, StageOf
      <4>2. pc[e] \notin {"attest", "failed"}
        BY <2>1, <3>1 DEF ExecutionInv, StageOf, ClosingsAgree, ReportIsTruthful,
                          TerminalStatus
      <4> QED
        BY <1>2, <3>1, <3>2, <3>5, <4>1, <4>2 DEF StageOf
    <3>7. StatusIsTruthful(e)' /\ EvidenceIsTruthful(e)'
      BY <3>1, <3>5 DEF StatusIsTruthful, EvidenceIsTruthful, NoEffectYet, Unattested,
                        AttestationStatus
    <3> QED
      BY <3>3, <3>6, <3>7 DEF ExecutionInv
  <2> QED
    BY <2>3, <2>4
<1>4. KernelInv' /\ IdentitiesConsumedOnce'
    BY <1>1, NextInv, IdentitiesStep DEF RuntimeInv
<1>5. RuntimeTypeOK'
    BY <1>1, <1>2 DEF RuntimeInv, RuntimeTypeOK, OperatorMoved
<1> QED
    BY <1>3, <1>4, <1>5 DEF RuntimeInv

LEMMA QuietInv ==
    ASSUME RuntimeInv, clock' \in Time, UNCHANGED <<kernelVars, pc, guardianVars, resultVars>>
    PROVE  RuntimeInv'
<1>1. UNCHANGED <<lineages, tickets, requestIds, reservationIds, pc, startedAt, issuedAt, active,
                  observed, closing, performed, evidence>>
    BY DEF kernelVars, guardianVars, resultVars
<1>2. KernelInv' /\ IdentitiesConsumedOnce'
  <2>1. [Next]_kernelVars
    BY <1>1 DEF kernelVars
  <2> QED
    BY <2>1, NextInv, IdentitiesStep DEF RuntimeInv
<1>3. ASSUME NEW e \in Executions PROVE ExecutionInv(e)'
  <2>1. Untouched(e)
    BY <1>1 DEF Untouched, SameRecords, SameTicket, SameEvidence, SameGuardian, SameEffect,
                Attested, Issued
  <2> QED
    BY <2>1, UntouchedInv DEF RuntimeInv
<1>4. RuntimeTypeOK'
    BY <1>1 DEF RuntimeInv, RuntimeTypeOK, Issued
<1> QED
    BY <1>2, <1>3, <1>4 DEF RuntimeInv

LEMMA RuntimeNextInv == RuntimeInv /\ [RuntimeNext]_vars => RuntimeInv'
<1> SUFFICES ASSUME RuntimeInv, [RuntimeNext]_vars PROVE RuntimeInv'
    OBVIOUS
<1>1. CASE UNCHANGED vars
  <2>1. UNCHANGED <<kernelVars, pc, guardianVars, resultVars>> /\ clock' \in Time
    BY <1>1 DEF vars, runtimeVars, RuntimeInv, RuntimeTypeOK
  <2> QED
    BY <2>1, QuietInv
<1>2. CASE Operator
    BY <1>2, OperatorInv
<1>3. CASE Tick
    BY <1>3, QuietInv DEF Tick
<1>4. ASSUME NEW e \in Executions, Step(e) PROVE RuntimeInv'
    BY <1>4, StepInv, StepKeepsInv
<1> QED
    BY <1>1, <1>2, <1>3, <1>4 DEF RuntimeNext

LEMMA RuntimeInitInv == RuntimeInit => RuntimeInv
<1> SUFFICES ASSUME RuntimeInit PROVE RuntimeInv
    OBVIOUS
<1>1. KernelInv /\ IdentitiesConsumedOnce
    BY InitInv DEF RuntimeInit, Init, IdentitiesConsumedOnce
<1>2. RuntimeTypeOK
    BY ClockAssumption DEF RuntimeInit, RuntimeTypeOK, Running, Ended
<1>3. ASSUME NEW e \in Executions PROVE ExecutionInv(e)
  <2>1. pc[e] = "idle" /\ ~Issued(e) /\ NoEffectYet(e)
    BY DEF RuntimeInit, Init, Issued, NoEffectYet, Unattested, Attested
  <2>2. GuardianKnows(e)
    BY <2>1 DEF GuardianKnows, BeforeTicket
  <2>3. StageOf(e)
    BY <2>1 DEF StageOf, BeforeTicket, BeforePermit
  <2>4. StatusIsTruthful(e) /\ EvidenceIsTruthful(e)
    BY <2>1 DEF StatusIsTruthful, EvidenceIsTruthful, NoEffectYet, Unattested,
                AttestationStatus
  <2> QED
    BY <2>2, <2>3, <2>4 DEF ExecutionInv
<1> QED
    BY <1>1, <1>2, <1>3 DEF RuntimeInv

-----------------------------------------------------------------------------
\* The theorems about Runtime.

\* Every reachable state satisfies the inductive invariant.
THEOREM RuntimeInvariant == RuntimeSpec => []RuntimeInv
    BY RuntimeInitInv, RuntimeNextInv, PTL DEF RuntimeSpec

\* Places, clock readings, observations and evidence keep their types, and an
\* execution past the Guardian holds a ticket the kernel has on record.
THEOREM RuntimeTypeCorrect == RuntimeSpec => []RuntimeTypeOK
<1>1. RuntimeInv => RuntimeTypeOK
    BY DEF RuntimeInv
<1> QED
    BY <1>1, RuntimeInvariant, PTL

\* What the evidence sink admitted agrees with the effect and with the ticket,
\* whether the sink, the kernel port or the clock failed on the way, and also
\* when the sink or the kernel had applied the call whose answer was lost.
THEOREM EvidenceTruthful == RuntimeSpec => []AttestationsAreTruthful
<1>1. RuntimeInv => AttestationsAreTruthful
  <2> SUFFICES ASSUME RuntimeInv PROVE AttestationsAreTruthful
    OBVIOUS
  <2>1. \A a \in evidence :
           /\ a[1] \in Executions /\ a[2] \in AttestationStatus /\ a = <<a[1], a[2]>>
           /\ Attested(a[1], a[2]) /\ EvidenceIsTruthful(a[1]) /\ StatusIsTruthful(a[1])
    <3>1. evidence \subseteq Executions \X AttestationStatus
      BY DEF RuntimeInv, RuntimeTypeOK
    <3> QED
      BY <3>1 DEF RuntimeInv, ExecutionInv, Attested
  <2>2. \A a, b \in evidence : a[1] = b[1] => a = b
    BY <2>1 DEF EvidenceIsTruthful
  <2>3. ASSUME NEW a \in evidence, NEW e, e = a[1]
        PROVE  CASE a[2] = "committed" ->
                       e \in performed /\ hasCrossedCommitPermit(e)
                 [] a[2] = "committed_result_unavailable" ->
                       e \in performed /\ statusOf(e) = "result-unavailable"
                 [] a[2] = "uncertain" -> statusOf(e) = "uncertain"
                 [] a[2] = "failed_no_effect" ->
                       e \notin performed /\ statusOf(e) = "failed-no-effect"
    <3>1. /\ a[2] \in AttestationStatus /\ Attested(e, a[2])
          /\ EvidenceIsTruthful(e) /\ StatusIsTruthful(e)
      BY <2>1, <2>3
    <3> QED
      BY <3>1 DEF EvidenceIsTruthful, StatusIsTruthful, AttestationStatus
  <2>4. \A e \in Executions :
           Issued(e) /\ statusOf(e) = "committed" => <<e, "committed">> \in evidence
    BY DEF RuntimeInv, ExecutionInv, EvidenceIsTruthful, Attested
  <2> QED
    BY <2>2, <2>3, <2>4 DEF AttestationsAreTruthful
<1> QED
    BY <1>1, RuntimeInvariant, PTL

\* The terminalStatus of an error of execute() is the one the kernel has, or
\* "uncertain" for a success whose settlement was not answered.
THEOREM ReportsTruthful == RuntimeSpec => []ReportsAreTruthful
<1>1. RuntimeInv => ReportsAreTruthful
    BY DEF RuntimeInv, ExecutionInv, StageOf, ReportsAreTruthful
<1> QED
    BY <1>1, RuntimeInvariant, PTL

\* A caller that gets a result gets it for an effect that took place, attested
\* and settled as committed.
THEOREM SuccessComplete == RuntimeSpec => []SuccessIsComplete
<1>1. RuntimeInv => SuccessIsComplete
    BY DEF RuntimeInv, ExecutionInv, StageOf, SuccessIsComplete, Attested
<1> QED
    BY <1>1, RuntimeInvariant, PTL

\* However long the executions were delayed between their awaits, an effect
\* starts only under the authority its Guardian saw.
THEOREM EffectsUnderLiveAuthority == RuntimeSpec => EffectsStartUnderLiveAuthority
<1> DEFINE Live(e) ==
        LET c == ContractOf[e] IN
        /\ ActiveContractIs(getActiveContract(c.contractId), c)
        /\ getActiveContract(c.contractId) = active[e]
        /\ issuedAt[e] <= clock /\ clock < ticketOf(e).expiresAt
<1>1. ASSUME RuntimeInv, NEW e \in Executions, PermitAndExecute(e) PROVE Live(e)
  <2> DEFINE c == ContractOf[e]
             l == lineages[c.contractId]
             n == Len(l.revisions)
  <2>1. /\ pc[e] = "permit" /\ Issued(e) /\ GuardianKnows(e)
    BY <1>1, WithTicket DEF PermitAndExecute, Goto, ExecutionInv, BeforeTicket
  <2>2. /\ active[e] = SnapshotOf(e)
        /\ ticketOf(e) = ticketFor(e, issuedAt[e], active[e])
        /\ tickets[ticketIdOf(e)].contractId = c.contractId
        /\ ticketOf(e).ticketId = ticketIdOf(e)
    BY <1>1, <2>1, IssuedTicket DEF GuardianKnows
  <2>3. /\ ticketOf(e).issuedAt <= clock /\ clock < ticketOf(e).expiresAt
        /\ c.contractId \in DOMAIN lineages
        /\ TicketMatchesActiveLineage(ticketOf(e), l, clock)
    BY <1>1, <2>2 DEF PermitAndExecute, CommitPermit, PermitRequestable, PermitGrantable
  <2>4. l \in Lineage /\ ChainOf(c.contractId, l)
    BY <1>1, <2>3 DEF RuntimeInv, KernelInv, TypeOK, LineageChain
  <2>5. CurrentIndex(l) = n /\ SnapshotIndex(l) = n
    BY <2>4, CurrentIsLast
  <2>6. /\ l.revisions[n].status = "active"
        /\ l.revisions[n].contract.contractHash = ticketOf(e).contractHash
        /\ l.revisions[n].contract.revision = ticketOf(e).contractRevision
    BY <2>3, <2>5 DEF TicketMatchesActiveLineage, currentRevision, LineageActive
  <2>7. /\ ticketOf(e).contractHash = c.contractHash /\ ticketOf(e).contractRevision = c.revision
        /\ ticketOf(e).issuedAt = issuedAt[e]
    BY <2>2 DEF ticketFor
  <2>8. ActiveContractIs(getActiveContract(c.contractId), c)
    BY <2>5, <2>6, <2>7 DEF ActiveContractIs, getActiveContract
  <2>9. getActiveContract(c.contractId) = active[e]
    BY <1>1, <2>2, <2>3, <2>8, SnapshotKnown
  <2> QED
    BY <2>3, <2>7, <2>8, <2>9
<1>2. ASSUME RuntimeInv, NEW e \in Executions, Step(e), pc[e] # "executing",
             pc'[e] = "executing"
      PROVE  PermitAndExecute(e)
  <2>1. \A from, to : Goto(e, from, to) => pc'[e] = to
    BY <1>2, InvTypes DEF Goto, RuntimeTypes
  <2>2. \A from, s, a, r : ~CloseAs(e, from, s, a, r)
    BY <1>2, <2>1 DEF CloseAs, CloseFrom
  <2>3. \A from : ~failAfterCommit(e, from) /\ ~AttestNoEffect(e, from)
    BY <1>2, <2>1, <2>2 DEF failAfterCommit, AttestNoEffect, CloseFrom
  <2>4. /\ ~Begin(e) /\ ~GuardianAdmit(e) /\ ~GuardianClock(e) /\ ~GuardianSnapshot(e)
        /\ ~GuardianRegister(e) /\ ~GuardianDenies(e) /\ ~Prepare(e) /\ ~PrepareFails(e)
        /\ ~revalidateExecutionTicket(e) /\ ~FenceDenies(e)
    BY <1>2, <2>1 DEF Begin, GuardianAdmit, GuardianClock, GuardianSnapshot, GuardianRegister,
                      GuardianDenies, Prepare, PrepareFails, revalidateExecutionTicket,
                      FenceDenies
  <2>5. /\ ~PermitDenied(e) /\ ~PermitLost(e) /\ ~FenceFailed(e) /\ ~EffectHappens(e)
        /\ ~ExecuteThrows(e) /\ \A obs : ~ExecuteReturns(e, obs)
    BY <1>2, <2>1, <2>2, <2>3 DEF PermitDenied, PermitLost, FenceFailed, EffectHappens,
                                  ExecuteThrows, ExecuteReturns
  <2>6. /\ ~AttestCommitted(e) /\ ~CommittedSinkFails(e) /\ ~CommittedAttestationThrows(e)
        /\ ~SettleCommitted(e) /\ ~SettleCommittedThrows(e)
    BY <1>2, <2>1, <2>2 DEF AttestCommitted, CommittedSinkFails, CommittedAttestationThrows,
                            SettleCommitted, SettleCommittedThrows, CloseFrom
  <2>7. /\ ~Settle(e) /\ ~Resettle(e) /\ ~SettleThrows(e) /\ ~Attest(e)
        /\ ~AttestationThrows(e)
    BY <1>2, <2>1 DEF Settle, Resettle, SettleThrows, Attest, AttestationThrows
  <2>8. ~FailBeforeRead(e) /\ ~FailBeforeCall(e) /\ ~FailBeforeThrows(e)
    BY <1>2, <2>1, <2>3 DEF FailBeforeRead, FailBeforeCall, FailBeforeThrows
  <2> QED
    BY <1>2, <2>4, <2>5, <2>6, <2>7, <2>8 DEF Step
<1> HIDE DEF Live
<1>3. ASSUME RuntimeInv, [RuntimeNext]_vars, NEW e \in Executions, pc[e] # "executing",
             pc'[e] = "executing"
      PROVE  Live(e)
  <2>1. CASE UNCHANGED vars
    BY <1>3, <2>1 DEF vars, runtimeVars
  <2>2. CASE Operator \/ Tick
    BY <1>3, <2>2 DEF Operator, Tick, runtimeVars
  <2>3. ASSUME NEW f \in Executions, Step(f) PROVE f = e
    BY <1>3, <2>3, StepInv DEF StepKeeps, Untouched
  <2> QED
    BY <1>1, <1>2, <1>3, <2>1, <2>2, <2>3 DEF RuntimeNext
<1>4. RuntimeInv /\ [RuntimeNext]_vars =>
         \A e \in Executions : pc[e] # "executing" /\ pc'[e] = "executing" => Live(e)
    BY <1>3
<1> QED
    BY <1>4, RuntimeInvariant, PTL DEF RuntimeSpec, EffectsStartUnderLiveAuthority, Live

-----------------------------------------------------------------------------
\* The one-shot promise.

\* What is decided of the request of an execution.
Decided(status) ==
    CASE status = "registered" -> "open"
      [] status = "commit-permit" -> "granted"
      [] OTHER -> status

Decision(e) == IF Issued(e) THEN Decided(statusOf(e)) ELSE "open"

Occurrences(e) == IF e \in performed THEN 1 ELSE 0

\* No other execution of e's request holds a ticket.
Owns(e) == \A f \in Executions \ {e} : RequestOf[f] = RequestOf[e] => ~Issued(f)

DoneOf(r) == Cardinality({e \in performed : RequestOf[e] = r})

\* An execution without competitors decides its request, and is the only one
\* that can have acted on it.
OwnersDecide ==
    \A e \in Executions :
        Owns(e) => /\ AbstractAuthority(RequestOf[e]) = Decision(e)
                   /\ DoneOf(RequestOf[e]) = Occurrences(e)

\* A ticket gives its execution the request alone.
IssuedOwns == \A e \in Executions : Issued(e) => Owns(e)

LEMMA OwnersDecideAlways == RuntimeInv => OwnersDecide
<1> SUFFICES ASSUME RuntimeInv, NEW e \in Executions, Owns(e)
             PROVE  /\ AbstractAuthority(RequestOf[e]) = Decision(e)
                    /\ DoneOf(RequestOf[e]) = Occurrences(e)
    BY DEF OwnersDecide
<1>1. AbstractAuthority(RequestOf[e]) = Decision(e)
  <2>1. CASE Issued(e)
    <3>1. (CHOOSE f \in Executions : Issued(f) /\ RequestOf[f] = RequestOf[e]) = e
      BY <2>1 DEF Owns
    <3> QED
      BY <2>1, <3>1 DEF AbstractAuthority, Decision, Decided
  <2>2. CASE ~Issued(e)
    BY <2>2 DEF AbstractAuthority, Decision, Owns
  <2> QED
    BY <2>1, <2>2
<1>2. \A f \in performed : f \in Executions /\ Issued(f)
    BY DEF RuntimeInv, RuntimeTypeOK, ExecutionInv, GuardianKnows, StageOf, NoEffectYet
<1>3. {f \in performed : RequestOf[f] = RequestOf[e]} = IF e \in performed THEN {e} ELSE {}
    BY <1>2 DEF Owns
<1>4. DoneOf(RequestOf[e]) = Occurrences(e)
    BY <1>3, FS_EmptySet, FS_Singleton DEF DoneOf, Occurrences
<1> QED
    BY <1>1, <1>4

LEMMA IssuedOwnsAlways == RuntimeInv => IssuedOwns
<1> SUFFICES ASSUME RuntimeInv, NEW e \in Executions, Issued(e),
                    NEW f \in Executions \ {e}, RequestOf[f] = RequestOf[e], Issued(f)
             PROVE  FALSE
    BY DEF IssuedOwns, Owns
<1>1. ASSUME NEW x \in Executions, Issued(x)
      PROVE  tickets[ticketIdOf(x)].ticket.requestId = RequestOf[x]
  <2>1. tickets[ticketIdOf(x)].ticket = ticketFor(x, issuedAt[x], active[x])
    BY <1>1 DEF RuntimeInv, ExecutionInv, GuardianKnows, ticketOf
  <2> QED
    BY <2>1 DEF ticketFor
<1>2. ticketIdOf(e) = ticketIdOf(f)
    BY <1>1 DEF RuntimeInv, IdentitiesConsumedOnce, Issued
<1> QED
    BY <1>2, DistinctTickets

\* Every request has an execution that decides it before and after a step.
LEMMA OwnerOfRequest ==
    ASSUME RuntimeInv, RuntimeInv', IssuedOwns', [Next]_kernelVars, NEW r \in Requests
    PROVE  \E e \in Executions : RequestOf[e] = r /\ Owns(e) /\ Owns(e)'
<1>1. PICK e \in Executions : RequestOf[e] = r /\ Owns(e)'
    BY DEF Requests, IssuedOwns, Owns
<1>2. Owns(e)
    BY <1>1, NextKeepsTickets DEF RuntimeInv, Owns, KeepsTickets, Issued
<1> QED
    BY <1>1, <1>2

\* Only EffectHappens performs an effect.
LEMMA OnlyEffectPerforms ==
    ASSUME NEW e, Step(e)
    PROVE  EffectHappens(e) \/ performed' = performed
<1>1. CASE Begin(e) \/ GuardianAdmit(e) \/ GuardianClock(e) \/ GuardianSnapshot(e)
           \/ GuardianRegister(e) \/ GuardianDenies(e) \/ Prepare(e) \/ PrepareFails(e)
           \/ revalidateExecutionTicket(e) \/ FenceDenies(e)
    BY <1>1 DEF Begin, GuardianAdmit, GuardianClock, GuardianSnapshot, GuardianRegister,
                GuardianDenies, Prepare, PrepareFails, revalidateExecutionTicket,
                FenceDenies, resultVars
<1>2. CASE PermitAndExecute(e) \/ PermitDenied(e) \/ PermitLost(e) \/ FenceFailed(e)
           \/ ExecuteThrows(e) \/ \E obs \in Observations : ExecuteReturns(e, obs)
    BY <1>2 DEF PermitAndExecute, PermitDenied, PermitLost, FenceFailed, ExecuteThrows,
                ExecuteReturns, resultVars
<1>3. CASE AttestCommitted(e) \/ CommittedSinkFails(e) \/ CommittedAttestationThrows(e)
           \/ SettleCommitted(e) \/ SettleCommittedThrows(e)
    BY <1>3 DEF AttestCommitted, CommittedSinkFails, CommittedAttestationThrows,
                SettleCommitted, SettleCommittedThrows, resultVars
<1>4. CASE Settle(e) \/ Resettle(e) \/ SettleThrows(e) \/ Attest(e) \/ AttestationThrows(e)
           \/ FailBeforeRead(e) \/ FailBeforeCall(e) \/ FailBeforeThrows(e)
    BY <1>4 DEF Settle, Resettle, SettleThrows, Attest, AttestationThrows, FailBeforeRead,
                FailBeforeCall, FailBeforeThrows, resultVars
<1> QED
    BY <1>1, <1>2, <1>3, <1>4 DEF Step

\* How one execution's step moves the decision about its request.
Decides(e) ==
    \/ /\ Decision(e)' = Decision(e)
       /\ \/ SameEffect(e)
          \/ Decision(e) = "granted" /\ e \notin performed /\ e \in performed'
    \/ /\ SameEffect(e) /\ Decision(e) = "open"
       /\ Decision(e)' \in {"granted", "failed-no-effect"}
    \/ /\ SameEffect(e) /\ Decision(e) = "granted"
       /\ Decision(e)' \in TerminalStatus
       /\ Decision(e)' \in {"committed", "result-unavailable"} => e \in performed
       /\ Decision(e)' = "failed-no-effect" => e \notin performed

LEMMA StepDecides ==
    ASSUME RuntimeInv, RuntimeInv', NEW e \in Executions, Step(e), Issued(e)'
    PROVE  Decides(e)
<1>1. StepOfTickets
    BY StepInv, NextTickets DEF StepKeeps, RuntimeInv
<1>2. CASE EffectHappens(e)
  <2>1. /\ pc[e] = "executing" /\ UNCHANGED kernelVars /\ e \notin performed
        /\ e \in performed'
    BY <1>2 DEF EffectHappens
  <2>2. Issued(e) /\ statusOf(e) = "commit-permit"
    BY <2>1, WithTicket DEF ExecutionInv, StageOf, BeforeTicket
  <2>3. Issued(e)' /\ statusOf(e)' = "commit-permit"
    BY <2>1, <2>2 DEF kernelVars, Issued, statusOf
  <2> QED
    BY <2>1, <2>2, <2>3 DEF Decides, Decision, Decided
<1>3. CASE performed' = performed
  <2>1. SameEffect(e)
    BY <1>3 DEF SameEffect
  <2>2. CASE ~Issued(e)
    <3>1. statusOf(e)' = "registered"
      BY <1>1, <2>2 DEF StepOfTickets, Issued, statusOf
    <3> QED
      BY <2>1, <2>2, <3>1 DEF Decides, Decision, Decided
  <2>3. CASE Issued(e)
    <3>1. TicketStep(ticketIdOf(e)) /\ tickets[ticketIdOf(e)] \in TicketRecord
      BY <1>1, <2>3, IssuedTicket DEF StepOfTickets, Issued
    <3>2. /\ e \in performed => hasCrossedCommitPermit(e)'
          /\ statusOf(e)' \in {"committed", "result-unavailable"} => e \in performed
      BY <1>3 DEF RuntimeInv, ExecutionInv, StatusIsTruthful
    <3>3. CASE tickets'[ticketIdOf(e)] = tickets[ticketIdOf(e)]
      BY <2>1, <2>3, <3>3 DEF Decides, Decision, statusOf
    <3>4. ASSUME NEW s \in TerminalStatus, Moved(ticketIdOf(e), s)
          PROVE  Decides(e)
      <4>1. /\ statusOf(e) \in {"registered", "commit-permit"} /\ statusOf(e)' = s
            /\ statusOf(e) = "registered" => s = "failed-no-effect"
        BY <3>1, <3>4 DEF Moved, statusOf, TicketRecord
      <4>2. Decision(e)' = s
        BY <4>1 DEF Decision, Decided, TerminalStatus
      <4>3. s = "failed-no-effect" => e \notin performed
        BY <3>2, <4>1 DEF hasCrossedCommitPermit
      <4>4. CASE statusOf(e) = "registered"
        BY <2>1, <2>3, <4>1, <4>2, <4>4 DEF Decides, Decision, Decided
      <4>5. CASE statusOf(e) = "commit-permit"
        <5>1. Decision(e) = "granted"
          BY <2>3, <4>5 DEF Decision, Decided
        <5> QED
          BY <2>1, <3>2, <4>1, <4>2, <4>3, <5>1 DEF Decides
      <4> QED
        BY <4>1, <4>4, <4>5
    <3>5. ASSUME NEW now \in Time, Permitted(ticketIdOf(e), now)
          PROVE  Decides(e)
      <4>1. statusOf(e) = "registered" /\ statusOf(e)' = "commit-permit"
        BY <3>1, <3>5 DEF Permitted, statusOf, TicketRecord
      <4> QED
        BY <2>1, <2>3, <4>1 DEF Decides, Decision, Decided
    <3> QED
      BY <3>1, <3>3, <3>4, <3>5 DEF TicketStep
  <2> QED
    BY <2>2, <2>3
<1> QED
    BY <1>2, <1>3, OnlyEffectPerforms

\* The abstract variables of EffectOnce.
AuthorityMap == [r \in Requests |-> AbstractAuthority(r)]
DoneMap == [r \in Requests |-> DoneOf(r)]

\* A step of e moves at most the request of e, and in one of the ways Decides
\* allows.
LEMMA StepMaps ==
    ASSUME RuntimeInv, RuntimeInv', OwnersDecide', IssuedOwns', NEW e \in Executions, Step(e)
    PROVE  \/ UNCHANGED <<AuthorityMap, DoneMap>>
           \/ /\ Decides(e)
              /\ AuthorityMap[RequestOf[e]] = Decision(e)
              /\ DoneMap[RequestOf[e]] = Occurrences(e)
              /\ AuthorityMap' = [AuthorityMap EXCEPT ![RequestOf[e]] = Decision(e)']
              /\ DoneMap' = [DoneMap EXCEPT ![RequestOf[e]] = Occurrences(e)']
<1>1. [Next]_kernelVars /\ \A f \in Executions \ {e} : Untouched(f)
    BY StepInv DEF StepKeeps
<1>2. ASSUME NEW f \in Executions \ {e}
      PROVE  Decision(f)' = Decision(f) /\ Occurrences(f)' = Occurrences(f)
    BY <1>1 DEF Untouched, SameRecords, SameTicket, SameEffect, Decision, Occurrences, statusOf
<1>3. ASSUME NEW f \in Executions, Owns(f), Owns(f)'
      PROVE  /\ AbstractAuthority(RequestOf[f]) = Decision(f) /\ DoneOf(RequestOf[f]) = Occurrences(f)
             /\ AbstractAuthority(RequestOf[f])' = Decision(f)'
             /\ DoneOf(RequestOf[f])' = Occurrences(f)'
    BY <1>3, OwnersDecideAlways DEF OwnersDecide
<1>4. ASSUME NEW r \in Requests,
             \A f \in Executions : RequestOf[f] = r /\ Owns(f) /\ Owns(f)' => f # e
      PROVE  AbstractAuthority(r)' = AbstractAuthority(r) /\ DoneOf(r)' = DoneOf(r)
  <2>1. PICK f \in Executions : RequestOf[f] = r /\ Owns(f) /\ Owns(f)'
    BY <1>1, OwnerOfRequest
  <2> QED
    BY <1>2, <1>3, <1>4, <2>1
<1>5. CASE Issued(e)'
  <2>1. Decides(e)
    BY <1>5, StepDecides
  <2>2. Owns(e)' /\ Owns(e)
    <3>1. Owns(e)'
      BY <1>5 DEF IssuedOwns
    <3> QED
      BY <1>1, <3>1, NextKeepsTickets DEF RuntimeInv, Owns, KeepsTickets, Issued
  <2>3. RequestOf[e] \in Requests
    BY DEF Requests
  <2>4. \A r \in Requests \ {RequestOf[e]} :
           AbstractAuthority(r)' = AbstractAuthority(r) /\ DoneOf(r)' = DoneOf(r)
    BY <1>4
  <2>5. /\ AuthorityMap' = [AuthorityMap EXCEPT ![RequestOf[e]] = Decision(e)']
        /\ DoneMap' = [DoneMap EXCEPT ![RequestOf[e]] = Occurrences(e)']
    BY <1>3, <2>2, <2>3, <2>4 DEF AuthorityMap, DoneMap
  <2>6. AuthorityMap[RequestOf[e]] = Decision(e) /\ DoneMap[RequestOf[e]] = Occurrences(e)
    BY <1>3, <2>2, <2>3 DEF AuthorityMap, DoneMap
  <2> QED
    BY <2>1, <2>5, <2>6
<1>6. CASE ~Issued(e)'
  <2>1. ~Issued(e) /\ e \notin performed /\ e \notin performed'
    <3>1. ~Issued(e)
      BY <1>1, <1>6, NextKeepsTickets DEF RuntimeInv, KeepsTickets, Issued
    <3>2. pc[e] \in BeforeTicket /\ pc'[e] \in BeforeTicket
      BY <1>6, <3>1 DEF RuntimeInv, ExecutionInv, GuardianKnows
    <3> QED
      BY <3>1, <3>2 DEF RuntimeInv, ExecutionInv, StageOf, NoEffectYet
  <2>2. \A f \in Executions :
           Decision(f)' = Decision(f) /\ Occurrences(f)' = Occurrences(f)
    BY <1>2, <1>6, <2>1 DEF Decision, Occurrences
  <2>3. \A r \in Requests :
           AbstractAuthority(r)' = AbstractAuthority(r) /\ DoneOf(r)' = DoneOf(r)
    BY <1>1, <1>3, <2>2, OwnerOfRequest
  <2> QED
    BY <2>3 DEF AuthorityMap, DoneMap
<1> QED
    BY <1>5, <1>6

\* An operator refuses the requests whose tickets it fails, all in one step.
LEMMA OperatorRefuses ==
    ASSUME RuntimeInv, RuntimeInv', OwnersDecide', IssuedOwns', Operator
    PROVE  /\ DoneMap' = DoneMap
           /\ \A r \in Requests :
                 \/ AuthorityMap'[r] = AuthorityMap[r]
                 \/ AuthorityMap[r] = "open" /\ AuthorityMap'[r] = "failed-no-effect"
<1>1. Next /\ \A e \in Executions : OperatorMoved(e)
    BY OperatorTickets
<1>2. performed' = performed
    BY DEF Operator, runtimeVars, resultVars
<1>3. ASSUME NEW e \in Executions
      PROVE  \/ Decision(e)' = Decision(e)
             \/ Decision(e) = "open" /\ Decision(e)' = "failed-no-effect"
    BY <1>1 DEF OperatorMoved, Decision, Decided, statusOf
<1>4. ASSUME NEW r \in Requests
      PROVE  \/ AbstractAuthority(r)' = AbstractAuthority(r)
             \/ AbstractAuthority(r) = "open" /\ AbstractAuthority(r)' = "failed-no-effect"
  <2>1. PICK e \in Executions : RequestOf[e] = r /\ Owns(e) /\ Owns(e)'
    BY <1>1, OwnerOfRequest
  <2>2. AbstractAuthority(r) = Decision(e) /\ AbstractAuthority(r)' = Decision(e)'
    BY <2>1, OwnersDecideAlways DEF OwnersDecide
  <2> QED
    BY <1>3, <2>2
<1> QED
    BY <1>2, <1>4 DEF AuthorityMap, DoneMap, DoneOf

\* Seen per request, concurrent executions, lost answers and revocations are
\* the one-shot promise: an effect happens at most once and only under granted
\* authority, and what is claimed of it is true.
THEOREM RuntimeOneShotPromise == RuntimeSpec => KeepsOneShotPromise
<1>1. RuntimeInit => Abstract!EffectInit
  <2> SUFFICES ASSUME RuntimeInit PROVE Abstract!EffectInit
    OBVIOUS
  <2>1. \A r \in Requests : AbstractAuthority(r) = "open"
    BY DEF RuntimeInit, Init, AbstractAuthority, Issued
  <2>2. \A r \in Requests : Cardinality({e \in performed : RequestOf[e] = r}) = 0
    BY FS_EmptySet DEF RuntimeInit
  <2> QED
    BY <2>1, <2>2 DEF Abstract!EffectInit
<1>2. ASSUME RuntimeInv, RuntimeInv', OwnersDecide', IssuedOwns', [RuntimeNext]_vars
      PROVE  [Abstract!EffectNext]_(Abstract!effectVars)
  <2>1. CASE UNCHANGED <<AuthorityMap, DoneMap>>
    BY <2>1 DEF AuthorityMap, DoneMap, DoneOf, Abstract!effectVars
  <2>2. CASE UNCHANGED vars \/ Tick
    <3>1. UNCHANGED <<tickets, performed>>
      BY <2>2 DEF vars, runtimeVars, kernelVars, resultVars, Tick
    <3>2. UNCHANGED <<AuthorityMap, DoneMap>>
      BY <3>1 DEF AuthorityMap, DoneMap, DoneOf, AbstractAuthority, Issued, statusOf
    <3> QED
      BY <2>1, <3>2
  <2>3. CASE Operator
    <3> DEFINE rs == {r \in Requests : AuthorityMap'[r] # AuthorityMap[r]}
    <3>1. /\ DoneMap' = DoneMap
          /\ \A r \in Requests :
                \/ AuthorityMap'[r] = AuthorityMap[r]
                \/ AuthorityMap[r] = "open" /\ AuthorityMap'[r] = "failed-no-effect"
      BY <1>2, <2>3, OperatorRefuses
    <3>2. AuthorityMap' = [r \in Requests |-> IF r \in rs THEN "failed-no-effect"
                                              ELSE AuthorityMap[r]]
      BY <3>1 DEF AuthorityMap
    <3>3. \A r \in rs : AuthorityMap[r] = "open"
      BY <3>1
    <3>4. Abstract!Refuse(rs)
      BY <3>1, <3>2, <3>3 DEF Abstract!Refuse, AuthorityMap, DoneMap, DoneOf
    <3> QED
      BY <3>4 DEF Abstract!EffectNext
  <2>4. ASSUME NEW e \in Executions, Decides(e),
               AuthorityMap[RequestOf[e]] = Decision(e),
               DoneMap[RequestOf[e]] = Occurrences(e),
               AuthorityMap' = [AuthorityMap EXCEPT ![RequestOf[e]] = Decision(e)'],
               DoneMap' = [DoneMap EXCEPT ![RequestOf[e]] = Occurrences(e)']
        PROVE  [Abstract!EffectNext]_(Abstract!effectVars)
    <3>1. PICK r \in Requests : r = RequestOf[e]
      BY DEF Requests
    <3>2. SameEffect(e) => DoneMap' = DoneMap
      BY <2>4 DEF SameEffect, Occurrences, DoneMap
    <3>3. Decision(e)' = Decision(e) => AuthorityMap' = AuthorityMap
      BY <2>4 DEF AuthorityMap
    <3>4. CASE Decision(e)' = Decision(e) /\ SameEffect(e)
      BY <2>1, <3>2, <3>3, <3>4
    <3>5. CASE /\ Decision(e)' = Decision(e) /\ Decision(e) = "granted"
               /\ e \notin performed /\ e \in performed'
      <4>1. DoneMap[r] = 0 /\ DoneMap' = [DoneMap EXCEPT ![r] = 1]
        BY <2>4, <3>1, <3>5 DEF Occurrences
      <4>2. Abstract!Perform(r)
        BY <2>4, <3>1, <3>3, <3>5, <4>1 DEF Abstract!Perform, AuthorityMap, DoneMap, DoneOf
      <4> QED
        BY <4>2 DEF Abstract!EffectNext
    <3>6. CASE SameEffect(e) /\ Decision(e) = "open" /\ Decision(e)' = "granted"
      <4>1. Abstract!Grant(r)
        BY <2>4, <3>1, <3>2, <3>6 DEF Abstract!Grant, AuthorityMap, DoneMap, DoneOf
      <4> QED
        BY <4>1 DEF Abstract!EffectNext
    <3>7. CASE SameEffect(e) /\ Decision(e) = "open" /\ Decision(e)' = "failed-no-effect"
      <4>1. AuthorityMap' = [u \in Requests |-> IF u \in {r} THEN "failed-no-effect"
                                                ELSE AuthorityMap[u]]
        BY <2>4, <3>1, <3>7 DEF AuthorityMap
      <4>2. Abstract!Refuse({r})
        BY <2>4, <3>1, <3>2, <3>7, <4>1 DEF Abstract!Refuse, AuthorityMap, DoneMap, DoneOf
      <4> QED
        BY <4>2 DEF Abstract!EffectNext
    <3>8. ASSUME SameEffect(e), Decision(e) = "granted",
                 NEW d \in TerminalStatus, Decision(e)' = d,
                 d \in {"committed", "result-unavailable"} => e \in performed,
                 d = "failed-no-effect" => e \notin performed
          PROVE  Abstract!EffectNext
      <4>1. /\ d \in {"committed", "result-unavailable"} => DoneMap[r] = 1
            /\ d = "failed-no-effect" => DoneMap[r] = 0
        BY <2>4, <3>1, <3>8 DEF Occurrences
      <4>2. Abstract!Close(r, d)
        BY <2>4, <3>1, <3>2, <3>8, <4>1
           DEF Abstract!Close, Abstract!Claims, AuthorityMap, DoneMap, DoneOf
      <4> QED
        BY <4>2 DEF Abstract!EffectNext, Abstract!Claims, TerminalStatus
    <3> QED
      BY <2>4, <3>4, <3>5, <3>6, <3>7, <3>8 DEF Decides
  <2>5. ASSUME NEW e \in Executions, Step(e)
        PROVE  [Abstract!EffectNext]_(Abstract!effectVars)
    BY <1>2, <2>1, <2>4, <2>5, StepMaps
  <2> QED
    BY <1>2, <2>2, <2>3, <2>5 DEF RuntimeNext
<1>3. RuntimeInv /\ RuntimeInv' /\ OwnersDecide' /\ IssuedOwns' /\ [RuntimeNext]_vars
        => [Abstract!EffectNext]_(Abstract!effectVars)
    BY <1>2
<1> QED
    BY <1>1, <1>3, OwnersDecideAlways, IssuedOwnsAlways, RuntimeInvariant, PTL
       DEF RuntimeSpec, KeepsOneShotPromise, Abstract!EffectSpec
=============================================================================
