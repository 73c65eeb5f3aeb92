------------------------- MODULE EffectLedgerProofs -------------------------
(***************************************************************************)
(* Proofs about EffectLedger, for every number of executors, recoverers,   *)
(* deliverers, tickets and crashes, every clock, every assignment of       *)
(* replay identities and every combination of the faults.                  *)
(***************************************************************************)
EXTENDS EffectLedger, TLAPS

-----------------------------------------------------------------------------
\* Lemmas about records and mutations.

\* The record that createPrepared builds is valid.
LEMMA PreparedIsValid ==
    ASSUME NEW now \in Time
    PROVE  LET n == preparedRecord(now) IN
           /\ n \in Records /\ ValidRecord(n) /\ n.revision = 1 /\ n.state = "PREPARED"
           /\ ~n.consumed /\ ~n.observed /\ n.evidence = "RESERVED" /\ n.updatedAt = now
    BY DEF preparedRecord, Records, Terminal, PostPermit, ValidRecord, ValidShape,
       ReachableRevision

\* What recordCommitPermit writes.
LEMMA PermittedFields ==
    ASSUME NEW r \in Records, NEW now \in Time, r.revision < 4, NEW n, n = permittedRecord(r, now)
    PROVE  /\ n \in Records /\ n.revision = r.revision + 1 /\ n.state = "COMMIT_PERMIT"
           /\ n.consumed /\ n.observed = r.observed /\ n.result = r.result
           /\ n.evidence = r.evidence /\ n.updatedAt = now
<1>1. r.revision + 1 \in 1..4
    BY DEF Records
<1> QED
    BY <1>1 DEF permittedRecord, Records

\* What a close writes.
LEMMA ClosedFields ==
    ASSUME NEW r \in Records, NEW now \in Time, NEW a \in Attestations, r.revision < 4,
           NEW n, n = closedRecord(r, a, now)
    PROVE  /\ n \in Records /\ n.revision = r.revision + 1 /\ n.state = a.status
           /\ n.consumed = r.consumed /\ n.observed = a.observed /\ n.result = a.result
           /\ n.evidence = "PENDING" /\ n.updatedAt = now
<1>1. r.revision + 1 \in 1..4
    BY DEF Records
<1> QED
    BY <1>1 DEF closedRecord, Records, Attestations

\* What markEvidenceAdmitted writes.
LEMMA AdmittedFields ==
    ASSUME NEW r \in Records, NEW now \in Time, r.revision < 4, NEW n, n = admittedRecord(r, now)
    PROVE  /\ n \in Records /\ n.revision = r.revision + 1 /\ n.state = r.state
           /\ n.consumed = r.consumed /\ n.observed = r.observed /\ n.result = r.result
           /\ n.evidence = "ADMITTED" /\ n.updatedAt = now
<1>1. r.revision + 1 \in 1..4
    BY DEF Records
<1> QED
    BY <1>1 DEF admittedRecord, Records

\* A valid record that is open or has its evidence pending is not the last one.
LEMMA RoomForSuccessor ==
    ASSUME NEW r \in Records, ValidRecord(r),
           r.state \notin Terminal \/ r.evidence = "PENDING"
    PROVE  /\ r.revision < 4
           /\ r.state = "PREPARED" => r.revision = 1 /\ ~r.consumed
           /\ r.state = "COMMIT_PERMIT" => r.revision = 2 /\ r.consumed
    BY DEF Records, ValidRecord, ValidShape, ReachableRevision, Terminal, PostPermit

\* What an operation builds on a valid record is a valid record, which the
\* store's own check accepts as the successor.
LEMMA BuiltIsValid ==
    ASSUME NEW m \in Mutations, NEW r \in Records, ValidRecord(r), BuiltOn(m, r)
    PROVE  /\ ValidRecord(m.next) /\ Successor(r, m.next)
           /\ m.next.revision = r.revision + 1
           /\ m.next.consumed <=> r.consumed \/ m.kind = "permit"
           /\ m.kind = "permit" => ~r.consumed /\ r.state = "PREPARED"
                                   /\ m.next.state = "COMMIT_PERMIT" /\ m.next.revision = 2
           /\ m.kind = "admit" <=> r.state \in Terminal
           /\ m.kind = "admit" <=> m.next.evidence = "ADMITTED"
           /\ m.kind = "admit" => /\ m.next = admittedRecord(r, m.next.updatedAt)
                                  /\ r.evidence = "PENDING" /\ m.next.state = r.state
                                  /\ Attestation(m.next) = Attestation(r)
           /\ m.kind # "prepare"
<1> DEFINE n == m.next
           now == n.updatedAt
<1>0. /\ r.updatedAt <= now /\ r.revision \in Nat /\ now \in Time /\ n \in Records
      /\ r.consumed \in BOOLEAN /\ r.observed \in BOOLEAN /\ r.result \in BOOLEAN
    BY DEF BuiltOn, Records, Mutations
<1>00. ValidShape(r) /\ r.revision = ReachableRevision(r)
    BY DEF ValidRecord
<1>1. CASE m.kind = "permit" /\ r.state = "PREPARED" /\ n = permittedRecord(r, now)
  <2>1. r.revision = 1 /\ ~r.consumed /\ ~r.observed /\ ~r.result /\ r.evidence = "RESERVED"
    BY <1>1, <1>00, <1>0 DEF ValidShape, ReachableRevision, Terminal, PostPermit, Records
  <2>2. /\ n.revision = 2 /\ n.state = "COMMIT_PERMIT" /\ n.consumed
        /\ n.observed = r.observed /\ n.result = r.result /\ n.evidence = r.evidence
    <3>1. r.revision < 4 /\ r.revision + 1 = 2
      BY <2>1
    <3>2. n = permittedRecord(r, now)
      BY <1>1
    <3>3. /\ n.revision = r.revision + 1 /\ n.state = "COMMIT_PERMIT" /\ n.consumed
          /\ n.observed = r.observed /\ n.result = r.result /\ n.evidence = r.evidence
      BY <1>0, <3>1, <3>2, PermittedFields
    <3> QED
      BY <3>1, <3>3
  <2> HIDE DEF n, now
  <2> QED
    BY <1>0, <1>1, <2>1, <2>2 DEF n, now, ValidRecord, ValidShape, ReachableRevision, Successor,
       Terminal, PostPermit
<1>2. ASSUME m.kind = "close", NEW a \in Attestations, AttestationAllowed(a),
             n = closedRecord(r, a, now),
             \/ r.state = "PREPARED" /\ a.status = "FAILED_PRE_EFFECT"
             \/ r.state = "COMMIT_PERMIT" /\ a.status \in PostPermit
      PROVE  /\ ValidRecord(n) /\ Successor(r, n) /\ n.revision = r.revision + 1
             /\ n.consumed = r.consumed
             /\ r.state \notin Terminal /\ n.evidence # "ADMITTED"
  <2>1. /\ r.state \notin Terminal /\ r.revision < 4
        /\ r.state = "PREPARED" => r.revision = 1 /\ ~r.consumed
        /\ r.state = "COMMIT_PERMIT" => r.revision = 2 /\ r.consumed
    BY <1>2, RoomForSuccessor DEF Terminal, PostPermit
  <2>2. /\ n.revision = r.revision + 1 /\ n.state = a.status /\ n.consumed = r.consumed
        /\ n.observed = a.observed /\ n.result = a.result /\ n.evidence = "PENDING"
    BY <1>0, <1>2, <2>1, ClosedFields
  <2>3. Attestation(n) = a
    BY <2>2 DEF Attestation, Attestations
  <2>4. AttestationAllowed(Attestation(n))
    BY <1>2, <2>3
  <2> HIDE DEF n, now
  <2>5. ValidShape(n)
    BY <1>2, <2>1, <2>2, <2>4 DEF ValidShape, Terminal, PostPermit
  <2>6. n.revision = ReachableRevision(n)
    BY <1>2, <2>1, <2>2 DEF ReachableRevision, Terminal, PostPermit
  <2>7. Successor(r, n)
    BY <1>0, <1>2, <2>1, <2>2 DEF Successor, now
  <2> QED
    BY <2>1, <2>2, <2>5, <2>6, <2>7 DEF ValidRecord
<1>3. CASE m.kind = "admit" /\ r.state \in Terminal /\ r.evidence = "PENDING"
           /\ n = admittedRecord(r, now)
  <2>1. r.revision < 4
    BY <1>3, RoomForSuccessor
  <2>2. /\ n.revision = r.revision + 1 /\ n.state = r.state /\ n.consumed = r.consumed
        /\ n.observed = r.observed /\ n.result = r.result /\ n.evidence = "ADMITTED"
    BY <1>0, <1>3, <2>1, AdmittedFields
  <2>3. Attestation(n) = Attestation(r)
    BY <2>2 DEF Attestation
  <2>30. n = admittedRecord(r, now)
    BY <1>3
  <2> HIDE DEF n, now
  <2>4. ValidShape(n)
    BY <1>00, <1>3, <2>2, <2>3 DEF ValidShape
  <2>5. n.revision = ReachableRevision(n)
    BY <1>00, <1>3, <2>2 DEF ReachableRevision, Terminal, PostPermit
  <2>6. Successor(r, n)
    BY <1>0, <1>3, <2>2, <2>3 DEF Successor, now
  <2> QED
    BY <1>3, <2>2, <2>3, <2>30, <2>4, <2>5, <2>6 DEF ValidRecord, n, now
<1>4. CASE m.kind = "close" /\ \E a \in Attestations :
               /\ AttestationAllowed(a) /\ n = closedRecord(r, a, now)
               /\ \/ r.state = "PREPARED" /\ a.status = "FAILED_PRE_EFFECT"
                  \/ r.state = "COMMIT_PERMIT" /\ a.status \in PostPermit
  <2>1. /\ ValidRecord(n) /\ Successor(r, n) /\ n.revision = r.revision + 1
        /\ n.consumed = r.consumed
        /\ r.state \notin Terminal /\ n.evidence # "ADMITTED"
    BY <1>2, <1>4
  <2> QED
    BY <1>4, <2>1
<1> QED
    BY <1>1, <1>3, <1>4 DEF BuiltOn
-----------------------------------------------------------------------------
\* Preservation of the inductive invariant.

\* An empty ledger satisfies the invariant.
LEMMA InitInv == Init => LedgerInv
<1> SUFFICES ASSUME Init PROVE LedgerInv
    OBVIOUS
<1>1. LedgerTypeOK
    BY LedgerBoundAssumption DEF Init, LedgerTypeOK
<1>2. \A p \in All : OpConsistent(p)
    BY DEF Init, OpConsistent
<1>3. \A t \in Transactions : EffectConsistent(t)
    BY DEF Init, EffectConsistent, MayPerform
<1> QED
    BY <1>1, <1>2, <1>3 DEF Init, LedgerInv, IdentitiesDisjoint, AdmissionsAreBound

\* A process that does not move stays consistent while the ledger and the
\* effects stay as they are.
LEMMA UnmovedConsistent ==
    ASSUME LedgerInv, NEW q \in All, pc'[q] = pc[q], op'[q] = op[q],
           UNCHANGED <<store, inFlight, performed>>, receipts \subseteq receipts'
    PROVE  OpConsistent(q)'
    BY DEF LedgerInv, OpConsistent

\* A step that leaves the ledger and the effects alone keeps the invariant when
\* every process is consistent after it and no process gains a permit.
LEMMA QuietInv ==
    ASSUME LedgerInv, LedgerTypeOK',
           UNCHANGED <<store, inFlight, performed>>, receipts \subseteq receipts',
           \A p \in All : OpConsistent(p)',
           \A p \in All : pc'[p] = "permitted" => pc[p] = "permitted" /\ op'[p] = op[p]
    PROVE  LedgerInv'
<1>1. \A t \in DOMAIN store' : ValidRecord(store'[t])
    BY DEF LedgerInv
<1>2. ASSUME NEW t \in Transactions PROVE EffectConsistent(t)'
  <2>1. \A p \in All : MayPerform(p, t)' => MayPerform(p, t)
    BY DEF MayPerform
  <2> QED
    BY <2>1 DEF LedgerInv, EffectConsistent
<1>3. IdentitiesDisjoint' /\ AdmissionsAreBound'
    BY DEF LedgerInv, IdentitiesDisjoint, AdmissionsAreBound
<1> QED
    BY <1>1, <1>2, <1>3 DEF LedgerInv

\* A process that ends, or dies, leaves nothing in hand.
LEMMA FinishInv ==
    ASSUME LedgerInv, NEW p \in All, Finish(p), crashes' \in 0..MaxCrashes,
           usable' \in [All -> SUBSET Receipts],
           UNCHANGED <<store, receipts, revoked, inFlight, performed>>
    PROVE  LedgerInv'
<1>0. /\ pc'[p] = "idle" /\ op'[p] = NoOp
      /\ \A q \in All \ {p} : pc'[q] = pc[q] /\ op'[q] = op[q]
      /\ pc' = [pc EXCEPT ![p] = "idle"] /\ op' = [op EXCEPT ![p] = NoOp]
    BY DEF LedgerInv, LedgerTypeOK, Finish
<1>1. LedgerTypeOK'
    BY <1>0 DEF LedgerInv, LedgerTypeOK
<1>2. ASSUME NEW q \in All PROVE OpConsistent(q)'
  <2>1. CASE q = p
    BY <1>0, <2>1 DEF OpConsistent
  <2>2. CASE q # p
    BY <1>0, <2>2, UnmovedConsistent
  <2> QED
    BY <2>1, <2>2
<1>3. \A q \in All : pc'[q] = "permitted" => pc[q] = "permitted" /\ op'[q] = op[q]
    BY <1>0
<1> QED
    BY <1>1, <1>2, <1>3, QuietInv

\* An operation that has read its record builds a mutation on it.
LEMMA SubmitInv ==
    ASSUME LedgerInv, NEW p \in All, NEW m \in Mutations,
           pc' = [pc EXCEPT ![p] = "cas"], op' = [op EXCEPT ![p] = m],
           usable' \in [All -> SUBSET Receipts],
           UNCHANGED <<store, receipts, revoked, inFlight, performed, crashes>>,
           \/ m.kind = "prepare" /\ m.expected = 0 /\ m.next = preparedRecord(m.next.updatedAt)
           \/ /\ m.kind # "prepare" /\ m.expected > 0 /\ m.transaction \in DOMAIN store
              /\ m.expected = store[m.transaction].revision
              /\ BuiltOn(m, store[m.transaction]),
           m.kind = "close" => m.next.state \in Terminal,
           m.next.observed => performed[m.transaction] = 1,
           m.kind = "admit" => ReceiptFor(m.transaction, m.next) \in receipts
    PROVE  LedgerInv'
<1>0. /\ pc'[p] = "cas" /\ op'[p] = m
      /\ \A q \in All \ {p} : pc'[q] = pc[q] /\ op'[q] = op[q]
    BY DEF LedgerInv, LedgerTypeOK
<1>1. LedgerTypeOK'
    BY <1>0 DEF LedgerInv, LedgerTypeOK
<1>2. ASSUME NEW q \in All PROVE OpConsistent(q)'
  <2>1. CASE q = p
    <3>1. m.expected <= m.expected
      BY DEF Mutations
    <3> QED
      BY <1>0, <2>1, <3>1 DEF OpConsistent
  <2>2. CASE q # p
    BY <1>0, <2>2, UnmovedConsistent
  <2> QED
    BY <2>1, <2>2
<1>3. \A q \in All : pc'[q] = "permitted" => pc[q] = "permitted" /\ op'[q] = op[q]
    BY <1>0
<1> QED
    BY <1>1, <1>2, <1>3, QuietInv

\* Mutation m, of record t to n, is applied: what it does to its record.
Applied(m, t, n) ==
    /\ m \in Mutations /\ t \in Transactions /\ n \in Records /\ ValidRecord(n)
    /\ DOMAIN store' = DOMAIN store \cup {t} /\ store'[t] = n
    /\ \A u \in DOMAIN store \ {t} : store'[u] = store[u]
    /\ \/ /\ m.kind = "prepare" /\ t \notin DOMAIN store
          /\ n.state = "PREPARED" /\ ~n.consumed /\ ~n.observed
          /\ n.evidence = "RESERVED"
       \/ /\ m.kind # "prepare" /\ t \in DOMAIN store
          /\ store[t] \in Records /\ ValidRecord(store[t])
          /\ store[t].revision = m.expected /\ n.revision = m.expected + 1
          /\ BuiltOn(m, store[t])
          /\ n.consumed <=> store[t].consumed \/ m.kind = "permit"
          /\ m.kind = "permit" => ~store[t].consumed /\ n.revision = 2
          /\ m.kind = "admit" <=> n.evidence = "ADMITTED"

\* A mutation that the store admits was built on the record that it replaces.
LEMMA AdmittedMutation ==
    ASSUME LedgerInv, NEW p \in All, pc[p] = "cas", CasAdmits(op[p]), store' = Written(op[p])
    PROVE  Applied(op[p], op[p].transaction, op[p].next)
<1>0. PICK m, t, n : m = op[p] /\ t = m.transaction /\ n = m.next
    OBVIOUS
<1>1. m \in Mutations
    BY <1>0 DEF LedgerInv, LedgerTypeOK
<1>2. t \in Transactions /\ n \in Records /\ m.expected \in 0..3 /\ n.updatedAt \in Time
    BY <1>0, <1>1 DEF Mutations, Records
<1>3. /\ DOMAIN store' = DOMAIN store \cup {t} /\ store'[t] = n
      /\ \A u \in DOMAIN store \ {t} : store'[u] = store[u]
    BY <1>0 DEF Written
<1>4. OpConsistent(p) /\ RevisionMatches(m)
    BY <1>0 DEF LedgerInv, CasAdmits
<1>5. ASSUME m.kind = "prepare", m.expected = 0, n = preparedRecord(n.updatedAt)
      PROVE  Applied(m, t, n)
  <2>1. /\ ValidRecord(n) /\ n.state = "PREPARED" /\ ~n.consumed /\ ~n.observed
        /\ n.evidence = "RESERVED"
    BY <1>2, <1>5, PreparedIsValid
  <2>2. t \notin DOMAIN store
    BY <1>0, <1>4, <1>5 DEF RevisionMatches
  <2> QED
    BY <1>1, <1>2, <1>3, <1>5, <2>1, <2>2 DEF Applied
<1>6. ASSUME m.kind # "prepare", m.expected > 0,
             t \in DOMAIN store, m.expected <= store[t].revision,
             m.expected = store[t].revision => BuiltOn(m, store[t])
      PROVE  Applied(m, t, n)
  <2>1. store[t].revision = m.expected
    BY <1>0, <1>4, <1>6 DEF RevisionMatches
  <2>2. store[t] \in Records /\ ValidRecord(store[t])
    BY <1>6 DEF LedgerInv, LedgerTypeOK
  <2>3. BuiltOn(m, store[t])
    BY <1>6, <2>1
  <2>4. /\ ValidRecord(n) /\ n.revision = store[t].revision + 1
        /\ n.consumed <=> store[t].consumed \/ m.kind = "permit"
        /\ m.kind = "permit" => ~store[t].consumed /\ n.revision = 2
        /\ m.kind = "admit" <=> n.evidence = "ADMITTED"
    BY <1>0, <1>1, <2>2, <2>3, BuiltIsValid
  <2> QED
    BY <1>1, <1>2, <1>3, <1>6, <2>1, <2>2, <2>3, <2>4 DEF Applied
<1>7. \/ m.kind = "prepare" /\ m.expected = 0 /\ n = preparedRecord(n.updatedAt)
      \/ /\ m.kind # "prepare" /\ m.expected > 0
         /\ t \in DOMAIN store /\ m.expected <= store[t].revision
         /\ m.expected = store[t].revision => BuiltOn(m, store[t])
    BY <1>0, <1>4 DEF OpConsistent
<1>8. Applied(m, t, n)
    BY <1>5, <1>6, <1>7
<1> QED
    BY <1>0, <1>8

\* A mutation that the store applies keeps the invariant, whether its caller
\* learns of it (and goes on with the permit) or not.
LEMMA WriteInv ==
    ASSUME LedgerInv, NEW p \in All, pc[p] = "cas", CasAdmits(op[p]), store' = Written(op[p]),
           UNCHANGED <<usable, receipts, revoked, inFlight, performed, crashes>>,
           \/ Finish(p)
           \/ op[p].kind = "permit" /\ pc' = [pc EXCEPT ![p] = "permitted"] /\ op' = op
    PROVE  LedgerInv'
<1> USE DEF LedgerInv
<1>0. PICK m, t, n : m = op[p] /\ t = m.transaction /\ n = m.next
    OBVIOUS
<1>00. Applied(m, t, n)
    BY <1>0, AdmittedMutation
<1>1. /\ m \in Mutations /\ t \in Transactions /\ n \in Records /\ ValidRecord(n)
      /\ DOMAIN store' = DOMAIN store \cup {t} /\ store'[t] = n
      /\ \A u \in DOMAIN store \ {t} : store'[u] = store[u]
    BY <1>00 DEF Applied
<1>2. \/ /\ m.kind = "prepare" /\ t \notin DOMAIN store
         /\ n.state = "PREPARED" /\ ~n.consumed /\ ~n.observed
         /\ n.evidence = "RESERVED"
      \/ /\ m.kind # "prepare" /\ t \in DOMAIN store
         /\ store[t] \in Records /\ ValidRecord(store[t])
         /\ store[t].revision = m.expected /\ n.revision = m.expected + 1
         /\ BuiltOn(m, store[t])
         /\ n.consumed <=> store[t].consumed \/ m.kind = "permit"
         /\ m.kind = "permit" => ~store[t].consumed /\ n.revision = 2
         /\ m.kind = "admit" <=> n.evidence = "ADMITTED"
    BY <1>00 DEF Applied
<1>3. /\ \A q \in All \ {p} : pc'[q] = pc[q] /\ op'[q] = op[q]
      /\ \/ pc'[p] = "idle" /\ op'[p] = NoOp
         \/ m.kind = "permit" /\ pc'[p] = "permitted" /\ op'[p] = m
      /\ pc' \in [All -> {"idle", "cas", "permitted", "running", "decided"}]
      /\ op' \in [All -> Mutations \cup Decisions \cup {NoOp}]
    BY <1>0 DEF Finish, LedgerTypeOK
<1>4. LedgerTypeOK'
  <2>1. DOMAIN store' \subseteq Transactions /\ \A u \in DOMAIN store' : store'[u] \in Records
    BY <1>1 DEF LedgerTypeOK
  <2>2. ASSUME NEW q \in All
        PROVE  \/ pc'[q] = "idle" /\ op'[q] = NoOp
               \/ pc'[q] = "cas" /\ op'[q] \in Mutations
               \/ /\ pc'[q] \in {"permitted", "running"}
                  /\ op'[q] \in Mutations /\ op'[q].kind = "permit"
               \/ pc'[q] = "decided" /\ op'[q] \in Decisions
    BY <1>1, <1>3 DEF LedgerTypeOK
  <2> QED
    BY <1>3, <2>1, <2>2 DEF LedgerTypeOK
<1>5. \A u \in DOMAIN store' : ValidRecord(store'[u])
    BY <1>1
<1>6. ASSUME NEW u \in DOMAIN store, store[u].consumed
      PROVE  u \in DOMAIN store' /\ store'[u].consumed
    BY <1>1, <1>2, <1>6
<1>7. ASSUME NEW q \in All PROVE OpConsistent(q)'
  <2>1. CASE q = p
    <3>1. CASE pc'[p] = "idle"
      BY <2>1, <3>1 DEF OpConsistent
    <3>2. CASE m.kind = "permit" /\ pc'[p] = "permitted" /\ op'[p] = m
      <4>1. t \in DOMAIN store' /\ store'[t].consumed /\ n.revision = 2
        BY <1>1, <1>2, <3>2
      <4> QED
        BY <1>0, <2>1, <3>2, <4>1 DEF OpConsistent
    <3> QED
      BY <1>3, <3>1, <3>2
  <2>2. CASE q # p
    <3>0. PICK k, u : k = op[q] /\ u = k.transaction
      OBVIOUS
    <3>1. pc'[q] = pc[q] /\ op'[q] = k
      BY <1>3, <2>2, <3>0
    <3>2. OpConsistent(q)
      OBVIOUS
    <3>3. pc[q] = "cas" =>
             /\ \/ k.kind = "prepare" /\ k.expected = 0 /\ k.next = preparedRecord(k.next.updatedAt)
                \/ /\ k.kind # "prepare" /\ k.expected > 0
                   /\ u \in DOMAIN store' /\ k.expected <= store'[u].revision
                   /\ k.expected = store'[u].revision => BuiltOn(k, store'[u])
             /\ k.kind = "close" => k.next.state \in Terminal
             /\ k.next.observed => performed[u] = 1
             /\ k.kind = "admit" => ReceiptFor(u, k.next) \in receipts
      <4> SUFFICES ASSUME pc[q] = "cas"
                   PROVE  /\ \/ /\ k.kind = "prepare" /\ k.expected = 0
                                /\ k.next = preparedRecord(k.next.updatedAt)
                             \/ /\ k.kind # "prepare" /\ k.expected > 0
                                /\ u \in DOMAIN store' /\ k.expected <= store'[u].revision
                                /\ k.expected = store'[u].revision => BuiltOn(k, store'[u])
                          /\ k.kind = "close" => k.next.state \in Terminal
                          /\ k.next.observed => performed[u] = 1
                          /\ k.kind = "admit" => ReceiptFor(u, k.next) \in receipts
        OBVIOUS
      <4>1. /\ \/ k.kind = "prepare" /\ k.expected = 0 /\ k.next = preparedRecord(k.next.updatedAt)
               \/ /\ k.kind # "prepare" /\ k.expected > 0
                  /\ u \in DOMAIN store /\ k.expected <= store[u].revision
                  /\ k.expected = store[u].revision => BuiltOn(k, store[u])
            /\ k.kind = "close" => k.next.state \in Terminal
            /\ k.next.observed => performed[u] = 1
            /\ k.kind = "admit" => ReceiptFor(u, k.next) \in receipts
        BY <3>0, <3>2 DEF OpConsistent
      <4>2. k \in Mutations
        BY <3>0 DEF LedgerTypeOK
      <4>3. k.expected \in Nat /\ m.expected \in Nat
        BY <1>1, <4>2 DEF Mutations
      <4>4. CASE u = t
        BY <1>1, <1>2, <4>1, <4>3, <4>4
      <4>5. CASE u # t
        BY <1>1, <4>1, <4>5
      <4> QED
        BY <4>4, <4>5
    <3>4. pc[q] = "decided" =>
             /\ u \in DOMAIN store' /\ k.expected <= store'[u].revision
             /\ k.expected = store'[u].revision =>
                   store'[u].state \notin Terminal /\ k.target = recoveryTarget(store'[u].state)
      <4> SUFFICES ASSUME pc[q] = "decided"
                   PROVE  /\ u \in DOMAIN store' /\ k.expected <= store'[u].revision
                          /\ k.expected = store'[u].revision =>
                                /\ store'[u].state \notin Terminal
                                /\ k.target = recoveryTarget(store'[u].state)
        OBVIOUS
      <4>1. /\ u \in DOMAIN store /\ k.expected <= store[u].revision
            /\ k.expected = store[u].revision =>
                  store[u].state \notin Terminal /\ k.target = recoveryTarget(store[u].state)
        BY <3>0, <3>2 DEF OpConsistent
      <4>2. k \in Decisions
        BY <3>0 DEF LedgerTypeOK
      <4>3. k.expected \in Nat /\ m.expected \in Nat
        BY <1>1, <4>2 DEF Mutations, Decisions
      <4>4. CASE u = t
        BY <1>1, <1>2, <4>1, <4>3, <4>4
      <4>5. CASE u # t
        BY <1>1, <4>1, <4>5
      <4> QED
        BY <4>4, <4>5
    <3>5. pc[q] \in {"permitted", "running"} =>
             u \in DOMAIN store' /\ store'[u].consumed /\ k.next.revision = 2
      BY <1>6, <3>0, <3>2 DEF OpConsistent
    <3>6. pc[q] = "running" /\ <<q, u>> \notin inFlight => performed[u] = 1
      BY <3>0, <3>2 DEF OpConsistent
    <3> QED
      BY <3>0, <3>1, <3>3, <3>4, <3>5, <3>6 DEF OpConsistent
  <2> QED
    BY <2>1, <2>2
<1>8. ASSUME NEW u \in Transactions PROVE EffectConsistent(u)'
  <2>0. /\ EffectConsistent(u) /\ performed[u] \in Nat
    BY DEF LedgerTypeOK
  <2>1. u \in DOMAIN store' /\ store'[u].observed => performed[u] = 1
    <3>1. CASE u = t
      <4>1. OpConsistent(p)
        OBVIOUS
      <4>2. n.observed => performed[t] = 1
        BY <1>0, <4>1 DEF OpConsistent
      <4> QED
        BY <1>1, <3>1, <4>2
    <3>2. CASE u # t
      BY <1>1, <2>0, <3>2 DEF EffectConsistent
    <3> QED
      BY <3>1, <3>2
  <2>2. performed[u] = 1 => u \in DOMAIN store' /\ store'[u].consumed
    BY <1>6, <2>0 DEF EffectConsistent
  <2>3. CASE u = t /\ pc'[p] = "permitted"
    <3>1. m.kind = "permit" /\ t \in DOMAIN store /\ ~store[t].consumed /\ store'[t].consumed
          /\ op'[p] = m
      BY <1>1, <1>2, <1>3, <2>3
    <3>2. performed[u] = 0 /\ \A q \in All : ~MayPerform(q, u)
      BY <2>0, <2>3, <3>1 DEF EffectConsistent
    <3>3. \A q \in All : MayPerform(q, u)' => q = p
      BY <1>3, <3>2 DEF MayPerform
    <3>4. \A q \in All : <<q, u>> \notin inFlight
      BY <3>2 DEF MayPerform
    <3> QED
      BY <1>1, <2>1, <2>2, <2>3, <3>1, <3>2, <3>3, <3>4 DEF EffectConsistent
  <2>4. CASE ~(u = t /\ pc'[p] = "permitted")
    <3>1. \A q \in All : pc'[q] = "permitted" /\ op'[q].transaction = u =>
             pc[q] = "permitted" /\ op[q].transaction = u
      BY <1>0, <1>3, <2>4
    <3>2. \A q \in All : MayPerform(q, u)' => MayPerform(q, u)
      BY <3>1 DEF MayPerform
    <3> QED
      BY <1>6, <2>0, <2>1, <2>2, <3>1, <3>2 DEF EffectConsistent
  <2> QED
    BY <2>3, <2>4
<1>9. IdentitiesDisjoint'
    BY <1>0, <1>1 DEF IdentitiesDisjoint, CasAdmits, IdentitiesFree
<1>10. AdmissionsAreBound'
  <2> SUFFICES ASSUME NEW u \in DOMAIN store', store'[u].evidence = "ADMITTED"
               PROVE  ReceiptFor(u, store'[u]) \in receipts
    BY DEF AdmissionsAreBound, ReceiptFor
  <2>1. CASE u = t
    <3>1. m.kind = "admit"
      BY <1>1, <1>2, <2>1
    <3>2. OpConsistent(p)
      OBVIOUS
    <3>3. ReceiptFor(t, n) \in receipts
      BY <1>0, <3>1, <3>2 DEF OpConsistent
    <3> QED
      BY <1>1, <2>1, <3>3
  <2>2. CASE u # t
    BY <1>1, <2>2 DEF AdmissionsAreBound, ReceiptFor
  <2> QED
    BY <2>1, <2>2
<1> QED
    BY <1>4, <1>5, <1>7, <1>8, <1>9, <1>10

\* Starting the effect turns the permit in hand into an effect under way.
LEMMA StartEffectInv ==
    ASSUME LedgerInv, NEW p \in All, StartEffect(p)
    PROVE  LedgerInv'
<1> USE DEF LedgerInv
<1>0. PICK t : t = op[p].transaction
    OBVIOUS
<1>1. /\ pc[p] = "permitted" /\ inFlight' = inFlight \cup {<<p, t>>}
      /\ pc'[p] = "running" /\ \A q \in All \ {p} : pc'[q] = pc[q]
      /\ UNCHANGED <<store, op, usable, receipts, revoked, performed, crashes>>
    BY <1>0 DEF StartEffect, LedgerTypeOK
<1>2. op[p] \in Mutations /\ op[p].kind = "permit" /\ t \in Transactions
    BY <1>0, <1>1 DEF LedgerTypeOK, Mutations
<1>3. LedgerTypeOK'
  <2>1. /\ pc' \in [All -> {"idle", "cas", "permitted", "running", "decided"}]
        /\ inFlight' \subseteq All \X Transactions
    BY <1>1, <1>2 DEF LedgerTypeOK, StartEffect
  <2>2. ASSUME NEW q \in All
        PROVE  \/ pc'[q] = "idle" /\ op'[q] = NoOp
               \/ pc'[q] = "cas" /\ op'[q] \in Mutations
               \/ /\ pc'[q] \in {"permitted", "running"}
                  /\ op'[q] \in Mutations /\ op'[q].kind = "permit"
               \/ pc'[q] = "decided" /\ op'[q] \in Decisions
    BY <1>1, <1>2 DEF LedgerTypeOK
  <2> QED
    BY <1>1, <2>1, <2>2 DEF LedgerTypeOK
<1>4. ASSUME NEW q \in All PROVE OpConsistent(q)'
  <2>1. CASE q = p
    BY <1>0, <1>1, <2>1 DEF OpConsistent
  <2>2. CASE q # p
    BY <1>1, <2>2 DEF OpConsistent
  <2> QED
    BY <2>1, <2>2
<1>5. ASSUME NEW u \in Transactions PROVE EffectConsistent(u)'
  <2>1. \A q \in All : MayPerform(q, u)' => MayPerform(q, u)
    BY <1>0, <1>1 DEF MayPerform
  <2>2. \A q \in All : pc'[q] = "permitted" /\ op'[q].transaction = u => <<q, u>> \notin inFlight'
    BY <1>1 DEF EffectConsistent
  <2> QED
    BY <1>1, <2>1, <2>2 DEF EffectConsistent
<1>6. (\A u \in DOMAIN store : ValidRecord(store[u]))' /\ IdentitiesDisjoint' /\ AdmissionsAreBound'
    BY <1>1 DEF IdentitiesDisjoint, AdmissionsAreBound
<1> QED
    BY <1>3, <1>4, <1>5, <1>6

\* The effect takes place: it was the only one that could, and it is the first.
LEMMA EffectHappensInv ==
    ASSUME LedgerInv, NEW p \in All, NEW t \in Transactions, EffectHappens(p, t)
    PROVE  LedgerInv'
<1> USE DEF LedgerInv
<1>0. /\ <<p, t>> \in inFlight /\ inFlight' = inFlight \ {<<p, t>>}
      /\ performed' = [performed EXCEPT ![t] = @ + 1]
      /\ UNCHANGED <<store, pc, op, usable, receipts, revoked, crashes>>
    BY DEF EffectHappens
<1>1. /\ performed[t] = 0 /\ t \in DOMAIN store /\ store[t].consumed
      /\ MayPerform(p, t) /\ \A q \in All : MayPerform(q, t) => q = p
      /\ ~(pc[p] = "permitted" /\ op[p].transaction = t)
    BY <1>0 DEF EffectConsistent, MayPerform
<1>2. performed'[t] = 1 /\ \A u \in Transactions \ {t} : performed'[u] = performed[u]
    BY <1>0, <1>1 DEF LedgerTypeOK
<1>3. LedgerTypeOK'
    BY <1>0, <1>1, <1>2 DEF LedgerTypeOK
<1>4. ASSUME NEW q \in All PROVE OpConsistent(q)'
  <2>0. PICK k, u : k = op[q] /\ u = k.transaction
    OBVIOUS
  <2>1. pc[q] # "idle" => u \in Transactions
    BY <2>0 DEF LedgerTypeOK, Mutations, Decisions
  <2>2. pc[q] # "idle" /\ performed[u] = 1 => performed'[u] = 1
    BY <1>2, <2>1
  <2>3. pc[q] # "idle" /\ <<q, u>> \notin inFlight' /\ <<q, u>> \in inFlight => performed'[u] = 1
    BY <1>0, <1>2
  <2>4. OpConsistent(q)
    OBVIOUS
  <2> QED
    BY <1>0, <2>0, <2>2, <2>3, <2>4 DEF OpConsistent
<1>5. ASSUME NEW u \in Transactions PROVE EffectConsistent(u)'
  <2>1. CASE u = t
    <3>1. \A q \in All : ~MayPerform(q, t)'
      BY <1>0, <1>1 DEF MayPerform
    <3>2. \A q \in All : <<q, t>> \notin inFlight'
      BY <3>1 DEF MayPerform
    <3> QED
      BY <1>0, <1>1, <1>2, <2>1, <3>1, <3>2 DEF EffectConsistent
  <2>2. CASE u # t
    <3>1. \A q \in All : MayPerform(q, u)' => MayPerform(q, u)
      BY <1>0 DEF MayPerform
    <3>2. \A q \in All : <<q, u>> \notin inFlight => <<q, u>> \notin inFlight'
      BY <1>0
    <3>3. performed'[u] = performed[u]
      BY <1>2, <2>2
    <3> QED
      BY <1>0, <3>1, <3>2, <3>3 DEF EffectConsistent
  <2> QED
    BY <2>1, <2>2
<1>6. (\A u \in DOMAIN store : ValidRecord(store[u]))' /\ IdentitiesDisjoint' /\ AdmissionsAreBound'
    BY <1>0 DEF IdentitiesDisjoint, AdmissionsAreBound
<1> QED
    BY <1>3, <1>4, <1>5, <1>6

\* What the evidence service, and a process that verifies a receipt, do.
LEMMA EvidenceInv ==
    ASSUME LedgerInv, UNCHANGED <<store, pc, op, inFlight, performed, crashes>>,
           receipts \subseteq receipts', receipts' \subseteq Receipts, revoked' \subseteq receipts',
           usable' \in [All -> SUBSET Receipts]
    PROVE  LedgerInv'
<1>1. LedgerTypeOK'
    BY DEF LedgerInv, LedgerTypeOK
<1>2. \A q \in All : OpConsistent(q)'
    BY UnmovedConsistent
<1> QED
    BY <1>1, <1>2, QuietInv

-----------------------------------------------------------------------------
\* The operations.

\* What a process knows of the record that it has read.
LEMMA ReadRecord ==
    ASSUME LedgerInv, NEW t \in DOMAIN store
    PROVE  /\ t \in Transactions /\ store[t] \in Records /\ ValidRecord(store[t])
           /\ EffectConsistent(t)
           /\ store[t].state \notin Terminal => ~store[t].observed
    BY DEF LedgerInv, LedgerTypeOK, ValidRecord, ValidShape

\* createPrepared.
LEMMA PrepareInv ==
    ASSUME LedgerInv, NEW p \in All, NEW t \in Transactions, NEW now \in Time,
           createPrepared(p, t, now)
    PROVE  LedgerInv'
<1>1. PICK m : m = [kind |-> "prepare", transaction |-> t, expected |-> 0,
                    next |-> preparedRecord(now)]
    OBVIOUS
<1>2. /\ pc' = [pc EXCEPT ![p] = "cas"] /\ op' = [op EXCEPT ![p] = m]
      /\ UNCHANGED <<store, usable, receipts, revoked, inFlight, performed, crashes>>
    BY <1>1 DEF createPrepared, Submit, world
<1>3. m \in Mutations
    BY <1>1, PreparedIsValid DEF Mutations
<1>4. /\ m.kind = "prepare" /\ m.expected = 0 /\ m.next = preparedRecord(m.next.updatedAt)
      /\ ~m.next.observed
    BY <1>1, PreparedIsValid
<1>5. usable' \in [All -> SUBSET Receipts]
    BY <1>2 DEF LedgerInv, LedgerTypeOK
<1> QED
    BY <1>2, <1>3, <1>4, <1>5, SubmitInv

\* recordCommitPermit.
LEMMA PermitInv ==
    ASSUME LedgerInv, NEW p \in All, NEW t \in Transactions, NEW now \in Time,
           recordCommitPermit(p, t, now)
    PROVE  LedgerInv'
<1>0. PICK r : r = store[t]
    OBVIOUS
<1>1. /\ t \in DOMAIN store /\ r \in Records /\ ValidRecord(r) /\ r.state = "PREPARED"
      /\ r.updatedAt <= now /\ ~r.observed
    BY <1>0, ReadRecord DEF recordCommitPermit, Reads, Terminal, PostPermit
<1>2. r.revision = 1
    BY <1>1, RoomForSuccessor DEF Terminal, PostPermit
<1>3. PICK n : n = permittedRecord(r, now)
    OBVIOUS
<1>4. n \in Records /\ n.updatedAt = now /\ ~n.observed
  <2>1. n \in Records /\ n.updatedAt = now /\ n.observed = r.observed
    BY <1>1, <1>2, <1>3, PermittedFields
  <2> QED
    BY <1>1, <2>1
<1>5. PICK m : m = [kind |-> "permit", transaction |-> t, expected |-> r.revision, next |-> n]
    OBVIOUS
<1>6. /\ pc' = [pc EXCEPT ![p] = "cas"] /\ op' = [op EXCEPT ![p] = m]
      /\ UNCHANGED <<store, usable, receipts, revoked, inFlight, performed, crashes>>
    BY <1>0, <1>3, <1>5 DEF recordCommitPermit, Submit, world
<1>7. /\ m.kind = "permit" /\ m.transaction = t /\ m.expected = r.revision /\ m.next = n
      /\ m \in Mutations
    BY <1>2, <1>4, <1>5 DEF Mutations
<1>8. BuiltOn(m, r)
    BY <1>1, <1>3, <1>4, <1>7 DEF BuiltOn
<1>9. usable' \in [All -> SUBSET Receipts]
    BY <1>6 DEF LedgerInv, LedgerTypeOK
<1>10. /\ m.kind # "prepare" /\ m.expected > 0 /\ m.transaction \in DOMAIN store
       /\ m.expected = store[m.transaction].revision
       /\ BuiltOn(m, store[m.transaction])
       /\ m.kind # "admit" /\ (m.next.observed => performed[m.transaction] = 1)
    BY <1>0, <1>1, <1>2, <1>4, <1>7, <1>8
<1> QED
    BY <1>6, <1>7, <1>9, <1>10, SubmitInv

\* Every close, the executor's and recovery's: it attests what its record allows
\* and what it knows to be true.
LEMMA CloseInv ==
    ASSUME LedgerInv, NEW p \in All, NEW t \in DOMAIN store, NEW now \in Time,
           NEW a \in Attestations, AttestationAllowed(a), store[t].updatedAt <= now,
           \/ store[t].state = "PREPARED" /\ a.status = "FAILED_PRE_EFFECT"
           \/ store[t].state = "COMMIT_PERMIT" /\ a.status \in PostPermit,
           a.observed => performed[t] = 1,
           Submit(p, "close", t, store[t].revision, closedRecord(store[t], a, now)),
           UNCHANGED <<store, usable, world>>
    PROVE  LedgerInv'
<1>0. PICK r : r = store[t]
    OBVIOUS
<1>1. r \in Records /\ ValidRecord(r) /\ t \in Transactions
    BY <1>0, ReadRecord
<1>2. r.revision < 4 /\ r.revision \in 1..2
    BY <1>0, <1>1, RoomForSuccessor DEF Terminal, PostPermit
<1>3. PICK n : n = closedRecord(r, a, now)
    OBVIOUS
<1>4. n \in Records /\ n.updatedAt = now /\ n.observed = a.observed /\ n.state = a.status
    BY <1>1, <1>2, <1>3, ClosedFields
<1>5. PICK m : m = [kind |-> "close", transaction |-> t, expected |-> r.revision, next |-> n]
    OBVIOUS
<1>6. /\ pc' = [pc EXCEPT ![p] = "cas"] /\ op' = [op EXCEPT ![p] = m]
      /\ UNCHANGED <<store, usable, receipts, revoked, inFlight, performed, crashes>>
    BY <1>0, <1>3, <1>5 DEF Submit, world
<1>7. /\ m.kind = "close" /\ m.transaction = t /\ m.expected = r.revision /\ m.next = n
      /\ m \in Mutations
    BY <1>1, <1>2, <1>4, <1>5 DEF Mutations
<1>8. BuiltOn(m, r)
    BY <1>0, <1>1, <1>3, <1>4, <1>7 DEF BuiltOn
<1>9. usable' \in [All -> SUBSET Receipts]
    BY <1>6 DEF LedgerInv, LedgerTypeOK
<1>10. m.next.observed => performed[m.transaction] = 1
    BY <1>4, <1>7
<1>11. /\ m.kind # "prepare" /\ m.expected > 0 /\ m.transaction \in DOMAIN store
       /\ m.expected = store[m.transaction].revision
       /\ BuiltOn(m, store[m.transaction])
       /\ m.kind # "admit" /\ (m.next.observed => performed[m.transaction] = 1)
       /\ m.next.state \in Terminal
    BY <1>0, <1>2, <1>4, <1>7, <1>8, <1>10 DEF Attestations
<1> QED
    BY <1>6, <1>7, <1>9, <1>11, SubmitInv

\* closeFailedPreEffect.
LEMMA CloseFailedPreEffectInv ==
    ASSUME LedgerInv, NEW p \in All, NEW t \in Transactions, NEW now \in Time,
           closeFailedPreEffect(p, t, now)
    PROVE  LedgerInv'
<1>1. NoEffect \in Attestations /\ AttestationAllowed(NoEffect) /\ ~NoEffect.observed
      /\ NoEffect.status = "FAILED_PRE_EFFECT"
    BY DEF NoEffect, Attestations, AttestationAllowed, Terminal, PostPermit
<1>2. /\ t \in DOMAIN store /\ store[t].state = "PREPARED" /\ store[t].updatedAt <= now
      /\ Submit(p, "close", t, store[t].revision, closedRecord(store[t], NoEffect, now))
      /\ UNCHANGED <<store, usable, world>>
    BY DEF closeFailedPreEffect, Reads
<1> QED
    BY <1>1, <1>2, CloseInv

\* closeCommitted, closeResultUnavailable and closeUncertain.
LEMMA ExecutorCloseInv ==
    ASSUME LedgerInv, NEW p \in All, NEW a \in Attestations, NEW now \in Time, close(p, a, now)
    PROVE  LedgerInv'
<1>0. PICK t, expected : t = op[p].transaction /\ expected = op[p].next.revision
    OBVIOUS
<1>1. /\ pc[p] \in {"permitted", "running"} /\ a.status \in PostPermit /\ AttestationAllowed(a)
      /\ UNCHANGED <<store, usable, world>>
    BY DEF close
<1>2. t \in DOMAIN store /\ store[t].consumed /\ expected = 2
    BY <1>0, <1>1 DEF LedgerInv, OpConsistent
<1>3. CASE Reads(t, expected, now)
  <2>1. /\ store[t].revision = 2 /\ store[t].updatedAt <= now
        /\ store[t] \in Records /\ ValidRecord(store[t])
    BY <1>2, <1>3, ReadRecord DEF Reads
  <2>2. store[t].state = "COMMIT_PERMIT"
    BY <1>2, <2>1 DEF ValidRecord, ValidShape, ReachableRevision, Records, Terminal, PostPermit
  <2>3. a.observed => performed[t] = 1
    BY <1>0 DEF close, Truthful, LedgerInv, OpConsistent
  <2>4. Submit(p, "close", t, store[t].revision, closedRecord(store[t], a, now))
    BY <1>0, <1>2, <1>3, <2>1 DEF close
  <2> QED
    BY <1>1, <1>2, <2>1, <2>2, <2>3, <2>4, CloseInv
<1>4. CASE ~Reads(t, expected, now)
  <2>1. Finish(p)
    BY <1>0, <1>4 DEF close
  <2> QED
    BY <1>1, <2>1, FinishInv DEF LedgerInv, LedgerTypeOK, world
<1> QED
    BY <1>3, <1>4

\* Recovery acts on what it decided, at whatever time later.
LEMMA ActOnDecisionInv ==
    ASSUME LedgerInv, NEW p \in All, NEW now \in Time, actOnDecision(p, now)
    PROVE  LedgerInv'
<1>0. PICK t, a : /\ t = op[p].transaction
                  /\ a = [status |-> op[p].target, observed |-> FALSE, result |-> FALSE]
    OBVIOUS
<1>1. pc[p] = "decided" /\ UNCHANGED <<store, usable, world>>
    BY DEF actOnDecision
<1>2. op[p] \in Decisions
    BY <1>1 DEF LedgerInv, LedgerTypeOK
<1>3. a \in Attestations /\ ~a.observed /\ a.status = op[p].target /\ ~a.result
    BY <1>0, <1>2 DEF Decisions, Attestations
<1>4. CASE Reads(t, op[p].expected, now)
  <2>1. /\ t \in DOMAIN store /\ store[t].revision = op[p].expected /\ store[t].updatedAt <= now
    BY <1>4 DEF Reads
  <2>2. store[t].state \notin Terminal /\ a.status = recoveryTarget(store[t].state)
    BY <1>0, <1>1, <1>3, <2>1 DEF LedgerInv, OpConsistent
  <2>3. store[t].state \in {"PREPARED", "COMMIT_PERMIT"}
    BY <2>1, <2>2, ReadRecord DEF Records
  <2>4. /\ \/ store[t].state = "PREPARED" /\ a.status = "FAILED_PRE_EFFECT"
           \/ store[t].state = "COMMIT_PERMIT" /\ a.status \in PostPermit
        /\ AttestationAllowed(a)
    BY <1>3, <2>2, <2>3 DEF recoveryTarget, PostPermit, AttestationAllowed
  <2>5. Submit(p, "close", t, store[t].revision, closedRecord(store[t], a, now))
    BY <1>0, <1>4, <2>1 DEF actOnDecision
  <2> QED
    BY <1>1, <1>3, <2>1, <2>4, <2>5, CloseInv
<1>5. CASE ~Reads(t, op[p].expected, now)
  <2>1. Finish(p)
    BY <1>0, <1>5 DEF actOnDecision
  <2> QED
    BY <1>1, <2>1, FinishInv DEF LedgerInv, LedgerTypeOK, world
<1> QED
    BY <1>4, <1>5

\* markEvidenceAdmitted: what it submits names the receipt it used up.
LEMMA MarkAdmittedInv ==
    ASSUME LedgerInv, NEW p \in All, NEW receipt \in receipts, NEW t \in Transactions,
           markEvidenceAdmitted(p, receipt, t)
    PROVE  LedgerInv'
<1>0. PICK r : r = store[t]
    OBVIOUS
<1>1. /\ t \in DOMAIN store /\ r.state \in Terminal /\ r.evidence = "PENDING"
      /\ r \in Records /\ ValidRecord(r) /\ EffectConsistent(t)
      /\ UNCHANGED <<store, receipts, revoked, inFlight, performed, crashes>>
    BY <1>0, ReadRecord DEF markEvidenceAdmitted, world
<1>2. usable' \in [All -> SUBSET Receipts]
    BY DEF markEvidenceAdmitted, LedgerInv, LedgerTypeOK
<1>3. receipt \in Receipts
    BY DEF LedgerInv, LedgerTypeOK
<1>4. CASE receipt \notin revoked /\ ReceiptBinds(receipt, t, r)
  <2>1. PICK now, n : now = receipt.admittedAt /\ n = admittedRecord(r, now)
    OBVIOUS
  <2>2. /\ now \in Time /\ r.updatedAt <= now
        /\ receipt.transaction = t /\ receipt.attestation = Attestation(r)
    BY <1>3, <1>4, <2>1 DEF ReceiptBinds, Receipts
  <2>3. r.revision < 4 /\ r.revision \in 1..4
    BY <1>1, RoomForSuccessor DEF Records
  <2>4. /\ n \in Records /\ n.updatedAt = now /\ n.state = r.state
        /\ n.observed = r.observed /\ n.result = r.result
    BY <1>1, <2>1, <2>2, <2>3, AdmittedFields
  <2>5. PICK m : m = [kind |-> "admit", transaction |-> t, expected |-> r.revision, next |-> n]
    OBVIOUS
  <2>6. pc' = [pc EXCEPT ![p] = "cas"] /\ op' = [op EXCEPT ![p] = m]
    BY <1>0, <1>4, <2>1, <2>5 DEF markEvidenceAdmitted, Submit
  <2>7. /\ m.kind = "admit" /\ m.transaction = t /\ m.expected = r.revision /\ m.next = n
        /\ m \in Mutations
    BY <2>3, <2>4, <2>5 DEF Mutations
  <2>8. BuiltOn(m, r)
    BY <1>1, <2>1, <2>2, <2>4, <2>7 DEF BuiltOn
  <2>9. ReceiptFor(t, n) = receipt
    BY <1>3, <2>1, <2>2, <2>4 DEF ReceiptFor, Attestation, Receipts
  <2>10. r.observed => performed[t] = 1
    BY <1>0, <1>1 DEF EffectConsistent
  <2>11. /\ m.kind # "prepare" /\ m.expected > 0 /\ m.transaction \in DOMAIN store
         /\ m.expected = store[m.transaction].revision
         /\ BuiltOn(m, store[m.transaction])
         /\ m.next.observed => performed[m.transaction] = 1
         /\ ReceiptFor(m.transaction, m.next) \in receipts
    BY <1>0, <1>1, <2>3, <2>4, <2>7, <2>8, <2>9, <2>10
  <2> QED
    BY <1>1, <1>2, <2>6, <2>7, <2>11, SubmitInv
<1>5. CASE ~(receipt \notin revoked /\ ReceiptBinds(receipt, t, r))
  <2>1. UNCHANGED <<pc, op>>
    BY <1>0, <1>5 DEF markEvidenceAdmitted
  <2>2. receipts' \subseteq Receipts /\ revoked' \subseteq receipts'
    BY <1>1 DEF LedgerInv, LedgerTypeOK
  <2> QED
    BY <1>1, <1>2, <2>1, <2>2, EvidenceInv
<1> QED
    BY <1>4, <1>5

\* The evidence service only ever adds receipts.
LEMMA ServiceInv ==
    ASSUME LedgerInv, NEW t \in Transactions, NEW at \in Time, AdmitEvidence(t, at)
    PROVE  LedgerInv'
<1>1. Presented(t) \subseteq Attestations
  <2>1. ASSUME NEW u \in DOMAIN store, store[u].state \in Terminal
        PROVE  Attestation(store[u]) \in Attestations
    BY <2>1, ReadRecord DEF Attestation, Attestations, Records
  <2>2. ASSUME NEW p \in All, pc[p] = "cas", op[p].kind = "close"
        PROVE  Attestation(op[p].next) \in Attestations
    <3>1. op[p] \in Mutations /\ OpConsistent(p)
      BY <2>2 DEF LedgerInv, LedgerTypeOK
    <3>2. op[p].next \in Records
      BY <3>1 DEF Mutations
    <3>3. op[p].next.state \in Terminal
      BY <2>2, <3>1 DEF OpConsistent
    <3> QED
      BY <3>2, <3>3 DEF Attestation, Attestations, Records
  <2> QED
    BY <2>1, <2>2 DEF Presented
<1>2. /\ receipts \subseteq receipts' /\ receipts' \subseteq Receipts
      /\ UNCHANGED <<store, pc, op, usable, revoked, inFlight, performed, crashes>>
    BY <1>1 DEF AdmitEvidence, Receipts, LedgerInv, LedgerTypeOK
<1> QED
    BY <1>2, EvidenceInv DEF LedgerInv, LedgerTypeOK

\* scanRecovery: a decision about an open record, at its revision.
LEMMA ScanInv ==
    ASSUME LedgerInv, NEW p \in All, NEW t \in Transactions, scanRecovery(p, t)
    PROVE  LedgerInv'
<1>0. PICK m : m = [kind |-> "decision", transaction |-> t, expected |-> store[t].revision,
                    target |-> recoveryTarget(store[t].state)]
    OBVIOUS
<1>1. /\ t \in DOMAIN store /\ store[t].state \notin Terminal /\ store[t] \in Records
      /\ pc'[p] = "decided" /\ op'[p] = m
      /\ \A q \in All \ {p} : pc'[q] = pc[q] /\ op'[q] = op[q]
      /\ pc' = [pc EXCEPT ![p] = "decided"] /\ op' = [op EXCEPT ![p] = m]
      /\ UNCHANGED <<store, usable, receipts, revoked, inFlight, performed, crashes>>
    BY <1>0, ReadRecord DEF scanRecovery, world, LedgerInv, LedgerTypeOK
<1>2. recoveryTarget(store[t].state) \in Terminal
    BY DEF recoveryTarget, Terminal, PostPermit
<1>3. /\ m.transaction = t /\ m.expected = store[t].revision /\ m \in Decisions
      /\ m.target = recoveryTarget(store[t].state)
    BY <1>0, <1>1, <1>2 DEF Decisions, Records
<1>4. LedgerTypeOK'
    BY <1>1, <1>3 DEF LedgerInv, LedgerTypeOK
<1>5. ASSUME NEW q \in All PROVE OpConsistent(q)'
  <2>1. CASE q = p
    <3>1. m.expected <= m.expected
      BY <1>3 DEF Decisions
    <3> QED
      BY <1>1, <1>3, <2>1, <3>1 DEF OpConsistent
  <2>2. CASE q # p
    BY <1>1, <2>2, UnmovedConsistent
  <2> QED
    BY <2>1, <2>2
<1>6. \A q \in All : pc'[q] = "permitted" => pc[q] = "permitted" /\ op'[q] = op[q]
    BY <1>1
<1> QED
    BY <1>1, <1>4, <1>5, <1>6, QuietInv

\* Whatever the store answers.
LEMMA AnswerInv ==
    ASSUME LedgerInv, NEW p \in All, CasApplied(p) \/ CasRefused(p) \/ CasUnanswered(p)
    PROVE  LedgerInv'
<1>0. usable \in [All -> SUBSET Receipts] /\ crashes \in 0..MaxCrashes
    BY DEF LedgerInv, LedgerTypeOK
<1>1. CASE CasApplied(p)
    BY <1>1, WriteInv DEF CasApplied, world
<1>2. CASE CasRefused(p)
    BY <1>0, <1>2, FinishInv DEF CasRefused, world
<1>3. CASE CasUnanswered(p)
  <2>1. CASE UNCHANGED store
    BY <1>0, <1>3, <2>1, FinishInv DEF CasUnanswered, world
  <2>2. CASE CasAdmits(op[p]) /\ store' = Written(op[p])
    BY <1>3, <2>2, WriteInv DEF CasUnanswered, world
  <2> QED
    BY <1>3, <2>1, <2>2 DEF CasUnanswered
<1> QED
    BY <1>1, <1>2, <1>3

\* Every step keeps the invariant.
LEMMA NextInv == LedgerInv /\ [Next]_vars => LedgerInv'
<1> SUFFICES ASSUME LedgerInv, [Next]_vars PROVE LedgerInv'
    OBVIOUS
<1>0. Executors \subseteq All /\ Recoverers \subseteq All /\ Deliverers \subseteq All
    BY DEF All
<1>1. ASSUME NEW p \in Executors, NEW t \in Transactions, NEW now \in Time,
             createPrepared(p, t, now) \/ recordCommitPermit(p, t, now)
             \/ closeFailedPreEffect(p, t, now)
      PROVE  LedgerInv'
    BY <1>0, <1>1, PrepareInv, PermitInv, CloseFailedPreEffectInv
<1>2. ASSUME NEW p \in Recoverers, NEW t \in Transactions, scanRecovery(p, t)
      PROVE  LedgerInv'
    BY <1>0, <1>2, ScanInv
<1>3. ASSUME NEW p \in Deliverers, NEW receipt \in receipts, verifyReceipt(p, receipt)
      PROVE  LedgerInv'
  <2>1. /\ UNCHANGED <<store, pc, op, receipts, revoked, inFlight, performed, crashes>>
        /\ usable' = [usable EXCEPT ![p] = @ \cup {receipt}]
    BY <1>3 DEF verifyReceipt, world
  <2>2. receipts \subseteq Receipts /\ revoked \subseteq receipts /\ usable \in [All -> SUBSET Receipts]
    BY DEF LedgerInv, LedgerTypeOK
  <2>3. usable' \in [All -> SUBSET Receipts]
    BY <1>0, <2>1, <2>2
  <2> QED
    BY <2>1, <2>2, <2>3, EvidenceInv
<1>4. ASSUME NEW p \in Deliverers, NEW receipt \in receipts, NEW t \in Transactions,
             markEvidenceAdmitted(p, receipt, t)
      PROVE  LedgerInv'
    BY <1>0, <1>4, MarkAdmittedInv
<1>5. ASSUME NEW p \in All, Continue(p) PROVE LedgerInv'
    BY <1>5, AnswerInv, StartEffectInv, ActOnDecisionInv, ExecutorCloseInv DEF Continue
<1>6. ASSUME NEW p \in All, Crash(p) PROVE LedgerInv'
  <2>1. /\ Finish(p) /\ crashes < MaxCrashes /\ crashes' = crashes + 1
        /\ usable' = [usable EXCEPT ![p] = {}]
        /\ UNCHANGED <<store, receipts, revoked, inFlight, performed>>
    BY <1>6 DEF Crash
  <2>2. crashes' \in 0..MaxCrashes /\ usable' \in [All -> SUBSET Receipts]
    BY <2>1, LedgerBoundAssumption DEF LedgerInv, LedgerTypeOK
  <2> QED
    BY <2>1, <2>2, FinishInv
<1>7. ASSUME NEW p \in Executors, NEW t \in Transactions, EffectHappens(p, t) PROVE LedgerInv'
    BY <1>0, <1>7, EffectHappensInv
<1>8. ASSUME NEW t \in Transactions, NEW at \in Time, AdmitEvidence(t, at) PROVE LedgerInv'
    BY <1>8, ServiceInv
<1>9. ASSUME NEW receipt \in receipts, Distrust(receipt) PROVE LedgerInv'
  <2>1. /\ UNCHANGED <<store, pc, op, usable, receipts, inFlight, performed, crashes>>
        /\ revoked' = revoked \cup {receipt}
    BY <1>9 DEF Distrust
  <2>2. /\ receipts \subseteq Receipts /\ revoked \subseteq receipts
        /\ usable \in [All -> SUBSET Receipts]
    BY DEF LedgerInv, LedgerTypeOK
  <2> QED
    BY <2>1, <2>2, EvidenceInv
<1>10. CASE UNCHANGED vars
  <2>1. /\ UNCHANGED <<store, pc, op, usable, receipts, revoked, inFlight, performed, crashes>>
    BY <1>10 DEF vars
  <2> QED
    BY <2>1, EvidenceInv DEF LedgerInv, LedgerTypeOK
<1> QED
    BY <1>1, <1>2, <1>3, <1>4, <1>5, <1>6, <1>7, <1>8, <1>9, <1>10 DEF Next

\* The inductive invariant holds in every reachable state.
LEMMA Invariant == LedgerSpec => []LedgerInv
    BY InitInv, NextInv, PTL DEF LedgerSpec

-----------------------------------------------------------------------------
\* Theorems.

\* The ledger, its processes and the evidence service keep their types.
THEOREM TypeCorrect == LedgerSpec => []LedgerTypeOK
<1>1. LedgerInv => LedgerTypeOK
    BY DEF LedgerInv
<1> QED
    BY <1>1, Invariant, PTL

\* Whatever races, crashes or is lost, the next scan reads records that
\* validateSafeCodingLedgerRecord accepts, and no mutation whose revision still
\* matches is refused as an invalid successor.
THEOREM ValidRecords == LedgerSpec => []LedgerRecordsStayValid
<1>1. LedgerInv => LedgerRecordsStayValid
  <2> SUFFICES ASSUME LedgerInv PROVE LedgerRecordsStayValid
    OBVIOUS
  <2>1. \A t \in DOMAIN store : ValidRecord(store[t])
    BY DEF LedgerInv
  <2>2. ASSUME NEW p \in All, pc[p] = "cas", RevisionMatches(op[p])
        PROVE  MutationValid(op[p])
    <3>0. PICK m, t : m = op[p] /\ t = m.transaction
      OBVIOUS
    <3>1. m \in Mutations /\ OpConsistent(p)
      BY <2>2, <3>0 DEF LedgerInv, LedgerTypeOK
    <3>2. m.next.updatedAt \in Time /\ m.expected \in Nat
      BY <3>1 DEF Mutations, Records
    <3>3. CASE m.kind = "prepare" /\ m.expected = 0 /\ m.next = preparedRecord(m.next.updatedAt)
      BY <3>0, <3>2, <3>3, PreparedIsValid DEF MutationValid
    <3>4. CASE /\ m.expected > 0 /\ t \in DOMAIN store
               /\ m.expected = store[t].revision => BuiltOn(m, store[t])
      <4>1. store[t].revision = m.expected
        BY <2>2, <3>0, <3>2, <3>4 DEF RevisionMatches
      <4>2. store[t] \in Records /\ ValidRecord(store[t]) /\ BuiltOn(m, store[t])
        BY <3>4, <4>1, ReadRecord
      <4>3. Successor(store[t], m.next)
        BY <3>1, <4>2, BuiltIsValid
      <4> QED
        BY <3>0, <3>4, <4>3 DEF MutationValid
    <3>5. \/ m.kind = "prepare" /\ m.expected = 0 /\ m.next = preparedRecord(m.next.updatedAt)
          \/ /\ m.expected > 0 /\ t \in DOMAIN store
             /\ m.expected = store[t].revision => BuiltOn(m, store[t])
      BY <2>2, <3>0, <3>1 DEF OpConsistent
    <3> QED
      BY <3>3, <3>4, <3>5
  <2> QED
    BY <2>1, <2>2 DEF LedgerRecordsStayValid, ValidRecord
<1> QED
    BY <1>1, Invariant, PTL

\* Tickets that share a replay identity lead to one effect, for any number of
\* tickets and of processes that run them.
THEOREM OneEffect == LedgerSpec => []OneEffectPerIdentity
<1>1. LedgerInv => OneEffectPerIdentity
  <2> SUFFICES ASSUME LedgerInv, NEW t \in Transactions, NEW u \in Transactions, t # u,
                      Identities[t] \cap Identities[u] # {}
               PROVE  performed[t] + performed[u] <= 1
    BY DEF OneEffectPerIdentity
  <2>1. ASSUME NEW x \in Transactions
        PROVE  performed[x] \in 0..1 /\ (performed[x] = 1 => x \in DOMAIN store)
    <3>1. performed[x] \in Nat
      BY DEF LedgerInv, LedgerTypeOK
    <3>2. EffectConsistent(x)
      BY DEF LedgerInv
    <3>3. performed[x] <= 1 /\ (performed[x] = 1 => x \in DOMAIN store)
      BY <3>2 DEF EffectConsistent
    <3> QED
      BY <3>1, <3>3
  <2>2. ~(t \in DOMAIN store /\ u \in DOMAIN store)
    BY DEF LedgerInv, IdentitiesDisjoint
  <2> QED
    BY <2>1, <2>2
<1> QED
    BY <1>1, Invariant, PTL

\* No evidence is acknowledged but under a receipt for the very outcome the
\* record was closed with.
THEOREM BoundAdmissions == LedgerSpec => []AdmissionsAreBound
<1>1. LedgerInv => AdmissionsAreBound
    BY DEF LedgerInv
<1> QED
    BY <1>1, Invariant, PTL

\* The store only changes by an admitted mutation, and then no effect takes place.
LEMMA StoreSteps ==
    ASSUME [Next]_vars
    PROVE  \/ store' = store /\ performed' = performed
           \/ \E p \in Executors, t \in Transactions : EffectHappens(p, t)
           \/ /\ performed' = performed
              /\ \E p \in All :
                    pc[p] = "cas" /\ CasAdmits(op[p]) /\ store' = Written(op[p])
<1>1. ASSUME NEW p \in All, Continue(p)
      PROVE  /\ performed' = performed
             /\ \/ store' = store
                \/ pc[p] = "cas" /\ CasAdmits(op[p]) /\ store' = Written(op[p])
    BY <1>1 DEF Continue, CasApplied, CasRefused, CasUnanswered, StartEffect, actOnDecision,
       close, world
<1> QED
    BY <1>1 DEF Next, vars, createPrepared, recordCommitPermit, closeFailedPreEffect,
       scanRecovery, verifyReceipt, markEvidenceAdmitted, Crash, AdmitEvidence, Distrust, world

\* The outcome of a closed record never changes: late executors, old decisions
\* of recovery and deliverers add at most the one acknowledgement.
THEOREM OutcomeFrozen == LedgerSpec => OutcomeIsFrozen
<1> DEFINE Frozen == \A t \in DOMAIN store :
          store[t].state \in Terminal /\ store'[t] # store[t] =>
              /\ store[t].evidence = "PENDING"
              /\ \E at \in Time : store[t].updatedAt <= at
                                  /\ store'[t] = admittedRecord(store[t], at)
<1>1. LedgerInv /\ [Next]_vars => [Frozen]_vars
  <2> SUFFICES ASSUME LedgerInv, [Next]_vars, NEW t \in DOMAIN store,
                      store[t].state \in Terminal, store'[t] # store[t]
               PROVE  /\ store[t].evidence = "PENDING"
                      /\ \E at \in Time : store[t].updatedAt <= at
                                          /\ store'[t] = admittedRecord(store[t], at)
    OBVIOUS
  <2>1. PICK p \in All : pc[p] = "cas" /\ CasAdmits(op[p]) /\ store' = Written(op[p])
    BY StoreSteps DEF EffectHappens
  <2>2. PICK m : m = op[p]
    OBVIOUS
  <2>3. Applied(m, m.transaction, m.next)
    BY <2>1, <2>2, AdmittedMutation
  <2>4. /\ m \in Mutations /\ t = m.transaction /\ store'[t] = m.next /\ m.next \in Records
        /\ store[t] \in Records /\ ValidRecord(store[t]) /\ BuiltOn(m, store[t])
    BY <2>3 DEF Applied
  <2>5. m.kind = "admit"
    BY <2>4, BuiltIsValid
  <2>6. m.next = admittedRecord(store[t], m.next.updatedAt) /\ store[t].evidence = "PENDING"
    BY <2>4, <2>5, BuiltIsValid
  <2>7. store[t].updatedAt <= m.next.updatedAt /\ m.next.updatedAt \in Time
    BY <2>4 DEF BuiltOn, Records
  <2> QED
    BY <2>4, <2>6, <2>7
<1> QED
    BY <1>1, Invariant, PTL DEF LedgerSpec, OutcomeIsFrozen

\* What is decided about a transaction is a function of its record's state.
LEMMA DecisionOfState ==
    ASSUME NEW t \in DOMAIN store
    PROVE  /\ store[t].state = "PREPARED" => Decision(t) = "open"
           /\ store[t].state = "COMMIT_PERMIT" => Decision(t) = "granted"
           /\ store[t].state = "COMMITTED" => Decision(t) = "committed"
           /\ store[t].state = "RESULT_UNAVAILABLE" => Decision(t) = "result-unavailable"
           /\ store[t].state = "FAILED_PRE_EFFECT" => Decision(t) = "failed-no-effect"
           /\ store[t].state = "UNCERTAIN" => Decision(t) = "uncertain"
    BY DEF Decision

\* The same of the next state.
LEMMA DecisionOfNextState ==
    ASSUME NEW t \in DOMAIN store'
    PROVE  /\ store'[t].state = "PREPARED" => Decision(t)' = "open"
           /\ store'[t].state = "COMMIT_PERMIT" => Decision(t)' = "granted"
           /\ store'[t].state = "COMMITTED" => Decision(t)' = "committed"
           /\ store'[t].state = "RESULT_UNAVAILABLE" => Decision(t)' = "result-unavailable"
           /\ store'[t].state = "FAILED_PRE_EFFECT" => Decision(t)' = "failed-no-effect"
           /\ store'[t].state = "UNCERTAIN" => Decision(t)' = "uncertain"
    BY DEF Decision

\* How a write moves the decision about its transaction.
LEMMA DecisionStep ==
    ASSUME LedgerInv, NEW p \in All, pc[p] = "cas", CasAdmits(op[p]), store' = Written(op[p]),
           NEW t, t = op[p].transaction
    PROVE  /\ t \in Transactions
           /\ \A u \in Transactions \ {t} : Decision(u)' = Decision(u)
           /\ \/ Decision(t)' = Decision(t)
              \/ Decision(t) = "open" /\ Decision(t)' \in {"granted", "failed-no-effect"}
              \/ /\ Decision(t) = "granted"
                 /\ Decision(t)' \in {"committed", "result-unavailable", "uncertain"}
                 /\ Decision(t)' \in {"committed", "result-unavailable"} => performed[t] = 1
<1>0. PICK m, n : m = op[p] /\ n = m.next
    OBVIOUS
<1>00. Applied(m, t, n)
    BY <1>0, AdmittedMutation
<1>1. /\ m \in Mutations /\ t \in Transactions /\ n \in Records /\ ValidRecord(n)
      /\ DOMAIN store' = DOMAIN store \cup {t} /\ store'[t] = n
      /\ \A u \in DOMAIN store \ {t} : store'[u] = store[u]
    BY <1>00 DEF Applied
<1>2. \/ t \notin DOMAIN store /\ n.state = "PREPARED"
      \/ t \in DOMAIN store /\ store[t] \in Records /\ ValidRecord(store[t]) /\ BuiltOn(m, store[t])
    BY <1>00 DEF Applied
<1>3. ASSUME NEW u \in Transactions \ {t} PROVE Decision(u)' = Decision(u)
  <2>1. u \in DOMAIN store' <=> u \in DOMAIN store
    BY <1>1
  <2>2. u \in DOMAIN store => store'[u] = store[u]
    BY <1>1
  <2>3. CASE u \in DOMAIN store
    <3>1. store[u].state \in {"PREPARED", "COMMIT_PERMIT"} \cup Terminal
      BY <2>3, ReadRecord DEF Records
    <3> QED
      BY <2>1, <2>2, <2>3, <3>1, DecisionOfState, DecisionOfNextState DEF Terminal, PostPermit
  <2>4. CASE u \notin DOMAIN store
    BY <2>1, <2>4 DEF Decision
  <2> QED
    BY <2>3, <2>4
<1>4. CASE t \notin DOMAIN store /\ n.state = "PREPARED"
    BY <1>1, <1>3, <1>4, DecisionOfNextState DEF Decision
<1>5. CASE /\ t \in DOMAIN store /\ store[t] \in Records /\ ValidRecord(store[t])
           /\ BuiltOn(m, store[t])
  <2>1. Successor(store[t], n) /\ (m.kind = "admit" <=> store[t].state \in Terminal)
        /\ (m.kind = "admit" => n.state = store[t].state)
    BY <1>0, <1>1, <1>5, BuiltIsValid
  <2>2. n.observed => performed[t] = 1
    BY <1>0 DEF LedgerInv, OpConsistent
  <2>3. n.state \in {"COMMITTED", "RESULT_UNAVAILABLE"} => performed[t] = 1
    BY <1>1, <2>2 DEF ValidRecord, ValidShape, AttestationAllowed, Attestation, Terminal, PostPermit
  <2>4. store[t].state \in {"PREPARED", "COMMIT_PERMIT"} \cup Terminal
    BY <1>5 DEF Records
  <2>5. CASE store[t].state = "PREPARED"
    <3>1. n.state \in {"COMMIT_PERMIT", "FAILED_PRE_EFFECT"}
      BY <2>1, <2>5 DEF Successor, Terminal, PostPermit
    <3> QED
      BY <1>1, <1>3, <1>5, <2>5, <3>1, DecisionOfState, DecisionOfNextState
  <2>6. CASE store[t].state = "COMMIT_PERMIT"
    <3>1. n.state \in PostPermit
      BY <2>1, <2>6 DEF Successor, Terminal, PostPermit
    <3> QED
      BY <1>1, <1>3, <1>5, <2>3, <2>6, <3>1, DecisionOfState, DecisionOfNextState DEF PostPermit
  <2>7. CASE store[t].state \in Terminal
    <3>1. n.state = store[t].state
      BY <2>1, <2>7
    <3>2. Decision(t)' = Decision(t)
      BY <1>1, <1>5, <2>7, <3>1, DecisionOfState, DecisionOfNextState DEF Terminal, PostPermit
    <3> QED
      BY <1>1, <1>3, <3>2
  <2> QED
    BY <2>4, <2>5, <2>6, <2>7
<1> QED
    BY <1>2, <1>4, <1>5

\* The ledger implements EffectOnce: the durable state is the decision, a permit
\* is granted once, the effect happens at most once and under it, and no state
\* claims an effect that did not take place or denies one that did or may.
THEOREM OneShotPromise == LedgerSpec => LedgerKeepsOneShotPromise
<1> DEFINE authority == [t \in Transactions |-> Decision(t)]
<1>1. Init => Abstract!EffectInit
    BY DEF Init, Abstract!EffectInit, Decision
<1>2. LedgerInv /\ [Next]_vars => [Abstract!EffectNext]_(Abstract!effectVars)
  <2> SUFFICES ASSUME LedgerInv, [Next]_vars
               PROVE  [Abstract!EffectNext]_(Abstract!effectVars)
    OBVIOUS
  <2>1. CASE store' = store /\ performed' = performed
    <3>1. \A t \in Transactions : Decision(t)' = Decision(t)
      BY <2>1 DEF Decision
    <3>2. authority' = authority
      BY <3>1
    <3> QED
      BY <2>1, <3>2 DEF Abstract!effectVars
  <2>2. ASSUME NEW p \in Executors, NEW t \in Transactions, EffectHappens(p, t)
        PROVE  Abstract!EffectNext
    <3>1. /\ <<p, t>> \in inFlight /\ store' = store /\ p \in All
          /\ performed' = [performed EXCEPT ![t] = @ + 1]
      BY <2>2 DEF EffectHappens, All
    <3>2. EffectConsistent(t) /\ performed \in [Transactions -> Nat]
      BY DEF LedgerInv, LedgerTypeOK
    <3>3. performed[t] = 0 /\ t \in DOMAIN store /\ store[t].consumed /\ ~store[t].observed
      BY <3>1, <3>2 DEF EffectConsistent, MayPerform
    <3>4. store[t] \in Records /\ ValidRecord(store[t])
      BY <3>3, ReadRecord
    <3>5. store[t].state \in {"COMMIT_PERMIT", "UNCERTAIN"}
      BY <3>3, <3>4 DEF ValidRecord, ValidShape, AttestationAllowed, Attestation, Records,
         Terminal, PostPermit
    <3>6. Decision(t) \in {"granted", "uncertain"}
      BY <3>3, <3>5, DecisionOfState
    <3>7. \A u \in Transactions : Decision(u)' = Decision(u)
      BY <3>1 DEF Decision
    <3>8. authority' = authority /\ authority[t] \in {"granted", "uncertain"}
      BY <3>6, <3>7
    <3>9. performed' = [performed EXCEPT ![t] = 1]
      BY <3>1, <3>2, <3>3
    <3>10. Abstract!Perform(t)
      BY <3>3, <3>8, <3>9 DEF Abstract!Perform
    <3> QED
      BY <3>10 DEF Abstract!EffectNext
  <2>3. ASSUME NEW p \in All, pc[p] = "cas", CasAdmits(op[p]), store' = Written(op[p]),
               performed' = performed
        PROVE  [Abstract!EffectNext]_(Abstract!effectVars)
    <3>1. PICK t : t = op[p].transaction
      OBVIOUS
    <3>2. /\ t \in Transactions
          /\ \A u \in Transactions \ {t} : Decision(u)' = Decision(u)
          /\ \/ Decision(t)' = Decision(t)
             \/ Decision(t) = "open" /\ Decision(t)' \in {"granted", "failed-no-effect"}
             \/ /\ Decision(t) = "granted"
                /\ Decision(t)' \in {"committed", "result-unavailable", "uncertain"}
                /\ Decision(t)' \in {"committed", "result-unavailable"} => performed[t] = 1
      BY <2>3, <3>1, DecisionStep
    <3>3. ASSUME NEW d, Decision(t)' = d PROVE authority' = [authority EXCEPT ![t] = d]
      BY <3>2, <3>3
    <3>4. authority[t] = Decision(t)
      BY <3>2
    <3>5. CASE Decision(t)' = Decision(t)
      <4>1. authority' = authority
        BY <3>2, <3>5
      <4> QED
        BY <2>3, <4>1 DEF Abstract!effectVars
    <3>6. CASE Decision(t) = "open" /\ Decision(t)' = "granted"
      <4>1. authority' = [authority EXCEPT ![t] = "granted"]
        BY <3>3, <3>6
      <4> HIDE DEF authority
      <4>2. Abstract!Grant(t)
        BY <2>3, <3>4, <3>6, <4>1 DEF Abstract!Grant, authority
      <4> QED
        BY <3>2, <4>2 DEF Abstract!EffectNext
    <3>7. CASE Decision(t) = "open" /\ Decision(t)' = "failed-no-effect"
      <4>1. authority' = [u \in Transactions |->
                             IF u \in {t} THEN "failed-no-effect" ELSE authority[u]]
        BY <3>2, <3>7
      <4>2. Abstract!Refuse({t})
        BY <2>3, <3>4, <3>7, <4>1 DEF Abstract!Refuse
      <4> QED
        BY <3>2, <4>2 DEF Abstract!EffectNext
    <3>8. ASSUME NEW d \in {"committed", "result-unavailable", "uncertain"},
                 Decision(t) = "granted", Decision(t)' = d,
                 d \in {"committed", "result-unavailable"} => performed[t] = 1
          PROVE  Abstract!EffectNext
      <4>1. authority' = [authority EXCEPT ![t] = d]
        BY <3>3, <3>8
      <4>2. Abstract!Close(t, d)
        BY <2>3, <3>4, <3>8, <4>1 DEF Abstract!Close, Abstract!Claims
      <4> QED
        BY <3>2, <4>2 DEF Abstract!EffectNext, Abstract!Claims
    <3> QED
      BY <3>2, <3>5, <3>6, <3>7, <3>8
  <2> QED
    BY <2>1, <2>2, <2>3, StoreSteps
<1> QED
    BY <1>1, <1>2, Invariant, PTL DEF LedgerSpec, LedgerKeepsOneShotPromise, Abstract!EffectSpec
=============================================================================
