------------------------- MODULE ControlPlaneProofs -------------------------
(***************************************************************************)
(* Proofs about ControlPlane, for every number of processes, recoverers,   *)
(* transactions and crashes, every clock and every assignment of permits,  *)
(* nonces and receipts.                                                    *)
(***************************************************************************)
EXTENDS ControlPlane, TLAPS

-----------------------------------------------------------------------------
\* Lemmas about records and mutations.

\* The record that prepare creates is valid.
LEMMA PreparedIsValid ==
    ASSUME NEW now \in Time
    PROVE  /\ createPrepared(now) \in Records /\ ValidRecord(createPrepared(now))
           /\ createPrepared(now).revision = 1 /\ createPrepared(now).phase = "PREPARED"
           /\ createPrepared(now).outbox = "RESERVED"
           /\ ~createPrepared(now).permitted /\ ~createPrepared(now).started
           /\ createPrepared(now).updatedAt = now
    BY DEF createPrepared, Records, Phase, Terminal, ValidRecord, ValidProjection,
       ReachableRevision

\* What an operation builds on a valid record is a valid record, which the
\* store's own check accepts as the successor.
LEMMA BuiltIsValid ==
    ASSUME NEW m \in Mutations, NEW r \in Records, ValidRecord(r), BuiltOn(m, r)
    PROVE  /\ ValidRecord(m.next) /\ Successor(r, m.next)
           /\ m.next.revision = r.revision + 1
           /\ m.next.started <=> r.started \/ m.kind = "arm"
           /\ m.next.permitted <=> r.permitted \/ m.kind = "permit"
           /\ r.phase \in Terminal <=> m.kind = "deliver"
<1> DEFINE n == m.next
           now == n.updatedAt
<1>0. /\ r.updatedAt <= now /\ r.revision \in Nat
      /\ r.permitted \in BOOLEAN /\ r.started \in BOOLEAN
      /\ r.phase \in Phase /\ r.outbox \in {"RESERVED", "READY", "DELIVERED"}
    BY DEF BuiltOn, Records
<1>00. ValidProjection(r) /\ r.revision = ReachableRevision(r)
    BY DEF ValidRecord
<1>1. CASE m.kind = "permit" /\ r.phase = "PREPARED" /\ n = consumeCommitPermit(r, now)
  <2>1. /\ n.revision = r.revision + 1 /\ n.phase = "COMMIT_PERMIT"
        /\ n.permitted = TRUE /\ n.started = r.started
        /\ n.outbox = r.outbox
    BY <1>1 DEF consumeCommitPermit, Records
  <2> HIDE DEF n
  <2> QED
    BY <1>0, <1>00, <1>1, <2>1 DEF ValidRecord, ValidProjection, ReachableRevision, Successor,
       AllowedPhaseTransition, Terminal, n
<1>2. CASE m.kind = "arm" /\ r.phase = "COMMIT_PERMIT" /\ n = markEffectInFlight(r, now)
  <2>1. /\ n.revision = r.revision + 1 /\ n.phase = "EFFECT_IN_FLIGHT"
        /\ n.permitted = r.permitted /\ n.started = TRUE
        /\ n.outbox = r.outbox
    BY <1>2 DEF markEffectInFlight, Records
  <2> QED
    BY <1>0, <1>00, <1>2, <2>1 DEF ValidRecord, ValidProjection, ReachableRevision, Successor,
       AllowedPhaseTransition, Terminal
<1>3. ASSUME NEW phase \in Terminal, n = closeTerminal(r, phase, now),
             \/ m.kind \in {"abort", "recover"} /\ r.phase = "PREPARED"
                  /\ phase = "FAILED_PRE_EFFECT"
             \/ m.kind = "recover" /\ r.phase \in {"COMMIT_PERMIT", "EFFECT_IN_FLIGHT"}
                  /\ phase = "UNCERTAIN"
             \/ m.kind = "close" /\ r.phase = "EFFECT_IN_FLIGHT"
      PROVE  /\ ValidRecord(n) /\ Successor(r, n)
             /\ n.revision = r.revision + 1
             /\ n.started <=> r.started \/ m.kind = "arm"
             /\ n.permitted <=> r.permitted \/ m.kind = "permit"
             /\ r.phase \in Terminal <=> m.kind = "deliver"
  <2>1. /\ n.revision = r.revision + 1 /\ n.phase = phase
        /\ n.permitted = r.permitted /\ n.started = r.started
        /\ n.outbox = "READY"
    BY <1>3 DEF closeTerminal, Records
  <2> QED
    BY <1>0, <1>00, <1>3, <2>1 DEF ValidRecord, ValidProjection, ReachableRevision, Successor,
       AllowedPhaseTransition, Terminal
<1>5. CASE m.kind = "deliver" /\ r.phase \in Terminal /\ r.outbox = "READY"
           /\ n = markEvidenceDelivered(r, now)
  <2>1. /\ n.revision = r.revision + 1 /\ n.phase = r.phase
        /\ n.permitted = r.permitted /\ n.started = r.started
        /\ n.outbox = "DELIVERED"
    BY <1>5 DEF markEvidenceDelivered, Records
  <2> QED
    BY <1>0, <1>00, <1>5, <2>1 DEF ValidRecord, ValidProjection, ReachableRevision, Successor,
       AllowedPhaseTransition, Terminal
<1>6. CASE m.kind = "abort" /\ r.phase = "PREPARED"
           /\ n = closeTerminal(r, "FAILED_PRE_EFFECT", now)
  <2>1. "FAILED_PRE_EFFECT" \in Terminal
    BY DEF Terminal
  <2> QED
    BY <1>6, <1>3, <2>1
<1>7. CASE m.kind = "recover" /\ r.phase \in Recoverable
           /\ n = closeTerminal(r, recoveryPhase(r.phase), now)
  <2>1. recoveryPhase(r.phase) \in Terminal
    BY DEF Terminal, recoveryPhase
  <2> QED
    BY <1>7, <1>3, <2>1 DEF Recoverable, recoveryPhase
<1>8. CASE m.kind = "close" /\ r.phase = "EFFECT_IN_FLIGHT"
           /\ \E phase \in Terminal : n = closeTerminal(r, phase, now)
    BY <1>8, <1>3
<1> QED
    BY <1>1, <1>2, <1>5, <1>6, <1>7, <1>8 DEF BuiltOn

-----------------------------------------------------------------------------
\* Preservation of the inductive invariant.

\* An empty store satisfies the invariant.
LEMMA InitInv == Init => CPInv
<1> SUFFICES ASSUME Init PROVE CPInv
    OBVIOUS
<1>1. CPTypeOK
    BY TimeAssumption, BoundAssumption DEF Init, CPTypeOK
<1>2. \A p \in All : OpConsistent(p)
    BY DEF Init, OpConsistent
<1>3. \A t \in Transactions : EffectConsistent(t)
    BY DEF Init, EffectConsistent, Arms
<1> QED
    BY <1>1, <1>2, <1>3 DEF Init, CPInv, IdentitiesDisjoint

\* A step that leaves the store and the effects alone keeps the invariant when
\* the processes that moved are consistent and arm nothing new.
LEMMA QuietInv ==
    ASSUME CPInv, CPTypeOK',
           UNCHANGED <<store, inFlight, calls, performed>>,
           \A p \in All : OpConsistent(p)',
           \A p \in All, t \in Transactions : Arms(p, t)' => Arms(p, t)
    PROVE  CPInv'
<1>1. \A t \in DOMAIN store' : ValidRecord(store'[t])
    BY DEF CPInv
<1>2. ASSUME NEW t \in Transactions PROVE EffectConsistent(t)'
    BY DEF CPInv, EffectConsistent, Started
<1>3. IdentitiesDisjoint'
    BY DEF CPInv, IdentitiesDisjoint, IdentityKeys
<1> QED
    BY <1>1, <1>2, <1>3 DEF CPInv

\* An operation that has read its record builds a mutation on it.
LEMMA SubmitInv ==
    ASSUME CPInv, NEW p \in All, pc[p] = "idle", NEW m \in Mutations, m.kind # "close",
           pc' = [pc EXCEPT ![p] = "cas"], op' = [op EXCEPT ![p] = m],
           UNCHANGED <<store, clock, distrusted, inFlight, calls, performed, crashes>>,
           \/ m.kind = "prepare" /\ m.expected = 0 /\ m.next = createPrepared(m.next.updatedAt)
           \/ /\ m.kind # "prepare" /\ m.expected > 0 /\ m.transaction \in DOMAIN store
              /\ m.expected = store[m.transaction].revision
              /\ BuiltOn(m, store[m.transaction])
    PROVE  CPInv'
<1>0. /\ pc'[p] = "cas" /\ op'[p] = m
      /\ \A q \in All \ {p} : pc'[q] = pc[q] /\ op'[q] = op[q]
    BY DEF CPInv, CPTypeOK
<1>1. CPTypeOK'
    BY <1>0 DEF CPInv, CPTypeOK
<1>2. \A q \in All, t \in Transactions : Arms(q, t)' => Arms(q, t)
    BY <1>0 DEF Arms
<1>3. ASSUME NEW q \in All PROVE OpConsistent(q)'
  <2>1. CASE q = p
    <3>1. m.expected <= m.expected
      BY DEF Mutations
    <3> QED
      BY <1>0, <2>1, <3>1 DEF OpConsistent
  <2>2. CASE q # p
    BY <1>0, <2>2 DEF CPInv, OpConsistent, Started
  <2> QED
    BY <2>1, <2>2
<1> QED
    BY <1>1, <1>2, <1>3, QuietInv

\* A process that ends, or dies, leaves nothing in hand.
LEMMA FinishInv ==
    ASSUME CPInv, NEW p \in All, Finish(p), crashes' \in 0..MaxCrashes,
           UNCHANGED <<store, clock, distrusted, inFlight, calls, performed>>
    PROVE  CPInv'
<1>0. /\ pc'[p] = "idle" /\ op'[p] = NoOp
      /\ \A q \in All \ {p} : pc'[q] = pc[q] /\ op'[q] = op[q]
      /\ pc' = [pc EXCEPT ![p] = "idle"] /\ op' = [op EXCEPT ![p] = NoOp]
    BY DEF CPInv, CPTypeOK, Finish
<1>1. CPTypeOK'
    BY <1>0 DEF CPInv, CPTypeOK
<1>2. \A q \in All, t \in Transactions : Arms(q, t)' => Arms(q, t)
    BY <1>0 DEF Arms
<1>3. ASSUME NEW q \in All PROVE OpConsistent(q)'
  <2>1. CASE q = p
    BY <1>0, <2>1 DEF OpConsistent
  <2>2. CASE q # p
    BY <1>0, <2>2 DEF CPInv, OpConsistent, Started
  <2> QED
    BY <2>1, <2>2
<1> QED
    BY <1>1, <1>2, <1>3, QuietInv

\* What a mutation that the store admits does to its record.
LEMMA AdmittedMutation ==
    ASSUME CPInv, NEW p \in All, pc[p] = "cas", CasAdmits(op[p]), store' = Written(op[p])
    PROVE  LET m == op[p]
               t == m.transaction
               n == m.next
           IN  /\ m \in Mutations /\ t \in Transactions /\ n \in Records /\ ValidRecord(n)
               /\ DOMAIN store' = DOMAIN store \cup {t} /\ store'[t] = n
               /\ \A u \in DOMAIN store \ {t} : store'[u] = store[u]
               /\ \/ /\ m.kind = "prepare" /\ t \notin DOMAIN store
                     /\ n.phase = "PREPARED" /\ ~n.started /\ ~n.permitted
                  \/ /\ m.kind # "prepare" /\ t \in DOMAIN store
                     /\ store[t] \in Records /\ ValidRecord(store[t])
                     /\ store[t].revision = m.expected /\ n.revision = m.expected + 1
                     /\ BuiltOn(m, store[t])
                     /\ n.started <=> store[t].started \/ m.kind = "arm"
                     /\ n.permitted <=> store[t].permitted \/ m.kind = "permit"
<1> DEFINE m == op[p]
           t == m.transaction
           n == m.next
<1>1. m \in Mutations
    BY DEF CPInv, CPTypeOK
<1>2. t \in Transactions /\ n \in Records /\ m.expected \in 0..4 /\ n.updatedAt \in Time
    BY <1>1 DEF Mutations, Records
<1>3. /\ DOMAIN store' = DOMAIN store \cup {t} /\ store'[t] = n
      /\ \A u \in DOMAIN store \ {t} : store'[u] = store[u]
    BY DEF Written
<1>4. OpConsistent(p) /\ RevisionMatches(m)
    BY DEF CPInv, CasAdmits
<1> HIDE DEF m, t, n
<1>5. CASE m.kind = "prepare" /\ m.expected = 0 /\ n = createPrepared(n.updatedAt)
    BY <1>1, <1>2, <1>3, <1>4, <1>5, PreparedIsValid DEF RevisionMatches, m, t, n
<1>6. CASE /\ m.kind # "prepare" /\ m.expected > 0
           /\ t \in DOMAIN store /\ m.expected <= store[t].revision
           /\ m.expected = store[t].revision => BuiltOn(m, store[t])
  <2>1. store[t].revision = m.expected
    BY <1>4, <1>6 DEF RevisionMatches, t
  <2>2. store[t] \in Records /\ ValidRecord(store[t])
    BY <1>6 DEF CPInv, CPTypeOK
  <2>3. BuiltOn(m, store[t])
    BY <1>6, <2>1
  <2>4. /\ ValidRecord(n) /\ n.revision = store[t].revision + 1
        /\ n.started <=> store[t].started \/ m.kind = "arm"
        /\ n.permitted <=> store[t].permitted \/ m.kind = "permit"
    BY <1>1, <2>2, <2>3, BuiltIsValid DEF n
  <2> QED
    BY <1>1, <1>2, <1>3, <1>6, <2>1, <2>2, <2>3, <2>4 DEF m, t, n
<1> QED
    BY <1>4, <1>5, <1>6 DEF OpConsistent, m, t, n

\* Which operations lead to a phase that says something about the effect.
LEMMA BuiltPhases ==
    ASSUME NEW m \in Mutations, NEW r \in Records, ValidRecord(r), BuiltOn(m, r)
    PROVE  /\ m.next.phase \in {"COMMITTED", "RESULT_UNAVAILABLE"} =>
                 m.kind = "close" \/ (m.kind = "deliver" /\ r.phase = m.next.phase)
           /\ m.next.phase = "FAILED_PRE_EFFECT" =>
                 \/ m.kind \in {"abort", "recover"} /\ ~r.started
                 \/ m.kind = "close"
                 \/ m.kind = "deliver" /\ r.phase = "FAILED_PRE_EFFECT"
           /\ m.kind = "arm" =>
                 r.phase = "COMMIT_PERMIT" /\ ~r.started /\ m.next.phase = "EFFECT_IN_FLIGHT"
           /\ m.kind # "prepare"
<1> DEFINE n == m.next
           now == n.updatedAt
<1>0. r.phase = "PREPARED" => ~r.started
    BY DEF ValidRecord, ValidProjection
<1>1. CASE m.kind = "permit" /\ r.phase = "PREPARED" /\ n = consumeCommitPermit(r, now)
    BY <1>1 DEF consumeCommitPermit, Records
<1>2. CASE m.kind = "arm" /\ r.phase = "COMMIT_PERMIT" /\ n = markEffectInFlight(r, now)
    BY <1>2 DEF markEffectInFlight, Records, ValidRecord, ValidProjection
<1>3. CASE m.kind = "abort" /\ r.phase = "PREPARED"
           /\ n = closeTerminal(r, "FAILED_PRE_EFFECT", now)
    BY <1>0, <1>3 DEF closeTerminal, Records
<1>4. CASE m.kind = "recover" /\ r.phase \in Recoverable
           /\ n = closeTerminal(r, recoveryPhase(r.phase), now)
  <2>1. n.phase = recoveryPhase(r.phase)
    BY <1>4 DEF closeTerminal, Records
  <2> QED
    BY <1>0, <1>4, <2>1 DEF recoveryPhase
<1>5. CASE m.kind = "deliver" /\ n = markEvidenceDelivered(r, now)
    BY <1>5 DEF markEvidenceDelivered, Records
<1>6. CASE m.kind = "close"
    BY <1>6
<1> QED
    BY <1>1, <1>2, <1>3, <1>4, <1>5, <1>6 DEF BuiltOn

\* A write moves one record to the successor that was built on it.
LEMMA WriteInv ==
    ASSUME CPInv, NEW p \in All, pc[p] = "cas", CasAdmits(op[p]), store' = Written(op[p]),
           UNCHANGED <<clock, distrusted, inFlight, calls, performed, crashes>>,
           \/ Finish(p)
           \/ op[p].kind = "arm" /\ pc' = [pc EXCEPT ![p] = "armed"] /\ op' = op
    PROVE  CPInv'
<1>0. PICK m : m = op[p]
    OBVIOUS
<1> DEFINE t == m.transaction
           n == m.next
<1>1. /\ m \in Mutations /\ t \in Transactions /\ n \in Records /\ ValidRecord(n)
      /\ DOMAIN store' = DOMAIN store \cup {t} /\ store'[t] = n
      /\ \A u \in DOMAIN store \ {t} : store'[u] = store[u]
    BY <1>0, AdmittedMutation
<1>2. \/ /\ m.kind = "prepare" /\ t \notin DOMAIN store
         /\ n.phase = "PREPARED" /\ ~n.started /\ ~n.permitted
      \/ /\ m.kind # "prepare" /\ t \in DOMAIN store
         /\ store[t] \in Records /\ ValidRecord(store[t])
         /\ store[t].revision = m.expected /\ n.revision = m.expected + 1
         /\ BuiltOn(m, store[t])
         /\ n.started <=> store[t].started \/ m.kind = "arm"
    BY <1>0, AdmittedMutation
<1>3. /\ \A q \in All \ {p} : pc'[q] = pc[q] /\ op'[q] = op[q]
      /\ \/ pc'[p] = "idle" /\ op'[p] = NoOp
         \/ pc'[p] = "armed" /\ op'[p] = m /\ m.kind = "arm"
      /\ pc' \in [All -> {"idle", "cas", "armed", "called"}]
      /\ op' \in [All -> Mutations \cup {NoOp}]
    BY <1>0 DEF CPInv, CPTypeOK, Finish
<1>4. /\ OpConsistent(p) /\ \A q \in All : OpConsistent(q)
      /\ \A u \in Transactions : EffectConsistent(u)
      /\ m.expected \in Nat /\ \A u \in DOMAIN store : store[u].revision \in Nat
    BY <1>0, <1>1 DEF CPInv, CPTypeOK, Mutations, Records
<1>5. IdentitiesFree(m) /\ IdentitiesDisjoint
    BY <1>0 DEF CasAdmits, CPInv
<1>6. CPTypeOK'
    BY <1>1, <1>3 DEF CPInv, CPTypeOK
<1>7. \A u \in DOMAIN store' : ValidRecord(store'[u])
    BY <1>1 DEF CPInv
<1> HIDE DEF t, n
<1>8. \A q \in All, u \in Transactions : Arms(q, u) => Started(u)
    BY <1>4 DEF OpConsistent, Arms
<1>9. m.kind = "arm" =>
         /\ n.phase = "EFFECT_IN_FLIGHT" /\ n.started
         /\ t \in DOMAIN store /\ calls[t] = 0 /\ ~Started(t)
         /\ \A q \in All : ~Arms(q, t)
  <2> SUFFICES ASSUME m.kind = "arm"
               PROVE  /\ n.phase = "EFFECT_IN_FLIGHT" /\ n.started
                      /\ t \in DOMAIN store /\ calls[t] = 0 /\ ~Started(t)
                      /\ \A q \in All : ~Arms(q, t)
    OBVIOUS
  <2>1. /\ n.phase = "EFFECT_IN_FLIGHT" /\ ~store[t].started
    BY <1>1, <1>2, BuiltPhases DEF n
  <2>2. ~Started(t) /\ calls[t] \in Nat
    BY <1>1, <2>1 DEF Started, CPInv, CPTypeOK
  <2> QED
    BY <1>1, <1>2, <1>4, <1>8, <2>1, <2>2 DEF EffectConsistent
<1>10. \A u \in Transactions : Started(u) => Started(u)'
    BY <1>1, <1>2 DEF Started
<1>11. \A q \in All, u \in Transactions :
          Arms(q, u)' => \/ q # p /\ Arms(q, u)
                         \/ q = p /\ u = t /\ m.kind = "arm"
    BY <1>0, <1>3 DEF Arms, t
<1>12. ASSUME NEW q \in All PROVE OpConsistent(q)'
  <2>1. CASE q = p
    <3>1. CASE pc'[p] = "idle"
      BY <2>1, <3>1 DEF OpConsistent
    <3>2. CASE pc'[p] = "armed" /\ op'[p] = m /\ m.kind = "arm"
      <4>1. n.revision <= n.revision
        BY <1>1 DEF Records
      <4>2. Started(t)'
        BY <1>1, <1>9, <3>2 DEF Started
      <4> QED
        BY <1>1, <1>9, <2>1, <3>2, <4>1, <4>2 DEF OpConsistent, n, t
    <3> QED
      BY <1>3, <3>1, <3>2
  <2>2. CASE q # p
    <3>0. PICK w : w = op[q]
      OBVIOUS
    <3> DEFINE u == w.transaction
    <3>1. pc'[q] = pc[q] /\ op'[q] = w /\ OpConsistent(q)
      BY <1>3, <1>4, <2>2, <3>0
    <3>2. CASE pc[q] = "idle"
      BY <3>1, <3>2 DEF OpConsistent
    <3>3. CASE pc[q] # "idle"
      <4>1. w \in Mutations
        BY <3>0, <3>3 DEF CPInv, CPTypeOK
      <4>2. u \in Transactions /\ w.expected \in Nat /\ w.next.revision \in Nat
        BY <4>1 DEF Mutations, Records
      <4>3. u \in DOMAIN store =>
              /\ u \in DOMAIN store'
              /\ \/ store'[u] = store[u]
                 \/ u = t /\ store'[u] = n /\ store[u].revision < store'[u].revision
                    /\ store'[u].revision \in Nat
        <5>1. CASE u = t
          BY <1>1, <1>2, <1>4, <5>1
        <5>2. CASE u # t
          BY <1>1, <5>2
        <5> QED
          BY <5>1, <5>2
      <4>4. pc[q] = "cas" =>
              \/ w.kind = "prepare" /\ w.expected = 0 /\ w.next = createPrepared(w.next.updatedAt)
              \/ /\ w.kind # "prepare" /\ w.expected > 0
                 /\ u \in DOMAIN store' /\ w.expected <= store'[u].revision
                 /\ w.expected = store'[u].revision => BuiltOn(w, store'[u])
        <5>1. pc[q] = "cas" =>
                \/ w.kind = "prepare" /\ w.expected = 0 /\ w.next = createPrepared(w.next.updatedAt)
                \/ /\ w.kind # "prepare" /\ w.expected > 0
                   /\ u \in DOMAIN store /\ w.expected <= store[u].revision
                   /\ w.expected = store[u].revision => BuiltOn(w, store[u])
          BY <3>0, <3>1 DEF OpConsistent
        <5> HIDE DEF u
        <5>2. u \in DOMAIN store => store[u].revision \in Nat
          BY <1>4
        <5>3. CASE store'[u] = store[u]
          BY <4>3, <5>1, <5>3
        <5>4. CASE store[u].revision < store'[u].revision /\ store'[u].revision \in Nat
          BY <4>2, <4>3, <5>1, <5>2, <5>4
        <5> QED
          BY <4>3, <5>1, <5>3, <5>4
      <4>5. pc[q] \in {"armed", "called"} =>
              /\ ValidRecord(w.next) /\ w.next.phase = "EFFECT_IN_FLIGHT"
              /\ Started(u)' /\ w.next.revision <= store'[u].revision
              /\ w.next.revision = store'[u].revision => store'[u] = w.next
        <5> SUFFICES ASSUME pc[q] \in {"armed", "called"}
                     PROVE  /\ ValidRecord(w.next) /\ w.next.phase = "EFFECT_IN_FLIGHT"
                            /\ Started(u)' /\ w.next.revision <= store'[u].revision
                            /\ w.next.revision = store'[u].revision => store'[u] = w.next
          OBVIOUS
        <5>1. /\ ValidRecord(w.next) /\ w.next.phase = "EFFECT_IN_FLIGHT"
              /\ Started(u) /\ w.next.revision <= store[u].revision
              /\ w.next.revision = store[u].revision => store[u] = w.next
          BY <3>0, <3>1 DEF OpConsistent
        <5>2. u \in DOMAIN store
          BY <5>1 DEF Started
        <5> QED
          BY <1>4, <1>10, <4>2, <4>3, <5>1, <5>2
      <4>6. pc[q] = "cas" /\ w.kind = "close" => Started(u)'
        BY <1>10, <3>0, <3>1, <4>2 DEF OpConsistent
      <4> QED
        BY <3>0, <3>1, <4>4, <4>5, <4>6 DEF OpConsistent
    <3> QED
      BY <3>2, <3>3
  <2> QED
    BY <2>1, <2>2
<1>13. ASSUME NEW u \in Transactions PROVE EffectConsistent(u)'
  <2>1. /\ EffectConsistent(u) /\ calls[u] \in Nat /\ performed[u] \in Nat
    BY <1>4 DEF CPInv, CPTypeOK
  <2>2. \A q, s \in All : Arms(q, u)' /\ Arms(s, u)' => q = s
    BY <1>9, <1>11, <2>1 DEF EffectConsistent
  <2>3. u \in DOMAIN store' /\ store'[u].phase \in {"COMMITTED", "RESULT_UNAVAILABLE"} =>
           performed[u] = 1
    <3>1. CASE u # t
      BY <1>1, <2>1, <3>1 DEF EffectConsistent
    <3>2. CASE u = t
      <4> SUFFICES ASSUME n.phase \in {"COMMITTED", "RESULT_UNAVAILABLE"}
                   PROVE  performed[u] = 1
        BY <1>1, <3>2
      <4>1. BuiltOn(m, store[t]) /\ store[t] \in Records /\ ValidRecord(store[t])
            /\ t \in DOMAIN store
        BY <1>2
      <4>2. m.kind = "close" \/ (m.kind = "deliver" /\ store[t].phase = n.phase)
        BY <1>1, <4>1, BuiltPhases DEF n
      <4> QED
        BY <1>0, <1>4, <2>1, <3>2, <4>1, <4>2 DEF EffectConsistent, OpConsistent, n, t
    <3> QED
      BY <3>1, <3>2
  <2>4. u \in DOMAIN store' /\ store'[u].phase = "FAILED_PRE_EFFECT" =>
           /\ performed[u] = 0
           /\ \A q \in All : <<q, u>> \notin inFlight /\ ~Arms(q, u)'
    <3>1. CASE u # t
      BY <1>1, <1>11, <2>1, <3>1 DEF EffectConsistent
    <3>2. CASE u = t
      <4> SUFFICES ASSUME n.phase = "FAILED_PRE_EFFECT"
                   PROVE  /\ performed[t] = 0
                          /\ \A q \in All : <<q, t>> \notin inFlight /\ ~Arms(q, t)'
        BY <1>1, <3>2
      <4>1. BuiltOn(m, store[t]) /\ store[t] \in Records /\ ValidRecord(store[t])
            /\ t \in DOMAIN store
        BY <1>2
      <4>2. m.kind # "arm"
        BY <1>9
      <4>3. CASE ~store[t].started
        <5>1. ~Started(t) /\ calls[t] = 0
          BY <2>1, <3>2, <4>3 DEF Started, EffectConsistent
        <5> QED
          BY <1>1, <1>8, <1>11, <2>1, <3>2, <4>2, <5>1 DEF EffectConsistent
      <4>4. CASE m.kind = "close"
        <5>1. Arms(p, t)
          BY <1>0, <4>4 DEF Arms, t
        <5>2. \A q \in All : Arms(q, t) => q = p
          BY <2>1, <3>2, <5>1 DEF EffectConsistent
        <5>3. performed[t] = 0 /\ \A q \in All : <<q, t>> \notin inFlight
          BY <1>0, <1>4, <4>4 DEF OpConsistent, n, t
        <5> QED
          BY <1>1, <1>11, <4>2, <5>2, <5>3
      <4>5. CASE store[t].phase = "FAILED_PRE_EFFECT"
        BY <1>1, <1>11, <2>1, <3>2, <4>1, <4>2, <4>5 DEF EffectConsistent
      <4> QED
        BY <1>1, <4>1, <4>3, <4>4, <4>5, BuiltPhases DEF n
    <3> QED
      BY <3>1, <3>2
  <2> QED
    BY <1>10, <2>1, <2>2, <2>3, <2>4 DEF EffectConsistent
<1>14. IdentitiesDisjoint'
  <2> SUFFICES ASSUME NEW u \in DOMAIN store', NEW v \in DOMAIN store', u # v
               PROVE  IdentityKeys(u, store'[u]) \cap IdentityKeys(v, store'[v]) = {}
    BY DEF IdentitiesDisjoint, IdentityKeys
  <2>1. \A x \in DOMAIN store \ {t} : IdentityKeys(x, store[x]) \cap IdentityKeys(t, n) = {}
    BY <1>5 DEF IdentitiesFree, n, t
  <2>2. CASE u # t /\ v # t
    BY <1>1, <1>5, <2>2 DEF IdentitiesDisjoint
  <2>3. CASE u = t /\ v # t
    BY <1>1, <2>1, <2>3
  <2>4. CASE u # t /\ v = t
    BY <1>1, <2>1, <2>4
  <2> QED
    BY <2>2, <2>3, <2>4
<1> QED
    BY <1>6, <1>7, <1>12, <1>13, <1>14 DEF CPInv

\* The effect port is called by the one process that armed the transaction.
LEMMA CallEffectInv ==
    ASSUME CPInv, NEW p \in All, CallEffect(p)
    PROVE  CPInv'
<1>0. PICK m : m = op[p]
    OBVIOUS
<1> DEFINE t == m.transaction
<1>1. /\ pc[p] = "armed" /\ pc' = [pc EXCEPT ![p] = "called"]
      /\ inFlight' = inFlight \cup {<<p, t>>}
      /\ calls' = [calls EXCEPT ![t] = @ + 1]
      /\ UNCHANGED <<store, clock, distrusted, op, performed, crashes>>
    BY <1>0 DEF CallEffect
<1>2. m \in Mutations /\ m.kind = "arm"
    BY <1>0, <1>1 DEF CPInv, CPTypeOK
<1>3. t \in Transactions
    BY <1>2 DEF Mutations
<1>4. /\ \A q \in All : OpConsistent(q)
      /\ \A u \in Transactions : EffectConsistent(u) /\ calls[u] \in Nat /\ performed[u] \in Nat
      /\ pc \in [All -> {"idle", "cas", "armed", "called"}]
      /\ calls \in [Transactions -> Nat]
    BY DEF CPInv, CPTypeOK
<1>5. calls[t] = 0 /\ Started(t) /\ Arms(p, t)
    BY <1>0, <1>1, <1>4 DEF OpConsistent, Arms
<1>6. /\ pc'[p] = "called" /\ \A q \in All \ {p} : pc'[q] = pc[q]
      /\ calls'[t] = 1 /\ \A u \in Transactions \ {t} : calls'[u] = calls[u]
      /\ performed[t] = 0 /\ \A q \in All : <<q, t>> \notin inFlight
      /\ \A q \in All : Arms(q, t) => q = p
    BY <1>1, <1>3, <1>4, <1>5 DEF EffectConsistent
<1> HIDE DEF t
<1>7. CPTypeOK'
  <2>1. calls' \in [Transactions -> Nat]
    BY <1>1, <1>3, <1>4
  <2>2. inFlight' \subseteq All \X Transactions
    BY <1>1, <1>3 DEF CPInv, CPTypeOK
  <2> QED
    BY <1>0, <1>1, <1>2, <1>6, <2>1, <2>2 DEF CPInv, CPTypeOK
<1>8. \A q \in All, u \in Transactions : Arms(q, u)' <=> Arms(q, u)
    BY <1>0, <1>1, <1>6 DEF Arms
<1>9. ASSUME NEW q \in All PROVE OpConsistent(q)'
  <2>1. CASE q = p
    BY <1>0, <1>1, <1>4, <1>6, <2>1 DEF OpConsistent, Started, t
  <2>2. CASE q # p /\ pc[q] = "idle"
    BY <1>6, <2>2 DEF OpConsistent
  <2>3. CASE q # p /\ pc[q] # "idle"
    <3>0. PICK w : w = op[q]
      OBVIOUS
    <3>1. w \in Mutations
      BY <2>3, <3>0 DEF CPInv, CPTypeOK
    <3>2. w.transaction \in Transactions
      BY <3>1 DEF Mutations
    <3>3. CASE w.transaction = t
      <4>1. ~Arms(q, t)
        BY <1>6, <2>3
      <4>2. pc[q] = "cas" /\ w.kind # "close"
        BY <1>4, <2>3, <3>0, <3>3, <4>1 DEF Arms
      <4> QED
        BY <1>1, <1>4, <1>6, <2>3, <3>0, <4>2 DEF OpConsistent, Started
    <3>4. CASE w.transaction # t
      <4>1. /\ calls'[w.transaction] = calls[w.transaction]
            /\ \A s \in All : <<s, w.transaction>> \in inFlight' <=>
                                 <<s, w.transaction>> \in inFlight
        BY <1>1, <1>6, <3>2, <3>4
      <4> QED
        BY <1>1, <1>4, <1>6, <2>3, <3>0, <4>1 DEF OpConsistent, Started
    <3> QED
      BY <3>3, <3>4
  <2> QED
    BY <2>1, <2>2, <2>3
<1>10. ASSUME NEW u \in Transactions PROVE EffectConsistent(u)'
  <2>1. CASE u = t
    <3>1. store[t].phase # "FAILED_PRE_EFFECT" /\ t \in DOMAIN store
      BY <1>3, <1>4, <1>5 DEF EffectConsistent, Started
    <3>2. \A q \in All : <<q, t>> \in inFlight' => q = p
      BY <1>1, <1>6
    <3> QED
      BY <1>1, <1>3, <1>4, <1>5, <1>6, <1>8, <2>1, <3>1, <3>2 DEF EffectConsistent, Started
  <2>2. CASE u # t
    <3>1. \A q \in All : <<q, u>> \in inFlight' <=> <<q, u>> \in inFlight
      BY <1>1, <2>2
    <3> QED
      BY <1>1, <1>4, <1>6, <1>8, <2>2, <3>1 DEF EffectConsistent, Started
  <2> QED
    BY <2>1, <2>2
<1>11. IdentitiesDisjoint' /\ \A u \in DOMAIN store' : ValidRecord(store'[u])
    BY <1>1 DEF CPInv, IdentitiesDisjoint, IdentityKeys
<1> QED
    BY <1>7, <1>9, <1>10, <1>11 DEF CPInv

\* The effect of the one call under way takes place.
LEMMA EffectHappensInv ==
    ASSUME CPInv, NEW p \in All, NEW t \in Transactions, EffectHappens(p, t)
    PROVE  CPInv'
<1>1. /\ <<p, t>> \in inFlight /\ inFlight' = inFlight \ {<<p, t>>}
      /\ performed' = [performed EXCEPT ![t] = @ + 1]
      /\ UNCHANGED <<store, clock, distrusted, pc, op, calls, crashes>>
    BY DEF EffectHappens
<1>2. /\ \A q \in All : OpConsistent(q)
      /\ \A u \in Transactions : EffectConsistent(u) /\ calls[u] \in Nat /\ performed[u] \in Nat
      /\ performed \in [Transactions -> Nat]
    BY DEF CPInv, CPTypeOK
<1>3. /\ calls[t] = 1 /\ performed[t] = 0 /\ performed'[t] = 1
      /\ \A q \in All : <<q, t>> \in inFlight => q = p
      /\ \A u \in Transactions \ {t} : performed'[u] = performed[u]
      /\ \A u \in Transactions \ {t}, q \in All : <<q, u>> \in inFlight' <=> <<q, u>> \in inFlight
      /\ \A q \in All : <<q, t>> \notin inFlight'
    BY <1>1, <1>2 DEF EffectConsistent
<1>4. CPTypeOK'
  <2>1. performed' \in [Transactions -> Nat]
    BY <1>1, <1>2
  <2> QED
    BY <1>1, <2>1 DEF CPInv, CPTypeOK
<1>5. \A q \in All, u \in Transactions : Arms(q, u)' <=> Arms(q, u)
    BY <1>1 DEF Arms
<1>6. ASSUME NEW q \in All PROVE OpConsistent(q)'
  <2>1. CASE pc[q] = "idle"
    BY <1>1, <2>1 DEF OpConsistent
  <2>2. CASE pc[q] # "idle"
    <3>0. PICK w : w = op[q]
      OBVIOUS
    <3>1. w.transaction \in Transactions
      BY <2>2, <3>0 DEF CPInv, CPTypeOK, Mutations
    <3>2. CASE w.transaction = t
      <4>1. ~(pc[q] = "cas" /\ w.kind = "close" /\ w.next.phase = "FAILED_PRE_EFFECT")
        BY <1>1, <1>2, <3>0, <3>2 DEF OpConsistent
      <4> QED
        BY <1>1, <1>2, <1>3, <3>0, <3>2, <4>1 DEF OpConsistent, Started
    <3>3. CASE w.transaction # t
      BY <1>1, <1>2, <1>3, <3>0, <3>1, <3>3 DEF OpConsistent, Started
    <3> QED
      BY <3>2, <3>3
  <2> QED
    BY <2>1, <2>2
<1>7. ASSUME NEW u \in Transactions PROVE EffectConsistent(u)'
  <2>1. CASE u = t
    <3>1. t \in DOMAIN store => store[t].phase # "FAILED_PRE_EFFECT"
      BY <1>1, <1>2 DEF EffectConsistent
    <3> QED
      BY <1>1, <1>2, <1>3, <1>5, <2>1, <3>1 DEF EffectConsistent, Started
  <2>2. CASE u # t
    BY <1>1, <1>2, <1>3, <1>5, <2>2 DEF EffectConsistent, Started
  <2> QED
    BY <2>1, <2>2
<1>8. IdentitiesDisjoint' /\ \A u \in DOMAIN store' : ValidRecord(store'[u])
    BY <1>1 DEF CPInv, IdentitiesDisjoint, IdentityKeys
<1> QED
    BY <1>4, <1>6, <1>7, <1>8 DEF CPInv

\* What the operations build on a record with a revision to spare is a record.
LEMMA BuiltFits ==
    ASSUME NEW r \in Records, r.revision \in 1..4, NEW now \in Time, NEW phase \in Phase
    PROVE  /\ consumeCommitPermit(r, now) \in Records
           /\ consumeCommitPermit(r, now).updatedAt = now
           /\ markEffectInFlight(r, now) \in Records
           /\ markEffectInFlight(r, now).updatedAt = now
           /\ closeTerminal(r, phase, now) \in Records
           /\ closeTerminal(r, phase, now).updatedAt = now
           /\ closeTerminal(r, phase, now).phase = phase
           /\ markEvidenceDelivered(r, now) \in Records
           /\ markEvidenceDelivered(r, now).updatedAt = now
<1>1. r.revision + 1 \in 1..5
    OBVIOUS
<1>2. /\ "COMMIT_PERMIT" \in Phase /\ "EFFECT_IN_FLIGHT" \in Phase
    BY DEF Phase
<1>3. /\ consumeCommitPermit(r, now) \in Records
      /\ consumeCommitPermit(r, now).updatedAt = now
    BY <1>1, <1>2 DEF consumeCommitPermit, Records
<1>4. /\ markEffectInFlight(r, now) \in Records
      /\ markEffectInFlight(r, now).updatedAt = now
    BY <1>1, <1>2 DEF markEffectInFlight, Records
<1>5. /\ closeTerminal(r, phase, now) \in Records
      /\ closeTerminal(r, phase, now).updatedAt = now
      /\ closeTerminal(r, phase, now).phase = phase
    BY <1>1 DEF closeTerminal, Records
<1>6. /\ markEvidenceDelivered(r, now) \in Records
      /\ markEvidenceDelivered(r, now).updatedAt = now
    BY <1>1 DEF markEvidenceDelivered, Records
<1> QED
    BY <1>3, <1>4, <1>5, <1>6

\* The mutation that closes an armed record is built on it.
LEMMA CloseIsBuilt ==
    ASSUME NEW r \in Records, ValidRecord(r), r.phase = "EFFECT_IN_FLIGHT",
           NEW now \in Time, r.updatedAt <= now, NEW outcome \in Terminal,
           NEW t \in Transactions
    PROVE  LET c == [kind |-> "close", transaction |-> t, expected |-> r.revision,
                     next |-> closeTerminal(r, outcome, now)]
           IN  /\ c \in Mutations /\ c.expected > 0 /\ BuiltOn(c, r)
               /\ c.next.phase = outcome
<1> DEFINE n == closeTerminal(r, outcome, now)
           c == [kind |-> "close", transaction |-> t, expected |-> r.revision, next |-> n]
<1>1. r.revision = 3
    BY DEF ValidRecord, ValidProjection, ReachableRevision, Terminal
<1>2. n \in Records /\ n.phase = outcome /\ n.updatedAt = now
  <2>1. r.revision \in 1..4 /\ outcome \in Phase
    BY <1>1 DEF Phase
  <2> QED
    BY <2>1, BuiltFits
<1> HIDE DEF n
<1>3. c \in Mutations
    BY <1>1, <1>2 DEF Mutations
<1>4. /\ c.kind = "close" /\ c.next = n /\ c.next.updatedAt = now /\ c.expected = 3
    BY <1>1, <1>2
<1>5. BuiltOn(c, r)
    BY <1>2, <1>4 DEF BuiltOn, n
<1> QED
    BY <1>2, <1>3, <1>4, <1>5 DEF n

\* The caller of the effect port takes its answer, and closes the record unless
\* the clock is behind it.
LEMMA ObserveEffectInv ==
    ASSUME CPInv, NEW p \in All, NEW outcome \in Terminal, ObserveEffect(p, outcome)
    PROVE  CPInv'
<1>0. PICK m : m = op[p]
    OBVIOUS
<1> DEFINE t == m.transaction
           armed == m.next
           c == [kind |-> "close", transaction |-> t, expected |-> armed.revision,
                 next |-> closeTerminal(armed, outcome, clock)]
<1>1. /\ pc[p] = "called" /\ outcome \in Observable(p, t)
      /\ inFlight' = IF outcome = "FAILED_PRE_EFFECT" THEN inFlight \ {<<p, t>>} ELSE inFlight
      /\ \/ /\ armed.updatedAt <= clock
            /\ pc' = [pc EXCEPT ![p] = "cas"] /\ op' = [op EXCEPT ![p] = c]
         \/ pc' = [pc EXCEPT ![p] = "idle"] /\ op' = [op EXCEPT ![p] = NoOp]
      /\ UNCHANGED <<store, clock, distrusted, calls, performed, crashes>>
    BY <1>0 DEF ObserveEffect, Submit, Finish
<1>2. m \in Mutations
    BY <1>0, <1>1 DEF CPInv, CPTypeOK
<1>3. t \in Transactions /\ armed \in Records /\ clock \in Time
    BY <1>2 DEF Mutations, CPInv, CPTypeOK
<1>4. /\ \A q \in All : OpConsistent(q)
      /\ \A u \in Transactions : EffectConsistent(u) /\ calls[u] \in Nat /\ performed[u] \in Nat
      /\ pc \in [All -> {"idle", "cas", "armed", "called"}]
      /\ op \in [All -> Mutations \cup {NoOp}]
    BY DEF CPInv, CPTypeOK
<1>5. /\ ValidRecord(armed) /\ armed.phase = "EFFECT_IN_FLIGHT"
      /\ Started(t) /\ armed.revision <= store[t].revision
      /\ armed.revision = store[t].revision => store[t] = armed
      /\ calls[t] = 1 /\ (<<p, t>> \notin inFlight => performed[t] = 1)
      /\ Arms(p, t)
    BY <1>0, <1>1, <1>4 DEF OpConsistent, Arms
<1>6. armed.updatedAt <= clock =>
         c \in Mutations /\ c.expected > 0 /\ BuiltOn(c, armed) /\ c.next.phase = outcome
    BY <1>3, <1>5, CloseIsBuilt
<1>7. /\ c.kind = "close" /\ c.transaction = t /\ c.expected = armed.revision
    OBVIOUS
<1> HIDE DEF t, armed, c
<1>8. /\ \A q \in All : Arms(q, t) => q = p
      /\ \A q \in All : <<q, t>> \in inFlight => performed[t] = 0
      /\ <<p, t>> \in inFlight => \A q \in All : <<q, t>> \in inFlight => q = p
    BY <1>3, <1>4, <1>5 DEF EffectConsistent
<1>9. /\ outcome \in {"COMMITTED", "RESULT_UNAVAILABLE"} => performed[t] = 1
      /\ outcome = "FAILED_PRE_EFFECT" =>
            performed[t] = 0 /\ \A q \in All : <<q, t>> \notin inFlight'
    BY <1>1, <1>5, <1>8 DEF Observable
<1>10. /\ \/ pc'[p] = "cas" /\ op'[p] = c /\ armed.updatedAt <= clock
          \/ pc'[p] = "idle" /\ op'[p] = NoOp
       /\ \A q \in All \ {p} : pc'[q] = pc[q] /\ op'[q] = op[q]
       /\ pc' \in [All -> {"idle", "cas", "armed", "called"}]
       /\ op' \in [All -> Mutations \cup {NoOp}]
    BY <1>1, <1>4, <1>6
<1>11. /\ inFlight' \subseteq inFlight
       /\ \A q \in All, u \in Transactions \ {t} : <<q, u>> \in inFlight' <=> <<q, u>> \in inFlight
    BY <1>1
<1>12. CPTypeOK'
    BY <1>1, <1>6, <1>10, <1>11 DEF CPInv, CPTypeOK
<1>13. \A q \in All, u \in Transactions : Arms(q, u)' => Arms(q, u)
    BY <1>5, <1>7, <1>10 DEF Arms
<1>14. ASSUME NEW q \in All PROVE OpConsistent(q)'
  <2>1. CASE q = p /\ pc'[p] = "idle"
    BY <2>1 DEF OpConsistent
  <2>2. CASE q = p /\ pc'[p] = "cas" /\ op'[p] = c /\ armed.updatedAt <= clock
    <3>1. t \in DOMAIN store' /\ Started(t)' /\ calls'[t] = 1
      BY <1>1, <1>5 DEF Started
    <3>2. c.expected > 0 /\ c.expected <= store'[t].revision
          /\ (c.expected = store'[t].revision => BuiltOn(c, store'[t]))
      BY <1>1, <1>5, <1>6, <1>7, <2>2
    <3> QED
      BY <1>1, <1>6, <1>7, <1>9, <2>2, <3>1, <3>2 DEF OpConsistent
  <2>3. CASE q # p /\ pc[q] = "idle"
    BY <1>10, <2>3 DEF OpConsistent
  <2>4. CASE q # p /\ pc[q] # "idle"
    <3>0. PICK w : w = op[q]
      OBVIOUS
    <3>1. w.transaction \in Transactions
      BY <2>4, <3>0 DEF CPInv, CPTypeOK, Mutations
    <3>2. CASE w.transaction = t
      <4>1. pc[q] = "cas" /\ w.kind # "close"
        BY <1>4, <1>8, <2>4, <3>0, <3>2 DEF Arms
      <4> QED
        BY <1>1, <1>4, <1>10, <2>4, <3>0, <4>1 DEF OpConsistent, Started
    <3>3. CASE w.transaction # t
      BY <1>1, <1>4, <1>10, <1>11, <2>4, <3>0, <3>1, <3>3 DEF OpConsistent, Started
    <3> QED
      BY <3>2, <3>3
  <2> QED
    BY <1>10, <2>1, <2>2, <2>3, <2>4
<1>15. ASSUME NEW u \in Transactions PROVE EffectConsistent(u)'
    BY <1>1, <1>4, <1>11, <1>13 DEF EffectConsistent, Started
<1>16. IdentitiesDisjoint' /\ \A u \in DOMAIN store' : ValidRecord(store'[u])
    BY <1>1 DEF CPInv, IdentitiesDisjoint, IdentityKeys
<1> QED
    BY <1>12, <1>14, <1>15, <1>16 DEF CPInv

\* The clock and the authority move without touching a record or a process.
LEMMA WorldInv ==
    ASSUME CPInv, clock' \in Time, distrusted' \subseteq Transactions,
           UNCHANGED <<store, pc, op, inFlight, calls, performed, crashes>>
    PROVE  CPInv'
<1>1. CPTypeOK'
    BY DEF CPInv, CPTypeOK
<1>2. \A p \in All : OpConsistent(p)'
    BY DEF CPInv, OpConsistent, Started
<1>3. \A p \in All, t \in Transactions : Arms(p, t)' => Arms(p, t)
    BY DEF Arms
<1> QED
    BY <1>1, <1>2, <1>3, QuietInv

\* What an operation reads is a valid record whose successor fits the types.
LEMMA ReadRecord ==
    ASSUME CPInv, NEW p \in All, NEW t \in Transactions, NEW phases \in SUBSET Phase,
           NEW now \in Time, Reads(p, t, phases, now)
    PROVE  /\ pc[p] = "idle" /\ t \in DOMAIN store /\ store[t] \in Records
           /\ ValidRecord(store[t]) /\ store[t].phase \in phases
           /\ store[t].updatedAt <= now
           /\ store[t].revision \in 1..5
           /\ store[t].outbox # "DELIVERED" => store[t].revision \in 1..4
           /\ store[t].phase \notin Terminal => store[t].outbox = "RESERVED"
<1>1. /\ pc[p] = "idle" /\ t \in DOMAIN store /\ store[t] \in Records
      /\ ValidRecord(store[t]) /\ store[t].phase \in phases
      /\ store[t].updatedAt <= now
    BY DEF Reads, CPInv, CPTypeOK
<1>2. store[t].outbox # "DELIVERED" => store[t].revision \in 1..4
    BY <1>1 DEF ValidRecord, ReachableRevision, Records, Phase, Terminal
<1> QED
    BY <1>1, <1>2 DEF Records, ValidRecord, ValidProjection

\* Every operation that reads a record submits a mutation built on it.
LEMMA OperationInv ==
    ASSUME CPInv, NEW p \in All, NEW t \in Transactions,
           \/ prepare(p, t) \/ permit(p, t) \/ executeOnce(p, t) \/ abortPrepared(p, t)
           \/ recover(p, t) \/ \E at \in Time : deliverEvidence(p, t, at)
    PROVE  CPInv'
<1> DEFINE Others == UNCHANGED <<store, clock, distrusted, inFlight, calls, performed, crashes>>
           Mutation(kind, expected, next) ==
               [kind |-> kind, transaction |-> t, expected |-> expected, next |-> next]
<1>0. clock \in Time
    BY DEF CPInv, CPTypeOK
<1>1. ASSUME NEW kind \in {"permit", "arm", "abort", "recover", "deliver"},
             NEW next \in Records, NEW now \in Time,
             pc[p] = "idle", t \in DOMAIN store, store[t].revision \in 1..4,
             store[t].updatedAt <= now, next.updatedAt = now,
             BuiltOn(Mutation(kind, store[t].revision, next), store[t]),
             Submit(p, kind, t, store[t].revision, next), Others
      PROVE  CPInv'
  <2>1. PICK m : m = Mutation(kind, store[t].revision, next)
    OBVIOUS
  <2>2. /\ m \in Mutations /\ m.kind = kind /\ m.expected = store[t].revision
        /\ m.transaction = t /\ m.next = next
    BY <1>1, <2>1 DEF Mutations
  <2>3. pc' = [pc EXCEPT ![p] = "cas"] /\ op' = [op EXCEPT ![p] = m]
    BY <1>1, <2>1 DEF Submit
  <2>4. m.expected > 0 /\ m.kind # "prepare" /\ m.kind # "close"
        /\ BuiltOn(m, store[m.transaction])
    BY <1>1, <2>1, <2>2
  <2> QED
    BY <1>1, <2>2, <2>3, <2>4, SubmitInv
<1>2. CASE prepare(p, t)
  <2>1. PICK m : m = Mutation("prepare", 0, createPrepared(clock))
    OBVIOUS
  <2>2. m \in Mutations /\ m.kind = "prepare" /\ m.expected = 0
        /\ m.next = createPrepared(m.next.updatedAt)
    BY <1>0, <2>1, PreparedIsValid DEF Mutations
  <2>3. /\ pc[p] = "idle" /\ pc' = [pc EXCEPT ![p] = "cas"] /\ op' = [op EXCEPT ![p] = m]
        /\ Others
    BY <1>2, <2>1 DEF prepare, Submit, effects
  <2> QED
    BY <2>2, <2>3, SubmitInv
<1>3. CASE permit(p, t)
  <2> DEFINE r == store[t]
             n == consumeCommitPermit(r, clock)
  <2>1. Reads(p, t, {"PREPARED"}, clock) /\ {"PREPARED"} \in SUBSET Phase
    BY <1>3 DEF permit, Phase
  <2>2. /\ pc[p] = "idle" /\ t \in DOMAIN store /\ r \in Records /\ r.phase = "PREPARED"
        /\ r.updatedAt <= clock /\ r.revision \in 1..4
    BY <1>0, <2>1, ReadRecord DEF Terminal
  <2>3. n \in Records /\ n.updatedAt = clock
    <3>1. "PREPARED" \in Phase
      BY DEF Phase
    <3> QED
      BY <1>0, <2>2, <3>1, BuiltFits
  <2>4. Submit(p, "permit", t, r.revision, n) /\ Others
    BY <1>3 DEF permit, effects
  <2>5. BuiltOn(Mutation("permit", r.revision, n), r)
    BY <2>2, <2>3 DEF BuiltOn
  <2> HIDE DEF n
  <2> QED
    BY <1>0, <1>1, <2>2, <2>3, <2>4, <2>5
<1>4. CASE executeOnce(p, t)
  <2> DEFINE r == store[t]
             n == markEffectInFlight(r, clock)
  <2>1. Reads(p, t, {"COMMIT_PERMIT"}, clock) /\ {"COMMIT_PERMIT"} \in SUBSET Phase
    BY <1>4 DEF executeOnce, Phase
  <2>2. /\ pc[p] = "idle" /\ t \in DOMAIN store /\ r \in Records /\ r.phase = "COMMIT_PERMIT"
        /\ r.updatedAt <= clock /\ r.revision \in 1..4
    BY <1>0, <2>1, ReadRecord DEF Terminal
  <2>3. n \in Records /\ n.updatedAt = clock
    <3>1. "PREPARED" \in Phase
      BY DEF Phase
    <3> QED
      BY <1>0, <2>2, <3>1, BuiltFits
  <2>4. Submit(p, "arm", t, r.revision, n) /\ Others
    BY <1>4 DEF executeOnce, effects
  <2>5. BuiltOn(Mutation("arm", r.revision, n), r)
    BY <2>2, <2>3 DEF BuiltOn
  <2> HIDE DEF n
  <2> QED
    BY <1>0, <1>1, <2>2, <2>3, <2>4, <2>5
<1>5. CASE abortPrepared(p, t)
  <2> DEFINE r == store[t]
             n == closeTerminal(r, "FAILED_PRE_EFFECT", clock)
  <2>1. Reads(p, t, {"PREPARED"}, clock) /\ {"PREPARED"} \in SUBSET Phase
        /\ "FAILED_PRE_EFFECT" \in Phase
    BY <1>5 DEF abortPrepared, Phase, Terminal
  <2>2. /\ pc[p] = "idle" /\ t \in DOMAIN store /\ r \in Records /\ r.phase = "PREPARED"
        /\ r.updatedAt <= clock /\ r.revision \in 1..4
    BY <1>0, <2>1, ReadRecord DEF Terminal
  <2>3. n \in Records /\ n.updatedAt = clock
    BY <1>0, <2>1, <2>2, BuiltFits
  <2>4. Submit(p, "abort", t, r.revision, n) /\ Others
    BY <1>5 DEF abortPrepared, effects
  <2>5. BuiltOn(Mutation("abort", r.revision, n), r)
    BY <2>2, <2>3 DEF BuiltOn
  <2> HIDE DEF n
  <2> QED
    BY <1>0, <1>1, <2>2, <2>3, <2>4, <2>5
<1>6. CASE recover(p, t)
  <2> DEFINE r == store[t]
             n == closeTerminal(r, recoveryPhase(r.phase), clock)
  <2>1. Reads(p, t, Recoverable, clock) /\ Recoverable \in SUBSET Phase
        /\ recoveryPhase(r.phase) \in Phase
    BY <1>6 DEF recover, Phase, Terminal, Recoverable, recoveryPhase
  <2>2. /\ pc[p] = "idle" /\ t \in DOMAIN store /\ r \in Records /\ r.phase \in Recoverable
        /\ r.updatedAt <= clock /\ r.revision \in 1..4
    BY <1>0, <2>1, ReadRecord DEF Terminal, Recoverable
  <2>3. n \in Records /\ n.updatedAt = clock
    BY <1>0, <2>1, <2>2, BuiltFits
  <2>4. Submit(p, "recover", t, r.revision, n) /\ Others
    BY <1>6 DEF recover, effects
  <2>5. BuiltOn(Mutation("recover", r.revision, n), r)
    BY <2>2, <2>3 DEF BuiltOn
  <2> HIDE DEF n
  <2> QED
    BY <1>0, <1>1, <2>2, <2>3, <2>4, <2>5
<1>7. ASSUME NEW at \in Time, deliverEvidence(p, t, at) PROVE CPInv'
  <2> DEFINE r == store[t]
             n == markEvidenceDelivered(r, at)
  <2>1. Reads(p, t, Terminal, at) /\ Terminal \in SUBSET Phase /\ r.outbox = "READY"
    BY <1>7 DEF deliverEvidence, Phase
  <2>2. /\ pc[p] = "idle" /\ t \in DOMAIN store /\ r \in Records /\ r.phase \in Terminal
        /\ r.updatedAt <= at /\ r.revision \in 1..4
    BY <2>1, ReadRecord
  <2>3. n \in Records /\ n.updatedAt = at
    BY <2>2, BuiltFits DEF Records
  <2>4. Submit(p, "deliver", t, r.revision, n) /\ Others
    BY <1>7 DEF deliverEvidence, effects
  <2>5. BuiltOn(Mutation("deliver", r.revision, n), r)
    BY <2>1, <2>2, <2>3 DEF BuiltOn
  <2> HIDE DEF n
  <2> QED
    BY <1>1, <2>2, <2>3, <2>4, <2>5
<1> QED
    BY <1>2, <1>3, <1>4, <1>5, <1>6, <1>7

\* The answers of the store, given or lost.
LEMMA AnswerInv ==
    ASSUME CPInv, NEW p \in All, CasApplied(p) \/ CasRefused(p) \/ CasUnanswered(p)
    PROVE  CPInv'
<1>0. crashes \in 0..MaxCrashes
    BY DEF CPInv, CPTypeOK
<1>1. CASE CasApplied(p)
    BY <1>1, WriteInv DEF CasApplied, effects
<1>2. CASE CasRefused(p)
    BY <1>0, <1>2, FinishInv DEF CasRefused, effects
<1>3. CASE CasUnanswered(p)
  <2>1. CASE CasAdmits(op[p]) /\ store' = Written(op[p])
    BY <1>3, <2>1, WriteInv DEF CasUnanswered, effects
  <2>2. CASE store' = store
    BY <1>0, <1>3, <2>2, FinishInv DEF CasUnanswered, effects
  <2> QED
    BY <1>3, <2>1, <2>2 DEF CasUnanswered
<1> QED
    BY <1>1, <1>2, <1>3

\* Every step keeps the invariant.
LEMMA NextInv == CPInv /\ [Next]_vars => CPInv'
<1> SUFFICES ASSUME CPInv, [Next]_vars PROVE CPInv'
    OBVIOUS
<1>1. ASSUME NEW p \in Processes, NEW t \in Transactions,
             \/ prepare(p, t) \/ permit(p, t) \/ executeOnce(p, t)
             \/ abortPrepared(p, t) \/ \E at \in Time : deliverEvidence(p, t, at)
      PROVE  CPInv'
    BY <1>1, OperationInv DEF All
<1>2. ASSUME NEW p \in All, NEW t \in Transactions, recover(p, t) PROVE CPInv'
    BY <1>2, OperationInv
<1>3. ASSUME NEW p \in All, NEW t \in Transactions, EffectHappens(p, t) PROVE CPInv'
    BY <1>3, EffectHappensInv
<1>4. ASSUME NEW p \in All, Continue(p) PROVE CPInv'
    BY <1>4, AnswerInv, CallEffectInv, ObserveEffectInv DEF Continue
<1>5. ASSUME NEW p \in All, Crash(p) PROVE CPInv'
  <2>1. crashes' \in 0..MaxCrashes
    BY <1>5, BoundAssumption DEF Crash, CPInv, CPTypeOK
  <2> QED
    BY <1>5, <2>1, FinishInv DEF Crash, effects
<1>6. ASSUME NEW t \in Transactions, Distrust(t) PROVE CPInv'
  <2>1. distrusted' \subseteq Transactions /\ clock' \in Time
    BY <1>6 DEF Distrust, CPInv, CPTypeOK
  <2> QED
    BY <1>6, <2>1, WorldInv DEF Distrust, effects
<1>7. CASE Tick
  <2>1. distrusted' \subseteq Transactions
    BY <1>7 DEF Tick, CPInv, CPTypeOK
  <2> QED
    BY <1>7, <2>1, WorldInv DEF Tick, effects
<1>8. CASE UNCHANGED vars
  <2>1. distrusted' \subseteq Transactions /\ clock' \in Time
    BY <1>8 DEF vars, CPInv, CPTypeOK
  <2> QED
    BY <1>8, <2>1, WorldInv DEF vars
<1> QED
    BY <1>1, <1>2, <1>3, <1>4, <1>5, <1>6, <1>7, <1>8 DEF Next

\* The invariant holds in every reachable state.
LEMMA Invariant == Spec => []CPInv
    BY InitInv, NextInv, PTL DEF Spec

-----------------------------------------------------------------------------
\* Theorems.

\* The state of the control plane keeps its types.
THEOREM TypeCorrect == Spec => []CPTypeOK
<1>1. CPInv => CPTypeOK
    BY DEF CPInv
<1> QED
    BY <1>1, Invariant, PTL

\* Whatever processes race, crash or lose, the next reader of the store finds
\* records that validateControlPlaneTransactionRecord accepts, and no mutation
\* whose revision matches is refused as an invalid successor.
THEOREM ValidRecords == Spec => []RecordsStayValid
<1>1. CPInv => RecordsStayValid
  <2> SUFFICES ASSUME CPInv PROVE RecordsStayValid
    OBVIOUS
  <2>1. \A t \in DOMAIN store : ValidRecord(store[t])
    BY DEF CPInv
  <2>2. ASSUME NEW p \in All, pc[p] = "cas", RevisionMatches(op[p])
        PROVE  MutationValid(op[p])
    <3> DEFINE m == op[p]
               t == m.transaction
    <3>1. m \in Mutations /\ OpConsistent(p)
      BY <2>2 DEF CPInv, CPTypeOK
    <3>2. m.next.updatedAt \in Time /\ m.expected \in Nat
      BY <3>1 DEF Mutations, Records
    <3>3. CASE m.kind = "prepare" /\ m.expected = 0 /\ m.next = createPrepared(m.next.updatedAt)
      BY <3>2, <3>3, PreparedIsValid DEF MutationValid
    <3>4. CASE /\ m.expected > 0 /\ t \in DOMAIN store
               /\ m.expected = store[t].revision => BuiltOn(m, store[t])
      <4>1. store[t].revision = m.expected
        BY <2>2, <3>2, <3>4 DEF RevisionMatches
      <4>2. store[t] \in Records /\ ValidRecord(store[t]) /\ BuiltOn(m, store[t])
        BY <2>1, <3>4, <4>1 DEF CPInv, CPTypeOK
      <4>3. Successor(store[t], m.next)
        BY <3>1, <4>2, BuiltIsValid
      <4> QED
        BY <3>4, <4>3 DEF MutationValid
    <3> QED
      BY <2>2, <3>1, <3>3, <3>4 DEF OpConsistent
  <2> QED
    BY <2>1, <2>2 DEF RecordsStayValid, ValidRecord
<1> QED
    BY <1>1, Invariant, PTL

\* The effect port is called once at most per transaction, and only after the
\* durable record says that the effect has started.
THEOREM RecordedFirst == Spec => []CallsAreRecordedFirst
<1>1. CPInv => CallsAreRecordedFirst
    BY DEF CPInv, EffectConsistent, Started, CallsAreRecordedFirst
<1> QED
    BY <1>1, Invariant, PTL

\* A COMMIT_PERMIT or a nonce leads to one effect, for any number of
\* transactions that share it and any number of processes that execute them.
THEOREM OneEffect == Spec => []OneEffectPerPermit
<1>1. CPInv => OneEffectPerPermit
  <2> SUFFICES ASSUME CPInv, NEW t \in Transactions, NEW u \in Transactions, t # u,
                      PermitIds[t] = PermitIds[u] \/ Nonces[t] \cap Nonces[u] # {}
               PROVE  performed[t] + performed[u] <= 1
    BY DEF OneEffectPerPermit
  <2>1. ASSUME NEW x \in Transactions
        PROVE  /\ performed[x] \in Nat /\ performed[x] <= 1
               /\ performed[x] > 0 => x \in DOMAIN store /\ store[x].permitted
    <3>1. EffectConsistent(x) /\ performed[x] \in Nat /\ calls[x] \in Nat
      BY DEF CPInv, CPTypeOK
    <3>2. performed[x] > 0 => Started(x)
      BY <3>1 DEF EffectConsistent
    <3>3. Started(x) => x \in DOMAIN store /\ store[x].permitted
      <4> SUFFICES ASSUME Started(x) PROVE x \in DOMAIN store /\ store[x].permitted
        OBVIOUS
      <4>1. x \in DOMAIN store /\ store[x].started /\ store[x] \in Records
            /\ ValidRecord(store[x])
        BY DEF Started, CPInv, CPTypeOK
      <4> QED
        BY <4>1 DEF ValidRecord, ValidProjection, Records, Phase, Terminal
    <3> QED
      BY <3>1, <3>2, <3>3 DEF EffectConsistent
  <2>2. ~(performed[t] > 0 /\ performed[u] > 0)
    <3> SUFFICES ASSUME performed[t] > 0, performed[u] > 0 PROVE FALSE
      OBVIOUS
    <3>1. t \in DOMAIN store /\ store[t].permitted /\ u \in DOMAIN store /\ store[u].permitted
      BY <2>1
    <3>2. IdentityKeys(t, store[t]) \cap IdentityKeys(u, store[u]) = {}
      BY <3>1 DEF CPInv, IdentitiesDisjoint
    <3>3. \A x \in {t, u} : /\ <<"commit-permit", PermitIds[x]>> \in IdentityKeys(x, store[x])
                            /\ \A n \in Nonces[x] : <<"nonce", n>> \in IdentityKeys(x, store[x])
      BY <3>1 DEF IdentityKeys
    <3>4. CASE PermitIds[t] = PermitIds[u]
      BY <3>2, <3>3, <3>4
    <3>5. CASE Nonces[t] \cap Nonces[u] # {}
      BY <3>2, <3>3, <3>5
    <3> QED
      BY <3>4, <3>5
  <2> QED
    BY <2>1, <2>2
<1> QED
    BY <1>1, Invariant, PTL

\* The store only changes by an admitted mutation, and then no effect takes place.
LEMMA StoreSteps ==
    ASSUME [Next]_vars
    PROVE  \/ store' = store
           \/ /\ performed' = performed
              /\ \E p \in All :
                    pc[p] = "cas" /\ CasAdmits(op[p]) /\ store' = Written(op[p])
<1>1. ASSUME NEW p \in All, Continue(p)
      PROVE  \/ store' = store
             \/ /\ performed' = performed
                /\ pc[p] = "cas" /\ CasAdmits(op[p]) /\ store' = Written(op[p])
    BY <1>1 DEF Continue, CasApplied, CasRefused, CasUnanswered, CallEffect, ObserveEffect,
       effects
<1> QED
    BY <1>1 DEF Next, vars, prepare, permit, executeOnce, abortPrepared, deliverEvidence,
       recover, EffectHappens, Crash, Distrust, Tick

\* A closed record only ever changes by the one delivery of its evidence.
THEOREM TerminalFrozen == Spec => TerminalIsFrozen
<1> DEFINE Frozen == \A t \in DOMAIN store :
          store[t].phase \in Terminal /\ store'[t] # store[t] =>
              /\ store[t].outbox = "READY"
              /\ \E at \in Time :
                    /\ store[t].updatedAt <= at
                    /\ store'[t] = markEvidenceDelivered(store[t], at)
<1>1. CPInv /\ [Next]_vars => [Frozen]_vars
  <2> SUFFICES ASSUME CPInv, [Next]_vars, NEW t \in DOMAIN store,
                      store[t].phase \in Terminal, store'[t] # store[t]
               PROVE  /\ store[t].outbox = "READY"
                      /\ \E at \in Time :
                            /\ store[t].updatedAt <= at
                            /\ store'[t] = markEvidenceDelivered(store[t], at)
    OBVIOUS
  <2>1. PICK p \in All : pc[p] = "cas" /\ CasAdmits(op[p]) /\ store' = Written(op[p])
    BY StoreSteps
  <2> DEFINE m == op[p]
  <2>2. m \in Mutations /\ t = m.transaction /\ store'[t] = m.next /\ m.next \in Records
    BY <2>1, AdmittedMutation
  <2>3. store[t] \in Records /\ ValidRecord(store[t]) /\ BuiltOn(m, store[t])
    BY <2>1, <2>2, AdmittedMutation
  <2>4. m.kind = "deliver"
    BY <2>2, <2>3, BuiltIsValid
  <2> QED
    BY <2>2, <2>3, <2>4 DEF BuiltOn, Records
<1> QED
    BY <1>1, Invariant, PTL DEF Spec, TerminalIsFrozen

\* A permit is taken, and an effect is started, only while the permit is in its
\* time and trusted at the moment of the commit.
THEOREM LivePermit == Spec => StartsUnderLivePermit
<1> DEFINE Lives == \A t \in Transactions :
          LET was(f) == t \in DOMAIN store /\ store[t][f]
              is(f) == t \in DOMAIN store' /\ store'[t][f]
          IN (is("permitted") /\ ~was("permitted")) \/ (is("started") /\ ~was("started")) =>
                 PermitCurrent(t) /\ t \notin distrusted
<1>1. CPInv /\ [Next]_vars => [Lives]_vars
  <2> SUFFICES ASSUME CPInv, [Next]_vars, NEW t \in Transactions, t \in DOMAIN store',
                      \/ store'[t].permitted /\ ~(t \in DOMAIN store /\ store[t].permitted)
                      \/ store'[t].started /\ ~(t \in DOMAIN store /\ store[t].started)
               PROVE  PermitCurrent(t) /\ t \notin distrusted
    OBVIOUS
  <2>1. PICK p \in All : pc[p] = "cas" /\ CasAdmits(op[p]) /\ store' = Written(op[p])
    BY StoreSteps
  <2> DEFINE m == op[p]
  <2>2. t = m.transaction /\ store'[t] = m.next
    <3>1. /\ DOMAIN store' = DOMAIN store \cup {m.transaction}
          /\ store'[m.transaction] = m.next
          /\ \A u \in DOMAIN store \ {m.transaction} : store'[u] = store[u]
      BY <2>1, AdmittedMutation
    <3> HIDE DEF m
    <3> QED
      BY <3>1
  <2>3. \/ m.kind = "prepare" /\ ~m.next.started /\ ~m.next.permitted
        \/ /\ t \in DOMAIN store
           /\ m.next.started <=> store[t].started \/ m.kind = "arm"
           /\ m.next.permitted <=> store[t].permitted \/ m.kind = "permit"
    BY <2>1, <2>2, AdmittedMutation
  <2>4. m.kind \in {"permit", "arm"}
    BY <2>2, <2>3
  <2> QED
    BY <2>1, <2>2, <2>4 DEF CasAdmits, FencePasses
<1> QED
    BY <1>1, Invariant, PTL DEF Spec, StartsUnderLivePermit

\* How a write moves the decision about its transaction.
LEMMA DecisionStep ==
    ASSUME CPInv, NEW p \in All, pc[p] = "cas", CasAdmits(op[p]), store' = Written(op[p]),
           NEW t, t = op[p].transaction
    PROVE  /\ t \in Transactions
           /\ \A u \in Transactions \ {t} : Decision(u)' = Decision(u)
           /\ \/ Decision(t)' = Decision(t)
              \/ Decision(t) = "open" /\ Decision(t)' \in {"granted", "failed-no-effect"}
              \/ /\ Decision(t) = "granted"
                 /\ Decision(t)' \in {"committed", "result-unavailable", "failed-no-effect",
                                      "uncertain"}
                 /\ Decision(t)' \in {"committed", "result-unavailable"} => performed[t] = 1
                 /\ Decision(t)' = "failed-no-effect" => performed[t] = 0
<1>0. PICK m : m = op[p]
    OBVIOUS
<1> DEFINE n == m.next
           r == store[t]
<1>1. /\ m \in Mutations /\ t \in Transactions /\ n \in Records
      /\ t = m.transaction
      /\ DOMAIN store' = DOMAIN store \cup {t} /\ store'[t] = n
      /\ \A u \in DOMAIN store \ {t} : store'[u] = store[u]
    BY <1>0, AdmittedMutation
<1>2. \/ m.kind = "prepare" /\ t \notin DOMAIN store /\ n.phase = "PREPARED"
      \/ /\ t \in DOMAIN store /\ r \in Records /\ ValidRecord(r) /\ BuiltOn(m, r)
    BY <1>0, AdmittedMutation
<1>3. ASSUME NEW u \in Transactions \ {t} PROVE Decision(u)' = Decision(u)
  <2>1. u \in DOMAIN store' <=> u \in DOMAIN store
    BY <1>1
  <2>2. u \in DOMAIN store => store'[u] = store[u]
    BY <1>1
  <2>3. CASE u \in DOMAIN store
    <3>1. store[u].phase \in Phase
      BY <2>3 DEF CPInv, CPTypeOK, Records
    <3> QED
      BY <2>1, <2>2, <2>3, <3>1 DEF Decision, Phase, Terminal
  <2>4. CASE u \notin DOMAIN store
    BY <2>1, <2>4 DEF Decision
  <2> QED
    BY <2>3, <2>4
<1>4. CASE t \notin DOMAIN store /\ n.phase = "PREPARED"
    BY <1>1, <1>3, <1>4 DEF Decision
<1>5. CASE t \in DOMAIN store /\ r \in Records /\ ValidRecord(r) /\ BuiltOn(m, r)
  <2>1. /\ n.phase \in {"COMMITTED", "RESULT_UNAVAILABLE"} =>
              m.kind = "close" \/ (m.kind = "deliver" /\ r.phase = n.phase)
        /\ n.phase = "FAILED_PRE_EFFECT" =>
              \/ m.kind \in {"abort", "recover"} /\ ~r.started
              \/ m.kind = "close"
              \/ m.kind = "deliver" /\ r.phase = "FAILED_PRE_EFFECT"
    BY <1>1, <1>5, BuiltPhases
  <2>2. Successor(r, n) /\ (r.phase \in Terminal <=> m.kind = "deliver")
    BY <1>1, <1>5, BuiltIsValid
  <2>3. AllowedPhaseTransition(r.phase, n.phase) /\ n.phase \in Phase /\ r.phase \in Phase
    BY <1>1, <1>5, <2>2 DEF Successor, Records
  <2>4. m.kind = "close" =>
           /\ n.phase \in {"COMMITTED", "RESULT_UNAVAILABLE"} => performed[t] = 1
           /\ n.phase = "FAILED_PRE_EFFECT" => performed[t] = 0
    BY <1>0, <1>1 DEF CPInv, OpConsistent
  <2>5. r.phase \in {"COMMIT_PERMIT", "EFFECT_IN_FLIGHT"} /\ n.phase = "FAILED_PRE_EFFECT" =>
           m.kind = "close"
    <3>1. m.kind # "abort"  \/ r.phase = "PREPARED"
      BY <1>5 DEF BuiltOn
    <3>2. m.kind = "recover" /\ n.phase = "FAILED_PRE_EFFECT" => r.phase = "PREPARED"
      <4> SUFFICES ASSUME m.kind = "recover", n.phase = "FAILED_PRE_EFFECT"
                   PROVE  r.phase = "PREPARED"
        OBVIOUS
      <4>1. n = closeTerminal(r, recoveryPhase(r.phase), n.updatedAt)
        BY <1>5 DEF BuiltOn
      <4>2. n.phase = recoveryPhase(r.phase)
        BY <1>5, <4>1 DEF closeTerminal, Records
      <4> QED
        BY <4>2 DEF recoveryPhase
    <3> QED
      BY <2>1, <3>1, <3>2
  <2>6. Decision(t) =
           CASE r.phase = "PREPARED" -> "open"
             [] r.phase \in {"COMMIT_PERMIT", "EFFECT_IN_FLIGHT"} -> "granted"
             [] r.phase = "COMMITTED" -> "committed"
             [] r.phase = "RESULT_UNAVAILABLE" -> "result-unavailable"
             [] r.phase = "FAILED_PRE_EFFECT" -> "failed-no-effect"
             [] r.phase = "UNCERTAIN" -> "uncertain"
    BY <1>5 DEF Decision
  <2>7. Decision(t)' =
           CASE n.phase = "PREPARED" -> "open"
             [] n.phase \in {"COMMIT_PERMIT", "EFFECT_IN_FLIGHT"} -> "granted"
             [] n.phase = "COMMITTED" -> "committed"
             [] n.phase = "RESULT_UNAVAILABLE" -> "result-unavailable"
             [] n.phase = "FAILED_PRE_EFFECT" -> "failed-no-effect"
             [] n.phase = "UNCERTAIN" -> "uncertain"
    BY <1>1 DEF Decision
  <2> HIDE DEF n, r
  <2>8. CASE r.phase = "PREPARED"
    BY <1>1, <1>3, <2>3, <2>6, <2>7, <2>8 DEF AllowedPhaseTransition, Terminal
  <2>9. CASE r.phase \in {"COMMIT_PERMIT", "EFFECT_IN_FLIGHT"}
    <3>1. n.phase \in {"COMMITTED", "RESULT_UNAVAILABLE"} => performed[t] = 1
      BY <2>1, <2>4, <2>9
    <3>2. n.phase = "FAILED_PRE_EFFECT" => performed[t] = 0
      BY <2>4, <2>5, <2>9
    <3> QED
      BY <1>1, <1>3, <2>3, <2>6, <2>7, <2>9, <3>1, <3>2 DEF AllowedPhaseTransition, Terminal
  <2>10. CASE r.phase \in Terminal
    <3>1. n.phase = r.phase
      BY <2>3, <2>10 DEF AllowedPhaseTransition, Terminal
    <3> QED
      BY <1>1, <1>3, <2>6, <2>7, <3>1
  <2> QED
    BY <2>3, <2>8, <2>9, <2>10 DEF Phase
<1> QED
    BY <1>2, <1>4, <1>5

\* The control plane implements EffectOnce: the durable phase is the decision,
\* authority is granted once, the effect happens at most once and under it, and
\* no phase claims an effect that did not happen or denies one that did or may.
THEOREM OneShotPromise == Spec => KeepsOneShotPromise
<1> DEFINE authority == [t \in Transactions |-> Decision(t)]
<1>1. Init => Abstract!EffectInit
    BY DEF Init, Abstract!EffectInit, Decision
<1>2. CPInv /\ [Next]_vars => [Abstract!EffectNext]_(Abstract!effectVars)
  <2> SUFFICES ASSUME CPInv, [Next]_vars
               PROVE  [Abstract!EffectNext]_(Abstract!effectVars)
    OBVIOUS
  <2>1. CASE store' = store /\ performed' = performed
    <3>1. \A t \in Transactions : Decision(t)' = Decision(t)
      BY <2>1 DEF Decision
    <3>2. authority' = authority
      BY <3>1
    <3> QED
      BY <2>1, <3>2 DEF Abstract!effectVars
  <2>2. ASSUME NEW p \in All, NEW t \in Transactions, EffectHappens(p, t)
        PROVE  Abstract!EffectNext
    <3>1. /\ <<p, t>> \in inFlight /\ store' = store
          /\ performed' = [performed EXCEPT ![t] = @ + 1]
      BY <2>2 DEF EffectHappens
    <3>2. EffectConsistent(t) /\ performed \in [Transactions -> Nat]
      BY DEF CPInv, CPTypeOK
    <3>3. performed[t] = 0 /\ Started(t)
      BY <3>1, <3>2 DEF EffectConsistent
    <3>4. t \in DOMAIN store /\ ValidRecord(store[t]) /\ store[t].phase \in Phase
          /\ store[t].started
      BY <3>3 DEF Started, CPInv, CPTypeOK, Records
    <3>5. store[t].phase \in {"EFFECT_IN_FLIGHT", "UNCERTAIN"}
      BY <3>1, <3>2, <3>3, <3>4 DEF EffectConsistent, Phase, Terminal, ValidRecord,
         ValidProjection
    <3>6. Decision(t) \in {"granted", "uncertain"}
      BY <3>4, <3>5 DEF Decision
    <3>7. \A u \in Transactions : Decision(u)' = Decision(u)
      BY <3>1 DEF Decision
    <3>8. authority' = authority /\ authority[t] \in {"granted", "uncertain"}
      BY <3>6, <3>7
    <3>9. performed' = [performed EXCEPT ![t] = 1]
      BY <3>1, <3>2, <3>3
    <3>10. Abstract!Perform(t)
      BY <3>3, <3>8, <3>9 DEF Abstract!Perform
    <3> QED
      BY <3>10 DEF Abstract!EffectNext
  <2>3. ASSUME NEW p \in All, pc[p] = "cas", CasAdmits(op[p]), store' = Written(op[p]),
               performed' = performed
        PROVE  [Abstract!EffectNext]_(Abstract!effectVars)
    <3>1. PICK t : t = op[p].transaction
      OBVIOUS
    <3>2. /\ t \in Transactions
          /\ \A u \in Transactions \ {t} : Decision(u)' = Decision(u)
          /\ \/ Decision(t)' = Decision(t)
             \/ Decision(t) = "open" /\ Decision(t)' \in {"granted", "failed-no-effect"}
             \/ /\ Decision(t) = "granted"
                /\ Decision(t)' \in {"committed", "result-unavailable", "failed-no-effect",
                                     "uncertain"}
                /\ Decision(t)' \in {"committed", "result-unavailable"} => performed[t] = 1
                /\ Decision(t)' = "failed-no-effect" => performed[t] = 0
      BY <2>3, <3>1, DecisionStep
    <3>3. ASSUME NEW d, Decision(t)' = d PROVE authority' = [authority EXCEPT ![t] = d]
      BY <3>2, <3>3
    <3>4. authority[t] = Decision(t)
      BY <3>2
    <3>5. CASE Decision(t)' = Decision(t)
      <4>1. authority' = authority
        BY <3>2, <3>5
      <4> QED
        BY <2>3, <4>1 DEF Abstract!effectVars
    <3>6. CASE Decision(t) = "open" /\ Decision(t)' = "granted"
      <4>1. authority' = [authority EXCEPT ![t] = "granted"]
        BY <3>3, <3>6
      <4> HIDE DEF authority
      <4>2. Abstract!Grant(t)
        BY <2>3, <3>4, <3>6, <4>1 DEF Abstract!Grant, authority
      <4> QED
        BY <3>2, <4>2 DEF Abstract!EffectNext
    <3>7. CASE Decision(t) = "open" /\ Decision(t)' = "failed-no-effect"
      <4>1. authority' = [u \in Transactions |->
                             IF u \in {t} THEN "failed-no-effect" ELSE authority[u]]
        BY <3>2, <3>7
      <4>2. Abstract!Refuse({t})
        BY <2>3, <3>4, <3>7, <4>1 DEF Abstract!Refuse
      <4> QED
        BY <3>2, <4>2 DEF Abstract!EffectNext
    <3>8. ASSUME NEW d \in {"committed", "result-unavailable", "failed-no-effect", "uncertain"},
                 Decision(t) = "granted", Decision(t)' = d,
                 d \in {"committed", "result-unavailable"} => performed[t] = 1,
                 d = "failed-no-effect" => performed[t] = 0
          PROVE  Abstract!EffectNext
      <4>1. authority' = [authority EXCEPT ![t] = d]
        BY <3>3, <3>8
      <4>2. Abstract!Close(t, d)
        BY <2>3, <3>4, <3>8, <4>1 DEF Abstract!Close, Abstract!Claims
      <4> QED
        BY <3>2, <4>2 DEF Abstract!EffectNext, Abstract!Claims
    <3> QED
      BY <3>2, <3>5, <3>6, <3>7, <3>8
  <2>4. \/ store' = store /\ performed' = performed
        \/ \E p \in All, t \in Transactions : EffectHappens(p, t)
        \/ /\ performed' = performed
           /\ \E p \in All : pc[p] = "cas" /\ CasAdmits(op[p]) /\ store' = Written(op[p])
    <3>1. ASSUME NEW p \in All, Continue(p)
          PROVE  performed' = performed
      BY <3>1 DEF Continue, CasApplied, CasRefused, CasUnanswered, CallEffect, ObserveEffect,
         effects
    <3>2. \/ performed' = performed
          \/ \E p \in All, t \in Transactions : EffectHappens(p, t)
      BY <3>1 DEF Next, vars, prepare, permit, executeOnce, abortPrepared, deliverEvidence,
         recover, Crash, Distrust, Tick, effects
    <3> QED
      BY <3>2, StoreSteps
  <2> QED
    BY <2>1, <2>2, <2>3, <2>4
<1> QED
    BY <1>1, <1>2, Invariant, PTL DEF Spec, KeepsOneShotPromise, Abstract!EffectSpec
=============================================================================
