--------------------------- MODULE EvidenceProofs ---------------------------
(***************************************************************************)
(* Proofs about EvidenceChain, for every number of instances, appends and  *)
(* attestations and for histories of any length.                           *)
(***************************************************************************)
EXTENDS EvidenceChain, TLAPS

-----------------------------------------------------------------------------
\* Lemmas about the helpers.

\* Where an append stands tells which fields its frame has.
LEMMA FrameFields ==
    ASSUME NEW f \in Frames
    PROVE  /\ f.at \in {"idle", "verified", "loaded", "built", "published", "anchored"}
           /\ f = Idle <=> f.at = "idle"
           /\ f # Idle =>
                 /\ f.ledger \in Ledgers /\ f.incoming \in Attestations
                 /\ f.chain \in Seq(Attestations)
           /\ f.at \in {"loaded", "built", "published", "anchored"} =>
                 /\ f.expected \in Nat
                 /\ f \in [at : {"loaded", "built", "published", "anchored"},
                           ledger : Ledgers, incoming : Attestations,
                           chain : Seq(Attestations), expected : Nat]
<1>1. CASE f = Idle
    BY <1>1 DEF Idle
<1>2. CASE f \in [at : {"verified"}, ledger : Ledgers, incoming : Attestations,
                  chain : Seq(Attestations)]
    BY <1>2 DEF Idle
<1>3. CASE f \in [at : {"loaded", "built", "published", "anchored"}, ledger : Ledgers,
                  incoming : Attestations, chain : Seq(Attestations), expected : Nat]
    BY <1>3 DEF Idle
<1> QED
    BY <1>1, <1>2, <1>3 DEF Frames

\* A snapshot is a prefix of some instance's chain.
LEMMA SnapshotIsPrefix ==
    ASSUME EvidenceTypeOK, NEW s \in Snapshots
    PROVE  /\ s \in Seq(Attestations)
           /\ \E l \in Ledgers :
                 /\ Len(s) <= Len(records[l])
                 /\ \A i \in 1..Len(s) : s[i] = records[l][i]
<1>1. PICK l \in Ledgers : \E n \in 0..Len(records[l]) : s = SubSeq(records[l], 1, n)
    BY DEF Snapshots
<1>2. PICK n \in 0..Len(records[l]) : s = SubSeq(records[l], 1, n)
    BY <1>1
<1>3. records[l] \in Seq(Attestations)
    BY DEF EvidenceTypeOK
<1>4. /\ s \in Seq(Attestations) /\ Len(s) = n
      /\ \A i \in 1..Len(s) : s[i] = records[l][i]
    BY <1>2, <1>3
<1> QED
    BY <1>2, <1>3, <1>4

\* A chain that agrees with the head in every position is a prefix of it.
LEMMA PointwisePrefix ==
    ASSUME NEW S, NEW s \in Seq(S), NEW t \in Seq(S), Len(s) <= Len(t),
           \A i \in 1..Len(s) : s[i] = t[i]
    PROVE  IsPrefix(s, t)
<1>1. SubSeq(t, 1, Len(s)) = s
    OBVIOUS
<1> QED
    BY <1>1 DEF IsPrefix

-----------------------------------------------------------------------------
\* Preservation of the inductive invariant, one lemma per action.

\* The empty ledger satisfies the invariant.
LEMMA InitInv == Init => EvidenceInv
<1> SUFFICES ASSUME Init PROVE EvidenceInv
    OBVIOUS
<1>1. EvidenceTypeOK
    BY DEF Init, EvidenceTypeOK, Frames, Idle
<1>2. \A k \in Calls : AppendIsConsistent(k)
    BY DEF Init, AppendIsConsistent, Idle
<1> QED
    BY <1>1, <1>2 DEF Init, EvidenceInv, AdmittedStaysAnchored, EvidenceIsUnique

\* A refused append leaves an idle frame behind.
LEMMA ThrowInv ==
    ASSUME EvidenceInv, NEW k \in Calls, Throw(k)
    PROVE  EvidenceInv'
<1> USE DEF EvidenceInv, Throw, Goto
<1>1. EvidenceTypeOK'
    BY DEF EvidenceTypeOK, Frames
<1>2. ASSUME NEW j \in Calls
      PROVE  AppendIsConsistent(j)'
  <2>1. CASE j = k
    BY <2>1 DEF AppendIsConsistent, EvidenceTypeOK, Idle
  <2>2. CASE j # k
    BY <2>2 DEF AppendIsConsistent, EvidenceTypeOK, Idle, IncomingIsUnique
  <2> QED
    BY <2>1, <2>2
<1> QED
    BY <1>1, <1>2 DEF AdmittedStaysAnchored, EvidenceIsUnique

\* The frame of a verified append holds its instance's whole chain.
LEMMA VerifyLocalChainInv ==
    ASSUME EvidenceInv, NEW k \in Calls, NEW l \in Ledgers, NEW a \in Attestations,
           verifyLocalChain(k, l, a)
    PROVE  EvidenceInv'
<1> DEFINE g == [at |-> "verified", ledger |-> l, incoming |-> a, chain |-> records[l]]
<1> USE DEF EvidenceInv, verifyLocalChain, Goto
<1>0. g \in Frames /\ append' = [append EXCEPT ![k] = g]
    BY DEF EvidenceTypeOK, Frames
<1>1. EvidenceTypeOK'
    BY <1>0 DEF EvidenceTypeOK
<1>2. ASSUME NEW j \in Calls
      PROVE  AppendIsConsistent(j)'
  <2>1. CASE j = k
    BY <1>0, <2>1 DEF AppendIsConsistent, EvidenceTypeOK
  <2>2. CASE j # k
    BY <1>0, <2>2 DEF AppendIsConsistent, EvidenceTypeOK, IncomingIsUnique
  <2> QED
    BY <2>1, <2>2
<1> QED
    BY <1>1, <1>2 DEF AdmittedStaysAnchored, EvidenceIsUnique

\* The checkpoint that was loaded is the verified chain.
LEMMA LoadCheckpointInv ==
    ASSUME EvidenceInv, NEW k \in Calls, loadCheckpoint(k)
    PROVE  EvidenceInv'
<1> DEFINE f == append[k]
           g == [at |-> "loaded", ledger |-> f.ledger, incoming |-> f.incoming,
                 chain |-> f.chain, expected |-> publication]
<1> USE DEF EvidenceInv
<1>0. /\ f \in Frames /\ f.at = "verified" /\ f # Idle /\ f.chain = head
      /\ f.ledger \in Ledgers /\ f.incoming \in Attestations /\ f.chain \in Seq(Attestations)
    BY FrameFields DEF loadCheckpoint, CheckpointMatchesChain, EvidenceTypeOK, Idle
<1>1. /\ g \in Frames /\ append' = [append EXCEPT ![k] = g]
      /\ UNCHANGED <<records, head, publication, trusted, admitted, restores>>
    BY <1>0 DEF EvidenceTypeOK, Frames, loadCheckpoint, Goto
<1>2. EvidenceTypeOK'
    BY <1>1 DEF EvidenceTypeOK
<1>3. ASSUME NEW j \in Calls
      PROVE  AppendIsConsistent(j)'
  <2>1. CASE j = k
    <3>1. append'[j] = g
      BY <1>1, <2>1 DEF EvidenceTypeOK
    <3>2. Len(f.chain) <= Len(records[f.ledger])
          /\ \A i \in 1..Len(f.chain) : f.chain[i] = records[f.ledger][i]
      BY <1>0, <2>1 DEF AppendIsConsistent
    <3> QED
      BY <1>0, <1>1, <3>1, <3>2 DEF AppendIsConsistent, EvidenceTypeOK
  <2>2. CASE j # k
    <3>1. append'[j] = append[j] /\ append'[k].at = "loaded"
          /\ \A i \in Calls \ {k} : append'[i] = append[i]
      BY <1>1, <2>2 DEF EvidenceTypeOK
    <3>2. \A i \in Calls : append'[i].at \in {"published", "anchored"} =>
                              append'[i] = append[i]
      BY <3>1
    <3>3. AppendIsConsistent(j)
      OBVIOUS
    <3> HIDE DEF f, g, EvidenceInv
    <3> QED
      BY <1>1, <3>1, <3>2, <3>3 DEF AppendIsConsistent, IncomingIsUnique
  <2> QED
    BY <2>1, <2>2
<1> QED
    BY <1>1, <1>2, <1>3 DEF AdmittedStaysAnchored, EvidenceIsUnique

\* The new attestation shares no identity with the chain it was verified against.
LEMMA VerifyIncomingInv ==
    ASSUME EvidenceInv, NEW k \in Calls, verifyIncoming(k)
    PROVE  EvidenceInv'
<1> DEFINE f == append[k]
           g == [f EXCEPT !.at = "built"]
<1> USE DEF EvidenceInv
<1>0. /\ f \in Frames /\ f.at = "loaded" /\ IncomingIsUnique(f.incoming, f.chain)
      /\ f \in [at : {"loaded", "built", "published", "anchored"}, ledger : Ledgers,
                incoming : Attestations, chain : Seq(Attestations), expected : Nat]
    BY FrameFields DEF verifyIncoming, EvidenceTypeOK
<1>1. /\ g \in Frames /\ append' = [append EXCEPT ![k] = g]
      /\ g.at = "built" /\ g.ledger = f.ledger /\ g.incoming = f.incoming
      /\ g.chain = f.chain /\ g.expected = f.expected
      /\ UNCHANGED <<records, head, publication, trusted, admitted, restores>>
    BY <1>0 DEF Frames, verifyIncoming, Goto
<1>2. EvidenceTypeOK'
    BY <1>1 DEF EvidenceTypeOK
<1>3. ASSUME NEW j \in Calls
      PROVE  AppendIsConsistent(j)'
  <2>1. CASE j = k
    <3>1. append'[j] = g /\ AppendIsConsistent(k)
      BY <1>1, <2>1 DEF EvidenceTypeOK
    <3> HIDE DEF g, f
    <3> QED
      BY <1>0, <1>1, <3>1 DEF AppendIsConsistent, IncomingIsUnique, f
  <2>2. CASE j # k
    <3>1. append'[j] = append[j] /\ append'[k].at = "built"
          /\ \A i \in Calls \ {k} : append'[i] = append[i]
      BY <1>1, <2>2 DEF EvidenceTypeOK
    <3>2. \A i \in Calls : append'[i].at \in {"published", "anchored"} =>
                              append'[i] = append[i]
      BY <3>1
    <3>3. AppendIsConsistent(j)
      OBVIOUS
    <3> HIDE DEF f, g, EvidenceInv
    <3> QED
      BY <1>1, <3>1, <3>2, <3>3 DEF AppendIsConsistent, IncomingIsUnique
  <2> QED
    BY <2>1, <2>2
<1> QED
    BY <1>1, <1>2, <1>3 DEF AdmittedStaysAnchored, EvidenceIsUnique

\* A publication continues the head by one record: the port compares the
\* publication the append has loaded, which says that its chain is the head, and
\* every local chain is then shorter than the new head.
LEMMA PublishCheckpointInv ==
    ASSUME EvidenceInv, NEW k \in Calls, publishCheckpoint(k)
    PROVE  EvidenceInv'
<1> DEFINE f == append[k]
           g == [f EXCEPT !.at = "published", !.expected = publication + 1]
<1> USE DEF EvidenceInv
<1>0. /\ f \in Frames /\ f.at = "built" /\ publication = f.expected
      /\ f \in [at : {"loaded", "built", "published", "anchored"}, ledger : Ledgers,
                incoming : Attestations, chain : Seq(Attestations), expected : Nat]
    BY FrameFields DEF publishCheckpoint, CasMatches, EvidenceTypeOK
<1>1. f.chain = head /\ IncomingIsUnique(f.incoming, f.chain)
    BY <1>0 DEF AppendIsConsistent
<1>2. /\ head' = Append(head, f.incoming) /\ publication' = publication + 1
      /\ UNCHANGED <<records, trusted, admitted, restores>>
      /\ \/ append' = [append EXCEPT ![k] = g]
         \/ append' = [append EXCEPT ![k] = Idle]
    BY <1>1 DEF publishCheckpoint, Goto
<1>3. /\ head \in Seq(Attestations) /\ publication \in Nat
      /\ append \in [Calls -> Frames] /\ records \in [Ledgers -> Seq(Attestations)]
    BY DEF EvidenceTypeOK
<1>4. /\ head' \in Seq(Attestations) /\ Len(head') = Len(head) + 1
      /\ \A i \in 1..Len(head) : head'[i] = head[i]
      /\ head'[Len(head')] = f.incoming
      /\ DOMAIN head' = 1..Len(head')
    BY <1>0, <1>2, <1>3
<1>5. /\ g \in Frames /\ Idle \in Frames
      /\ g.at = "published" /\ g.ledger = f.ledger /\ g.incoming = f.incoming
      /\ g.chain = f.chain /\ g.expected = publication + 1
  <2>1. publication + 1 \in Nat
    BY <1>3
  <2> QED
    BY <1>0, <2>1 DEF Frames
<1>6. /\ append' \in [Calls -> Frames]
      /\ append'[k] = g \/ append'[k] = Idle
      /\ \A i \in Calls \ {k} : append'[i] = append[i]
  <2> HIDE DEF g
  <2> QED
    BY <1>2, <1>3, <1>5
<1> HIDE DEF g
<1>7. EvidenceTypeOK'
    BY <1>2, <1>3, <1>4, <1>6 DEF EvidenceTypeOK
<1>8. \A l \in Ledgers :
         /\ Len(records'[l]) <= Len(head) /\ Len(records'[l]) < Len(head')
         /\ Len(records'[l]) \in Nat
         /\ \A i \in 1..Len(records'[l]) : records'[l][i] = head'[i]
    BY <1>2, <1>3, <1>4
<1>9. \A j \in Calls \ {k} : append[j].at \notin {"published", "anchored"}
  <2> SUFFICES ASSUME NEW j \in Calls \ {k}, append[j].at \in {"published", "anchored"}
               PROVE  FALSE
    OBVIOUS
  <2>1. /\ \A l \in Ledgers : Len(records[l]) < Len(head)
    BY DEF AppendIsConsistent
  <2>2. f.ledger \in Ledgers /\ Len(f.chain) <= Len(records[f.ledger])
    BY <1>0 DEF AppendIsConsistent
  <2> QED
    BY <1>1, <1>3, <2>1, <2>2
<1>10. ASSUME NEW j \in Calls
       PROVE  AppendIsConsistent(j)'
  <2>1. CASE append'[j] = Idle
    BY <2>1 DEF AppendIsConsistent, Idle
  <2>2. CASE j = k /\ append'[j] = g
    <3>1. Len(f.chain) <= Len(records[f.ledger])
          /\ \A i \in 1..Len(f.chain) : f.chain[i] = records[f.ledger][i]
      BY <1>0 DEF AppendIsConsistent
    <3>2. \A i \in Calls \ {k} : append'[i].at \notin {"published", "anchored"}
      BY <1>6, <1>9
    <3> QED
      BY <1>1, <1>2, <1>5, <1>8, <2>2, <3>1, <3>2 DEF AppendIsConsistent, IncomingIsUnique
  <2>3. CASE j # k
    <3>1. append'[j] = append[j] /\ append[j].at \notin {"published", "anchored"}
      BY <1>6, <1>9, <2>3
    <3>2. append[j].at \in {"loaded", "built"} =>
             append[j].expected \in Nat /\ append[j].expected <= publication
      BY <1>3, FrameFields DEF AppendIsConsistent
    <3> QED
      BY <1>2, <1>3, <3>1, <3>2 DEF AppendIsConsistent, IncomingIsUnique
  <2> QED
    BY <1>6, <2>1, <2>2, <2>3
<1>11. AdmittedStaysAnchored'
  <2> SUFFICES ASSUME NEW e \in admitted
               PROVE  e[1] \in DOMAIN head' /\ head'[e[1]] = e[2]
    BY <1>2 DEF AdmittedStaysAnchored
  <2>1. e[1] \in 1..Len(head) /\ head[e[1]] = e[2]
    BY <1>3 DEF AdmittedStaysAnchored
  <2> QED
    BY <1>3, <1>4, <2>1
<1>12. EvidenceIsUnique'
  <2> SUFFICES ASSUME NEW i \in 1..Len(head'), NEW j \in 1..Len(head'),
                      Identities[head'[i]] \cap Identities[head'[j]] # {}
               PROVE  i = j
    BY <1>4 DEF EvidenceIsUnique
  <2>0. Len(head) \in Nat /\ DOMAIN head = 1..Len(head)
    BY <1>3
  <2>1. CASE i <= Len(head) /\ j <= Len(head)
    <3>1. i \in DOMAIN head /\ j \in DOMAIN head
      BY <2>0, <2>1
    <3>2. head'[i] = head[i] /\ head'[j] = head[j]
      BY <1>4, <2>0, <3>1
    <3> QED
      BY <3>1, <3>2 DEF EvidenceIsUnique
  <2>2. CASE i <= Len(head) /\ j > Len(head)
    <3>1. j = Len(head')
      BY <1>4, <2>0, <2>2
    <3>2. i \in DOMAIN f.chain /\ head'[i] = f.chain[i] /\ head'[j] = f.incoming
      BY <1>1, <1>3, <1>4, <2>2, <3>1
    <3> QED
      BY <1>1, <3>2 DEF IncomingIsUnique
  <2>3. CASE j <= Len(head) /\ i > Len(head)
    <3>1. i = Len(head')
      BY <1>4, <2>0, <2>3
    <3>2. j \in DOMAIN f.chain /\ head'[j] = f.chain[j] /\ head'[i] = f.incoming
      BY <1>1, <1>3, <1>4, <2>3, <3>1
    <3> QED
      BY <1>1, <3>2 DEF IncomingIsUnique
  <2>4. CASE i > Len(head) /\ j > Len(head)
    BY <1>3, <1>4, <2>4
  <2> QED
    BY <1>3, <2>1, <2>2, <2>3, <2>4
<1> QED
    BY <1>7, <1>8, <1>10, <1>11, <1>12, <1>3, <1>4

\* The read-back changes nothing but where the append stands.
LEMMA ReadBackInv ==
    ASSUME EvidenceInv, NEW k \in Calls, readBack(k)
    PROVE  EvidenceInv'
<1> DEFINE f == append[k]
           g == [f EXCEPT !.at = "anchored"]
<1> USE DEF EvidenceInv
<1>0. /\ f \in Frames /\ f.at = "published"
      /\ f \in [at : {"loaded", "built", "published", "anchored"}, ledger : Ledgers,
                incoming : Attestations, chain : Seq(Attestations), expected : Nat]
    BY FrameFields DEF readBack, EvidenceTypeOK
<1>1. /\ g \in Frames /\ append' = [append EXCEPT ![k] = g]
      /\ g.at = "anchored" /\ g.ledger = f.ledger /\ g.incoming = f.incoming
      /\ g.chain = f.chain /\ g.expected = f.expected
      /\ UNCHANGED <<records, head, publication, trusted, admitted, restores>>
    BY <1>0 DEF Frames, readBack, Goto
<1>2. EvidenceTypeOK'
    BY <1>1 DEF EvidenceTypeOK
<1>3. ASSUME NEW j \in Calls
      PROVE  AppendIsConsistent(j)'
  <2>0. \A i \in Calls \ {k} : append'[i] = append[i]
    BY <1>1 DEF EvidenceTypeOK
  <2>1. CASE j = k
    <3>1. append'[j] = g /\ AppendIsConsistent(k)
      BY <1>1, <2>1 DEF EvidenceTypeOK
    <3> HIDE DEF g, f
    <3> QED
      BY <1>0, <1>1, <2>0, <2>1, <3>1 DEF AppendIsConsistent, IncomingIsUnique, f
  <2>2. CASE j # k
    <3>1. append'[j] = append[j] /\ append[j].at \notin {"published", "anchored"}
      BY <1>0, <2>0, <2>2 DEF AppendIsConsistent
    <3>2. AppendIsConsistent(j)
      OBVIOUS
    <3> HIDE DEF f, g, EvidenceInv
    <3> QED
      BY <1>1, <3>1, <3>2 DEF AppendIsConsistent, IncomingIsUnique
  <2> QED
    BY <2>1, <2>2
<1> QED
    BY <1>1, <1>2, <1>3 DEF AdmittedStaysAnchored, EvidenceIsUnique

\* The commit gives the instance the head itself.
LEMMA CommitLocallyInv ==
    ASSUME EvidenceInv, NEW k \in Calls, commitLocally(k)
    PROVE  EvidenceInv'
<1> DEFINE f == append[k]
<1> USE DEF EvidenceInv
<1>0. /\ f \in Frames /\ f.at = "anchored"
      /\ f \in [at : {"loaded", "built", "published", "anchored"}, ledger : Ledgers,
                incoming : Attestations, chain : Seq(Attestations), expected : Nat]
    BY FrameFields DEF commitLocally, EvidenceTypeOK
<1>1. /\ head = Append(f.chain, f.incoming)
      /\ \A l \in Ledgers : Len(records[l]) < Len(head)
      /\ \A j \in Calls \ {k} : append[j].at \notin {"published", "anchored"}
    BY <1>0 DEF AppendIsConsistent
<1>2. /\ records' = [records EXCEPT ![f.ledger] = head]
      /\ admitted' = admitted \cup {<<Len(head), f.incoming>>}
      /\ append' = [append EXCEPT ![k] = Idle]
      /\ UNCHANGED <<head, publication, trusted, restores>>
    BY <1>1 DEF commitLocally, Goto
<1>3. /\ head \in Seq(Attestations) /\ records \in [Ledgers -> Seq(Attestations)]
      /\ append \in [Calls -> Frames] /\ f.ledger \in Ledgers
      /\ head[Len(head)] = f.incoming /\ Len(head) \in Nat /\ Len(head) > 0
    BY <1>0, <1>1 DEF EvidenceTypeOK
<1>4. EvidenceTypeOK'
    BY <1>0, <1>2, <1>3 DEF EvidenceTypeOK, Frames
<1>5. \A l \in Ledgers :
         /\ Len(records'[l]) <= Len(head')
         /\ \A i \in 1..Len(records'[l]) : records'[l][i] = head'[i]
    BY <1>2, <1>3
<1>6. ASSUME NEW j \in Calls
      PROVE  AppendIsConsistent(j)'
  <2>1. CASE j = k
    BY <1>2, <1>3, <2>1 DEF AppendIsConsistent, Idle
  <2>2. CASE j # k
    <3>1. append'[j] = append[j] /\ append[j].at \notin {"published", "anchored"}
      BY <1>1, <1>2, <1>3, <2>2
    <3>2. CASE append[j] = Idle
      BY <3>1, <3>2 DEF AppendIsConsistent, Idle
    <3>3. CASE append[j] # Idle
      <4> DEFINE h == append[j]
      <4>1. h.ledger \in Ledgers /\ h.chain \in Seq(Attestations) /\ h.at # "idle"
        BY <1>3, <3>3, FrameFields
      <4>2. /\ Len(h.chain) <= Len(records[h.ledger])
            /\ \A i \in 1..Len(h.chain) : h.chain[i] = records[h.ledger][i]
        BY <4>1 DEF AppendIsConsistent
      <4>3. /\ Len(records[h.ledger]) <= Len(head)
            /\ \A i \in 1..Len(records[h.ledger]) : records[h.ledger][i] = head[i]
        BY <4>1
      <4>4. /\ Len(h.chain) <= Len(records'[h.ledger])
            /\ \A i \in 1..Len(h.chain) : h.chain[i] = records'[h.ledger][i]
        BY <1>2, <1>3, <4>1, <4>2, <4>3
      <4> QED
        BY <1>2, <3>1, <4>4 DEF AppendIsConsistent, IncomingIsUnique
    <3> QED
      BY <3>2, <3>3
  <2> QED
    BY <2>1, <2>2
<1>7. AdmittedStaysAnchored'
    BY <1>2, <1>3 DEF AdmittedStaysAnchored
<1>8. EvidenceIsUnique'
    BY <1>2 DEF EvidenceIsUnique
<1> QED
    BY <1>4, <1>5, <1>6, <1>7, <1>8

\* A restored instance has a prefix of the history, and the appends of the one
\* it replaces are gone.
LEMMA RestoreInv ==
    ASSUME EvidenceInv, NEW l \in Ledgers, NEW s \in Snapshots, Restore(l, s)
    PROVE  EvidenceInv'
<1> USE DEF EvidenceInv
<1>0. /\ records' = [records EXCEPT ![l] = s]
      /\ append' = [k \in Calls |->
            IF append[k] # Idle /\ append[k].ledger = l THEN Idle ELSE append[k]]
      /\ restores' = restores + 1
      /\ UNCHANGED <<head, publication, trusted, admitted>>
    BY DEF Restore
<1>1. s \in Seq(Attestations)
    BY SnapshotIsPrefix
<1>2. PICK m \in Ledgers : /\ Len(s) <= Len(records[m])
                           /\ \A i \in 1..Len(s) : s[i] = records[m][i]
    BY SnapshotIsPrefix
<1>3. /\ head \in Seq(Attestations) /\ records \in [Ledgers -> Seq(Attestations)]
      /\ append \in [Calls -> Frames]
    BY DEF EvidenceTypeOK
<1>4. Len(s) <= Len(head) /\ \A i \in 1..Len(s) : s[i] = head[i]
    BY <1>1, <1>2, <1>3
<1>5. EvidenceTypeOK'
    BY <1>0, <1>1, <1>3 DEF EvidenceTypeOK, Frames
<1>6. \A n \in Ledgers :
         /\ Len(records'[n]) <= Len(head')
         /\ \A i \in 1..Len(records'[n]) : records'[n][i] = head'[i]
    BY <1>0, <1>1, <1>3, <1>4
<1>7. ASSUME NEW j \in Calls
      PROVE  AppendIsConsistent(j)'
  <2>0. \A i \in Calls : append'[i] = Idle \/ append'[i] = append[i]
    BY <1>0
  <2>1. CASE append'[j] = Idle
    BY <2>1 DEF AppendIsConsistent, Idle
  <2>2. CASE append'[j] # Idle
    <3> DEFINE h == append[j]
    <3>1. append'[j] = h /\ h # Idle /\ h.ledger # l
      BY <1>0, <2>2
    <3>2. h.ledger \in Ledgers /\ records'[h.ledger] = records[h.ledger]
      BY <1>0, <1>3, <3>1, FrameFields
    <3>3. h.at \in {"published", "anchored"} =>
             /\ \A n \in Ledgers : Len(records'[n]) < Len(head)
             /\ \A i \in Calls \ {j} : append'[i].at \notin {"published", "anchored"}
      <4> SUFFICES ASSUME h.at \in {"published", "anchored"}
                   PROVE  /\ \A n \in Ledgers : Len(records'[n]) < Len(head)
                          /\ \A i \in Calls \ {j} :
                                append'[i].at \notin {"published", "anchored"}
        OBVIOUS
      <4>1. /\ \A n \in Ledgers : Len(records[n]) < Len(head)
            /\ \A i \in Calls \ {j} : append[i].at \notin {"published", "anchored"}
        BY DEF AppendIsConsistent
      <4>2. \A n \in Ledgers : Len(records'[n]) < Len(head)
        BY <1>0, <1>1, <1>2, <1>3, <4>1
      <4> QED
        BY <2>0, <4>1, <4>2 DEF Idle
    <3> QED
      BY <1>0, <3>1, <3>2, <3>3 DEF AppendIsConsistent, IncomingIsUnique
  <2> QED
    BY <2>1, <2>2
<1> QED
    BY <1>0, <1>5, <1>6, <1>7 DEF AdmittedStaysAnchored, EvidenceIsUnique

\* A revocation touches neither the chains nor the appends.
LEMMA RevokeInv ==
    ASSUME EvidenceInv, NEW s \in Signers, Revoke(s)
    PROVE  EvidenceInv'
<1>1. EvidenceTypeOK'
    BY DEF EvidenceInv, Revoke, EvidenceTypeOK
<1>2. \A k \in Calls : AppendIsConsistent(k)'
    BY DEF EvidenceInv, Revoke, AppendIsConsistent, IncomingIsUnique
<1> QED
    BY <1>1, <1>2 DEF EvidenceInv, Revoke, AdmittedStaysAnchored, EvidenceIsUnique

\* Every step keeps the invariant.
LEMMA NextInv == EvidenceInv /\ [Next]_vars => EvidenceInv'
<1> SUFFICES ASSUME EvidenceInv, [Next]_vars PROVE EvidenceInv'
    OBVIOUS
<1>1. ASSUME NEW k \in Calls, NEW l \in Ledgers, NEW a \in Attestations,
             verifyLocalChain(k, l, a)
      PROVE  EvidenceInv'
    BY <1>1, VerifyLocalChainInv
<1>2. ASSUME NEW k \in Calls, loadCheckpoint(k) PROVE EvidenceInv'
    BY <1>2, LoadCheckpointInv
<1>3. ASSUME NEW k \in Calls, verifyIncoming(k) PROVE EvidenceInv'
    BY <1>3, VerifyIncomingInv
<1>4. ASSUME NEW k \in Calls, publishCheckpoint(k) PROVE EvidenceInv'
    BY <1>4, PublishCheckpointInv
<1>5. ASSUME NEW k \in Calls, readBack(k) PROVE EvidenceInv'
    BY <1>5, ReadBackInv
<1>6. ASSUME NEW k \in Calls, commitLocally(k) PROVE EvidenceInv'
    BY <1>6, CommitLocallyInv
<1>7. ASSUME NEW k \in Calls, Throw(k) PROVE EvidenceInv'
    BY <1>7, ThrowInv
<1>8. ASSUME NEW l \in Ledgers, NEW s \in Snapshots, Restore(l, s) PROVE EvidenceInv'
    BY <1>8, RestoreInv
<1>9. ASSUME NEW s \in Signers, Revoke(s) PROVE EvidenceInv'
    BY <1>9, RevokeInv
<1>10. CASE UNCHANGED vars
  <2>1. EvidenceTypeOK'
    BY <1>10 DEF EvidenceInv, EvidenceTypeOK, vars
  <2>2. \A k \in Calls : AppendIsConsistent(k)'
    BY <1>10 DEF EvidenceInv, AppendIsConsistent, IncomingIsUnique, vars
  <2> QED
    BY <1>10, <2>1, <2>2 DEF EvidenceInv, AdmittedStaysAnchored, EvidenceIsUnique, vars
<1> QED
    BY <1>1, <1>2, <1>3, <1>4, <1>5, <1>6, <1>7, <1>8, <1>9, <1>10 DEF Next

\* The invariant holds in every reachable state.
LEMMA Invariant == EvidenceSpec => []EvidenceInv
    BY InitInv, NextInv, PTL DEF EvidenceSpec

-----------------------------------------------------------------------------
\* Theorems.

\* The state of the evidence ledgers keeps its types.
THEOREM TypeCorrect == EvidenceSpec => []EvidenceTypeOK
<1>1. EvidenceInv => EvidenceTypeOK
    BY DEF EvidenceInv
<1> QED
    BY <1>1, Invariant, PTL

\* However appends, instances, restores and lost answers interleave, every
\* instance holds a prefix of the one history that the checkpoint anchors.
THEOREM OneHistory == EvidenceSpec => []OneEvidenceHistory
<1>1. EvidenceInv => OneEvidenceHistory
  <2> SUFFICES ASSUME EvidenceInv, NEW l \in Ledgers
               PROVE  IsPrefix(records[l], head)
    BY DEF OneEvidenceHistory
  <2>1. /\ records[l] \in Seq(Attestations) /\ head \in Seq(Attestations)
        /\ Len(records[l]) <= Len(head)
        /\ \A i \in 1..Len(records[l]) : records[l][i] = head[i]
    BY DEF EvidenceInv, EvidenceTypeOK
  <2> QED
    BY <2>1, PointwisePrefix
<1> QED
    BY <1>1, Invariant, PTL

\* An append that returned stays at the position it reported.
THEOREM AdmittedStays == EvidenceSpec => []AdmittedStaysAnchored
<1>1. EvidenceInv => AdmittedStaysAnchored
    BY DEF EvidenceInv
<1> QED
    BY <1>1, Invariant, PTL

\* No identity occurs twice in the history, although assertIncomingIsUnique runs
\* before the publication and on a copy.
THEOREM UniqueEvidence == EvidenceSpec => []EvidenceIsUnique
<1>1. EvidenceInv => EvidenceIsUnique
    BY DEF EvidenceInv
<1> QED
    BY <1>1, Invariant, PTL

\* Between its publication and its commit an append owns the head, so that
\* verifyPublishedResult never loses a race.
THEOREM PublishedOwnsHead == EvidenceSpec => []PublishedAppendOwnsHead
<1>1. EvidenceInv => PublishedAppendOwnsHead
    BY DEF EvidenceInv, AppendIsConsistent, PublishedAppendOwnsHead
<1> QED
    BY <1>1, Invariant, PTL

\* A local chain grows by one record at a time and only while every signer of
\* the new chain is trusted, whatever was revoked since the append began.
THEOREM CommitsTrusted == EvidenceSpec => CommitsUnderTrust
<1> DEFINE Grows == \A l \in Ledgers :
          Len(records'[l]) > Len(records[l]) /\ restores' = restores =>
              /\ Len(records'[l]) = Len(records[l]) + 1
              /\ SignersOf(records'[l]) \subseteq trusted
<1>1. EvidenceInv /\ [Next]_vars => [Grows]_vars
  <2> SUFFICES ASSUME EvidenceInv, Next PROVE Grows
    OBVIOUS
  <2>0. /\ records \in [Ledgers -> Seq(Attestations)] /\ restores \in Nat
        /\ append \in [Calls -> Frames] /\ \A l \in Ledgers : Len(records[l]) \in Nat
    BY DEF EvidenceInv, EvidenceTypeOK
  <2>1. CASE records' = records
    BY <2>0, <2>1
  <2>2. ASSUME NEW l \in Ledgers, NEW s \in Snapshots, Restore(l, s) PROVE Grows
    BY <2>0, <2>2 DEF Restore
  <2>3. ASSUME NEW k \in Calls, commitLocally(k) PROVE Grows
    <3> DEFINE f == append[k]
               chain == Append(f.chain, f.incoming)
    <3>0. f.at = "anchored" /\ SignersOf(chain) \subseteq trusted
          /\ records' = [records EXCEPT ![f.ledger] = chain]
      BY <2>3 DEF commitLocally, CombinedTrust
    <3>1. /\ f.ledger \in Ledgers /\ f.incoming \in Attestations
          /\ f.chain \in Seq(Attestations)
      BY <2>0, <3>0, FrameFields
    <3>2. /\ head = chain /\ Len(f.chain) <= Len(records[f.ledger])
          /\ Len(records[f.ledger]) < Len(head)
      BY <3>0, <3>1 DEF EvidenceInv, AppendIsConsistent
    <3>3. Len(chain) = Len(f.chain) + 1 /\ Len(f.chain) \in Nat
      BY <3>1
    <3>4. Len(chain) = Len(records[f.ledger]) + 1
      BY <2>0, <3>1, <3>2, <3>3
    <3>5. ASSUME NEW l \in Ledgers, Len(records'[l]) > Len(records[l])
          PROVE  Len(records'[l]) = Len(records[l]) + 1 /\ SignersOf(records'[l]) \subseteq trusted
      <4>1. CASE l = f.ledger
        BY <2>0, <3>0, <3>1, <3>4, <4>1
      <4>2. CASE l # f.ledger
        BY <2>0, <3>0, <3>1, <3>5, <4>2
      <4> QED
        BY <4>1, <4>2
    <3> QED
      BY <3>5
  <2> QED
    BY <2>1, <2>2, <2>3 DEF Next, verifyLocalChain, loadCheckpoint, verifyIncoming,
       publishCheckpoint, readBack, Throw, Revoke
<1> QED
    BY <1>1, Invariant, PTL DEF EvidenceSpec, CommitsUnderTrust
=============================================================================
