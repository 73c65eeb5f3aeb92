--------------------------- MODULE EvidenceChain ----------------------------
(***************************************************************************)
(* InMemoryEvidenceLedger of packages/clodex-evidence: instances of one    *)
(* evidence ledger that admit signed effect attestations to a hash chain   *)
(* anchored in a shared checkpoint port.  An append verifies its local     *)
(* chain and the checkpoint, verifies the attestation, publishes the next  *)
(* checkpoint by compare-and-swap, reads it back, fences the trust in all  *)
(* signers, and only then extends the local chain; every arrow of that is  *)
(* an await in which other appends, other instances, a restore from an     *)
(* older snapshot or a revocation may come in.                             *)
(*                                                                         *)
(* The hash of a record commits to the chain before it, so that a head     *)
(* hash is the chain itself, the sequence of its attestations.             *)
(***************************************************************************)
EXTENDS Naturals, Sequences, SequencesExt

CONSTANTS
    Ledgers,        \* instances that share one checkpoint port
    Calls,          \* appends that may be under way at once
    Attestations,
    Identities,     \* attestation -> its attestation, request, ticket and idempotency ids
    Signers,
    SignerOf,       \* attestation -> who signed it
    MaximumRecords, \* the hard record-count limit
    MaxRestores,    \* bound on restores from a snapshot
    Faults          \* "port": the answer of a compare-and-swap is lost

VARIABLES
    records,        \* instance -> its local chain
    head,           \* chain of the current checkpoint
    publication,    \* publicationId of the current checkpoint, 0 for none
    trusted,        \* signers the verifier still vouches for
    append,         \* call -> where the append stands
    admitted,       \* <<position, attestation>> of every append that returned
    restores

vars == <<records, head, publication, trusted, append, admitted, restores>>

ASSUME EvidenceAssumption ==
    /\ MaximumRecords \in Nat /\ MaxRestores \in Nat
    /\ SignerOf \in [Attestations -> Signers]

Idle == [at |-> "idle"]

SignersOf(chain) == {SignerOf[chain[i]] : i \in DOMAIN chain}

Init ==
    /\ records = [l \in Ledgers |-> <<>>]
    /\ head = <<>>
    /\ publication = 0
    /\ trusted = Signers
    /\ append = [k \in Calls |-> Idle]
    /\ admitted = {}
    /\ restores = 0

Goto(k, frame) == append' = [append EXCEPT ![k] = frame]

\* Any check may refuse: the call throws and leaves the local chain untouched.
Throw(k) ==
    /\ append[k] # Idle
    /\ Goto(k, Idle)
    /\ UNCHANGED <<records, head, publication, trusted, admitted, restores>>

\* append: the complete local chain is verified, its signers trusted at the end.
verifyLocalChain(k, l, a) ==
    /\ append[k] = Idle
    /\ SignersOf(records[l]) \subseteq trusted
    /\ Goto(k, [at |-> "verified", ledger |-> l, incoming |-> a, chain |-> records[l]])
    /\ UNCHANGED <<records, head, publication, trusted, admitted, restores>>

\* assertCheckpointMatchesChain.
CheckpointMatchesChain(chain) == chain = head

BelowLimit(chain) == Len(chain) < MaximumRecords

\* loadVerifiedCheckpoint, with the record-count limit.
loadCheckpoint(k) ==
    LET f == append[k] IN
    /\ f.at = "verified"
    /\ CheckpointMatchesChain(f.chain)
    /\ BelowLimit(f.chain)
    /\ Goto(k, [at |-> "loaded", ledger |-> f.ledger, incoming |-> f.incoming,
                chain |-> f.chain, expected |-> publication])
    /\ UNCHANGED <<records, head, publication, trusted, admitted, restores>>

\* assertIncomingIsUnique, against the chain that was verified.
IncomingIsUnique(a, chain) ==
    \A i \in DOMAIN chain : Identities[chain[i]] \cap Identities[a] = {}

\* verifySignedEffectAttestation ends in a fence of its own.
verifyIncoming(k) ==
    LET f == append[k] IN
    /\ f.at = "loaded"
    /\ SignerOf[f.incoming] \in trusted
    /\ IncomingIsUnique(f.incoming, f.chain)
    /\ Goto(k, [f EXCEPT !.at = "built"])
    /\ UNCHANGED <<records, head, publication, trusted, admitted, restores>>

\* Mutant: the port takes the latest proposal.
CasMatches_Blind(f) == TRUE

\* The comparison inside compareAndSwap of the checkpoint port: the publication
\* the append has loaded, and the next sequence number.
CasMatches(f) == publication = f.expected /\ Len(f.chain) = Len(head)

\* A conflict throws, see Throw.
publishCheckpoint(k) ==
    LET f == append[k] IN
    /\ f.at = "built"
    /\ CasMatches(f)
    /\ head' = Append(f.chain, f.incoming)
    /\ publication' = publication + 1
    /\ \/ Goto(k, [f EXCEPT !.at = "published", !.expected = publication + 1])
       \/ "port" \in Faults /\ Goto(k, Idle)
    /\ UNCHANGED <<records, trusted, admitted, restores>>

\* verifyPublishedResult: the publication is verified and read back exactly.
readBack(k) ==
    LET f == append[k] IN
    /\ f.at = "published"
    /\ publication = f.expected /\ head = Append(f.chain, f.incoming)
    /\ Goto(k, [f EXCEPT !.at = "anchored"])
    /\ UNCHANGED <<records, head, publication, trusted, admitted, restores>>

\* Mutant: only the signer of the new attestation is fenced.
CombinedTrust_Incoming(f) == SignerOf[f.incoming] \in trusted

\* assertCombinedTrustSynchronously.
CombinedTrust(f) == SignersOf(Append(f.chain, f.incoming)) \subseteq trusted

\* The local chain grows, and the append returns.
commitLocally(k) ==
    LET f == append[k]
        chain == Append(f.chain, f.incoming)
    IN
    /\ f.at = "anchored"
    /\ CombinedTrust(f)
    /\ records' = [records EXCEPT ![f.ledger] = chain]
    /\ admitted' = admitted \cup {<<Len(chain), f.incoming>>}
    /\ Goto(k, Idle)
    /\ UNCHANGED <<head, publication, trusted, restores>>

\* A new instance is built from a snapshot of any instance, or of an older one;
\* its appends under way are those of a process that is gone.
Restore(l, snapshot) ==
    /\ restores < MaxRestores
    /\ records' = [records EXCEPT ![l] = snapshot]
    /\ append' = [k \in Calls |->
          IF append[k] # Idle /\ append[k].ledger = l THEN Idle ELSE append[k]]
    /\ restores' = restores + 1
    /\ UNCHANGED <<head, publication, trusted, admitted>>

Revoke(s) ==
    /\ s \in trusted
    /\ trusted' = trusted \ {s}
    /\ UNCHANGED <<records, head, publication, append, admitted, restores>>

Snapshots == UNION {{SubSeq(records[l], 1, n) : n \in 0..Len(records[l])} : l \in Ledgers}

Next ==
    \/ \E k \in Calls :
          \/ \E l \in Ledgers, a \in Attestations : verifyLocalChain(k, l, a)
          \/ loadCheckpoint(k) \/ verifyIncoming(k) \/ publishCheckpoint(k)
          \/ readBack(k) \/ commitLocally(k) \/ Throw(k)
    \/ \E l \in Ledgers : \E snapshot \in Snapshots : Restore(l, snapshot)
    \/ \E s \in Signers : Revoke(s)

EvidenceSpec == Init /\ [][Next]_vars

-----------------------------------------------------------------------------
\* The state has its types; an append that has loaded the checkpoint also keeps
\* the publication it expects.
Frames ==
    {Idle}
    \cup [at : {"verified"}, ledger : Ledgers, incoming : Attestations, chain : Seq(Attestations)]
    \cup [at : {"loaded", "built", "published", "anchored"}, ledger : Ledgers,
          incoming : Attestations, chain : Seq(Attestations), expected : Nat]

EvidenceTypeOK ==
    /\ records \in [Ledgers -> Seq(Attestations)]
    /\ head \in Seq(Attestations) /\ publication \in Nat
    /\ trusted \subseteq Signers
    /\ append \in [Calls -> Frames]
    /\ admitted \subseteq Nat \X Attestations
    /\ restores \in Nat

\* No instance holds a chain that the checkpoint does not continue: whatever
\* instances and appends race, and whichever snapshot an instance was restored
\* from, the ledger has one history.
OneEvidenceHistory ==
    \A l \in Ledgers : IsPrefix(records[l], head)

\* An append that has returned stays in the history, at the position that it
\* reported: a later append, a restore or another instance never replaces it.
AdmittedStaysAnchored ==
    \A e \in admitted : e[1] \in DOMAIN head /\ head[e[1]] = e[2]

\* No two attestations of the history share an attestation, request, ticket or
\* idempotency id, although uniqueness is checked before the checkpoint is
\* published and against a local copy.
EvidenceIsUnique ==
    \A i, j \in DOMAIN head :
        Identities[head[i]] \cap Identities[head[j]] # {} => i = j

\* While an append stands between its publication and its local commit, no other
\* publication is possible: the only instance that can continue the history is
\* the one that has the record, so that the read-back never loses a race.
PublishedAppendOwnsHead ==
    \A k \in Calls :
        append[k] # Idle /\ append[k].at \in {"published", "anchored"} =>
            head = Append(append[k].chain, append[k].incoming)

\* The chain of an append is a prefix of its instance's, which is one of the
\* head; what it loaded is the head until another append publishes; and from its
\* publication to its commit nobody else has the new head.
AppendIsConsistent(k) ==
    LET f == append[k] IN
    /\ f.at # "idle" =>
          /\ Len(f.chain) <= Len(records[f.ledger])
          /\ \A i \in 1..Len(f.chain) : f.chain[i] = records[f.ledger][i]
    /\ f.at \in {"loaded", "built"} =>
          /\ f.expected <= publication
          /\ f.expected = publication => f.chain = head
    /\ f.at \in {"built", "published", "anchored"} => IncomingIsUnique(f.incoming, f.chain)
    /\ f.at \in {"published", "anchored"} =>
          /\ head = Append(f.chain, f.incoming)
          /\ \A l \in Ledgers : Len(records[l]) < Len(head)
          /\ \A j \in Calls \ {k} : append[j].at \notin {"published", "anchored"}

\* The inductive invariant.
EvidenceInv ==
    /\ EvidenceTypeOK
    /\ \A l \in Ledgers :
          /\ Len(records[l]) <= Len(head)
          /\ \A i \in 1..Len(records[l]) : records[l][i] = head[i]
    /\ \A k \in Calls : AppendIsConsistent(k)
    /\ AdmittedStaysAnchored
    /\ EvidenceIsUnique

\* The local chain grows by one record at a time, and only under signers that
\* are all trusted at that moment, the old ones included.
CommitsUnderTrust ==
    [][\A l \in Ledgers :
          Len(records'[l]) > Len(records[l]) /\ restores' = restores =>
              /\ Len(records'[l]) = Len(records[l]) + 1
              /\ SignersOf(records'[l]) \subseteq trusted]_vars
=============================================================================
