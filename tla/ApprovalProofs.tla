--------------------------- MODULE ApprovalProofs ---------------------------
(***************************************************************************)
(* Proofs about Approval, for every number of concurrent calls, contracts, *)
(* reviewers and ids.                                                      *)
(***************************************************************************)
EXTENDS Approval, TLAPS

-----------------------------------------------------------------------------
\* Lemmas about the helpers.

\* Where a call stands tells what it has captured.
LEMMA FrameFields ==
    ASSUME NEW f \in Frames
    PROVE  /\ f.at \in {"idle", "preparing", "prepared", "consumed", "built", "signed",
                        "verified"}
           /\ f.at = "preparing" => f.contract \in Contracts /\ f.now \in 0..MaxTime
           /\ f.at = "prepared" => f.challenge \in Challenges
           /\ f.at = "consumed" => f.challenge \in Challenges /\ f.review \in ReviewIds
           /\ f.at \in {"built", "signed", "verified"} =>
                 /\ f.artifact \in Artifacts
                 /\ f = [at |-> f.at, artifact |-> f.artifact]
<1>1. CASE f = Idle
    BY <1>1 DEF Idle
<1>2. CASE f \in [at : {"preparing"}, contract : Contracts, now : 0..MaxTime]
    BY <1>2
<1>3. CASE f \in [at : {"prepared"}, challenge : Challenges]
    BY <1>3
<1>4. CASE f \in [at : {"consumed"}, review : ReviewIds, challenge : Challenges]
    BY <1>4
<1>5. CASE f \in [at : {"built", "signed", "verified"}, artifact : Artifacts]
    BY <1>5
<1> QED
    BY <1>1, <1>2, <1>3, <1>4, <1>5 DEF Frames

\* An expiry is bounded by both of its limits.
LEMMA ExpiryBounds ==
    ASSUME NEW now \in 0..MaxTime, NEW ttl \in Nat, NEW outer \in Nat
    PROVE  /\ boundedExpiry(now, ttl, outer) \in 0..(MaxTime + ttl)
           /\ boundedExpiry(now, ttl, outer) <= outer
           /\ boundedExpiry(now, ttl, outer) - now <= ttl
    BY ApprovalAssumption DEF boundedExpiry

-----------------------------------------------------------------------------
\* Preservation of the inductive invariant.

\* The empty registry satisfies the invariant.
LEMMA InitInv == Init => ApprovalInv
<1> SUFFICES ASSUME Init PROVE ApprovalInv
    OBVIOUS
<1>1. ApprovalTypeOK
    BY ApprovalAssumption DEF Init, ApprovalTypeOK, Frames
<1>2. \A k \in Calls : call[k] = Idle /\ ~Holding(call[k])
    BY DEF Init, Idle, Holding
<1> QED
    BY <1>1, <1>2 DEF Init, ApprovalInv, HoldsItsReview, Idle, OneApprovalPerReview,
       TamperedReviewsIssueNothing, ApprovalsEndWithContract, ApprovalsAreConsumedOnce

\* A step that only moves one call keeps the invariant when it does not make the
\* call hold a review that it has not consumed.
LEMMA MoveInv ==
    ASSUME ApprovalInv, NEW k \in Calls, NEW g \in Frames,
           call' = [call EXCEPT ![k] = g],
           UNCHANGED <<world, registry, tampered, issued, accepted>>,
           Holding(g) => Holding(call[k]) /\ ReviewOf(g) = ReviewOf(call[k]),
           g.at \in {"built", "signed"} => Bounded(g.artifact),
           g.at = "verified" => g.artifact \in issued
    PROVE  ApprovalInv'
<1>0. /\ call \in [Calls -> Frames]
      /\ call'[k] = g /\ \A j \in Calls \ {k} : call'[j] = call[j]
      /\ UNCHANGED <<clock, signedIn, trusted, current, pending, consumedReviews,
                     consumedApprovals, tampered, issued, accepted>>
    BY DEF ApprovalInv, ApprovalTypeOK, world, registry
<1>1. ApprovalTypeOK'
    BY <1>0 DEF ApprovalInv, ApprovalTypeOK
<1>2. ASSUME NEW j \in Calls
      PROVE  /\ HoldsItsReview(j)'
             /\ call'[j].at \in {"built", "signed"} => Bounded(call'[j].artifact)
             /\ call'[j].at = "verified" => call'[j].artifact \in issued'
  <2>1. \A i \in Calls : Holding(call'[i]) =>
                            Holding(call[i]) /\ ReviewOf(call'[i]) = ReviewOf(call[i])
    BY <1>0
  <2>2. HoldsItsReview(j)'
    BY <1>0, <2>1 DEF ApprovalInv, HoldsItsReview, Holding, ReviewOf
  <2>3. call'[j].at \in {"built", "signed"} => Bounded(call'[j].artifact)
    BY <1>0 DEF ApprovalInv, Bounded
  <2> QED
    BY <1>0, <2>2, <2>3 DEF ApprovalInv
<1> QED
    BY <1>0, <1>1, <1>2 DEF ApprovalInv, OneApprovalPerReview, TamperedReviewsIssueNothing,
       ApprovalsEndWithContract, Bounded, ApprovalsAreConsumedOnce

\* A registered challenge is pending, and was not consumed before.
LEMMA FinishReviewInv ==
    ASSUME ApprovalInv, NEW k \in Calls, NEW id \in ReviewIds, finishReview(k, id)
    PROVE  ApprovalInv'
<1> DEFINE ch == call[k].challenge
<1>0. /\ ch \in Challenges /\ id \notin DOMAIN pending \cup consumedReviews
      /\ pending' = [r \in DOMAIN pending \cup {id} |-> IF r = id THEN ch ELSE pending[r]]
      /\ call' = [call EXCEPT ![k] = Idle] /\ call \in [Calls -> Frames]
      /\ UNCHANGED <<clock, signedIn, trusted, current, consumedReviews, consumedApprovals,
                     tampered, issued, accepted>>
    BY FrameFields DEF finishReview, registerReview, Goto, ApprovalInv, ApprovalTypeOK, world
<1> HIDE DEF ch
<1>1. call'[k] = Idle /\ \A j \in Calls \ {k} : call'[j] = call[j]
    BY <1>0
<1>2. ApprovalTypeOK'
    BY <1>0 DEF ApprovalInv, ApprovalTypeOK, Frames
<1>3. ASSUME NEW j \in Calls
      PROVE  /\ HoldsItsReview(j)'
             /\ call'[j].at \in {"built", "signed"} => Bounded(call'[j].artifact)
             /\ call'[j].at = "verified" => call'[j].artifact \in issued'
  <2>1. \A i \in Calls : Holding(call'[i]) => call'[i] = call[i]
    BY <1>1 DEF Holding, Idle
  <2>2. HoldsItsReview(j)'
    BY <1>0, <2>1 DEF ApprovalInv, HoldsItsReview, Holding, ReviewOf
  <2> QED
    BY <1>0, <1>1, <2>2 DEF ApprovalInv, Bounded, Idle
<1> QED
    BY <1>0, <1>2, <1>3 DEF ApprovalInv, OneApprovalPerReview, TamperedReviewsIssueNothing,
       ApprovalsEndWithContract, Bounded, ApprovalsAreConsumedOnce

\* issueApproval consumes a pending review, which no call holds and nothing was
\* issued for; it holds it only when the challenge was the registered one.
LEMMA IssueApprovalInv ==
    ASSUME ApprovalInv, NEW k \in Calls, NEW id \in DOMAIN pending, NEW ch \in Echoes(id),
           issueApproval(k, id, ch)
    PROVE  ApprovalInv'
<1> DEFINE g == [at |-> "consumed", review |-> id, challenge |-> ch]
<1>0. /\ call \in [Calls -> Frames] /\ call[k] = Idle
      /\ pending' = [r \in DOMAIN pending \ {id} |-> pending[r]]
      /\ consumedReviews' = consumedReviews \cup {id}
      /\ \/ pending[id] = ch /\ call' = [call EXCEPT ![k] = g] /\ tampered' = tampered
         \/ call' = call /\ tampered' = tampered \cup {id}
      /\ UNCHANGED <<clock, signedIn, trusted, current, consumedApprovals, issued, accepted>>
    BY DEF issueApproval, consumeReview, Goto, ApprovalInv, ApprovalTypeOK, world
<1>1. /\ id \in ReviewIds /\ id \notin consumedReviews /\ pending[id] \in Challenges
      /\ pending[id] = ch => g \in Frames
    BY DEF ApprovalInv, ApprovalTypeOK, Frames
<1>2. ApprovalTypeOK'
  <2> HIDE DEF g
  <2>1. call' \in [Calls -> Frames]
    BY <1>0, <1>1
  <2> QED
    BY <1>0, <1>1, <2>1 DEF ApprovalInv, ApprovalTypeOK
<1>3. \A i \in Calls : Holding(call'[i]) /\ call'[i] # call[i] =>
                          i = k /\ pending[id] = ch /\ ReviewOf(call'[i]) = id
    BY <1>0 DEF ReviewOf
<1>4. /\ \A i \in Calls : Holding(call[i]) => ReviewOf(call[i]) # id
      /\ \A a \in issued : a.review # id
    BY <1>1 DEF ApprovalInv, HoldsItsReview
<1>5. id \notin tampered
    BY <1>1 DEF ApprovalInv, ApprovalTypeOK
<1>6. ASSUME NEW j \in Calls
      PROVE  /\ HoldsItsReview(j)'
             /\ call'[j].at \in {"built", "signed"} => Bounded(call'[j].artifact)
             /\ call'[j].at = "verified" => call'[j].artifact \in issued'
  <2>1. HoldsItsReview(j)'
    <3> SUFFICES ASSUME Holding(call'[j])
                 PROVE  /\ ReviewOf(call'[j]) \in consumedReviews' \ tampered'
                        /\ \A a \in issued : a.review # ReviewOf(call'[j])
                        /\ \A i \in Calls \ {j} : Holding(call'[i]) =>
                              ReviewOf(call'[i]) # ReviewOf(call'[j])
      BY <1>0 DEF HoldsItsReview, Holding, ReviewOf
    <3>1. CASE call'[j] = call[j]
      BY <1>0, <1>3, <1>4, <3>1 DEF ApprovalInv, HoldsItsReview
    <3>2. CASE call'[j] # call[j]
      <4>1. j = k /\ pending[id] = ch /\ ReviewOf(call'[j]) = id
        BY <1>3, <3>2
      <4>2. tampered' = tampered /\ \A i \in Calls \ {j} : call'[i] = call[i]
        BY <1>0, <3>2, <4>1
      <4> QED
        BY <1>0, <1>4, <1>5, <4>1, <4>2
    <3> QED
      BY <3>1, <3>2
  <2>2. call'[j] = call[j] \/ call'[j] = g
    BY <1>0
  <2> QED
    BY <1>0, <2>1, <2>2 DEF ApprovalInv, Bounded
<1>7. TamperedReviewsIssueNothing'
    BY <1>0, <1>4 DEF ApprovalInv, TamperedReviewsIssueNothing
<1> QED
    BY <1>0, <1>2, <1>6, <1>7 DEF ApprovalInv, OneApprovalPerReview,
       ApprovalsEndWithContract, Bounded, ApprovalsAreConsumedOnce

\* finishApproval issues the first artifact of the review that its call holds.
LEMMA FinishApprovalInv ==
    ASSUME ApprovalInv, NEW k \in Calls, finishApproval(k)
    PROVE  ApprovalInv'
<1> DEFINE a == call[k].artifact
<1>0. /\ call \in [Calls -> Frames] /\ call[k].at = "signed"
      /\ a \in Artifacts /\ issued' = issued \cup {a}
      /\ call' = [call EXCEPT ![k] = Idle]
      /\ UNCHANGED <<clock, signedIn, trusted, current, pending, consumedReviews,
                     consumedApprovals, tampered, accepted>>
    BY FrameFields DEF finishApproval, Goto, ApprovalInv, ApprovalTypeOK, world, registry
<1>1. /\ Holding(call[k]) /\ ReviewOf(call[k]) = a.review /\ Bounded(a)
    BY <1>0 DEF Holding, ReviewOf, ApprovalInv
<1>2. /\ a.review \in consumedReviews \ tampered
      /\ \A b \in issued : b.review # a.review
      /\ \A j \in Calls \ {k} : Holding(call[j]) => ReviewOf(call[j]) # a.review
    BY <1>1 DEF ApprovalInv, HoldsItsReview
<1>3. call'[k] = Idle /\ \A j \in Calls \ {k} : call'[j] = call[j]
    BY <1>0
<1> HIDE DEF a
<1>4. ApprovalTypeOK'
    BY <1>0 DEF ApprovalInv, ApprovalTypeOK, Frames
<1>5. ASSUME NEW j \in Calls
      PROVE  /\ HoldsItsReview(j)'
             /\ call'[j].at \in {"built", "signed"} => Bounded(call'[j].artifact)
             /\ call'[j].at = "verified" => call'[j].artifact \in issued'
  <2>1. \A i \in Calls : Holding(call'[i]) => i # k /\ call'[i] = call[i]
    BY <1>3 DEF Holding, Idle
  <2>2. HoldsItsReview(j)'
    BY <1>0, <1>2, <2>1 DEF ApprovalInv, HoldsItsReview, Holding, ReviewOf
  <2> QED
    BY <1>0, <1>3, <2>2 DEF ApprovalInv, Bounded, Idle
<1>6. OneApprovalPerReview' /\ TamperedReviewsIssueNothing' /\ ApprovalsEndWithContract'
    BY <1>0, <1>1, <1>2 DEF ApprovalInv, OneApprovalPerReview, TamperedReviewsIssueNothing,
       ApprovalsEndWithContract, Bounded
<1> QED
    BY <1>0, <1>2, <1>4, <1>5, <1>6 DEF ApprovalInv, ApprovalsAreConsumedOnce

\* finishVerification accepts an artifact whose id nobody has consumed.
LEMMA FinishVerificationInv ==
    ASSUME ApprovalInv, NEW k \in Calls, finishVerification(k)
    PROVE  ApprovalInv'
<1> DEFINE a == call[k].artifact
           times == IF a \in DOMAIN accepted THEN accepted[a] ELSE 0
<1>0. /\ call \in [Calls -> Frames] /\ call[k].at = "verified"
      /\ a \in issued /\ a.id \notin consumedApprovals
      /\ consumedApprovals' = consumedApprovals \cup {a.id}
      /\ accepted' = [b \in DOMAIN accepted \cup {a} |->
                         IF b = a THEN times + 1 ELSE accepted[b]]
      /\ call' = [call EXCEPT ![k] = Idle]
      /\ UNCHANGED <<clock, signedIn, trusted, current, pending, consumedReviews,
                     tampered, issued>>
    BY DEF finishVerification, consumeArtifact, Goto, ApprovalInv, ApprovalTypeOK, world
<1>1. /\ a \notin DOMAIN accepted /\ times = 0
      /\ \A b \in DOMAIN accepted : b.id # a.id
    BY <1>0 DEF ApprovalInv
<1>2. a.id \in ApprovalIds
    BY <1>0 DEF ApprovalInv, ApprovalTypeOK, Artifacts
<1>3. call'[k] = Idle /\ \A j \in Calls \ {k} : call'[j] = call[j]
    BY <1>0
<1> HIDE DEF a, times
<1>4. ApprovalTypeOK'
    BY <1>0, <1>2 DEF ApprovalInv, ApprovalTypeOK, Frames
<1>5. ASSUME NEW j \in Calls
      PROVE  /\ HoldsItsReview(j)'
             /\ call'[j].at \in {"built", "signed"} => Bounded(call'[j].artifact)
             /\ call'[j].at = "verified" => call'[j].artifact \in issued'
  <2>1. \A i \in Calls : Holding(call'[i]) => call'[i] = call[i]
    BY <1>3 DEF Holding, Idle
  <2>2. HoldsItsReview(j)'
    BY <1>0, <2>1 DEF ApprovalInv, HoldsItsReview, Holding, ReviewOf
  <2> QED
    BY <1>0, <1>3, <2>2 DEF ApprovalInv, Bounded, Idle
<1>6. /\ \A b \in DOMAIN accepted' : b.id \in consumedApprovals' /\ accepted'[b] = 1
      /\ \A b, c \in DOMAIN accepted' : b.id = c.id => b = c
    BY <1>0, <1>1 DEF ApprovalInv, ApprovalsAreConsumedOnce
<1>7. ApprovalsAreConsumedOnce'
    BY <1>6 DEF ApprovalsAreConsumedOnce
<1> QED
    BY <1>0, <1>4, <1>5, <1>6, <1>7 DEF ApprovalInv, OneApprovalPerReview,
       TamperedReviewsIssueNothing, ApprovalsEndWithContract, Bounded

\* What the ports say does not touch the registry or a call.
LEMMA PortsChangeInv ==
    ASSUME ApprovalInv, PortsChange
    PROVE  ApprovalInv'
<1>1. /\ clock' \in 0..MaxTime /\ signedIn' \in Reviewers
      /\ trusted' \subseteq Reviewers /\ current' \in Commitments
    BY ApprovalAssumption DEF PortsChange, Tick, SwitchReviewer, RevokeKey, ChangeCommitments,
       ApprovalInv, ApprovalTypeOK
<1>2. UNCHANGED <<call, pending, consumedReviews, consumedApprovals, tampered, issued, accepted>>
    BY DEF PortsChange, registry
<1>3. ApprovalTypeOK'
    BY <1>1, <1>2 DEF ApprovalInv, ApprovalTypeOK
<1>4. \A k \in Calls : HoldsItsReview(k)'
    BY <1>2 DEF ApprovalInv, HoldsItsReview, Holding, ReviewOf
<1> QED
    BY <1>2, <1>3, <1>4 DEF ApprovalInv, OneApprovalPerReview, TamperedReviewsIssueNothing,
       ApprovalsEndWithContract, Bounded, ApprovalsAreConsumedOnce

\* Every step keeps the invariant.
LEMMA NextInv == ApprovalInv /\ [Next]_vars => ApprovalInv'
<1> SUFFICES ASSUME ApprovalInv, [Next]_vars PROVE ApprovalInv'
    OBVIOUS
<1>0. call \in [Calls -> Frames] /\ clock \in 0..MaxTime
      /\ signedIn \in Reviewers /\ issued \subseteq Artifacts
    BY DEF ApprovalInv, ApprovalTypeOK
<1>1. ASSUME NEW k \in Calls, NEW c \in Contracts, prepareReview(k, c) PROVE ApprovalInv'
  <2> DEFINE g == [at |-> "preparing", contract |-> c, now |-> clock]
  <2>1. g \in Frames /\ ~Holding(g) /\ g.at = "preparing"
    BY <1>0 DEF Frames, Holding
  <2>2. call' = [call EXCEPT ![k] = g]
        /\ UNCHANGED <<world, registry, tampered, issued, accepted>>
    BY <1>1 DEF prepareReview, Goto
  <2> HIDE DEF g
  <2> QED
    BY <2>1, <2>2, MoveInv
<1>2. ASSUME NEW k \in Calls, captureReviewer(k) PROVE ApprovalInv'
  <2> DEFINE f == call[k]
             e == boundedExpiry(f.now, ReviewTtl, ContractEnds[f.contract])
             ch == [contract |-> f.contract, reviewer |-> signedIn, issuedAt |-> f.now,
                    expiresAt |-> e]
             g == [at |-> "prepared", challenge |-> ch]
  <2>1. f.contract \in Contracts /\ f.now \in 0..MaxTime
    BY <1>0, <1>2, FrameFields DEF captureReviewer
  <2>2. e \in 0..(MaxTime + ReviewTtl)
    BY <2>1, ExpiryBounds, ApprovalAssumption
  <2>3. call' = [call EXCEPT ![k] = g]
        /\ UNCHANGED <<world, registry, tampered, issued, accepted>>
    BY <1>2 DEF captureReviewer, Goto
  <2> HIDE DEF e
  <2>4. ch \in Challenges
    BY <1>0, <2>1, <2>2 DEF Challenges
  <2> HIDE DEF ch
  <2>5. g \in Frames /\ ~Holding(g) /\ g.at = "prepared"
    BY <2>4 DEF Frames, Holding
  <2> HIDE DEF g
  <2> QED
    BY <2>3, <2>5, MoveInv
<1>3. ASSUME NEW k \in Calls, NEW id \in ReviewIds, finishReview(k, id) PROVE ApprovalInv'
    BY <1>3, FinishReviewInv
<1>4. ASSUME NEW k \in Calls, NEW id \in DOMAIN pending, NEW ch \in Echoes(id),
             issueApproval(k, id, ch)
      PROVE  ApprovalInv'
    BY <1>4, IssueApprovalInv
<1>5. ASSUME NEW k \in Calls, NEW c \in Contracts, NEW id \in ApprovalIds,
             buildArtifact(k, c, id)
      PROVE  ApprovalInv'
  <2> DEFINE f == call[k]
             e == boundedExpiry(clock, ApprovalTtl, ContractEnds[c])
             a == [id |-> id, review |-> f.review, contract |-> c,
                   reviewer |-> f.challenge.reviewer, issuedAt |-> clock, expiresAt |-> e]
             g == [at |-> "built", artifact |-> a]
  <2>1. /\ f.at = "consumed" /\ f.review \in ReviewIds /\ f.challenge \in Challenges
    BY <1>0, <1>5, FrameFields DEF buildArtifact
  <2>2. /\ e \in 0..(MaxTime + ApprovalTtl) /\ e <= ContractEnds[c] /\ e - clock <= ApprovalTtl
    BY <1>0, ExpiryBounds, ApprovalAssumption
  <2>3. call' = [call EXCEPT ![k] = g]
        /\ UNCHANGED <<world, registry, tampered, issued, accepted>>
    BY <1>5 DEF buildArtifact, Goto
  <2> HIDE DEF e
  <2>4. a \in Artifacts /\ Bounded(a) /\ a.review = f.review
    BY <1>0, <2>1, <2>2 DEF Artifacts, Challenges, Bounded
  <2> HIDE DEF a
  <2>5. /\ g \in Frames /\ ReviewOf(g) = ReviewOf(f) /\ Holding(f)
        /\ g.at = "built" /\ g.artifact = a
    BY <2>1, <2>4 DEF Frames, Holding, ReviewOf
  <2> HIDE DEF g
  <2> QED
    BY <2>3, <2>4, <2>5, MoveInv
<1>6. ASSUME NEW k \in Calls, signArtifact(k) PROVE ApprovalInv'
  <2> DEFINE a == call[k].artifact
             g == [at |-> "signed", artifact |-> a]
  <2>1. /\ call[k].at = "built" /\ a \in Artifacts
        /\ call[k] = [at |-> "built", artifact |-> a]
    BY <1>0, <1>6, FrameFields DEF signArtifact
  <2>2. call' = [call EXCEPT ![k] = g]
        /\ UNCHANGED <<world, registry, tampered, issued, accepted>>
    <3>1. [call[k] EXCEPT !.at = "signed"] = g
      BY <2>1
    <3> QED
      BY <1>6, <3>1 DEF signArtifact, Goto
  <2>3. Bounded(a)
    BY <2>1 DEF ApprovalInv
  <2>4. /\ g \in Frames /\ ReviewOf(g) = ReviewOf(call[k]) /\ Holding(call[k])
        /\ g.at = "signed" /\ g.artifact = a
    BY <2>1 DEF Frames, Holding, ReviewOf
  <2> HIDE DEF g
  <2> QED
    BY <2>2, <2>3, <2>4, MoveInv
<1>7. ASSUME NEW k \in Calls, finishApproval(k) PROVE ApprovalInv'
    BY <1>7, FinishApprovalInv
<1>8. ASSUME NEW k \in Calls, NEW a \in issued, NEW c \in Contracts, verifyApproval(k, a, c)
      PROVE  ApprovalInv'
  <2> DEFINE g == [at |-> "verified", artifact |-> a]
  <2>1. g \in Frames /\ ~Holding(g) /\ g.at = "verified" /\ g.artifact = a
    BY <1>0 DEF Frames, Holding
  <2>2. call' = [call EXCEPT ![k] = g]
        /\ UNCHANGED <<world, registry, tampered, issued, accepted>>
    BY <1>8 DEF verifyApproval, Goto
  <2> HIDE DEF g
  <2> QED
    BY <2>1, <2>2, MoveInv
<1>9. ASSUME NEW k \in Calls, finishVerification(k) PROVE ApprovalInv'
    BY <1>9, FinishVerificationInv
<1>10. ASSUME NEW k \in Calls, Throw(k) PROVE ApprovalInv'
  <2>1. Idle \in Frames /\ ~Holding(Idle) /\ Idle.at = "idle"
    BY DEF Frames, Holding, Idle
  <2>2. call' = [call EXCEPT ![k] = Idle]
        /\ UNCHANGED <<world, registry, tampered, issued, accepted>>
    BY <1>10 DEF Throw, Goto
  <2> QED
    BY <2>1, <2>2, MoveInv
<1>11. CASE PortsChange
    BY <1>11, PortsChangeInv
<1>12. CASE UNCHANGED vars
  <2>1. UNCHANGED <<clock, signedIn, trusted, current, call, pending, consumedReviews,
                    consumedApprovals, tampered, issued, accepted>>
    BY <1>12 DEF vars, world, registry
  <2>2. ApprovalTypeOK'
    BY <2>1 DEF ApprovalInv, ApprovalTypeOK
  <2>3. \A k \in Calls : HoldsItsReview(k)'
    BY <2>1 DEF ApprovalInv, HoldsItsReview, Holding, ReviewOf
  <2> QED
    BY <2>1, <2>2, <2>3 DEF ApprovalInv, OneApprovalPerReview, TamperedReviewsIssueNothing,
       ApprovalsEndWithContract, Bounded, ApprovalsAreConsumedOnce
<1> QED
    BY <1>1, <1>2, <1>3, <1>4, <1>5, <1>6, <1>7, <1>8, <1>9, <1>10, <1>11, <1>12 DEF Next

\* The invariant holds in every reachable state.
LEMMA Invariant == ApprovalSpec => []ApprovalInv
    BY InitInv, NextInv, PTL DEF ApprovalSpec

-----------------------------------------------------------------------------
\* Theorems.

\* The state of the approval service keeps its types, and no review is pending
\* and consumed at once.
THEOREM TypeCorrect == ApprovalSpec => []ApprovalTypeOK
<1>1. ApprovalInv => ApprovalTypeOK
    BY DEF ApprovalInv
<1> QED
    BY <1>1, Invariant, PTL

\* One review gives one artifact at most, for any number of calls that echo the
\* same challenge at once.
THEOREM OneApproval == ApprovalSpec => []OneApprovalPerReview
<1>1. ApprovalInv => OneApprovalPerReview
    BY DEF ApprovalInv
<1> QED
    BY <1>1, Invariant, PTL

\* A submission that differs from the registered challenge ends its review.
THEOREM TamperedIssueNothing == ApprovalSpec => []TamperedReviewsIssueNothing
<1>1. ApprovalInv => TamperedReviewsIssueNothing
    BY DEF ApprovalInv
<1> QED
    BY <1>1, Invariant, PTL

\* No artifact is accepted twice, and no two artifacts of one id are.
THEOREM ConsumedOnce == ApprovalSpec => []ApprovalsAreConsumedOnce
<1>1. ApprovalInv => ApprovalsAreConsumedOnce
    BY DEF ApprovalInv
<1> QED
    BY <1>1, Invariant, PTL

\* No issued artifact outlives its contract or its own time to live.
THEOREM EndsWithContract == ApprovalSpec => []ApprovalsEndWithContract
<1>1. ApprovalInv => ApprovalsEndWithContract
    BY DEF ApprovalInv
<1> QED
    BY <1>1, Invariant, PTL

\* An artifact is accepted only while it is in its time, its reviewer's key is
\* trusted and its contract's commitments are current.
THEOREM AcceptedLive == ApprovalSpec => AcceptedWhileLive
<1> DEFINE Live == \A a \in DOMAIN accepted' :
          (IF a \in DOMAIN accepted THEN accepted[a] ELSE 0) # accepted'[a] =>
              /\ a.issuedAt <= clock /\ clock < a.expiresAt
              /\ a.reviewer \in trusted
              /\ current = CommitmentOf[a.contract]
<1>1. [Next]_vars => [Live]_vars
  <2> SUFFICES ASSUME Next PROVE Live
    OBVIOUS
  <2>1. CASE accepted' = accepted
    BY <2>1
  <2>2. ASSUME NEW k \in Calls, finishVerification(k) PROVE Live
    BY <2>2 DEF finishVerification, LastFences, ActiveWindow
  <2> QED
    BY <2>1, <2>2 DEF Next, prepareReview, captureReviewer, finishReview, issueApproval, consumeReview,
       buildArtifact, signArtifact, finishApproval, verifyApproval, Throw, PortsChange
<1> QED
    BY <1>1, PTL DEF ApprovalSpec, AcceptedWhileLive
=============================================================================
