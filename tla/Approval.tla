------------------------------ MODULE Approval ------------------------------
(***************************************************************************)
(* CanonicalApprovalService of packages/clodex-approval with its reference *)
(* replay registry: a review challenge is prepared for the authenticated   *)
(* reviewer, echoed once by the trusted user interface, turned into one    *)
(* signed artifact, and the artifact is consumed once by whoever verifies  *)
(* it.  Calls run concurrently in one isolate.  Between two awaits of a    *)
(* call the clock, the reviewer who is signed in, the trust in a key and   *)
(* the current commitments may change; the last fences of a call and its   *)
(* registry operation run in one synchronous block.                        *)
(*                                                                         *)
(* An id stands for an id with its nonce, which the registry treats alike. *)
(* The policy, registry and renderer digests of a contract are one         *)
(* commitment.                                                             *)
(***************************************************************************)
EXTENDS Naturals, FiniteSets

CONSTANTS
    Calls,          \* service calls that may be under way at once
    Contracts,
    Reviewers,
    Commitments,    \* values of the current commitments
    CommitmentOf,   \* contract -> the commitments it was signed for
    ContractEnds,   \* contract -> expiresAt of its validity; it begins at 0
    ReviewIds,      \* what the id port may return, fresh or not
    ApprovalIds,
    ReviewTtl,
    ApprovalTtl,
    MaxTime         \* bound on the clock

VARIABLES
    clock,
    signedIn,       \* the reviewer that the identity port authenticates
    trusted,        \* reviewers whose signing key is active
    current,        \* current commitments
    call,           \* call -> where it stands and what it has captured
    pending,        \* review id -> registered challenge
    consumedReviews,
    consumedApprovals,
    tampered,       \* review ids that a differing challenge was submitted for
    issued,         \* artifacts that issueApproval returned
    accepted        \* artifacts with the number of times each was accepted

world == <<clock, signedIn, trusted, current>>
registry == <<pending, consumedReviews, consumedApprovals>>
vars == <<world, call, registry, tampered, issued, accepted>>

ASSUME ApprovalAssumption ==
    /\ ReviewTtl \in Nat \ {0} /\ ApprovalTtl \in Nat \ {0} /\ MaxTime \in Nat
    /\ CommitmentOf \in [Contracts -> Commitments]
    /\ ContractEnds \in [Contracts -> Nat]

Idle == [at |-> "idle"]

\* assertActiveWindow, and for a contract assertContractActive.
ActiveWindow(x, now) == x.issuedAt <= now /\ now < x.expiresAt
ContractActive(c, now) == now < ContractEnds[c]

boundedExpiry(now, ttl, outer) == IF now + ttl < outer THEN now + ttl ELSE outer

Init ==
    /\ clock = 0
    /\ signedIn \in Reviewers
    /\ trusted = Reviewers
    /\ current \in Commitments
    /\ call = [k \in Calls |-> Idle]
    /\ pending = <<>>
    /\ consumedReviews = {}
    /\ consumedApprovals = {}
    /\ tampered = {}
    /\ issued = {}
    /\ accepted = <<>>

Goto(k, frame) == call' = [call EXCEPT ![k] = frame]

\* A call that is refused, by any of its checks, throws and captures nothing.
Throw(k) ==
    /\ call[k] # Idle
    /\ Goto(k, Idle)
    /\ UNCHANGED <<world, registry, tampered, issued, accepted>>

-----------------------------------------------------------------------------
\* prepareReview: the contract is verified and active, its commitments are
\* fresh, and the reviewer is authenticated.
prepareReview(k, c) ==
    /\ call[k] = Idle
    /\ ContractActive(c, clock)
    /\ Goto(k, [at |-> "preparing", contract |-> c, now |-> clock])
    /\ UNCHANGED <<world, registry, tampered, issued, accepted>>

captureReviewer(k) ==
    LET f == call[k] IN
    /\ f.at = "preparing"
    /\ current = CommitmentOf[f.contract]
    /\ Goto(k, [at |-> "prepared",
                challenge |-> [contract |-> f.contract, reviewer |-> signedIn,
                    issuedAt |-> f.now,
                    expiresAt |-> boundedExpiry(f.now, ReviewTtl, ContractEnds[f.contract])]])
    /\ UNCHANGED <<world, registry, tampered, issued, accepted>>

registerReview(id, challenge) ==
    /\ id \notin DOMAIN pending \cup consumedReviews
    /\ pending' = [r \in DOMAIN pending \cup {id} |->
                      IF r = id THEN challenge ELSE pending[r]]
    /\ UNCHANGED <<consumedReviews, consumedApprovals>>

\* The last fences of prepareReview, and the registration.
finishReview(k, id) ==
    LET ch == call[k].challenge IN
    /\ call[k].at = "prepared"
    /\ ch.reviewer = signedIn
    /\ ActiveWindow(ch, clock) /\ ContractActive(ch.contract, clock)
    /\ current = CommitmentOf[ch.contract]
    /\ registerReview(id, ch)
    /\ Goto(k, Idle)
    /\ UNCHANGED <<world, tampered, issued, accepted>>

-----------------------------------------------------------------------------
\* Mutant: the review is looked up and compared, and not taken out.
consumeReview_LooksUp(id) ==
    /\ id \notin consumedReviews
    /\ id \in DOMAIN pending
    /\ UNCHANGED registry

\* A review is taken out before the submission is compared with it.
consumeReview(id) ==
    /\ id \notin consumedReviews
    /\ id \in DOMAIN pending
    /\ pending' = [r \in DOMAIN pending \ {id} |-> pending[r]]
    /\ consumedReviews' = consumedReviews \cup {id}
    /\ UNCHANGED consumedApprovals

\* issueApproval consumes the challenge before anything else; one that differs
\* from what was registered is refused, and its review is gone.
issueApproval(k, id, ch) ==
    /\ call[k] = Idle
    /\ consumeReview(id)
    /\ IF pending[id] = ch
       THEN Goto(k, [at |-> "consumed", review |-> id, challenge |-> ch])
            /\ UNCHANGED tampered
       ELSE UNCHANGED call /\ tampered' = tampered \cup {id}
    /\ UNCHANGED <<world, issued, accepted>>

\* The contract is verified again, the review is still active and binds it,
\* the reviewer is the one the review was prepared for, and the commitments
\* are fresh: the artifact is built.
buildArtifact(k, c, id) ==
    LET ch == call[k].challenge IN
    /\ call[k].at = "consumed"
    /\ ActiveWindow(ch, clock) /\ ContractActive(c, clock)
    /\ ch.contract = c
    /\ signedIn = ch.reviewer
    /\ current = CommitmentOf[c]
    /\ Goto(k, [at |-> "built",
                artifact |-> [id |-> id, review |-> call[k].review, contract |-> c,
                    reviewer |-> ch.reviewer, issuedAt |-> clock,
                    expiresAt |-> boundedExpiry(clock, ApprovalTtl, ContractEnds[c])]])
    /\ UNCHANGED <<world, registry, tampered, issued, accepted>>

\* The artifact is signed with the key of whoever is signed in now; the trust
\* store must know that key as the reviewer's and verify the signature.
signArtifact(k) ==
    /\ call[k].at = "built"
    /\ signedIn = call[k].artifact.reviewer
    /\ signedIn \in trusted
    /\ Goto(k, [call[k] EXCEPT !.at = "signed"])
    /\ UNCHANGED <<world, registry, tampered, issued, accepted>>

\* The last fences of issueApproval.
finishApproval(k) ==
    LET a == call[k].artifact IN
    /\ call[k].at = "signed"
    /\ signedIn = a.reviewer
    /\ ActiveWindow(a, clock) /\ ContractActive(a.contract, clock)
    /\ a.reviewer \in trusted
    /\ current = CommitmentOf[a.contract]
    /\ issued' = issued \cup {a}
    /\ Goto(k, Idle)
    /\ UNCHANGED <<world, registry, tampered, accepted>>

-----------------------------------------------------------------------------
\* verifyAndConsumeApproval: every check but the last fences, then those and
\* the consumption of the replay reference in one block.
verifyApproval(k, a, c) ==
    /\ call[k] = Idle
    /\ ActiveWindow(a, clock) /\ ContractActive(c, clock)
    /\ a.expiresAt - a.issuedAt <= ApprovalTtl
    /\ a.contract = c
    /\ a.reviewer \in trusted
    /\ current = CommitmentOf[c]
    /\ Goto(k, [at |-> "verified", artifact |-> a])
    /\ UNCHANGED <<world, registry, tampered, issued, accepted>>

\* Mutant: what was trusted when the verification began is taken for granted.
LastFences_AtStart(a) == ActiveWindow(a, clock) /\ ContractActive(a.contract, clock)

LastFences(a) ==
    /\ ActiveWindow(a, clock) /\ ContractActive(a.contract, clock)
    /\ a.reviewer \in trusted
    /\ current = CommitmentOf[a.contract]

consumeArtifact(a) ==
    /\ a.id \notin consumedApprovals
    /\ consumedApprovals' = consumedApprovals \cup {a.id}
    /\ UNCHANGED <<pending, consumedReviews>>

finishVerification(k) ==
    LET a == call[k].artifact
        times == IF a \in DOMAIN accepted THEN accepted[a] ELSE 0
    IN
    /\ call[k].at = "verified"
    /\ LastFences(a)
    /\ consumeArtifact(a)
    /\ accepted' = [b \in DOMAIN accepted \cup {a} |-> IF b = a THEN times + 1 ELSE accepted[b]]
    /\ Goto(k, Idle)
    /\ UNCHANGED <<world, tampered, issued>>

-----------------------------------------------------------------------------
\* The ports change under the calls.
Tick == clock < MaxTime /\ clock' = clock + 1 /\ UNCHANGED <<signedIn, trusted, current>>
SwitchReviewer == signedIn' \in Reviewers /\ UNCHANGED <<clock, trusted, current>>
RevokeKey == \E r \in trusted : trusted' = trusted \ {r} /\ UNCHANGED <<clock, signedIn, current>>
ChangeCommitments == current' \in Commitments /\ UNCHANGED <<clock, signedIn, trusted>>

PortsChange ==
    /\ Tick \/ SwitchReviewer \/ RevokeKey \/ ChangeCommitments
    /\ UNCHANGED <<call, registry, tampered, issued, accepted>>

Challenges ==
    [contract : Contracts, reviewer : Reviewers, issuedAt : 0..MaxTime,
     expiresAt : 0..(MaxTime + ReviewTtl)]

\* What the review UI may hand back: the challenge as it was registered, or one
\* with another reviewer.
Echoes(id) ==
    {pending[id]} \cup {[pending[id] EXCEPT !.reviewer = r] : r \in Reviewers}

Next ==
    \/ \E k \in Calls :
          \/ \E c \in Contracts : prepareReview(k, c)
          \/ captureReviewer(k)
          \/ \E id \in ReviewIds : finishReview(k, id)
          \/ \E id \in DOMAIN pending : \E ch \in Echoes(id) : issueApproval(k, id, ch)
          \/ \E c \in Contracts, id \in ApprovalIds : buildArtifact(k, c, id)
          \/ signArtifact(k)
          \/ finishApproval(k)
          \/ \E a \in issued, c \in Contracts : verifyApproval(k, a, c)
          \/ finishVerification(k)
          \/ Throw(k)
    \/ PortsChange

ApprovalSpec == Init /\ [][Next]_vars

-----------------------------------------------------------------------------
Artifacts ==
    [id : ApprovalIds, review : ReviewIds, contract : Contracts, reviewer : Reviewers,
     issuedAt : 0..MaxTime, expiresAt : 0..(MaxTime + ApprovalTtl)]

Frames ==
    {Idle}
    \cup [at : {"preparing"}, contract : Contracts, now : 0..MaxTime]
    \cup [at : {"prepared"}, challenge : Challenges]
    \cup [at : {"consumed"}, review : ReviewIds, challenge : Challenges]
    \cup [at : {"built", "signed", "verified"}, artifact : Artifacts]

\* The state has its types; a review is pending or consumed, never both.
ApprovalTypeOK ==
    /\ clock \in 0..MaxTime /\ signedIn \in Reviewers
    /\ trusted \subseteq Reviewers /\ current \in Commitments
    /\ call \in [Calls -> Frames]
    /\ DOMAIN pending \subseteq ReviewIds
    /\ \A id \in DOMAIN pending : pending[id] \in Challenges
    /\ consumedReviews \subseteq ReviewIds /\ tampered \subseteq consumedReviews
    /\ consumedApprovals \subseteq ApprovalIds
    /\ issued \subseteq Artifacts /\ DOMAIN accepted \subseteq issued
    /\ DOMAIN pending \cap consumedReviews = {}

\* One review leads to one artifact at most, however calls that carry the same
\* challenge interleave and whichever of them fail on the way.
OneApprovalPerReview ==
    \A a, b \in issued : a.review = b.review => a = b

\* A submission that differed from what was registered ends the review: no
\* artifact ever comes from it, not even for the exact challenge submitted later.
TamperedReviewsIssueNothing ==
    \A a \in issued : a.review \notin tampered

\* An artifact is accepted once, although two verifications of it may both have
\* passed every check before either reaches the registry, and although the id
\* port may have given its id to another artifact.
ApprovalsAreConsumedOnce ==
    /\ \A a \in DOMAIN accepted : accepted[a] <= 1
    /\ \A a, b \in DOMAIN accepted : a.id = b.id => a = b

\* An artifact ends with its contract and has no more than its time to live.
Bounded(a) ==
    /\ a.expiresAt <= ContractEnds[a.contract]
    /\ a.expiresAt - a.issuedAt <= ApprovalTtl

\* No artifact outlives the contract it approves or its own time to live,
\* although its times were fixed before the signing port was awaited.
ApprovalsEndWithContract ==
    \A a \in issued : Bounded(a)

\* A call that has consumed a review and not yet returned, and that review.
Holding(f) == f.at \in {"consumed", "built", "signed"}
ReviewOf(f) == IF f.at = "consumed" THEN f.review ELSE f.artifact.review

\* A call that holds a review is the only one, and nothing was issued for it.
HoldsItsReview(k) ==
    Holding(call[k]) =>
        /\ ReviewOf(call[k]) \in consumedReviews \ tampered
        /\ \A a \in issued : a.review # ReviewOf(call[k])
        /\ \A j \in Calls \ {k} : Holding(call[j]) => ReviewOf(call[j]) # ReviewOf(call[k])

\* The inductive invariant.
ApprovalInv ==
    /\ ApprovalTypeOK
    /\ \A k \in Calls :
          /\ HoldsItsReview(k)
          /\ call[k].at \in {"built", "signed"} => Bounded(call[k].artifact)
          /\ call[k].at = "verified" => call[k].artifact \in issued
    /\ \A a \in issued : a.review \in consumedReviews
    /\ OneApprovalPerReview
    /\ TamperedReviewsIssueNothing
    /\ ApprovalsEndWithContract
    /\ \A a \in DOMAIN accepted : a.id \in consumedApprovals /\ accepted[a] = 1
    /\ ApprovalsAreConsumedOnce

\* Authority is handed out only at a moment when the approval is live: within
\* its time, with the reviewer's key still trusted and the contract's policy and
\* registries still the current ones, whatever changed since it was verified.
AcceptedWhileLive ==
    [][\A a \in DOMAIN accepted' :
          (IF a \in DOMAIN accepted THEN accepted[a] ELSE 0) # accepted'[a] =>
              /\ a.issuedAt <= clock /\ clock < a.expiresAt
              /\ a.reviewer \in trusted
              /\ current = CommitmentOf[a.contract]]_vars
=============================================================================
