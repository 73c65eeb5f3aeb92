SPECIFICATION ApprovalSpec
CONSTANTS
    Calls = {k1, k2}
    Contracts = {c1, c2}
    Reviewers = {v1, v2}
    Commitments = {"signed", "changed"}
    CommitmentOf <- MCCommitmentOf
    ContractEnds <- MCContractEnds
    ReviewIds = {"w1", "w2"}
    ApprovalIds = {"p1"}
    ReviewTtl = 2
    ApprovalTtl = 2
    MaxTime = 2
SYMMETRY Symmetry
INVARIANTS
    OneApprovalPerReview
PROPERTIES
    AcceptedWhileLive
