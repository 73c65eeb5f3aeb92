----------------------------- MODULE MCApproval -----------------------------
(***************************************************************************)
(* A small instance of Approval: two calls, a contract that ends before an *)
(* approval's time to live would, and ids that may be drawn twice.         *)
(***************************************************************************)
EXTENDS Approval, TLC

MCCommitmentOf == [c \in Contracts |-> "signed"]
MCContractEnds == [c \in Contracts |-> 2]

Symmetry == Permutations(Calls) \cup Permutations(Reviewers) \cup Permutations(Contracts)
=============================================================================
