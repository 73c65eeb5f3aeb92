-------------------------- MODULE MCEvidenceChain ---------------------------
(***************************************************************************)
(* A small instance of EvidenceChain: two instances, two appends under way *)
(* and four attestations, of which a2 and a3 share a ticket; a third record is  *)
(* one too many.                                                           *)
(***************************************************************************)
EXTENDS EvidenceChain, TLC

MCIdentities == [a \in Attestations |-> IF a \in {"a2", "a3"} THEN {a, "ticket"} ELSE {a}]
MCSignerOf == [a \in Attestations |-> IF a = "a1" THEN "s1" ELSE "s2"]

Symmetry == Permutations(Ledgers) \cup Permutations(Calls)
=============================================================================
