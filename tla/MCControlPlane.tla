--------------------------- MODULE MCControlPlane ---------------------------
(***************************************************************************)
(* Small instances of ControlPlane: processes that race for one            *)
(* transaction, and three transactions of which u2 shares its permit and   *)
(* receipt with u1 and its nonce with u3.                                  *)
(***************************************************************************)
EXTENDS ControlPlane, TLC

MCTime == 0..2
OneInstant == {0}

Early == [t \in Transactions |-> 0]
Late == [t \in Transactions |-> 1]

OwnNonces == [t \in Transactions |-> {t}]
PairedNonces == [t \in Transactions |-> IF t = "u2" THEN {"u3"} ELSE {t}]

OwnIds == [t \in Transactions |-> t]
PairedIds == [t \in Transactions |-> IF t = "u2" THEN "u1" ELSE t]

Symmetry == Permutations(Processes) \cup Permutations(Transactions)
=============================================================================
