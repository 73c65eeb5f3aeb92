---------------------------- MODULE MCPosixStore ----------------------------
(***************************************************************************)
(* Small instances of PosixStore.                                          *)
(***************************************************************************)
EXTENDS PosixStore, TLC

CONSTANTS c1, c2, c3, i1, i2

(* two calls of one process interleave with the call of another *)
MCInstanceOf == [c \in Calls |-> IF c = c3 THEN i2 ELSE i1]
MCIdentities == [t \in Txns |-> {t}]
MCContents == Snapshots
(* the calls of one process are interchangeable, and so are the transactions *)
Symmetry == Permutations({c1, c2}) \cup Permutations(Txns)
=============================================================================
