--------------------------- MODULE MCEffectLedger ---------------------------
(***************************************************************************)
(* A small instance of EffectLedger: two executors, a recoverer and a      *)
(* deliverer of evidence on one record.                                    *)
(***************************************************************************)
EXTENDS EffectLedger

TwoInstants == 0..1

NeverExpires == [t \in Transactions |-> 2]

OwnIdentities == [t \in Transactions |-> {t}]
=============================================================================
