--------------------------- MODULE MCKartonPorts ---------------------------
(* Instances of KartonPorts for TLC. *)
EXTENDS KartonPorts
=============================================================================
