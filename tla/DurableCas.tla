----------------------------- MODULE DurableCas -----------------------------
(***************************************************************************)
(* What a durable compare-and-swap store promises its callers, and what    *)
(* the execution control plane takes for granted of its storage port       *)
(* (linearizableCas, stableBeforeSuccess and multiProcessCas of            *)
(* POSIX_LOCAL_CONTROL_PLANE_DURABILITY): every change of the store moves  *)
(* one key from its current revision to the next, and a change whose       *)
(* success was reported is never lost.  A change nobody was told about may *)
(* disappear with the power.                                               *)
(***************************************************************************)
EXTENDS Naturals

CONSTANT Keys

VARIABLES revision,  \* the revision each key has in the store
          reported   \* the greatest revision whose APPLIED was returned

casVars == <<revision, reported>>

CasInit ==
  /\ revision = [k \in Keys |-> 0]
  /\ reported = [k \in Keys |-> 0]

(* One key moves to the successor of its current revision. *)
Swap(k) ==
  /\ revision' = [revision EXCEPT ![k] = @ + 1]
  /\ UNCHANGED reported

(* APPLIED reaches a caller: only for what is in the store. *)
Report(k) ==
  /\ \E r \in (reported[k] + 1) .. revision[k] :
       reported' = [reported EXCEPT ![k] = r]
  /\ UNCHANGED revision

(* A power loss takes the store back, but behind no reported revision. *)
Forget ==
  /\ revision' \in [Keys -> Nat]
  /\ \A k \in Keys : reported[k] <= revision'[k] /\ revision'[k] <= revision[k]
  /\ UNCHANGED reported

CasNext == (\E k \in Keys : Swap(k) \/ Report(k)) \/ Forget

CasSpec == CasInit /\ [][CasNext]_casVars
=============================================================================
